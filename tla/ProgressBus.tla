----------------------------- MODULE ProgressBus -----------------------------
(* How a job's progress reaches the browser tabs (ingestion_queue.py:         *)
(* subscribe, _broadcast_job, the threads that call it).  Three threads        *)
(* broadcast for a job: the request that enqueued it, the worker that runs it  *)
(* and the indexing thread that reports stages.  Each copies the subscriber    *)
(* list under the lock, builds its event from the job without the lock, and    *)
(* puts it on the subscribers' queues one by one, so the threads interleave    *)
(* between any two of these steps, and so does a tab that is connecting.       *)
(*                                                                             *)
(* What a job shows is its place on a timeline: queued, running, at some later *)
(* stage, ended.  Jobs meet only in the subscriber list, so the snapshot's     *)
(* reading them one after the other is one step here.  A tab's queue is FIFO   *)
(* and the page applies it in order, so a tab's view is updated as the event   *)
(* is put.                                                                     *)
EXTENDS ProgressTabs, FiniteSets

vars == <<phase, submitted, sender, event, recipients, subscribers, tab, seed, view, clear>>

Nothing == [j \in Shown |-> Unknown]

Init == /\ phase = Nothing
        /\ submitted = {}
        /\ sender = [j \in Shown |-> [r \in Senders |-> "off"]]
        /\ event = [j \in Shown |-> [r \in Senders |-> Unknown]]
        /\ recipients = [j \in Shown |-> [r \in Senders |-> {}]]
        /\ subscribers = {}
        /\ tab = [t \in Tabs |-> "out"]
        /\ seed = [t \in Tabs |-> Nothing]
        /\ view = [t \in Tabs |-> Nothing]
        /\ clear = [j \in Shown |-> {}]

busVars == <<subscribers, tab, seed, view>>
sendVars == <<event, recipients>>

-----------------------------------------------------------------------------
(* The threads of a job.                                                     *)

(* enqueue: the job is in the list before its id is on the FIFO. *)
Register(j) ==
  /\ phase[j] = Unknown
  /\ phase' = [phase EXCEPT ![j] = Queued]
  /\ sender' = [sender EXCEPT ![j]["caller"] = "submit"]
  /\ UNCHANGED <<submitted, sendVars, busVars, clear>>

(* From here a worker may run the job while its caller still broadcasts it.  *)
Submit(j) ==
  /\ sender[j]["caller"] = "submit"
  /\ submitted' = submitted \cup {j}
  /\ sender' = [sender EXCEPT ![j]["caller"] = "collect"]
  /\ UNCHANGED <<phase, sendVars, busVars, clear>>

Begin(j) ==
  /\ j \in submitted
  /\ phase[j] = Queued
  /\ phase' = [phase EXCEPT ![j] = Running]
  /\ sender' = [sender EXCEPT ![j]["worker"] = "collect"]
  /\ UNCHANGED <<submitted, sendVars, busVars, clear>>

(* on_stage, on the indexing thread, while the worker waits for it. *)
Stage(j) ==
  /\ phase[j] \in {Running, Staged}
  /\ sender[j]["worker"] = "waiting"
  /\ sender[j]["stages"] = "off"
  /\ phase' = [phase EXCEPT ![j] = Staged]
  /\ sender' = [sender EXCEPT ![j]["stages"] = "collect"]
  /\ UNCHANGED <<submitted, sendVars, busVars, clear>>

(* The worker's wait timed out: same job, a new message. *)
Heartbeat(j) ==
  /\ sender[j]["worker"] = "waiting"
  /\ sender' = [sender EXCEPT ![j]["worker"] = "collect"]
  /\ UNCHANGED <<phase, submitted, sendVars, busVars, clear>>

(* The worker itself announces the graph stage of an ingest. *)
Enrich(j) ==
  /\ sender[j]["worker"] = "waiting"
  /\ sender[j]["stages"] = "off"
  /\ phase' = [phase EXCEPT ![j] = Staged]
  /\ sender' = [sender EXCEPT ![j]["worker"] = "collect"]
  /\ UNCHANGED <<submitted, sendVars, busVars, clear>>

(* Mutant: the worker does not wait for the indexing thread. *)
End_Unjoined(j) ==
  /\ sender[j]["worker"] = "waiting"
  /\ phase' = [phase EXCEPT ![j] = Ended]
  /\ sender' = [sender EXCEPT ![j]["worker"] = "collect"]
  /\ UNCHANGED <<submitted, sendVars, busVars, clear>>

(* The indexing thread has returned, its last broadcast with it. *)
End(j) ==
  /\ sender[j]["worker"] = "waiting"
  /\ sender[j]["stages"] = "off"
  /\ phase' = [phase EXCEPT ![j] = Ended]
  /\ sender' = [sender EXCEPT ![j]["worker"] = "collect"]
  /\ UNCHANGED <<submitted, sendVars, busVars, clear>>

-----------------------------------------------------------------------------
(* _broadcast_job, by sender r of job j.                                     *)

(* The tabs this broadcast of the job's end will reach with nothing of the   *)
(* same job behind it.                                                       *)
CleanlyReached(j, r) ==
  IF r = "worker" /\ phase[j] = Ended /\ sender[j]["caller"] = "off"
  THEN {t \in subscribers : tab[t] = "in"}
  ELSE {}

Collect(j, r) ==
  /\ sender[j][r] = "collect"
  /\ recipients' = [recipients EXCEPT ![j][r] = subscribers]
  /\ sender' = [sender EXCEPT ![j][r] = "build"]
  /\ clear' = [clear EXCEPT ![j] = @ \cup CleanlyReached(j, r)]
  /\ UNCHANGED <<phase, submitted, event, busVars>>

Build(j, r) ==
  /\ sender[j][r] = "build"
  /\ event' = [event EXCEPT ![j][r] = phase[j]]
  /\ sender' = [sender EXCEPT ![j][r] = "put"]
  /\ UNCHANGED <<phase, submitted, recipients, busVars, clear>>

(* Mutant: the first subscriber consumes the event. *)
Deliver_First(j, r, t) ==
  /\ sender[j][r] = "put"
  /\ t \in recipients[j][r]
  /\ view' = IF tab[t] = "gone" THEN view ELSE [view EXCEPT ![t][j] = event[j][r]]
  /\ recipients' = [recipients EXCEPT ![j][r] = {}]
  /\ UNCHANGED <<phase, submitted, sender, event, subscribers, tab, seed, clear>>

(* The subscribers' queues are independent, so the order among them is left  *)
(* open; what is put on the queue of a closed page is never read.            *)
Deliver(j, r, t) ==
  /\ sender[j][r] = "put"
  /\ t \in recipients[j][r]
  /\ view' = IF tab[t] = "gone" THEN view ELSE [view EXCEPT ![t][j] = event[j][r]]
  /\ recipients' = [recipients EXCEPT ![j][r] = @ \ {t}]
  /\ UNCHANGED <<phase, submitted, sender, event, subscribers, tab, seed, clear>>

(* The worker goes back to waiting, unless that was the job's end. *)
Return(j, r) ==
  /\ sender[j][r] = "put"
  /\ recipients[j][r] = {}
  /\ sender' = [sender EXCEPT ![j][r] = IF r = "worker" /\ phase[j] # Ended THEN "waiting" ELSE "off"]
  /\ event' = [event EXCEPT ![j][r] = Unknown]
  /\ UNCHANGED <<phase, submitted, recipients, busVars, clear>>

Broadcast(j, r) == \/ Collect(j, r)
                   \/ Build(j, r)
                   \/ \E t \in Tabs : Deliver(j, r, t)
                   \/ Return(j, r)

-----------------------------------------------------------------------------
(* subscribe: on the list first, then the snapshot, then the snapshot on the *)
(* tab's queue, behind whatever was put there in between.                    *)

Join(t) ==
  /\ tab[t] = "out"
  /\ subscribers' = subscribers \cup {t}
  /\ tab' = [tab EXCEPT ![t] = "joined"]
  /\ clear' = [j \in Shown |-> IF phase[j] = Ended THEN clear[j] \cup {t} ELSE clear[j]]
  /\ UNCHANGED <<phase, submitted, sender, sendVars, seed, view>>

Snapshot(t) ==
  /\ tab[t] = "joined"
  /\ seed' = [seed EXCEPT ![t] = phase]
  /\ tab' = [tab EXCEPT ![t] = "seeding"]
  /\ UNCHANGED <<phase, submitted, sender, sendVars, subscribers, view, clear>>

(* The page replaces all its jobs by the snapshot's. *)
Seed(t) ==
  /\ tab[t] = "seeding"
  /\ view' = [view EXCEPT ![t] = seed[t]]
  /\ seed' = [seed EXCEPT ![t] = Nothing]
  /\ tab' = [tab EXCEPT ![t] = "in"]
  /\ UNCHANGED <<phase, submitted, sender, sendVars, subscribers, clear>>

(* unsubscribe, when the stream notices that its page is closed. *)
Leave(t) ==
  /\ tab[t] = "in"
  /\ subscribers' = subscribers \ {t}
  /\ tab' = [tab EXCEPT ![t] = "gone"]
  /\ view' = [view EXCEPT ![t] = Nothing]
  /\ clear' = [j \in Shown |-> clear[j] \ {t}]
  /\ UNCHANGED <<phase, submitted, sender, sendVars, seed>>

Subscribe(t) == Join(t) \/ Snapshot(t) \/ Seed(t)

Next == \/ \E j \in Shown : Register(j) \/ Submit(j) \/ Begin(j) \/ Stage(j) \/ Heartbeat(j)
                           \/ Enrich(j) \/ End(j)
        \/ \E j \in Shown, r \in Senders : Broadcast(j, r)
        \/ \E t \in Tabs : Subscribe(t) \/ Leave(t)

Spec == Init /\ [][Next]_vars

(* Threads that have started a call finish it, and an index run ends.  Jobs  *)
(* and tabs come as they like; a stage or a heartbeat need not happen.       *)
(* Ending competes with heartbeats for the waiting worker, so it needs to be *)
(* enabled infinitely often rather than for ever.                            *)
Fairness ==
  /\ \A j \in Shown : WF_vars(Submit(j)) /\ WF_vars(Begin(j)) /\ SF_vars(End(j))
  /\ \A j \in Shown, r \in Senders : WF_vars(Broadcast(j, r))
  /\ \A t \in Tabs : WF_vars(Subscribe(t))

FairSpec == Spec /\ Fairness

-----------------------------------------------------------------------------
(* Properties *)

TypeOK ==
  /\ phase \in [Shown -> Phases]
  /\ submitted \subseteq Shown
  /\ sender \in [Shown -> [Senders -> {"off", "submit", "collect", "build", "put", "waiting"}]]
  /\ event \in [Shown -> [Senders -> Phases]]
  /\ recipients \in [Shown -> [Senders -> SUBSET Tabs]]
  /\ subscribers \subseteq Tabs
  /\ tab \in [Tabs -> {"out", "joined", "seeding", "in", "gone"}]
  /\ seed \in [Tabs -> [Shown -> Phases]]
  /\ view \in [Tabs -> [Shown -> Phases]]
  /\ clear \in [Shown -> SUBSET Tabs]

(* Every tab that such an end reaches does come to show it, or disconnects.  *)
TabLearnsOfEnd ==
  \A j \in Shown, t \in Tabs : t \in clear[j] ~> view[t][j] = Ended \/ t \notin clear[j]

=============================================================================
