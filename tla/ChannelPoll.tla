----------------------------- MODULE ChannelPoll -----------------------------
(* Watched text channels: src/src/channels/ and the two loops that poll them *)
(* (_default_channels_poll_fn of src/src/api/main.py, run by a worker of the *)
(* ingestion queue, and _run_poll of channels/cli.py).                       *)
(*                                                                           *)
(* A run reads the whole state file once, visits its channels one by one in  *)
(* memory, ingests what each of them offers, and writes the whole file back  *)
(* at its end.  Nothing keeps two runs apart, so the file a run overwrites   *)
(* need not be the one it read; a run that is killed, or that meets an       *)
(* exception outside ingest's expected ones, writes nothing.                 *)
(*                                                                           *)
(* Time is left out: a channel that is not forced may be due or not.  A feed *)
(* is the set of its items that pass the channel's filters, and that set is  *)
(* its ETag.  Dry runs change nothing.                                       *)
EXTENDS Naturals, FiniteSets

CONSTANTS Channels,    \* enabled channels of channels.yaml
          Items,       \* external ids
          Runs,        \* poll runs that may overlap: queue workers, CLI processes
          MaxItems,    \* channel.max_items_per_poll
          MaxFailures, \* channel.disable_after_failures
          NoTag, NoChannel

ASSUME BoundsAssumption == MaxItems \in Nat \ {0} /\ MaxFailures \in Nat \ {0}
ASSUME NullsAssumption == (\A S \in SUBSET Items : NoTag # S) /\ NoChannel \notin Channels

(* ChannelState.  seen_ids is a set here, below its limit of 5000; the       *)
(* validators are one tag; disabled_reason is there or it is not.            *)
Memory == [seen : SUBSET Items, tag : {NoTag} \cup SUBSET Items,
           failures : 0 .. MaxFailures, disabled : {"no", "yes"}]

Fresh == [seen |-> {}, tag |-> NoTag, failures |-> 0, disabled |-> "no"]

VARIABLES
  file,    \* file[c]: state.json
  stored,  \* items with a row in the web source store; rows are never deleted
  feed,    \* feed[c]: what the source of channel c publishes
  \* a run's locals
  at,      \* at[r]: idle, visiting its channels, or ingesting from one of them
  mem,     \* mem[r]: its ChannelStateStore
  resets,  \* resets[r]: it was started with --reset
  left,    \* left[r]: channels still to visit
  hand,    \* hand[r]: the channel whose candidates it is ingesting
  todo,    \* todo[r]: candidates still to ingest
  \* history, for the properties only
  missed   \* items not stored whose ingest failed, or that had no room in a poll

runVars == <<at, mem, resets, left, hand, todo>>
vars == <<file, stored, feed, runVars, missed>>

Init == /\ file = [c \in Channels |-> Fresh]
        /\ stored = {}
        /\ feed = [c \in Channels |-> {}]
        /\ at = [r \in Runs |-> "idle"]
        /\ mem = [r \in Runs |-> [c \in Channels |-> Fresh]]
        /\ resets = [r \in Runs |-> FALSE]
        /\ left = [r \in Runs |-> {}]
        /\ hand = [r \in Runs |-> NoChannel]
        /\ todo = [r \in Runs |-> {}]
        /\ missed = {}

(* The source publishes, and drops what has left its feed's window. *)
Publish(c) == /\ \E S \in SUBSET Items : feed' = [feed EXCEPT ![c] = S]
              /\ UNCHANGED <<file, stored, runVars, missed>>

-----------------------------------------------------------------------------
(* A run starts, and stops.                                                  *)

(* The file is read once, whatever becomes of it during the run. *)
Begin(r) ==
  /\ at[r] = "idle"
  /\ at' = [at EXCEPT ![r] = "visiting"]
  /\ mem' = [mem EXCEPT ![r] = file]
  /\ \E S \in SUBSET Channels : left' = [left EXCEPT ![r] = S]
  /\ \E b \in BOOLEAN : resets' = [resets EXCEPT ![r] = b]
  /\ UNCHANGED <<file, stored, feed, hand, todo, missed>>

(* What remains of a run that has stopped: nothing. *)
Stop(r) == /\ at' = [at EXCEPT ![r] = "idle"]
           /\ mem' = [mem EXCEPT ![r] = [c \in Channels |-> Fresh]]
           /\ resets' = [resets EXCEPT ![r] = FALSE]
           /\ left' = [left EXCEPT ![r] = {}]
           /\ hand' = [hand EXCEPT ![r] = NoChannel]
           /\ todo' = [todo EXCEPT ![r] = {}]

Save(r) == /\ at[r] = "visiting"
           /\ left[r] = {}
           /\ file' = mem[r]
           /\ Stop(r)
           /\ UNCHANGED <<stored, feed, missed>>

Crash(r) == /\ at[r] # "idle"
            /\ Stop(r)
            /\ UNCHANGED <<file, stored, feed, missed>>

-----------------------------------------------------------------------------
(* One channel: is_due, poll_channel, record_poll.                           *)

(* Mutant: --reset forgets the validators and the verdict, not the count. *)
Recall_KeepsCount(r, c) ==
  IF resets[r] THEN [mem[r][c] EXCEPT !.tag = NoTag, !.disabled = "no"] ELSE mem[r][c]

(* What the run holds about c when it comes to it; --reset keeps seen_ids. *)
Recall(r, c) == IF resets[r] THEN [Fresh EXCEPT !.seen = mem[r][c].seen] ELSE mem[r][c]

Visit(r, c, s) == /\ at[r] = "visiting"
                  /\ c \in left[r]
                  /\ left' = [left EXCEPT ![r] = @ \ {c}]
                  /\ mem' = [mem EXCEPT ![r][c] = s]
                  /\ UNCHANGED <<file, stored, feed, resets>>

(* A disabled channel is not polled even when forced. *)
Skip(r, c) == /\ Visit(r, c, Recall(r, c))
              /\ UNCHANGED <<at, hand, todo, missed>>

Failed(s) ==
  [s EXCEPT !.failures = @ + 1,
            !.disabled = IF s.failures + 1 >= MaxFailures THEN "yes" ELSE @]

Fail(r, c) ==
  LET s == Recall(r, c)
  IN /\ s.disabled = "no"
     /\ Visit(r, c, Failed(s))
     /\ UNCHANGED <<at, hand, todo, missed>>

(* 304, for the tag the last answer came with. *)
NotModified(r, c) ==
  LET s == Recall(r, c)
  IN /\ s.disabled = "no"
     /\ s.tag = feed[c]
     /\ Visit(r, c, [s EXCEPT !.failures = 0])
     /\ UNCHANGED <<at, hand, todo, missed>>

(* _to_candidates: unseen items, as many as one poll may take. *)
Offers(c, s) ==
  LET new == feed[c] \ s.seen
  IN {S \in SUBSET new : \/ Cardinality(S) = MaxItems
                         \/ S = new /\ Cardinality(S) < MaxItems}

(* Mutant: the state is written as soon as the poll is recorded. *)
Find_Saved(r, c) ==
  LET s == Recall(r, c)
  IN /\ s.disabled = "no"
     /\ at[r] = "visiting"
     /\ c \in left[r]
     /\ \E S \in Offers(c, s) :
          /\ mem' = [mem EXCEPT ![r][c] = [s EXCEPT !.failures = 0, !.tag = feed[c]]]
          /\ todo' = [todo EXCEPT ![r] = S]
          /\ missed' = missed \cup ((feed[c] \ s.seen) \ (S \cup stored))
     /\ file' = mem'[r]
     /\ left' = [left EXCEPT ![r] = @ \ {c}]
     /\ at' = [at EXCEPT ![r] = "ingesting"]
     /\ hand' = [hand EXCEPT ![r] = c]
     /\ UNCHANGED <<stored, feed, resets>>

(* The feed itself, with a tag or without: no tag leaves the old one. *)
Find(r, c) ==
  LET s == Recall(r, c)
  IN /\ s.disabled = "no"
     /\ \E S \in Offers(c, s), t \in {feed[c], s.tag} :
          /\ Visit(r, c, [s EXCEPT !.failures = 0, !.tag = t])
          /\ todo' = [todo EXCEPT ![r] = S]
          /\ missed' = missed \cup ((feed[c] \ s.seen) \ (S \cup stored))
     /\ at' = [at EXCEPT ![r] = "ingesting"]
     /\ hand' = [hand EXCEPT ![r] = c]

-----------------------------------------------------------------------------
(* WebIngestor.ingest, and the loop around it.                               *)

Remember(r, i) == mem' = [mem EXCEPT ![r][hand[r]].seen = @ \cup {i}]

Handle(r, i) == /\ at[r] = "ingesting"
                /\ i \in todo[r]
                /\ todo' = [todo EXCEPT ![r] = @ \ {i}]
                /\ UNCHANGED <<file, feed, at, resets, left, hand>>

(* Stored by another channel or run: not fetched again. *)
Known(r, i) == /\ Handle(r, i)
               /\ i \in stored
               /\ Remember(r, i)
               /\ UNCHANGED <<stored, missed>>

(* Fetched, chunked and stored; another run may have stored it meanwhile. *)
Store(r, i) == /\ Handle(r, i)
               /\ stored' = stored \cup {i}
               /\ missed' = missed \ {i}
               /\ Remember(r, i)

(* Mutant: a candidate counts as seen as soon as it was offered. *)
Miss_Remembered(r, i) == /\ Handle(r, i)
                         /\ i \notin stored
                         /\ Remember(r, i)
                         /\ missed' = missed \cup {i}
                         /\ UNCHANGED stored

(* Not fetched, blocked by robots, or below the word floor: outcome.source   *)
(* is None, and the id stays unseen.                                         *)
Miss(r, i) == /\ Handle(r, i)
              /\ i \notin stored
              /\ missed' = missed \cup {i}
              /\ UNCHANGED <<stored, mem>>

(* On to the next channel. *)
Finish(r) == /\ at[r] = "ingesting"
             /\ todo[r] = {}
             /\ at' = [at EXCEPT ![r] = "visiting"]
             /\ hand' = [hand EXCEPT ![r] = NoChannel]
             /\ UNCHANGED <<file, stored, feed, mem, resets, left, todo, missed>>

-----------------------------------------------------------------------------
Progress(r) == \/ \E c \in Channels : \/ Skip(r, c)
                                      \/ Fail(r, c)
                                      \/ NotModified(r, c)
                                      \/ Find(r, c)
               \/ \E i \in Items : Known(r, i) \/ Store(r, i) \/ Miss(r, i)
               \/ Finish(r)
               \/ Save(r)

Next == \/ \E c \in Channels : Publish(c)
        \/ \E r \in Runs : Begin(r) \/ Progress(r) \/ Crash(r)

Spec == Init /\ [][Next]_vars

-----------------------------------------------------------------------------
(* Properties *)

TypeOK == /\ file \in [Channels -> Memory]
          /\ stored \in SUBSET Items
          /\ feed \in [Channels -> SUBSET Items]
          /\ at \in [Runs -> {"idle", "visiting", "ingesting"}]
          /\ mem \in [Runs -> [Channels -> Memory]]
          /\ resets \in [Runs -> BOOLEAN]
          /\ left \in [Runs -> SUBSET Channels]
          /\ hand \in [Runs -> Channels \cup {NoChannel}]
          /\ todo \in [Runs -> SUBSET Items]
          /\ missed \in SUBSET Items

(* An id is seen only if its article is stored, in every run's memory and in *)
(* the file, whichever run wrote it last and wherever one was killed: what   *)
(* failed "can only stay retryable if its id was never recorded as seen"     *)
(* (record_poll).                                                            *)
SeenIsStored ==
  \A c \in Channels : /\ file[c].seen \subseteq stored
                      /\ \A r \in Runs : mem[r][c].seen \subseteq stored

(* A saved tag that will be answered by 304 stands for a feed every item of  *)
(* which is stored, or was attempted and failed, or had no room: no crash    *)
(* and no overlapping run hides an item that was never tried.                *)
TagHidesOnlyMisses ==
  \A c \in Channels : file[c].tag = feed[c] => feed[c] \subseteq stored \cup missed

AtLimit(m) == m.disabled = "yes" <=> m.failures = MaxFailures

(* A channel is disabled exactly when its failures have reached the limit,   *)
(* whatever runs, resets and stale writes it went through (record_poll,      *)
(* reset).                                                                   *)
DisabledAtLimit ==
  \A c \in Channels : /\ AtLimit(file[c])
                      /\ \A r \in Runs : AtLimit(mem[r][c])

=============================================================================
