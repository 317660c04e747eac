--------------------------- MODULE SupadataKeyRing ---------------------------
(* src/src/transcripts/supadata_keys.py: one ordered ring of API keys shared *)
(* by every fetcher of the process, and the one caller that holds on to a    *)
(* key, SuperdataTranscriptFetcher (fetcher.py): a transcript that Supadata  *)
(* produces asynchronously is polled with the key that started the job.      *)
(*                                                                           *)
(* A call reads the active key without the lock, spends up to ThrottleRetries *)
(* requests on it, and only then takes the lock to retire it; other threads  *)
(* retire keys in between.                                                   *)
EXTENDS Integers

CONSTANTS NKeys,            \* len(ring.keys)
          ThrottleRetries,  \* ring.throttle_retries
          Threads,          \* threads with a fetcher
          NoKey

ASSUME NKeysAssumption == NKeys \in Nat \ {0}
ASSUME ThrottleRetriesAssumption == ThrottleRetries \in Nat \ {0}

Keys == 0 .. NKeys - 1
ASSUME NoKeyAssumption == NoKey \notin Keys

(* Where a thread's call stands.  asking and checking are requests in        *)
(* flight: one the ring chose the key for, one pinned to a key.              *)
Steps == {"idle", "picking", "asking", "marking", "waiting", "checking"}

VARIABLES
  active,     \* ring.active
  exhausted,  \* the keys of ring.exhausted; their wording is left out
  at,         \* at[t]: point of control of thread t
  key,        \* key[t]: the key index its request uses
  attempt,    \* attempt[t]: requests already answered by a throttle or not at all
  usedUp,     \* Supadata: keys whose plan is used up
  owner,      \* Supadata: owner[t], the key that started the job t waits for
  tried       \* history: tried[t], the keys this call has had retired

vars == <<active, exhausted, at, key, attempt, usedUp, owner, tried>>

Init == /\ active = 0
        /\ exhausted = {}
        /\ at = [t \in Threads |-> "idle"]
        /\ key = [t \in Threads |-> NoKey]
        /\ attempt = [t \in Threads |-> 0]
        /\ usedUp = {}
        /\ owner = [t \in Threads |-> NoKey]
        /\ tried = [t \in Threads |-> {}]

ring == <<active, exhausted>>

(* The month's plan of a key runs out; it is not renewed within a run.       *)
UseUp(k) == /\ k \notin usedUp
            /\ usedUp' = usedUp \cup {k}
            /\ UNCHANGED <<ring, at, key, attempt, owner, tried>>

-----------------------------------------------------------------------------
(* SupadataKeyRing.get, and the fetcher around it.                           *)

Call(t) == /\ at[t] = "idle"
           /\ at' = [at EXCEPT ![t] = "picking"]
           /\ UNCHANGED <<ring, key, attempt, usedUp, owner, tried>>

Pick(t) == /\ at[t] = "picking"
           /\ key' = [key EXCEPT ![t] = active]
           /\ attempt' = [attempt EXCEPT ![t] = 0]
           /\ at' = [at EXCEPT ![t] = "asking"]
           /\ UNCHANGED <<ring, usedUp, owner, tried>>

(* The call of t is over, with an answer or an exception; its thread may     *)
(* make another one.                                                         *)
Return(t) == /\ at' = [at EXCEPT ![t] = "idle"]
             /\ key' = [key EXCEPT ![t] = NoKey]
             /\ attempt' = [attempt EXCEPT ![t] = 0]
             /\ owner' = [owner EXCEPT ![t] = NoKey]
             /\ tried' = [tried EXCEPT ![t] = {}]

(* Any status but 429 goes to the caller. *)
Answer(t) == /\ at[t] \in {"asking", "checking"}
             /\ Return(t)
             /\ UNCHANGED <<ring, usedUp>>

(* 202: Supadata has started a job, which belongs to this key. *)
Accept(t) == /\ at[t] = "asking"
             /\ key[t] \notin usedUp
             /\ owner' = [owner EXCEPT ![t] = key[t]]
             /\ at' = [at EXCEPT ![t] = "waiting"]
             /\ attempt' = [attempt EXCEPT ![t] = 0]
             /\ UNCHANGED <<ring, key, usedUp, tried>>

(* A 429 the ring gives up on: it retires the key, a pinned caller fails. *)
GiveUpOnKey(t) ==
  IF at[t] = "asking"
  THEN /\ at' = [at EXCEPT ![t] = "marking"]
       /\ UNCHANGED <<key, attempt, owner, tried>>
  ELSE Return(t)

Refuse(t) == /\ at[t] \in {"asking", "checking"}
             /\ key[t] \in usedUp
             /\ GiveUpOnKey(t)
             /\ UNCHANGED <<ring, usedUp>>

Again(t) == /\ attempt[t] + 1 < ThrottleRetries
            /\ attempt' = [attempt EXCEPT ![t] = @ + 1]
            /\ UNCHANGED <<at, key, owner, tried>>

(* Mutant: a throttled call starts over, so it never retires its key. *)
Throttle_Restart(t) == /\ at[t] = "asking"
                       /\ at' = [at EXCEPT ![t] = "picking"]
                       /\ key' = [key EXCEPT ![t] = NoKey]
                       /\ attempt' = [attempt EXCEPT ![t] = 0]
                       /\ UNCHANGED <<ring, usedUp, owner, tried>>

(* A per-second rate limit: back off, and after the last attempt treat the   *)
(* answer like any other 429.                                                *)
Throttle(t) == /\ at[t] \in {"asking", "checking"}
               /\ \/ Again(t)
                  \/ attempt[t] + 1 = ThrottleRetries /\ GiveUpOnKey(t)
               /\ UNCHANGED <<ring, usedUp>>

(* No answer: back off, and after the last attempt raise httpx.HTTPError. *)
Unreachable(t) == /\ at[t] \in {"asking", "checking"}
                  /\ \/ Again(t)
                     \/ attempt[t] + 1 = ThrottleRetries /\ Return(t)
                  /\ UNCHANGED <<ring, usedUp>>

(* The keys left once t has retired its own. *)
Left(t) == Keys \ (exhausted \cup {key[t]})

Retire(t) == /\ at[t] = "marking"
             /\ exhausted' = exhausted \cup {key[t]}
             /\ UNCHANGED usedUp

(* _mark_exhausted, under the lock: SupadataQuotaError when nothing is left. *)
MarkLast(t) == /\ Retire(t)
               /\ Left(t) = {}
               /\ Return(t)
               /\ UNCHANGED active

(* Mutant: whoever retires a key advances the ring. *)
MarkAndMove_Always(t) ==
  /\ Retire(t)
  /\ Left(t) # {}
  /\ active' = IF key[t] + 1 \in Keys THEN key[t] + 1 ELSE 0
  /\ at' = [at EXCEPT ![t] = "picking"]
  /\ key' = [key EXCEPT ![t] = NoKey]
  /\ tried' = [tried EXCEPT ![t] = @ \cup {key[t]}]
  /\ UNCHANGED <<attempt, owner>>

(* Only a thread whose key is still the active one advances the ring. *)
MarkAndMove(t) ==
  /\ Retire(t)
  /\ Left(t) # {}
  /\ IF active = key[t]
     THEN \E k \in Left(t) : /\ \A other \in Left(t) : k <= other
                             /\ active' = k
     ELSE UNCHANGED active
  /\ at' = [at EXCEPT ![t] = "picking"]
  /\ key' = [key EXCEPT ![t] = NoKey]
  /\ tried' = [tried EXCEPT ![t] = @ \cup {key[t]}]
  /\ UNCHANGED <<attempt, owner>>

-----------------------------------------------------------------------------
(* SuperdataTranscriptFetcher._poll_job. *)

(* Mutant: the job is polled with the ring's key of the moment. *)
Check_Active(t) == /\ at[t] = "waiting"
                   /\ key' = [key EXCEPT ![t] = active]
                   /\ at' = [at EXCEPT ![t] = "checking"]
                   /\ attempt' = [attempt EXCEPT ![t] = 0]
                   /\ UNCHANGED <<ring, usedUp, owner, tried>>

Check(t) == /\ at[t] = "waiting"
            /\ at' = [at EXCEPT ![t] = "checking"]
            /\ attempt' = [attempt EXCEPT ![t] = 0]
            /\ UNCHANGED <<ring, key, usedUp, owner, tried>>

(* Still in progress: sleep. *)
Pending(t) == /\ at[t] = "checking"
              /\ at' = [at EXCEPT ![t] = "waiting"]
              /\ UNCHANGED <<ring, key, attempt, usedUp, owner, tried>>

(* The deadline is looked at between two polls. *)
TimeOut(t) == /\ at[t] = "waiting"
              /\ Return(t)
              /\ UNCHANGED <<ring, usedUp>>

-----------------------------------------------------------------------------
Progress(t) == \/ Pick(t)
               \/ Answer(t)
               \/ Accept(t)
               \/ Refuse(t)
               \/ Throttle(t)
               \/ Unreachable(t)
               \/ MarkLast(t)
               \/ MarkAndMove(t)
               \/ Check(t)
               \/ Pending(t)
               \/ TimeOut(t)

Next == \/ \E k \in Keys : UseUp(k)
        \/ \E t \in Threads : Call(t) \/ Progress(t)

Spec == Init /\ [][Next]_vars

(* A request is answered or times out, a thread goes on, and the clock       *)
(* passes the polling deadline; nobody has to make a call.                   *)
Fairness == \A t \in Threads : WF_vars(Progress(t)) /\ SF_vars(TimeOut(t))

FairSpec == Spec /\ Fairness

-----------------------------------------------------------------------------
(* Properties *)

TypeOK == /\ active \in Keys
          /\ exhausted \in SUBSET Keys
          /\ at \in [Threads -> Steps]
          /\ key \in [Threads -> Keys \cup {NoKey}]
          /\ attempt \in [Threads -> 0 .. ThrottleRetries - 1]
          /\ usedUp \in SUBSET Keys
          /\ owner \in [Threads -> Keys \cup {NoKey}]
          /\ tried \in [Threads -> SUBSET Keys]

(* As long as a key is left, the active key is the first one left, whatever  *)
(* the order in which threads retire keys they picked earlier (docstring:    *)
(* "The first key is always tried first").                                   *)
ActiveIsFirstLeft ==
  exhausted # Keys => /\ active \notin exhausted
                      /\ \A k \in Keys : k < active => k \in exhausted

(* A call never spends a request on a key it has itself had retired, so it   *)
(* asks each key once and its loop ends after at most NKeys rounds.          *)
NeverAsksTwice ==
  \A t \in Threads : at[t] = "asking" => key[t] \notin tried[t]

(* A job is polled with the key that started it, even after another thread   *)
(* has moved the ring on (_poll_job: "The job belongs to the org that        *)
(* started it: poll with that key").                                         *)
PollsWithOwner ==
  \A t \in Threads : at[t] = "checking" => key[t] = owner[t]

(* The ring only moves forward and no key comes back (docstring: "moves on   *)
(* to the next key, and stays there for the life of the process").           *)
MovesForward == [][active' >= active /\ exhausted \subseteq exhausted']_vars

(* Every call returns or raises. *)
EveryCallEnds == \A t \in Threads : at[t] = "picking" ~> at[t] = "idle"
=============================================================================
