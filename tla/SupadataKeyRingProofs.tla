------------------------ MODULE SupadataKeyRingProofs ------------------------
(* TLAPS proofs of the safety properties of SupadataKeyRing, for any number  *)
(* of keys, threads and retries.                                             *)
EXTENDS SupadataKeyRing, TLAPS

(* What a call in progress remembers is consistent with the ring: the keys   *)
(* it had retired are in exhausted; the active key is not one of them, which *)
(* is what it may pick next; and the key in use has not been retired by it.  *)
Memory == \A t \in Threads :
             /\ at[t] # "idle" => /\ tried[t] \subseteq exhausted
                                  /\ active \notin tried[t]
             /\ at[t] \in {"asking", "marking"} => key[t] \in Keys \ tried[t]
             /\ at[t] = "idle" => tried[t] = {}
             /\ at[t] \in {"waiting", "checking"} => key[t] \in Keys /\ key[t] = owner[t]

IInv == TypeOK /\ ActiveIsFirstLeft /\ Memory

LEMMA InitIInv == Init => IInv
  BY NKeysAssumption, ThrottleRetriesAssumption
  DEF Init, IInv, TypeOK, ActiveIsFirstLeft, Memory, Keys, Steps

(* A call that ends leaves the ring alone. *)
LEMMA ReturnIInv ==
  ASSUME IInv, NEW t \in Threads, Return(t), UNCHANGED <<ring, usedUp>>
  PROVE  IInv'
<1>1. TypeOK'
  BY ThrottleRetriesAssumption DEF IInv, TypeOK, Return, ring, Steps
<1>2. ActiveIsFirstLeft'
  BY DEF IInv, ActiveIsFirstLeft, ring
<1>3. Memory'
  BY DEF IInv, TypeOK, Memory, Return, ring
<1> QED BY <1>1, <1>2, <1>3 DEF IInv

LEMMA GiveUpIInv ==
  ASSUME IInv, NEW t \in Threads, at[t] \in {"asking", "checking"},
         GiveUpOnKey(t), UNCHANGED <<ring, usedUp>>
  PROVE  IInv'
<1>1. CASE at[t] = "asking"
  <2>1. TypeOK'
    BY <1>1 DEF IInv, TypeOK, GiveUpOnKey, ring, Steps
  <2>2. ActiveIsFirstLeft'
    BY DEF IInv, ActiveIsFirstLeft, ring
  <2>3. Memory'
    BY <1>1 DEF IInv, TypeOK, Memory, GiveUpOnKey, ring
  <2> QED BY <2>1, <2>2, <2>3 DEF IInv
<1>2. CASE at[t] = "checking"
  BY <1>2, ReturnIInv DEF GiveUpOnKey
<1> QED BY <1>1, <1>2

LEMMA AgainIInv ==
  ASSUME IInv, NEW t \in Threads, Again(t), UNCHANGED <<ring, usedUp>>
  PROVE  IInv'
<1>1. TypeOK'
  BY ThrottleRetriesAssumption DEF IInv, TypeOK, Again, ring
<1>2. ActiveIsFirstLeft'
  BY DEF IInv, ActiveIsFirstLeft, ring
<1>3. Memory'
  BY DEF IInv, TypeOK, Memory, Again, ring
<1> QED BY <1>1, <1>2, <1>3 DEF IInv

(* The last key to be retired: exhausted becomes Keys, so nothing more is    *)
(* claimed of the active key, but no other call has had it retired.          *)
LEMMA MarkLastIInv ==
  ASSUME IInv, NEW t \in Threads, MarkLast(t)
  PROVE  IInv'
<1>1. key[t] \in Keys
  BY DEF IInv, Memory, MarkLast, Retire
<1>2. exhausted' = Keys
  BY <1>1 DEF IInv, TypeOK, MarkLast, Retire, Left
<1>3. TypeOK'
  BY <1>1, ThrottleRetriesAssumption DEF IInv, TypeOK, MarkLast, Retire, Return, Steps
<1>4. ActiveIsFirstLeft'
  BY <1>2 DEF ActiveIsFirstLeft, Keys
<1>5. Memory'
  BY <1>2 DEF IInv, TypeOK, Memory, MarkLast, Retire, Return
<1> QED BY <1>3, <1>4, <1>5 DEF IInv

(* Another key is left: exhausted is still not Keys, so the active key was   *)
(* not retired before, and is not retired now unless it moves.               *)
LEMMA MarkAndMoveIInv ==
  ASSUME IInv, NEW t \in Threads, MarkAndMove(t)
  PROVE  /\ IInv'
         /\ active' >= active
<1>1. key[t] \in Keys \ tried[t]
  BY DEF IInv, Memory, MarkAndMove, Retire
<1>2. /\ exhausted # Keys
      /\ exhausted' = exhausted \cup {key[t]}
  BY DEF MarkAndMove, Retire, Left
<1>3. /\ active \in Keys
      /\ active \notin exhausted
      /\ \A k \in Keys : k < active => k \in exhausted
  BY <1>2 DEF IInv, TypeOK, ActiveIsFirstLeft
<1>4. /\ active' \in Keys
      /\ active' \notin exhausted'
      /\ \A k \in Keys : k < active' => k \in exhausted'
      /\ active' >= active
  <2>1. CASE active = key[t]
    <3>1. PICK k \in Left(t) : /\ \A other \in Left(t) : k <= other
                               /\ active' = k
      BY <2>1 DEF MarkAndMove
    <3>2. Left(t) = Keys \ exhausted'
      BY <1>2 DEF Left
    <3> QED BY <1>2, <1>3, <3>1, <3>2, NKeysAssumption DEF Keys
  <2>2. CASE active # key[t]
    BY <1>2, <1>3, <2>2, NKeysAssumption DEF MarkAndMove, Keys
  <2> QED BY <2>1, <2>2
<1>5. TypeOK'
  BY <1>1, <1>2, <1>4 DEF IInv, TypeOK, MarkAndMove, Retire, Steps
<1>6. ActiveIsFirstLeft'
  BY <1>4 DEF ActiveIsFirstLeft, Keys
<1>7. Memory'
  <2> SUFFICES ASSUME NEW u \in Threads
               PROVE  /\ at'[u] # "idle" => /\ tried'[u] \subseteq exhausted'
                                            /\ active' \notin tried'[u]
                      /\ at'[u] \in {"asking", "marking"} => key'[u] \in Keys \ tried'[u]
                      /\ at'[u] = "idle" => tried'[u] = {}
                      /\ at'[u] \in {"waiting", "checking"}
                           => key'[u] \in Keys /\ key'[u] = owner'[u]
    BY DEF Memory, Keys
  <2>1. CASE u = t
    BY <1>2, <1>4, <2>1 DEF IInv, TypeOK, Memory, MarkAndMove, Retire
  <2>2. CASE u # t
    BY <1>2, <1>4, <2>2 DEF IInv, TypeOK, Memory, MarkAndMove, Retire
  <2> QED BY <2>1, <2>2
<1> QED BY <1>4, <1>5, <1>6, <1>7 DEF IInv

(* One step per action; only the two that retire a key touch the ring. *)
LEMMA StepIInv ==
  ASSUME IInv, [Next]_vars
  PROVE  /\ IInv'
         /\ active' >= active
         /\ exhausted \subseteq exhausted'
<1>0. active \in Int
  BY NKeysAssumption DEF IInv, TypeOK, Keys
<1>1. ASSUME NEW k \in Keys, UseUp(k) PROVE IInv' /\ UNCHANGED ring
  BY <1>1 DEF IInv, TypeOK, ActiveIsFirstLeft, Memory, UseUp, ring
<1>2. ASSUME NEW t \in Threads, Call(t) PROVE IInv' /\ UNCHANGED ring
  <2>1. TypeOK'
    BY <1>2 DEF IInv, TypeOK, Call, ring, Steps
  <2>2. ActiveIsFirstLeft'
    BY <1>2 DEF IInv, ActiveIsFirstLeft, Call, ring
  <2>3. Memory'
    BY <1>2 DEF IInv, TypeOK, Memory, Call, ring
  <2> QED BY <1>2, <2>1, <2>2, <2>3 DEF IInv, Call
<1>3. ASSUME NEW t \in Threads, Pick(t) PROVE IInv' /\ UNCHANGED ring
  <2>1. TypeOK'
    BY <1>3, ThrottleRetriesAssumption DEF IInv, TypeOK, Pick, ring, Steps
  <2>2. ActiveIsFirstLeft'
    BY <1>3 DEF IInv, ActiveIsFirstLeft, Pick, ring
  <2>3. Memory'
    BY <1>3 DEF IInv, TypeOK, Memory, Pick, ring
  <2> QED BY <1>3, <2>1, <2>2, <2>3 DEF IInv, Pick
<1>4. ASSUME NEW t \in Threads, Answer(t) PROVE IInv' /\ UNCHANGED ring
  BY <1>4, ReturnIInv DEF Answer
<1>5. ASSUME NEW t \in Threads, Accept(t) PROVE IInv' /\ UNCHANGED ring
  <2>1. TypeOK'
    BY <1>5, ThrottleRetriesAssumption DEF IInv, TypeOK, Accept, ring, Steps
  <2>2. ActiveIsFirstLeft'
    BY <1>5 DEF IInv, ActiveIsFirstLeft, Accept, ring
  <2>3. Memory'
    BY <1>5 DEF IInv, TypeOK, Memory, Accept, ring
  <2> QED BY <1>5, <2>1, <2>2, <2>3 DEF IInv, Accept
<1>6. ASSUME NEW t \in Threads, Refuse(t) PROVE IInv' /\ UNCHANGED ring
  BY <1>6, GiveUpIInv DEF Refuse
<1>7. ASSUME NEW t \in Threads, Throttle(t) PROVE IInv' /\ UNCHANGED ring
  BY <1>7, GiveUpIInv, AgainIInv DEF Throttle
<1>8. ASSUME NEW t \in Threads, Unreachable(t) PROVE IInv' /\ UNCHANGED ring
  BY <1>8, ReturnIInv, AgainIInv DEF Unreachable
<1>9. ASSUME NEW t \in Threads, MarkLast(t)
      PROVE  IInv' /\ active' = active /\ exhausted \subseteq exhausted'
  BY <1>9, MarkLastIInv DEF MarkLast, Retire
<1>10. ASSUME NEW t \in Threads, MarkAndMove(t)
       PROVE  IInv' /\ active' >= active /\ exhausted \subseteq exhausted'
  BY <1>10, MarkAndMoveIInv DEF MarkAndMove, Retire
<1>11. ASSUME NEW t \in Threads, Check(t) PROVE IInv' /\ UNCHANGED ring
  <2>1. TypeOK'
    BY <1>11, ThrottleRetriesAssumption DEF IInv, TypeOK, Check, ring, Steps
  <2>2. ActiveIsFirstLeft'
    BY <1>11 DEF IInv, ActiveIsFirstLeft, Check, ring
  <2>3. Memory'
    BY <1>11 DEF IInv, TypeOK, Memory, Check, ring
  <2> QED BY <1>11, <2>1, <2>2, <2>3 DEF IInv, Check
<1>12. ASSUME NEW t \in Threads, Pending(t) PROVE IInv' /\ UNCHANGED ring
  <2>1. TypeOK'
    BY <1>12 DEF IInv, TypeOK, Pending, ring, Steps
  <2>2. ActiveIsFirstLeft'
    BY <1>12 DEF IInv, ActiveIsFirstLeft, Pending, ring
  <2>3. Memory'
    BY <1>12 DEF IInv, TypeOK, Memory, Pending, ring
  <2> QED BY <1>12, <2>1, <2>2, <2>3 DEF IInv, Pending
<1>13. ASSUME NEW t \in Threads, TimeOut(t) PROVE IInv' /\ UNCHANGED ring
  BY <1>13, ReturnIInv DEF TimeOut
<1>14. ASSUME UNCHANGED vars PROVE IInv' /\ UNCHANGED ring
  BY <1>14 DEF vars, IInv, TypeOK, ActiveIsFirstLeft, Memory, ring
<1> QED
  BY <1>0, <1>1, <1>2, <1>3, <1>4, <1>5, <1>6, <1>7, <1>8, <1>9, <1>10, <1>11, <1>12,
     <1>13, <1>14
  DEF Next, Progress, ring

-----------------------------------------------------------------------------
(* IInv holds in every reachable state of the ring and its callers. *)
THEOREM Invariance == Spec => []IInv
<1>1. IInv /\ [Next]_vars => IInv'
  BY StepIInv
<1> QED BY InitIInv, <1>1, PTL DEF Spec

(* Every variable of the ring, and of the calls in progress, has its type:   *)
(* in particular no key gets more than throttle_retries attempts in a call.  *)
THEOREM TypeCorrect == Spec => []TypeOK
<1>1. IInv => TypeOK
  BY DEF IInv
<1> QED BY Invariance, <1>1, PTL

(* While a key is left the active key is the first one left, however the     *)
(* threads' retirements interleave (_mark_exhausted).                        *)
THEOREM FirstKeyFirst == Spec => []ActiveIsFirstLeft
<1>1. IInv => ActiveIsFirstLeft
  BY DEF IInv
<1> QED BY Invariance, <1>1, PTL

(* A call asks each key at most once, so get's loop runs at most NKeys times. *)
THEOREM EachKeyOnce == Spec => []NeverAsksTwice
<1>1. IInv => NeverAsksTwice
  BY DEF IInv, Memory, NeverAsksTwice
<1> QED BY Invariance, <1>1, PTL

(* An asynchronous job is polled with the key that started it (_poll_job).   *)
THEOREM OwnKey == Spec => []PollsWithOwner
<1>1. IInv => PollsWithOwner
  BY DEF IInv, Memory, PollsWithOwner
<1> QED BY Invariance, <1>1, PTL

(* The ring never moves back and never takes a retired key up again. *)
THEOREM NoWayBack == Spec => MovesForward
<1>1. IInv /\ [Next]_vars => [active' >= active /\ exhausted \subseteq exhausted']_vars
  BY StepIInv
<1> QED BY Invariance, <1>1, PTL DEF Spec, MovesForward
=============================================================================
