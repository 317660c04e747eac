-------------------------- MODULE ChannelPollProofs --------------------------
(* TLAPS proofs of the safety properties of ChannelPoll, for any number of   *)
(* channels, items and overlapping runs, and any limits.                     *)
EXTENDS ChannelPoll, TLAPS

(* Candidates in hand: only a run that is ingesting has any. *)
Hands == \A r \in Runs : /\ at[r] = "ingesting" => hand[r] \in Channels
                         /\ at[r] # "ingesting" => hand[r] = NoChannel /\ todo[r] = {}

(* What memory m of a channel may say: S is what is stored, T what has been  *)
(* tried or is in hand.                                                      *)
Honest(m, S, T) == /\ m.seen \subseteq S
                   /\ m.tag # NoTag => m.tag \subseteq T
                   /\ AtLimit(m)

InHand(r, c) == IF hand[r] = c THEN todo[r] ELSE {}

Tried == stored \cup missed

Honesty == \A c \in Channels :
              /\ Honest(file[c], stored, Tried)
              /\ \A r \in Runs : Honest(mem[r][c], stored, Tried \cup InHand(r, c))

IInv == TypeOK /\ Hands /\ Honesty

-----------------------------------------------------------------------------
(* Facts about one channel's memory.                                         *)

LEMMA FreshHonest == Fresh \in Memory /\ \A S, T : Honest(Fresh, S, T)
  BY BoundsAssumption DEF Fresh, Memory, Honest, AtLimit

(* More stored, more tried: still honest. *)
LEMMA HonestMonotone ==
  ASSUME NEW m, NEW S, NEW T, NEW S2, NEW T2, Honest(m, S, T), S \subseteq S2, T \subseteq T2
  PROVE  Honest(m, S2, T2)
  BY DEF Honest

(* A poll changes the count, the tag and the verdict, one at a time. *)
LEMMA Polled ==
  ASSUME NEW s \in Memory, NEW S, NEW T, Honest(s, S, T), s.disabled = "no",
         NEW t \in {NoTag} \cup SUBSET Items, t # NoTag => t \subseteq T
  PROVE  /\ [s EXCEPT !.failures = 0, !.tag = t] \in Memory
         /\ Honest([s EXCEPT !.failures = 0, !.tag = t], S, T)
         /\ [s EXCEPT !.failures = 0] \in Memory
         /\ Honest([s EXCEPT !.failures = 0], S, T)
         /\ Failed(s) \in Memory
         /\ Honest(Failed(s), S, T)
<1>1. /\ s.failures \in 0 .. MaxFailures /\ s.failures # MaxFailures
      /\ s.seen \in SUBSET Items /\ s.tag \in {NoTag} \cup SUBSET Items
  BY DEF Memory, Honest, AtLimit
<1>2. /\ s.failures + 1 \in 0 .. MaxFailures
      /\ s.failures + 1 >= MaxFailures <=> s.failures + 1 = MaxFailures
      /\ 0 \in 0 .. MaxFailures /\ 0 # MaxFailures
  BY <1>1, BoundsAssumption
<1>3. ASSUME NEW k \in 0 .. MaxFailures, NEW u \in {NoTag} \cup SUBSET Items,
             NEW v \in {"no", "yes"}, u # NoTag => u \subseteq T, v = "yes" <=> k = MaxFailures,
             NEW n, n = [s EXCEPT !.failures = k, !.tag = u, !.disabled = v]
      PROVE  n \in Memory /\ Honest(n, S, T)
  <2>1. n \in Memory
    BY <1>3 DEF Memory
  <2>2. n.seen = s.seen /\ n.tag = u /\ n.failures = k /\ n.disabled = v
    BY <1>3 DEF Memory
  <2> QED BY <1>1, <1>3, <2>1, <2>2 DEF Honest, AtLimit
<1>4. s.tag # NoTag => s.tag \subseteq T
  BY DEF Honest
<1>5. [s EXCEPT !.failures = 0, !.tag = t]
        = [s EXCEPT !.failures = 0, !.tag = t, !.disabled = "no"]
  BY DEF Memory
<1>6. [s EXCEPT !.failures = 0]
        = [s EXCEPT !.failures = 0, !.tag = s.tag, !.disabled = "no"]
  BY DEF Memory
<1>7. Failed(s) = [s EXCEPT !.failures = s.failures + 1, !.tag = s.tag,
                            !.disabled = IF s.failures + 1 >= MaxFailures THEN "yes" ELSE "no"]
  BY DEF Failed, Memory
<1> QED
  <2>1. [s EXCEPT !.failures = 0, !.tag = t] \in Memory
          /\ Honest([s EXCEPT !.failures = 0, !.tag = t], S, T)
    BY <1>2, <1>3, <1>5
  <2>2. [s EXCEPT !.failures = 0] \in Memory /\ Honest([s EXCEPT !.failures = 0], S, T)
    BY <1>1, <1>2, <1>3, <1>4, <1>6
  <2>3. Failed(s) \in Memory /\ Honest(Failed(s), S, T)
    BY <1>1, <1>2, <1>3, <1>4, <1>7
  <2> QED BY <2>1, <2>2, <2>3

(* Honesty in the next state, one memory at a time. *)
LEMMA HonestyNext ==
  ASSUME \A d \in Channels : Honest(file'[d], stored', Tried'),
         \A q \in Runs, d \in Channels :
            Honest(mem'[q][d], stored', Tried' \cup InHand(q, d)')
  PROVE  Honesty'
  BY DEF Honesty, Honest, AtLimit, Tried, InHand

LEMMA RecallHonest ==
  ASSUME IInv, NEW r \in Runs, NEW c \in Channels, at[r] = "visiting"
  PROVE  Recall(r, c) \in Memory /\ Honest(Recall(r, c), stored, Tried)
<1>1. mem[r][c] \in Memory /\ Honest(mem[r][c], stored, Tried \cup InHand(r, c))
  BY DEF IInv, TypeOK, Honesty
<1>2. Honest(mem[r][c], stored, Tried)
  <2>1. Tried \cup InHand(r, c) \subseteq Tried
    BY DEF IInv, Hands, InHand
  <2> QED BY <1>1, <2>1, HonestMonotone
<1>3. CASE resets[r]
  <2>1. Recall(r, c) = [seen |-> mem[r][c].seen, tag |-> NoTag,
                        failures |-> 0, disabled |-> "no"]
    BY <1>3 DEF Recall, Fresh
  <2>2. mem[r][c].seen \in SUBSET Items /\ mem[r][c].seen \subseteq stored
    BY <1>1, <1>2 DEF Memory, Honest
  <2>3. 0 \in 0 .. MaxFailures /\ 0 # MaxFailures
    BY BoundsAssumption
  <2> QED BY <2>1, <2>2, <2>3 DEF Memory, Honest, AtLimit
<1>4. CASE ~resets[r]
  BY <1>1, <1>2, <1>4 DEF Recall
<1> QED BY <1>3, <1>4

(* A visit that leaves its run visiting. *)
LEMMA VisitIInv ==
  ASSUME IInv, NEW r \in Runs, NEW c \in Channels, NEW s \in Memory, Honest(s, stored, Tried),
         Visit(r, c, s), UNCHANGED <<at, hand, todo, missed>>
  PROVE  IInv'
<1>1. TypeOK'
  BY DEF IInv, TypeOK, Visit
<1>2. Hands'
  BY DEF IInv, Hands, Visit
<1>3. Honesty'
  <2> SUFFICES ASSUME NEW d \in Channels, NEW q \in Runs
               PROVE  /\ Honest(file'[d], stored', Tried')
                      /\ Honest(mem'[q][d], stored', Tried' \cup InHand(q, d)')
    BY HonestyNext, Zenon
  <2>0. file' = file /\ stored' = stored /\ Tried' = Tried
    BY DEF Visit, Tried
  <2>1. Honest(file'[d], stored', Tried')
    BY <2>0 DEF IInv, Honesty
  <2>2. CASE q = r /\ d = c
    <3>1. mem'[q][d] = s
      BY <2>2 DEF IInv, TypeOK, Visit
    <3> QED BY <2>0, <2>1, <3>1, HonestMonotone
  <2>3. CASE ~(q = r /\ d = c)
    <3>1. mem'[q][d] = mem[q][d]
      BY <2>3 DEF IInv, TypeOK, Visit
    <3>2. InHand(q, d)' = InHand(q, d)
      BY DEF InHand
    <3> QED BY <2>0, <2>1, <3>1, <3>2 DEF IInv, Honesty
  <2> QED BY <2>1, <2>2, <2>3
<1> QED BY <1>1, <1>2, <1>3 DEF IInv

(* A run that stops leaves fresh memories behind. *)
LEMMA StopIInv ==
  ASSUME IInv, NEW r \in Runs, Stop(r), UNCHANGED <<stored, feed, missed>>,
         file' = file \/ (at[r] = "visiting" /\ file' = mem[r])
  PROVE  IInv'
<1>1. TypeOK'
  BY FreshHonest DEF IInv, TypeOK, Stop
<1>2. Hands'
  BY DEF IInv, TypeOK, Hands, Stop
<1>3. Honesty'
  <2> SUFFICES ASSUME NEW d \in Channels, NEW q \in Runs
               PROVE  /\ Honest(file'[d], stored', Tried')
                      /\ Honest(mem'[q][d], stored', Tried' \cup InHand(q, d)')
    BY HonestyNext, Zenon
  <2>0. stored' = stored /\ Tried' = Tried
    BY DEF Tried
  <2>1. Honest(file'[d], stored', Tried')
    <3>1. CASE file' = file
      BY <2>0, <3>1 DEF IInv, Honesty
    <3>2. CASE at[r] = "visiting" /\ file' = mem[r]
      <4>1. Tried \cup InHand(r, d) \subseteq Tried
        BY <3>2 DEF IInv, Hands, InHand
      <4>2. Honest(mem[r][d], stored, Tried \cup InHand(r, d))
        BY DEF IInv, Honesty
      <4> QED BY <2>0, <3>2, <4>1, <4>2, HonestMonotone
    <3> QED BY <3>1, <3>2
  <2>2. CASE q = r
    <3>1. mem'[q][d] = Fresh
      BY <2>2 DEF IInv, TypeOK, Stop
    <3> QED BY <2>1, <3>1, FreshHonest
  <2>3. CASE q # r
    <3>1. mem'[q][d] = mem[q][d] /\ InHand(q, d)' = InHand(q, d)
      BY <2>3 DEF IInv, TypeOK, InHand, Stop
    <3> QED BY <2>0, <2>1, <3>1 DEF IInv, Honesty
  <2> QED BY <2>1, <2>2, <2>3
<1> QED BY <1>1, <1>2, <1>3 DEF IInv

-----------------------------------------------------------------------------
LEMMA InitIInv == Init => IInv
<1> SUFFICES ASSUME Init PROVE IInv
  OBVIOUS
<1>1. TypeOK
  BY FreshHonest DEF Init, TypeOK
<1>2. Hands
  BY DEF Init, Hands
<1>3. Honesty
  BY FreshHonest DEF Init, Honesty
<1> QED BY <1>1, <1>2, <1>3 DEF IInv

LEMMA BeginIInv ==
  ASSUME IInv, NEW r \in Runs, Begin(r)
  PROVE  IInv'
<1>1. TypeOK'
  BY DEF IInv, TypeOK, Begin
<1>2. Hands'
  BY DEF IInv, TypeOK, Hands, Begin
<1>3. Honesty'
  <2> SUFFICES ASSUME NEW d \in Channels, NEW q \in Runs
               PROVE  /\ Honest(file'[d], stored', Tried')
                      /\ Honest(mem'[q][d], stored', Tried' \cup InHand(q, d)')
    BY HonestyNext, Zenon
  <2>0. file' = file /\ stored' = stored /\ Tried' = Tried
    BY DEF Begin, Tried
  <2>1. Honest(file'[d], stored', Tried')
    BY <2>0 DEF IInv, Honesty
  <2>2. CASE q = r
    <3>1. mem'[q][d] = file[d]
      BY <2>2 DEF IInv, TypeOK, Begin
    <3> QED BY <2>0, <2>1, <3>1, HonestMonotone
  <2>3. CASE q # r
    <3>1. mem'[q][d] = mem[q][d] /\ InHand(q, d)' = InHand(q, d)
      BY <2>3 DEF IInv, TypeOK, InHand, Begin
    <3> QED BY <2>0, <2>1, <3>1 DEF IInv, Honesty
  <2> QED BY <2>1, <2>2, <2>3
<1> QED BY <1>1, <1>2, <1>3 DEF IInv

LEMMA FailIInv ==
  ASSUME IInv, NEW r \in Runs, NEW c \in Channels, Fail(r, c)
  PROVE  IInv'
<1> DEFINE s == Recall(r, c)
<1>1. s \in Memory /\ Honest(s, stored, Tried) /\ s.disabled = "no"
  BY RecallHonest DEF Fail, Visit
<1>2. Visit(r, c, Failed(s)) /\ UNCHANGED <<at, hand, todo, missed>>
  BY DEF Fail
<1> HIDE DEF s
<1>3. s.tag \in {NoTag} \cup SUBSET Items /\ (s.tag # NoTag => s.tag \subseteq Tried)
  BY <1>1 DEF Memory, Honest
<1>4. Failed(s) \in Memory /\ Honest(Failed(s), stored, Tried)
  BY <1>1, <1>3, Polled
<1> QED BY <1>2, <1>4, VisitIInv

LEMMA NotModifiedIInv ==
  ASSUME IInv, NEW r \in Runs, NEW c \in Channels, NotModified(r, c)
  PROVE  IInv'
<1> DEFINE s == Recall(r, c)
<1>1. s \in Memory /\ Honest(s, stored, Tried) /\ s.disabled = "no"
  BY RecallHonest DEF NotModified, Visit
<1>2. Visit(r, c, [s EXCEPT !.failures = 0]) /\ UNCHANGED <<at, hand, todo, missed>>
  BY DEF NotModified
<1> HIDE DEF s
<1>3. s.tag \in {NoTag} \cup SUBSET Items /\ (s.tag # NoTag => s.tag \subseteq Tried)
  BY <1>1 DEF Memory, Honest
<1>4. /\ [s EXCEPT !.failures = 0] \in Memory
      /\ Honest([s EXCEPT !.failures = 0], stored, Tried)
  BY <1>1, <1>3, Polled
<1> QED BY <1>2, <1>4, VisitIInv

(* The new tag covers what is seen, hence stored, what is taken in hand, and *)
(* what is missed for want of room.                                          *)
LEMMA FindIInv ==
  ASSUME IInv, NEW r \in Runs, NEW c \in Channels, Find(r, c)
  PROVE  IInv'
<1> DEFINE s == Recall(r, c)
<1>1. at[r] = "visiting"
  BY DEF Find, Visit
<1>2. s \in Memory /\ Honest(s, stored, Tried) /\ s.disabled = "no"
  BY <1>1, RecallHonest DEF Find
<1>3. PICK S \in Offers(c, s), t \in {feed[c], s.tag} :
         /\ Visit(r, c, [s EXCEPT !.failures = 0, !.tag = t])
         /\ todo' = [todo EXCEPT ![r] = S]
         /\ missed' = missed \cup ((feed[c] \ s.seen) \ (S \cup stored))
  BY DEF Find
<1>4. at' = [at EXCEPT ![r] = "ingesting"] /\ hand' = [hand EXCEPT ![r] = c]
  BY DEF Find
<1> HIDE DEF s
<1> DEFINE m == [s EXCEPT !.failures = 0, !.tag = t]
<1>5. S \subseteq feed[c] \ s.seen
  BY DEF Offers
<1>6. feed[c] \in SUBSET Items /\ t \in {NoTag} \cup SUBSET Items
  BY <1>2 DEF IInv, TypeOK, Memory
<1>7. m \in Memory /\ Honest(m, stored, Tried' \cup S)
  <2>1. Tried \subseteq Tried' \cup S
    BY <1>3 DEF Visit, Tried
  <2>2. Honest(s, stored, Tried' \cup S)
    BY <1>2, <2>1, HonestMonotone
  <2>3. s.seen \subseteq stored
    BY <1>2 DEF Honest
  <2>4. stored' = stored
    BY <1>3 DEF Visit
  <2>5. feed[c] \subseteq Tried' \cup S
    BY <1>3, <2>3, <2>4 DEF Tried
  <2>6. t # NoTag => t \subseteq Tried' \cup S
    BY <2>2, <2>5 DEF Honest
  <2> QED BY <1>2, <1>6, <2>2, <2>6, Polled
<1>8. Visit(r, c, m)
  BY <1>3
<1> HIDE DEF m
<1>9. TypeOK'
  BY <1>3, <1>4, <1>5, <1>6, <1>7, <1>8 DEF IInv, TypeOK, Visit
<1>10. Hands'
  BY <1>3, <1>4 DEF IInv, TypeOK, Hands
<1>11. stored' = stored /\ file' = file /\ Tried \subseteq Tried'
  BY <1>3, <1>8 DEF Visit, Tried
<1>12. Honesty'
  <2> SUFFICES ASSUME NEW d \in Channels, NEW q \in Runs
               PROVE  /\ Honest(file'[d], stored', Tried')
                      /\ Honest(mem'[q][d], stored', Tried' \cup InHand(q, d)')
    BY HonestyNext, Zenon
  <2>1. Honest(file'[d], stored', Tried')
    BY <1>11, HonestMonotone DEF IInv, Honesty
  <2>2. CASE q = r /\ d = c
    <3>1. mem'[q][d] = m
      BY <1>8, <2>2 DEF IInv, TypeOK, Visit
    <3>2. InHand(q, d)' = S
      BY <1>3, <1>4, <2>2 DEF IInv, TypeOK, InHand
    <3> QED BY <1>7, <1>11, <2>1, <3>1, <3>2
  <2>3. CASE ~(q = r /\ d = c)
    <3>1. mem'[q][d] = mem[q][d]
      BY <1>8, <2>3 DEF IInv, TypeOK, Visit
    <3>2. InHand(q, d) \subseteq InHand(q, d)'
      BY <1>1, <1>3, <1>4, <2>3 DEF IInv, TypeOK, Hands, InHand
    <3>3. Honest(mem[q][d], stored, Tried \cup InHand(q, d))
      BY DEF IInv, Honesty
    <3>4. Tried \cup InHand(q, d) \subseteq Tried' \cup InHand(q, d)'
      BY <1>11, <3>2
    <3> QED BY <1>11, <2>1, <3>1, <3>3, <3>4, HonestMonotone
  <2> QED BY <2>1, <2>2, <2>3
<1> QED BY <1>9, <1>10, <1>12 DEF IInv

(* One candidate of the run's channel is handled: it is stored or missed, so *)
(* it may leave the hand; it is remembered only if it is stored.             *)
LEMMA HandleIInv ==
  ASSUME IInv, NEW r \in Runs, NEW i \in Items, Handle(r, i),
         stored' \in SUBSET Items, stored \subseteq stored',
         missed' \in SUBSET Items, stored \cup missed \subseteq stored' \cup missed',
         i \in stored' \cup missed',
         mem' = mem \/ (Remember(r, i) /\ i \in stored')
  PROVE  IInv'
<1>1. hand[r] \in Channels
  BY DEF IInv, Hands, Handle
<1>2. /\ mem' \in [Runs -> [Channels -> Memory]]
      /\ \A q \in Runs, d \in Channels : \A T :
            Honest(mem[q][d], stored, T) => Honest(mem'[q][d], stored', T)
  <2>1. CASE mem' = mem
    BY <2>1, HonestMonotone DEF IInv, TypeOK
  <2>2. CASE Remember(r, i) /\ i \in stored'
    <3> DEFINE old == mem[r][hand[r]]
               new == [old EXCEPT !.seen = @ \cup {i}]
    <3>1. old \in Memory
      BY <1>1 DEF IInv, TypeOK
    <3>2. /\ new \in Memory
          /\ new.seen = old.seen \cup {i} /\ new.tag = old.tag
          /\ new.failures = old.failures /\ new.disabled = old.disabled
      BY <3>1 DEF Memory
    <3>3. /\ mem' \in [Runs -> [Channels -> Memory]]
          /\ mem'[r][hand[r]] = new
          /\ \A q \in Runs, d \in Channels :
                ~(q = r /\ d = hand[r]) => mem'[q][d] = mem[q][d]
      <4>1. mem' = [mem EXCEPT ![r] = [mem[r] EXCEPT ![hand[r]] = new]]
        BY <2>2 DEF Remember
      <4> HIDE DEF new
      <4> QED BY <1>1, <3>2, <4>1 DEF IInv, TypeOK
    <3>4. ASSUME NEW T, Honest(old, stored, T) PROVE Honest(new, stored', T)
      BY <2>2, <3>2, <3>4 DEF Honest, AtLimit
    <3> HIDE DEF new
    <3>5. ASSUME NEW q \in Runs, NEW d \in Channels, NEW T, Honest(mem[q][d], stored, T)
          PROVE  Honest(mem'[q][d], stored', T)
      <4>1. CASE q = r /\ d = hand[r]
        BY <3>3, <3>4, <3>5, <4>1
      <4>2. CASE ~(q = r /\ d = hand[r])
        BY <3>3, <3>5, <4>2, HonestMonotone
      <4> QED BY <4>1, <4>2
    <3> QED BY <3>3, <3>5
  <2> QED BY <2>1, <2>2
<1>3. TypeOK'
  BY <1>2 DEF IInv, TypeOK, Handle
<1>4. Hands'
  BY DEF IInv, TypeOK, Hands, Handle
<1>5. Honesty'
  <2> SUFFICES ASSUME NEW d \in Channels, NEW q \in Runs
               PROVE  /\ Honest(file'[d], stored', Tried')
                      /\ Honest(mem'[q][d], stored', Tried' \cup InHand(q, d)')
    BY HonestyNext, Zenon
  <2>1. file' = file /\ Tried \subseteq Tried' /\ i \in Tried'
    BY DEF Handle, Tried
  <2>2. Honest(file'[d], stored', Tried')
    BY <2>1, HonestMonotone DEF IInv, Honesty
  <2>3. InHand(q, d) \subseteq InHand(q, d)' \cup {i}
    BY DEF IInv, TypeOK, InHand, Handle
  <2>4. Tried \cup InHand(q, d) \subseteq Tried' \cup InHand(q, d)'
    BY <2>1, <2>3
  <2>5. Honest(mem[q][d], stored, Tried' \cup InHand(q, d)')
    BY <2>4, HonestMonotone DEF IInv, Honesty
  <2> QED BY <1>2, <2>2, <2>5
<1> QED BY <1>3, <1>4, <1>5 DEF IInv

LEMMA FinishIInv ==
  ASSUME IInv, NEW r \in Runs, Finish(r)
  PROVE  IInv'
<1>1. TypeOK'
  BY DEF IInv, TypeOK, Finish
<1>2. Hands'
  BY DEF IInv, TypeOK, Hands, Finish
<1>3. Honesty'
  <2> SUFFICES ASSUME NEW d \in Channels, NEW q \in Runs
               PROVE  /\ Honest(file'[d], stored', Tried')
                      /\ Honest(mem'[q][d], stored', Tried' \cup InHand(q, d)')
    BY HonestyNext, Zenon
  <2>1. /\ file' = file /\ stored' = stored /\ mem' = mem /\ Tried' = Tried
    BY DEF Finish, Tried
  <2>2. InHand(q, d) \subseteq InHand(q, d)'
    BY DEF IInv, TypeOK, InHand, Finish
  <2>3. Tried \cup InHand(q, d) \subseteq Tried \cup InHand(q, d)'
    BY <2>2
  <2> QED BY <2>1, <2>3, HonestMonotone DEF IInv, Honesty
<1> QED BY <1>1, <1>2, <1>3 DEF IInv

LEMMA StepIInv == IInv /\ [Next]_vars => IInv'
<1> SUFFICES ASSUME IInv, [Next]_vars PROVE IInv'
  OBVIOUS
<1>1. ASSUME NEW c \in Channels, Publish(c) PROVE IInv'
  <2>1. TypeOK'
    BY <1>1 DEF IInv, TypeOK, Publish, runVars
  <2>2. Hands' /\ Honesty'
    BY <1>1 DEF IInv, Hands, Honesty, Tried, InHand, Publish, runVars
  <2> QED BY <2>1, <2>2 DEF IInv
<1>2. ASSUME NEW r \in Runs, Begin(r) PROVE IInv'
  BY <1>2, BeginIInv
<1>3. ASSUME NEW r \in Runs, NEW c \in Channels, Skip(r, c) PROVE IInv'
  <2>1. Recall(r, c) \in Memory /\ Honest(Recall(r, c), stored, Tried)
    BY <1>3, RecallHonest DEF Skip, Visit
  <2> QED BY <1>3, <2>1, VisitIInv DEF Skip
<1>4. ASSUME NEW r \in Runs, NEW c \in Channels, Fail(r, c) PROVE IInv'
  BY <1>4, FailIInv
<1>5. ASSUME NEW r \in Runs, NEW c \in Channels, NotModified(r, c) PROVE IInv'
  BY <1>5, NotModifiedIInv
<1>6. ASSUME NEW r \in Runs, NEW c \in Channels, Find(r, c) PROVE IInv'
  BY <1>6, FindIInv
<1>7. ASSUME NEW r \in Runs, NEW i \in Items, Known(r, i) PROVE IInv'
  BY <1>7, HandleIInv DEF Known, IInv, TypeOK
<1>8. ASSUME NEW r \in Runs, NEW i \in Items, Store(r, i) PROVE IInv'
  BY <1>8, HandleIInv DEF Store, IInv, TypeOK
<1>9. ASSUME NEW r \in Runs, NEW i \in Items, Miss(r, i) PROVE IInv'
  BY <1>9, HandleIInv DEF Miss, IInv, TypeOK
<1>10. ASSUME NEW r \in Runs, Finish(r) PROVE IInv'
  BY <1>10, FinishIInv
<1>11. ASSUME NEW r \in Runs, Save(r) PROVE IInv'
  BY <1>11, StopIInv DEF Save
<1>12. ASSUME NEW r \in Runs, Crash(r) PROVE IInv'
  BY <1>12, StopIInv DEF Crash
<1>13. ASSUME UNCHANGED vars PROVE IInv'
  BY <1>13 DEF vars, runVars, IInv, TypeOK, Hands, Honesty, Tried, InHand
<1> QED
  BY <1>1, <1>2, <1>3, <1>4, <1>5, <1>6, <1>7, <1>8, <1>9, <1>10, <1>11, <1>12, <1>13
  DEF Next, Progress

-----------------------------------------------------------------------------
(* IInv holds in every reachable state of the runs and the state file. *)
THEOREM Invariance == Spec => []IInv
  BY InitIInv, StepIInv, PTL DEF Spec

(* Every variable has its type; in particular no failure count passes the    *)
(* limit, though runs overwrite each other's (record_poll, save).            *)
THEOREM TypeCorrect == Spec => []TypeOK
<1>1. IInv => TypeOK
  BY DEF IInv
<1> QED BY Invariance, <1>1, PTL

(* No run and no saved file ever holds an id whose article is not stored, so *)
(* a failed candidate stays retryable as far as seen_ids goes (record_poll). *)
THEOREM FailuresStayUnseen == Spec => []SeenIsStored
<1>1. IInv => SeenIsStored
  BY DEF IInv, Honesty, Honest, SeenIsStored
<1> QED BY Invariance, <1>1, PTL

(* A crash or an overlapping run never leaves a tag in the file that hides   *)
(* an item nobody tried (_run_poll saves after ingesting, not before).       *)
THEOREM CrashHidesNothing == Spec => []TagHidesOnlyMisses
<1>1. IInv => TagHidesOnlyMisses
  <2> SUFFICES ASSUME IInv, NEW c \in Channels, file[c].tag = feed[c]
               PROVE  feed[c] \subseteq stored \cup missed
    BY DEF TagHidesOnlyMisses
  <2>1. feed[c] # NoTag
    BY NullsAssumption DEF IInv, TypeOK
  <2>2. Honest(file[c], stored, Tried)
    BY DEF IInv, Honesty
  <2> QED BY <2>1, <2>2 DEF Honest, Tried
<1> QED BY Invariance, <1>1, PTL

(* The count and the verdict agree in every run's memory and in the file.    *)
THEOREM DisabledMeansLimit == Spec => []DisabledAtLimit
<1>1. IInv => DisabledAtLimit
  BY DEF IInv, Honesty, Honest, DisabledAtLimit
<1> QED BY Invariance, <1>1, PTL
=============================================================================
