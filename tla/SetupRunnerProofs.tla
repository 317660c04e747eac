-------------------------- MODULE SetupRunnerProofs --------------------------
(* TLAPS proofs of the safety properties of SetupRunner, for any number of   *)
(* asks and follow-ups, and at the end of DeepResearch, which is where the   *)
(* rules an answer follows come from.                                        *)
EXTENDS SetupRunner, ResearchArms, SequenceTheorems, TLAPS

(* An ask that shares the agent with none is the only one inside the runner. *)
Solo == \A r \in alone : \A q \in Asks \ {r} : Inside(r) => ~Inside(q)

(* What the agent and ask r hold while r is alone with it.  A rewrite that   *)
(* was made is there to be read, a retrieval that was made has left its pass *)
(* and its contexts.                                                         *)
Mine(r) ==
  /\ agent.context \in {r, Nobody}
  /\ agent.rewrite \in {r, Nobody}
  /\ \A i \in DOMAIN agent.retrievals : agent.retrievals[i] = r
  /\ run[r].at = "query" => agent.rewrite = r
  /\ run[r].at \in {"retrieve", "followup", "build"} => run[r].query = r
  /\ run[r].at \in {"followup", "build"} => agent.context = r /\ agent.retrievals # NoPasses

Record == \A r \in alone : Inside(r) => Mine(r)

(* A result is made once, at the end. *)
Fresh == \A r \in Asks : run[r].at # "built" => run[r].result = NoResult

IInv == TypeOK /\ Solo /\ Record /\ Fresh /\ AloneIsOwn

(* Until it is built, an ask has no result, which describes nothing.         *)
LEMMA UnbuiltIsOwn ==
  ASSUME NEW r \in Asks, run[r].result = NoResult
  PROVE  OwnRecord(r)
BY DEF OwnRecord, NoResult, NoPasses

Runs == [at : {"out", "request", "rewrite", "query", "retrieve",
               "followup", "build", "failed", "built"},
         key : Keys, query : Asks \cup {Nobody},
         hops : 0..MaxFollowups, result : Result]

Records == [context : Asks \cup {Nobody}, rewrite : Asks \cup {Nobody},
            retrievals : Seq(Asks)]

LEMMA Types == TypeOK <=> agent \in Records /\ run \in [Asks -> Runs] /\ alone \subseteq Asks
BY DEF TypeOK, Records, Runs

LEMMA EmptyRecords ==
  /\ NoPasses \in Seq(Asks)
  /\ Blank \in Records
  /\ NoResult \in Result
  /\ Outside \in Runs
BY FollowupsAssumption DEF NoPasses, Blank, NoResult, Result, Records, Runs, Outside, Keys

LEMMA InitIInv == Init => IInv
<1> SUFFICES ASSUME Init PROVE IInv
  OBVIOUS
<1>1. TypeOK
  BY EmptyRecords, Types DEF Init
<1>2. Solo /\ Record /\ Fresh
  BY DEF Init, Solo, Record, Fresh, Inside, Outside
<1>3. AloneIsOwn
  BY UnbuiltIsOwn DEF Init, AloneIsOwn, Outside
<1> QED BY <1>1, <1>2, <1>3 DEF IInv

(* A step of ask r inside the runner: nobody else is alone there, so all it  *)
(* has to keep are the types and what concerns r.                            *)
LEMMA OwnStep ==
  ASSUME IInv, NEW r \in Asks, Inside(r), TypeOK', UNCHANGED alone,
         \A q \in Asks \ {r} : run'[q] = run[q],
         run'[r].at # "out",
         r \in alone /\ Inside(r)' => Mine(r)',
         run'[r].at # "built" => run'[r].result = NoResult,
         r \in alone => OwnRecord(r)'
  PROVE  IInv'
<1>1. alone \subseteq Asks
  BY DEF IInv, TypeOK
<1>2. ASSUME NEW p \in alone, p # r PROVE ~Inside(p)
  BY <1>1, <1>2 DEF IInv, Solo
<1>3. Solo'
  <2> SUFFICES ASSUME NEW p \in alone, NEW q \in Asks \ {p}, Inside(p)' PROVE ~Inside(q)'
    BY DEF Solo
  <2>1. p = r
    BY <1>1, <1>2 DEF Inside
  <2>2. ~Inside(q)
    BY <2>1 DEF IInv, Solo
  <2> QED BY <2>1, <2>2 DEF Inside
<1>4. Record'
  BY <1>1, <1>2 DEF Record, Inside
<1>5. Fresh'
  BY DEF IInv, Fresh
<1>6. AloneIsOwn'
  BY <1>1 DEF IInv, AloneIsOwn, OwnRecord
<1> QED BY <1>3, <1>4, <1>5, <1>6 DEF IInv

LEMMA EnterIInv ==
  ASSUME IInv, NEW r \in Asks, NEW k \in Keys, Enter(r, k)
  PROVE  IInv'
<1> USE DEF Enter, IInv
<1>1. TypeOK'
  <2>1. [Outside EXCEPT !.at = "request", !.key = k] \in Runs
    BY EmptyRecords DEF Runs
  <2>2. agent' \in Records /\ run' \in [Asks -> Runs] /\ alone' \subseteq Asks
    BY <2>1, EmptyRecords, Types
  <2> QED BY <2>2 DEF TypeOK, Records, Runs
<1>2. alone' \subseteq alone /\ alone \subseteq Asks
  BY DEF TypeOK
<1>3. /\ run'[r] = [Outside EXCEPT !.at = "request", !.key = k]
      /\ \A q \in Asks \ {r} : run'[q] = run[q]
  BY DEF TypeOK
<1>4. run'[r].at = "request" /\ run'[r].result = NoResult
  <2>1. Outside.result = NoResult /\ Outside.at = "out"
    BY DEF Outside
  <2>2. Outside \in Runs
    BY EmptyRecords
  <2> HIDE DEF IInv, Enter
  <2> QED BY <1>3, <2>1, <2>2 DEF Runs
<1>5. ASSUME NEW p \in alone', Inside(p)'
      PROVE  p = r /\ \A q \in Asks \ {r} : ~Inside(q)
  <2>1. CASE \E q \in Asks \ {r} : Inside(q)
    BY <1>2, <1>3, <1>5, <2>1 DEF Inside
  <2>2. CASE ~\E q \in Asks \ {r} : Inside(q)
    BY <1>2, <1>3, <1>5, <2>2 DEF Inside
  <2> QED BY <2>1, <2>2
<1>6. Solo'
  BY <1>3, <1>5 DEF Solo, Inside
<1>7. Record'
  BY <1>4, <1>5 DEF Record, Mine, Blank, NoPasses
<1>8. Fresh'
  BY <1>3, <1>4 DEF Fresh
<1>9. AloneIsOwn'
  <2> SUFFICES ASSUME NEW p \in alone' PROVE OwnRecord(p)'
    BY DEF AloneIsOwn
  <2>1. CASE p = r
    BY <1>4, <2>1, UnbuiltIsOwn DEF OwnRecord, NoResult, NoPasses
  <2>2. CASE p # r
    BY <1>2, <1>3, <2>2 DEF AloneIsOwn, OwnRecord
  <2> QED BY <2>1, <2>2
<1> QED BY <1>1, <1>6, <1>7, <1>8, <1>9

-----------------------------------------------------------------------------
(* The steps of an ask inside the runner. *)

(* A step that does not yet build the result. *)
LEMMA StepIInv ==
  ASSUME IInv, NEW r \in Asks, Inside(r), NEW next \in Runs,
         agent' \in Records, run' = [run EXCEPT ![r] = next], UNCHANGED alone,
         next.at \notin {"out", "built"}, next.result = run[r].result,
         r \in alone => Mine(r)'
  PROVE  IInv'
<1>1. TypeOK'
  BY DEF IInv, TypeOK, Records, Runs
<1>2. run'[r] = next /\ \A q \in Asks \ {r} : run'[q] = run[q]
  BY DEF IInv, TypeOK
<1>3. run'[r].result = NoResult
  BY <1>2 DEF IInv, Fresh, Inside
<1>4. OwnRecord(r)'
  BY <1>3 DEF OwnRecord, NoResult, NoPasses
<1> QED BY <1>1, <1>2, <1>3, <1>4, OwnStep

(* A thread that has entered reads what it holds off TypeOK. *)
LEMMA Held ==
  ASSUME IInv, NEW r \in Asks
  PROVE  /\ run \in [Asks -> Runs] /\ run[r] \in Runs /\ agent \in Records
         /\ run[r].at \notin {"out", "built"} => Inside(r)
         /\ r \in alone /\ Inside(r) => Mine(r)
BY DEF IInv, TypeOK, Records, Runs, Record, Inside

LEMMA RefuseRequestIInv ==
  ASSUME IInv, NEW r \in Asks, RefuseRequest(r)
  PROVE  IInv'
<1> USE DEF RefuseRequest, Goto
<1> DEFINE next == [run[r] EXCEPT !.at = "failed"]
<1>1. next \in Runs /\ next.at = "failed" /\ next.result = run[r].result
  BY Held DEF Runs
<1>2. run' = [run EXCEPT ![r] = next] /\ run'[r] = next
  BY Held
<1>3. r \in alone => Mine(r)'
  BY <1>1, <1>2, Held DEF Mine
<1> HIDE DEF next
<1> QED BY <1>1, <1>2, <1>3, Held, StepIInv

LEMMA AnswerIInv ==
  ASSUME IInv, NEW r \in Asks, Answer(r)
  PROVE  IInv'
<1> USE DEF Answer, Goto
<1>1. PICK next \in Runs : /\ run' = [run EXCEPT ![r] = next]
                           /\ next.at \in {"rewrite", "retrieve"}
                           /\ next.at = "retrieve" => next.query = r
                           /\ next.result = run[r].result
  <2>1. CASE Goto(r, "rewrite")
    <3>1. [run[r] EXCEPT !.at = "rewrite"] \in Runs
      BY Held DEF Runs
    <3> QED BY <2>1, <3>1, Held DEF Runs
  <2>2. CASE run' = [run EXCEPT ![r].at = "retrieve", ![r].query = r]
    <3>1. [run[r] EXCEPT !.at = "retrieve", !.query = r] \in Runs
      BY Held DEF Runs
    <3> QED BY <2>2, <3>1, Held DEF Runs
  <2> QED BY <2>1, <2>2
<1>2. run'[r] = next
  BY <1>1, Held
<1>3. Mine(r)'
  BY <1>1, <1>2 DEF Mine, Blank, NoPasses
<1> QED BY <1>1, <1>3, Held, StepIInv, EmptyRecords

LEMMA RewriteIInv ==
  ASSUME IInv, NEW r \in Asks, Rewrite(r)
  PROVE  IInv'
<1> USE DEF Rewrite, Goto
<1> DEFINE next == [run[r] EXCEPT !.at = "query"]
<1>1. next \in Runs /\ next.at = "query" /\ next.result = run[r].result
  BY Held DEF Runs
<1>2. run' = [run EXCEPT ![r] = next] /\ run'[r] = next
  BY Held
<1>3. agent' \in Records
  BY Held DEF Records
<1>4. r \in alone => Mine(r)'
  BY <1>1, <1>2, Held DEF Mine, Records
<1> HIDE DEF next
<1> QED BY <1>1, <1>2, <1>3, <1>4, Held, StepIInv

LEMMA ReadQueryIInv ==
  ASSUME IInv, NEW r \in Asks, ReadQuery(r)
  PROVE  IInv'
<1> USE DEF ReadQuery
<1>1. CASE agent.rewrite = Nobody
  <2> DEFINE next == [run[r] EXCEPT !.at = "failed"]
  <2>1. next \in Runs /\ next.at = "failed" /\ next.result = run[r].result
    BY Held DEF Runs
  <2>2. run' = [run EXCEPT ![r] = next] /\ run'[r] = next
    BY <1>1, Held
  <2>3. r \in alone => Mine(r)'
    BY <2>1, <2>2, Held DEF Mine
  <2> HIDE DEF next
  <2> QED BY <2>1, <2>2, <2>3, Held, StepIInv
<1>2. CASE agent.rewrite # Nobody
  <2> DEFINE next == [run[r] EXCEPT !.at = "retrieve", !.query = agent.rewrite]
  <2>1. /\ next \in Runs /\ next.at = "retrieve" /\ next.query = agent.rewrite
        /\ next.result = run[r].result
    BY Held DEF Runs, Records
  <2>2. run' = [run EXCEPT ![r] = next] /\ run'[r] = next
    BY <1>2, Held
  <2>3. r \in alone => Mine(r)'
    BY <2>1, <2>2, Held DEF Mine
  <2> HIDE DEF next
  <2> QED BY <2>1, <2>2, <2>3, Held, StepIInv
<1> QED BY <1>1, <1>2

(* What a retrieval leaves on the agent of the ask that made it. *)
LEMMA RetrievedIsMine ==
  ASSUME IInv, NEW r \in Asks, Inside(r),
         agent' \in {agent, [agent EXCEPT !.retrievals = Append(@, r)], Retrieved(r)}
  PROVE  /\ run[r].query \in Asks \cup {Nobody} => agent' \in Records
         /\ r \in alone /\ run[r].query = r =>
              /\ agent'.context \in {r, Nobody} /\ agent'.rewrite \in {r, Nobody}
              /\ \A i \in DOMAIN agent'.retrievals : agent'.retrievals[i] = r
         /\ agent' = Retrieved(r) => /\ agent'.context = run[r].query
                                     /\ agent'.retrievals # NoPasses
<1>1. agent \in Records /\ (r \in alone => Mine(r))
  BY Held
<1>2. agent.retrievals \in Seq(Asks)
  BY <1>1 DEF Records
<1>3. /\ Append(agent.retrievals, r) \in Seq(Asks)
      /\ Append(agent.retrievals, r) # NoPasses
      /\ \A i \in DOMAIN Append(agent.retrievals, r) :
            \/ i \in DOMAIN agent.retrievals /\ Append(agent.retrievals, r)[i] = agent.retrievals[i]
            \/ Append(agent.retrievals, r)[i] = r
  BY <1>2 DEF NoPasses
<1>4. CASE agent' = agent
  BY <1>1, <1>2, <1>3, <1>4 DEF Mine, Records, Retrieved
<1>5. CASE agent' = [agent EXCEPT !.retrievals = Append(@, r)]
  BY <1>1, <1>3, <1>5 DEF Mine, Records, Retrieved
<1>6. CASE agent' = Retrieved(r)
  BY <1>1, <1>3, <1>6 DEF Mine, Records, Retrieved
<1> QED BY <1>4, <1>5, <1>6

(* A retrieval, first or follow-up, and where the ask goes after it.         *)
LEMMA RetrievalIInv ==
  ASSUME IInv, NEW r \in Asks, run[r].at \in {"retrieve", "followup"}, NEW next \in Runs,
         agent' \in {agent, [agent EXCEPT !.retrievals = Append(@, r)], Retrieved(r)},
         run' = [run EXCEPT ![r] = next], UNCHANGED alone,
         next.at \in {"failed", "build", "followup"},
         next.at # "failed" => agent' = Retrieved(r),
         next.query = run[r].query, next.result = run[r].result
  PROVE  IInv'
<1>1. Inside(r) /\ run'[r] = next
  BY Held
<1>2. run[r].query \in Asks \cup {Nobody}
  BY Held DEF Runs
<1>3. agent' \in Records
  BY <1>1, <1>2, RetrievedIsMine
<1>4. r \in alone => run[r].query = r
  BY <1>1, Held DEF Mine
<1>5. r \in alone => Mine(r)'
  BY <1>1, <1>4, RetrievedIsMine DEF Mine
<1> QED BY <1>1, <1>3, <1>5, StepIInv

LEMMA RetrievalFailsIInv ==
  ASSUME IInv, NEW r \in Asks, run[r].at \in {"retrieve", "followup"},
         RetrievalFails(r), UNCHANGED alone
  PROVE  IInv'
<1> DEFINE next == [run[r] EXCEPT !.at = "failed"]
<1>1. /\ next \in Runs /\ next.at = "failed"
      /\ next.query = run[r].query /\ next.result = run[r].result
  BY Held DEF Runs
<1>2. run' = [run EXCEPT ![r] = next]
  BY Held DEF RetrievalFails, Goto
<1> HIDE DEF next
<1> QED BY <1>1, <1>2, RetrievalIInv DEF RetrievalFails

LEMMA RetrieveIInv ==
  ASSUME IInv, NEW r \in Asks, Retrieve(r)
  PROVE  IInv'
<1>1. CASE RetrievalFails(r)
  BY <1>1, RetrievalFailsIInv DEF Retrieve
<1>2. CASE /\ agent' = Retrieved(r)
           /\ Goto(r, "failed") \/ Goto(r, "build") \/ Goto(r, "followup")
  <2>1. PICK place \in {"failed", "build", "followup"} : Goto(r, place)
    BY <1>2
  <2> DEFINE next == [run[r] EXCEPT !.at = place]
  <2>2. /\ next \in Runs /\ next.at = place
        /\ next.query = run[r].query /\ next.result = run[r].result
    BY Held DEF Runs
  <2>3. run' = [run EXCEPT ![r] = next]
    BY <2>1, Held DEF Goto
  <2> HIDE DEF next
  <2> QED BY <1>2, <2>2, <2>3, RetrievalIInv DEF Retrieve
<1> QED BY <1>1, <1>2 DEF Retrieve

LEMMA FollowUpIInv ==
  ASSUME IInv, NEW r \in Asks, FollowUp(r)
  PROVE  IInv'
<1>1. CASE RetrievalFails(r)
  BY <1>1, RetrievalFailsIInv DEF FollowUp
<1>2. CASE agent' = Retrieved(r) /\ run' = [run EXCEPT ![r].hops = @ + 1]
  <2> DEFINE next == [run[r] EXCEPT !.hops = @ + 1]
  <2>1. run[r].hops + 1 \in 0..MaxFollowups
    BY FollowupsAssumption, Held DEF Runs, FollowUp
  <2>2. /\ next \in Runs /\ next.at = "followup"
        /\ next.query = run[r].query /\ next.result = run[r].result
    BY <2>1, Held DEF Runs, FollowUp
  <2>3. run' = [run EXCEPT ![r] = next]
    BY <1>2, Held
  <2> HIDE DEF next
  <2> QED BY <1>2, <2>2, <2>3, RetrievalIInv DEF FollowUp
<1> QED BY <1>1, <1>2 DEF FollowUp

LEMMA MergeIInv ==
  ASSUME IInv, NEW r \in Asks, Merge(r)
  PROVE  IInv'
<1>1. PICK place \in {"build", "failed"} : Goto(r, place)
  BY DEF Merge
<1> DEFINE next == [run[r] EXCEPT !.at = place]
<1>2. /\ next \in Runs /\ next.at = place
      /\ next.query = run[r].query /\ next.result = run[r].result
  BY Held DEF Runs
<1>3. run' = [run EXCEPT ![r] = next] /\ run'[r] = next
  BY <1>1, Held DEF Goto
<1>4. agent' \in Records
  BY Held DEF Merge, Records, Runs
<1>5. r \in alone => Mine(r)'
  <2>1. /\ agent'.context = run[r].query
        /\ agent'.rewrite = agent.rewrite /\ agent'.retrievals = agent.retrievals
    BY Held DEF Merge, Records
  <2>2. r \in alone => Mine(r)
    BY Held DEF Merge
  <2> QED BY <1>2, <1>3, <2>1, <2>2 DEF Mine, Merge
<1> HIDE DEF next
<1> QED BY <1>2, <1>3, <1>4, <1>5, Held, StepIInv DEF Merge

(* The result of an ask that is alone with the agent is its own record. *)
LEMMA BuiltIInv ==
  ASSUME IInv, NEW r \in Asks, Inside(r), NEW result \in Result,
         run' = [run EXCEPT ![r].at = "built", ![r].result = result],
         UNCHANGED <<agent, alone>>,
         r \in alone =>
           /\ result.context \in {r, Nobody} /\ result.rewrite \in {r, Nobody}
           /\ \A i \in DOMAIN result.trace : result.trace[i] = r
           /\ result.error = "no" => result.context = r /\ result.trace # NoPasses
  PROVE  IInv'
<1> DEFINE next == [run[r] EXCEPT !.at = "built", !.result = result]
<1>1. next \in Runs /\ next.at = "built" /\ next.result = result
  BY Held DEF Runs
<1>2. run' = [run EXCEPT ![r] = next] /\ run'[r] = next
  BY Held
<1> HIDE DEF next
<1>3. TypeOK' /\ \A q \in Asks \ {r} : run'[q] = run[q]
  BY <1>1, <1>2 DEF IInv, TypeOK, Runs
<1>4. r \in alone => OwnRecord(r)'
  BY <1>1, <1>2 DEF OwnRecord
<1>5. ~Inside(r)'
  BY <1>1, <1>2 DEF Inside
<1> QED BY <1>1, <1>2, <1>3, <1>4, <1>5, OwnStep

LEMMA FirstOfOwn ==
  ASSUME NEW r \in Asks, NEW passes \in Seq(Asks)
  PROVE  /\ FirstOf(passes) \in Seq(Asks)
         /\ passes # NoPasses => FirstOf(passes) # NoPasses
         /\ (\A i \in DOMAIN passes : passes[i] = r) =>
               \A i \in DOMAIN FirstOf(passes) : FirstOf(passes)[i] = r
<1>1. CASE passes = NoPasses
  BY <1>1 DEF FirstOf
<1>2. CASE passes # NoPasses
  <2>1. 1 \in DOMAIN passes /\ passes[1] \in Asks
    BY <1>2 DEF NoPasses
  <2> QED BY <1>2, <2>1 DEF FirstOf, NoPasses
<1> QED BY <1>1, <1>2

LEMMA BuildIInv ==
  ASSUME IInv, NEW r \in Asks, Build(r)
  PROVE  IInv'
<1> DEFINE trace == IF run[r].key = "rag_llm_recursive" THEN FirstOf(agent.retrievals)
                    ELSE agent.retrievals
           result == [context |-> agent.context, rewrite |-> agent.rewrite,
                      trace |-> trace, error |-> "no"]
<1>1. agent.retrievals \in Seq(Asks) /\ Inside(r) /\ (r \in alone => Mine(r))
  BY Held DEF Build, Records
<1>2. trace \in Seq(Asks)
  BY <1>1, FirstOfOwn
<1>3. r \in alone => trace # NoPasses /\ \A i \in DOMAIN trace : trace[i] = r
  BY <1>1, FirstOfOwn DEF Build, Mine
<1>4. run' = [run EXCEPT ![r].at = "built", ![r].result = result]
  BY DEF Build
<1> HIDE DEF trace
<1>5. result \in Result
  BY <1>2, Held DEF Result, Records
<1>6. r \in alone =>
           /\ result.context \in {r, Nobody} /\ result.rewrite \in {r, Nobody}
           /\ \A i \in DOMAIN result.trace : result.trace[i] = r
           /\ result.error = "no" => result.context = r /\ result.trace # NoPasses
  BY <1>1, <1>3 DEF Build, Mine
<1> HIDE DEF result
<1> QED BY <1>1, <1>4, <1>5, <1>6, BuiltIInv DEF Build

LEMMA BuildErrorIInv ==
  ASSUME IInv, NEW r \in Asks, BuildError(r)
  PROVE  IInv'
<1> DEFINE result == [context |-> Nobody, rewrite |-> agent.rewrite,
                      trace |-> agent.retrievals, error |-> "yes"]
<1>1. Inside(r) /\ (r \in alone => Mine(r))
  BY Held DEF BuildError
<1>2. run' = [run EXCEPT ![r].at = "built", ![r].result = result]
  BY DEF BuildError
<1>3. result \in Result
  BY Held DEF Result, Records
<1>4. r \in alone =>
           /\ result.context \in {r, Nobody} /\ result.rewrite \in {r, Nobody}
           /\ \A i \in DOMAIN result.trace : result.trace[i] = r
           /\ result.error = "no" => result.context = r /\ result.trace # NoPasses
  BY <1>1 DEF Mine
<1> HIDE DEF result
<1> QED BY <1>1, <1>2, <1>3, <1>4, BuiltIInv DEF BuildError

-----------------------------------------------------------------------------
(* The theorems. *)

LEMMA NextIInv == IInv /\ [Next]_vars => IInv'
<1> SUFFICES ASSUME IInv, [Next]_vars PROVE IInv'
  OBVIOUS
<1>1. ASSUME NEW r \in Asks, NEW k \in Keys, Enter(r, k) PROVE IInv'
  BY <1>1, EnterIInv
<1>2. ASSUME NEW r \in Asks, RunnerStep(r) PROVE IInv'
  BY <1>2, RefuseRequestIInv, AnswerIInv, RewriteIInv, ReadQueryIInv, RetrieveIInv,
     FollowUpIInv, MergeIInv, BuildIInv, BuildErrorIInv DEF RunnerStep
<1>3. CASE UNCHANGED vars
  BY <1>3 DEF vars, IInv, TypeOK, Solo, Record, Fresh, AloneIsOwn, Inside, Mine, OwnRecord
<1> QED BY <1>1, <1>2, <1>3 DEF Next

(* The inductive invariant of the runner: whoever is alone with the agent is *)
(* the only one inside, and the agent and its own thread hold nothing but    *)
(* what it put there.                                                        *)
THEOREM Invariance == Spec => []IInv
BY InitIInv, NextIInv, PTL DEF Spec

(* Every variable keeps its type, and no recursive answer goes past its      *)
(* follow-ups.                                                               *)
THEOREM TypeCorrect == Spec => []TypeOK
<1>1. IInv => TypeOK
  BY DEF IInv
<1> QED BY <1>1, Invariance, PTL

(* An ask that had the shared agent to itself reports its own retrievals and *)
(* contexts only, for any number of asks before and after it, wherever they  *)
(* failed.                                                                   *)
THEOREM OwnAnswer == Spec => []AloneIsOwn
<1>1. IInv => AloneIsOwn
  BY DEF IInv
<1> QED BY <1>1, Invariance, PTL
-----------------------------------------------------------------------------
(* The rules a setup answers by may come from deep research: what ResearchArms *)
(* says of the arms holds of DeepResearch.                                   *)

Deep == INSTANCE DeepResearch

ResearchAssumption == Deep!ParametersAssumption

OpeningSteps == {"plan", "deep-r1"}

(* What the first round is to whatever builds on it: its rules have the      *)
(* lowest ranks, and no two of them state the same.                          *)
Opening(p) ==
  /\ p.build > 0
  /\ \A r \in p.rules : r.rank <= RoundOne
  /\ \A r, s \in p.rules : s.rank < r.rank => s.says # r.says

(* What a command has made of the arms at its step.  A build has its own    *)
(* first round to build on, and before the report its two other arms; a      *)
(* frontier round has the one on disk.                                       *)
JobHas ==
  /\ job.kind = "idle" => job.at = "idle"
  /\ job.at \in {"plan", "critic", "coverage"} => job.found = <<>>
  /\ job.kind = "build" =>
       /\ job.at \in Deep!BuildSteps /\ job.pack.build = job.number /\ job.number > 0
       /\ job.at \in OpeningSteps => job.pack.rules = {} /\ job.pack.units = <<>>
       /\ job.at = "deep-r1" => Len(job.probes) <= RoundOne
       /\ job.at \notin OpeningSteps => Opening(job.pack) /\ arms["deep-r1"] = job.pack
       /\ job.at \in {"critic", "deep-r2", "report"} => arms["deep-oneshot"].build = job.number
       /\ job.at = "report" => arms["deep-r2"].build = job.number
  /\ job.kind = "frontier" =>
       /\ job.at \in Deep!FrontierSteps /\ Opening(job.pack) /\ arms["deep-r1"] = job.pack
       /\ job.pack.build <= job.number
       /\ job.second.build > 0 /\ job.second.build <= job.number

(* Every arm is of a build that was started, a build's own are its last.     *)
ArmsHave ==
  /\ \A a \in Deep!OnDisk :
       /\ arms[a].build > 0 /\ arms[a].build <= job.number
       /\ job.kind = "build" /\ job.at \in OpeningSteps => arms[a].build < job.number
  /\ "deep-r1" \in Deep!OnDisk => Opening(arms["deep-r1"])

(* While no build met a scoring run or was killed: scores, and a scoring run *)
(* to come, are of the report's build, as are the arms it was made of.       *)
Measured ==
  ~unsettled =>
    /\ score.at = "scoring" => job.kind # "build"
    /\ report \notin {Absent, Torn} /\ report.build > 0 =>
         /\ Deep!OfBuild(report.scores, report.build)
         /\ score.at = "scoring" => Deep!OfBuild(score.of, report.build)
         /\ job.kind # "build" =>
              \A a \in Deep!Built \cap Deep!OnDisk : arms[a].build = report.build

ArmRules == Deep!NestedArms /\ Deep!OffTheGround /\ Deep!RestsOnItsOwn

ResearchInv == Deep!TypeOK /\ JobHas /\ ArmsHave /\ Measured /\ ArmRules

(* What publish does with the rules it is given: the inherited ones stay when *)
(* no two of them state the same, and a candidate comes after them.          *)
LEMMA JoinKeeps ==
  ASSUME NEW prior, NEW candidates,
         \A r, s \in prior : s.rank < r.rank => s.says # r.says
  PROVE  /\ prior \subseteq Deep!Join(prior, candidates)
         /\ Deep!Join(prior, candidates) \ prior \subseteq candidates
BY DEF Deep!Join, Deep!Dedupe

LEMMA JoinIsOpening ==
  ASSUME NEW candidates
  PROVE  /\ Deep!Join({}, candidates) \subseteq candidates
         /\ \A r, s \in Deep!Join({}, candidates) : s.rank < r.rank => s.says # r.says
BY DEF Deep!Join, Deep!Dedupe

(* admit_novel_evidence: a rule that is added to the inherited ones quotes a *)
(* passage that none before it quotes.                                       *)
LEMMA AdmittedRest ==
  ASSUME NEW prior \in SUBSET Deep!Rubrics, NEW candidates \in SUBSET Deep!Rubrics,
         \A r, s \in prior : s.rank < r.rank => s.says # r.says,
         NEW rules, rules = Deep!Join(prior, Deep!Admit(prior, candidates)),
         NEW r \in rules, r \notin prior
  PROVE  ~(r.on \subseteq Deep!Quoted(Deep!Before(rules, r)))
<1>1. r \in candidates /\ r \in Deep!Admit(prior, candidates)
  BY JoinKeeps DEF Deep!Admit
<1>2. PICK c \in r.on : c \notin Deep!Quoted(prior) \cup Deep!Quoted(Deep!Before(candidates, r))
  BY <1>1 DEF Deep!Admit
<1>3. \A s \in Deep!Before(rules, r) : s \in prior \/ s \in Deep!Before(candidates, r)
  BY JoinKeeps DEF Deep!Before, Deep!Admit
<1>4. \A s \in Deep!Before(rules, r) : c \notin s.on
  BY <1>2, <1>3 DEF Deep!Quoted
<1> QED BY <1>2, <1>4 DEF Deep!Quoted

ResearchUnits == Seq([rank : Nat, reads : SUBSET Deep!Range(Passages)])

(* The units of the round: ranks count from its start, and no unit reads what *)
(* is excluded.                                                              *)
LEMMA RoundReads ==
  ASSUME ResearchAssumption, Deep!TypeOK
  PROVE  /\ Deep!RoundUnits \in ResearchUnits
         /\ Len(Deep!RoundUnits) = Len(job.probes)
         /\ DOMAIN Deep!RoundUnits = 1..Len(job.probes)
         /\ Deep!Start \in Nat
         /\ \A i \in 1..Len(job.probes) :
              /\ Deep!RoundUnits[i].rank = Deep!Start + i
              /\ Deep!RoundUnits[i].reads \cap Deep!Excluded = {}
<1>1. /\ job.probes \in Seq(Questions) /\ Len(job.probes) \in Nat
      /\ DOMAIN job.probes = 1..Len(job.probes)
      /\ job.pack.members \subseteq Deep!Range(Passages)
  BY DEF Deep!TypeOK, Deep!Jobs, Deep!Packs
<1>2. Deep!Start \in Nat
  BY DEF Deep!Start, ResearchAssumption, Deep!ParametersAssumption
<1>3. \A q : Deep!Retrieve(q, job.pack.members, Deep!Excluded) \subseteq job.pack.members \ Deep!Excluded
  BY DEF Deep!Retrieve
<1>4. Deep!RoundUnits = [i \in 1..Len(job.probes) |->
          [rank |-> Deep!Start + i,
           reads |-> Deep!Retrieve(job.probes[i], job.pack.members, Deep!Excluded)]]
  BY <1>1 DEF Deep!RoundUnits, Deep!UnitsOf
<1>5. \A i \in 1..Len(job.probes) :
        /\ Deep!RoundUnits[i].rank = Deep!Start + i
        /\ Deep!RoundUnits[i].reads \subseteq job.pack.members \ Deep!Excluded
        /\ Deep!RoundUnits[i] \in [rank : Nat, reads : SUBSET Deep!Range(Passages)]
  BY <1>1, <1>2, <1>3, <1>4
<1> DEFINE S == [rank : Nat, reads : SUBSET Deep!Range(Passages)]
<1>6. Deep!RoundUnits \in [1..Len(job.probes) -> S]
  <2>1. DOMAIN Deep!RoundUnits = 1..Len(job.probes)
    BY <1>4
  <2> QED BY <1>4, <1>5, <2>1
<1> HIDE DEF S
<1>7. Deep!RoundUnits \in Seq(S)
  BY <1>1, <1>6, SeqDef
<1>8. Len(Deep!RoundUnits) = Len(job.probes) /\ DOMAIN Deep!RoundUnits = 1..Len(job.probes)
  BY <1>1, <1>6, <1>7, LenProperties
<1> QED BY <1>2, <1>5, <1>7, <1>8 DEF ResearchUnits, S

LEMMA RoundFinds ==
  ASSUME ResearchAssumption, Deep!TypeOK, Len(job.found) = Len(job.probes)
  PROVE  /\ Deep!RoundRubrics \in SUBSET Deep!Rubrics
         /\ \A r \in Deep!RoundRubrics : \E i \in 1..Len(job.probes) : r.rank = Deep!Start + i
<1>1. /\ DOMAIN Deep!RoundUnits = 1..Len(job.probes) /\ Deep!Start \in Nat
      /\ \A i \in 1..Len(job.probes) : Deep!RoundUnits[i].rank = Deep!Start + i
  BY RoundReads
<1>2. /\ Len(job.probes) \in Nat
      /\ \A i \in 1..Len(job.probes) : job.found[i] \in Deep!Answers \cup {Absent}
  BY DEF Deep!TypeOK, Deep!Jobs
<1>3. ASSUME NEW r \in Deep!RoundRubrics
      PROVE  r \in Deep!Rubrics /\ \E i \in 1..Len(job.probes) : r.rank = Deep!Start + i
  <2>1. PICK i \in 1..Len(job.probes) :
          /\ job.found[i] # Absent
          /\ r = [rank |-> Deep!RoundUnits[i].rank, says |-> job.found[i].says, on |-> job.found[i].on]
    BY <1>1, <1>3 DEF Deep!RoundRubrics, Deep!RubricsOf
  <2>2. job.found[i] \in Deep!Answers
    BY <1>2, <2>1
  <2> QED BY <1>1, <1>2, <2>1, <2>2 DEF Deep!Answers, Deep!Rubrics
<1> QED BY <1>3

(* publish over a first round. *)
LEMMA Published ==
  ASSUME ResearchAssumption, Deep!TypeOK, NEW first \in Deep!Packs,
         NEW candidates, candidates \subseteq Deep!Rubrics,
         NEW pack, pack = Deep!PublishOver(first, Deep!RoundUnits, candidates)
  PROVE  /\ pack \in Deep!Packs
         /\ pack.build = first.build /\ pack.digest = first.digest
         /\ pack.units = first.units \o Deep!RoundUnits
         /\ pack.inherited = Len(first.units)
         /\ pack.rules = Deep!Join(first.rules, candidates)
<1>1. first.units \o Deep!RoundUnits \in ResearchUnits /\ Len(first.units) \in Nat
  BY RoundReads, ConcatProperties DEF Deep!Packs, ResearchUnits
<1>2. Deep!Join(first.rules, candidates) \in SUBSET Deep!Rubrics
  BY DEF Deep!Join, Deep!Dedupe, Deep!Packs
<1> QED BY <1>1, <1>2 DEF Deep!PublishOver, Deep!Packs, ResearchUnits

LEMMA ResearchConstants ==
  ASSUME ResearchAssumption
  PROVE  /\ MaxJobs \in Nat /\ MaxScores \in Nat /\ MaxFaults \in Nat
         /\ RoundOne \in Nat /\ RoundOne <= 50
         /\ Deep!NoPack \in Deep!Packs /\ Deep!NoJob \in Deep!Jobs
         /\ Deep!NoPack.rules = {} /\ Deep!NoPack.units = <<>>
         /\ Deep!NoJob.kind = "idle" /\ Deep!NoJob.at = "idle"
         /\ Deep!NoJob.probes = <<>> /\ Deep!NoJob.found = <<>>
<1>1. MaxJobs \in Nat /\ MaxScores \in Nat /\ MaxFaults \in Nat /\ RoundOne \in 1..50
  BY DEF ResearchAssumption, Deep!ParametersAssumption
<1>2. Len(Passages) \in Nat
  BY DEF ResearchAssumption, Deep!ParametersAssumption
<1>3. [edition |-> 0, size |-> 0] \in Deep!Digests
  BY <1>2 DEF Deep!Digests
<1>4. Deep!NoPack \in Deep!Packs
  BY <1>1, <1>3 DEF Deep!NoPack, Deep!Packs
<1>5. Deep!NoJob \in Deep!Jobs
  BY <1>1, <1>4 DEF Deep!NoJob, Deep!Jobs
<1> QED BY <1>1, <1>4, <1>5 DEF Deep!NoPack, Deep!NoJob

LEMMA ResearchInit == ASSUME ResearchAssumption, Deep!Init PROVE ResearchInv
<1> USE ResearchConstants DEF Deep!Init
<1>1. Deep!TypeOK
  <2>1. corpus \in Deep!Digests
    BY DEF ResearchAssumption, Deep!ParametersAssumption, Deep!Digests
  <2>2. Len(job.found) <= Len(job.probes)
    OBVIOUS
  <2>3. score \in [at: {"idle", "scoring"}, runs: 0..MaxScores, of: SUBSET Deep!Rows]
    OBVIOUS
  <2>4. arms \in [Deep!Arms -> Deep!Packs \cup {Absent, Torn}] /\ faults \in 0..MaxFaults
    OBVIOUS
  <2>5. \A seen \in DOMAIN cache : cache[seen] \in [says : Rules, on : SUBSET seen]
    OBVIOUS
  <2> QED BY <2>1, <2>2, <2>3, <2>4, <2>5 DEF Deep!TypeOK
<1>2. JobHas
  BY DEF JobHas
<1>3. Deep!OnDisk = {}
  BY DEF Deep!OnDisk
<1>4. ArmsHave /\ ArmRules
  BY <1>3 DEF ArmsHave, ArmRules, Deep!NestedArms, Deep!OffTheGround, Deep!RestsOnItsOwn
<1>5. Measured
  BY DEF Measured
<1> QED BY <1>1, <1>2, <1>4, <1>5 DEF ResearchInv

(* The arms and their rules stand as long as no arm is written. *)
LEMMA ArmsStay ==
  ASSUME ResearchInv, UNCHANGED arms
  PROVE  /\ ArmRules'
         /\ Deep!OnDisk' = Deep!OnDisk
BY DEF ResearchInv, ArmRules, Deep!OnDisk, Deep!NestedArms, Deep!OffTheGround, Deep!RestsOnItsOwn

(* A command goes on and writes no file. *)
LEMMA WorkGoesOn ==
  ASSUME ResearchAssumption, ResearchInv, job.kind # "idle",
         NEW j \in Deep!Jobs, job' = j,
         j.kind = job.kind, j.number = job.number, j.pack = job.pack, j.second = job.second,
         j.at \notin {"plan", "critic", "coverage"},
         \/ j.at = job.at /\ j.probes = job.probes
         \/ job.at = "plan" /\ j.at = "deep-r1" /\ Len(j.probes) <= RoundOne
         \/ job.at = "critic" /\ j.at = "deep-r2"
         \/ job.at = "coverage" /\ j.at = "deep-frontier",
         Len(j.found) <= Len(j.probes),
         \A m \in memo' : m.rows \in Seq(Questions),
         \A seen \in DOMAIN cache' : cache'[seen] \in [says : Rules, on : SUBSET seen],
         faults' \in 0..MaxFaults, UNCHANGED <<corpus, arms, report, score, unsettled>>
  PROVE  ResearchInv'
<1> USE DEF ResearchInv
<1>1. Deep!TypeOK'
  BY DEF Deep!TypeOK
<1>2. JobHas'
  BY DEF JobHas, OpeningSteps, Opening, Deep!BuildSteps, Deep!FrontierSteps
<1>3. ArmsHave'
  <2>1. job'.at \in OpeningSteps /\ job.kind = "build" => job.at \in OpeningSteps
    BY DEF OpeningSteps
  <2> QED BY <2>1, ArmsStay DEF ArmsHave, Opening
<1>4. Measured'
  BY ArmsStay DEF Measured
<1> QED BY <1>1, <1>2, <1>3, <1>4, ArmsStay

(* The planner or a critic answers. *)
LEMMA ResearchAsks ==
  ASSUME ResearchAssumption, ResearchInv,
         (\E rows \in Plans : Deep!Plan(rows)) \/
         (\E rows \in GapLists : Deep!FindGaps(rows) \/ Deep!FindFrontier(rows))
  PROVE  ResearchInv'
<1>1. job \in Deep!Jobs /\ \A m \in memo : m.rows \in Seq(Questions)
  BY DEF ResearchInv, Deep!TypeOK
<1>2. Plans \subseteq Seq(Questions) /\ GapLists \subseteq Seq(Questions)
  BY DEF ResearchAssumption, Deep!ParametersAssumption
<1>3. ASSUME NEW key, NEW answers \in SUBSET Seq(Questions), NEW rows, Deep!Answered(key, answers, rows)
      PROVE  rows \in Seq(Questions) /\ \A m \in memo' : m.rows \in Seq(Questions)
  <2>1. CASE {m \in memo : m.key = key} = {}
    BY <1>1, <1>3, <2>1 DEF Deep!Answered
  <2>2. CASE {m \in memo : m.key = key} # {}
    BY <1>1, <1>3, <2>2 DEF Deep!Answered
  <2> QED BY <2>1, <2>2
<1>4. /\ job.at \in {"plan", "critic", "coverage"} => job.found = <<>> /\ job.kind # "idle"
      /\ Len(job.found) <= Len(job.probes) /\ faults \in 0..MaxFaults
      /\ \A seen \in DOMAIN cache : cache[seen] \in [says : Rules, on : SUBSET seen]
  BY DEF ResearchInv, Deep!TypeOK, JobHas
<1>5. ASSUME NEW rows \in Plans, Deep!Plan(rows) PROVE ResearchInv'
  <2> DEFINE first == SubSeq(rows, 1, IF Len(rows) < RoundOne THEN Len(rows) ELSE RoundOne)
             extra == SubSeq(rows, Len(first) + 1, Len(rows))
             j == [job EXCEPT !.at = "deep-r1", !.probes = first, !.extra = extra]
  <2>1. /\ rows \in Seq(Questions) /\ Len(rows) \in Nat /\ RoundOne \in Nat
        /\ \A m \in memo' : m.rows \in Seq(Questions)
        /\ job.at = "plan" /\ job' = j
        /\ UNCHANGED <<corpus, arms, report, cache, score, faults, unsettled>>
    <3>1. /\ Deep!Answered(<<"plan", job.pack.members>>, Plans, rows)
          /\ job.at = "plan" /\ job' = j
          /\ UNCHANGED <<corpus, arms, report, cache, score, faults, unsettled>>
      BY <1>5 DEF Deep!Plan, Deep!Doing
    <3>2. rows \in Seq(Questions)
      BY <1>2
    <3>3. \A m \in memo' : m.rows \in Seq(Questions)
      BY <1>2, <1>3, <3>1
    <3> HIDE DEF j
    <3> QED BY <3>1, <3>2, <3>3, ResearchConstants
  <2>2. first \in Seq(Questions) /\ Len(first) \in Nat /\ Len(first) <= RoundOne
    <3>1. \A i \in 1..Len(rows) : rows[i] \in Questions
      BY <2>1
    <3> QED BY <2>1, <3>1, SubSeqProperties
  <2> HIDE DEF first
  <2>3. extra \in Seq(Questions)
    <3>1. \A i \in (Len(first) + 1)..Len(rows) : rows[i] \in Questions
      BY <2>1, <2>2
    <3> QED BY <2>1, <2>2, <3>1, SubSeqProperties
  <2> HIDE DEF extra
  <2>4. /\ j \in Deep!Jobs /\ j.kind = job.kind /\ j.number = job.number /\ j.pack = job.pack
        /\ j.second = job.second /\ j.at = "deep-r1" /\ j.probes = first /\ j.found = job.found
    BY <1>1, <2>2, <2>3 DEF Deep!Jobs, Deep!BuildSteps
  <2> HIDE DEF j
  <2>5. Len(j.found) = 0
    BY <1>4, <2>1, <2>4
  <2> QED BY <1>4, <2>1, <2>2, <2>4, <2>5, WorkGoesOn
<1>6. ASSUME NEW rows \in GapLists, NEW at \in {"deep-r2", "deep-frontier"},
             job.at = (IF at = "deep-r2" THEN "critic" ELSE "coverage"),
             job' = [job EXCEPT !.at = at, !.probes = rows],
             NEW key, Deep!Answered(key, GapLists, rows),
             UNCHANGED <<corpus, arms, report, cache, score, faults, unsettled>>
      PROVE  ResearchInv'
  <2> DEFINE j == [job EXCEPT !.at = at, !.probes = rows]
  <2>1. rows \in Seq(Questions) /\ Len(rows) \in Nat /\ \A m \in memo' : m.rows \in Seq(Questions)
    BY <1>2, <1>3, <1>6
  <2>2. /\ j \in Deep!Jobs /\ j.kind = job.kind /\ j.number = job.number /\ j.pack = job.pack
        /\ j.second = job.second /\ j.at = at /\ j.probes = rows /\ j.found = job.found
    BY <1>1, <2>1 DEF Deep!Jobs, Deep!BuildSteps, Deep!FrontierSteps
  <2>3. Len(j.found) = 0 /\ j.at \notin {"plan", "critic", "coverage"}
    BY <1>4, <1>6, <2>2
  <2>4. job' = j
    BY <1>6
  <2> HIDE DEF j
  <2> QED BY <1>4, <1>6, <2>1, <2>2, <2>3, <2>4, WorkGoesOn
<1>7. ASSUME NEW rows \in GapLists, Deep!FindGaps(rows) PROVE ResearchInv'
  BY <1>6, <1>7 DEF Deep!FindGaps, Deep!Doing
<1>8. ASSUME NEW rows \in GapLists, Deep!FindFrontier(rows) PROVE ResearchInv'
  BY <1>6, <1>8 DEF Deep!FindFrontier, Deep!Doing
<1> QED BY <1>5, <1>7, <1>8

(* A probe is answered, or gives nothing. *)
LEMMA ResearchProbes ==
  ASSUME ResearchAssumption, ResearchInv, Deep!ProbeStep
  PROVE  ResearchInv'
<1> DEFINE R == Deep!Range(Passages)
<1>1. /\ job \in Deep!Jobs /\ faults \in 0..MaxFaults
      /\ \A m \in memo : m.rows \in Seq(Questions)
      /\ \A seen \in DOMAIN cache : cache[seen] \in [says : Rules, on : SUBSET seen]
  BY DEF ResearchInv, Deep!TypeOK
<1>2. Deep!Pending
  BY DEF Deep!ProbeStep, Deep!SkipProbe, Deep!Execute, Deep!ExecuteFails
<1>3. /\ job.kind # "idle" /\ job.at \notin {"plan", "critic", "coverage"}
      /\ Len(job.found) < Len(job.probes)
      /\ Len(job.found) \in Nat /\ Len(job.probes) \in Nat
  BY <1>1, <1>2 DEF Deep!Pending, Deep!Probing, ResearchInv, JobHas, Deep!Jobs
<1>4. PICK answer \in Deep!Answers \cup {Absent} : Deep!Found(answer)
  BY DEF Deep!ProbeStep, Deep!SkipProbe, Deep!Execute, Deep!ExecuteFails, Deep!Answers
<1>5. /\ UNCHANGED <<corpus, arms, report, memo, score, unsettled>>
      /\ faults' \in 0..MaxFaults
  <2>1. faults' = faults \/ (faults < MaxFaults /\ faults' = faults + 1)
    BY DEF Deep!ProbeStep, Deep!SkipProbe, Deep!Execute, Deep!ExecuteFails
  <2>2. faults' \in 0..MaxFaults
    BY <1>1, <2>1, ResearchConstants
  <2> QED BY <2>2 DEF Deep!ProbeStep, Deep!SkipProbe, Deep!Execute, Deep!ExecuteFails
<1>6. \A seen \in DOMAIN cache' : cache'[seen] \in [says : Rules, on : SUBSET seen]
  <2>1. CASE UNCHANGED cache
    BY <1>1, <2>1
  <2>2. ASSUME NEW says \in Rules, NEW on, Deep!Execute(says, on), cache' # cache
        PROVE  \A seen \in DOMAIN cache' : cache'[seen] \in [says : Rules, on : SUBSET seen]
    <3>1. /\ on \subseteq Deep!Unit.reads
          /\ cache' = [seen \in DOMAIN cache \cup {Deep!Unit.reads} |->
                         IF seen = Deep!Unit.reads THEN [says |-> says, on |-> on] ELSE cache[seen]]
      BY <2>2 DEF Deep!Execute
    <3> QED BY <1>1, <3>1
  <2> QED BY <2>1, <2>2 DEF Deep!ProbeStep, Deep!SkipProbe, Deep!ExecuteFails
<1> DEFINE j == [job EXCEPT !.found = Append(@, answer)]
<1>7. Append(job.found, answer) \in Seq(Deep!Answers \cup {Absent})
      /\ Len(Append(job.found, answer)) = Len(job.found) + 1
  BY <1>1 DEF Deep!Jobs
<1>8. /\ j \in Deep!Jobs /\ j.kind = job.kind /\ j.number = job.number /\ j.pack = job.pack
      /\ j.second = job.second /\ j.at = job.at /\ j.probes = job.probes /\ Len(j.found) <= Len(j.probes) /\ job' = j
  <2>1. Len(job.found) + 1 <= Len(job.probes)
    BY <1>3
  <2> QED BY <1>1, <1>4, <1>7, <2>1 DEF Deep!Jobs, Deep!Found
<1> HIDE DEF j
<1> QED BY <1>1, <1>3, <1>5, <1>6, <1>8, WorkGoesOn

(* One arm is written, with a pack or cut short. *)
LEMMA ArmWritten ==
  ASSUME Deep!TypeOK, NEW arm \in Deep!Arms, NEW p, arms' = [arms EXCEPT ![arm] = p]
  PROVE  /\ \A a \in Deep!Arms \ {arm} :
              arms'[a] = arms[a] /\ (a \in Deep!OnDisk' <=> a \in Deep!OnDisk)
         /\ arms'[arm] = p
         /\ arm \in Deep!OnDisk' => p \notin {Absent, Torn}
         /\ Deep!OnDisk \subseteq Deep!Arms /\ Deep!OnDisk' \subseteq Deep!Arms
         /\ p \in Deep!Packs \cup {Absent, Torn} =>
              arms' \in [Deep!Arms -> Deep!Packs \cup {Absent, Torn}]
BY DEF Deep!TypeOK, Deep!OnDisk

(* An arm that publishes over the first round holds it. *)
LEMMA NestedSaved ==
  ASSUME ResearchAssumption, ResearchInv, Opening(job.pack), arms["deep-r1"] = job.pack,
         NEW arm \in {"deep-oneshot", "deep-r2", "deep-frontier"},
         NEW candidates \in SUBSET Deep!Rubrics, \A r \in candidates : r.rank > RoundOne,
         NEW p, p = Deep!PublishOver(job.pack, Deep!RoundUnits, candidates),
         arms' = [arms EXCEPT ![arm] = p]
  PROVE  Deep!NestedArms'
<1>1. Deep!TypeOK /\ arm \in Deep!Arms /\ "deep-r1" \in Deep!Arms /\ arm # "deep-r1"
  BY DEF ResearchInv, Deep!Arms
<1>2. job.pack \in Deep!Packs
  BY <1>1 DEF Deep!TypeOK, Deep!Jobs
<1>3. /\ p.build = job.pack.build /\ p.digest = job.pack.digest
      /\ p.units = job.pack.units \o Deep!RoundUnits
      /\ p.rules = Deep!Join(job.pack.rules, candidates)
  BY <1>1, <1>2, Published
<1>4. /\ job.pack.rules \subseteq p.rules
      /\ \A r \in job.pack.rules, s \in p.rules \ job.pack.rules : r.rank < s.rank
  <2>1. job.pack.rules \subseteq p.rules /\ p.rules \ job.pack.rules \subseteq candidates
    BY <1>3, JoinKeeps DEF Opening
  <2>2. \A r \in job.pack.rules : r.rank \in Nat /\ r.rank <= RoundOne
    BY <1>2 DEF Opening, Deep!Packs, Deep!Rubrics
  <2>3. \A s \in candidates : s.rank \in Nat /\ s.rank > RoundOne
    BY DEF Deep!Rubrics
  <2> QED BY <2>1, <2>2, <2>3, ResearchConstants
<1>5. Deep!IsPrefix(job.pack.units, p.units)
  <2> DEFINE u == job.pack.units
             w == Deep!RoundUnits
  <2>1. u \in ResearchUnits /\ w \in ResearchUnits
    BY <1>1, <1>2, RoundReads DEF Deep!Packs, ResearchUnits
  <2> HIDE DEF u, w
  <2>2. Len(u) \in Nat /\ Len(w) \in Nat /\ Len(u \o w) = Len(u) + Len(w)
    BY <2>1 DEF ResearchUnits
  <2>3. SubSeq(u \o w, 1, Len(u)) = SubSeq(u, 1, Len(u))
    <3>1. CASE Len(u) = 0
      BY <2>2, <3>1, SubSeqEmpty
    <3>2. CASE Len(u) > 0
      <4>1. 1 \in 1..Len(u) /\ Len(u) \in 1..Len(u)
        BY <2>2, <3>2
      <4> QED BY <2>1, <4>1, SubSeqOfConcat1 DEF ResearchUnits
    <3> QED BY <2>2, <3>1, <3>2
  <2>4. Deep!IsPrefix(u, u \o w)
    BY <2>2, <2>3 DEF Deep!IsPrefix
  <2> QED BY <1>3, <2>4 DEF u, w
<1>6. /\ \A a \in Deep!Arms \ {arm} : arms'[a] = arms[a] /\ (a \in Deep!OnDisk' <=> a \in Deep!OnDisk)
      /\ arms'[arm] = p /\ Deep!OnDisk' \subseteq Deep!Arms
  BY <1>1, ArmWritten
<1>7. ASSUME NEW a \in Deep!OnDisk' \ {"deep-r1", "deep-r2-admit"},
             "deep-r1" \in Deep!OnDisk', arms'["deep-r1"].build = arms'[a].build
      PROVE  /\ arms'["deep-r1"].rules \subseteq arms'[a].rules
             /\ \A r \in arms'["deep-r1"].rules, s \in arms'[a].rules \ arms'["deep-r1"].rules :
                  r.rank < s.rank
             /\ Deep!IsPrefix(arms'["deep-r1"].units, arms'[a].units)
             /\ arms'["deep-r1"].digest = arms'[a].digest
  <2>1. CASE a = arm
    BY <1>1, <1>3, <1>4, <1>5, <1>6, <2>1
  <2>2. CASE a # arm
    BY <1>1, <1>6, <1>7, <2>2 DEF ResearchInv, ArmRules, Deep!NestedArms
  <2> QED BY <2>1, <2>2
<1> QED BY <1>7 DEF Deep!NestedArms

(* A command saves an arm over the first round and goes on. *)
LEMMA ArmSaved ==
  ASSUME ResearchAssumption, ResearchInv, job.kind # "idle", job.at \notin OpeningSteps,
         Opening(job.pack), arms["deep-r1"] = job.pack,
         NEW arm \in Deep!Arms \ {"deep-r1"}, NEW p \in Deep!Packs,
         arms' = [arms EXCEPT ![arm] = p],
         p.build > 0, p.build <= job.number,
         job.kind = "build" => p.build = job.number,
         job.kind = "frontier" => arm \notin Deep!Built,
         NEW j \in Deep!Jobs, job' = j,
         j.kind = job.kind, j.number = job.number, j.pack = job.pack, j.second = job.second,
         \/ job.at = "deep-oneshot" /\ arm = "deep-oneshot" /\ j.at = "critic" /\ j.found = <<>>
         \/ job.at = "deep-r2" /\ arm = "deep-r2" /\ j.at = "report"
         \/ job.kind = "frontier" /\ j.at \in {"admit", "block"},
         Len(j.found) <= Len(j.probes),
         ArmRules', UNCHANGED <<corpus, report, memo, cache, score, faults, unsettled>>
  PROVE  ResearchInv'
<1>1. Deep!TypeOK /\ JobHas /\ ArmsHave /\ Measured /\ arm \in Deep!Arms /\ "deep-r1" \in Deep!Arms
  BY DEF ResearchInv, Deep!Arms
<1>2. /\ \A a \in Deep!Arms \ {arm} : arms'[a] = arms[a] /\ (a \in Deep!OnDisk' <=> a \in Deep!OnDisk)
      /\ arms'[arm] = p /\ Deep!OnDisk' \subseteq Deep!Arms
      /\ arms' \in [Deep!Arms -> Deep!Packs \cup {Absent, Torn}]
  BY <1>1, ArmWritten
<1>3. Deep!TypeOK'
  BY <1>1, <1>2 DEF Deep!TypeOK
<1>4. JobHas'
  <2>1. arms'["deep-r1"] = job.pack
    BY <1>1, <1>2
  <2>2. CASE job.kind = "build"
    <3>1. "deep-oneshot" \in Deep!Arms /\ "deep-r2" \in Deep!Arms
      BY DEF Deep!Arms
    <3>2. job.at \in {"deep-oneshot", "deep-r2"}
      BY <2>2
    <3> QED BY <1>1, <1>2, <2>1, <2>2, <3>1, <3>2 DEF JobHas, OpeningSteps, Opening, Deep!BuildSteps
  <2>3. CASE job.kind = "frontier"
    <3>1. j.at \in {"admit", "block"}
      BY <1>1, <2>3 DEF JobHas, Deep!FrontierSteps
    <3> QED BY <1>1, <1>2, <2>1, <2>3, <3>1 DEF Opening, JobHas, Deep!FrontierSteps
  <2>4. job.kind \in {"build", "frontier"}
    BY <1>1 DEF Deep!TypeOK, Deep!Jobs
  <2> QED BY <2>2, <2>3, <2>4
<1>5. ArmsHave'
  <2>1. job'.kind = "build" => job'.at \notin OpeningSteps
    BY <1>1 DEF OpeningSteps
  <2>2. \A a \in Deep!OnDisk' : arms'[a].build > 0 /\ arms'[a].build <= job'.number
    BY <1>1, <1>2 DEF ArmsHave
  <2>3. "deep-r1" \in Deep!OnDisk' => Opening(arms["deep-r1"]) /\ arms'["deep-r1"] = arms["deep-r1"]
    BY <1>1, <1>2 DEF ArmsHave
  <2> QED BY <2>1, <2>2, <2>3 DEF ArmsHave, Opening
<1>6. Measured'
  <2>1. job.kind # "build" =>
          \A a \in Deep!Built \cap Deep!OnDisk' : a \in Deep!OnDisk /\ arms'[a] = arms[a]
    BY <1>1, <1>2 DEF Deep!TypeOK, Deep!Jobs
  <2> QED BY <1>1, <2>1 DEF Measured
<1> QED BY <1>3, <1>4, <1>5, <1>6 DEF ResearchInv

(* No arm but the frontier's own changes what the last two rules speak of.  *)
LEMMA RulesStand ==
  ASSUME ResearchInv, NEW arm \in {"deep-r1", "deep-oneshot", "deep-r2"}, NEW p,
         arms' = [arms EXCEPT ![arm] = p]
  PROVE  Deep!OffTheGround' /\ Deep!RestsOnItsOwn'
<1>1. Deep!TypeOK /\ arm \in Deep!Arms
  BY DEF ResearchInv, Deep!Arms
<1>2. \A a \in {"deep-frontier", "deep-r2-admit"} :
        arms'[a] = arms[a] /\ (a \in Deep!OnDisk' <=> a \in Deep!OnDisk)
  BY <1>1, ArmWritten DEF Deep!Arms
<1> QED BY <1>2 DEF ResearchInv, ArmRules, Deep!OffTheGround, Deep!RestsOnItsOwn

LEMMA ResearchRoundOne ==
  ASSUME ResearchAssumption, ResearchInv, Deep!SaveRoundOne
  PROVE  ResearchInv'
<1> DEFINE p == Deep!PublishOver(job.pack, Deep!RoundUnits, Deep!RoundRubrics)
           j == [job EXCEPT !.at = "deep-oneshot", !.pack = p, !.probes = job.extra, !.found = <<>>]
<1>1. /\ Deep!TypeOK /\ JobHas /\ ArmsHave /\ Measured /\ job \in Deep!Jobs /\ job.pack \in Deep!Packs
      /\ job.at = "deep-r1" /\ Len(job.found) = Len(job.probes)
      /\ arms' = [arms EXCEPT !["deep-r1"] = p] /\ job' = j
      /\ UNCHANGED <<corpus, report, memo, cache, score, faults, unsettled>>
  BY DEF ResearchInv, Deep!TypeOK, Deep!Jobs, Deep!SaveRoundOne, Deep!RoundDone, Deep!Save
<1>2. /\ job.kind = "build" /\ job.pack.build = job.number /\ job.number > 0
      /\ job.pack.rules = {} /\ Len(job.probes) <= RoundOne
  BY <1>1 DEF JobHas, OpeningSteps, Deep!FrontierSteps, Deep!Jobs
<1>3. /\ Deep!RoundRubrics \in SUBSET Deep!Rubrics
      /\ \A r \in Deep!RoundRubrics : r.rank <= RoundOne
  <2>1. Deep!Start = 0
    BY <1>1 DEF Deep!Start
  <2>2. Len(job.probes) \in Nat
    BY <1>1 DEF Deep!Jobs
  <2> QED BY <1>1, <1>2, <2>1, <2>2, RoundFinds, ResearchConstants
<1>4. /\ p \in Deep!Packs /\ p.build = job.number
      /\ p.rules = Deep!Join({}, Deep!RoundRubrics)
  <2>1. /\ p \in Deep!Packs /\ p.build = job.pack.build
        /\ p.rules = Deep!Join(job.pack.rules, Deep!RoundRubrics)
    BY <1>1, <1>3, Published
  <2> HIDE DEF p
  <2> QED BY <1>2, <2>1
<1> HIDE DEF p
<1>5. Opening(p)
  BY <1>2, <1>3, <1>4, JoinIsOpening DEF Opening
<1>6. /\ j \in Deep!Jobs /\ j.kind = "build" /\ j.number = job.number /\ j.pack = p
      /\ j.at = "deep-oneshot" /\ j.found = <<>> /\ Len(j.found) <= Len(j.probes)
  <2>1. Len(job.extra) \in Nat /\ <<>> \in Seq(Deep!Answers \cup {Absent}) /\ Len(<<>>) = 0
    BY <1>1 DEF Deep!Jobs
  <2>2. j \in Deep!Jobs
    BY <1>1, <1>4, <2>1 DEF Deep!Jobs, Deep!BuildSteps
  <2>3. /\ j.kind = job.kind /\ j.number = job.number /\ j.pack = p /\ j.at = "deep-oneshot"
        /\ j.found = <<>> /\ j.probes = job.extra
    BY <1>1 DEF Deep!Jobs
  <2> HIDE DEF j
  <2> QED BY <1>2, <2>1, <2>2, <2>3
<1> HIDE DEF j
<1>7. /\ \A a \in Deep!Arms \ {"deep-r1"} :
           arms'[a] = arms[a] /\ (a \in Deep!OnDisk' <=> a \in Deep!OnDisk)
      /\ arms'["deep-r1"] = p /\ Deep!OnDisk' \subseteq Deep!Arms
      /\ arms' \in [Deep!Arms -> Deep!Packs \cup {Absent, Torn}]
  BY <1>1, <1>4, ArmWritten DEF Deep!Arms
<1>8. Deep!TypeOK'
  BY <1>1, <1>6, <1>7 DEF Deep!TypeOK
<1>9. JobHas'
  BY <1>1, <1>2, <1>4, <1>5, <1>6, <1>7 DEF JobHas, OpeningSteps, Opening, Deep!BuildSteps
<1>10. \A a \in Deep!OnDisk \ {"deep-r1"} : arms[a].build # job.number /\ arms[a].build < job.number /\ arms[a].build > 0
  <2>1. \A a \in Deep!OnDisk : arms[a].build \in 0..MaxJobs
    BY <1>1 DEF Deep!OnDisk, Deep!TypeOK, Deep!Packs
  <2>2. job.number \in Nat
    BY <1>1, ResearchConstants DEF Deep!Jobs
  <2> QED BY <1>1, <1>2, <2>1, <2>2, ResearchConstants DEF ArmsHave, OpeningSteps
<1>11. ArmsHave'
  <2>1. job'.at \notin OpeningSteps
    BY <1>1, <1>6 DEF OpeningSteps
  <2>2. \A a \in Deep!OnDisk' : arms'[a].build > 0 /\ arms'[a].build <= job'.number
    <3>1. job.number \in Nat /\ \A a \in Deep!OnDisk : arms[a].build \in 0..MaxJobs
      BY <1>1, ResearchConstants DEF Deep!Jobs, Deep!OnDisk, Deep!TypeOK, Deep!Packs
    <3> QED BY <1>1, <1>2, <1>4, <1>6, <1>7, <1>10, <3>1, ResearchConstants
  <2> QED BY <1>5, <1>7, <2>1, <2>2 DEF ArmsHave, Opening
<1>12. Measured'
  BY <1>1, <1>2, <1>6 DEF Measured
<1>13. Deep!NestedArms'
  BY <1>4, <1>7, <1>10 DEF Deep!NestedArms
<1> QED BY <1>1, <1>8, <1>9, <1>11, <1>12, <1>13, RulesStand DEF ResearchInv, ArmRules

LEMMA ResearchLaterRounds ==
  ASSUME ResearchAssumption, ResearchInv, Deep!SaveOneShot \/ Deep!SaveRoundTwo
  PROVE  ResearchInv'
<1> DEFINE p == Deep!PublishOver(job.pack, Deep!RoundUnits, Deep!RoundRubrics)
           next == IF job.at = "deep-oneshot" THEN "critic" ELSE "report"
           j == [job EXCEPT !.at = next, !.probes = <<>>, !.found = <<>>]
<1>1. /\ Deep!TypeOK /\ JobHas /\ ArmsHave /\ Measured /\ job \in Deep!Jobs /\ job.pack \in Deep!Packs
      /\ job.at \in {"deep-oneshot", "deep-r2"} /\ Len(job.found) = Len(job.probes)
      /\ arms' = [arms EXCEPT ![job.at] = p] /\ job' = j
      /\ UNCHANGED <<corpus, report, memo, cache, score, faults, unsettled>>
  BY DEF ResearchInv, Deep!TypeOK, Deep!Jobs, Deep!SaveOneShot, Deep!SaveRoundTwo, Deep!RoundDone,
         Deep!Save
<1>2. /\ job.kind = "build" /\ job.pack.build = job.number /\ job.number > 0
      /\ Opening(job.pack) /\ arms["deep-r1"] = job.pack /\ job.at \notin OpeningSteps
  BY <1>1 DEF JobHas, OpeningSteps, Deep!FrontierSteps, Deep!Jobs
<1>3. /\ Deep!RoundRubrics \in SUBSET Deep!Rubrics
      /\ \A r \in Deep!RoundRubrics : r.rank > RoundOne
  <2>1. Deep!Start \in Nat /\ Deep!Start >= RoundOne
    BY <1>1, ResearchConstants DEF Deep!Start
  <2>2. Len(job.probes) \in Nat
    BY <1>1 DEF Deep!Jobs
  <2> QED BY <1>1, <1>2, <2>1, <2>2, RoundFinds, ResearchConstants
<1>4. p \in Deep!Packs /\ p.build = job.number
  BY <1>1, <1>2, <1>3, Published
<1>5. Deep!NestedArms'
  BY <1>1, <1>2, <1>3, NestedSaved
<1>6. ArmRules'
  BY <1>1, <1>5, RulesStand DEF ArmRules
<1> HIDE DEF p
<1>7. /\ j \in Deep!Jobs /\ j.kind = "build" /\ j.number = job.number /\ j.pack = job.pack
      /\ j.second = job.second /\ j.at = next /\ j.found = <<>> /\ Len(j.found) <= Len(j.probes)
  <2>1. next \in Deep!BuildSteps
    BY DEF Deep!BuildSteps
  <2> HIDE DEF next
  <2>2. <<>> \in Seq(Deep!Answers \cup {Absent}) /\ <<>> \in Seq(Questions) /\ Len(<<>>) = 0
    OBVIOUS
  <2>3. j \in Deep!Jobs
    BY <1>1, <2>1, <2>2 DEF Deep!Jobs
  <2>4. /\ j.kind = job.kind /\ j.number = job.number /\ j.pack = job.pack
        /\ j.second = job.second /\ j.at = next /\ j.found = <<>> /\ j.probes = <<>>
    BY <1>1 DEF Deep!Jobs
  <2> HIDE DEF j
  <2> QED BY <1>2, <2>2, <2>3, <2>4
<1> HIDE DEF j
<1>8. job.number \in Nat /\ job.at \in Deep!Arms \ {"deep-r1"}
  BY <1>1, ResearchConstants DEF Deep!Jobs, Deep!Arms
<1>9. \/ job.at = "deep-oneshot" /\ j.at = "critic"
      \/ job.at = "deep-r2" /\ j.at = "report"
  BY <1>1, <1>7
<1> HIDE DEF next
<1>10. /\ p.build > 0 /\ p.build <= job.number
       /\ job.kind = "build" => p.build = job.number
       /\ job.kind = "frontier" => job.at \notin Deep!Built
       /\ j.kind = job.kind /\ job.kind # "idle"
       /\ UNCHANGED <<corpus, report, memo, cache, score, faults, unsettled>>
  BY <1>1, <1>2, <1>4, <1>7, <1>8
<1>11. \/ job.at = "deep-oneshot" /\ job.at = "deep-oneshot" /\ j.at = "critic" /\ j.found = <<>>
       \/ job.at = "deep-r2" /\ job.at = "deep-r2" /\ j.at = "report"
       \/ job.kind = "frontier" /\ j.at \in {"admit", "block"}
  BY <1>7, <1>9
<1> QED BY <1>1, <1>2, <1>4, <1>6, <1>7, <1>8, <1>10, <1>11, ArmSaved

(* What a frontier round reads and may admit. *)
LEMMA FrontierRound ==
  ASSUME ResearchAssumption, ResearchInv, job.kind = "frontier"
  PROVE  /\ Deep!TypeOK /\ job \in Deep!Jobs /\ job.pack \in Deep!Packs /\ job.second \in Deep!Packs
         /\ Opening(job.pack) /\ arms["deep-r1"] = job.pack /\ job.at \in Deep!FrontierSteps
         /\ job.pack.rules \in SUBSET Deep!Rubrics
         /\ \A r \in job.pack.rules : r.rank <= 50
         /\ job.number \in Nat /\ job.pack.build <= job.number
<1>1. /\ Deep!TypeOK /\ job \in Deep!Jobs /\ job.pack \in Deep!Packs /\ job.second \in Deep!Packs
      /\ JobHas /\ ArmsHave
  BY DEF ResearchInv, Deep!TypeOK, Deep!Jobs
<1>2. Opening(job.pack) /\ arms["deep-r1"] = job.pack /\ job.at \in Deep!FrontierSteps
  BY <1>1 DEF JobHas
<1>3. job.pack.rules \in SUBSET Deep!Rubrics /\ \A r \in job.pack.rules : r.rank \in Nat
  BY <1>1 DEF Deep!Packs, Deep!Rubrics
<1>4. \A r \in job.pack.rules : r.rank <= 50
  BY <1>2, <1>3, ResearchConstants DEF Opening
<1>5. job.number \in Nat
  BY <1>1, ResearchConstants DEF Deep!Jobs
<1>6. job.pack.build <= job.number
  BY <1>1 DEF JobHas
<1> QED BY <1>1, <1>2, <1>3, <1>4, <1>5, <1>6

LEMMA ResearchFrontier ==
  ASSUME ResearchAssumption, ResearchInv, Deep!SaveFrontier
  PROVE  ResearchInv'
<1> DEFINE admitted == Deep!Admit(job.pack.rules, Deep!RoundRubrics)
           p == Deep!PublishOver(job.pack, Deep!RoundUnits, admitted)
           j == [job EXCEPT !.at = "admit"]
<1>1. /\ job.at = "deep-frontier" /\ Len(job.found) = Len(job.probes)
      /\ arms' = [arms EXCEPT !["deep-frontier"] = p] /\ job' = j
      /\ UNCHANGED <<corpus, report, memo, cache, score, faults, unsettled>>
  BY DEF Deep!SaveFrontier, Deep!RoundDone, Deep!Save, Deep!FrontierPack, Deep!Goto
<1>0. /\ admitted = Deep!Admit(job.pack.rules, Deep!RoundRubrics)
      /\ p = Deep!PublishOver(job.pack, Deep!RoundUnits, admitted)
  OBVIOUS
<1> HIDE DEF admitted, p
<1>2. job.kind = "frontier"
  BY <1>1 DEF ResearchInv, Deep!TypeOK, Deep!Jobs, JobHas, Deep!BuildSteps
<1>3. /\ Deep!TypeOK /\ job \in Deep!Jobs /\ job.pack \in Deep!Packs
      /\ Opening(job.pack) /\ arms["deep-r1"] = job.pack
      /\ job.pack.rules \in SUBSET Deep!Rubrics
      /\ \A r \in job.pack.rules : r.rank <= 50
      /\ job.number \in Nat /\ job.pack.build <= job.number
  BY <1>2, FrontierRound
<1>4. /\ Deep!RoundRubrics \in SUBSET Deep!Rubrics /\ admitted \in SUBSET Deep!Rubrics
      /\ \A r \in admitted : r.rank > RoundOne
  <2>1. Deep!Start = 60
    BY <1>1 DEF Deep!Start
  <2>2. Len(job.probes) \in Nat
    BY <1>3 DEF Deep!Jobs
  <2>3. Deep!RoundRubrics \in SUBSET Deep!Rubrics /\ \A r \in Deep!RoundRubrics : r.rank > RoundOne
    BY <1>1, <1>3, <2>1, <2>2, RoundFinds, ResearchConstants
  <2> QED BY <1>0, <2>3 DEF Deep!Admit
<1>5. /\ p \in Deep!Packs /\ p.build = job.pack.build
      /\ p.units = job.pack.units \o Deep!RoundUnits /\ p.inherited = Len(job.pack.units)
      /\ p.rules = Deep!Join(job.pack.rules, admitted)
  <2>1. admitted \subseteq Deep!Rubrics
    BY <1>4
  <2>2. p = Deep!PublishOver(job.pack, Deep!RoundUnits, admitted)
    BY <1>0
  <2> DEFINE first == job.pack
  <2>3. Deep!TypeOK /\ first \in Deep!Packs
    BY <1>3
  <2>4. p = Deep!PublishOver(first, Deep!RoundUnits, admitted)
    BY <2>2
  <2> HIDE DEF first
  <2>5. /\ p \in Deep!Packs
        /\ p.build = first.build /\ p.units = first.units \o Deep!RoundUnits
        /\ p.inherited = Len(first.units) /\ p.rules = Deep!Join(first.rules, admitted)
    BY ONLY <2>1, <2>3, <2>4, Published, ResearchAssumption, Zenon
  <2> QED BY <2>5 DEF first
<1>6. Deep!NestedArms'
  BY <1>1, <1>3, <1>4, <1>0, NestedSaved
<1>7. /\ \A a \in Deep!Arms \ {"deep-frontier"} :
           arms'[a] = arms[a] /\ (a \in Deep!OnDisk' <=> a \in Deep!OnDisk)
      /\ arms'["deep-frontier"] = p
  BY <1>1, <1>3, ArmWritten DEF Deep!Arms
<1>8. Deep!OffTheGround'
  <2>1. ASSUME NEW i \in 1..p.inherited, NEW k \in (p.inherited + 1)..Len(p.units)
        PROVE  p.units[i].reads \cap p.units[k].reads = {}
    <3> DEFINE u == job.pack.units
               w == Deep!RoundUnits
    <3>1. /\ u \in ResearchUnits /\ w \in ResearchUnits
          /\ Len(w) = Len(job.probes)
          /\ \A n \in 1..Len(w) : w[n].reads \cap Deep!Excluded = {}
      BY <1>3, RoundReads DEF Deep!Packs, ResearchUnits
    <3>2. \A n \in 1..Len(u) : u[n].reads \subseteq Deep!Excluded
      <4>1. DOMAIN u = 1..Len(u)
        BY <3>1 DEF ResearchUnits
      <4> QED BY <1>2, <4>1 DEF Deep!Excluded
    <3> HIDE DEF u, w
    <3>3. /\ Len(u) \in Nat /\ Len(w) \in Nat /\ Len(u \o w) = Len(u) + Len(w)
          /\ \A n \in 1..(Len(u) + Len(w)) : (u \o w)[n] = IF n <= Len(u) THEN u[n] ELSE w[n - Len(u)]
      <4>1. Len(u) \in Nat /\ Len(w) \in Nat
        BY <3>1, LenProperties DEF ResearchUnits
      <4> DEFINE S == [rank : Nat, reads : SUBSET Deep!Range(Passages)]
      <4>2. u \in Seq(S) /\ w \in Seq(S)
        BY <3>1 DEF ResearchUnits
      <4> HIDE DEF S
      <4> QED BY <4>1, <4>2, ConcatProperties
    <3>4. p.units = u \o w /\ p.inherited = Len(u)
      BY <1>5 DEF u, w
    <3>5. i \in 1..Len(u) /\ k \in 1..(Len(u) + Len(w)) /\ k > Len(u) /\ k - Len(u) \in 1..Len(w)
      BY <2>1, <3>3, <3>4
    <3>6. p.units[i] = u[i] /\ p.units[k] = w[k - Len(u)]
      BY <3>3, <3>4, <3>5
    <3> QED BY <3>1, <3>2, <3>5, <3>6
  <2> QED BY <1>7, <2>1 DEF Deep!OffTheGround
<1>9. Deep!RestsOnItsOwn'
  <2>1. ASSUME NEW r \in p.rules, r.rank > 50
        PROVE  ~(r.on \subseteq Deep!Quoted(Deep!Before(p.rules, r)))
    <3>1. r \notin job.pack.rules
      <4>1. \A s \in job.pack.rules : s.rank \in Nat
        BY <1>3 DEF Deep!Rubrics
      <4> QED BY <1>3, <2>1, <4>1
    <3>2. \A q, s \in job.pack.rules : s.rank < q.rank => s.says # q.says
      BY <1>3 DEF Opening
    <3> QED BY <1>0, <1>3, <1>4, <1>5, <2>1, <3>1, <3>2, AdmittedRest
  <2>2. "deep-r2-admit" \in Deep!Arms
    BY DEF Deep!Arms
  <2> QED BY <1>7, <2>1, <2>2 DEF ResearchInv, ArmRules, Deep!RestsOnItsOwn
<1>10. /\ j \in Deep!Jobs /\ j.kind = job.kind /\ j.number = job.number /\ j.pack = job.pack
       /\ j.second = job.second /\ j.at = "admit" /\ Len(j.found) <= Len(j.probes)
  <2>1. Len(job.found) <= Len(job.probes)
    BY <1>3 DEF Deep!TypeOK
  <2> QED BY <1>3, <2>1 DEF Deep!Jobs, Deep!FrontierSteps
<1> HIDE DEF j
<1>11. /\ p.build > 0 /\ p.build <= job.number /\ job.kind # "idle" /\ job.kind # "build"
       /\ job.at \notin OpeningSteps /\ "deep-frontier" \notin Deep!Built
       /\ "deep-frontier" \in Deep!Arms \ {"deep-r1"} /\ ArmRules'
  BY <1>1, <1>2, <1>3, <1>5, <1>6, <1>8, <1>9 DEF Opening, OpeningSteps, Deep!Built, Deep!Arms, ArmRules
<1> QED BY <1>1, <1>2, <1>3, <1>5, <1>10, <1>11, ArmSaved

LEMMA ResearchAdmission ==
  ASSUME ResearchAssumption, ResearchInv, Deep!SaveAdmission
  PROVE  ResearchInv'
<1> DEFINE inherited == {r.rank : r \in job.pack.rules}
           added == {r \in job.second.rules : r.rank \notin inherited}
           p == [job.second EXCEPT !.rules = Deep!Join(job.pack.rules, Deep!Admit(job.pack.rules, added)),
                                   !.digest = job.pack.digest]
           j == [job EXCEPT !.at = "block"]
<1>1. /\ job.kind = "frontier" /\ job.at = "admit"
      /\ arms' = [arms EXCEPT !["deep-r2-admit"] = p] /\ job' = j
      /\ UNCHANGED <<corpus, report, memo, cache, score, faults, unsettled>>
  BY DEF Deep!SaveAdmission, Deep!Doing, Deep!Save, Deep!AdmissionPack, Deep!Goto
<1>2. /\ Deep!TypeOK /\ job \in Deep!Jobs /\ job.pack \in Deep!Packs /\ job.second \in Deep!Packs
      /\ Opening(job.pack) /\ arms["deep-r1"] = job.pack
      /\ job.pack.rules \in SUBSET Deep!Rubrics
      /\ \A r \in job.pack.rules : r.rank <= 50
      /\ job.number \in Nat
  BY <1>1, FrontierRound
<1>3. added \in SUBSET Deep!Rubrics
  BY <1>2 DEF Deep!Packs
<1> HIDE DEF added
<1>4. Deep!Join(job.pack.rules, Deep!Admit(job.pack.rules, added)) \in SUBSET Deep!Rubrics
  BY <1>2, <1>3 DEF Deep!Join, Deep!Dedupe, Deep!Admit
<1>5. /\ p \in Deep!Packs /\ p.build = job.second.build
      /\ p.rules = Deep!Join(job.pack.rules, Deep!Admit(job.pack.rules, added))
  BY <1>2, <1>4 DEF Deep!Packs
<1> HIDE DEF p
<1>6. /\ \A a \in Deep!Arms \ {"deep-r2-admit"} :
           arms'[a] = arms[a] /\ (a \in Deep!OnDisk' <=> a \in Deep!OnDisk)
      /\ arms'["deep-r2-admit"] = p /\ Deep!OnDisk' \subseteq Deep!Arms
  BY <1>1, <1>2, ArmWritten DEF Deep!Arms
<1>7. Deep!RestsOnItsOwn'
  <2>1. ASSUME NEW r \in p.rules, r.rank > 50
        PROVE  ~(r.on \subseteq Deep!Quoted(Deep!Before(p.rules, r)))
    <3>1. r \notin job.pack.rules
      <4>1. \A s \in job.pack.rules : s.rank \in Nat
        BY <1>2 DEF Deep!Rubrics
      <4> QED BY <1>2, <2>1, <4>1
    <3>2. \A q, s \in job.pack.rules : s.rank < q.rank => s.says # q.says
      BY <1>2 DEF Opening
    <3> QED BY <1>2, <1>3, <1>5, <2>1, <3>1, <3>2, AdmittedRest
  <2>2. "deep-frontier" \in Deep!Arms
    BY DEF Deep!Arms
  <2> QED BY <1>6, <2>1, <2>2 DEF ResearchInv, ArmRules, Deep!RestsOnItsOwn
<1>8. Deep!NestedArms' /\ Deep!OffTheGround'
  <2>1. /\ "deep-frontier" \in Deep!Arms /\ "deep-r1" \in Deep!Arms
        /\ "deep-frontier" # "deep-r2-admit" /\ "deep-r1" # "deep-r2-admit"
    BY DEF Deep!Arms
  <2>2. Deep!NestedArms'
    BY <1>6, <2>1 DEF ResearchInv, ArmRules, Deep!NestedArms
  <2>3. Deep!OffTheGround'
    BY <1>6, <2>1 DEF ResearchInv, ArmRules, Deep!OffTheGround
  <2> QED BY <2>2, <2>3
<1>9. /\ j \in Deep!Jobs /\ j.kind = job.kind /\ j.number = job.number /\ j.pack = job.pack
      /\ j.second = job.second /\ j.at = "block" /\ Len(j.found) <= Len(j.probes)
  <2>1. Len(job.found) <= Len(job.probes)
    BY <1>2 DEF Deep!TypeOK
  <2> QED BY <1>2, <2>1 DEF Deep!Jobs, Deep!FrontierSteps
<1> HIDE DEF j
<1>10. /\ p.build > 0 /\ p.build <= job.number /\ job.kind # "idle" /\ job.kind # "build"
       /\ job.at \notin OpeningSteps /\ "deep-r2-admit" \notin Deep!Built
       /\ "deep-r2-admit" \in Deep!Arms \ {"deep-r1"} /\ ArmRules'
  BY <1>1, <1>2, <1>5, <1>7, <1>8
     DEF ResearchInv, JobHas, OpeningSteps, Deep!Built, Deep!Arms, ArmRules
<1> QED BY <1>1, <1>2, <1>5, <1>9, <1>10, ArmSaved

(* A command ends: what it leaves on disk was there, or is cut short. *)
LEMMA CommandEnds ==
  ASSUME ResearchAssumption, ResearchInv, Deep!End,
         arms' \in [Deep!Arms -> Deep!Packs \cup {Absent, Torn}],
         \A a \in Deep!OnDisk' : a \in Deep!OnDisk /\ arms'[a] = arms[a],
         report' \in Deep!Reports \cup {Absent, Torn},
         faults' \in 0..MaxFaults, unsettled' \in BOOLEAN, Measured',
         UNCHANGED <<corpus, memo, cache, score>>
  PROVE  ResearchInv'
<1> DEFINE j == [Deep!NoJob EXCEPT !.number = job.number]
<1>1. /\ Deep!TypeOK /\ ArmsHave /\ job \in Deep!Jobs /\ job.number \in 0..MaxJobs
  BY DEF ResearchInv, Deep!TypeOK, Deep!Jobs
<1>2. /\ j \in Deep!Jobs /\ j.kind = "idle" /\ j.at = "idle" /\ j.number = job.number
      /\ j.found = <<>> /\ j.probes = <<>>
  BY <1>1, ResearchConstants DEF Deep!Jobs
<1>3. job' = j
  BY DEF Deep!End
<1> HIDE DEF j
<1>4. Deep!TypeOK'
  <2>1. Len(job'.found) <= Len(job'.probes)
    BY <1>2, <1>3
  <2> QED BY <1>1, <1>2, <1>3, <2>1 DEF Deep!TypeOK
<1>5. JobHas'
  BY <1>2, <1>3 DEF JobHas
<1>6. ArmsHave'
  BY <1>1, <1>2, <1>3 DEF ArmsHave, Opening
<1>7. ArmRules'
  <2>1. Deep!NestedArms'
    BY DEF ResearchInv, ArmRules, Deep!NestedArms
  <2>2. Deep!OffTheGround'
    BY DEF ResearchInv, ArmRules, Deep!OffTheGround
  <2>3. Deep!RestsOnItsOwn'
    BY DEF ResearchInv, ArmRules, Deep!RestsOnItsOwn
  <2> QED BY <2>1, <2>2, <2>3 DEF ArmRules
<1> QED BY <1>4, <1>5, <1>6, <1>7 DEF ResearchInv

LEMMA ResearchReport ==
  ASSUME ResearchAssumption, ResearchInv, Deep!SaveReport
  PROVE  ResearchInv'
<1>1. /\ Deep!TypeOK /\ JobHas /\ job \in Deep!Jobs /\ job.number \in 0..MaxJobs
      /\ job.kind = "build" /\ job.at = "report" /\ Deep!End
      /\ report' = [build |-> job.number, frontier |-> 0, scores |-> {}]
      /\ unsettled' = (score.at # "idle")
      /\ UNCHANGED <<corpus, arms, memo, cache, score, faults>>
  BY DEF ResearchInv, Deep!TypeOK, Deep!Jobs, Deep!SaveReport, Deep!Doing, Deep!BuiltReport
<1>2. job'.kind = "idle"
  BY <1>1, ResearchConstants DEF Deep!End, Deep!Jobs
<1>3. report' \in Deep!Reports
  BY <1>1, ResearchConstants DEF Deep!Reports
<1>4. \A a \in Deep!Built : arms[a].build = job.number
  BY <1>1 DEF JobHas, Deep!Built, OpeningSteps
<1>5. Measured'
  BY <1>1, <1>2, <1>4 DEF Measured, Deep!OfBuild
<1>6. Deep!OnDisk' = Deep!OnDisk /\ faults \in 0..MaxFaults
      /\ arms \in [Deep!Arms -> Deep!Packs \cup {Absent, Torn}]
  BY <1>1 DEF Deep!OnDisk, Deep!TypeOK
<1> QED BY <1>1, <1>3, <1>5, <1>6, CommandEnds

LEMMA ResearchBlock ==
  ASSUME ResearchAssumption, ResearchInv, Deep!SaveBlock
  PROVE  ResearchInv'
<1> DEFINE old == IF report \in {Absent, Torn} THEN Deep!NoReport ELSE report
           new == [old EXCEPT !.frontier = job.pack.build]
<1>1. /\ Deep!TypeOK /\ Measured /\ job.kind = "frontier" /\ job.pack \in Deep!Packs /\ Deep!End
      /\ report \in Deep!Reports \cup {Absent, Torn} /\ faults \in 0..MaxFaults /\ unsettled \in BOOLEAN
      /\ arms \in [Deep!Arms -> Deep!Packs \cup {Absent, Torn}]
      /\ report' = report \/ report' = new
      /\ UNCHANGED <<corpus, arms, memo, cache, score, faults, unsettled>>
  BY DEF ResearchInv, Deep!TypeOK, Deep!Jobs, Deep!SaveBlock, Deep!Doing
<1>2. job'.kind = "idle"
  BY <1>1, ResearchConstants DEF Deep!End, Deep!Jobs
<1>3. old \in Deep!Reports
  BY <1>1, ResearchConstants DEF Deep!NoReport, Deep!Reports
<1>4. new \in Deep!Reports /\ new.build = old.build /\ new.scores = old.scores
  BY <1>1, <1>3 DEF Deep!Reports, Deep!Packs
<1>5. report \in {Absent, Torn} => old.build = 0
  BY DEF Deep!NoReport
<1>6. Deep!OnDisk' = Deep!OnDisk
  BY <1>1 DEF Deep!OnDisk
<1>7. report \notin {Absent, Torn} => old = report
  OBVIOUS
<1> HIDE DEF new, old
<1>8. Measured'
  <2>1. CASE report' = report
    BY <1>1, <1>2, <1>6, <2>1 DEF Measured
  <2>2. CASE report' = new
    BY <1>1, <1>2, <1>4, <1>5, <1>6, <1>7, <2>2 DEF Measured
  <2> QED BY <1>1, <2>1, <2>2
<1> QED BY <1>1, <1>4, <1>6, <1>8, CommandEnds

LEMMA ResearchKill ==
  ASSUME ResearchAssumption, ResearchInv, Deep!Kill
  PROVE  ResearchInv'
<1>1. /\ Deep!TypeOK /\ Measured /\ JobHas /\ Deep!End /\ faults \in 0..MaxFaults
      /\ job.kind # "idle" /\ job \in Deep!Jobs
      /\ report \in Deep!Reports \cup {Absent, Torn} /\ unsettled \in BOOLEAN
      /\ arms \in [Deep!Arms -> Deep!Packs \cup {Absent, Torn}]
  BY DEF ResearchInv, Deep!TypeOK, Deep!Kill
<1>2. /\ faults < MaxFaults /\ faults' = faults + 1
      /\ unsettled' = (unsettled \/ job.kind = "build")
      /\ UNCHANGED <<corpus, memo, cache, score>>
      /\ report' \in {report, Torn}
      /\ arms' = arms \/ (\E a \in Deep!Arms : arms' = [arms EXCEPT ![a] = Torn])
  BY DEF Deep!Kill, Deep!Probing, Deep!Arms
<1>3. faults' \in 0..MaxFaults
  BY <1>1, <1>2, ResearchConstants
<1>4. /\ arms' \in [Deep!Arms -> Deep!Packs \cup {Absent, Torn}]
      /\ \A a \in Deep!OnDisk' : a \in Deep!OnDisk /\ arms'[a] = arms[a]
  BY <1>1, <1>2 DEF Deep!OnDisk
<1>5. job'.kind = "idle"
  BY <1>1, ResearchConstants DEF Deep!End, Deep!Jobs
<1>6. Measured'
  <2>1. ~unsettled' => ~unsettled /\ job.kind # "build"
    BY <1>1, <1>2
  <2>2. report' = report \/ report' = Torn
    BY <1>2
  <2> QED BY <1>1, <1>2, <1>4, <1>5, <2>1, <2>2 DEF Measured
<1> QED BY <1>1, <1>2, <1>3, <1>4, <1>6, CommandEnds

LEMMA ResearchStartBuild ==
  ASSUME ResearchAssumption, ResearchInv, NEW members \in Routings, Deep!StartBuild(members)
  PROVE  ResearchInv'
<1> DEFINE p == [Deep!NoPack EXCEPT !.build = job.number + 1, !.digest = corpus, !.members = members]
           j == [Deep!NoJob EXCEPT !.kind = "build", !.at = "plan", !.number = job.number + 1,
                                   !.pack = p]
<1>1. /\ Deep!TypeOK /\ ArmsHave /\ Measured /\ corpus \in Deep!Digests
      /\ job \in Deep!Jobs /\ job.number \in 0..MaxJobs
      /\ job.number < MaxJobs /\ job.kind = "idle" /\ job' = j
      /\ unsettled' = (unsettled \/ score.at # "idle") /\ unsettled \in BOOLEAN
      /\ UNCHANGED <<corpus, arms, report, memo, cache, score, faults>>
  BY DEF ResearchInv, Deep!TypeOK, Deep!Jobs, Deep!StartBuild, Deep!Idle
<1>2. job.number \in Nat /\ job.number + 1 \in 0..MaxJobs
  BY <1>1, ResearchConstants
<1>3. members \subseteq Deep!Range(Passages)
  BY DEF ResearchAssumption, Deep!ParametersAssumption
<1>4. /\ p \in Deep!Packs /\ p.build = job.number + 1 /\ p.rules = {} /\ p.units = <<>>
  BY <1>1, <1>2, <1>3, ResearchConstants DEF Deep!Packs
<1> HIDE DEF p
<1>5. /\ j \in Deep!Jobs /\ j.kind = "build" /\ j.at = "plan" /\ j.number = job.number + 1
      /\ j.pack = p /\ j.found = <<>> /\ j.probes = <<>>
  BY <1>2, <1>4, ResearchConstants DEF Deep!Jobs, Deep!BuildSteps
<1> HIDE DEF j
<1>6. Deep!TypeOK'
  <2>1. Len(j.found) <= Len(j.probes)
    BY <1>5
  <2> QED BY <1>1, <1>5, <2>1 DEF Deep!TypeOK
<1>7. JobHas'
  BY <1>1, <1>2, <1>4, <1>5 DEF JobHas, OpeningSteps, Deep!BuildSteps
<1>8. ArmsHave'
  <2>1. \A a \in Deep!OnDisk : arms[a].build \in 0..MaxJobs
    BY <1>1 DEF Deep!OnDisk, Deep!TypeOK, Deep!Packs
  <2>2. \A a \in Deep!OnDisk : arms[a].build <= job.number + 1 /\ arms[a].build < job.number + 1
    BY <1>1, <1>2, <2>1, ResearchConstants DEF ArmsHave
  <2> QED BY <1>1, <1>5, <2>2, ArmsStay DEF ArmsHave, Opening
<1>9. Measured'
  <2>1. ~unsettled' => ~unsettled /\ score.at # "scoring"
    BY <1>1
  <2> QED BY <1>1, <1>5, <2>1 DEF Measured
<1> QED BY <1>1, <1>6, <1>7, <1>8, <1>9, ArmsStay DEF ResearchInv

LEMMA ResearchStartFrontier ==
  ASSUME ResearchAssumption, ResearchInv, Deep!StartFrontier
  PROVE  ResearchInv'
<1> DEFINE j == [Deep!NoJob EXCEPT !.kind = "frontier", !.at = "coverage", !.number = job.number + 1,
                                   !.pack = arms["deep-r1"], !.second = arms["deep-r2"]]
<1>1. /\ Deep!TypeOK /\ ArmsHave /\ Measured
      /\ job \in Deep!Jobs /\ job.number \in 0..MaxJobs
      /\ job.number < MaxJobs /\ job.kind = "idle" /\ job' = j
      /\ UNCHANGED <<corpus, arms, report, memo, cache, score, faults, unsettled>>
  BY DEF ResearchInv, Deep!TypeOK, Deep!Jobs, Deep!StartFrontier, Deep!Idle
<1>2. job.number \in Nat /\ job.number + 1 \in 0..MaxJobs
  BY <1>1, ResearchConstants
<1>3. /\ "deep-r1" \in Deep!OnDisk /\ "deep-r2" \in Deep!OnDisk
      /\ \A a \in Deep!OnDisk : arms[a] \in Deep!Packs
  BY <1>1 DEF Deep!StartFrontier, Deep!OnDisk, Deep!Arms, Deep!TypeOK
<1>4. /\ j \in Deep!Jobs /\ j.kind = "frontier" /\ j.at = "coverage" /\ j.number = job.number + 1
      /\ j.pack = arms["deep-r1"] /\ j.second = arms["deep-r2"] /\ j.found = <<>> /\ j.probes = <<>>
  BY <1>2, <1>3, ResearchConstants DEF Deep!Jobs, Deep!FrontierSteps
<1> HIDE DEF j
<1>5. Deep!TypeOK'
  <2>1. Len(j.found) <= Len(j.probes)
    BY <1>4
  <2> QED BY <1>1, <1>4, <2>1 DEF Deep!TypeOK
<1>6. \A a \in Deep!OnDisk : arms[a].build <= job.number + 1 /\ arms[a].build > 0
  <2>1. \A a \in Deep!OnDisk : arms[a].build \in 0..MaxJobs
    BY <1>3 DEF Deep!Packs
  <2> QED BY <1>1, <1>2, <2>1, ResearchConstants DEF ArmsHave
<1>7. JobHas'
  BY <1>1, <1>3, <1>4, <1>6 DEF JobHas, ArmsHave, Opening, Deep!FrontierSteps
<1>8. ArmsHave'
  BY <1>1, <1>4, <1>6, ArmsStay DEF ArmsHave, Opening
<1>9. Measured'
  BY <1>1, <1>4, ArmsStay DEF Measured
<1> QED BY <1>1, <1>5, <1>7, <1>8, <1>9, ArmsStay DEF ResearchInv

(* A scoring run reads the arms, or puts its scores into the report. *)
LEMMA ResearchScores ==
  ASSUME ResearchAssumption, ResearchInv, Deep!StartScore \/ Deep!AttachScores
  PROVE  ResearchInv'
<1>1. /\ Deep!TypeOK /\ JobHas /\ ArmsHave /\ Measured /\ unsettled \in BOOLEAN
      /\ score \in [at: {"idle", "scoring"}, runs: 0..MaxScores, of: SUBSET Deep!Rows]
      /\ report \in Deep!Reports \cup {Absent, Torn}
  BY DEF ResearchInv, Deep!TypeOK
<1>2. UNCHANGED <<corpus, arms, memo, cache, job, faults>>
  BY DEF Deep!StartScore, Deep!AttachScores
<1>3. ASSUME score' \in [at: {"idle", "scoring"}, runs: 0..MaxScores, of: SUBSET Deep!Rows],
             report' \in Deep!Reports \cup {Absent, Torn}, unsettled' \in BOOLEAN, Measured'
      PROVE  ResearchInv'
  <2>1. Deep!TypeOK'
    BY <1>1, <1>2, <1>3 DEF Deep!TypeOK
  <2>2. JobHas'
    BY <1>1, <1>2 DEF JobHas, Opening
  <2>3. ArmsHave'
    BY <1>1, <1>2, ArmsStay DEF ArmsHave, Opening
  <2> QED BY <1>2, <1>3, <2>1, <2>2, <2>3, ArmsStay DEF ResearchInv
<1>4. CASE Deep!StartScore
  <2> DEFINE of == {[arm |-> a, build |-> arms[a].build] : a \in Deep!OnDisk}
  <2>1. /\ score.runs < MaxScores /\ UNCHANGED report
        /\ score' = [at |-> "scoring", runs |-> score.runs + 1, of |-> of]
        /\ unsettled' = (unsettled \/ job.kind = "build")
    BY <1>4 DEF Deep!StartScore
  <2>2. Deep!OnDisk \subseteq Deep!Arms
    BY DEF Deep!OnDisk
  <2>3. \A a \in Deep!OnDisk : arms[a].build \in 1..MaxJobs
    <3>1. \A a \in Deep!OnDisk : arms[a].build \in 0..MaxJobs
      BY <1>1 DEF Deep!OnDisk, Deep!TypeOK, Deep!Packs
    <3> QED BY <1>1, <3>1, ResearchConstants DEF ArmsHave
  <2>4. of \subseteq Deep!Rows
    BY <2>2, <2>3 DEF Deep!Rows
  <2>5. score.runs + 1 \in 0..MaxScores
    BY <1>1, <2>1, ResearchConstants
  <2>6. Measured'
    <3> SUFFICES ASSUME ~unsettled' PROVE Measured'
      BY DEF Measured
    <3>1. ~unsettled /\ job.kind # "build"
      BY <1>1, <2>1
    <3>2. report \notin {Absent, Torn} /\ report.build > 0 => Deep!OfBuild(of, report.build)
      BY <1>1, <3>1 DEF Measured, Deep!OfBuild
    <3> HIDE DEF of
    <3> QED BY <1>1, <1>2, <2>1, <3>1, <3>2, ArmsStay DEF Measured
  <2> HIDE DEF of
  <2>7. unsettled' \in BOOLEAN
    BY <2>1
  <2> QED BY <1>1, <1>3, <2>1, <2>4, <2>5, <2>6, <2>7
<1>5. CASE Deep!AttachScores
  <2> DEFINE new == [report EXCEPT !.scores = score.of]
  <2>1. /\ score.at = "scoring" /\ score' = [score EXCEPT !.at = "idle", !.of = {}]
        /\ report' = IF report \in {Absent, Torn} THEN report ELSE new
        /\ unsettled' = unsettled
    BY <1>5 DEF Deep!AttachScores
  <2>2. score' \in [at: {"idle", "scoring"}, runs: 0..MaxScores, of: SUBSET Deep!Rows]
        /\ score'.at = "idle"
    BY <1>1, <2>1
  <2>3. report \notin {Absent, Torn} =>
          new \in Deep!Reports /\ new.build = report.build /\ new.scores = score.of
    BY <1>1 DEF Deep!Reports
  <2> HIDE DEF new
  <2>4. Measured'
    BY <1>1, <1>2, <2>1, <2>2, <2>3, ArmsStay DEF Measured
  <2> QED BY <1>1, <1>3, <2>1, <2>2, <2>3, <2>4
<1> QED BY <1>4, <1>5

LEMMA ResearchElse ==
  ASSUME ResearchAssumption, ResearchInv, Deep!Ingest \/ UNCHANGED Deep!vars
  PROVE  ResearchInv'
<1>1. Deep!TypeOK /\ JobHas /\ ArmsHave /\ Measured
  BY DEF ResearchInv
<1>2. UNCHANGED <<arms, report, memo, cache, job, score, unsettled>>
  BY DEF Deep!Ingest, Deep!vars
<1>3. corpus' \in Deep!Digests /\ faults' \in 0..MaxFaults
  <2>1. corpus \in Deep!Digests /\ faults \in 0..MaxFaults
    BY <1>1 DEF Deep!TypeOK
  <2>2. CASE UNCHANGED Deep!vars
    BY <2>1, <2>2 DEF Deep!vars
  <2>3. CASE Deep!Ingest
    <3>1. Len(Passages) \in Nat
      BY DEF ResearchAssumption, Deep!ParametersAssumption
    <3>2. CASE corpus.size < Len(Passages) /\ corpus' = [corpus EXCEPT !.size = @ + 1] /\ UNCHANGED faults
      <4>1. corpus.size + 1 \in 0..Len(Passages)
        BY <2>1, <3>1, <3>2 DEF Deep!Digests
      <4> QED BY <2>1, <3>2, <4>1 DEF Deep!Digests
    <3>3. CASE /\ faults < MaxFaults /\ faults' = faults + 1
               /\ corpus' = [corpus EXCEPT !.edition = @ + 1]
      <4>1. faults + 1 \in 0..MaxFaults /\ corpus.edition + 1 \in Nat
        BY <2>1, <3>3, ResearchConstants DEF Deep!Digests
      <4> QED BY <2>1, <3>3, <4>1 DEF Deep!Digests
    <3> QED BY <2>3, <3>2, <3>3 DEF Deep!Ingest
  <2> QED BY <2>2, <2>3
<1>4. Deep!TypeOK'
  BY <1>1, <1>2, <1>3 DEF Deep!TypeOK
<1>5. JobHas' /\ ArmsHave' /\ Measured'
  BY <1>1, <1>2, ArmsStay DEF JobHas, ArmsHave, Measured, Opening
<1> QED BY <1>2, <1>4, <1>5, ArmsStay DEF ResearchInv

LEMMA ResearchStep ==
  ASSUME ResearchAssumption, ResearchInv, [Deep!Next]_Deep!vars
  PROVE  ResearchInv'
<1>1. ASSUME NEW members \in Routings, Deep!StartBuild(members) PROVE ResearchInv'
  BY <1>1, ResearchStartBuild
<1>2. CASE Deep!BuildStep
  BY <1>2, ResearchAsks, ResearchRoundOne, ResearchLaterRounds, ResearchReport DEF Deep!BuildStep
<1>3. CASE Deep!FrontierStep
  BY <1>3, ResearchAsks, ResearchFrontier, ResearchAdmission, ResearchBlock DEF Deep!FrontierStep
<1>4. CASE Deep!ProbeStep
  BY <1>4, ResearchProbes
<1>5. CASE Deep!StartFrontier \/ Deep!Kill
  BY <1>5, ResearchStartFrontier, ResearchKill
<1>6. CASE Deep!StartScore \/ Deep!AttachScores
  BY <1>6, ResearchScores
<1>7. CASE Deep!Ingest \/ UNCHANGED Deep!vars
  BY <1>7, ResearchElse
<1> QED BY <1>1, <1>2, <1>3, <1>4, <1>5, <1>6, <1>7 DEF Deep!Next

(* DeepResearch is instantiated over the state of ResearchArms, so that its   *)
(* assumptions are the ones made there, and its properties the ones stated.   *)
LEMMA ResearchAssumed == ResearchAssumption
BY ParametersAssumption
   DEF ResearchAssumption, Deep!ParametersAssumption, Range, Deep!Range, IsInjective, Deep!IsInjective

LEMMA SameArms == Deep!OnDisk = OnDisk
BY DEF Deep!OnDisk, OnDisk, Deep!Arms, Arms

LEMMA SamePromises ==
  /\ Deep!NestedArms => NestedArms
  /\ Deep!OffTheGround => OffTheGround
  /\ Deep!RestsOnItsOwn => RestsOnItsOwn
  /\ Deep!ScoresOfThisBuild => ScoresOfThisBuild
<1>1. Deep!NestedArms => NestedArms
  BY SameArms DEF Deep!NestedArms, NestedArms, Deep!IsPrefix, IsPrefix
<1>2. Deep!OffTheGround => OffTheGround
  BY SameArms DEF Deep!OffTheGround, OffTheGround
<1>3. Deep!RestsOnItsOwn => RestsOnItsOwn
  BY SameArms DEF Deep!RestsOnItsOwn, RestsOnItsOwn, Deep!Quoted, Quoted, Deep!Before, Before
<1>4. Deep!ScoresOfThisBuild => ScoresOfThisBuild
  BY DEF Deep!ScoresOfThisBuild, ScoresOfThisBuild, Deep!OfBuild, OfBuild, Deep!Built, Built
<1> QED BY <1>1, <1>2, <1>3, <1>4

(* The inductive invariant of the research arms: what a command builds on and *)
(* has built at its step, whose build each arm is of, and whose scores there  *)
(* are.                                                                      *)
THEOREM ResearchInvariance == Deep!Spec => []ResearchInv
<1>1. Deep!Init => ResearchInv
  BY ResearchInit, ResearchAssumed
<1>2. ResearchInv /\ [Deep!Next]_Deep!vars => ResearchInv'
  BY ResearchStep, ResearchAssumed
<1> QED BY <1>1, <1>2, PTL DEF Deep!Spec

(* Every variable of the research keeps its type. *)
THEOREM ResearchTyped == Deep!Spec => []Deep!TypeOK
<1>1. ResearchInv => Deep!TypeOK
  BY DEF ResearchInv
<1> QED BY <1>1, ResearchInvariance, PTL

(* The arms that build on a first round hold its rules, unchanged and before  *)
(* their own, for plans, gaps and corpora of any size and whatever was killed *)
(* or rebuilt (publish).                                                     *)
THEOREM ArmsNest == Deep!Spec => []NestedArms
<1>1. ResearchInv => NestedArms
  BY SamePromises DEF ResearchInv, ArmRules
<1> QED BY <1>1, ResearchInvariance, PTL

(* A frontier round's probes read no passage the first round has read, however *)
(* many builds, kills and re-indexed corpora came before it (probe_unit).    *)
THEOREM FrontierIsNewGround == Deep!Spec => []OffTheGround
<1>1. ResearchInv => OffTheGround
  BY SamePromises DEF ResearchInv, ArmRules
<1> QED BY <1>1, ResearchInvariance, PTL

(* A rule the frontier or the admission arm adds rests on a passage that no   *)
(* rule before it rests on, also where their rounds are of two builds        *)
(* (admit_novel_evidence).                                                   *)
THEOREM AddedRulesRest == Deep!Spec => []RestsOnItsOwn
<1>1. ResearchInv => RestsOnItsOwn
  BY SamePromises DEF ResearchInv, ArmRules
<1> QED BY <1>1, ResearchInvariance, PTL

(* A build's arms are scored into a report only as its own build made them,    *)
(* unless a build ran beside a scoring run or was killed (attach_scores).      *)
THEOREM ScoresFit == Deep!Spec => []ScoresOfThisBuild
<1>1. ResearchInv => Deep!ScoresOfThisBuild
  BY DEF ResearchInv, Measured, Deep!ScoresOfThisBuild
<1>2. ResearchInv => ScoresOfThisBuild
  BY <1>1, SamePromises
<1> QED BY <1>2, ResearchInvariance, PTL
=============================================================================
