---------------------------- MODULE SetupRunner ----------------------------
(***************************************************************************)
(* Answering a question with a retrieval setup: RagSetupRunner.run and the *)
(* RagTranscriptAgent it calls.  The server holds one runner, the runner   *)
(* one agent per retrieval variant, and every request to /api/ask answers  *)
(* on a thread of its own, so the requests share the agent's last_context, *)
(* last_rewrite and last_retrievals, and no lock is held over an answer.   *)
(*                                                                         *)
(* A retrieval pass and a rewrite are abstracted to the ask that recorded  *)
(* them, the contexts to the ask whose query they were retrieved for.      *)
(***************************************************************************)
EXTENDS Naturals, Sequences

CONSTANTS
  Asks,        \* the questions asked of the server
  Nobody,      \* a field that holds nothing (Python's None)
  MaxFollowups \* bound on the follow-up retrievals of a recursive answer

ASSUME AsksAssumption == Nobody \notin Asks
ASSUME FollowupsAssumption == MaxFollowups \in Nat

VARIABLES
  agent,   \* the record the shared agent keeps of the answer it works on
  run,     \* the local state of every ask's thread inside the runner
  alone    \* the asks no other ask has shared the agent with (auxiliary)

vars == <<agent, run, alone>>

Keys == {"rag_llm", "rag_llm_recursive"}

NoPasses == <<>>

(* The three fields of RagTranscriptAgent that outlive a call. *)
Blank == [context |-> Nobody, rewrite |-> Nobody, retrievals |-> NoPasses]

(* A SetupResult: whose retrieval its contexts, trace and rewrite step are. *)
NoResult == [context |-> Nobody, rewrite |-> Nobody, trace |-> NoPasses, error |-> "none"]

Outside == [at |-> "out", key |-> "rag_llm", query |-> Nobody, hops |-> 0, result |-> NoResult]

Init ==
  /\ agent = Blank
  /\ run = [r \in Asks |-> Outside]
  /\ alone = Asks

Inside(r) == run[r].at \notin {"out", "built"}

Goto(r, place) == run' = [run EXCEPT ![r].at = place]

(* Mutant: the record of the previous answer is left on the agent. *)
EnterUncleared(r, k) ==
  /\ run[r].at = "out"
  /\ run' = [run EXCEPT ![r] = [Outside EXCEPT !.at = "request", !.key = k]]
  /\ alone' = IF \E q \in Asks \ {r}: Inside(q)
              THEN alone \ ({r} \cup {q \in Asks: Inside(q)})
              ELSE alone
  /\ UNCHANGED agent

(* run: look the cached agent up and discard what it recorded before. *)
Enter(r, k) ==
  /\ run[r].at = "out"
  /\ agent' = Blank
  /\ run' = [run EXCEPT ![r] = [Outside EXCEPT !.at = "request", !.key = k]]
  /\ alone' = IF \E q \in Asks \ {r}: Inside(q)
              THEN alone \ ({r} \cup {q \in Asks: Inside(q)})
              ELSE alone

(* _request: a malformed URL is refused here, before the agent is called. *)
RefuseRequest(r) ==
  /\ run[r].at = "request"
  /\ Goto(r, "failed")
  /\ UNCHANGED <<agent, alone>>

(* RagTranscriptAgent.answer clears the record again; a question with       *)
(* history is rewritten first, any other is its own query.                 *)
Answer(r) ==
  /\ run[r].at = "request"
  /\ agent' = Blank
  /\ \/ Goto(r, "rewrite")
     \/ run' = [run EXCEPT ![r].at = "retrieve", ![r].query = r]
  /\ UNCHANGED alone

(* retrieval_query: the rewrite, degraded or not, is kept on the agent. *)
Rewrite(r) ==
  /\ run[r].at = "rewrite"
  /\ agent' = [agent EXCEPT !.rewrite = r]
  /\ Goto(r, "query")
  /\ UNCHANGED alone

(* Mutant: a rewrite that is not there is waited for. *)
ReadQueryWaits(r) ==
  /\ run[r].at = "query"
  /\ run' = IF agent.rewrite = Nobody
            THEN run
            ELSE [run EXCEPT ![r].at = "retrieve", ![r].query = agent.rewrite]
  /\ UNCHANGED <<agent, alone>>

(* "return self.last_rewrite.query": read back from the agent, where        *)
(* another ask may have put its own or nothing (AttributeError).           *)
ReadQuery(r) ==
  /\ run[r].at = "query"
  /\ run' = IF agent.rewrite = Nobody
            THEN [run EXCEPT ![r].at = "failed"]
            ELSE [run EXCEPT ![r].at = "retrieve", ![r].query = agent.rewrite]
  /\ UNCHANGED <<agent, alone>>

(* _retrieve: the pass and the contexts of the query become the agent's. *)
Retrieved(r) == [agent EXCEPT !.retrievals = Append(@, r), !.context = run[r].query]

(* A retrieval that fails part-way still records its pass, any other        *)
(* failure records nothing, and a context that is too long has become       *)
(* last_context before it is refused.                                      *)
RetrievalFails(r) ==
  /\ agent' \in {agent,
                 [agent EXCEPT !.retrievals = Append(@, r)],
                 Retrieved(r)}
  /\ Goto(r, "failed")

(* The first retrieval and the answer call over it, which is the thread's   *)
(* own: it may fail, and a recursive answer may ask for follow-ups.        *)
Retrieve(r) ==
  /\ run[r].at = "retrieve"
  /\ \/ /\ agent' = Retrieved(r)
        /\ \/ Goto(r, "failed")
           \/ Goto(r, "build")
           \/ run[r].key = "rag_llm_recursive" /\ MaxFollowups > 0 /\ Goto(r, "followup")
     \/ RetrievalFails(r)
  /\ UNCHANGED alone

(* One follow-up retrieval of _answer_recursive, on a query of its own. *)
FollowUp(r) ==
  /\ run[r].at = "followup"
  /\ run[r].hops < MaxFollowups
  /\ \/ agent' = Retrieved(r) /\ run' = [run EXCEPT ![r].hops = @ + 1]
     \/ RetrievalFails(r)
  /\ UNCHANGED alone

(* The merged contexts replace last_context; without new evidence the first *)
(* answer stands, otherwise the answers are synthesised, which may fail.   *)
Merge(r) ==
  /\ run[r].at = "followup"
  /\ run[r].hops > 0
  /\ agent' = [agent EXCEPT !.context = run[r].query]
  /\ \/ Goto(r, "build")
     \/ Goto(r, "failed")
  /\ UNCHANGED alone

FirstOf(passes) == IF passes = NoPasses THEN NoPasses ELSE <<passes[1]>>

(* The result is read off the agent: a recursive answer takes its own trace *)
(* and only the first retrieval's steps from the agent's.                  *)
Build(r) ==
  /\ run[r].at = "build"
  /\ run' = [run EXCEPT ![r].at = "built",
                        ![r].result = [context |-> agent.context,
                                       rewrite |-> agent.rewrite,
                                       trace   |-> IF run[r].key = "rag_llm_recursive"
                                                   THEN FirstOf(agent.retrievals)
                                                   ELSE agent.retrievals,
                                       error   |-> "no"]]
  /\ UNCHANGED <<agent, alone>>

(* run's except clause: an error result with what the agent had recorded. *)
BuildError(r) ==
  /\ run[r].at = "failed"
  /\ run' = [run EXCEPT ![r].at = "built",
                        ![r].result = [context |-> Nobody,
                                       rewrite |-> agent.rewrite,
                                       trace   |-> agent.retrievals,
                                       error   |-> "yes"]]
  /\ UNCHANGED <<agent, alone>>

RunnerStep(r) ==
  \/ RefuseRequest(r)
  \/ Answer(r)
  \/ Rewrite(r)
  \/ ReadQuery(r)
  \/ Retrieve(r)
  \/ FollowUp(r)
  \/ Merge(r)
  \/ Build(r)
  \/ BuildError(r)

Idle == \A r \in Asks: run[r].at = "built"

Next ==
  \/ \E r \in Asks, k \in Keys: Enter(r, k)
  \/ \E r \in Asks: RunnerStep(r)
  \/ Idle /\ UNCHANGED vars

(* A worker thread that has entered the runner goes on; nobody has to ask. *)
Spec == Init /\ [][Next]_vars /\ \A r \in Asks: WF_vars(RunnerStep(r))

Result == [context: Asks \cup {Nobody}, rewrite: Asks \cup {Nobody},
           trace: Seq(Asks), error: {"none", "no", "yes"}]

TypeOK ==
  /\ agent \in [context: Asks \cup {Nobody}, rewrite: Asks \cup {Nobody},
                retrievals: Seq(Asks)]
  /\ run \in [Asks -> [at: {"out", "request", "rewrite", "query", "retrieve",
                            "followup", "build", "failed", "built"},
                       key: Keys, query: Asks \cup {Nobody},
                       hops: 0..MaxFollowups, result: Result]]
  /\ alone \subseteq Asks

(* The result of an ask describes nothing but what that ask itself did. *)
OwnRecord(r) ==
  LET result == run[r].result IN
  /\ result.context \in {r, Nobody}
  /\ result.rewrite \in {r, Nobody}
  /\ \A i \in DOMAIN result.trace: result.trace[i] = r
  /\ result.error = "no" => result.context = r /\ result.trace # NoPasses

(* An ask that had the agent to itself records its own retrievals and       *)
(* contexts only, whatever the ask before it left there and wherever this   *)
(* one failed: run clears the cached agent before anything can fail.       *)
AloneIsOwn == \A r \in alone: OwnRecord(r)

(* Every ask that entered the runner gets a result or an error, whatever    *)
(* another ask does to the agent underneath it.                            *)
EveryAnswerEnds == \A r \in Asks: run[r].at # "out" ~> run[r].at = "built"
=============================================================================
