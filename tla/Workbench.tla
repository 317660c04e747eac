----------------------------- MODULE Workbench -----------------------------
(***************************************************************************)
(* The question bench: /api/ask answers a question and stores the answer   *)
(* in chat_history.json, /api/judge scores stored answers, a command-line  *)
(* session in another process asks and stores too, and the server may be   *)
(* killed and started again.  How an answer is made is SetupRunner's; here *)
(* it is what an ask does before its Load, and the file and its lock count.*)
(*                                                                         *)
(* The text of an answer is abstracted to the ask that wrote it, and an    *)
(* evaluation to the ask whose text was scored.                            *)
(***************************************************************************)
EXTENDS Naturals

CONSTANTS
  Asks,      \* the /api/ask requests
  Judges,    \* the /api/judge requests
  Cli,       \* the command-line session
  Nobody,    \* no process, no answer (Python's None)
  Torn,      \* a history file cut short by a kill, or by two writers at once
  MaxKills   \* bound on the times the server is killed

ASSUME KillsAssumption == MaxKills \in Nat

VARIABLES
  history,   \* chat_history.json: an entry's answers by setup, or Torn
  lock,      \* the holder of history._LOCK, which is the server's alone
  pc,        \* where every request and the session are
  ticket,    \* the entry and the setup a request is about
  draft,     \* the contents a process has loaded, changed and will save
  held,      \* the answers a judge took to score: setup -> ask
  kills,     \* times the server was killed
  overlap,   \* the session's load and save met a request's (auxiliary)
  overtaken  \* answers replaced while a judge was at work (auxiliary)

fileVars == <<history, lock, draft>>
auxVars == <<kills, overlap, overtaken>>
vars == <<fileVars, pc, ticket, held, auxVars>>

Entries == Asks \cup {Cli}
Procs == Entries \cup Judges
Requests == Asks \cup Judges

NoAnswer == [by |-> Nobody, eval |-> Nobody]
Keys == {"rag_llm", "rag_llm_recursive"}

Empty == [e \in Entries |-> [k \in Keys |-> NoAnswer]]
NoScores == [k \in Keys |-> Nobody]

(* An entry is in the history as soon as it has an answer. *)
Has(contents, e) == e \in Entries /\ contents[e] # Empty[e]

NoTicket == [entry |-> Nobody, key |-> "rag_llm"]

Stored(p) == [by |-> p, eval |-> Nobody]

(* The server's requests that have the history loaded and not yet saved,    *)
(* and whether the session is between its own load and save.               *)
Loaded(p) == pc[p] \in {"loaded", "writing"}
ServerLoaded == \E p \in Requests: Loaded(p)

Ended == {"done", "error", "refused", "gone"}

Init ==
  /\ history = Empty
  /\ lock = Nobody
  /\ pc = [p \in Procs |-> "idle"]
  /\ ticket = [p \in Requests |-> NoTicket]
  /\ draft = [p \in Procs |-> Empty]
  /\ held = [j \in Judges |-> NoScores]
  /\ kills = 0
  /\ overlap = FALSE
  /\ overtaken = {}

At(p, place) == pc' = [pc EXCEPT ![p] = place]

(* ask, for a new question or for a stored entry (payload.entry_id): that   *)
(* entry is looked up without the lock, a torn file is a 500; then the     *)
(* runner takes the question.                                              *)
Submit(a, e, k) ==
  /\ pc[a] = "idle"
  /\ ticket' = [ticket EXCEPT ![a] = [entry |-> e, key |-> k]]
  /\ IF e = a \/ (history # Torn /\ Has(history, e))
     THEN At(a, "running")
     ELSE At(a, "refused")
  /\ UNCHANGED <<fileVars, held, auxVars>>

(* The client goes away: the stream is not resumed and nothing is stored. *)
Abandon(p) ==
  /\ p \in Requests /\ pc[p] \in {"running", "judging"}
  /\ At(p, "gone")
  /\ held' = [j \in Judges |-> IF j = p THEN NoScores ELSE held[j]]
  /\ UNCHANGED <<fileVars, ticket, auxVars>>

(* Mutant: a re-asked setup gets its new text beside its old evaluation. *)
WithAnswerOldEval(entry, k, a) == [entry EXCEPT ![k].by = a]

(* _append_answers.mutate: the new answer replaces the one of its setup. *)
WithAnswer(entry, k, a) == [entry EXCEPT ![k] = Stored(a)]

(* _apply_evaluations: by setup key, to whatever answer the entry has now. *)
WithEvaluations(entry, scored) ==
  [k \in Keys |-> IF scored[k] # Nobody /\ entry[k] # NoAnswer
                  THEN [entry[k] EXCEPT !.eval = scored[k]]
                  ELSE entry[k]]

(* What a request or the session makes of the contents it loaded. *)
Changed(p, contents) ==
  IF p \in Judges
  THEN [contents EXCEPT ![ticket[p].entry] = WithEvaluations(@, held[p])]
  ELSE IF p = Cli
       THEN [contents EXCEPT ![Cli] = WithAnswer(@, "rag_llm", Cli)]
       ELSE [contents EXCEPT ![ticket[p].entry] = WithAnswer(@, ticket[p].key, p)]

(* update_entry looks its entry up again; append_entry brings its own. *)
HasEntry(p, contents) == ticket[p].entry = p \/ Has(contents, ticket[p].entry)

ReadyToSave(p) ==
  \/ p \in Asks /\ pc[p] = "running"
  \/ p \in Judges /\ pc[p] = "judging" /\ held[p] # NoScores

(* Mutant: a torn file is read as an empty history. *)
ReadTornAsEmpty == IF history = Torn THEN Empty ELSE history

(* load_history: the JSON of a torn file does not parse and the load raises. *)
ReadHistory == history

(* Mutant: the history is loaded and saved without the lock. *)
LockIgnored == TRUE

LockFree == lock = Nobody

Released(p) == IF lock = p THEN Nobody ELSE lock

(* append_entry and update_entry: take the lock, load the history as it is  *)
(* now and change it.  A torn file raises; of an entry that is gone a       *)
(* re-ask fails its assertion, a judge ends without saving.                 *)
Load(p) ==
  /\ ReadyToSave(p)
  /\ LockFree
  /\ LET contents == ReadHistory IN
     IF contents = Torn \/ ~HasEntry(p, contents)
     THEN /\ At(p, IF contents # Torn /\ p \in Judges THEN "done" ELSE "error")
          /\ UNCHANGED fileVars
     ELSE /\ At(p, "loaded")
          /\ lock' = p
          /\ draft' = [draft EXCEPT ![p] = Changed(p, contents)]
          /\ UNCHANGED history
  /\ overlap' = (overlap \/ (history # Torn /\ Loaded(Cli)))
  /\ UNCHANGED <<ticket, held, kills, overtaken>>

(* _ask_flow of the session: its own load, in its own process, no lock. *)
CliLoad ==
  /\ pc[Cli] = "idle"
  /\ IF ReadHistory = Torn
     THEN At(Cli, "error") /\ UNCHANGED draft
     ELSE At(Cli, "loaded") /\ draft' = [draft EXCEPT ![Cli] = Changed(Cli, ReadHistory)]
  /\ overlap' = (overlap \/ (history # Torn /\ ServerLoaded))
  /\ UNCHANGED <<history, lock, ticket, held, kills, overtaken>>

(* A judge is scoring, or is about to store, an evaluation of the answer. *)
AtWorkOn(e, k) ==
  \E j \in Judges: pc[j] = "judging" /\ ticket[j].entry = e /\ held[j][k] # Nobody

(* save_history opens the file for writing, which empties it ... *)
BeginWrite(p) ==
  /\ pc[p] = "loaded"
  /\ At(p, "writing")
  /\ history' = Torn
  /\ overtaken' = overtaken \cup {t \in Entries \X Keys: p \in Asks /\ AtWorkOn(t[1], t[2])
                                                         /\ ticket[p].entry = t[1]
                                                         /\ ticket[p].key = t[2]}
  /\ UNCHANGED <<lock, draft, ticket, held, kills, overlap>>

(* ... and writes it.  Over what another writer put there meanwhile, a      *)
(* shorter text leaves that one's tail.  The lock is given back.           *)
EndWrite(p) ==
  /\ pc[p] = "writing"
  /\ \/ history' = draft[p]
     \/ history # Torn /\ history' = Torn
  /\ At(p, "done")
  /\ lock' = Released(p)
  /\ draft' = [draft EXCEPT ![p] = Empty]
  /\ UNCHANGED <<ticket, held, auxVars>>

(* judge: an unlocked read; its targets are the entry's answers without an  *)
(* evaluation, or all of them when forced.                                 *)
JudgeRequest(j, e, force) ==
  /\ pc[j] = "idle"
  /\ IF history = Torn \/ ~Has(history, e)
     THEN At(j, "refused") /\ UNCHANGED <<ticket, held>>
     ELSE LET entry == history[e] IN
          /\ At(j, "judging")
          /\ ticket' = [ticket EXCEPT ![j].entry = e]
          /\ held' = [held EXCEPT ![j] = [k \in Keys |->
                                      IF force \/ entry[k].eval = Nobody
                                      THEN entry[k].by
                                      ELSE Nobody]]
  /\ UNCHANGED <<fileVars, auxVars>>

(* A judge without targets has nothing to save; the judge model may raise. *)
EndUnsaved(j) ==
  /\ pc[j] = "judging"
  /\ \/ held[j] = NoScores /\ At(j, "done")
     \/ held[j] # NoScores /\ At(j, "error")
  /\ UNCHANGED <<fileVars, ticket, held, auxVars>>

(* The server is killed and started again: its threads and its lock are     *)
(* gone, and a write it was in is cut short.                               *)
Kill ==
  LET lost == {p \in Requests: pc[p] \notin Ended \cup {"idle"}} IN
  /\ kills < MaxKills
  /\ kills' = kills + 1
  /\ pc' = [p \in Procs |-> IF p \in lost THEN "gone" ELSE pc[p]]
  /\ lock' = Nobody
  /\ draft' = [p \in Procs |-> IF p \in lost THEN Empty ELSE draft[p]]
  /\ held' = [j \in Judges |-> NoScores]
  /\ history' \in {history} \cup (IF \E p \in Requests: pc[p] = "writing" THEN {Torn} ELSE {})
  /\ UNCHANGED <<ticket, overlap, overtaken>>

Settled == \A p \in Procs: pc[p] \in Ended

AskStep(a) == Load(a) \/ BeginWrite(a) \/ EndWrite(a)

JudgeStep(j) == EndUnsaved(j) \/ Load(j) \/ BeginWrite(j) \/ EndWrite(j)

CliStep == CliLoad \/ BeginWrite(Cli) \/ EndWrite(Cli)

Next ==
  \/ \E a \in Asks, e \in Entries, k \in Keys: Submit(a, e, k)
  \/ \E a \in Asks: AskStep(a)
  \/ \E j \in Judges, e \in Entries, force \in BOOLEAN: JudgeRequest(j, e, force)
  \/ \E j \in Judges: JudgeStep(j)
  \/ CliStep
  \/ \E p \in Requests: Abandon(p)
  \/ Kill
  \/ Settled /\ UNCHANGED vars

Spec == Init /\ [][Next]_vars

Contents == [Entries -> [Keys -> [by: Entries \cup {Nobody}, eval: Entries \cup {Nobody}]]]

ASSUME ProcsAssumption ==
  /\ Nobody \notin Procs /\ Torn \notin Contents
  /\ Asks \cap Judges = {} /\ Cli \notin Requests

(* The types of the variables. *)
TypeOK ==
  /\ history = Torn \/ history \in Contents
  /\ lock \in Requests \cup {Nobody}
  /\ pc \in [Procs -> Ended \cup {"idle", "running", "judging", "loaded", "writing"}]
  /\ ticket \in [Requests -> [entry: Entries \cup {Nobody}, key: Keys]]
  /\ draft \in [Procs -> Contents]
  /\ held \in [Judges -> [Keys -> Entries \cup {Nobody}]]
  /\ kills \in 0..MaxKills
  /\ overlap \in BOOLEAN
  /\ overtaken \subseteq Entries \X Keys

(* "concurrent requests cannot interleave and silently drop each other's    *)
(* writes" (history._LOCK): an answer whose request ended in "done" stays   *)
(* in the history until a re-ask of its entry replaces it, whatever other   *)
(* requests, judges and kills come between.  Only a file cut short, or a    *)
(* session of another process that saved at the same time, takes it away.  *)
NothingLost ==
  history # Torn /\ ~overlap =>
    \A a \in Asks:
      pc[a] = "done" =>
        history[ticket[a].entry][ticket[a].key].by \in {b \in Asks: ticket[b] = ticket[a]}

(* A stored evaluation scored the answer it stands beside, unless a re-ask  *)
(* replaced the answer while the judge was at work on it: evaluations are   *)
(* matched by setup key alone when they come back.                         *)
EvaluationIsOfThisAnswer ==
  history # Torn /\ ~overlap =>
    \A e \in Entries, k \in Keys:
      history[e][k].eval \in {Nobody, history[e][k].by} \/ <<e, k>> \in overtaken

(* A history cut short by a kill is never taken for an empty one: once      *)
(* nobody holds older contents, no request and no session prepares to save *)
(* over it, and what is left of it can still be repaired by hand.          *)
TornIsKept ==
  [][history = Torn /\ (\A p \in Procs: ~Loaded(p)) => \A p \in Procs: ~Loaded(p)']_vars

=============================================================================
