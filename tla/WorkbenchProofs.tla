--------------------------- MODULE WorkbenchProofs ---------------------------
(* TLAPS proofs of the safety properties of Workbench, for any number of     *)
(* requests and kills.                                                       *)
EXTENDS Workbench, TLAPS

(* The lock keeps the server's requests apart. *)
Locked == \A p \in Requests : Loaded(p) => lock = p

Ticketed == \A p \in Requests : pc[p] \notin {"idle", "refused"} => ticket[p].entry \in Entries

(* Before the session has saved, its entry is nobody's to re-ask or judge. *)
Early == pc[Cli] \in {"idle", "loaded", "writing"} =>
            \A p \in Requests : pc[p] \in {"idle", "refused"} \/ ticket[p].entry # Cli

(* What contents c must be to be saved, with the requests at their places at, *)
(* their tickets tk, the judges' answers hd and the overtaken ones ot.  A     *)
(* request that is done has an answer where its ticket says; ...              *)
Kept(c, at, tk) == \A a \in Asks : at[a] = "done" => c[tk[a].entry][tk[a].key].by \in Asks

(* ... whoever wrote an answer had the ticket for it; ...                     *)
Authored(c, at, tk) ==
  \A e \in Entries, k \in Keys :
     c[e][k].by \in Asks => /\ at[c[e][k].by] # "idle"
                            /\ tk[c[e][k].by] = [entry |-> e, key |-> k]

(* ... evaluations stand where they belong; ...                               *)
Scored(c, ot) ==
  \A e \in Entries, k \in Keys : c[e][k].eval \in {Nobody, c[e][k].by} \/ <<e, k>> \in ot

(* ... so will those still to come; ...                                       *)
Current(c, at, tk, hd, ot) ==
  \A j \in Judges, k \in Keys :
     at[j] \in {"judging", "loaded"} /\ hd[j][k] # Nobody =>
        c[tk[j].entry][k].by = hd[j][k] \/ <<tk[j].entry, k>> \in ot

(* ... and the session's entry is empty until it saves.                       *)
Unsaved(c, at) == at[Cli] \in {"idle", "loaded"} => c[Cli] = Empty[Cli]

Good(c, at, tk, hd, ot) ==
  /\ Kept(c, at, tk)
  /\ Authored(c, at, tk)
  /\ Scored(c, ot)
  /\ Current(c, at, tk, hd, ot)
  /\ Unsaved(c, at)

Apart == Loaded(Cli) => ~ServerLoaded

(* A draft is what its owner makes of the file as it is, and while it is     *)
(* written it is good.                                                       *)
Drafts ==
  \A p \in Procs :
     /\ pc[p] = "loaded" => history # Torn /\ draft[p] = Changed(p, history)
     /\ pc[p] = "writing" =>
          /\ history = Torn
          /\ Good(draft[p], pc, ticket, held, overtaken)
          /\ p \in Asks => draft[p][ticket[p].entry][ticket[p].key].by \in Asks

Whole == history # Torn => Good(history, pc, ticket, held, overtaken)

Undisturbed == ~overlap => Apart /\ Drafts /\ Early /\ Whole

IInv == TypeOK /\ Locked /\ Ticketed /\ Undisturbed

Places == Ended \cup {"idle", "running", "judging", "loaded", "writing"}
Tickets == [entry : Entries \cup {Nobody}, key : Keys]
Scores == [Keys -> Entries \cup {Nobody}]

-----------------------------------------------------------------------------
(* What a change makes of contents. *)

Writes(p, e, k) == \/ p \in Asks /\ e = ticket[p].entry /\ k = ticket[p].key
                   \/ p = Cli /\ e = Cli /\ k = "rag_llm"

Evaluates(p, c, e, k) == /\ p \in Judges /\ e = ticket[p].entry
                         /\ held[p][k] # Nobody /\ c[e][k] # NoAnswer

LEMMA ChangedIs ==
  ASSUME TypeOK, NEW p \in Procs, NEW c \in Contents, NEW e \in Entries, NEW k \in Keys
  PROVE  /\ Changed(p, c) \in Contents
         /\ Writes(p, e, k) => Changed(p, c)[e][k] = Stored(p)
         /\ Evaluates(p, c, e, k) => Changed(p, c)[e][k] = [by |-> c[e][k].by, eval |-> held[p][k]]
         /\ ~Writes(p, e, k) /\ ~Evaluates(p, c, e, k) => Changed(p, c)[e][k] = c[e][k]
<1> DEFINE Answers == [by : Entries \cup {Nobody}, eval : Entries \cup {Nobody}]
<1>0. c \in [Entries -> [Keys -> Answers]] /\ Contents = [Entries -> [Keys -> Answers]]
  BY DEF Contents
<1>1. CASE p \in Judges
  <2>1. p \notin Asks /\ p # Cli
    BY <1>1, ProcsAssumption DEF Requests
  <2>2. held[p] \in Scores
    BY <1>1 DEF TypeOK, Scores
  <2>3. \A f \in [Keys -> Answers] : WithEvaluations(f, held[p]) \in [Keys -> Answers]
    BY <2>2 DEF WithEvaluations, Scores
  <2>4. Changed(p, c) = [f \in Entries |-> IF f = ticket[p].entry
                                         THEN WithEvaluations(c[f], held[p]) ELSE c[f]]
    BY <1>0, <1>1 DEF Changed
  <2>5. Changed(p, c) \in Contents
    BY <1>0, <2>3, <2>4
  <2>6. CASE e = ticket[p].entry
    <3>1. Changed(p, c)[e][k] = IF held[p][k] # Nobody /\ c[e][k] # NoAnswer
                                THEN [c[e][k] EXCEPT !.eval = held[p][k]] ELSE c[e][k]
      <4>1. Changed(p, c)[e] = WithEvaluations(c[e], held[p])
        BY <2>4, <2>6
      <4> QED BY <4>1 DEF WithEvaluations
    <3>2. c[e][k] \in Answers
      BY <1>0
    <3> QED BY <1>1, <2>1, <2>5, <2>6, <3>1, <3>2 DEF Writes, Evaluates
  <2>7. CASE e # ticket[p].entry
    BY <1>0, <1>1, <2>1, <2>4, <2>5, <2>7 DEF Writes, Evaluates
  <2> QED BY <2>6, <2>7
<1>2. CASE p = Cli
  <2>1. p \notin Asks /\ p \notin Judges
    BY <1>2, ProcsAssumption DEF Requests
  <2>2. Changed(p, c) = [c EXCEPT ![Cli] = [@ EXCEPT !["rag_llm"] = Stored(Cli)]]
    BY <1>2, <2>1 DEF Changed, WithAnswer
  <2>3. Stored(Cli) \in Answers /\ Cli \in Entries /\ "rag_llm" \in Keys
    BY DEF Stored, Entries, Keys
  <2> QED BY <1>0, <1>2, <2>1, <2>2, <2>3 DEF Writes, Evaluates
<1>3. CASE p \in Asks
  <2>1. p # Cli /\ p \notin Judges
    BY <1>3, ProcsAssumption DEF Requests
  <2>2. ticket[p].key \in Keys
    BY <1>3 DEF TypeOK, Requests
  <2>3. Stored(p) \in Answers
    BY <1>3 DEF Stored, Entries
  <2>4. Changed(p, c) = [f \in Entries |-> IF f = ticket[p].entry
                                         THEN [c[f] EXCEPT ![ticket[p].key] = Stored(p)]
                                         ELSE c[f]]
    BY <1>0, <1>3, <2>1 DEF Changed, WithAnswer
  <2>5. \A f \in [Keys -> Answers] :
           [f EXCEPT ![ticket[p].key] = Stored(p)] \in [Keys -> Answers]
    BY <2>2, <2>3
  <2>6. Changed(p, c) \in Contents
    BY <1>0, <2>4, <2>5
  <2>7. Changed(p, c)[e][k] = IF e = ticket[p].entry /\ k = ticket[p].key
                              THEN Stored(p) ELSE c[e][k]
    BY <1>0, <2>2, <2>4
  <2> QED BY <1>3, <2>1, <2>6, <2>7 DEF Writes, Evaluates
<1> QED BY <1>1, <1>2, <1>3 DEF Procs, Entries

-----------------------------------------------------------------------------
(* Every step is one of these. *)

LEMMA Steps ==
  ASSUME [Next]_vars
  PROVE  \/ \E a \in Asks, e \in Entries, k \in Keys : Submit(a, e, k)
         \/ \E p \in Requests : Load(p) \/ Abandon(p)
         \/ \E p \in Procs : BeginWrite(p) \/ EndWrite(p)
         \/ \E j \in Judges, e \in Entries, force \in BOOLEAN : JudgeRequest(j, e, force)
         \/ \E j \in Judges : EndUnsaved(j)
         \/ CliLoad
         \/ Kill
         \/ UNCHANGED vars
BY DEF Next, AskStep, JudgeStep, CliStep, Procs, Requests, Entries

Stays == /\ pc \in [Procs -> Places] /\ ticket \in [Requests -> Tickets]
         /\ draft \in [Procs -> Contents] /\ held \in [Judges -> Scores]

LEMMA Types ==
  TypeOK <=> /\ Stays
             /\ history = Torn \/ history \in Contents
             /\ lock \in Requests \cup {Nobody}
             /\ kills \in 0..MaxKills /\ overlap \in BOOLEAN
             /\ overtaken \subseteq Entries \X Keys
BY DEF TypeOK, Stays, Places, Tickets, Scores

LEMMA Blanks == Empty \in Contents /\ NoScores \in Scores /\ NoTicket \in Tickets
BY DEF Empty, NoAnswer, Contents, NoScores, Scores, NoTicket, Tickets, Keys

LEMMA StepTypes ==
  ASSUME TypeOK, [Next]_vars
  PROVE  TypeOK'
<1> USE DEF Ended, Places
<1>0. Stays /\ history \in Contents \cup {Torn} /\ lock \in Requests \cup {Nobody}
  BY Types
<1>1. ASSUME NEW a \in Asks, NEW e \in Entries, NEW k \in Keys, Submit(a, e, k)
      PROVE  TypeOK'
  <2>1. a \in Procs /\ a \in Requests
    BY DEF Procs, Requests, Entries
  <2>2. [entry |-> e, key |-> k] \in Tickets
    BY DEF Tickets
  <2>3. Stays'
    BY <1>0, <1>1, <2>1, <2>2 DEF Stays, Submit, At, fileVars
  <2> QED BY <1>1, <2>3 DEF TypeOK, Stays, Tickets, Scores, Submit, fileVars, auxVars
<1>2. ASSUME NEW p \in Requests, Load(p)
      PROVE  TypeOK'
  <2>1. p \in Procs
    BY DEF Procs, Requests, Entries
  <2>2. history # Torn => Changed(p, history) \in Contents
    BY <1>0, <2>1, ChangedIs DEF Keys, Entries
  <2>3. Stays' /\ lock' \in Requests \cup {Nobody} /\ history' = history
    BY <1>0, <1>2, <2>1, <2>2 DEF Stays, Load, ReadHistory, At, fileVars
  <2>4. overlap' \in BOOLEAN
    BY <1>2 DEF TypeOK, Load, Loaded
  <2> QED BY <1>2, <2>3, <2>4 DEF TypeOK, Stays, Tickets, Scores, Load
<1>3. ASSUME NEW p \in Requests, Abandon(p)
      PROVE  TypeOK'
  <2>1. p \in Procs
    BY DEF Procs, Requests, Entries
  <2>2. held' \in [Judges -> Scores]
    BY <1>0, <1>3, Blanks DEF Stays, Abandon
  <2>3. Stays'
    BY <1>0, <1>3, <2>1, <2>2 DEF Stays, Abandon, At, fileVars
  <2> QED BY <1>3, <2>3 DEF TypeOK, Stays, Tickets, Scores, Abandon, fileVars, auxVars
<1>4. ASSUME NEW p \in Procs, BeginWrite(p)
      PROVE  TypeOK'
  <2>1. Stays'
    BY <1>0, <1>4 DEF Stays, BeginWrite, At
  <2> QED BY <1>4, <2>1 DEF TypeOK, Stays, Tickets, Scores, BeginWrite
<1>5. ASSUME NEW p \in Procs, EndWrite(p)
      PROVE  TypeOK'
  <2>1. Stays' /\ history' \in Contents \cup {Torn} /\ lock' \in Requests \cup {Nobody}
    BY <1>0, <1>5, Blanks DEF Stays, EndWrite, At, Released
  <2> QED BY <1>5, <2>1 DEF TypeOK, Stays, Tickets, Scores, EndWrite, auxVars
<1>6. ASSUME NEW j \in Judges, NEW e \in Entries, NEW force \in BOOLEAN, JudgeRequest(j, e, force)
      PROVE  TypeOK'
  <2>1. j \in Procs /\ j \in Requests
    BY DEF Procs, Requests, Entries
  <2>2. history # Torn => \A k \in Keys : history[e][k].by \in Entries \cup {Nobody}
    BY <1>0 DEF Contents
  <2>3. history # Torn => [k \in Keys |-> IF force \/ history[e][k].eval = Nobody
                                         THEN history[e][k].by ELSE Nobody] \in Scores
    BY <2>2 DEF Scores
  <2>4. Stays'
    <3>1. CASE history = Torn \/ ~Has(history, e)
      BY <1>0, <1>6, <2>1, <3>1 DEF Stays, JudgeRequest, At, fileVars
    <3>2. CASE ~(history = Torn \/ ~Has(history, e))
      <4>1. ticket' \in [Requests -> Tickets]
        BY <1>0, <1>6, <2>1, <3>2 DEF Stays, JudgeRequest, Tickets
      <4>2. held' \in [Judges -> Scores]
        BY <1>0, <1>6, <2>3, <3>2 DEF Stays, JudgeRequest
      <4> QED BY <1>0, <1>6, <2>1, <3>2, <4>1, <4>2 DEF Stays, JudgeRequest, At, fileVars
    <3> QED BY <3>1, <3>2
  <2> QED BY <1>6, <2>4 DEF TypeOK, Stays, Tickets, Scores, JudgeRequest, fileVars, auxVars
<1>7. ASSUME NEW j \in Judges, EndUnsaved(j)
      PROVE  TypeOK'
  <2>1. j \in Procs
    BY DEF Procs
  <2>2. Stays'
    BY <1>0, <1>7, <2>1 DEF Stays, EndUnsaved, At, fileVars
  <2> QED BY <1>7, <2>2 DEF TypeOK, Stays, Tickets, Scores, EndUnsaved, fileVars, auxVars
<1>8. CASE CliLoad
  <2>1. Cli \in Procs
    BY DEF Procs, Entries
  <2>2. history # Torn => Changed(Cli, history) \in Contents
    BY <1>0, <2>1, ChangedIs DEF Keys, Entries
  <2>3. Stays'
    BY <1>0, <1>8, <2>1, <2>2 DEF Stays, CliLoad, ReadHistory, At
  <2>4. overlap' \in BOOLEAN
    BY <1>8 DEF TypeOK, CliLoad, ServerLoaded
  <2> QED BY <1>8, <2>3, <2>4 DEF TypeOK, Stays, Tickets, Scores, CliLoad
<1>9. CASE Kill
  <2>1. kills' \in 0..MaxKills
    BY <1>9, KillsAssumption DEF TypeOK, Kill
  <2>2. Stays'
    BY <1>0, <1>9, Blanks DEF Stays, Kill
  <2> QED BY <1>9, <2>1, <2>2 DEF TypeOK, Stays, Tickets, Scores, Kill
<1>10. CASE UNCHANGED vars
  BY <1>10 DEF TypeOK, vars, fileVars, auxVars
<1> QED BY <1>1, <1>2, <1>3, <1>4, <1>5, <1>6, <1>7, <1>8, <1>9, <1>10, Steps

(* The lock has one holder, and a request at work has a ticket. *)
LEMMA StepLocked ==
  ASSUME TypeOK, Locked, Ticketed, [Next]_vars
  PROVE  Locked' /\ Ticketed'
<1> USE DEF Loaded
<1>0. Stays /\ Nobody \notin Procs /\ Requests \subseteq Procs
  BY Types, ProcsAssumption DEF Requests, Procs, Entries
<1>1. ASSUME NEW a \in Asks, NEW e \in Entries, NEW k \in Keys, Submit(a, e, k)
      PROVE  Locked' /\ Ticketed'
  <2>1. a \in Requests
    BY DEF Requests
  <2> QED BY <1>0, <1>1, <2>1 DEF Stays, Submit, At, fileVars, Locked, Ticketed
<1>2. ASSUME NEW p \in Requests, Load(p)
      PROVE  Locked' /\ Ticketed'
  <2>1. pc[p] \notin {"idle", "refused", "loaded", "writing"} /\ ticket' = ticket
    BY <1>2 DEF Load, ReadyToSave
  <2>2. lock = Nobody /\ \A q \in Requests : ~Loaded(q)
    BY <1>0, <1>2 DEF Load, LockFree, Locked
  <2>3. \/ /\ pc' = [pc EXCEPT ![p] = "loaded"]
           /\ lock' = p
        \/ \E x \in {"done", "error"} : pc' = [pc EXCEPT ![p] = x]
    BY <1>2 DEF Load, At
  <2> QED BY <1>0, <2>1, <2>2, <2>3 DEF Stays, Locked, Ticketed
<1>3. ASSUME NEW p \in Requests, Abandon(p)
      PROVE  Locked' /\ Ticketed'
  BY <1>0, <1>3 DEF Stays, Abandon, At, fileVars, Locked, Ticketed
<1>4. ASSUME NEW p \in Procs, BeginWrite(p)
      PROVE  Locked' /\ Ticketed'
  BY <1>0, <1>4 DEF Stays, BeginWrite, At, Locked, Ticketed
<1>5. ASSUME NEW p \in Procs, EndWrite(p)
      PROVE  Locked' /\ Ticketed'
  BY <1>0, <1>5 DEF Stays, EndWrite, At, Released, Locked, Ticketed
<1>6. ASSUME NEW j \in Judges, NEW e \in Entries, NEW force \in BOOLEAN, JudgeRequest(j, e, force)
      PROVE  Locked' /\ Ticketed'
  <2>1. j \in Requests /\ UNCHANGED lock
    BY <1>6 DEF Requests, JudgeRequest, fileVars
  <2>2. \/ pc' = [pc EXCEPT ![j] = "refused"] /\ ticket' = ticket
        \/ /\ pc' = [pc EXCEPT ![j] = "judging"]
           /\ ticket' = [ticket EXCEPT ![j].entry = e]
    BY <1>6 DEF JudgeRequest, At
  <2>3. ticket'[j].entry = e \/ pc'[j] = "refused"
    BY <1>0, <2>1, <2>2 DEF Stays, Tickets
  <2>4. \A p \in Requests \ {j} : pc'[p] = pc[p] /\ ticket'[p] = ticket[p]
    BY <1>0, <2>1, <2>2 DEF Stays
  <2>5. pc'[j] \in {"refused", "judging"}
    BY <1>0, <2>1, <2>2 DEF Stays
  <2> QED BY <2>1, <2>3, <2>4, <2>5 DEF Locked, Ticketed
<1>7. ASSUME NEW j \in Judges, EndUnsaved(j)
      PROVE  Locked' /\ Ticketed'
  <2>1. j \in Requests
    BY DEF Requests
  <2> QED BY <1>0, <1>7, <2>1 DEF Stays, EndUnsaved, At, fileVars, Locked, Ticketed
<1>8. CASE CliLoad
  <2>1. Cli \in Procs /\ Cli \notin Requests
    BY ProcsAssumption DEF Procs, Entries
  <2>2. \A p \in Requests : pc'[p] = pc[p]
    BY <1>0, <1>8, <2>1 DEF Stays, CliLoad, At
  <2> QED BY <1>8, <2>2 DEF CliLoad, Locked, Ticketed
<1>9. CASE Kill
  <2>1. \A p \in Requests : pc'[p] = IF pc[p] \in Ended \cup {"idle"} THEN pc[p] ELSE "gone"
    BY <1>0, <1>9 DEF Kill
  <2> QED BY <1>9, <2>1 DEF Kill, Ended, Locked, Ticketed
<1>10. CASE UNCHANGED vars
  BY <1>10 DEF vars, fileVars, Locked, Ticketed
<1> QED BY <1>1, <1>2, <1>3, <1>4, <1>5, <1>6, <1>7, <1>8, <1>9, <1>10, Steps

-----------------------------------------------------------------------------
(* What keeps contents good while nobody saves. *)

(* No request goes back to the start or gets another ticket; who ends leaves *)
(* its answer in c; a judge sets out with the answers of c.                  *)
Steady(c) ==
  /\ \A a \in Asks : pc[a] # "idle" => pc'[a] # "idle" /\ ticket'[a] = ticket[a]
  /\ \A a \in Asks : pc'[a] = "done" =>
        pc[a] = "done" \/ c[ticket'[a].entry][ticket'[a].key].by \in Asks
  /\ \A j \in Judges : pc'[j] \in {"judging", "loaded"} =>
        \/ /\ pc[j] \in {"judging", "loaded"}
           /\ ticket'[j] = ticket[j] /\ held'[j] = held[j]
        \/ \A k \in Keys : held'[j][k] \in {Nobody, c[ticket'[j].entry][k].by}
  /\ overtaken \subseteq overtaken'
  /\ pc'[Cli] \in {"idle", "loaded"} => pc[Cli] \in {"idle", "loaded"}

GoodNow(c) == Good(c, pc, ticket, held, overtaken)
GoodNext(c) == Good(c, pc', ticket', held', overtaken')

LEMMA GoodStays ==
  ASSUME NEW c, GoodNow(c), Steady(c)
  PROVE  GoodNext(c)
<1> USE DEF GoodNow, GoodNext, Good
<1>1. Kept(c, pc', ticket')
  BY DEF Steady, Kept
<1>2. Authored(c, pc', ticket')
  BY DEF Steady, Authored
<1>3. Scored(c, overtaken')
  BY DEF Steady, Scored
<1>4. Current(c, pc', ticket', held', overtaken')
  BY DEF Steady, Current
<1>5. Unsaved(c, pc')
  BY DEF Steady, Unsaved
<1> QED BY <1>1, <1>2, <1>3, <1>4, <1>5

(* A step that leaves the file alone, and those who have loaded it.          *)
LEMMA QuietStep ==
  ASSUME TypeOK, Apart, Drafts, Whole, UNCHANGED history,
         \A p \in Procs : Loaded(p)' =>
            /\ pc'[p] = pc[p] /\ draft'[p] = draft[p]
            /\ p \in Requests => ticket'[p] = ticket[p]
            /\ p \in Judges => held'[p] = held[p],
         \A c \in Contents : history \in {c, Torn} => Steady(c)
  PROVE  Apart' /\ Drafts' /\ Whole'
<1> USE DEF Loaded
<1>1. Stays /\ history \in Contents \cup {Torn} /\ Requests \subseteq Procs /\ Cli \in Procs
  BY Types DEF Requests, Procs, Entries
<1>2. Apart'
  BY <1>1 DEF Apart, ServerLoaded
<1>3. Whole'
  BY <1>1, GoodStays DEF Whole, GoodNow, GoodNext
<1>4. Drafts'
  <2> SUFFICES ASSUME NEW p \in Procs, Loaded(p)'
               PROVE  /\ pc'[p] = "loaded" => history' # Torn /\ draft'[p] = Changed(p, history)'
                      /\ pc'[p] = "writing" =>
                           /\ history' = Torn
                           /\ GoodNext(draft'[p])
                           /\ p \in Asks => draft'[p][ticket'[p].entry][ticket'[p].key].by \in Asks
    BY DEF Drafts, GoodNext
  <2>1. CASE pc'[p] = "loaded"
    BY <2>1 DEF Drafts, Changed, Requests, Procs, Entries
  <2>2. CASE pc'[p] = "writing"
    <3>1. history = Torn /\ GoodNow(draft[p]) /\ draft[p] \in Contents
      BY <1>1, <2>2 DEF Drafts, GoodNow, Stays
    <3>2. GoodNext(draft[p])
      BY <3>1, GoodStays
    <3> QED BY <2>2, <3>1, <3>2 DEF Drafts, Requests
  <2> QED BY <2>1, <2>2
<1> QED BY <1>2, <1>3, <1>4

-----------------------------------------------------------------------------
(* What is saved is good: it is the file as it is, with one change to it.    *)

LEMMA SavedIsGood ==
  ASSUME IInv, ~overlap, NEW p \in Procs, BeginWrite(p)
  PROVE  /\ GoodNext(Changed(p, history))
         /\ p \in Asks => Changed(p, history)[ticket[p].entry][ticket[p].key].by \in Asks
<1> DEFINE c == Changed(p, history)
<1> USE DEF Loaded
<1>1. TypeOK /\ Stays /\ Ticketed /\ Apart /\ Early /\ Whole /\ Drafts /\ Locked
  BY Types DEF IInv, Undisturbed
<1>2. pc[p] = "loaded" /\ pc' = [pc EXCEPT ![p] = "writing"] /\ UNCHANGED <<ticket, held>>
  BY <1>1 DEF BeginWrite, At
<1>3. history \in Contents /\ GoodNow(history)
  BY <1>1, <1>2 DEF TypeOK, Drafts, Whole, GoodNow
<1>4. /\ Asks \subseteq Procs /\ Judges \subseteq Procs /\ Cli \in Procs
      /\ Asks \cup Judges = Requests /\ Cli \notin Requests /\ Procs = Requests \cup {Cli}
      /\ Asks \cap Judges = {}
  BY ProcsAssumption DEF Procs, Entries, Requests
<1>5. p \in Requests => ticket[p].entry \in Entries /\ ticket[p].key \in Keys
                       /\ ticket[p] = [entry |-> ticket[p].entry, key |-> ticket[p].key]
  BY <1>1, <1>2 DEF Ticketed, Stays, Tickets
<1>6. ASSUME NEW e \in Entries, NEW k \in Keys
      PROVE  \/ Writes(p, e, k) /\ c[e][k] = Stored(p)
             \/ /\ p \in Judges /\ e = ticket[p].entry /\ held[p][k] # Nobody
                /\ c[e][k] = [by |-> history[e][k].by, eval |-> held[p][k]]
             \/ ~Writes(p, e, k) /\ c[e][k] = history[e][k]
  BY <1>1, <1>3, ChangedIs DEF Evaluates
<1>7. ASSUME NEW e \in Entries, NEW k \in Keys
      PROVE  \/ Writes(p, e, k) /\ c[e][k].by = p
             \/ ~Writes(p, e, k) /\ c[e][k].by = history[e][k].by
  <2>1. CASE Writes(p, e, k) /\ c[e][k] = Stored(p)
    BY <2>1 DEF Stored
  <2>2. CASE /\ p \in Judges
             /\ c[e][k] = [by |-> history[e][k].by, eval |-> held[p][k]]
    <3>1. c[e][k].by = history[e][k].by
      BY <2>2
    <3> QED BY <1>4, <2>2, <3>1 DEF Writes
  <2>3. CASE ~Writes(p, e, k) /\ c[e][k] = history[e][k]
    BY <2>3
  <2> QED BY <1>6, <2>1, <2>2, <2>3
<1>8. \A q \in Requests : pc[q] \notin {"idle", "refused"} => ticket[q].entry # Cli \/ p # Cli
  BY <1>1, <1>2 DEF Early
<1>9. Kept(c, pc', ticket')
  <2> SUFFICES ASSUME NEW a \in Asks, pc'[a] = "done"
               PROVE  c[ticket[a].entry][ticket[a].key].by \in Asks
    BY <1>2 DEF Kept
  <2>1. pc[a] = "done"
    BY <1>1, <1>2, <1>4 DEF Stays
  <2>2. history[ticket[a].entry][ticket[a].key].by \in Asks
    BY <1>3, <2>1 DEF GoodNow, Good, Kept
  <2>3. ticket[a].entry \in Entries /\ ticket[a].key \in Keys
    BY <1>1, <1>4, <2>1 DEF Ticketed, Stays, Tickets
  <2>4. p = Cli => ticket[a].entry # Cli
    BY <1>4, <1>8, <2>1
  <2> QED BY <1>4, <1>7, <2>2, <2>3, <2>4 DEF Writes
<1>10. Authored(c, pc', ticket')
  <2> SUFFICES ASSUME NEW e \in Entries, NEW k \in Keys, c[e][k].by \in Asks
               PROVE  /\ pc'[c[e][k].by] # "idle"
                      /\ ticket[c[e][k].by] = [entry |-> e, key |-> k]
    BY <1>2 DEF Authored
  <2>1. CASE Writes(p, e, k)
    BY <1>1, <1>2, <1>4, <1>5, <1>7, <2>1 DEF Writes, Stays
  <2>2. CASE c[e][k].by = history[e][k].by
    <3>1. /\ pc[c[e][k].by] # "idle"
          /\ ticket[c[e][k].by] = [entry |-> e, key |-> k]
      BY <1>3, <2>2 DEF GoodNow, Good, Authored
    <3> QED BY <1>1, <1>2, <1>4, <3>1 DEF Stays
  <2> QED BY <1>7, <2>1, <2>2
<1>11. Scored(c, overtaken')
  <2> SUFFICES ASSUME NEW e \in Entries, NEW k \in Keys
               PROVE  c[e][k].eval \in {Nobody, c[e][k].by} \/ <<e, k>> \in overtaken
    BY <1>2 DEF Scored, BeginWrite
  <2>1. history[e][k].eval \in {Nobody, history[e][k].by} \/ <<e, k>> \in overtaken
    BY <1>3 DEF GoodNow, Good, Scored
  <2>2. p \in Judges /\ e = ticket[p].entry /\ held[p][k] # Nobody =>
           history[e][k].by = held[p][k] \/ <<e, k>> \in overtaken
    BY <1>2, <1>3 DEF GoodNow, Good, Current
  <2>3. CASE c[e][k] = Stored(p)
    BY <2>3 DEF Stored
  <2>4. CASE /\ p \in Judges /\ e = ticket[p].entry /\ held[p][k] # Nobody
             /\ c[e][k] = [by |-> history[e][k].by, eval |-> held[p][k]]
    BY <2>2, <2>4
  <2>5. CASE c[e][k] = history[e][k]
    BY <2>1, <2>5
  <2> QED BY <1>6, <2>3, <2>4, <2>5
<1>12. Current(c, pc', ticket', held', overtaken')
  <2> SUFFICES ASSUME NEW j \in Judges, NEW k \in Keys,
                      pc'[j] \in {"judging", "loaded"}, held[j][k] # Nobody
               PROVE  c[ticket[j].entry][k].by = held[j][k] \/ <<ticket[j].entry, k>> \in overtaken'
    BY <1>2 DEF Current
  <2>1. j # p /\ pc[j] = pc'[j]
    BY <1>1, <1>2, <1>4 DEF Stays
  <2>2. pc[j] = "judging"
    BY <1>1, <1>2, <1>4, <2>1 DEF Locked, Apart, ServerLoaded
  <2>3. ticket[j].entry \in Entries
    BY <1>1, <1>4, <2>2 DEF Ticketed
  <2>4. history[ticket[j].entry][k].by = held[j][k] \/ <<ticket[j].entry, k>> \in overtaken
    BY <1>3, <2>2 DEF GoodNow, Good, Current
  <2>5. p = Cli => ticket[j].entry # Cli
    BY <1>4, <1>8, <2>2
  <2>6. CASE Writes(p, ticket[j].entry, k)
    <3>1. p \in Asks /\ ticket[p].entry = ticket[j].entry /\ ticket[p].key = k
      BY <2>5, <2>6 DEF Writes
    <3>2. AtWorkOn(ticket[j].entry, k)
      BY <2>2 DEF AtWorkOn
    <3>3. <<ticket[j].entry, k>> \in {t \in Entries \X Keys : p \in Asks /\ AtWorkOn(t[1], t[2])
                                                             /\ ticket[p].entry = t[1]
                                                             /\ ticket[p].key = t[2]}
      BY <2>3, <3>1, <3>2
    <3> QED BY <3>3 DEF BeginWrite
  <2>7. CASE c[ticket[j].entry][k].by = history[ticket[j].entry][k].by
    BY <2>4, <2>7 DEF BeginWrite
  <2> QED BY <1>7, <2>3, <2>6, <2>7
<1>13. Unsaved(c, pc')
  <2> SUFFICES ASSUME pc'[Cli] \in {"idle", "loaded"} PROVE c[Cli] = Empty[Cli]
    BY DEF Unsaved
  <2>1. p # Cli /\ pc[Cli] \in {"idle", "loaded"}
    BY <1>1, <1>2, <1>4 DEF Stays
  <2>2. history[Cli] = Empty[Cli]
    BY <1>3, <2>1 DEF GoodNow, Good, Unsaved
  <2>3. p \in Requests /\ ticket[p].entry # Cli
    BY <1>1, <1>2, <1>4, <2>1 DEF Early
  <2>4. \A k \in Keys : c[Cli][k] = history[Cli][k]
    BY <1>6, <2>1, <2>3 DEF Entries, Writes
  <2>5. c \in Contents
    BY <1>1, <1>3, ChangedIs DEF Keys, Entries
  <2> QED BY <1>3, <2>2, <2>4, <2>5 DEF Contents, Entries
<1>14. p \in Asks => c[ticket[p].entry][ticket[p].key].by \in Asks
  BY <1>4, <1>5, <1>7 DEF Writes
<1> QED BY <1>9, <1>10, <1>11, <1>12, <1>13, <1>14 DEF GoodNext, Good

-----------------------------------------------------------------------------
(* The steps, while the session and a request have not met.                  *)

Calm == Apart /\ Drafts /\ Early /\ Whole

LEMMA Members ==
  /\ Asks \subseteq Procs /\ Judges \subseteq Procs /\ Cli \in Procs /\ Cli \in Entries
  /\ Asks \cup Judges = Requests /\ Cli \notin Requests /\ Procs = Requests \cup {Cli}
  /\ Asks \cap Judges = {} /\ Nobody \notin Procs /\ Torn \notin Contents
BY ProcsAssumption DEF Procs, Entries, Requests

(* Before the session has saved, nobody finds its entry.                     *)
LEMMA CliUnseen ==
  ASSUME Calm, history # Torn, pc[Cli] \in {"idle", "loaded", "writing"}
  PROVE  ~Has(history, Cli)
<1>1. pc[Cli] # "writing"
  BY Members DEF Calm, Drafts
<1> QED BY <1>1 DEF Calm, Whole, Good, Unsaved, Has

LEMMA RequestCalm ==
  ASSUME IInv, Calm,
         \/ \E a \in Asks, e \in Entries, k \in Keys : Submit(a, e, k)
         \/ \E p \in Requests : Abandon(p)
         \/ \E j \in Judges, e \in Entries, force \in BOOLEAN : JudgeRequest(j, e, force)
         \/ \E j \in Judges : EndUnsaved(j)
  PROVE  Calm'
<1> USE DEF Loaded
<1>0. TypeOK /\ Stays /\ Apart /\ Drafts /\ Early /\ Whole
  BY Types DEF IInv, Calm
<1>1. ASSUME NEW a \in Asks, NEW e \in Entries, NEW k \in Keys, Submit(a, e, k)
      PROVE  Calm'
  <2>1. /\ pc[a] = "idle" /\ UNCHANGED <<history, draft, held, overtaken>>
        /\ ticket' = [ticket EXCEPT ![a] = [entry |-> e, key |-> k]]
        /\ \E x \in {"running", "refused"} : pc' = [pc EXCEPT ![a] = x]
    BY <1>1 DEF Submit, At, fileVars, auxVars
  <2>2. \A c : Steady(c)
    BY <1>0, <2>1, Members DEF Stays, Steady
  <2>3. Apart' /\ Drafts' /\ Whole'
    <3>1. \A p \in Procs : Loaded(p)' =>
             /\ pc'[p] = pc[p] /\ draft'[p] = draft[p]
             /\ p \in Requests => ticket'[p] = ticket[p]
             /\ p \in Judges => held'[p] = held[p]
      BY <1>0, <2>1, Members DEF Stays
    <3> QED BY <1>0, <2>1, <2>2, <3>1, QuietStep
  <2>4. Early'
    <3>1. pc'[a] # "refused" /\ pc[Cli] \in {"idle", "loaded", "writing"} => e # Cli
      BY <1>0, <1>1, CliUnseen, Members DEF Submit, At, Stays
    <3> QED BY <1>0, <2>1, <3>1, Members DEF Stays, Early
  <2> QED BY <2>3, <2>4 DEF Calm
<1>2. ASSUME NEW p \in Requests, \/ Abandon(p)
                                 \/ p \in Judges /\ EndUnsaved(p)
      PROVE  Calm'
  <2>1. /\ ~Loaded(p) /\ UNCHANGED <<history, draft, ticket, overtaken>>
        /\ \E x \in {"gone", "done", "error"} :
              pc' = [pc EXCEPT ![p] = x] /\ (x = "done" => p \in Judges)
        /\ \A j \in Judges : j # p => held'[j] = held[j]
        /\ pc[p] \in {"running", "judging"}
    BY <1>0, <1>2 DEF Abandon, EndUnsaved, At, fileVars, auxVars
  <2>2. \A c : Steady(c)
    BY <1>0, <2>1, Members DEF Stays, Steady
  <2>3. Apart' /\ Drafts' /\ Whole'
    <3>1. \A q \in Procs : Loaded(q)' =>
             /\ pc'[q] = pc[q] /\ draft'[q] = draft[q]
             /\ q \in Requests => ticket'[q] = ticket[q]
             /\ q \in Judges => held'[q] = held[q]
      BY <1>0, <2>1, Members DEF Stays
    <3> QED BY <1>0, <2>1, <2>2, <3>1, QuietStep
  <2>4. Early'
    BY <1>0, <2>1, Members DEF Stays, Early
  <2> QED BY <2>3, <2>4 DEF Calm
<1>3. ASSUME NEW j \in Judges, NEW e \in Entries, NEW force \in BOOLEAN, JudgeRequest(j, e, force)
      PROVE  Calm'
  <2>1. /\ pc[j] = "idle" /\ UNCHANGED <<history, draft, overtaken>>
        /\ \A q \in Procs : q # j => pc'[q] = pc[q]
        /\ \A q \in Requests : q # j => ticket'[q] = ticket[q]
        /\ \A q \in Judges : q # j => held'[q] = held[q]
        /\ pc'[j] \in {"refused", "judging"}
    BY <1>0, <1>3, Members DEF JudgeRequest, At, fileVars, auxVars, Stays
  <2>2. pc'[j] = "judging" => /\ history # Torn /\ Has(history, e)
                              /\ ticket'[j].entry = e
                              /\ \A k \in Keys : held'[j][k] \in {Nobody, history[e][k].by}
    BY <1>0, <1>3, Members DEF JudgeRequest, At, Stays, Tickets
  <2>3. \A c : history \in {c, Torn} => Steady(c)
    BY <1>0, <2>1, <2>2, Members DEF Stays, Steady
  <2>4. Apart' /\ Drafts' /\ Whole'
    <3>1. \A q \in Procs : Loaded(q)' =>
             /\ pc'[q] = pc[q] /\ draft'[q] = draft[q]
             /\ q \in Requests => ticket'[q] = ticket[q]
             /\ q \in Judges => held'[q] = held[q]
      BY <1>0, <2>1, Members DEF Stays
    <3> QED BY <1>0, <2>1, <2>3, <3>1, QuietStep
  <2>5. Early'
    <3>1. pc'[j] = "judging" /\ pc[Cli] \in {"idle", "loaded", "writing"} => e # Cli
      BY <2>2, CliUnseen
    <3> QED BY <1>0, <2>1, <2>2, <3>1, Members DEF Early
  <2> QED BY <2>4, <2>5 DEF Calm
<1> QED BY <1>1, <1>2, <1>3, Members

LEMMA LoadCalm ==
  ASSUME IInv, Calm, ~overlap', NEW p \in Procs,
         (p \in Requests /\ Load(p)) \/ (p = Cli /\ CliLoad)
  PROVE  Calm'
<1> USE DEF Loaded
<1>0. TypeOK /\ Stays /\ Locked /\ Apart /\ Drafts /\ Early /\ Whole
  BY Types DEF IInv, Calm
<1>1. /\ UNCHANGED <<history, ticket, held, overtaken>>
      /\ p \in Judges => pc[p] = "judging"
      /\ p \in Asks => pc[p] = "running"
      /\ p = Cli => pc[p] = "idle"
  <2>1. CASE p \in Requests /\ Load(p)
    BY <2>1, Members DEF Load, ReadyToSave, fileVars
  <2>2. CASE p = Cli /\ CliLoad
    BY <2>2, Members DEF CliLoad
  <2> QED BY <2>1, <2>2
<1>2. \/ /\ \E x \in {"done", "error"} : pc' = [pc EXCEPT ![p] = x] /\ (x = "done" => p \in Judges)
         /\ draft' = draft
      \/ /\ pc' = [pc EXCEPT ![p] = "loaded"]
         /\ draft' = [draft EXCEPT ![p] = Changed(p, history)]
         /\ history # Torn /\ \A q \in Procs : ~Loaded(q)
  <2>1. CASE p \in Requests /\ Load(p)
    <3>1. \A q \in Requests : ~Loaded(q)
      BY <1>0, <2>1, Members DEF Load, LockFree, Locked
    <3>2. history # Torn => ~Loaded(Cli)
      BY <2>1 DEF Load
    <3> QED BY <2>1, <3>1, <3>2, Members DEF Load, ReadHistory, At, fileVars
  <2>2. CASE p = Cli /\ CliLoad
    <3>1. history # Torn => \A q \in Requests : ~Loaded(q)
      BY <2>2 DEF CliLoad, ServerLoaded
    <3> QED BY <2>2, <3>1, Members DEF CliLoad, ReadHistory, At
  <2> QED BY <2>1, <2>2
<1>3. \A c : Steady(c)
  BY <1>0, <1>1, <1>2, Members DEF Stays, Steady
<1>4. Early'
  BY <1>0, <1>1, <1>2, Members DEF Stays, Early
<1>5. CASE pc'[p] # "loaded"
  <2>1. \A q \in Procs : Loaded(q)' =>
           /\ pc'[q] = pc[q] /\ draft'[q] = draft[q]
           /\ q \in Requests => ticket'[q] = ticket[q]
           /\ q \in Judges => held'[q] = held[q]
    BY <1>0, <1>1, <1>2, <1>5, Members DEF Stays
  <2>2. Apart' /\ Drafts' /\ Whole'
    BY <1>0, <1>1, <1>3, <2>1, QuietStep
  <2> QED BY <1>4, <2>2 DEF Calm
<1>6. CASE pc'[p] = "loaded"
  <2>1. /\ history # Torn /\ draft'[p] = Changed(p, history)
        /\ \A q \in Procs \ {p} : ~Loaded(q)'
    BY <1>0, <1>2, <1>6 DEF Stays
  <2>2. Apart'
    BY <2>1, Members DEF Apart, ServerLoaded
  <2>3. Drafts'
    BY <1>1, <1>6, <2>1 DEF Drafts, Changed
  <2>4. GoodNext(history)
    BY <1>0, <1>3, <2>1, GoodStays DEF Whole, GoodNow
  <2>5. Whole'
    BY <1>1, <2>4 DEF Whole, GoodNext
  <2> QED BY <1>4, <2>2, <2>3, <2>5 DEF Calm
<1> QED BY <1>5, <1>6

LEMMA WriteCalm ==
  ASSUME IInv, Calm, ~overlap, NEW p \in Procs, BeginWrite(p) \/ EndWrite(p)
  PROVE  Calm'
<1> USE DEF Loaded
<1>0. TypeOK /\ Stays /\ Locked /\ Ticketed /\ Apart /\ Drafts /\ Early /\ Whole
  BY Types DEF IInv, Calm
<1>1. \A q \in Procs \ {p} : ~Loaded(q)
  BY <1>0, Members DEF BeginWrite, EndWrite, Locked, Apart, ServerLoaded
<1>2. UNCHANGED <<ticket, held>> /\ overtaken \subseteq overtaken'
  BY DEF BeginWrite, EndWrite, auxVars
<1>3. \E x \in {"writing", "done"} : pc' = [pc EXCEPT ![p] = x]
  BY DEF BeginWrite, EndWrite, At
<1>4. \A q \in Procs \ {p} : ~Loaded(q)'
  BY <1>0, <1>1, <1>3 DEF Stays
<1>5. Apart' /\ Early'
  <2>1. Apart'
    BY <1>4, Members DEF Apart, ServerLoaded
  <2>2. pc[p] \in {"loaded", "writing"} /\ (pc'[p] = "writing" => pc[p] = "loaded")
    BY <1>0 DEF BeginWrite, EndWrite, At, Stays
  <2>3. Early'
    BY <1>0, <1>2, <1>3, <2>2, Members DEF Stays, Early
  <2> QED BY <2>1, <2>3
<1>6. CASE BeginWrite(p)
  <2>1. /\ pc'[p] = "writing" /\ history' = Torn /\ draft' = draft
        /\ draft[p] = Changed(p, history)
    BY <1>0, <1>6 DEF BeginWrite, At, Stays, Drafts
  <2>2. /\ GoodNext(draft[p])
        /\ p \in Asks => draft[p][ticket[p].entry][ticket[p].key].by \in Asks
    BY <1>6, <2>1, SavedIsGood
  <2>3. Drafts'
    BY <1>2, <1>4, <2>1, <2>2 DEF Drafts, GoodNext
  <2>4. Whole'
    BY <2>1 DEF Whole
  <2> QED BY <1>5, <2>3, <2>4 DEF Calm
<1>7. CASE EndWrite(p)
  <2>1. pc[p] = "writing" /\ pc'[p] = "done" /\ UNCHANGED overtaken
    BY <1>0, <1>7 DEF EndWrite, At, Stays, auxVars
  <2>2. /\ history = Torn /\ GoodNow(draft[p])
        /\ p \in Asks => draft[p][ticket[p].entry][ticket[p].key].by \in Asks
    BY <1>0, <2>1 DEF Drafts, GoodNow
  <2>3. history' = draft[p]
    BY <1>7, <2>2 DEF EndWrite
  <2>4. Steady(draft[p])
    BY <1>0, <1>2, <1>3, <2>1, <2>2, Members DEF Stays, Steady
  <2>5. GoodNext(draft[p])
    BY <2>2, <2>4, GoodStays
  <2>6. Whole'
    BY <2>3, <2>5 DEF Whole, GoodNext
  <2>7. Drafts'
    BY <1>4, <2>1 DEF Drafts
  <2> QED BY <1>5, <2>6, <2>7 DEF Calm
<1> QED BY <1>6, <1>7

LEMMA KillCalm ==
  ASSUME IInv, Calm, Kill
  PROVE  Calm'
<1> USE DEF Loaded
<1>0. TypeOK /\ Stays /\ Apart /\ Drafts /\ Early /\ Whole
  BY Types DEF IInv, Calm
<1>1. UNCHANGED history
  BY <1>0, Members DEF Kill, Drafts
<1>2. /\ \A p \in Requests : pc'[p] = IF pc[p] \in Ended \cup {"idle"} THEN pc[p] ELSE "gone"
      /\ pc'[Cli] = pc[Cli] /\ draft'[Cli] = draft[Cli]
      /\ UNCHANGED <<ticket, overtaken>>
  BY <1>0, Members DEF Kill, Stays
<1>3. \A p \in Requests : pc'[p] \notin {"judging", "loaded", "writing"}
  BY <1>2 DEF Ended
<1>4. \A c : Steady(c)
  BY <1>2, <1>3, Members DEF Steady, Ended
<1>5. Apart' /\ Drafts' /\ Whole'
  <2>1. \A q \in Procs : Loaded(q)' =>
           /\ pc'[q] = pc[q] /\ draft'[q] = draft[q]
           /\ q \in Requests => ticket'[q] = ticket[q]
           /\ q \in Judges => held'[q] = held[q]
    BY <1>2, <1>3, Members
  <2> QED BY <1>0, <1>1, <1>4, <2>1, QuietStep
<1>6. Early'
  BY <1>0, <1>2, Members DEF Early, Ended
<1> QED BY <1>5, <1>6 DEF Calm

-----------------------------------------------------------------------------
LEMMA InitIInv == Init => IInv
<1> SUFFICES ASSUME Init PROVE IInv
  OBVIOUS
<1> USE DEF Loaded
<1>1. TypeOK
  <2>1. Stays
    BY Blanks DEF Init, Stays, Places
  <2>2. history \in Contents /\ lock = Nobody /\ overlap = FALSE /\ overtaken = {}
    BY Blanks DEF Init
  <2>3. kills \in 0..MaxKills
    BY KillsAssumption DEF Init
  <2> QED BY <2>1, <2>2, <2>3, Types
<1>2. \A p \in Procs : pc[p] = "idle"
  BY DEF Init
<1>3. Locked /\ Ticketed /\ Apart /\ Drafts /\ Early
  BY <1>2, Members DEF Locked, Ticketed, Apart, ServerLoaded, Drafts, Early
<1>4. GoodNow(Empty)
  <2>1. \A e \in Entries, k \in Keys : Empty[e][k] = NoAnswer
    BY DEF Empty
  <2>2. Nobody \notin Asks
    BY Members
  <2> QED BY <1>2, <2>1, <2>2, Members
          DEF GoodNow, Good, Kept, Authored, Scored, Current, Unsaved, NoAnswer
<1>5. Whole
  BY <1>4 DEF Init, Whole, GoodNow
<1> QED BY <1>1, <1>3, <1>5 DEF IInv, Undisturbed

LEMMA StepIInv ==
  ASSUME IInv, [Next]_vars
  PROVE  IInv'
<1>1. TypeOK' /\ Locked' /\ Ticketed'
  BY StepTypes, StepLocked DEF IInv
<1>2. overlap => overlap'
  BY Steps DEF Submit, Load, Abandon, BeginWrite, EndWrite, JudgeRequest, EndUnsaved,
               CliLoad, Kill, vars, auxVars
<1>3. ASSUME ~overlap' PROVE Calm'
  <2>1. ~overlap /\ Calm
    BY <1>2, <1>3 DEF IInv, Undisturbed, Calm
  <2>2. ASSUME UNCHANGED vars PROVE Calm'
    <3>1. UNCHANGED <<history, pc, ticket, draft, held, overtaken>>
      BY <2>2 DEF vars, fileVars, auxVars
    <3>2. \A c : Steady(c)
      BY <3>1 DEF Steady
    <3>3. Apart' /\ Drafts' /\ Whole'
      BY <2>1, <3>1, <3>2, QuietStep DEF IInv, Calm
    <3>4. Early'
      BY <2>1, <3>1 DEF Calm, Early
    <3> QED BY <3>3, <3>4 DEF Calm
  <2>3. ASSUME NEW p \in Requests, Load(p) PROVE Calm'
    <3>1. p \in Procs
      BY Members
    <3> QED BY <1>3, <2>1, <2>3, <3>1, LoadCalm
  <2>4. CASE CliLoad
    BY <1>3, <2>1, <2>4, LoadCalm, Members
  <2>5. ASSUME NEW p \in Procs, BeginWrite(p) \/ EndWrite(p) PROVE Calm'
    BY <2>1, <2>5, WriteCalm
  <2>6. CASE Kill
    BY <2>1, <2>6, KillCalm
  <2> QED BY <2>1, <2>2, <2>3, <2>4, <2>5, <2>6, Steps, RequestCalm
<1> QED BY <1>1, <1>3 DEF IInv, Undisturbed, Calm

(* The invariant holds in every reachable state, for any number of requests. *)
THEOREM Invariance == Spec => []IInv
BY InitIInv, StepIInv, PTL DEF Spec

(* The variables keep their types.                                           *)
THEOREM TypeCorrect == Spec => []TypeOK
<1>1. IInv => TypeOK
  BY DEF IInv
<1> QED BY <1>1, Invariance, PTL

(* An answer whose request is done stays in the history (update_entry and    *)
(* append_entry, under the lock), for any number of requests and kills.      *)
THEOREM AnswersKept == Spec => []NothingLost
<1>1. ASSUME IInv PROVE NothingLost
  <2> SUFFICES ASSUME history # Torn, ~overlap, NEW a \in Asks, pc[a] = "done"
               PROVE  history[ticket[a].entry][ticket[a].key].by
                         \in {b \in Asks : ticket[b] = ticket[a]}
    BY DEF NothingLost
  <2> DEFINE b == history[ticket[a].entry][ticket[a].key].by
  <2>1. ticket[a] \in Tickets /\ ticket[a].entry \in Entries /\ ticket[a].key \in Keys
    BY <1>1, Types, Members DEF IInv, Stays, Ticketed, Tickets
  <2>2. b \in Asks
    BY <1>1 DEF IInv, Undisturbed, Whole, Good, Kept
  <2>3. ticket[b] = [entry |-> ticket[a].entry, key |-> ticket[a].key]
    BY <1>1, <2>1, <2>2 DEF IInv, Undisturbed, Whole, Good, Authored
  <2>4. ticket[a] = [entry |-> ticket[a].entry, key |-> ticket[a].key]
    BY <2>1 DEF Tickets
  <2> QED BY <2>2, <2>3, <2>4
<1> QED BY <1>1, Invariance, PTL

(* A stored evaluation is of the answer it stands beside, unless a re-ask    *)
(* met the judge (judge matches evaluations by setup key when they return).  *)
THEOREM EvaluationsFit == Spec => []EvaluationIsOfThisAnswer
<1>1. IInv => EvaluationIsOfThisAnswer
  BY DEF IInv, Undisturbed, Whole, Good, Scored, EvaluationIsOfThisAnswer
<1> QED BY <1>1, Invariance, PTL

(* Nobody prepares to save over a torn history (load_history raises).        *)
THEOREM TornStays == Spec => TornIsKept
<1>1. ASSUME IInv, [Next]_vars
      PROVE  [history = Torn /\ (\A p \in Procs : ~Loaded(p)) => \A p \in Procs : ~Loaded(p)']_vars
  <2> SUFFICES ASSUME history = Torn, \A p \in Procs : ~Loaded(p), NEW p \in Procs
               PROVE  ~Loaded(p)'
    OBVIOUS
  <2> USE DEF Loaded
  <2>1. Stays
    BY <1>1, Types DEF IInv
  <2>2. CASE Kill
    BY <2>1, <2>2, Members DEF Kill
  <2>3. CASE ~Kill
    <3>1. ~BeginWrite(p) /\ \A q \in Procs : ~EndWrite(q) /\ ~BeginWrite(q)
      BY DEF BeginWrite, EndWrite
    <3>2. \/ pc' = pc
          \/ \E q \in Procs, x \in Places \ {"loaded", "writing"} : pc' = [pc EXCEPT ![q] = x]
      BY <1>1, <2>3, <3>1, Steps, Members DEF Submit, Load, Abandon, JudgeRequest, EndUnsaved,
         CliLoad, ReadHistory, At, vars, Places, Ended
    <3> QED BY <2>1, <3>2 DEF Stays
  <2> QED BY <2>2, <2>3
<1> QED BY <1>1, Invariance, PTL DEF Spec, TornIsKept

=============================================================================
