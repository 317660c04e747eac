--------------------------- MODULE WebSourceProofs ---------------------------
(* The safety of WebSource, for any number of runs, documents, texts, URLs    *)
(* and vintages, any extractors and any chunk counts.                        *)
EXTENDS WebSource, TLAPS

(* How far a run has come. *)
Working(r) == at[r] \notin {"idle", "looking"}
Storing(r) == at[r] \in {"reading", "writing", "trimming", "storing"}

(* Text t is what some extractor makes of the document of validator g. *)
Of(g, t) == g # None => \E v \in Vintages : t = Reading[g, v]

(* A row as any run may hold it, and a row that replaces another. *)
Sound(x) == x \in Row /\ x.revision \in 1 .. MaxRevision /\ Of(x.tag, x.text)

Follows(s, x) ==
  s # None => /\ s.history \cup {s.live} \subseteq x.history \cup {x.live}
              /\ x.revision = s.revision + (IF x.text = s.text THEN 0 ELSE 1)

Rows == /\ row # None => Sound(row)
        /\ \A r \in Runs : /\ stored[r] # None => Sound(stored[r])
                           /\ Storing(r) => Sound(source[r]) /\ Follows(stored[r], source[r])

(* Only a refresh holds a stored row, and its candidate has no body. *)
Candidates == \A r \in Runs :
  /\ at[r] # "idle" /\ cand[r].refresh = "yes" => cand[r].body = None
  /\ Working(r) /\ cand[r].refresh = "no" => stored[r] = None

HasFirst == \E c \in chunks : c.index = 1

First == /\ row # None => HasFirst
         /\ \A r \in Runs : /\ 1 \notin stale[r]
                            /\ stored[r] # None => HasFirst
                            /\ at[r] \in {"trimming", "storing"} => HasFirst

(* While no two runs have met, the only one at work knows the row it read    *)
(* and the chunks it found.                                                  *)
Solo == /\ \A r, q \in Runs : r # q => at[r] = "idle" \/ at[q] = "idle"
        /\ \A r \in Runs :
             /\ Working(r) => stored[r] = row
             /\ at[r] = "writing" => stale[r] = Indexes(chunks) \ Indexes(New(r))
             /\ at[r] = "trimming" => New(r) = {c \in chunks : c.index \notin stale[r]}
             /\ at[r] = "storing" => chunks = New(r)

Described == row # None /\ ~torn /\ (\A r \in Runs : at[r] \notin {"trimming", "storing"})
             => \E v \in Vintages : chunks = Whole(row.text, row.revision, v)

IInv == TypeOK /\ Rows /\ Candidates /\ First /\ (alone => Solo /\ Described)

-----------------------------------------------------------------------------
(* Chunk sets.                                                               *)

(* The chunks of a text are numbered from 1 and carry text and revision. *)
LEMMA WholeChunks ==
  ASSUME NEW t \in Texts, NEW n \in Nat, NEW v \in Vintages
  PROVE  /\ Whole(t, n, v) \in SUBSET Chunk
         /\ Indexes(Whole(t, n, v)) = 1 .. Length[t, v]
         /\ \E c \in Whole(t, n, v) : c.index = 1
<1> DEFINE rec(i) == [index |-> i, text |-> t, revision |-> n, vintage |-> v]
           len == Length[t, v]
<1>1. len \in Nat \ {0}
  BY LengthAssumption
<1>2. Whole(t, n, v) = {rec(i) : i \in 1 .. len}
  BY DEF Whole
<1>3. \A i : rec(i).index = i
  OBVIOUS
<1>4. \A i \in Nat \ {0} : rec(i) \in Chunk
  BY DEF Chunk
<1> HIDE DEF rec, len
<1>5. 1 \in 1 .. len /\ 1 .. len \subseteq Nat \ {0}
  BY <1>1
<1>6. Whole(t, n, v) \in SUBSET Chunk
  BY <1>2, <1>4, <1>5
<1>7. Indexes(Whole(t, n, v)) = 1 .. len
  <2>1. \A c \in Whole(t, n, v) : c.index \in 1 .. len
    BY <1>2, <1>3
  <2>2. \A i \in 1 .. len : rec(i) \in Whole(t, n, v) /\ rec(i).index = i
    BY <1>2, <1>3
  <2> QED BY <2>1, <2>2 DEF Indexes
<1>8. rec(1) \in Whole(t, n, v) /\ rec(1).index = 1
  BY <1>2, <1>3, <1>5
<1> QED BY <1>6, <1>7, <1>8 DEF len

(* What a run is about to write is a whole article. *)
LEMMA NewChunks ==
  ASSUME TypeOK, NEW r \in Runs, source[r] \in Row
  PROVE  /\ New(r) \in SUBSET Chunk
         /\ 1 \in Indexes(New(r))
         /\ \E c \in New(r) : c.index = 1
<1>1. source[r].text \in Texts /\ source[r].revision \in Nat /\ vintage \in Vintages
  BY DEF TypeOK, Row
<1>2. /\ New(r) \in SUBSET Chunk
      /\ \E c \in New(r) : c.index = 1
  BY <1>1, WholeChunks DEF New
<1> QED BY <1>2 DEF Indexes

-----------------------------------------------------------------------------
(* Rows.                                                                     *)

(* A row that only records how a visit went. *)
Revisited(s, x) == /\ Sound(x)
                   /\ x.text = s.text /\ x.revision = s.revision
                   /\ x.live = s.live /\ x.history = s.history

LEMMA MissedRow ==
  ASSUME NEW s, Sound(s) PROVE Revisited(s, Missed(s))
<1> DEFINE x == [s EXCEPT !.misses = s.misses + 1,
                          !.state = IF s.misses + 1 >= 2 THEN "gone" ELSE s.state]
<1>1. Missed(s) = x
  BY DEF Missed
<1>2. s.misses + 1 \in Nat /\ (IF s.misses + 1 >= 2 THEN "gone" ELSE s.state) \in States
  BY DEF Sound, Row, States
<1>3. x \in Row
  BY <1>2 DEF Sound, Row
<1>4. /\ x.text = s.text /\ x.revision = s.revision /\ x.live = s.live
      /\ x.history = s.history /\ x.tag = s.tag
  BY DEF Sound, Row
<1> QED BY <1>1, <1>3, <1>4 DEF Sound, Revisited

LEMMA BlockedRow ==
  ASSUME NEW s, Sound(s) PROVE Revisited(s, [s EXCEPT !.state = "blocked"])
BY DEF Sound, Row, Revisited, States

LEMMA ConfirmedRow ==
  ASSUME NEW s, Sound(s) PROVE Revisited(s, Confirmed(s))
BY DEF Sound, Row, Confirmed, Revisited, States

LEMMA TaggedRow ==
  ASSUME NEW s, Sound(s), NEW g \in Documents \cup {None}, Of(g, s.text)
  PROVE  Revisited(s, [Confirmed(s) EXCEPT !.tag = IF g # None THEN g ELSE @])
<1> DEFINE x == [s EXCEPT !.state = "live", !.misses = 0, !.tag = IF g # None THEN g ELSE s.tag]
<1>1. [Confirmed(s) EXCEPT !.tag = IF g # None THEN g ELSE @] = x
  BY DEF Sound, Row, Confirmed
<1>2. Revisited(s, x)
  BY DEF Sound, Row, Revisited, States
<1> QED BY <1>1, <1>2

(* A page as ingest gets it. *)
Page == [url : Urls, text : Texts, tag : Documents \cup {None}, truncated : {"no", "yes"}]

LEMMA PagesType ==
  ASSUME TypeOK, NEW r \in Runs, at[r] # "idle", NEW p \in Pages(r)
  PROVE  /\ p \in Page /\ Of(p.tag, p.text)
         /\ cand[r].body = None => p.text = Extract(site.page)
<1>1. /\ cand[r].url \in Urls /\ cand[r].body \in Documents \cup {None}
      /\ site.url \in Urls /\ site.page \in Documents /\ vintage \in Vintages
  <2>1. cand[r] \in Visit /\ site \in [page : Documents, url : Urls]
    BY DEF TypeOK
  <2> QED BY <2>1 DEF Visit, TypeOK
<1>2. \A d \in Documents : Extract(d) \in Texts /\ Of(d, Extract(d))
  BY <1>1, ReadingAssumption DEF Extract, Of
<1>3. CASE cand[r].body # None
  <2>1. /\ p = [url |-> cand[r].url, text |-> Extract(cand[r].body), tag |-> None,
                truncated |-> "no"]
        /\ cand[r].body \in Documents
    BY <1>1, <1>3 DEF Pages
  <2>2. p \in Page /\ p.tag = None
    BY <1>1, <1>2, <2>1 DEF Page
  <2> QED BY <1>3, <2>2 DEF Of
<1>4. CASE cand[r].body = None
  <2>1. p.tag \in {None, site.page} /\ p.text = Extract(site.page) /\ p \in Page
    BY <1>1, <1>2, <1>4 DEF Pages, Page
  <2> QED BY <1>1, <1>2, <2>1 DEF Of
<1> QED BY <1>3, <1>4

(* The row built for a page is sound, and follows the one it replaces. *)
LEMMA BuiltRow ==
  ASSUME NEW c, NEW s, s = None \/ Sound(s), NEW p \in Page, Of(p.tag, p.text),
         Revision(s, p) <= MaxRevision
  PROVE  Sound(Build(c, s, p)) /\ Follows(s, Build(c, s, p))
<1>1. CASE s = None
  <2>1. Revision(s, p) = 1 /\ History(s, p) = {} /\ State(s, p) \in States
    BY <1>1 DEF Revision, History, State, States, Moved
  <2> QED BY <1>1, <2>1, BoundsAssumption DEF Build, Sound, Follows, Row, Page, Validator
<1>2. CASE s # None
  <2>1. s \in Row /\ s.revision \in Nat /\ s.revision >= 1 /\ s.live \in Urls
        /\ s.history \in SUBSET Urls
    BY <1>2 DEF Sound, Row
  <2>2. Revision(s, p) \in 1 .. MaxRevision
    BY <1>2, <2>1, BoundsAssumption DEF Revision
  <2>3. History(s, p) \in SUBSET Urls /\ State(s, p) \in States
    BY <1>2, <2>1 DEF History, State, States
  <2>4. Sound(Build(c, s, p))
    BY <2>2, <2>3, BoundsAssumption DEF Build, Sound, Row, Page, Validator
  <2>5. s.history \cup {s.live} \subseteq History(s, p) \cup {p.url}
    BY <1>2 DEF History, Moved
  <2>6. Revision(s, p) = s.revision + (IF p.text = s.text THEN 0 ELSE 1)
    BY <1>2, <2>1 DEF Revision, Changed
  <2> QED BY <2>4, <2>5, <2>6 DEF Build, Follows
<1> QED BY <1>1, <1>2

-----------------------------------------------------------------------------
(* Steps of control.                                                         *)

(* A run that leaves ingest keeps nothing; the others are not touched. *)
LEMMA Left ==
  ASSUME TypeOK, NEW r \in Runs, Leave(r)
  PROVE  /\ at' \in [Runs -> Steps] /\ cand' \in [Runs -> Visit \cup {None}]
         /\ stored' \in [Runs -> Row \cup {None}] /\ source' \in [Runs -> Row \cup {None}]
         /\ stale' \in [Runs -> SUBSET (Nat \ {0})]
         /\ at'[r] = "idle" /\ cand'[r] = None /\ stored'[r] = None
         /\ source'[r] = None /\ stale'[r] = {}
         /\ \A q \in Runs \ {r} :
              /\ at'[q] = at[q] /\ cand'[q] = cand[q] /\ stored'[q] = stored[q]
              /\ source'[q] = source[q] /\ stale'[q] = stale[q]
BY DEF TypeOK, Leave, Steps

(* While no two runs have met, the others are idle. *)
LEMMA OthersIdle ==
  ASSUME IInv, alone, NEW r \in Runs, at[r] # "idle"
  PROVE  \A q \in Runs \ {r} : at[q] = "idle"
BY DEF IInv, Solo

(* Leaving ingest disturbs nothing: what is left to show is what happened to *)
(* the row, the chunks and torn.                                             *)
LEMMA LeavingIInv ==
  ASSUME IInv, NEW r \in Runs, at[r] # "idle", Leave(r), UNCHANGED <<site, vintage, alone>>,
         row' # None => Sound(row') /\ HasFirst', row' \in Row \cup {None},
         chunks' \in SUBSET Chunk, HasFirst => HasFirst', torn' \in BOOLEAN,
         alone /\ row' # None /\ ~torn' =>
            \E v \in Vintages : chunks' = Whole(row'.text, row'.revision, v)
  PROVE  IInv'
<1>1. TypeOK /\ Rows /\ Candidates /\ First
  BY DEF IInv
<1> DEFINE Q == Runs \ {r}
<1>2. /\ at'[r] = "idle" /\ cand'[r] = None /\ stored'[r] = None
      /\ source'[r] = None /\ stale'[r] = {}
      /\ \A q \in Q : /\ at'[q] = at[q] /\ cand'[q] = cand[q] /\ stored'[q] = stored[q]
                       /\ source'[q] = source[q] /\ stale'[q] = stale[q]
  BY <1>1, Left
<1>3. TypeOK'
  <2>1. \A q \in Runs :
          /\ at'[q] = "idle" <=> cand'[q] = None
          /\ at'[q] \in {"reading", "writing", "trimming", "storing"} <=> source'[q] # None
    BY <1>1, <1>2 DEF TypeOK
  <2>2. row' # None => row'.revision \in 1 .. MaxRevision
    BY DEF Sound
  <2> QED BY <1>1, <2>1, <2>2, Left DEF TypeOK
<1>4. Rows'
  BY <1>1, <1>2 DEF Rows, Storing
<1>5. Candidates'
  BY <1>1, <1>2 DEF Candidates, Working
<1>6. First'
  BY <1>1, <1>2 DEF First
<1>7. ASSUME alone' PROVE Solo' /\ Described'
  <2>1. \A q \in Runs : at'[q] = "idle"
    BY <1>2, <1>7, OthersIdle
  <2>2. Solo'
    BY <2>1 DEF Solo, Working
  <2> QED BY <1>7, <2>2 DEF Described
<1> QED BY <1>3, <1>4, <1>5, <1>6, <1>7 DEF IInv

-----------------------------------------------------------------------------
(* The steps, one lemma each.                                                *)

LEMMA InitIInv == Init => IInv
<1> SUFFICES ASSUME Init PROVE IInv
  OBVIOUS
<1>1. TypeOK
  BY DEF Init, TypeOK, Steps
<1>2. Rows /\ Candidates /\ First
  BY DEF Init, Rows, Candidates, First, Storing, Working
<1>3. Solo /\ Described
  BY DEF Init, Solo, Described, Working
<1> QED BY <1>1, <1>2, <1>3 DEF IInv

LEMMA WorldIInv == IInv /\ (Edit \/ Upgrade \/ UNCHANGED vars) => IInv'
<1> SUFFICES ASSUME IInv, Edit \/ Upgrade \/ UNCHANGED vars PROVE IInv'
  OBVIOUS
<1>1. /\ UNCHANGED <<row, chunks, at, cand, stored, source, stale, torn, alone>>
      /\ site' \in [page : Documents, url : Urls] /\ vintage' \in Vintages
      /\ vintage' = vintage \/ \A r \in Runs : at[r] = "idle"
  BY DEF IInv, TypeOK, Edit, Upgrade, vars, runVars
<1>2. TypeOK'
  BY <1>1 DEF IInv, TypeOK
<1>3. Rows' /\ Candidates' /\ First'
  BY <1>1 DEF IInv, Rows, Candidates, First, Storing, Working, Sound, Follows, HasFirst
<1>4. ASSUME alone' PROVE Solo' /\ Described'
  <2>1. Solo /\ Described
    BY <1>1, <1>4 DEF IInv
  <2>2. Described'
    BY <1>1, <2>1 DEF Described
  <2>3. Solo'
    <3>1. CASE vintage' = vintage
      BY <1>1, <2>1, <3>1 DEF Solo, Working, New
    <3>2. CASE \A r \in Runs : at[r] = "idle"
      BY <1>1, <2>1, <3>2 DEF Solo, Working
    <3> QED BY <1>1, <3>1, <3>2
  <2> QED BY <2>2, <2>3
<1> QED BY <1>2, <1>3, <1>4 DEF IInv

LEMMA StartIInv ==
  ASSUME IInv, NEW r \in Runs, NEW c \in Visit, Start(r, c),
         c.refresh = "yes" => c.body = None
  PROVE  IInv'
<1>1. /\ at' = [at EXCEPT ![r] = "looking"] /\ cand' = [cand EXCEPT ![r] = c]
      /\ at[r] = "idle" /\ alone' = (alone /\ \A q \in Runs : at[q] = "idle")
      /\ UNCHANGED <<site, vintage, row, chunks, stored, source, stale, torn>>
  BY DEF Start
<1>2. TypeOK'
  BY <1>1, NoneAssumption DEF IInv, TypeOK, Steps
<1>3. Rows'
  BY <1>1 DEF IInv, TypeOK, Rows, Storing
<1>4. Candidates'
  BY <1>1 DEF IInv, TypeOK, Candidates, Working
<1>5. First'
  BY <1>1 DEF IInv, TypeOK, First, HasFirst
<1>6. ASSUME alone' PROVE Solo' /\ Described'
  <2>1. /\ alone /\ \A q \in Runs : at[q] = "idle"
        /\ \A q \in Runs \ {r} : at'[q] = "idle"
        /\ at'[r] = "looking"
    BY <1>1, <1>6 DEF IInv, TypeOK
  <2>2. Solo'
    BY <2>1 DEF Solo, Working
  <2>3. Described'
    BY <1>1, <2>1 DEF IInv, Described
  <2> QED BY <2>2, <2>3
<1> QED BY <1>2, <1>3, <1>4, <1>5, <1>6 DEF IInv

LEMMA LookIInv ==
  ASSUME IInv, NEW r \in Runs, Look(r)
  PROVE  IInv'
<1>1. at[r] = "looking" /\ UNCHANGED <<site, vintage, row, chunks, torn, alone>>
  BY DEF Look
<1>2. CASE row # None /\ cand[r].refresh = "no"
  <2>1. Leave(r)
    BY <1>2 DEF Look
  <2>2. row # None => Sound(row) /\ HasFirst
    BY DEF IInv, Rows, First
  <2>3. ASSUME alone, row # None, ~torn
        PROVE  \E v \in Vintages : chunks = Whole(row.text, row.revision, v)
    BY <1>1, <2>3, OthersIdle DEF IInv, Described
  <2> QED BY <1>1, <2>1, <2>2, <2>3, LeavingIInv DEF IInv, TypeOK, HasFirst, Sound
<1>3. CASE ~(row # None /\ cand[r].refresh = "no")
  <2>1. /\ at' = [at EXCEPT ![r] = "fetching"] /\ stored' = [stored EXCEPT ![r] = row]
        /\ UNCHANGED <<cand, source, stale>>
    BY <1>3 DEF Look
  <2>2. TypeOK'
    BY <1>1, <2>1 DEF IInv, TypeOK, Steps
  <2>3. Rows'
    BY <1>1, <2>1 DEF IInv, TypeOK, Rows, Storing, Sound
  <2>4. Candidates'
    BY <1>1, <1>3, <2>1 DEF IInv, TypeOK, Candidates, Working
  <2>5. First'
    BY <1>1, <2>1 DEF IInv, TypeOK, First, HasFirst
  <2>6. ASSUME alone' PROVE Solo' /\ Described'
    <3>1. /\ alone /\ at'[r] = "fetching" /\ stored'[r] = row
          /\ \A q \in Runs \ {r} : at'[q] = "idle" /\ at[q] = "idle"
      BY <1>1, <2>1, <2>6, OthersIdle DEF IInv, TypeOK
    <3>2. Solo'
      BY <1>1, <3>1 DEF Solo, Working
    <3>3. Described'
      BY <1>1, <3>1 DEF IInv, Described
    <3> QED BY <3>2, <3>3
  <2> QED BY <2>2, <2>3, <2>4, <2>5, <2>6 DEF IInv
<1> QED BY <1>2, <1>3

(* Any outcome that ends with the fetch. *)
LEMMA DoneIInv ==
  ASSUME IInv, NEW r \in Runs, NEW s, Done(r, s),
         stored[r] # None => Revisited(stored[r], s)
  PROVE  IInv'
<1>1. /\ at[r] = "fetching" /\ Leave(r)
      /\ row' = IF stored[r] = None THEN row ELSE s
      /\ UNCHANGED <<site, vintage, chunks, torn, alone>>
  BY DEF Done
<1>2. /\ row' # None => Sound(row') /\ HasFirst'
      /\ row' \in Row \cup {None}
  <2>1. HasFirst' <=> HasFirst
    BY <1>1 DEF HasFirst
  <2>2. CASE stored[r] = None
    <3>1. row' = row
      BY <1>1, <2>2
    <3>2. row # None => Sound(row) /\ HasFirst
      BY DEF IInv, Rows, First
    <3> QED BY <2>1, <3>1, <3>2 DEF Sound
  <2>3. CASE stored[r] # None
    <3>1. row' = s /\ Sound(s)
      BY <1>1, <2>3 DEF Revisited
    <3>2. HasFirst
      BY <2>3 DEF IInv, First
    <3> QED BY <2>1, <3>1, <3>2 DEF Sound
  <2> QED BY <2>2, <2>3
<1>3. ASSUME alone, row' # None, ~torn'
      PROVE  \E v \in Vintages : chunks' = Whole(row'.text, row'.revision, v)
  <2>1. stored[r] = row /\ \A q \in Runs : at[q] \notin {"trimming", "storing"}
    BY <1>1, <1>3, OthersIdle DEF IInv, Solo, Working
  <2>2. row # None /\ row'.text = row.text /\ row'.revision = row.revision
    BY <1>1, <1>3, <2>1 DEF Revisited
  <2> QED BY <1>1, <1>3, <2>1, <2>2 DEF IInv, Described
<1> QED BY <1>1, <1>2, <1>3, LeavingIInv DEF IInv, TypeOK, HasFirst

LEMMA AnswerIInv ==
  ASSUME IInv, NEW r \in Runs, Miss(r) \/ Block(r) \/ NotModified(r) \/ Same(r)
  PROVE  IInv'
<1>1. stored[r] # None => Sound(stored[r])
  BY DEF IInv, Rows
<1>2. CASE Miss(r)
  BY <1>1, <1>2, MissedRow, DoneIInv DEF Miss
<1>3. CASE Block(r)
  BY <1>1, <1>3, BlockedRow, DoneIInv DEF Block
<1>4. CASE NotModified(r)
  BY <1>1, <1>4, ConfirmedRow, DoneIInv DEF NotModified
<1>5. CASE Same(r)
  <2>1. PICK p \in Pages(r) :
          /\ at[r] = "fetching" /\ SameHash(r, p)
          /\ Done(r, [Confirmed(stored[r]) EXCEPT !.tag = IF p.tag # None THEN p.tag ELSE @])
    BY <1>5 DEF Same
  <2>2. p.tag \in Documents \cup {None} /\ Of(p.tag, stored[r].text)
    BY <2>1, PagesType DEF SameHash, IInv, Page
  <2> QED BY <1>1, <2>1, <2>2, TaggedRow, DoneIInv
<1> QED BY <1>2, <1>3, <1>4, <1>5

LEMMA FoundIInv ==
  ASSUME IInv, NEW r \in Runs, Found(r)
  PROVE  IInv'
<1>1. /\ at[r] = "fetching" /\ at' = [at EXCEPT ![r] = "reading"]
      /\ UNCHANGED <<site, vintage, row, chunks, cand, stored, stale, torn, alone>>
  BY DEF Found
<1>2. PICK p \in Pages(r) :
        /\ Revision(stored[r], p) <= MaxRevision
        /\ source' = [source EXCEPT ![r] = Build(cand[r], stored[r], p)]
  BY DEF Found
<1> DEFINE x == Build(cand[r], stored[r], p)
<1>3. Sound(x) /\ Follows(stored[r], x)
  <2>1. p \in Page /\ Of(p.tag, p.text)
    BY <1>1, PagesType DEF IInv
  <2>2. stored[r] = None \/ Sound(stored[r])
    BY DEF IInv, Rows
  <2> QED BY <1>2, <2>1, <2>2, BuiltRow
<1>4. source' = [source EXCEPT ![r] = x]
  BY <1>2
<1> HIDE DEF x
<1>5. x \in Row /\ x # None
  BY <1>3, NoneAssumption DEF Sound
<1>6. /\ at'[r] = "reading" /\ source'[r] = x
      /\ \A q \in Runs \ {r} : at'[q] = at[q] /\ source'[q] = source[q]
  BY <1>1, <1>4 DEF IInv, TypeOK
<1>7. TypeOK'
  BY <1>1, <1>4, <1>5 DEF IInv, TypeOK, Steps
<1>8. Rows'
  BY <1>1, <1>3, <1>6 DEF IInv, Rows, Storing
<1>9. Candidates'
  BY <1>1, <1>6 DEF IInv, Candidates, Working
<1>10. First'
  BY <1>1, <1>6 DEF IInv, First, HasFirst
<1>11. ASSUME alone' PROVE Solo' /\ Described'
  <2>1. alone /\ \A q \in Runs \ {r} : at'[q] = "idle" /\ at[q] = "idle"
    BY <1>1, <1>6, <1>11, OthersIdle
  <2>2. Solo'
    BY <1>1, <1>6, <2>1 DEF IInv, Solo, Working
  <2>3. Described'
    BY <1>1, <2>1 DEF IInv, Described
  <2> QED BY <2>2, <2>3
<1> QED BY <1>7, <1>8, <1>9, <1>10, <1>11 DEF IInv

LEMMA ReadIdsIInv ==
  ASSUME IInv, NEW r \in Runs, ReadIds(r)
  PROVE  IInv'
<1> DEFINE left == Indexes(chunks) \ Indexes(New(r))
<1>1. /\ at[r] = "reading" /\ at' = [at EXCEPT ![r] = "writing"]
      /\ stale' = [stale EXCEPT ![r] = left]
      /\ UNCHANGED <<site, vintage, row, chunks, cand, stored, source, torn, alone>>
  BY DEF ReadIds
<1>2. left \subseteq Nat \ {0} /\ 1 \notin left
  <2>1. source[r] \in Row
    BY <1>1 DEF IInv, Rows, Storing, Sound
  <2>2. 1 \in Indexes(New(r))
    BY <2>1, NewChunks DEF IInv
  <2>3. Indexes(chunks) \subseteq Nat \ {0}
    BY DEF IInv, TypeOK, Chunk, Indexes
  <2> QED BY <2>2, <2>3
<1>3. New(r)' = New(r) /\ Indexes(chunks)' = Indexes(chunks)
      /\ Indexes(New(r))' = Indexes(New(r))
  BY <1>1 DEF New, Indexes
<1> HIDE DEF left
<1>4. /\ at'[r] = "writing" /\ stale'[r] = left
      /\ \A q \in Runs \ {r} : at'[q] = at[q] /\ stale'[q] = stale[q]
  BY <1>1 DEF IInv, TypeOK
<1>5. TypeOK'
  BY <1>1, <1>2 DEF IInv, TypeOK, Steps
<1>6. Rows'
  BY <1>1, <1>4 DEF IInv, Rows, Storing
<1>7. Candidates'
  BY <1>1, <1>4 DEF IInv, Candidates, Working
<1>8. First'
  BY <1>1, <1>2, <1>4 DEF IInv, First, HasFirst
<1>9. ASSUME alone' PROVE Solo' /\ Described'
  <2>1. alone /\ \A q \in Runs \ {r} : at'[q] = "idle" /\ at[q] = "idle"
    BY <1>1, <1>4, <1>9, OthersIdle
  <2>2. stale'[r] = (Indexes(chunks) \ Indexes(New(r)))'
    BY <1>3, <1>4 DEF left
  <2>3. Solo'
    BY <1>1, <1>4, <2>1, <2>2 DEF IInv, Solo, Working
  <2>4. Described'
    BY <1>1, <2>1 DEF IInv, Described
  <2> QED BY <2>3, <2>4
<1> QED BY <1>5, <1>6, <1>7, <1>8, <1>9 DEF IInv

(* The two writes of the chunks: what is left to show is what they do to the *)
(* chunks, and what a lone run knows of them afterwards.                     *)
LEMMA WritingIInv ==
  ASSUME IInv, NEW r \in Runs, NEW next \in {"trimming", "storing"},
         at[r] \in {"writing", "trimming"}, at' = [at EXCEPT ![r] = next],
         UNCHANGED <<site, vintage, row, cand, stored, source, stale, torn, alone>>,
         chunks' \in SUBSET Chunk, HasFirst',
         alone => IF next = "trimming"
                    THEN New(r) = {c \in chunks' : c.index \notin stale[r]}
                    ELSE chunks' = New(r)
  PROVE  IInv'
<1>1. /\ at'[r] = next
      /\ \A q \in Runs \ {r} : at'[q] = at[q]
      /\ New(r)' = New(r)
  BY DEF IInv, TypeOK, New
<1>2. TypeOK'
  BY DEF IInv, TypeOK, Steps
<1>3. Rows'
  BY <1>1 DEF IInv, Rows, Storing
<1>4. Candidates'
  BY <1>1 DEF IInv, Candidates, Working
<1>5. First'
  BY DEF IInv, First
<1>6. ASSUME alone' PROVE Solo' /\ Described'
  <2>1. alone /\ \A q \in Runs \ {r} : at'[q] = "idle" /\ at[q] = "idle"
    BY <1>1, <1>6, OthersIdle
  <2>2. Solo'
    BY <1>1, <2>1 DEF IInv, Solo, Working
  <2>3. Described'
    BY <1>1 DEF Described
  <2> QED BY <2>2, <2>3
<1> QED BY <1>2, <1>3, <1>4, <1>5, <1>6 DEF IInv

LEMMA UpsertIInv ==
  ASSUME IInv, NEW r \in Runs, Upsert(r)
  PROVE  IInv'
<1>1. /\ at[r] = "writing" /\ at' = [at EXCEPT ![r] = "trimming"]
      /\ chunks' = {c \in chunks : c.index \notin Indexes(New(r))} \cup New(r)
      /\ UNCHANGED <<site, vintage, row, cand, stored, source, stale, torn, alone>>
  BY DEF Upsert
<1>2. source[r] \in Row
  BY <1>1 DEF IInv, Rows, Storing, Sound
<1>3. New(r) \in SUBSET Chunk /\ \E c \in New(r) : c.index = 1
  BY <1>2, NewChunks DEF IInv
<1>4. chunks' \in SUBSET Chunk
  BY <1>1, <1>3 DEF IInv, TypeOK
<1>5. HasFirst'
  BY <1>1, <1>3 DEF HasFirst
<1>6. ASSUME alone PROVE New(r) = {c \in chunks' : c.index \notin stale[r]}
  <2>1. stale[r] = Indexes(chunks) \ Indexes(New(r))
    BY <1>1, <1>6 DEF IInv, Solo
  <2>2. \A c \in New(r) : c.index \in Indexes(New(r))
    BY DEF Indexes
  <2>3. \A c \in chunks : c.index \in Indexes(chunks)
    BY DEF Indexes
  <2> QED BY <1>1, <2>1, <2>2, <2>3
<1> QED BY <1>1, <1>4, <1>5, <1>6, WritingIInv

LEMMA TrimIInv ==
  ASSUME IInv, NEW r \in Runs, Trim(r)
  PROVE  IInv'
<1>1. /\ at[r] = "trimming" /\ at' = [at EXCEPT ![r] = "storing"]
      /\ chunks' = {c \in chunks : c.index \notin stale[r]}
      /\ UNCHANGED <<site, vintage, row, cand, stored, source, stale, torn, alone>>
  BY DEF Trim
<1>2. chunks' \in SUBSET Chunk
  BY <1>1 DEF IInv, TypeOK
<1>3. HasFirst'
  BY <1>1 DEF IInv, First, HasFirst
<1>4. ASSUME alone PROVE chunks' = New(r)
  BY <1>1, <1>4 DEF IInv, Solo
<1> QED BY <1>1, <1>2, <1>3, <1>4, WritingIInv

LEMMA StoreRowIInv ==
  ASSUME IInv, NEW r \in Runs, StoreRow(r)
  PROVE  IInv'
<1>1. /\ at[r] = "storing" /\ Leave(r) /\ row' = source[r] /\ torn' = FALSE
      /\ UNCHANGED <<site, vintage, chunks, alone>>
  BY DEF StoreRow
<1>2. Sound(source[r]) /\ source[r] \in Row
  BY <1>1 DEF IInv, Rows, Storing, Sound
<1>3. HasFirst /\ HasFirst'
  BY <1>1 DEF IInv, First, HasFirst
<1>4. ASSUME alone
      PROVE  \E v \in Vintages : chunks' = Whole(row'.text, row'.revision, v)
  BY <1>1, <1>4 DEF IInv, TypeOK, Solo, New
<1>5. Sound(row') /\ row' \in Row
  BY <1>1, <1>2 DEF Sound
<1> QED BY <1>1, <1>3, <1>4, <1>5, LeavingIInv DEF IInv, TypeOK

LEMMA CrashIInv ==
  ASSUME IInv, NEW r \in Runs, Crash(r)
  PROVE  IInv'
<1>1. /\ at[r] # "idle" /\ Leave(r) /\ torn' = (torn \/ at[r] \in {"trimming", "storing"})
      /\ UNCHANGED <<site, vintage, row, chunks, alone>>
  BY DEF Crash
<1>2. row' # None => Sound(row') /\ HasFirst'
  BY <1>1 DEF IInv, Rows, First, HasFirst, Sound
<1>3. ASSUME alone, row' # None, ~torn'
      PROVE  \E v \in Vintages : chunks' = Whole(row'.text, row'.revision, v)
  <2>1. ~torn /\ \A q \in Runs : at[q] \notin {"trimming", "storing"}
    BY <1>1, <1>3, OthersIdle
  <2> QED BY <1>1, <1>3, <2>1 DEF IInv, Described
<1> QED BY <1>1, <1>2, <1>3, LeavingIInv DEF IInv, TypeOK, HasFirst

LEMMA CandidateIInv ==
  ASSUME IInv, NEW r \in Runs, Offer(r) \/ Refresh(r)
  PROVE  IInv'
<1>1. CASE Offer(r)
  <2>1. PICK u \in Urls, b \in Documents \cup {None} :
          Start(r, [url |-> u, body |-> b, refresh |-> "no", reextract |-> "no"])
    BY <1>1 DEF Offer
  <2> DEFINE c == [url |-> u, body |-> b, refresh |-> "no", reextract |-> "no"]
  <2>2. c \in Visit /\ c.refresh = "no" /\ Start(r, c)
    BY <2>1 DEF Visit
  <2> HIDE DEF c
  <2> QED BY <2>2, StartIInv
<1>2. CASE Refresh(r)
  <2>1. PICK again \in {"no", "yes"} :
          /\ row # None
          /\ Start(r, [url |-> row.live, body |-> None, refresh |-> "yes",
                       reextract |-> again])
    BY <1>2 DEF Refresh
  <2> DEFINE c == [url |-> row.live, body |-> None, refresh |-> "yes", reextract |-> again]
  <2>2. row.live \in Urls
    BY <2>1 DEF IInv, Rows, Sound, Row
  <2>3. c \in Visit /\ c.body = None /\ Start(r, c)
    BY <2>1, <2>2 DEF Visit
  <2> HIDE DEF c
  <2> QED BY <2>3, StartIInv
<1> QED BY <1>1, <1>2

-----------------------------------------------------------------------------
(* What follows.                                                             *)

(* IInv is an invariant of WebSource. *)
THEOREM Invariance == Spec => []IInv
<1>1. Init => IInv
  BY InitIInv
<1>2. IInv /\ [Next]_vars => IInv'
  <2> SUFFICES ASSUME IInv, [Next]_vars PROVE IInv'
    OBVIOUS
  <2>1. CASE Edit \/ Upgrade \/ UNCHANGED vars
    BY <2>1, WorldIInv
  <2>2. ASSUME NEW r \in Runs, Step(r) PROVE IInv'
    BY <2>2, CandidateIInv, LookIInv, AnswerIInv, FoundIInv, ReadIdsIInv, UpsertIInv,
       TrimIInv, StoreRowIInv, CrashIInv DEF Step
  <2> QED BY <2>1, <2>2 DEF Next
<1> QED BY <1>1, <1>2, PTL DEF Spec

(* Every collection and local has its type, a revision counts from 1, and a  *)
(* run that writes has the row it will write, whatever the other runs do.    *)
THEOREM TypeCorrect == Spec => []TypeOK
<1>1. IInv => TypeOK
  BY DEF IInv
<1> QED BY <1>1, Invariance, PTL

(* An article that has a row has its first chunk: any number of runs may     *)
(* overlap and be killed anywhere, and none can make polls pass over an      *)
(* article that cannot be read.                                              *)
THEOREM ArticlesStayReadable == Spec => []StoredIsReadable
<1>1. IInv => StoredIsReadable
  BY DEF IInv, First, HasFirst, StoredIsReadable
<1> QED BY <1>1, Invariance, PTL

(* While no two runs have met, the chunks are those of the row, whatever the *)
(* lengths of its versions, except between a kill and the next rewrite.      *)
THEOREM OneVersion == Spec => []RowDescribesChunks
<1>1. IInv => RowDescribesChunks
  BY DEF IInv, Described, RowDescribesChunks
<1> QED BY <1>1, Invariance, PTL

(* What a run reports as unchanged is unchanged, with any number of runs. *)
THEOREM UnchangedIsTrue == Spec => UnchangedIsCurrent
<1>1. ASSUME IInv, NEW r \in Runs, NotModified(r)
      PROVE  \E v \in Vintages : stored[r].text = Reading[site.page, v]
  <2>1. stored[r] # None /\ stored[r].tag = site.page
    BY <1>1 DEF NotModified
  <2>2. site.page \in Documents /\ Of(stored[r].tag, stored[r].text)
    BY <1>1, <2>1 DEF IInv, TypeOK, Rows, Sound
  <2> QED BY <2>1, <2>2, NoneAssumption DEF Of
<1>2. ASSUME IInv, NEW r \in Runs, Same(r) PROVE stored[r].text = Extract(site.page)
  <2>1. PICK p \in Pages(r) : at[r] = "fetching" /\ SameHash(r, p)
    BY <1>2 DEF Same
  <2>2. stored[r] # None /\ stored[r].text = p.text
    BY <2>1 DEF SameHash
  <2>3. cand[r] \in Visit
    BY <1>2, <2>1 DEF IInv, TypeOK
  <2>4. cand[r].body = None
    BY <1>2, <2>1, <2>2, <2>3 DEF IInv, Candidates, Working, Visit
  <2> QED BY <1>2, <2>1, <2>2, <2>4, PagesType DEF IInv
<1>3. IInv /\ [Next]_vars =>
        [\A r \in Runs :
           /\ NotModified(r) => \E v \in Vintages : stored[r].text = Reading[site.page, v]
           /\ Same(r) => stored[r].text = Extract(site.page)]_vars
  BY <1>1, <1>2
<1> QED BY <1>3, Invariance, PTL DEF Spec, UnchangedIsCurrent

(* A lone run replaces the row that is there, and follows it. *)
LEMMA Succession ==
  ASSUME IInv, [Next]_vars, alone, row # None
  PROVE  row' # None /\ Follows(row, row')
<1>1. Sound(row)
  BY DEF IInv, Rows
<1>2. Follows(row, row)
  BY <1>1 DEF Sound, Follows, Row
<1>3. CASE Edit \/ Upgrade \/ UNCHANGED vars
  BY <1>2, <1>3 DEF Edit, Upgrade, vars
<1>4. ASSUME NEW r \in Runs, Step(r) PROVE row' # None /\ Follows(row, row')
  <2>1. Working(r) => stored[r] = row
    BY DEF IInv, Solo
  <2>2. ASSUME NEW s, Done(r, s), Revisited(row, s) PROVE row' # None /\ Follows(row, row')
    <3>1. row' = s
      BY <2>1, <2>2 DEF Done, Working
    <3>2. Follows(row, s) /\ s # None
      BY <1>1, <2>2, NoneAssumption DEF Revisited, Sound, Follows, Row
    <3> QED BY <3>1, <3>2 DEF Follows
  <2>3. CASE Offer(r) \/ Refresh(r) \/ Look(r) \/ Found(r) \/ ReadIds(r) \/ Upsert(r)
             \/ Trim(r) \/ Crash(r)
    <3>1. row' = row
      BY <2>3 DEF Offer, Refresh, Start, Look, Found, ReadIds, Upsert, Trim, Crash
    <3> QED BY <1>2, <3>1
  <2>4. CASE Miss(r) \/ Block(r) \/ NotModified(r) \/ Same(r)
    <3>1. at[r] = "fetching" /\ stored[r] = row
      BY <2>1, <2>4 DEF Miss, Block, NotModified, Same, Done, Working
    <3>2. CASE Miss(r)
      BY <1>1, <2>2, <3>1, <3>2, MissedRow DEF Miss
    <3>3. CASE Block(r)
      BY <1>1, <2>2, <3>1, <3>3, BlockedRow DEF Block
    <3>4. CASE NotModified(r)
      BY <1>1, <2>2, <3>1, <3>4, ConfirmedRow DEF NotModified
    <3>5. CASE Same(r)
      <4>1. PICK p \in Pages(r) :
              /\ SameHash(r, p)
              /\ Done(r, [Confirmed(stored[r]) EXCEPT
                            !.tag = IF p.tag # None THEN p.tag ELSE @])
        BY <3>5 DEF Same
      <4>2. p.tag \in Documents \cup {None} /\ Of(p.tag, row.text)
        BY <3>1, <4>1, PagesType DEF SameHash, IInv, Page
      <4> QED BY <1>1, <2>2, <3>1, <4>1, <4>2, TaggedRow
    <3> QED BY <2>4, <3>2, <3>3, <3>4, <3>5
  <2>5. CASE StoreRow(r)
    <3>1. at[r] = "storing" /\ row' = source[r] /\ stored[r] = row
      BY <2>1, <2>5 DEF StoreRow, Working
    <3>2. Sound(source[r]) /\ Follows(row, source[r])
      BY <3>1 DEF IInv, Rows, Storing
    <3> QED BY <3>1, <3>2, NoneAssumption DEF Sound, Follows
  <2> QED BY <1>4, <2>3, <2>4, <2>5 DEF Step
<1> QED BY <1>3, <1>4 DEF Next

(* However often an article moves, the URLs it was served at stay on record. *)
THEOREM UrlsKept == Spec => NoUrlForgotten
<1>1. IInv /\ [Next]_vars =>
        [row # None /\ alone => /\ row' # None
                                /\ row.history \cup {row.live} \subseteq
                                     row'.history \cup {row'.live}]_vars
  BY Succession DEF Follows
<1> QED BY <1>1, Invariance, PTL DEF Spec, NoUrlForgotten

(* A revision names one text: another text takes the next number, and the    *)
(* same text keeps its own, however often it is extracted and chunked again. *)
THEOREM RevisionsNameTexts == Spec => RevisionsCountTexts
<1>1. IInv /\ [Next]_vars =>
        [row # None /\ alone =>
           row'.revision = row.revision + (IF row'.text = row.text THEN 0 ELSE 1)]_vars
  BY Succession DEF Follows
<1> QED BY <1>1, Invariance, PTL DEF Spec, RevisionsCountTexts
=============================================================================
