------------------------ MODULE IngestionQueueProofs ------------------------
(* Proofs about IngestionQueue for every set of jobs, workers and videos.    *)
(* IInv is inductive; every theorem about the queue follows from it.  The    *)
(* last section is about the broadcasts of its progress, ProgressBus.        *)
EXTENDS IngestionQueue, ProgressTabs, SequenceTheorems, TLAPS

-----------------------------------------------------------------------------
(* The inductive invariant *)

Indexing   == {"indexing", "fetching", "embedding", "summarising", "relisting", "claiming"}
Enriching  == {"graph", "extracting", "marking", "stamping"}
AfterClaim == Enriching \cup {"closing", "ended"}

(* Where a thread stands agrees with what its job shows and with its kind. *)
Control ==
  \A j \in Jobs :
    /\ at[j] = "idle" <=> status[j] = "new"
    /\ at[j] \in {"pending", "taken"} <=> status[j] = "queued"
    /\ at[j] = "ended" <=> status[j] \in {"done", "error"}
    /\ at[j] \in Indexing \cup {"listing", "closing"} => Ingests(j)
    /\ at[j] \in Enriching => Ingests(j) \/ mode[j] = "enrichment"

(* The FIFO holds each waiting job once. *)
Fifo ==
  /\ \A i \in 1..Len(pending) : at[pending[i]] = "pending"
  /\ \A i, k \in 1..Len(pending) : i # k => pending[i] # pending[k]

(* Documents are never deleted: what a listing showed is still listed, and a *)
(* thread that is about to write a document back has one in hand.            *)
Documents ==
  \A j \in Jobs :
    /\ before[j] \subseteq Listed
    /\ after[j] \subseteq Listed
    /\ added[j] \subseteq Listed
    /\ mode[j] = "enrichment" \/ at[j] \in Enriching => todo[j] \subseteq Listed
    /\ at[j] \in {"fetching", "embedding", "summarising"} => video[j] \in todo[j]
    /\ at[j] = "stamping" => video[j] \in Videos
    /\ at[j] \in {"embedding", "summarising", "stamping"} => copy[j] \in Document

(* Claims are recorded in attributed, and a job that claimed is past the     *)
(* only steps that can fail an ingest.                                       *)
Claims ==
  /\ \A j \in Jobs :
       /\ claimed[j] \subseteq attributed
       /\ claimed[j] # {} => /\ at[j] \in AfterClaim
                             /\ at[j] = "graph" => hasGraph
                             /\ Ingests(j)
                             /\ status[j] # "error"
  /\ ClaimsAreDisjoint

(* What an ingest added lies in its window and, for a video job, is its      *)
(* target; once it has claimed, somebody has.                                *)
Additions ==
  \A j \in Jobs :
    /\ at[j] \in {"idle", "pending", "taken", "listing", "polling"} => added[j] = {}
    /\ at[j] \in Indexing => added[j] \cap before[j] = {}
    /\ at[j] = "claiming" /\ after[j] # {} => added[j] \subseteq after[j]
    /\ target[j] # NoVideo /\ at[j] \notin AfterClaim =>
         todo[j] \subseteq {target[j]} /\ added[j] \subseteq {target[j]}
    /\ at[j] \in AfterClaim /\ status[j] # "error" /\ after[j] # {} =>
         added[j] \subseteq attributed

IInv == /\ TypeOK
        /\ Control
        /\ Fifo
        /\ Documents
        /\ Claims
        /\ Additions

-----------------------------------------------------------------------------
(* Types *)

LEMMA InitTypes == Init => TypeOK
  <1> SUFFICES ASSUME Init PROVE TypeOK OBVIOUS
  <1> USE DEF Init, TypeOK, Document, Status, Steps
  <1>1. chunks \in SUBSET Videos /\ entities \in SUBSET Videos
    OBVIOUS
  <1>2. doc \in [Videos -> Document \cup {NoDocument}]
    OBVIOUS
  <1>3. pending \in Seq(Jobs)
    OBVIOUS
  <1> QED BY <1>1, <1>2, <1>3

(* Whatever is enqueued, a Put with a mode, a target and some videos is all  *)
(* that happens; for an enrichment job the videos are listed ones.           *)
LEMMA EnqueueIsPut ==
  ASSUME NEW j \in Jobs, Enqueue(j)
  PROVE  \E m \in Modes, t \in Videos \cup {NoVideo}, S \in SUBSET Videos :
            /\ Put(j, m, t, S)
            /\ m = "enrichment" => S \subseteq Listed
            /\ t # NoVideo => S = {t}
  <1>1. CASE EnqueueVideo(j)
    <2>1. PICK v \in Videos : \E t \in {v, NoVideo} : Put(j, "video", t, {v})
      BY <1>1 DEF EnqueueVideo
    <2>2. PICK t \in {v, NoVideo} : Put(j, "video", t, {v})
      BY <2>1
    <2>3. "video" \in Modes
      BY <2>2 DEF Put
    <2>4. t # NoVideo => {v} = {t}
      OBVIOUS
    <2>5. t \in Videos \cup {NoVideo}
      OBVIOUS
    <2>6. "video" # "enrichment"
      OBVIOUS
    <2> WITNESS "video" \in Modes, t \in Videos \cup {NoVideo}, {v} \in SUBSET Videos
    <2> QED BY <2>2, <2>4, <2>6
  <1>2. CASE EnqueueChannel(j)
    <2>1. PICK S \in SUBSET Videos : Put(j, "channel", NoVideo, S)
      BY <1>2 DEF EnqueueChannel
    <2>2. "channel" \in Modes
      BY <2>1 DEF Put
    <2>3. "channel" # "enrichment"
      OBVIOUS
    <2> WITNESS "channel" \in Modes, NoVideo \in Videos \cup {NoVideo}, S \in SUBSET Videos
    <2> QED BY <2>1, <2>3
  <1>3. CASE EnqueueEnrichment(j)
    <2>1. PICK S \in SUBSET {v \in Listed : doc[v].graph # "done"} :
             Put(j, "enrichment", NoVideo, S)
      BY <1>3 DEF EnqueueEnrichment
    <2>2. S \subseteq Listed /\ S \subseteq Videos
      BY DEF Listed
    <2>3. "enrichment" \in Modes
      BY <2>1 DEF Put
    <2>4. S \in SUBSET Videos
      BY <2>2
    <2> WITNESS "enrichment" \in Modes, NoVideo \in Videos \cup {NoVideo}, S \in SUBSET Videos
    <2> QED BY <2>1, <2>2
  <1>4. CASE EnqueueChannels(j)
    <2>1. Put(j, "channels", NoVideo, {})
      BY <1>4 DEF EnqueueChannels
    <2>2. "channels" \in Modes
      BY <2>1 DEF Put
    <2>3. "channels" # "enrichment"
      OBVIOUS
    <2> WITNESS "channels" \in Modes, NoVideo \in Videos \cup {NoVideo}, {} \in SUBSET Videos
    <2> QED BY <2>1, <2>3
  <1> QED BY <1>1, <1>2, <1>3, <1>4 DEF Enqueue

LEMMA HeadIsJob ==
  ASSUME TypeOK, pending # <<>>
  PROVE  /\ Head(pending) \in Jobs
         /\ Tail(pending) \in Seq(Jobs)
         /\ Len(pending) \in Nat /\ Len(pending) # 0
         /\ Head(pending) = pending[1]
         /\ Len(Tail(pending)) = Len(pending) - 1
         /\ \A i \in 1..Len(pending) - 1 : Tail(pending)[i] = pending[i + 1]
  BY HeadTailProperties, EmptySeq DEF TypeOK

LEMMA DocumentUpdate ==
  ASSUME NEW d \in Document, NEW s \in {"pending", "done", "failed"}
  PROVE  /\ [d EXCEPT !.summary = s] \in Document
         /\ [d EXCEPT !.graph = s] \in Document
  BY DEF Document

LEMMA ListedSubset == Listed \subseteq Videos /\ \A L \in Listings : L \subseteq Listed
  BY DEF Listed, Listings

LEMMA EndTypes ==
  ASSUME TypeOK, NEW w \in Workers, NEW j \in Jobs, NEW s \in Status, End(w, j, s),
         UNCHANGED report
  PROVE  TypeOK'
  BY DEF TypeOK, End, Drop, storeVars, historyVars, Steps

LEMMA TypeStep == ASSUME IInv, Next PROVE TypeOK'
  <1> USE DEF IInv, TypeOK, storeVars, historyVars, Drop
  <1>1. ASSUME NEW j \in Jobs, Enqueue(j) PROVE TypeOK'
    <2>1. PICK m \in Modes, t \in Videos \cup {NoVideo}, S \in SUBSET Videos : Put(j, m, t, S)
      BY <1>1, EnqueueIsPut
    <2>2. pending' \in Seq(Jobs)
      BY <2>1, AppendProperties DEF Put
    <2> QED BY <2>1, <2>2 DEF Put, Status, Steps
  <1>2. ASSUME NEW w \in Workers, Take(w) PROVE TypeOK'
    BY <1>2, HeadIsJob DEF Take, Steps
  <1>3. ASSUME NEW w \in Workers, NEW j \in Jobs, Start(w, j) PROVE TypeOK'
    BY <1>3 DEF Start, Step, FirstStep, Steps, Status
  <1>4. ASSUME NEW w \in Workers, NEW j \in Jobs, ListBefore(w, j) PROVE TypeOK'
    <2>1. PICK L \in Listings : before' = [before EXCEPT ![j] = L]
      BY <1>4 DEF ListBefore
    <2>2. L \in SUBSET Videos
      BY ListedSubset
    <2> QED BY <1>4, <2>1, <2>2 DEF ListBefore, Step, Steps
  <1>5. ASSUME NEW w \in Workers, NEW j \in Jobs, IndexSkip(w, j) PROVE TypeOK'
    BY <1>5 DEF IndexSkip, Step, Steps
  <1>6. ASSUME NEW w \in Workers, NEW j \in Jobs, IndexLook(w, j) PROVE TypeOK'
    BY <1>6 DEF IndexLook, Step, Steps
  <1>7. ASSUME NEW w \in Workers, NEW j \in Jobs, IndexFetch(w, j) PROVE TypeOK'
    <2>1. Fresh \in Document
      BY DEF Fresh, Document
    <2>2. copy' \in [Jobs -> Document \cup {NoDocument}]
      BY <1>7, <2>1 DEF IndexFetch
    <2>3. video[j] \in Videos
      BY <1>7 DEF IndexFetch, Step, Documents
    <2> QED BY <1>7, <2>2, <2>3 DEF IndexFetch, Step, Steps
  <1>8. ASSUME NEW w \in Workers, NEW j \in Jobs, IndexEmbed(w, j) PROVE TypeOK'
    <2>1. video[j] \in Videos
      BY <1>8 DEF IndexEmbed, Step, Documents
    <2> QED BY <1>8, <2>1 DEF IndexEmbed, Step, Steps
  <1>9. ASSUME NEW w \in Workers, NEW j \in Jobs, IndexSummarise(w, j) PROVE TypeOK'
    <2>1. copy[j] \in Document
      BY <1>9 DEF IndexSummarise, Step, Documents
    <2>2. doc' \in [Videos -> Document \cup {NoDocument}]
      <3>1. CASE copy[j].summary = "done"
        BY <1>9, <3>1 DEF IndexSummarise
      <3>2. CASE copy[j].summary # "done"
        <4>1. PICK s \in {"done", "failed"} :
                doc' = [doc EXCEPT ![video[j]] = [copy[j] EXCEPT !.summary = s]]
          BY <1>9, <3>2 DEF IndexSummarise
        <4>2. [copy[j] EXCEPT !.summary = s] \in Document
          BY <2>1, DocumentUpdate
        <4> QED BY <4>1, <4>2
      <3> QED BY <3>1, <3>2
    <2> QED BY <1>9, <2>2 DEF IndexSummarise, Step, Steps
  <1>10. ASSUME NEW w \in Workers, NEW j \in Jobs, IndexAbandon(w, j) PROVE TypeOK'
    BY <1>10 DEF IndexAbandon, Step, Steps
  <1>11. ASSUME NEW w \in Workers, NEW j \in Jobs, IndexFail(w, j) PROVE TypeOK'
    BY <1>11, EndTypes DEF IndexFail, Status
  <1>12. ASSUME NEW w \in Workers, NEW j \in Jobs, IndexExit(w, j) PROVE TypeOK'
    BY <1>12 DEF IndexExit, Step, Steps
  <1>13. ASSUME NEW w \in Workers, NEW j \in Jobs, ListAfter(w, j) PROVE TypeOK'
    <2>1. PICK L \in Listings : after' = [after EXCEPT ![j] = L]
      BY <1>13 DEF ListAfter
    <2>2. L \in SUBSET Videos
      BY ListedSubset
    <2> QED BY <1>13, <2>1, <2>2 DEF ListAfter, Step, Steps
  <1>14. ASSUME NEW w \in Workers, NEW j \in Jobs, Claim(w, j) PROVE TypeOK'
    <2>1. Claimable(j) \in SUBSET Videos
      BY DEF Claimable
    <2> QED BY <1>14, <2>1 DEF Claim, Step, Steps
  <1>15. ASSUME NEW w \in Workers, NEW j \in Jobs, Close(w, j) PROVE TypeOK'
    BY <1>15, EndTypes DEF Close, Status
  <1>16. ASSUME NEW w \in Workers, NEW j \in Jobs, NoExtractor(w, j) PROVE TypeOK'
    BY <1>16, EndTypes DEF NoExtractor, Status
  <1>17. ASSUME NEW w \in Workers, NEW j \in Jobs, GraphRead(w, j) PROVE TypeOK'
    BY <1>17 DEF GraphRead, Step, Steps
  <1>18. ASSUME NEW w \in Workers, NEW j \in Jobs, GraphExtract(w, j) PROVE TypeOK'
    BY <1>18 DEF GraphExtract, Step, Steps
  <1>19. ASSUME NEW w \in Workers, NEW j \in Jobs, GraphLook(w, j) PROVE TypeOK'
    BY <1>19 DEF GraphLook, Step, Steps
  <1>20. ASSUME NEW w \in Workers, NEW j \in Jobs, GraphMark(w, j) PROVE TypeOK'
    <2>1. copy[j] \in Document
      BY <1>20 DEF GraphMark, Step, Documents
    <2>2. doc' \in [Videos -> Document \cup {NoDocument}]
      BY <1>20, <2>1, DocumentUpdate DEF GraphMark, Verdict
    <2> QED BY <1>20, <2>2 DEF GraphMark, Step, Steps
  <1>21. ASSUME NEW w \in Workers, NEW j \in Jobs, GraphFootnote(w, j) PROVE TypeOK'
    BY <1>21 DEF GraphFootnote, Step, Steps
  <1>24. ASSUME NEW w \in Workers, NEW j \in Jobs, GraphVerdict(w, j) PROVE TypeOK'
    BY <1>24, EndTypes DEF GraphVerdict, Status
  <1>22. ASSUME NEW w \in Workers, NEW j \in Jobs, Poll(w, j) PROVE TypeOK'
    BY <1>22, EndTypes DEF Poll, Status
  <1>23. CASE Drained
    BY <1>23 DEF Drained, vars, queueVars, localVars
  <1> QED BY <1>1, <1>2, <1>3, <1>4, <1>5, <1>6, <1>7, <1>8, <1>9, <1>10, <1>11, <1>12, <1>13, <1>14, <1>15, <1>16, <1>17, <1>18, <1>19, <1>20, <1>21, <1>22, <1>23, <1>24 DEF Next, Work

-----------------------------------------------------------------------------
(* Control and the FIFO *)

LEMMA ControlStep == ASSUME IInv, Next PROVE Control'
  <1> USE DEF IInv, TypeOK, Control, Fifo, Ingests, Indexing, Enriching, Status, storeVars, historyVars
  <1>1. ASSUME NEW j \in Jobs, Enqueue(j) PROVE Control'
    <2>1. PICK m \in Modes, t \in Videos \cup {NoVideo}, S \in SUBSET Videos : Put(j, m, t, S)
      BY <1>1, EnqueueIsPut
    <2> QED BY <2>1 DEF Put
  <1>2. ASSUME NEW w \in Workers, Take(w) PROVE Control'
    BY <1>2, HeadIsJob DEF Take
  <1>3. ASSUME NEW w \in Workers, NEW j \in Jobs, Start(w, j) PROVE Control'
    BY <1>3 DEF Start, Step, FirstStep
  <1>4. ASSUME NEW w \in Workers, NEW j \in Jobs, ListBefore(w, j) PROVE Control'
    BY <1>4 DEF ListBefore, Step
  <1>5. ASSUME NEW w \in Workers, NEW j \in Jobs, IndexSkip(w, j) PROVE Control'
    BY <1>5 DEF IndexSkip, Step
  <1>6. ASSUME NEW w \in Workers, NEW j \in Jobs, IndexLook(w, j) PROVE Control'
    BY <1>6 DEF IndexLook, Step
  <1>7. ASSUME NEW w \in Workers, NEW j \in Jobs, IndexFetch(w, j) PROVE Control'
    BY <1>7 DEF IndexFetch, Step
  <1>8. ASSUME NEW w \in Workers, NEW j \in Jobs, IndexEmbed(w, j) PROVE Control'
    BY <1>8 DEF IndexEmbed, Step
  <1>9. ASSUME NEW w \in Workers, NEW j \in Jobs, IndexSummarise(w, j) PROVE Control'
    BY <1>9 DEF IndexSummarise, Step, Drop
  <1>10. ASSUME NEW w \in Workers, NEW j \in Jobs, IndexAbandon(w, j) PROVE Control'
    BY <1>10 DEF IndexAbandon, Step, Drop
  <1>11. ASSUME NEW w \in Workers, NEW j \in Jobs, IndexFail(w, j) PROVE Control'
    BY <1>11 DEF IndexFail, End, Drop
  <1>12. ASSUME NEW w \in Workers, NEW j \in Jobs, IndexExit(w, j) PROVE Control'
    BY <1>12 DEF IndexExit, Step
  <1>13. ASSUME NEW w \in Workers, NEW j \in Jobs, ListAfter(w, j) PROVE Control'
    BY <1>13 DEF ListAfter, Step
  <1>14. ASSUME NEW w \in Workers, NEW j \in Jobs, Claim(w, j) PROVE Control'
    BY <1>14 DEF Claim, Step
  <1>15. ASSUME NEW w \in Workers, NEW j \in Jobs, Close(w, j) PROVE Control'
    BY <1>15 DEF Close, End, Drop
  <1>16. ASSUME NEW w \in Workers, NEW j \in Jobs, NoExtractor(w, j) PROVE Control'
    BY <1>16 DEF NoExtractor, End, Drop
  <1>17. ASSUME NEW w \in Workers, NEW j \in Jobs, GraphRead(w, j) PROVE Control'
    BY <1>17 DEF GraphRead, Step
  <1>18. ASSUME NEW w \in Workers, NEW j \in Jobs, GraphExtract(w, j) PROVE Control'
    BY <1>18 DEF GraphExtract, Step
  <1>19. ASSUME NEW w \in Workers, NEW j \in Jobs, GraphLook(w, j) PROVE Control'
    BY <1>19 DEF GraphLook, Step
  <1>20. ASSUME NEW w \in Workers, NEW j \in Jobs, GraphMark(w, j) PROVE Control'
    BY <1>20 DEF GraphMark, Step, Drop
  <1>21. ASSUME NEW w \in Workers, NEW j \in Jobs, GraphFootnote(w, j) PROVE Control'
    BY <1>21 DEF GraphFootnote, Step
  <1>22. ASSUME NEW w \in Workers, NEW j \in Jobs, GraphVerdict(w, j) PROVE Control'
    BY <1>22 DEF GraphVerdict, End, Drop
  <1>23. ASSUME NEW w \in Workers, NEW j \in Jobs, Poll(w, j) PROVE Control'
    BY <1>23 DEF Poll, End, Drop
  <1>24. CASE Drained
    BY <1>24 DEF Drained, vars, queueVars, localVars, storeVars, historyVars
  <1> QED BY <1>1, <1>2, <1>3, <1>4, <1>5, <1>6, <1>7, <1>8, <1>9, <1>10, <1>11,
              <1>12, <1>13, <1>14, <1>15, <1>16, <1>17, <1>18, <1>19, <1>20, <1>21,
              <1>22, <1>23, <1>24 DEF Next, Work

LEMMA FifoStep == ASSUME IInv, Next PROVE Fifo'
  <1> USE DEF IInv, TypeOK, Control, Fifo, storeVars, historyVars
  <1>1. ASSUME NEW j \in Jobs, Enqueue(j) PROVE Fifo'
    <2>1. PICK m \in Modes, t \in Videos \cup {NoVideo}, S \in SUBSET Videos : Put(j, m, t, S)
      BY <1>1, EnqueueIsPut
    <2>2. /\ Len(pending') = Len(pending) + 1
          /\ \A i \in 1..Len(pending) : pending'[i] = pending[i]
          /\ pending'[Len(pending) + 1] = j
          /\ Len(pending) \in Nat
          /\ \A i \in 1..Len(pending) : pending[i] \in Jobs
      BY <2>1, AppendProperties, LenProperties, ElementOfSeq DEF Put
    <2>3. at' = [at EXCEPT ![j] = "pending"] /\ at[j] = "idle"
      BY <2>1 DEF Put
    <2>4. \A i \in 1..Len(pending) : pending[i] # j
      BY <2>3
    <2>5. \A i \in 1..Len(pending') : i \in 1..Len(pending) \/ i = Len(pending) + 1
      BY <2>2
    <2>6. \A i \in 1..Len(pending') : at'[pending'[i]] = "pending"
      BY <2>2, <2>3, <2>4, <2>5
    <2>7. ASSUME NEW i \in 1..Len(pending'), NEW k \in 1..Len(pending'), i # k
          PROVE pending'[i] # pending'[k]
      <3>1. CASE i \in 1..Len(pending) /\ k \in 1..Len(pending)
        <4>1. pending[i] # pending[k]
          BY <2>7, <3>1
        <4>2. pending'[i] = pending[i] /\ pending'[k] = pending[k]
          BY <2>2, <3>1
        <4> QED BY <4>1, <4>2
      <3>2. CASE i \in 1..Len(pending) /\ k = Len(pending) + 1
        BY <2>2, <2>4, <3>2
      <3>3. CASE i = Len(pending) + 1 /\ k \in 1..Len(pending)
        BY <2>2, <2>4, <3>3
      <3> QED BY <2>5, <2>7, <3>1, <3>2, <3>3
    <2> QED BY <2>6, <2>7
  <1>2. ASSUME NEW w \in Workers, Take(w) PROVE Fifo'
    <2>1. /\ \A i \in 1..Len(pending) : pending[i] \in Jobs
          /\ at' = [at EXCEPT ![pending[1]] = "taken"]
          /\ pending' = Tail(pending)
      BY <1>2, HeadIsJob, ElementOfSeq DEF Take
    <2> QED BY <1>2, <2>1, HeadIsJob DEF Take
  <1>3. ASSUME NEW w \in Workers, NEW j \in Jobs, Start(w, j) PROVE Fifo'
    BY <1>3, ElementOfSeq, LenProperties DEF Start, Step
  <1>4. ASSUME NEW w \in Workers, NEW j \in Jobs, ListBefore(w, j) PROVE Fifo'
    BY <1>4, ElementOfSeq, LenProperties DEF ListBefore, Step
  <1>5. ASSUME NEW w \in Workers, NEW j \in Jobs, IndexSkip(w, j) PROVE Fifo'
    BY <1>5, ElementOfSeq, LenProperties DEF IndexSkip, Step
  <1>6. ASSUME NEW w \in Workers, NEW j \in Jobs, IndexLook(w, j) PROVE Fifo'
    BY <1>6, ElementOfSeq, LenProperties DEF IndexLook, Step
  <1>7. ASSUME NEW w \in Workers, NEW j \in Jobs, IndexFetch(w, j) PROVE Fifo'
    BY <1>7, ElementOfSeq, LenProperties DEF IndexFetch, Step
  <1>8. ASSUME NEW w \in Workers, NEW j \in Jobs, IndexEmbed(w, j) PROVE Fifo'
    BY <1>8, ElementOfSeq, LenProperties DEF IndexEmbed, Step
  <1>9. ASSUME NEW w \in Workers, NEW j \in Jobs, IndexSummarise(w, j) PROVE Fifo'
    BY <1>9, ElementOfSeq, LenProperties DEF IndexSummarise, Step, Drop
  <1>10. ASSUME NEW w \in Workers, NEW j \in Jobs, IndexAbandon(w, j) PROVE Fifo'
    BY <1>10, ElementOfSeq, LenProperties DEF IndexAbandon, Step, Drop
  <1>11. ASSUME NEW w \in Workers, NEW j \in Jobs, IndexFail(w, j) PROVE Fifo'
    BY <1>11, ElementOfSeq, LenProperties DEF IndexFail, End, Drop
  <1>12. ASSUME NEW w \in Workers, NEW j \in Jobs, IndexExit(w, j) PROVE Fifo'
    BY <1>12, ElementOfSeq, LenProperties DEF IndexExit, Step
  <1>13. ASSUME NEW w \in Workers, NEW j \in Jobs, ListAfter(w, j) PROVE Fifo'
    BY <1>13, ElementOfSeq, LenProperties DEF ListAfter, Step
  <1>14. ASSUME NEW w \in Workers, NEW j \in Jobs, Claim(w, j) PROVE Fifo'
    BY <1>14, ElementOfSeq, LenProperties DEF Claim, Step
  <1>15. ASSUME NEW w \in Workers, NEW j \in Jobs, Close(w, j) PROVE Fifo'
    BY <1>15, ElementOfSeq, LenProperties DEF Close, End, Drop
  <1>16. ASSUME NEW w \in Workers, NEW j \in Jobs, NoExtractor(w, j) PROVE Fifo'
    BY <1>16, ElementOfSeq, LenProperties DEF NoExtractor, End, Drop
  <1>17. ASSUME NEW w \in Workers, NEW j \in Jobs, GraphRead(w, j) PROVE Fifo'
    BY <1>17, ElementOfSeq, LenProperties DEF GraphRead, Step
  <1>18. ASSUME NEW w \in Workers, NEW j \in Jobs, GraphExtract(w, j) PROVE Fifo'
    BY <1>18, ElementOfSeq, LenProperties DEF GraphExtract, Step
  <1>19. ASSUME NEW w \in Workers, NEW j \in Jobs, GraphLook(w, j) PROVE Fifo'
    BY <1>19, ElementOfSeq, LenProperties DEF GraphLook, Step
  <1>20. ASSUME NEW w \in Workers, NEW j \in Jobs, GraphMark(w, j) PROVE Fifo'
    BY <1>20, ElementOfSeq, LenProperties DEF GraphMark, Step, Drop
  <1>21. ASSUME NEW w \in Workers, NEW j \in Jobs, GraphFootnote(w, j) PROVE Fifo'
    BY <1>21, ElementOfSeq, LenProperties DEF GraphFootnote, Step
  <1>22. ASSUME NEW w \in Workers, NEW j \in Jobs, GraphVerdict(w, j) PROVE Fifo'
    BY <1>22, ElementOfSeq, LenProperties DEF GraphVerdict, End, Drop
  <1>23. ASSUME NEW w \in Workers, NEW j \in Jobs, Poll(w, j) PROVE Fifo'
    BY <1>23, ElementOfSeq, LenProperties DEF Poll, End, Drop
  <1>24. CASE Drained
    BY <1>24 DEF Drained, vars, queueVars, localVars, storeVars, historyVars
  <1> QED BY <1>1, <1>2, <1>3, <1>4, <1>5, <1>6, <1>7, <1>8, <1>9, <1>10, <1>11,
              <1>12, <1>13, <1>14, <1>15, <1>16, <1>17, <1>18, <1>19, <1>20, <1>21,
              <1>22, <1>23, <1>24 DEF Next, Work

-----------------------------------------------------------------------------
(* Documents, claims and additions *)

(* No step deletes a document. *)

LEMMA ListedGrows == ASSUME IInv, Next PROVE (Listed \subseteq Listed')
  <1> USE DEF IInv, TypeOK, Documents, Listed, storeVars, historyVars
  <1>1. ASSUME NEW j \in Jobs, Enqueue(j) PROVE (Listed \subseteq Listed')
    <2>1. PICK m \in Modes, t \in Videos \cup {NoVideo}, S \in SUBSET Videos :
             /\ Put(j, m, t, S)
      BY <1>1, EnqueueIsPut
    <2> QED BY <2>1 DEF Put
  <1>2. ASSUME NEW w \in Workers, Take(w) PROVE (Listed \subseteq Listed')
    BY <1>2 DEF Take
  <1>3. ASSUME NEW w \in Workers, NEW j \in Jobs, Start(w, j) PROVE (Listed \subseteq Listed')
    BY <1>3 DEF Start, Step
  <1>4. ASSUME NEW w \in Workers, NEW j \in Jobs, ListBefore(w, j) PROVE (Listed \subseteq Listed')
    BY <1>4 DEF ListBefore, Step
  <1>5. ASSUME NEW w \in Workers, NEW j \in Jobs, IndexSkip(w, j) PROVE (Listed \subseteq Listed')
    BY <1>5 DEF IndexSkip, Step
  <1>6. ASSUME NEW w \in Workers, NEW j \in Jobs, IndexLook(w, j) PROVE (Listed \subseteq Listed')
    BY <1>6 DEF IndexLook, Step
  <1>7. ASSUME NEW w \in Workers, NEW j \in Jobs, IndexFetch(w, j) PROVE (Listed \subseteq Listed')
    <2>1. copy'[j] # NoDocument
      BY <1>7, NoDocumentAssumption DEF IndexFetch, Fresh, Document
    <2> QED BY <1>7, <2>1 DEF IndexFetch, Step
  <1>8. ASSUME NEW w \in Workers, NEW j \in Jobs, IndexEmbed(w, j) PROVE (Listed \subseteq Listed')
    BY <1>8 DEF IndexEmbed, Step
  <1>9. ASSUME NEW w \in Workers, NEW j \in Jobs, IndexSummarise(w, j) PROVE (Listed \subseteq Listed')
    <2>1. copy[j] \in Document
      BY <1>9 DEF IndexSummarise, Step
    <2>2. ASSUME NEW s \in {"done", "failed"},
                 doc' = [doc EXCEPT ![video[j]] = [copy[j] EXCEPT !.summary = s]]
          PROVE  Listed \subseteq Listed'
      <3>1. [copy[j] EXCEPT !.summary = s] \in Document
        BY <2>1, DocumentUpdate
      <3> DEFINE d == [copy[j] EXCEPT !.summary = s]
      <3> HIDE DEF d
      <3>2. d # NoDocument
        BY <3>1, NoDocumentAssumption DEF d
      <3>3. doc' = [doc EXCEPT ![video[j]] = d]
        BY <2>2 DEF d
      <3> QED BY <3>2, <3>3
    <2> QED BY <1>9, <2>2 DEF IndexSummarise, Step
  <1>10. ASSUME NEW w \in Workers, NEW j \in Jobs, IndexAbandon(w, j) PROVE (Listed \subseteq Listed')
    BY <1>10 DEF IndexAbandon, Step, Drop
  <1>11. ASSUME NEW w \in Workers, NEW j \in Jobs, IndexFail(w, j) PROVE (Listed \subseteq Listed')
    BY <1>11 DEF IndexFail, End, Drop
  <1>12. ASSUME NEW w \in Workers, NEW j \in Jobs, IndexExit(w, j) PROVE (Listed \subseteq Listed')
    BY <1>12 DEF IndexExit, Step
  <1>13. ASSUME NEW w \in Workers, NEW j \in Jobs, ListAfter(w, j) PROVE (Listed \subseteq Listed')
    BY <1>13 DEF ListAfter, Step
  <1>14. ASSUME NEW w \in Workers, NEW j \in Jobs, Claim(w, j) PROVE (Listed \subseteq Listed')
    BY <1>14 DEF Claim, Step
  <1>15. ASSUME NEW w \in Workers, NEW j \in Jobs, Close(w, j) PROVE (Listed \subseteq Listed')
    BY <1>15 DEF Close, End, Drop
  <1>16. ASSUME NEW w \in Workers, NEW j \in Jobs, NoExtractor(w, j) PROVE (Listed \subseteq Listed')
    BY <1>16 DEF NoExtractor, End, Drop
  <1>17. ASSUME NEW w \in Workers, NEW j \in Jobs, GraphRead(w, j) PROVE (Listed \subseteq Listed')
    BY <1>17 DEF GraphRead, Step
  <1>18. ASSUME NEW w \in Workers, NEW j \in Jobs, GraphExtract(w, j) PROVE (Listed \subseteq Listed')
    BY <1>18 DEF GraphExtract, Step
  <1>19. ASSUME NEW w \in Workers, NEW j \in Jobs, GraphLook(w, j) PROVE (Listed \subseteq Listed')
    BY <1>19 DEF GraphLook, Step
  <1>20. ASSUME NEW w \in Workers, NEW j \in Jobs, GraphMark(w, j) PROVE (Listed \subseteq Listed')
    <2>1. copy[j] \in Document
      BY <1>20 DEF GraphMark, Step
    <2>2. Verdict(j) \in {"pending", "done", "failed"}
      BY DEF Verdict
    <2>3. [copy[j] EXCEPT !.graph = Verdict(j)] \in Document
      BY <2>1, <2>2, DocumentUpdate
    <2> DEFINE d == [copy[j] EXCEPT !.graph = Verdict(j)]
    <2> HIDE DEF d
    <2>4. d # NoDocument
      BY <2>3, NoDocumentAssumption DEF d
    <2>5. doc' = [doc EXCEPT ![video[j]] = d]
      BY <1>20 DEF GraphMark, d
    <2> QED BY <2>4, <2>5
  <1>21. ASSUME NEW w \in Workers, NEW j \in Jobs, GraphFootnote(w, j) PROVE (Listed \subseteq Listed')
    BY <1>21 DEF GraphFootnote, Step
  <1>22. ASSUME NEW w \in Workers, NEW j \in Jobs, GraphVerdict(w, j) PROVE (Listed \subseteq Listed')
    BY <1>22 DEF GraphVerdict, End, Drop
  <1>23. ASSUME NEW w \in Workers, NEW j \in Jobs, Poll(w, j) PROVE (Listed \subseteq Listed')
    BY <1>23 DEF Poll, End, Drop
  <1>24. CASE Drained
    BY <1>24 DEF Drained, vars, queueVars, localVars, storeVars, historyVars
  <1> QED BY <1>1, <1>2, <1>3, <1>4, <1>5, <1>6, <1>7, <1>8, <1>9, <1>10, <1>11,
              <1>12, <1>13, <1>14, <1>15, <1>16, <1>17, <1>18, <1>19, <1>20, <1>21,
              <1>22, <1>23, <1>24 DEF Next, Work

(* What a look-up takes in hand. *)
LEMMA LookPicks ==
  ASSUME NEW w, NEW j, IndexLook(w, j)
  PROVE  \E v \in todo[j], to \in {"fetching", "embedding"} :
            /\ Step(w, j, "indexing", to)
            /\ to = "embedding" => v \in Listed
            /\ video' = [video EXCEPT ![j] = v]
            /\ copy' = [copy EXCEPT ![j] = doc[v]]
  BY Zenon DEF IndexLook

LEMMA DocumentsStep == ASSUME IInv, Next PROVE Documents'
  <1> USE DEF IInv, TypeOK, Control, Documents, Enriching, Indexing, Ingests, Status, storeVars, historyVars
  <1>1. ASSUME NEW j \in Jobs, Enqueue(j) PROVE Documents'
    <2>1. PICK m \in Modes, t \in Videos \cup {NoVideo}, S \in SUBSET Videos :
             /\ Put(j, m, t, S)
             /\ m = "enrichment" => S \subseteq Listed
             /\ t # NoVideo => S = {t}
      BY <1>1, EnqueueIsPut
    <2> QED BY <2>1, ListedGrows DEF Put
  <1>2. ASSUME NEW w \in Workers, Take(w) PROVE Documents'
    <2>1. Head(pending) \in Jobs /\ at[Head(pending)] = "pending"
      BY <1>2, HeadIsJob DEF Take, Fifo
    <2> QED BY <1>2, <2>1, ListedGrows DEF Take
  <1>3. ASSUME NEW w \in Workers, NEW j \in Jobs, Start(w, j) PROVE Documents'
    BY <1>3, ListedGrows DEF Start, Step, FirstStep
  <1>4. ASSUME NEW w \in Workers, NEW j \in Jobs, ListBefore(w, j) PROVE Documents'
    BY <1>4, ListedGrows, ListedSubset DEF ListBefore, Step
  <1>5. ASSUME NEW w \in Workers, NEW j \in Jobs, IndexSkip(w, j) PROVE Documents'
    BY <1>5, ListedGrows DEF IndexSkip, Step
  <1>6. ASSUME NEW w \in Workers, NEW j \in Jobs, IndexLook(w, j) PROVE Documents'
    <2>1. PICK v \in todo[j], to \in {"fetching", "embedding"} :
             /\ Step(w, j, "indexing", to)
             /\ to = "embedding" => v \in Listed
             /\ video' = [video EXCEPT ![j] = v]
             /\ copy' = [copy EXCEPT ![j] = doc[v]]
      BY <1>6, LookPicks
    <2>2. to = "embedding" => doc[v] \in Document
      BY <2>1 DEF Listed
    <2>3. /\ at' = [at EXCEPT ![j] = to]
          /\ UNCHANGED <<mode, todo, before, after, added>>
      BY <1>6, <2>1 DEF IndexLook, Step
    <2>4. /\ at'[j] = to /\ video'[j] = v /\ copy'[j] = doc[v]
          /\ \A k \in Jobs \ {j} :
                at'[k] = at[k] /\ video'[k] = video[k] /\ copy'[k] = copy[k]
          /\ at[j] = "indexing"
      BY <2>1, <2>3 DEF Step
    <2>5. v \in todo'[j]
      BY <2>1, <2>3
    <2> QED BY <2>1, <2>2, <2>3, <2>4, <2>5, ListedGrows
  <1>7. ASSUME NEW w \in Workers, NEW j \in Jobs, IndexFetch(w, j) PROVE Documents'
    <2>1. copy'[j] \in Document
      BY <1>7 DEF IndexFetch, Fresh, Document
    <2>2. video[j] \in Videos
      BY <1>7 DEF IndexFetch, Step
    <2>3. video[j] \in Listed'
      BY <1>7, <2>1, <2>2, NoDocumentAssumption DEF IndexFetch, Listed
    <2> QED BY <1>7, <2>1, <2>3, ListedGrows DEF IndexFetch, Step
  <1>8. ASSUME NEW w \in Workers, NEW j \in Jobs, IndexEmbed(w, j) PROVE Documents'
    BY <1>8, ListedGrows DEF IndexEmbed, Step
  <1>9. ASSUME NEW w \in Workers, NEW j \in Jobs, IndexSummarise(w, j) PROVE Documents'
    BY <1>9, ListedGrows DEF IndexSummarise, Step, Drop
  <1>10. ASSUME NEW w \in Workers, NEW j \in Jobs, IndexAbandon(w, j) PROVE Documents'
    BY <1>10, ListedGrows DEF IndexAbandon, Step, Drop
  <1>11. ASSUME NEW w \in Workers, NEW j \in Jobs, IndexFail(w, j) PROVE Documents'
    BY <1>11, ListedGrows DEF IndexFail, End, Drop
  <1>12. ASSUME NEW w \in Workers, NEW j \in Jobs, IndexExit(w, j) PROVE Documents'
    BY <1>12, ListedGrows DEF IndexExit, Step
  <1>13. ASSUME NEW w \in Workers, NEW j \in Jobs, ListAfter(w, j) PROVE Documents'
    BY <1>13, ListedGrows, ListedSubset DEF ListAfter, Step
  <1>14. ASSUME NEW w \in Workers, NEW j \in Jobs, Claim(w, j) PROVE Documents'
    <2>1. Claimable(j) \subseteq Listed
      BY DEF Claimable
    <2> QED BY <1>14, <2>1, ListedGrows DEF Claim, Step
  <1>15. ASSUME NEW w \in Workers, NEW j \in Jobs, Close(w, j) PROVE Documents'
    BY <1>15, ListedGrows DEF Close, End, Drop
  <1>16. ASSUME NEW w \in Workers, NEW j \in Jobs, NoExtractor(w, j) PROVE Documents'
    BY <1>16, ListedGrows DEF NoExtractor, End, Drop
  <1>17. ASSUME NEW w \in Workers, NEW j \in Jobs, GraphRead(w, j) PROVE Documents'
    BY <1>17, ListedGrows DEF GraphRead, Step
  <1>18. ASSUME NEW w \in Workers, NEW j \in Jobs, GraphExtract(w, j) PROVE Documents'
    BY <1>18, ListedGrows DEF GraphExtract, Step
  <1>19. ASSUME NEW w \in Workers, NEW j \in Jobs, GraphLook(w, j) PROVE Documents'
    <2>1. \A v \in todo[j] : v \in Videos /\ doc[v] \in Document
      BY <1>19 DEF GraphLook, Step, Listed
    <2> QED BY <1>19, <2>1, ListedGrows DEF GraphLook, Step
  <1>20. ASSUME NEW w \in Workers, NEW j \in Jobs, GraphMark(w, j) PROVE Documents'
    BY <1>20, ListedGrows DEF GraphMark, Step, Drop
  <1>21. ASSUME NEW w \in Workers, NEW j \in Jobs, GraphFootnote(w, j) PROVE Documents'
    BY <1>21, ListedGrows DEF GraphFootnote, Step
  <1>22. ASSUME NEW w \in Workers, NEW j \in Jobs, GraphVerdict(w, j) PROVE Documents'
    BY <1>22, ListedGrows DEF GraphVerdict, End, Drop
  <1>23. ASSUME NEW w \in Workers, NEW j \in Jobs, Poll(w, j) PROVE Documents'
    BY <1>23, ListedGrows DEF Poll, End, Drop
  <1>24. CASE Drained
    BY <1>24, ListedGrows DEF Drained, vars, queueVars, localVars, storeVars, historyVars
  <1> QED BY <1>1, <1>2, <1>3, <1>4, <1>5, <1>6, <1>7, <1>8, <1>9, <1>10, <1>11,
              <1>12, <1>13, <1>14, <1>15, <1>16, <1>17, <1>18, <1>19, <1>20, <1>21,
              <1>22, <1>23, <1>24 DEF Next, Work

LEMMA ClaimsStep == ASSUME IInv, Next PROVE Claims'
  <1> USE DEF IInv, TypeOK, Control, Claims, ClaimsAreDisjoint, AfterClaim, Enriching, Indexing, Ingests, Status, storeVars, historyVars
  <1>1. ASSUME NEW j \in Jobs, Enqueue(j) PROVE Claims'
    <2>1. PICK m \in Modes, t \in Videos \cup {NoVideo}, S \in SUBSET Videos :
             /\ Put(j, m, t, S)
             /\ m = "enrichment" => S \subseteq Listed
             /\ t # NoVideo => S = {t}
      BY <1>1, EnqueueIsPut
    <2> QED BY <2>1 DEF Put
  <1>2. ASSUME NEW w \in Workers, Take(w) PROVE Claims'
    <2>1. Head(pending) \in Jobs /\ at[Head(pending)] = "pending"
      BY <1>2, HeadIsJob DEF Take, Fifo
    <2> QED BY <1>2, <2>1 DEF Take
  <1>3. ASSUME NEW w \in Workers, NEW j \in Jobs, Start(w, j) PROVE Claims'
    BY <1>3 DEF Start, Step, FirstStep
  <1>4. ASSUME NEW w \in Workers, NEW j \in Jobs, ListBefore(w, j) PROVE Claims'
    BY <1>4 DEF ListBefore, Step
  <1>5. ASSUME NEW w \in Workers, NEW j \in Jobs, IndexSkip(w, j) PROVE Claims'
    BY <1>5 DEF IndexSkip, Step
  <1>6. ASSUME NEW w \in Workers, NEW j \in Jobs, IndexLook(w, j) PROVE Claims'
    BY <1>6 DEF IndexLook, Step
  <1>7. ASSUME NEW w \in Workers, NEW j \in Jobs, IndexFetch(w, j) PROVE Claims'
    BY <1>7 DEF IndexFetch, Step
  <1>8. ASSUME NEW w \in Workers, NEW j \in Jobs, IndexEmbed(w, j) PROVE Claims'
    BY <1>8 DEF IndexEmbed, Step
  <1>9. ASSUME NEW w \in Workers, NEW j \in Jobs, IndexSummarise(w, j) PROVE Claims'
    BY <1>9 DEF IndexSummarise, Step, Drop
  <1>10. ASSUME NEW w \in Workers, NEW j \in Jobs, IndexAbandon(w, j) PROVE Claims'
    BY <1>10 DEF IndexAbandon, Step, Drop
  <1>11. ASSUME NEW w \in Workers, NEW j \in Jobs, IndexFail(w, j) PROVE Claims'
    BY <1>11 DEF IndexFail, End, Drop
  <1>12. ASSUME NEW w \in Workers, NEW j \in Jobs, IndexExit(w, j) PROVE Claims'
    BY <1>12 DEF IndexExit, Step
  <1>13. ASSUME NEW w \in Workers, NEW j \in Jobs, ListAfter(w, j) PROVE Claims'
    BY <1>13 DEF ListAfter, Step
  <1>14. ASSUME NEW w \in Workers, NEW j \in Jobs, Claim(w, j) PROVE Claims'
    <2>1. Claimable(j) \cap attributed = {}
      BY DEF Claimable
    <2>2. Ingests(j) /\ status[j] = "running"
      BY <1>14 DEF Claim, Step
    <2>3. ClaimsAreDisjoint'
      BY <1>14, <2>1 DEF Claim
    <2> QED BY <1>14, <2>2, <2>3 DEF Claim, Step
  <1>15. ASSUME NEW w \in Workers, NEW j \in Jobs, Close(w, j) PROVE Claims'
    BY <1>15 DEF Close, End, Drop
  <1>16. ASSUME NEW w \in Workers, NEW j \in Jobs, NoExtractor(w, j) PROVE Claims'
    BY <1>16 DEF NoExtractor, End, Drop
  <1>17. ASSUME NEW w \in Workers, NEW j \in Jobs, GraphRead(w, j) PROVE Claims'
    BY <1>17 DEF GraphRead, Step
  <1>18. ASSUME NEW w \in Workers, NEW j \in Jobs, GraphExtract(w, j) PROVE Claims'
    BY <1>18 DEF GraphExtract, Step
  <1>19. ASSUME NEW w \in Workers, NEW j \in Jobs, GraphLook(w, j) PROVE Claims'
    BY <1>19 DEF GraphLook, Step
  <1>20. ASSUME NEW w \in Workers, NEW j \in Jobs, GraphMark(w, j) PROVE Claims'
    BY <1>20 DEF GraphMark, Step, Drop
  <1>21. ASSUME NEW w \in Workers, NEW j \in Jobs, GraphFootnote(w, j) PROVE Claims'
    BY <1>21 DEF GraphFootnote, Step
  <1>22. ASSUME NEW w \in Workers, NEW j \in Jobs, GraphVerdict(w, j) PROVE Claims'
    BY <1>22 DEF GraphVerdict, End, Drop
  <1>23. ASSUME NEW w \in Workers, NEW j \in Jobs, Poll(w, j) PROVE Claims'
    BY <1>23 DEF Poll, End, Drop
  <1>24. CASE Drained
    BY <1>24 DEF Drained, vars, queueVars, localVars, storeVars, historyVars
  <1> QED BY <1>1, <1>2, <1>3, <1>4, <1>5, <1>6, <1>7, <1>8, <1>9, <1>10, <1>11,
              <1>12, <1>13, <1>14, <1>15, <1>16, <1>17, <1>18, <1>19, <1>20, <1>21,
              <1>22, <1>23, <1>24 DEF Next, Work

(* A step of one job that adds nothing and changes no listing keeps          *)
(* Additions, as long as the job stays on its side of the claim.             *)
LEMMA AdditionsKept ==
  ASSUME Additions, NEW j \in Jobs,
         DOMAIN at = Jobs, DOMAIN todo = Jobs,
         at' = [at EXCEPT ![j] = at'[j]],
         todo' = [todo EXCEPT ![j] = todo'[j]],
         todo'[j] \subseteq todo[j],
         UNCHANGED <<added, before, after, attributed, status, target>>,
         \/ at[j] \in Indexing /\ at'[j] \in Indexing \ {"claiming"}
         \/ at[j] \in AfterClaim /\ at'[j] \in AfterClaim
  PROVE  Additions'
  <1> SUFFICES ASSUME NEW k \in Jobs
               PROVE /\ at'[k] \in {"idle", "pending", "taken", "listing", "polling"} => added'[k] = {}
                     /\ at'[k] \in Indexing => added'[k] \cap before'[k] = {}
                     /\ at'[k] = "claiming" /\ after'[k] # {} => added'[k] \subseteq after'[k]
                     /\ target'[k] # NoVideo /\ at'[k] \notin AfterClaim =>
                          todo'[k] \subseteq {target'[k]} /\ added'[k] \subseteq {target'[k]}
                     /\ at'[k] \in AfterClaim /\ status'[k] # "error" /\ after'[k] # {} =>
                          added'[k] \subseteq attributed'
    BY DEF Additions
  <1>1. CASE k # j
    <2>1. at'[k] = at[k] /\ todo'[k] = todo[k]
      BY <1>1
    <2> QED BY <2>1 DEF Additions
  <1>2. CASE k = j
    BY <1>2 DEF Additions, Indexing, Enriching, AfterClaim
  <1> QED BY <1>1, <1>2

LEMMA AdditionsStep == ASSUME IInv, Next PROVE Additions'
  <1> USE DEF IInv, TypeOK, Control, Documents, Claims, Additions, AfterClaim, Enriching, Indexing, Ingests, Status, storeVars, historyVars
  <1>1. ASSUME NEW j \in Jobs, Enqueue(j) PROVE Additions'
    <2>1. PICK m \in Modes, t \in Videos \cup {NoVideo}, S \in SUBSET Videos :
             /\ Put(j, m, t, S)
             /\ t # NoVideo => S = {t}
      BY <1>1, EnqueueIsPut
    <2>2. /\ at[j] = "idle" /\ status[j] = "new" /\ added[j] = {}
          /\ at' = [at EXCEPT ![j] = "pending"] /\ status' = [status EXCEPT ![j] = "queued"]
          /\ target' = [target EXCEPT ![j] = t] /\ todo' = [todo EXCEPT ![j] = S]
          /\ UNCHANGED <<attributed, before, after, added>>
      BY <2>1 DEF Put
    <2> QED BY <2>1, <2>2
  <1>2. ASSUME NEW w \in Workers, Take(w) PROVE Additions'
    <2>1. Head(pending) \in Jobs /\ at[Head(pending)] = "pending"
      BY <1>2, HeadIsJob DEF Take, Fifo
    <2> QED BY <1>2, <2>1 DEF Take
  <1>3. ASSUME NEW w \in Workers, NEW j \in Jobs, Start(w, j) PROVE Additions'
    BY <1>3 DEF Start, Step, FirstStep
  <1>4. ASSUME NEW w \in Workers, NEW j \in Jobs, ListBefore(w, j) PROVE Additions'
    <2>1. /\ added[j] = {}
          /\ at[j] = "listing" /\ at' = [at EXCEPT ![j] = "indexing"]
          /\ before' = [before EXCEPT ![j] = before'[j]]
          /\ UNCHANGED <<todo, added, after, attributed, status, target>>
      BY <1>4 DEF ListBefore, Step
    <2>2. /\ at'[j] = "indexing" /\ added'[j] = {}
          /\ \A k \in Jobs : k # j => at'[k] = at[k] /\ before'[k] = before[k]
      BY <2>1
    <2> QED BY <2>1, <2>2
  <1>5. ASSUME NEW w \in Workers, NEW j \in Jobs, IndexSkip(w, j) PROVE Additions'
    <2>1. /\ DOMAIN at = Jobs /\ DOMAIN todo = Jobs
          /\ at' = [at EXCEPT ![j] = at'[j]] /\ todo' = [todo EXCEPT ![j] = todo'[j]]
          /\ todo'[j] \subseteq todo[j]
          /\ UNCHANGED <<added, before, after, attributed, status, target>>
          /\ at[j] = "indexing" /\ at'[j] = "indexing"
      BY <1>5 DEF IndexSkip, Step
    <2> QED BY <2>1, AdditionsKept
  <1>6. ASSUME NEW w \in Workers, NEW j \in Jobs, IndexLook(w, j) PROVE Additions'
    <2>1. /\ DOMAIN at = Jobs /\ DOMAIN todo = Jobs
          /\ at' = [at EXCEPT ![j] = at'[j]] /\ todo' = [todo EXCEPT ![j] = todo'[j]]
          /\ todo'[j] \subseteq todo[j]
          /\ UNCHANGED <<added, before, after, attributed, status, target>>
          /\ at[j] = "indexing" /\ at'[j] \in {"fetching", "embedding"}
      BY <1>6 DEF IndexLook, Step
    <2> QED BY <2>1, AdditionsKept
  <1>7. ASSUME NEW w \in Workers, NEW j \in Jobs, IndexFetch(w, j) PROVE Additions'
    <2>1. added' = [added EXCEPT ![j] = @ \cup ({video[j]} \ Listed)]
      BY <1>7 DEF IndexFetch
    <2>2. video[j] \in todo[j] /\ before[j] \subseteq Listed
      BY <1>7 DEF IndexFetch, Step
    <2>3. /\ at[j] = "fetching" /\ at' = [at EXCEPT ![j] = "embedding"]
          /\ UNCHANGED <<todo, before, after, attributed, status, target>>
      BY <1>7 DEF IndexFetch, Step
    <2>4. \A k \in Jobs : k # j => added'[k] = added[k]
      BY <2>1
    <2>5. added'[j] \cap before[j] = {}
      BY <2>1, <2>2, <2>3
    <2>6. target[j] # NoVideo => added'[j] \subseteq {target[j]}
      BY <2>1, <2>2, <2>3
    <2> QED BY <2>3, <2>4, <2>5, <2>6
  <1>8. ASSUME NEW w \in Workers, NEW j \in Jobs, IndexEmbed(w, j) PROVE Additions'
    <2>1. /\ DOMAIN at = Jobs /\ DOMAIN todo = Jobs
          /\ at' = [at EXCEPT ![j] = at'[j]] /\ todo' = [todo EXCEPT ![j] = todo'[j]]
          /\ todo'[j] \subseteq todo[j]
          /\ UNCHANGED <<added, before, after, attributed, status, target>>
          /\ at[j] = "embedding" /\ at'[j] = "summarising"
      BY <1>8 DEF IndexEmbed, Step
    <2> QED BY <2>1, AdditionsKept
  <1>9. ASSUME NEW w \in Workers, NEW j \in Jobs, IndexSummarise(w, j) PROVE Additions'
    <2>1. /\ DOMAIN at = Jobs /\ DOMAIN todo = Jobs
          /\ at' = [at EXCEPT ![j] = at'[j]] /\ todo' = [todo EXCEPT ![j] = todo'[j]]
          /\ todo'[j] \subseteq todo[j]
          /\ UNCHANGED <<added, before, after, attributed, status, target>>
          /\ at[j] = "summarising" /\ at'[j] = "indexing"
      BY <1>9 DEF IndexSummarise, Step
    <2> QED BY <2>1, AdditionsKept
  <1>10. ASSUME NEW w \in Workers, NEW j \in Jobs, IndexAbandon(w, j) PROVE Additions'
    <2>1. /\ DOMAIN at = Jobs /\ DOMAIN todo = Jobs
          /\ at' = [at EXCEPT ![j] = at'[j]] /\ todo' = [todo EXCEPT ![j] = todo'[j]]
          /\ todo'[j] \subseteq todo[j]
          /\ UNCHANGED <<added, before, after, attributed, status, target>>
          /\ at[j] \in {"fetching", "embedding"} /\ at'[j] = "indexing"
      BY <1>10 DEF IndexAbandon, Step
    <2> QED BY <2>1, AdditionsKept
  <1>11. ASSUME NEW w \in Workers, NEW j \in Jobs, IndexFail(w, j) PROVE Additions'
    <2>1. /\ at' = [at EXCEPT ![j] = "ended"]
          /\ status' = [status EXCEPT ![j] = "error"]
          /\ todo' = [todo EXCEPT ![j] = {}] /\ before' = [before EXCEPT ![j] = {}]
          /\ UNCHANGED <<added, after, attributed, target>>
      BY <1>11 DEF IndexFail, End
    <2> QED BY <2>1
  <1>12. ASSUME NEW w \in Workers, NEW j \in Jobs, IndexExit(w, j) PROVE Additions'
    <2>1. /\ DOMAIN at = Jobs /\ DOMAIN todo = Jobs
          /\ at' = [at EXCEPT ![j] = at'[j]] /\ todo' = [todo EXCEPT ![j] = todo'[j]]
          /\ todo'[j] \subseteq todo[j]
          /\ UNCHANGED <<added, before, after, attributed, status, target>>
          /\ at[j] = "indexing" /\ at'[j] = "relisting"
      BY <1>12 DEF IndexExit, Step
    <2> QED BY <2>1, AdditionsKept
  <1>13. ASSUME NEW w \in Workers, NEW j \in Jobs, ListAfter(w, j) PROVE Additions'
    <2>1. PICK L \in Listings : after' = [after EXCEPT ![j] = L]
      BY <1>13 DEF ListAfter
    <2>2. L # {} => added[j] \subseteq L
      BY <2>1 DEF Listings
    <2>3. added' = added /\ attributed' = attributed
      BY <1>13 DEF ListAfter
    <2> QED BY <1>13, <2>1, <2>2, <2>3 DEF ListAfter, Step
  <1>14. ASSUME NEW w \in Workers, NEW j \in Jobs, Claim(w, j) PROVE Additions'
    <2>1. added[j] \cap before[j] = {} /\ (after[j] # {} => added[j] \subseteq after[j])
      BY <1>14 DEF Claim, Step
    <2>2. target[j] # NoVideo => added[j] \subseteq {target[j]}
      BY <1>14 DEF Claim, Step
    <2>3. after[j] # {} => added[j] \subseteq attributed \cup Claimable(j)
      BY <2>1, <2>2 DEF Claimable
    <2>4. after' = after /\ added' = added /\ status' = status /\ before' = before
          /\ attributed' = attributed \cup Claimable(j) /\ target' = target
      BY <1>14 DEF Claim, Step
    <2>5. at' = [at EXCEPT ![j] = at'[j]] /\ at'[j] \in {"graph", "closing"}
      BY <1>14 DEF Claim, Step
    <2>6. todo' = [todo EXCEPT ![j] = todo'[j]]
      BY <1>14 DEF Claim
    <2> QED BY <2>3, <2>4, <2>5, <2>6
  <1>15. ASSUME NEW w \in Workers, NEW j \in Jobs, Close(w, j) PROVE Additions'
    BY <1>15 DEF Close, End, Drop
  <1>16. ASSUME NEW w \in Workers, NEW j \in Jobs, NoExtractor(w, j) PROVE Additions'
    <2>1. /\ at[j] = "graph" /\ at' = [at EXCEPT ![j] = "ended"]
          /\ status' = [status EXCEPT ![j] = "error"]
          /\ todo' = [todo EXCEPT ![j] = {}] /\ before' = [before EXCEPT ![j] = {}]
          /\ UNCHANGED <<added, after, attributed, target>>
      BY <1>16 DEF NoExtractor, End
    <2> QED BY <2>1
  <1>17. ASSUME NEW w \in Workers, NEW j \in Jobs, GraphRead(w, j) PROVE Additions'
    <2>1. /\ DOMAIN at = Jobs /\ DOMAIN todo = Jobs
          /\ at' = [at EXCEPT ![j] = at'[j]] /\ todo' = [todo EXCEPT ![j] = todo'[j]]
          /\ todo'[j] \subseteq todo[j]
          /\ UNCHANGED <<added, before, after, attributed, status, target>>
          /\ at[j] = "graph" /\ at'[j] = "extracting"
      BY <1>17 DEF GraphRead, Step
    <2> QED BY <2>1, AdditionsKept
  <1>18. ASSUME NEW w \in Workers, NEW j \in Jobs, GraphExtract(w, j) PROVE Additions'
    <2>1. /\ DOMAIN at = Jobs /\ DOMAIN todo = Jobs
          /\ at' = [at EXCEPT ![j] = at'[j]] /\ todo' = [todo EXCEPT ![j] = todo'[j]]
          /\ todo'[j] \subseteq todo[j]
          /\ UNCHANGED <<added, before, after, attributed, status, target>>
          /\ at[j] = "extracting" /\ at'[j] = "marking"
      BY <1>18 DEF GraphExtract, Step
    <2> QED BY <2>1, AdditionsKept
  <1>19. ASSUME NEW w \in Workers, NEW j \in Jobs, GraphLook(w, j) PROVE Additions'
    <2>1. /\ DOMAIN at = Jobs /\ DOMAIN todo = Jobs
          /\ at' = [at EXCEPT ![j] = at'[j]] /\ todo' = [todo EXCEPT ![j] = todo'[j]]
          /\ todo'[j] \subseteq todo[j]
          /\ UNCHANGED <<added, before, after, attributed, status, target>>
          /\ at[j] = "marking" /\ at'[j] = "stamping"
      BY <1>19 DEF GraphLook, Step
    <2> QED BY <2>1, AdditionsKept
  <1>20. ASSUME NEW w \in Workers, NEW j \in Jobs, GraphMark(w, j) PROVE Additions'
    <2>1. /\ DOMAIN at = Jobs /\ DOMAIN todo = Jobs
          /\ at' = [at EXCEPT ![j] = at'[j]] /\ todo' = [todo EXCEPT ![j] = todo'[j]]
          /\ todo'[j] \subseteq todo[j]
          /\ UNCHANGED <<added, before, after, attributed, status, target>>
          /\ at[j] = "stamping" /\ at'[j] = "marking"
      BY <1>20 DEF GraphMark, Step
    <2> QED BY <2>1, AdditionsKept
  <1>21. ASSUME NEW w \in Workers, NEW j \in Jobs, GraphFootnote(w, j) PROVE Additions'
    <2>1. /\ DOMAIN at = Jobs /\ DOMAIN todo = Jobs
          /\ at' = [at EXCEPT ![j] = at'[j]] /\ todo' = [todo EXCEPT ![j] = todo'[j]]
          /\ todo'[j] \subseteq todo[j]
          /\ UNCHANGED <<added, before, after, attributed, status, target>>
          /\ at[j] = "marking" /\ at'[j] = "closing"
      BY <1>21 DEF GraphFootnote, Step
    <2> QED BY <2>1, AdditionsKept
  <1>22. ASSUME NEW w \in Workers, NEW j \in Jobs, GraphVerdict(w, j) PROVE Additions'
    BY <1>22 DEF GraphVerdict, End, Drop
  <1>23. ASSUME NEW w \in Workers, NEW j \in Jobs, Poll(w, j) PROVE Additions'
    BY <1>23 DEF Poll, End, Drop
  <1>24. CASE Drained
    BY <1>24 DEF Drained, vars, queueVars, localVars, storeVars, historyVars
  <1> QED BY <1>1, <1>2, <1>3, <1>4, <1>5, <1>6, <1>7, <1>8, <1>9, <1>10, <1>11,
              <1>12, <1>13, <1>14, <1>15, <1>16, <1>17, <1>18, <1>19, <1>20, <1>21,
              <1>22, <1>23, <1>24 DEF Next, Work

-----------------------------------------------------------------------------
(* The invariant is inductive *)

LEMMA InitIInv == Init => IInv
  <1> SUFFICES ASSUME Init PROVE IInv OBVIOUS
  <1>1. TypeOK
    BY InitTypes
  <1>2. Control /\ Additions
    BY DEF Init, Control, Additions, Indexing, Enriching, AfterClaim
  <1>3. Fifo
    BY DEF Init, Fifo
  <1>4. Documents
    BY DEF Init, Documents, Enriching
  <1>5. Claims
    BY DEF Init, Claims, ClaimsAreDisjoint
  <1> QED BY <1>1, <1>2, <1>3, <1>4, <1>5 DEF IInv

LEMMA StepIInv == IInv /\ [Next]_vars => IInv'
  <1> SUFFICES ASSUME IInv, [Next]_vars PROVE IInv' OBVIOUS
  <1>1. CASE Next
    BY <1>1, TypeStep, ControlStep, FifoStep, DocumentsStep, ClaimsStep, AdditionsStep
    DEF IInv
  <1>2. CASE UNCHANGED vars
    <2> USE <1>2 DEF vars, queueVars, localVars, storeVars, historyVars, IInv
    <2>1. TypeOK'
      BY DEF TypeOK
    <2>2. Control'
      BY DEF Control, Ingests
    <2>3. Fifo'
      BY DEF Fifo
    <2>4. Documents'
      BY DEF Documents, Listed
    <2>5. Claims'
      BY DEF Claims, ClaimsAreDisjoint, Ingests
    <2>6. Additions'
      BY DEF Additions
    <2> QED BY <2>1, <2>2, <2>3, <2>4, <2>5, <2>6
  <1> QED BY <1>1, <1>2

(* The inductive invariant holds in every reachable state of the queue. *)
THEOREM Invariance == Spec => []IInv
  BY InitIInv, StepIInv, PTL DEF Spec

-----------------------------------------------------------------------------
(* What follows from it *)

(* Every variable keeps its type: in particular no thread ever writes back a *)
(* document it does not have.                                                *)
THEOREM TypeCorrect == Spec => []TypeOK
  <1>1. IInv => TypeOK
    BY DEF IInv
  <1> QED BY <1>1, Invariance, PTL

(* No video is counted by two jobs, for any number of workers.               *)
THEOREM NeverDoubleCounted == Spec => []ClaimsAreDisjoint
  <1>1. IInv => ClaimsAreDisjoint
    BY DEF IInv, Claims
  <1> QED BY <1>1, Invariance, PTL

(* What a finished ingest added, itself or another job has reported.         *)
THEOREM NothingAddedIsLost == Spec => []AddedIsClaimed
  <1>1. IInv => AddedIsClaimed
    BY DEF IInv, Control, Additions, AfterClaim, AddedIsClaimed
  <1> QED BY <1>1, Invariance, PTL

(* A job in error reported nothing, so its videos stay claimable.            *)
THEOREM ErrorsReportNothing == Spec => []FailedJobsClaimNothing
  <1>1. IInv => FailedJobsClaimNothing
    BY DEF IInv, Claims, FailedJobsClaimNothing
  <1> QED BY <1>1, Invariance, PTL

-----------------------------------------------------------------------------
(* The counts add up: what IInv lacks is that nothing else fills the corpus.  *)

(* With every listing read the window of an ingest starts at the stock, and   *)
(* its second listing shows what it added itself.                            *)
Window(j) ==
  /\ at[j] \in Indexing => stock \subseteq before[j]
  /\ at[j] \in {"embedding", "summarising", "stamping"} => video[j] \in Listed
  /\ ~Ingests(j) => added[j] = {}
  /\ at[j] \in {"claiming"} \cup AfterClaim /\ status[j] # "error" /\ added[j] # {} =>
       after[j] # {}

(* Every video listed was in stock or added by a job, and what is attributed  *)
(* is some job's claim on a video that was not in stock.                      *)
Sums ==
  /\ stock \subseteq Listed
  /\ \A v \in Listed \ stock : \E j \in Jobs : v \in added[j]
  /\ \A v \in attributed : v \in Listed \ stock /\ \E j \in Jobs : v \in claimed[j]

Accounts == Sums /\ \A j \in Jobs : Window(j)

(* They hold until a listing shows something else than the corpus.           *)
Kept == ~misread => Accounts

(* The stock never changes, and a listing misread stays so.                  *)
LEMMA HistoryStep ==
  ASSUME Next
  PROVE  stock' = stock /\ (misread => misread')
  <1> USE DEF historyVars
  <1>1. ASSUME NEW j \in Jobs, Enqueue(j) PROVE UNCHANGED <<stock, misread>>
    BY <1>1 DEF Enqueue, EnqueueVideo, EnqueueChannel, EnqueueEnrichment, EnqueueChannels, Put
  <1>2. ASSUME NEW w \in Workers, Take(w) PROVE UNCHANGED <<stock, misread>>
    BY <1>2 DEF Take
  <1>3. ASSUME NEW w \in Workers, NEW j \in Jobs, ListBefore(w, j) \/ ListAfter(w, j)
        PROVE  stock' = stock /\ (misread => misread')
    BY <1>3 DEF ListBefore, ListAfter
  <1>4. ASSUME NEW w \in Workers, NEW j \in Jobs,
               Start(w, j) \/ IndexSkip(w, j) \/ IndexLook(w, j) \/ IndexFetch(w, j)
                 \/ IndexEmbed(w, j) \/ IndexSummarise(w, j) \/ IndexAbandon(w, j)
                 \/ IndexExit(w, j) \/ Claim(w, j)
        PROVE  UNCHANGED <<stock, misread>>
    BY <1>4 DEF Start, IndexSkip, IndexLook, IndexFetch, IndexEmbed, IndexSummarise,
                IndexAbandon, IndexExit, Claim
  <1>5. ASSUME NEW w \in Workers, NEW j \in Jobs,
               GraphRead(w, j) \/ GraphExtract(w, j) \/ GraphLook(w, j) \/ GraphMark(w, j)
                 \/ GraphFootnote(w, j)
        PROVE  UNCHANGED <<stock, misread>>
    BY <1>5 DEF GraphRead, GraphExtract, GraphLook, GraphMark, GraphFootnote
  <1>6. ASSUME NEW w \in Workers, NEW j \in Jobs,
               IndexFail(w, j) \/ Close(w, j) \/ NoExtractor(w, j) \/ GraphVerdict(w, j)
                 \/ Poll(w, j)
        PROVE  UNCHANGED <<stock, misread>>
    BY <1>6 DEF IndexFail, Close, NoExtractor, GraphVerdict, Poll, End
  <1>7. CASE Drained
    BY <1>7 DEF Drained, vars
  <1> QED BY <1>1, <1>2, <1>3, <1>4, <1>5, <1>6, <1>7 DEF Next, Work

LEMMA InitAccounts == Init => Accounts
  <1> SUFFICES ASSUME Init PROVE Accounts
    OBVIOUS
  <1>1. /\ \A j \in Jobs : at[j] = "idle" /\ added[j] = {}
        /\ attributed = {} /\ stock \subseteq Videos
    BY DEF Init
  <1>2. \A v \in Videos : doc[v] # NoDocument <=> v \in stock
    <2>1. \A v \in Videos : doc[v] = IF v \in stock
                                     THEN [summary |-> "done",
                                           graph |-> IF v \in entities THEN "done" ELSE "pending"]
                                     ELSE NoDocument
      BY DEF Init
    <2>2. \A g \in {"done", "pending"} : [summary |-> "done", graph |-> g] # NoDocument
      BY NoDocumentAssumption DEF Document
    <2> QED BY <2>1, <2>2
  <1>3. Sums
    BY <1>1, <1>2 DEF Sums, Listed
  <1>4. \A j \in Jobs : Window(j)
    BY <1>1 DEF Window, Indexing, AfterClaim, Enriching
  <1> QED BY <1>3, <1>4 DEF Accounts

LEMMA AccountsKept ==
  ASSUME Accounts, NEW j \in Jobs, Window(j)', Listed' = Listed,
         UNCHANGED <<stock, added, attributed, claimed>>,
         \A k \in Jobs \ {j} : /\ at'[k] = at[k] /\ before'[k] = before[k]
                               /\ after'[k] = after[k] /\ video'[k] = video[k]
                               /\ status'[k] = status[k] /\ mode'[k] = mode[k]
  PROVE  Accounts'
  <1>1. Sums'
    BY DEF Accounts, Sums
  <1>2. ASSUME NEW k \in Jobs, k # j PROVE Window(k)'
    BY <1>2 DEF Accounts, Window, Ingests
  <1> QED BY <1>1, <1>2 DEF Accounts

(* A job that ends.                                                          *)
LEMMA AccountsEnd ==
  ASSUME IInv, Accounts, NEW w \in Workers, NEW j \in Jobs, NEW s \in Status, End(w, j, s),
         at[j] # "ended", s # "error" => at[j] \in AfterClaim \/ added[j] = {}
  PROVE  Accounts'
  <1> USE DEF IInv, TypeOK
  <1>1. /\ at' = [at EXCEPT ![j] = "ended"] /\ status' = [status EXCEPT ![j] = s]
        /\ before' = [before EXCEPT ![j] = {}] /\ video' = [video EXCEPT ![j] = NoVideo]
        /\ UNCHANGED <<mode, attributed, claimed, after, doc, stock, added>>
    BY DEF End, Drop, storeVars, historyVars
  <1>2. status[j] # "error"
    BY DEF Control
  <1>3. Window(j)'
    BY <1>1, <1>2 DEF Accounts, Window, Ingests, Indexing, AfterClaim, Enriching
  <1> QED BY <1>1, <1>3, AccountsKept DEF Listed

(* A job that goes on without listing, claiming or storing anything.         *)
LEMMA AccountsMove ==
  ASSUME IInv, Accounts, NEW w \in Workers, NEW j \in Jobs, NEW from \in Steps, NEW to \in Steps,
         Step(w, j, from, to),
         UNCHANGED <<attributed, claimed, before, after, stock, added>>, Listed' = Listed,
         \A k \in Jobs \ {j} : status'[k] = status[k] /\ video'[k] = video[k],
         status'[j] # "error" => status[j] # "error",
         from \in Indexing \/ to \notin Indexing,
         to \in {"embedding", "summarising", "stamping"} => video'[j] \in Listed,
         from \in {"claiming"} \cup AfterClaim \/ to \notin {"claiming"} \cup AfterClaim
            \/ added[j] = {}
  PROVE  Accounts'
  <1> USE DEF IInv, TypeOK
  <1>1. at' = [at EXCEPT ![j] = to] /\ at[j] = from /\ UNCHANGED mode
    BY DEF Step
  <1>2. Window(j)'
    BY <1>1 DEF Accounts, Window, Ingests
  <1> QED BY <1>1, <1>2, AccountsKept

LEMMA AccountsStep ==
  ASSUME IInv, Accounts, Next, ~misread', stock' = stock
  PROVE  Accounts'
  <1> USE DEF IInv, TypeOK, Steps, Indexing, AfterClaim, Enriching, storeVars, historyVars
  <1>1. ASSUME NEW j \in Jobs, Enqueue(j) PROVE Accounts'
    <2>1. PICK m \in Modes, t \in Videos \cup {NoVideo}, S \in SUBSET Videos : Put(j, m, t, S)
      BY <1>1, EnqueueIsPut
    <2>2. /\ added[j] = {} /\ at' = [at EXCEPT ![j] = "pending"]
          /\ status' = [status EXCEPT ![j] = "queued"] /\ mode' = [mode EXCEPT ![j] = m]
          /\ UNCHANGED <<attributed, claimed, before, after, video, doc, added>>
      BY <2>1 DEF Put, Control, Additions
    <2>3. Window(j)'
      BY <2>2 DEF Window
    <2> QED BY <2>2, <2>3, AccountsKept DEF Listed
  <1>2. ASSUME NEW w \in Workers, Take(w) PROVE Accounts'
    <2>1. PICK j \in Jobs :
            /\ added[j] = {} /\ at' = [at EXCEPT ![j] = "taken"]
            /\ UNCHANGED <<status, mode, attributed, claimed, before, after, video, doc, added>>
      <3>1. Head(pending) \in Jobs /\ at[Head(pending)] = "pending"
        BY <1>2, HeadIsJob DEF Take, Fifo
      <3> QED BY <1>2, <3>1 DEF Take, Additions
    <2>2. Window(j)'
      BY <2>1 DEF Window
    <2> QED BY <2>1, <2>2, AccountsKept DEF Listed
  <1>3. ASSUME NEW w \in Workers, NEW j \in Jobs, Start(w, j) PROVE Accounts'
    <2>1. added[j] = {}
      BY <1>3 DEF Start, Step, Additions
    <2>2. FirstStep(j) \in {"listing", "graph", "polling"}
      BY DEF FirstStep
    <2>3. status[j] # "error"
      BY <1>3 DEF Start, Step, Control
    <2> QED BY <1>3, <2>1, <2>2, <2>3, AccountsMove DEF Start, Listed
  <1>4. ASSUME NEW w \in Workers, NEW j \in Jobs, ListBefore(w, j) PROVE Accounts'
    <2>1. before' = [before EXCEPT ![j] = Listed]
      BY <1>4 DEF ListBefore
    <2>2. /\ at[j] = "listing" /\ at' = [at EXCEPT ![j] = "indexing"]
          /\ UNCHANGED <<status, mode, attributed, claimed, after, video, doc, added>>
      BY <1>4 DEF ListBefore, Step
    <2>3. Window(j)'
      BY <2>1, <2>2 DEF Accounts, Sums, Window, Ingests
    <2> QED BY <2>1, <2>2, <2>3, AccountsKept DEF Listed
  <1>5. ASSUME NEW w \in Workers, NEW j \in Jobs,
               IndexSkip(w, j) \/ IndexExit(w, j) \/ IndexEmbed(w, j) PROVE Accounts'
    <2>1. at[j] = "embedding" => video[j] \in Listed
      BY DEF Accounts, Window
    <2>2. CASE IndexSkip(w, j) \/ IndexExit(w, j)
      BY <2>2, AccountsMove DEF IndexSkip, IndexExit, Listed
    <2>3. CASE IndexEmbed(w, j)
      <3>1. at[j] = "embedding"
        BY <2>3 DEF IndexEmbed, Step
      <3> QED BY <2>1, <2>3, <3>1, AccountsMove DEF IndexEmbed, Listed
    <2> QED BY <1>5, <2>2, <2>3
  <1>6. ASSUME NEW w \in Workers, NEW j \in Jobs, IndexLook(w, j) PROVE Accounts'
    <2>1. PICK v \in todo[j], to \in {"fetching", "embedding"} :
            /\ Step(w, j, "indexing", to) /\ (to = "embedding" => v \in Listed)
            /\ video' = [video EXCEPT ![j] = v]
      BY <1>6 DEF IndexLook
    <2>2. UNCHANGED <<status, attributed, claimed, before, after, doc, added>>
      BY <1>6 DEF IndexLook
    <2> QED BY <2>1, <2>2, AccountsMove DEF Listed
  <1>7. ASSUME NEW w \in Workers, NEW j \in Jobs, IndexFetch(w, j) PROVE Accounts'
    <2> DEFINE v == video[j]
    <2>1. /\ at[j] = "fetching" /\ at' = [at EXCEPT ![j] = "embedding"]
          /\ added' = [added EXCEPT ![j] = @ \cup ({v} \ Listed)]
          /\ UNCHANGED <<status, mode, attributed, claimed, before, after, video>>
      BY <1>7 DEF IndexFetch, Step
    <2>2. v \in Videos /\ Ingests(j)
      BY <2>1 DEF Documents, Control
    <2>3. Listed' = Listed \cup {v}
      <3>1. doc' = [doc EXCEPT ![v] = copy'[j]] /\ copy'[j] # NoDocument
        <4>1. Fresh # NoDocument
          BY NoDocumentAssumption DEF Fresh, Document
        <4> QED BY <1>7, <4>1 DEF IndexFetch
      <3> QED BY <2>2, <3>1 DEF Listed
    <2> HIDE DEF v
    <2>4. Sums'
      BY <2>1, <2>3 DEF Accounts, Sums
    <2>5. ASSUME NEW k \in Jobs PROVE Window(k)'
      <3>1. CASE k = j
        BY <2>1, <2>2, <2>3, <3>1 DEF Accounts, Window, Ingests, v
      <3>2. CASE k # j
        BY <2>1, <2>3, <3>2 DEF Accounts, Window, Ingests
      <3> QED BY <3>1, <3>2
    <2> QED BY <2>4, <2>5 DEF Accounts
  <1>8. ASSUME NEW w \in Workers, NEW j \in Jobs, IndexSummarise(w, j) PROVE Accounts'
    <2>1. video[j] \in Listed /\ copy[j] \in Document
      BY <1>8 DEF IndexSummarise, Step, Documents, Accounts, Window
    <2>2. Listed' = Listed
      <3>1. ASSUME NEW s \in {"done", "failed"} PROVE [copy[j] EXCEPT !.summary = s] # NoDocument
        BY <2>1, DocumentUpdate, NoDocumentAssumption
      <3> QED BY <1>8, <2>1, <3>1 DEF IndexSummarise, Listed
    <2> QED BY <1>8, <2>2, AccountsMove DEF IndexSummarise, Drop
  <1>9. ASSUME NEW w \in Workers, NEW j \in Jobs, IndexAbandon(w, j) PROVE Accounts'
    BY <1>9, AccountsMove DEF IndexAbandon, Drop, Listed
  <1>10. ASSUME NEW w \in Workers, NEW j \in Jobs, ListAfter(w, j) PROVE Accounts'
    <2>1. after' = [after EXCEPT ![j] = Listed]
      BY <1>10 DEF ListAfter
    <2>2. /\ at[j] = "relisting" /\ at' = [at EXCEPT ![j] = "claiming"]
          /\ UNCHANGED <<status, mode, attributed, claimed, before, video, doc, added>>
      BY <1>10 DEF ListAfter, Step
    <2>3. added[j] \subseteq Listed
      BY DEF Documents
    <2>4. Window(j)'
      BY <2>1, <2>2, <2>3 DEF Accounts, Window, Ingests
    <2> QED BY <2>1, <2>2, <2>4, AccountsKept DEF Listed
  <1>11. ASSUME NEW w \in Workers, NEW j \in Jobs, Claim(w, j) PROVE Accounts'
    <2>1. /\ at[j] = "claiming" /\ at' = [at EXCEPT ![j] = at'[j]]
          /\ at'[j] \in {"graph", "closing"}
          /\ claimed' = [claimed EXCEPT ![j] = Claimable(j)]
          /\ attributed' = attributed \cup Claimable(j)
          /\ UNCHANGED <<status, mode, before, after, video, doc, added>>
      BY <1>11 DEF Claim, Step
    <2>2. Claimable(j) \subseteq Listed \ stock
      <3>1. stock \subseteq before[j] /\ after[j] \subseteq Listed
        BY <2>1 DEF Accounts, Window, Documents
      <3> QED BY <3>1 DEF Claimable
    <2>3. claimed[j] = {}
      BY <2>1 DEF Claims
    <2>4. Listed' = Listed
      BY <2>1 DEF Listed
    <2>5. Sums'
      BY <2>1, <2>2, <2>3, <2>4 DEF Accounts, Sums
    <2>6. ASSUME NEW k \in Jobs PROVE Window(k)'
      BY <2>1, <2>4 DEF Accounts, Window, Ingests
    <2> QED BY <2>5, <2>6 DEF Accounts
  <1>12. ASSUME NEW w \in Workers, NEW j \in Jobs,
                IndexFail(w, j) \/ NoExtractor(w, j) PROVE Accounts'
    BY <1>12, AccountsEnd DEF IndexFail, NoExtractor, Status
  <1>13. ASSUME NEW w \in Workers, NEW j \in Jobs,
                Close(w, j) \/ GraphVerdict(w, j) \/ Poll(w, j) PROVE Accounts'
    <2>1. at[j] = "polling" => added[j] = {}
      BY DEF Additions
    <2> QED BY <1>13, <2>1, AccountsEnd DEF Close, GraphVerdict, Poll, Status
  <1>14. ASSUME NEW w \in Workers, NEW j \in Jobs,
                GraphRead(w, j) \/ GraphExtract(w, j) \/ GraphFootnote(w, j) PROVE Accounts'
    BY <1>14, AccountsMove DEF GraphRead, GraphExtract, GraphFootnote, Listed
  <1>15. ASSUME NEW w \in Workers, NEW j \in Jobs, GraphLook(w, j) PROVE Accounts'
    <2>1. todo[j] \subseteq Listed
      BY <1>15 DEF GraphLook, Step, Documents
    <2> QED BY <1>15, <2>1, AccountsMove DEF GraphLook, Listed
  <1>16. ASSUME NEW w \in Workers, NEW j \in Jobs, GraphMark(w, j) PROVE Accounts'
    <2>1. video[j] \in Listed /\ copy[j] \in Document
      BY <1>16 DEF GraphMark, Step, Documents, Accounts, Window
    <2>2. Listed' = Listed
      <3>1. [copy[j] EXCEPT !.graph = Verdict(j)] # NoDocument
        BY <2>1, DocumentUpdate, NoDocumentAssumption DEF Verdict
      <3> QED BY <1>16, <2>1, <3>1 DEF GraphMark, Listed
    <2> QED BY <1>16, <2>2, AccountsMove DEF GraphMark, Drop
  <1>17. CASE Drained
    BY <1>17 DEF Drained, vars, queueVars, localVars, Accounts, Sums, Window, Listed, Ingests
  <1> QED BY <1>1, <1>2, <1>3, <1>4, <1>5, <1>6, <1>7, <1>8, <1>9, <1>10, <1>11, <1>12,
              <1>13, <1>14, <1>15, <1>16, <1>17 DEF Next, Work

(* When every job that was enqueued has ended well and no listing was misread, *)
(* what the jobs report as added is what the corpus has gained               *)
(* (_attribute_added).                                                       *)
THEOREM CountsAreComplete == Spec => []CountsAddUp
  <1>1. Kept /\ UNCHANGED vars => Kept'
    BY DEF vars, queueVars, localVars, storeVars, historyVars, Kept, Accounts, Sums, Window,
           Listed, Ingests
  <1>2. IInv /\ Kept /\ Next => Kept'
    BY AccountsStep, HistoryStep DEF Kept
  <1>3. Init => Kept
    BY InitAccounts DEF Kept
  <1>4. Spec => []Kept
    BY Invariance, <1>1, <1>2, <1>3, PTL DEF Spec
  <1>5. ASSUME IInv, Kept PROVE CountsAddUp
    <2> SUFFICES ASSUME Accounts, \A j \in Jobs : status[j] \in {"new", "done"}
                 PROVE  UNION {claimed[j] : j \in Jobs} = Listed \ stock
      BY <1>5 DEF CountsAddUp, Kept
    <2>1. attributed = UNION {claimed[j] : j \in Jobs}
      BY <1>5 DEF IInv, Claims, Accounts, Sums
    <2>2. attributed \subseteq Listed \ stock
      BY <1>5 DEF Accounts, Sums
    <2>3. ASSUME NEW v \in Listed \ stock PROVE v \in attributed
      <3>1. PICK j \in Jobs : v \in added[j]
        BY <1>5 DEF Accounts, Sums
      <3>2. at[j] = "ended"
        BY <1>5, <3>1 DEF IInv, Control, Additions
      <3>3. after[j] # {}
        BY <1>5, <3>1, <3>2 DEF Accounts, Window, AfterClaim
      <3> QED BY <1>5, <3>1, <3>2, <3>3 DEF IInv, Additions, AfterClaim
    <2> QED BY <2>1, <2>2, <2>3
  <1> QED BY <1>4, <1>5, Invariance, PTL

-----------------------------------------------------------------------------
(* The queue implements the job board *)

LEMMA BoardInit == Init => Board!Init
  BY DEF Init, Board!Init

(* Every step of the queue is one of the board, or leaves it alone. *)
LEMMA BoardStep == ASSUME IInv, Next PROVE [Board!Next]_(Board!vars)
  <1>1. ASSUME NEW j \in Jobs, Enqueue(j) PROVE [Board!Next]_(Board!vars)
    <2>1. Board!Submit(j)
      <3>1. PICK m \in Modes, t \in Videos \cup {NoVideo}, S \in SUBSET Videos : Put(j, m, t, S)
        BY <1>1, EnqueueIsPut
      <3> QED BY <3>1 DEF Put, Board!Submit
    <2> QED BY <2>1 DEF Board!Next
  <1>2. ASSUME NEW w \in Workers, Take(w) PROVE [Board!Next]_(Board!vars)
    BY <1>2 DEF Take, Board!vars
  <1>3. ASSUME NEW w \in Workers, NEW j \in Jobs, Start(w, j) PROVE [Board!Next]_(Board!vars)
    <2>1. Board!Begin(j)
      BY <1>3 DEF Start, Step, Board!Begin, IInv, Control
    <2> QED BY <2>1 DEF Board!Next
  <1>4. ASSUME NEW w \in Workers, NEW j \in Jobs, ListBefore(w, j) PROVE [Board!Next]_(Board!vars)
    BY <1>4 DEF ListBefore, Board!vars
  <1>5. ASSUME NEW w \in Workers, NEW j \in Jobs, IndexSkip(w, j) PROVE [Board!Next]_(Board!vars)
    BY <1>5 DEF IndexSkip, Board!vars
  <1>6. ASSUME NEW w \in Workers, NEW j \in Jobs, IndexLook(w, j) PROVE [Board!Next]_(Board!vars)
    BY <1>6 DEF IndexLook, Board!vars
  <1>7. ASSUME NEW w \in Workers, NEW j \in Jobs, IndexFetch(w, j) PROVE [Board!Next]_(Board!vars)
    BY <1>7 DEF IndexFetch, Board!vars
  <1>8. ASSUME NEW w \in Workers, NEW j \in Jobs, IndexEmbed(w, j) PROVE [Board!Next]_(Board!vars)
    BY <1>8 DEF IndexEmbed, Board!vars
  <1>9. ASSUME NEW w \in Workers, NEW j \in Jobs, IndexSummarise(w, j) PROVE [Board!Next]_(Board!vars)
    BY <1>9 DEF IndexSummarise, Board!vars
  <1>10. ASSUME NEW w \in Workers, NEW j \in Jobs, IndexAbandon(w, j) PROVE [Board!Next]_(Board!vars)
    BY <1>10 DEF IndexAbandon, Board!vars
  <1>11. ASSUME NEW w \in Workers, NEW j \in Jobs, IndexFail(w, j) PROVE [Board!Next]_(Board!vars)
    <2>1. Board!Fail(j)
      BY <1>11 DEF IndexFail, End, IInv, TypeOK, Status, Control, Claims, AfterClaim, Enriching, Board!Fail
    <2> QED BY <2>1 DEF Board!Next
  <1>12. ASSUME NEW w \in Workers, NEW j \in Jobs, IndexExit(w, j) PROVE [Board!Next]_(Board!vars)
    BY <1>12 DEF IndexExit, Board!vars
  <1>13. ASSUME NEW w \in Workers, NEW j \in Jobs, ListAfter(w, j) PROVE [Board!Next]_(Board!vars)
    BY <1>13 DEF ListAfter, Board!vars
  <1>14. ASSUME NEW w \in Workers, NEW j \in Jobs, Claim(w, j) PROVE [Board!Next]_(Board!vars)
    <2>1. Board!Credit(j, Claimable(j)) /\ Claimable(j) \in SUBSET Videos
      <3>1. status[j] = "running" /\ claimed[j] = {}
        BY <1>14 DEF Claim, Step, IInv, TypeOK, Status, Control, Claims, AfterClaim, Enriching
      <3>2. Claimable(j) \cap attributed = {} /\ Claimable(j) \subseteq after[j]
        BY DEF Claimable
      <3>3. \A k \in Jobs : claimed[k] \subseteq attributed
        BY DEF IInv, Claims
      <3>4. after[j] \subseteq Videos
        BY DEF IInv, TypeOK
      <3> QED BY <1>14, <3>1, <3>2, <3>3, <3>4 DEF Claim, Board!Credit, Board!Credited
    <2> QED BY <2>1 DEF Board!Next
  <1>15. ASSUME NEW w \in Workers, NEW j \in Jobs, Close(w, j) PROVE [Board!Next]_(Board!vars)
    <2>1. Board!Succeed(j)
      BY <1>15 DEF Close, End, IInv, TypeOK, Status, Control, Board!Succeed
    <2> QED BY <2>1 DEF Board!Next
  <1>16. ASSUME NEW w \in Workers, NEW j \in Jobs, NoExtractor(w, j) PROVE [Board!Next]_(Board!vars)
    <2>1. Board!Fail(j)
      BY <1>16 DEF NoExtractor, End, IInv, TypeOK, Status, Control, Claims, AfterClaim, Enriching, Board!Fail
    <2> QED BY <2>1 DEF Board!Next
  <1>17. ASSUME NEW w \in Workers, NEW j \in Jobs, GraphRead(w, j) PROVE [Board!Next]_(Board!vars)
    BY <1>17 DEF GraphRead, Board!vars
  <1>18. ASSUME NEW w \in Workers, NEW j \in Jobs, GraphExtract(w, j) PROVE [Board!Next]_(Board!vars)
    BY <1>18 DEF GraphExtract, Board!vars
  <1>19. ASSUME NEW w \in Workers, NEW j \in Jobs, GraphLook(w, j) PROVE [Board!Next]_(Board!vars)
    BY <1>19 DEF GraphLook, Board!vars
  <1>20. ASSUME NEW w \in Workers, NEW j \in Jobs, GraphMark(w, j) PROVE [Board!Next]_(Board!vars)
    BY <1>20 DEF GraphMark, Board!vars
  <1>21. ASSUME NEW w \in Workers, NEW j \in Jobs, GraphFootnote(w, j) PROVE [Board!Next]_(Board!vars)
    BY <1>21 DEF GraphFootnote, Board!vars
  <1>22. ASSUME NEW w \in Workers, NEW j \in Jobs, GraphVerdict(w, j) PROVE [Board!Next]_(Board!vars)
    <2>1. Board!Succeed(j) \/ Board!Fail(j)
      BY <1>22 DEF GraphVerdict, End, IInv, TypeOK, Status, Control, Claims, Ingests, Board!Succeed, Board!Fail
    <2> QED BY <2>1 DEF Board!Next
  <1>23. ASSUME NEW w \in Workers, NEW j \in Jobs, Poll(w, j) PROVE [Board!Next]_(Board!vars)
    <2>1. Board!Succeed(j) \/ Board!Fail(j)
      BY <1>23 DEF Poll, End, IInv, TypeOK, Status, Control, Claims, AfterClaim, Enriching, Board!Succeed, Board!Fail
    <2> QED BY <2>1 DEF Board!Next
  <1>24. CASE Drained
    BY <1>24 DEF Drained, vars, queueVars, Board!vars
  <1> QED BY <1>1, <1>2, <1>3, <1>4, <1>5, <1>6, <1>7, <1>8, <1>9, <1>10, <1>11,
              <1>12, <1>13, <1>14, <1>15, <1>16, <1>17, <1>18, <1>19, <1>20, <1>21,
              <1>22, <1>23, <1>24 DEF Next, Work

(* For any jobs, workers and videos, what callers see of the queue is what   *)
(* the job board allows: one credit per job, of videos nobody else has, and  *)
(* none for a job that fails.                                                *)
THEOREM QueueImplementsBoard == Spec => ImplementsBoard
  <1>1. IInv /\ [Next]_vars => [Board!Next]_(Board!vars)
    <2>1. ASSUME UNCHANGED vars PROVE UNCHANGED Board!vars
      BY <2>1 DEF vars, queueVars, Board!vars
    <2> QED BY <2>1, BoardStep
  <1> QED BY <1>1, BoardInit, Invariance, PTL DEF Spec, ImplementsBoard, Board!Spec

-----------------------------------------------------------------------------
(* The broadcasts of the queue's progress: what ProgressTabs says of the tabs *)
(* holds of ProgressBus, the other module about ingestion_queue.py.          *)

Bus == INSTANCE ProgressBus

(* Where the three threads of a job stand agrees with what the job shows: the *)
(* indexing thread broadcasts only while the worker has the job, and the      *)
(* worker waits only for a job that has not ended.                            *)
BusThreads ==
  \A j \in Shown :
    /\ sender[j]["stages"] # "off" => phase[j] = Bus!Staged
    /\ sender[j]["worker"] # "off" => phase[j] \in {Bus!Running, Bus!Staged, Bus!Ended}
    /\ phase[j] = Bus!Ended => sender[j]["worker"] # "waiting"
    /\ phase[j] = Bus!Unknown => sender[j]["caller"] = "off"

(* Only a tab on the list is sent anything, and only while it is connected.   *)
BusTabs ==
  \A t \in Tabs :
    /\ tab[t] \in {"out", "gone"} => t \notin subscribers
    /\ tab[t] \in {"joined", "seeding", "in"} => t \in subscribers
    /\ tab[t] = "out" => \A j \in Shown, r \in Bus!Senders : t \notin recipients[j][r]

(* A tab the end reaches cleanly: what is still to be put on its queue for    *)
(* this job is the end, the snapshot taken for it shows the end, and once it  *)
(* shows the snapshot it shows the end or the worker has yet to put it.       *)
BusClean ==
  \A j \in Shown : \A t \in clear[j] :
    /\ phase[j] = Bus!Ended
    /\ tab[t] \in {"joined", "seeding", "in"}
    /\ tab[t] = "seeding" => seed[t][j] = Bus!Ended
    /\ \A r \in Bus!Senders :
         sender[j][r] = "put" /\ t \in recipients[j][r] => event[j][r] = Bus!Ended
    /\ tab[t] = "in" =>
         \/ view[t][j] = Bus!Ended
         \/ sender[j]["worker"] \in {"build", "put"} /\ t \in recipients[j]["worker"]

BusInv == Bus!TypeOK /\ BusThreads /\ BusTabs /\ BusClean

LEMMA BusInit == Bus!Init => BusInv
  <1> SUFFICES ASSUME Bus!Init PROVE BusInv
    OBVIOUS
  <1> USE DEF Bus!Init, Bus!Nothing
  <1>1. Bus!TypeOK
    BY DEF Bus!TypeOK, Bus!Phases, Bus!Unknown, Bus!Ended, Bus!Senders
  <1>2. BusThreads /\ BusTabs /\ BusClean
    BY DEF BusThreads, BusTabs, BusClean, Bus!Senders
  <1> QED BY <1>1, <1>2 DEF BusInv

LEMMA BusStep == ASSUME BusInv, [Bus!Next]_(Bus!vars) PROVE BusInv'
  <1> USE DEF BusInv, Bus!TypeOK, Bus!Phases, Bus!Unknown, Bus!Queued, Bus!Running, Bus!Staged,
              Bus!Ended, Bus!Senders, Bus!busVars, Bus!sendVars
  (* A thread moves on and the job shows something else, not its end.         *)
  <1>1. ASSUME NEW j \in Shown,
               Bus!Register(j) \/ Bus!Submit(j) \/ Bus!Begin(j) \/ Bus!Stage(j)
                 \/ Bus!Heartbeat(j) \/ Bus!Enrich(j) \/ Bus!End(j)
        PROVE  BusInv'
    <2> USE DEF Bus!Register, Bus!Submit, Bus!Begin, Bus!Stage, Bus!Heartbeat, Bus!Enrich, Bus!End
    <2>1. PICK p \in Bus!Phases, r \in Bus!Senders,
               s \in {"submit", "collect"}, S \in SUBSET Shown :
            /\ phase' = [phase EXCEPT ![j] = p] /\ submitted' = S
            /\ sender' = [sender EXCEPT ![j][r] = s]
            /\ phase[j] = Bus!Ended => p = Bus!Ended
            /\ UNCHANGED <<event, recipients, subscribers, tab, seed, view, clear>>
            /\ sender[j][r] \notin {"build", "put"}
      <3>1. submitted \cup {j} \in SUBSET Shown /\ phase[j] \in Bus!Phases
        OBVIOUS
      <3>2. phase = [phase EXCEPT ![j] = phase[j]]
        OBVIOUS
      <3> QED BY <1>1, <3>1, <3>2 DEF BusThreads
    <2>2. Bus!TypeOK'
      BY <2>1
    <2>3. BusThreads'
      BY <1>1 DEF BusThreads
    <2>4. BusTabs'
      BY <2>1 DEF BusTabs
    <2>5. BusClean'
      BY <2>1 DEF BusClean
    <2> QED BY <2>2, <2>3, <2>4, <2>5
  <1>2. ASSUME NEW j \in Shown, NEW r \in Bus!Senders, Bus!Collect(j, r) PROVE BusInv'
    <2>1. /\ Bus!CleanlyReached(j, r) \subseteq {t \in subscribers : tab[t] = "in"}
          /\ Bus!CleanlyReached(j, r) # {} =>
               r = "worker" /\ phase[j] = Bus!Ended /\ sender[j]["caller"] = "off"
      BY DEF Bus!CleanlyReached
    <2> HIDE DEF Bus!CleanlyReached
    <2> USE DEF Bus!Collect
    <2>2. Bus!TypeOK'
      BY <1>2, <2>1
    <2>3. BusThreads'
      BY <1>2 DEF BusThreads
    <2>4. BusTabs'
      BY <1>2 DEF BusTabs
    <2>5. BusClean'
      BY <1>2, <2>1 DEF BusThreads, BusTabs, BusClean
    <2> QED BY <2>2, <2>3, <2>4, <2>5
  <1>3. ASSUME NEW j \in Shown, NEW r \in Bus!Senders, Bus!Build(j, r) PROVE BusInv'
    <2> USE DEF Bus!Build
    <2>1. Bus!TypeOK'
      BY <1>3
    <2>2. BusThreads'
      BY <1>3 DEF BusThreads
    <2>3. BusTabs'
      BY <1>3 DEF BusTabs
    <2>4. BusClean'
      BY <1>3 DEF BusClean
    <2> QED BY <2>1, <2>2, <2>3, <2>4
  <1>4. ASSUME NEW j \in Shown, NEW r \in Bus!Senders, NEW t \in Tabs, Bus!Deliver(j, r, t)
        PROVE  BusInv'
    <2> USE DEF Bus!Deliver
    <2>1. Bus!TypeOK'
      BY <1>4
    <2>2. BusThreads'
      BY <1>4 DEF BusThreads
    <2>3. BusTabs'
      BY <1>4 DEF BusTabs
    <2>4. BusClean'
      BY <1>4 DEF BusClean
    <2> QED BY <2>1, <2>2, <2>3, <2>4
  <1>5. ASSUME NEW j \in Shown, NEW r \in Bus!Senders, Bus!Return(j, r) PROVE BusInv'
    <2> USE DEF Bus!Return
    <2>1. Bus!TypeOK'
      BY <1>5
    <2>2. BusThreads'
      BY <1>5 DEF BusThreads
    <2>3. BusTabs'
      BY <1>5 DEF BusTabs
    <2>4. BusClean'
      BY <1>5 DEF BusClean
    <2> QED BY <2>1, <2>2, <2>3, <2>4
  <1>6. ASSUME NEW t \in Tabs, Bus!Join(t) PROVE BusInv'
    <2> USE DEF Bus!Join
    <2>1. Bus!TypeOK'
      BY <1>6
    <2>2. BusThreads' /\ BusTabs'
      BY <1>6 DEF BusThreads, BusTabs
    <2>3. BusClean'
      BY <1>6 DEF BusTabs, BusClean
    <2> QED BY <2>1, <2>2, <2>3
  <1>7. ASSUME NEW t \in Tabs, Bus!Snapshot(t) PROVE BusInv'
    BY <1>7 DEF Bus!Snapshot, BusThreads, BusTabs, BusClean
  <1>8. ASSUME NEW t \in Tabs, Bus!Seed(t) PROVE BusInv'
    BY <1>8 DEF Bus!Seed, Bus!Nothing, BusThreads, BusTabs, BusClean
  <1>9. ASSUME NEW t \in Tabs, Bus!Leave(t) PROVE BusInv'
    BY <1>9 DEF Bus!Leave, Bus!Nothing, BusThreads, BusTabs, BusClean
  <1>10. CASE UNCHANGED Bus!vars
    BY <1>10 DEF Bus!vars, BusThreads, BusTabs, BusClean
  <1> QED BY <1>1, <1>2, <1>3, <1>4, <1>5, <1>6, <1>7, <1>8, <1>9, <1>10
          DEF Bus!Next, Bus!Broadcast, Bus!Subscribe

(* ProgressBus's variables have their types, for any jobs and tabs.           *)
THEOREM BroadcastsTyped == Bus!Spec => []Bus!TypeOK
  <1>1. BusInv => Bus!TypeOK
    BY DEF BusInv
  <1> QED BY <1>1, BusInit, BusStep, PTL DEF Bus!Spec

(* A tab that the end of a job reaches cleanly shows it for good, however the *)
(* caller, the worker, the indexing thread and connecting tabs interleave     *)
(* (_broadcast_job, subscribe), for any jobs and tabs.                       *)
THEOREM EndIsLast == Bus!Spec => []EndIsTheLastWord
  <1>1. BusInv => EndIsTheLastWord
    BY DEF BusInv, BusClean, EndIsTheLastWord, Senders, Bus!Senders, Ended, Bus!Ended
  <1> QED BY <1>1, BusInit, BusStep, PTL DEF Bus!Spec
=============================================================================
