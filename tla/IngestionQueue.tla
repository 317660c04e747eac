--------------------------- MODULE IngestionQueue ---------------------------
(* src/src/api/ingestion_queue.py: a pool of workers draining one FIFO of    *)
(* ingestion jobs over one shared corpus.  A job that ingests lists the      *)
(* corpus, runs the indexing CLI, lists the corpus again and claims, under   *)
(* the queue's lock, the new videos no other job has claimed; the claimed    *)
(* videos then go through graph extraction.                                  *)
(*                                                                           *)
(* The functions the queue is given are the ones src/src/api/main.py gives   *)
(* it: the indexing CLI (src/src/cli.py, src/src/rag/indexing.py), the       *)
(* corpus listing (src/src/api/corpus.py) and the graph extraction hook      *)
(* (_default_graph_extract_fn).  Each is modelled down to the reads and      *)
(* writes it makes on the shared stores, because the worker threads          *)
(* interleave exactly there.                                                 *)
(*                                                                           *)
(* A worker blocks while its job's inner thread runs (_run_blocking), so a   *)
(* job has one point of control, at[j], whichever thread is executing.       *)
(* Progress broadcasts change no job and are modelled in ProgressBus.tla.    *)
EXTENDS Sequences, FiniteSets

CONSTANTS Jobs,          \* job ids; each is enqueued at most once (bounds the run)
          Workers,       \* worker threads
          Videos,        \* video ids
          Modes,         \* kinds of job a caller may enqueue
          NoJob, NoVideo, NoDocument

ASSUME ModesAssumption == Modes \subseteq {"video", "channel", "enrichment", "channels"}
ASSUME NullsAssumption == NoJob \notin Jobs /\ NoVideo \notin Videos

Status == {"new", "queued", "running", "done", "error"}

(* The two enrichment fields of a raw document; the text is left out. *)
Document == [summary : {"pending", "done", "failed"},
             graph   : {"pending", "done", "failed"}]
ASSUME NoDocumentAssumption == NoDocument \notin Document

Fresh == [summary |-> "pending", graph |-> "pending"]

(* Where the thread handling a job stands. *)
Steps == {"idle", "pending", "taken", "listing", "indexing", "fetching", "embedding",
          "summarising", "relisting", "claiming", "graph", "extracting", "marking",
          "stamping", "closing", "polling", "ended"}

VARIABLES
  \* the queue's own fields and its job records
  hasGraph,    \* graph_fn was given
  pending,     \* FIFO of submitted job ids
  current,     \* current[w]: the job worker w is processing
  status,      \* job.status
  mode,        \* job.mode
  target,      \* the video id _video_id_in finds in job.target, or NoVideo
  attributed,  \* videos some job has reported as added
  claimed,     \* job.result["added_videos"]
  report,      \* job.result["graph"], or what the graph thread raised
  \* locals of the thread handling a job
  at,          \* its point of control
  todo,        \* videos still to index, then videos still to enrich
  before,      \* corpus listing taken before indexing
  after,       \* corpus listing taken after indexing
  video,       \* the video in hand
  copy,        \* its document as this thread last read or wrote it
  seen,        \* videos whose chunks the graph pass read
  \* the shared stores
  doc,         \* raw_transcripts: doc[v], or NoDocument
  chunks,      \* transcript_chunks: videos that have chunks
  entities,    \* the graph: videos all of whose chunks were extracted
  \* history, for the properties only
  added,       \* added[j]: videos whose first document job j stored
  stock,       \* videos fully indexed before the server started
  misread      \* some listing did not show the corpus as it was

queueVars == <<hasGraph, pending, current, status, mode, target, attributed, claimed,
               report>>
localVars == <<at, todo, before, after, video, copy, seen>>
storeVars == <<doc, chunks, entities>>
historyVars == <<added, stock, misread>>
vars == <<queueVars, localVars, storeVars, historyVars>>

(* A video is listed once its raw document is stored, chunks or not. *)
Listed == {v \in Videos : doc[v] # NoDocument}

(* list_corpus answers an empty corpus when the store cannot be read. *)
Listings == {Listed, {}}

Ingests(j) == mode[j] \in {"video", "channel"}

Init ==
  /\ hasGraph \in BOOLEAN
  /\ pending = <<>>
  /\ current = [w \in Workers |-> NoJob]
  /\ status = [j \in Jobs |-> "new"]
  /\ mode = [j \in Jobs |-> "none"]
  /\ target = [j \in Jobs |-> NoVideo]
  /\ attributed = {}
  /\ claimed = [j \in Jobs |-> {}]
  /\ report = [j \in Jobs |-> "none"]
  /\ at = [j \in Jobs |-> "idle"]
  /\ todo = [j \in Jobs |-> {}]
  /\ before = [j \in Jobs |-> {}]
  /\ after = [j \in Jobs |-> {}]
  /\ video = [j \in Jobs |-> NoVideo]
  /\ copy = [j \in Jobs |-> NoDocument]
  /\ seen = [j \in Jobs |-> {}]
  /\ stock \in SUBSET Videos
  /\ chunks = stock
  /\ entities \in SUBSET stock
  /\ doc = [v \in Videos |->
              CASE v \in entities         -> [summary |-> "done", graph |-> "done"]
                [] v \in stock \ entities -> [summary |-> "done", graph |-> "pending"]
                [] OTHER                  -> NoDocument]
  /\ added = [j \in Jobs |-> {}]
  /\ misread = FALSE

-----------------------------------------------------------------------------
(* Submission.  The job record is added, its id is put on the FIFO; nothing  *)
(* but the snapshot order can tell the two apart.                            *)

Put(j, m, t, S) ==
  /\ m \in Modes
  /\ status[j] = "new"
  /\ status' = [status EXCEPT ![j] = "queued"]
  /\ mode' = [mode EXCEPT ![j] = m]
  /\ target' = [target EXCEPT ![j] = t]
  /\ todo' = [todo EXCEPT ![j] = S]
  /\ at' = [at EXCEPT ![j] = "pending"]
  /\ pending' = Append(pending, j)
  /\ UNCHANGED <<hasGraph, current, attributed, claimed, report, before, after, video,
                 copy, seen, storeVars, historyVars>>

(* A video job's URL may be one the CLI can parse and _video_id_in cannot    *)
(* (youtube.com/live/...): then target is NoVideo.                           *)
EnqueueVideo(j) == \E v \in Videos : \E t \in {v, NoVideo} : Put(j, "video", t, {v})

(* A channel job's videos are what its discovery will return, perhaps none.  *)
EnqueueChannel(j) == \E S \in SUBSET Videos : Put(j, "channel", NoVideo, S)

(* run_enrichment picks among the videos listed without a finished graph.    *)
EnqueueEnrichment(j) ==
  \E S \in SUBSET {v \in Listed : doc[v].graph # "done"} :
     S # {} /\ Put(j, "enrichment", NoVideo, S)

EnqueueChannels(j) == Put(j, "channels", NoVideo, {})

Enqueue(j) == \/ EnqueueVideo(j)
              \/ EnqueueChannel(j)
              \/ EnqueueEnrichment(j)
              \/ EnqueueChannels(j)

-----------------------------------------------------------------------------
(* A worker takes a job and starts it.                                       *)

(* Mutant: the job is read from the FIFO and left there. *)
Take_Peek(w) ==
  /\ current[w] = NoJob
  /\ pending # <<>>
  /\ current' = [current EXCEPT ![w] = Head(pending)]
  /\ at' = [at EXCEPT ![Head(pending)] = "taken"]
  /\ UNCHANGED <<hasGraph, pending, status, mode, target, attributed, claimed, report,
                 todo, before, after, video, copy, seen, storeVars, historyVars>>

Take(w) ==
  /\ current[w] = NoJob
  /\ pending # <<>>
  /\ current' = [current EXCEPT ![w] = Head(pending)]
  /\ pending' = Tail(pending)
  /\ at' = [at EXCEPT ![Head(pending)] = "taken"]
  /\ UNCHANGED <<hasGraph, status, mode, target, attributed, claimed, report,
                 todo, before, after, video, copy, seen, storeVars, historyVars>>

(* Worker w's thread moves its job j from one point of control to another.   *)
Step(w, j, from, to) ==
  /\ current[w] = j
  /\ at[j] = from
  /\ at' = [at EXCEPT ![j] = to]
  /\ UNCHANGED <<hasGraph, pending, current, mode, target>>

FirstStep(j) == CASE Ingests(j)             -> "listing"
                  [] mode[j] = "enrichment" -> "graph"
                  [] OTHER                  -> "polling"

Start(w, j) ==
  /\ Step(w, j, "taken", FirstStep(j))
  /\ status' = [status EXCEPT ![j] = "running"]
  /\ UNCHANGED <<attributed, claimed, report, todo, before, after, video, copy, seen,
                 storeVars, historyVars>>

(* A call that returns drops the document it had in hand. *)
Drop(j) == /\ video' = [video EXCEPT ![j] = NoVideo]
           /\ copy' = [copy EXCEPT ![j] = NoDocument]

(* The job ends, its locals with it, and the worker goes back to the FIFO.   *)
(* The second listing stays: the totals of job.result are taken from it.     *)
End(w, j, s) ==
  /\ current[w] = j
  /\ status' = [status EXCEPT ![j] = s]
  /\ at' = [at EXCEPT ![j] = "ended"]
  /\ current' = [current EXCEPT ![w] = NoJob]
  /\ todo' = [todo EXCEPT ![j] = {}]
  /\ before' = [before EXCEPT ![j] = {}]
  /\ seen' = [seen EXCEPT ![j] = {}]
  /\ Drop(j)
  /\ UNCHANGED <<hasGraph, pending, mode, target, attributed, claimed, after, storeVars,
                 historyVars>>

ListBefore(w, j) ==
  /\ Step(w, j, "listing", "indexing")
  /\ \E L \in Listings : /\ before' = [before EXCEPT ![j] = L]
                         /\ misread' = (misread \/ L # Listed)
  /\ UNCHANGED <<status, attributed, claimed, report, todo, after, video, copy, seen,
                 storeVars, added, stock>>

-----------------------------------------------------------------------------
(* The indexing CLI, on its own thread: every video in todo is looked up,    *)
(* fetched, chunked and embedded, summarised.                                *)

(* bulk-index skips what has both a document and chunks. *)
IndexSkip(w, j) ==
  /\ Step(w, j, "indexing", "indexing")
  /\ mode[j] = "channel"
  /\ \E v \in todo[j] \cap Listed \cap chunks : todo' = [todo EXCEPT ![j] = @ \ {v}]
  /\ UNCHANGED <<status, attributed, claimed, report, before, after, video, copy, seen,
                 storeVars, historyVars>>

(* A cached document is used as it is, or first completed with the metadata  *)
(* it lacks, which takes a request.                                          *)
IndexLook(w, j) ==
  \E v \in todo[j], to \in {"fetching", "embedding"} :
     /\ Step(w, j, "indexing", to)
     /\ mode[j] = "channel" => v \notin Listed \cap chunks
     /\ to = "embedding" => v \in Listed
     /\ video' = [video EXCEPT ![j] = v]
     /\ copy' = [copy EXCEPT ![j] = doc[v]]
     /\ UNCHANGED <<status, attributed, claimed, report, todo, before, after, seen,
                    storeVars, historyVars>>

(* The answer has arrived: store a new document, or the completed copy. *)
IndexFetch(w, j) ==
  /\ Step(w, j, "fetching", "embedding")
  /\ copy' = [copy EXCEPT ![j] = IF @ = NoDocument THEN Fresh ELSE @]
  /\ doc' = [doc EXCEPT ![video[j]] = copy'[j]]
  /\ added' = [added EXCEPT ![j] = @ \cup ({video[j]} \ Listed)]
  /\ UNCHANGED <<status, attributed, claimed, report, todo, before, after, video, seen,
                 chunks, entities, stock, misread>>

(* A transcript without segments leaves the chunks as they were. *)
IndexEmbed(w, j) ==
  /\ Step(w, j, "embedding", "summarising")
  /\ \E E \in {{}, {video[j]}} : chunks' = chunks \cup E
  /\ UNCHANGED <<status, attributed, claimed, report, todo, before, after, video, copy,
                 seen, doc, entities, historyVars>>

(* A summary is written, or its failure is, into the copy taken before the   *)
(* embedding; a copy that has one is not written again.                      *)
IndexSummarise(w, j) ==
  /\ Step(w, j, "summarising", "indexing")
  /\ IF copy[j].summary = "done"
     THEN UNCHANGED doc
     ELSE \E s \in {"done", "failed"} :
            doc' = [doc EXCEPT ![video[j]] = [copy[j] EXCEPT !.summary = s]]
  /\ todo' = [todo EXCEPT ![j] = @ \ {video[j]}]
  /\ Drop(j)
  /\ UNCHANGED <<status, attributed, claimed, report, before, after, seen, chunks,
                 entities, historyVars>>

(* bulk-index records a video it could not fetch or embed, and goes on. *)
IndexAbandon(w, j) ==
  /\ \E from \in {"fetching", "embedding"} : Step(w, j, from, "indexing")
  /\ mode[j] = "channel"
  /\ todo' = [todo EXCEPT ![j] = @ \ {video[j]}]
  /\ Drop(j)
  /\ UNCHANGED <<status, attributed, claimed, report, before, after, seen, storeVars,
                 historyVars>>

(* Mutant: what the CLI raises is not caught, and the worker thread dies of  *)
(* it with the job in hand.                                                  *)
IndexFail_Uncaught(w, j) ==
  /\ mode[j] = "video"
  /\ at[j] \in {"indexing", "fetching", "embedding"}
  /\ current[w] = j
  /\ at' = [at EXCEPT ![j] = "ended"]
  /\ UNCHANGED <<queueVars, todo, before, after, video, copy, seen, storeVars, historyVars>>

(* The CLI exits non-zero or raises: index-rag at any step, either command   *)
(* while it refreshes the dashboard after the last video.                    *)
IndexFail(w, j) ==
  /\ \/ at[j] = "indexing" /\ (mode[j] = "video" \/ todo[j] = {})
     \/ at[j] \in {"fetching", "embedding"} /\ mode[j] = "video"
  /\ End(w, j, "error")
  /\ UNCHANGED report

IndexExit(w, j) ==
  /\ Step(w, j, "indexing", "relisting")
  /\ todo[j] = {}
  /\ UNCHANGED <<status, attributed, claimed, report, todo, before, after, video, copy,
                 seen, storeVars, historyVars>>

-----------------------------------------------------------------------------
(* Back on the worker: list the corpus again and claim.                      *)

ListAfter(w, j) ==
  /\ Step(w, j, "relisting", "claiming")
  /\ \E L \in Listings : /\ after' = [after EXCEPT ![j] = L]
                         /\ misread' = (misread \/ L # Listed)
  /\ UNCHANGED <<status, attributed, claimed, report, todo, before, video, copy, seen,
                 storeVars, added, stock>>

(* Mutant: the single-worker rule, "everything that appeared while I ran". *)
Claimable_Window(j) == after[j] \ before[j]

(* Mutant: the first listing is not subtracted. *)
Claimable_NoBefore(j) ==
  LET unclaimed == after[j] \ attributed
  IN IF target[j] # NoVideo THEN unclaimed \cap {target[j]} ELSE unclaimed

(* _attribute_added: what j may report, of the videos nobody has claimed. *)
Claimable(j) ==
  LET unclaimed == (after[j] \ before[j]) \ attributed
  IN IF target[j] # NoVideo THEN unclaimed \cap {target[j]} ELSE unclaimed

Claim(w, j) ==
  /\ Step(w, j, "claiming", IF hasGraph /\ Claimable(j) # {} THEN "graph" ELSE "closing")
  /\ claimed' = [claimed EXCEPT ![j] = Claimable(j)]
  /\ attributed' = attributed \cup Claimable(j)
  /\ todo' = [todo EXCEPT ![j] = Claimable(j)]
  /\ UNCHANGED <<status, report, before, after, video, copy, seen, storeVars, historyVars>>

Close(w, j) ==
  /\ at[j] = "closing"
  /\ End(w, j, "done")
  /\ UNCHANGED report

-----------------------------------------------------------------------------
(* The graph hook, on its own thread, for the claimed videos of an ingest or *)
(* the videos an enrichment job was asked for.                               *)

NoExtractor(w, j) ==
  /\ at[j] = "graph"
  /\ ~hasGraph
  /\ End(w, j, "error")
  /\ UNCHANGED report

GraphRead(w, j) ==
  /\ hasGraph
  /\ Step(w, j, "graph", "extracting")
  /\ seen' = [seen EXCEPT ![j] = todo[j] \cap chunks]
  /\ UNCHANGED <<status, attributed, claimed, report, todo, before, after, video, copy,
                 storeVars, historyVars>>

(* build_graph extracts what was read, all of it or part; with nothing to    *)
(* extract it succeeds.  Opening the graph store may raise in any case.      *)
GraphExtract(w, j) ==
  /\ Step(w, j, "extracting", "marking")
  /\ \E o \in {"ok", "failed", "raised"}, S \in SUBSET seen[j] :
       /\ o = "ok" => S = seen[j]
       /\ o = "failed" => S # seen[j]
       /\ entities' = entities \cup S
       /\ report' = [report EXCEPT ![j] = o]
  /\ seen' = [seen EXCEPT ![j] = {}]
  /\ UNCHANGED <<status, attributed, claimed, todo, before, after, video, copy, doc,
                 chunks, historyVars>>

(* _record_graph_state: read a document, write it back whole with its new    *)
(* graph status.  The write lock covers the write alone.  The ids come from  *)
(* listings and documents are never deleted, so there is always one to read  *)
(* (Inv of IngestionQueueProofs).                                            *)
GraphLook(w, j) ==
  /\ Step(w, j, "marking", "stamping")
  /\ \E v \in todo[j] : /\ video' = [video EXCEPT ![j] = v]
                        /\ copy' = [copy EXCEPT ![j] = doc[v]]
                        /\ todo' = [todo EXCEPT ![j] = @ \ {v}]
  /\ UNCHANGED <<status, attributed, claimed, report, before, after, seen, storeVars, historyVars>>

Verdict(j) == IF report[j] = "ok" THEN "done" ELSE "failed"

GraphMark(w, j) ==
  /\ Step(w, j, "stamping", "marking")
  /\ doc' = [doc EXCEPT ![video[j]] = [copy[j] EXCEPT !.graph = Verdict(j)]]
  /\ Drop(j)
  /\ UNCHANGED <<status, attributed, claimed, report, todo, before, after, seen, chunks,
                 entities, historyVars>>

(* For an ingest a failed graph is a footnote in the result ... *)
GraphFootnote(w, j) ==
  /\ Ingests(j)
  /\ Step(w, j, "marking", "closing")
  /\ todo[j] = {}
  /\ UNCHANGED <<status, attributed, claimed, report, todo, before, after, video, copy,
                 seen, storeVars, historyVars>>

(* ... for an enrichment job it is the failure of the job. *)
GraphVerdict(w, j) ==
  /\ mode[j] = "enrichment"
  /\ at[j] = "marking"
  /\ todo[j] = {}
  /\ End(w, j, IF report[j] = "ok" THEN "done" ELSE "error")
  /\ UNCHANGED report

(* channels_fn returns or raises; it works on the web stores only. *)
Poll(w, j) ==
  /\ at[j] = "polling"
  /\ \E s \in {"done", "error"} : End(w, j, s)
  /\ UNCHANGED report

-----------------------------------------------------------------------------
Work(w, j) == \/ Start(w, j)
              \/ ListBefore(w, j)
              \/ IndexSkip(w, j)
              \/ IndexLook(w, j)
              \/ IndexFetch(w, j)
              \/ IndexEmbed(w, j)
              \/ IndexSummarise(w, j)
              \/ IndexAbandon(w, j)
              \/ IndexFail(w, j)
              \/ IndexExit(w, j)
              \/ ListAfter(w, j)
              \/ Claim(w, j)
              \/ Close(w, j)
              \/ NoExtractor(w, j)
              \/ GraphRead(w, j)
              \/ GraphExtract(w, j)
              \/ GraphLook(w, j)
              \/ GraphMark(w, j)
              \/ GraphFootnote(w, j)
              \/ GraphVerdict(w, j)
              \/ Poll(w, j)

(* Every job has been enqueued and has ended, and no id is left to issue. *)
Drained == /\ \A j \in Jobs : status[j] \in {"done", "error"}
           /\ UNCHANGED vars

Next == \/ \E j \in Jobs : Enqueue(j)
        \/ \E w \in Workers : Take(w)
        \/ \E w \in Workers, j \in Jobs : Work(w, j)
        \/ Drained

Spec == Init /\ [][Next]_vars

(* Callers need never enqueue.  A worker thread keeps running, and requests  *)
(* end: every one of them has a timeout.                                     *)
Fairness == \A w \in Workers : WF_vars(Take(w)) /\ WF_vars(\E j \in Jobs : Work(w, j))

FairSpec == Spec /\ Fairness

-----------------------------------------------------------------------------
(* Properties *)

TypeOK ==
  /\ pending \in Seq(Jobs)
  /\ current \in [Workers -> Jobs \cup {NoJob}]
  /\ status \in [Jobs -> Status]
  /\ mode \in [Jobs -> Modes \cup {"none"}]
  /\ target \in [Jobs -> Videos \cup {NoVideo}]
  /\ attributed \in SUBSET Videos
  /\ claimed \in [Jobs -> SUBSET Videos]
  /\ report \in [Jobs -> {"none", "ok", "failed", "raised"}]
  /\ at \in [Jobs -> Steps]
  /\ todo \in [Jobs -> SUBSET Videos]
  /\ before \in [Jobs -> SUBSET Videos]
  /\ after \in [Jobs -> SUBSET Videos]
  /\ video \in [Jobs -> Videos \cup {NoVideo}]
  /\ copy \in [Jobs -> Document \cup {NoDocument}]
  /\ seen \in [Jobs -> SUBSET Videos]
  /\ doc \in [Videos -> Document \cup {NoDocument}]
  /\ chunks \in SUBSET Videos
  /\ entities \in SUBSET Videos
  /\ added \in [Jobs -> SUBSET Videos]
  /\ hasGraph \in BOOLEAN
  /\ stock \in SUBSET Videos
  /\ misread \in BOOLEAN

(* No video is reported as added by two jobs, however their before/after     *)
(* windows overlap (_attribute_added: "it can never double-count one").      *)
ClaimsAreDisjoint ==
  \A j, k \in Jobs : j # k => claimed[j] \cap claimed[k] = {}

(* What an ingest added is reported by somebody once the ingest is done, if  *)
(* its second listing was read: a claim may go to the wrong job, never to    *)
(* none (_attribute_added: "the corpus totals stay right").                  *)
AddedIsClaimed ==
  \A j \in Jobs : status[j] = "done" /\ after[j] # {} => added[j] \subseteq attributed

(* A job that ends in error has claimed nothing: a failed graph extraction   *)
(* does not fail the ingest whose videos it was enriching (_process).        *)
FailedJobsClaimNothing ==
  \A j \in Jobs : status[j] = "error" => claimed[j] = {}

(* With every job ended well and every listing read, the jobs' added counts  *)
(* add up to the growth of the corpus: the claims, which are disjoint, cover *)
(* exactly what was not there at start-up.                                   *)
CountsAddUp ==
  ~misread /\ (\A j \in Jobs : status[j] \in {"new", "done"})
     => UNION {claimed[j] : j \in Jobs} = Listed \ stock

(* The queue implements what JobBoard promises its callers. *)
Board == INSTANCE JobBoard WITH board <- status, credit <- claimed
ImplementsBoard == Board!Spec

(* Every job enqueued ends, with as few as one worker: no failure of the     *)
(* indexing, the listing or the graph stops a worker.                        *)
EveryJobEnds ==
  \A j \in Jobs : status[j] = "queued" ~> status[j] \in {"done", "error"}
=============================================================================
