# Transcript RAG agent: TLA+ models and proofs

TLA+ models of the stateful core of the transcript RAG agent: the ingestion queue
and what it broadcasts, the ring of Supadata keys, the polling of watched text
channels and the articles these store and revisit, the question bench (the agent
that answers, the history that answers and judgements are stored in), the expert
packs and the deep-research arms built beside them, the eval matrix, and the field
guides. TLC checks them on small instances, TLAPS proves every safety property that
the runs check for every size. Sources are cited relative to the repository
(`src/api/ingestion_queue.py` is the Python package `src`).

## 1. The system

A FastAPI server (`src/api/main.py`) and a CLI (`src/cli.py`) work on the same
stores: Chroma collections for raw transcripts, transcript chunks, summaries
and web chunks, a Neo4j graph, and JSON files beside them. The CLI's commands
are also called in-process by the server's queue, so one process runs several
of them at once; the write lock of a Chroma collection covers single writes,
never a read and the write that depends on it.

| Component | State it keeps | Operations | Meets others through | Hard because | Correct when |
| --- | --- | --- | --- | --- | --- |
| Ingestion queue (`api/ingestion_queue.py`) | jobs, FIFO, set of attributed videos | enqueue (video, channel, enrichment, channels), take, run, claim, end | the index, corpus, graph and channel functions given to it | several workers, overlapping before/after windows, failures at every step | no video is counted twice, none is lost, every job ends |
| Progress broadcasts (same file, `rag/progress.py`, `IndexPanel.tsx`) | subscriber list, one event queue per tab | subscribe, unsubscribe, broadcast | three threads per job broadcast without a common lock | reordering of events, late snapshots | every tab comes to show how a job ended |
| Transcript indexing (`rag/indexing.py`, `rag/storage.py`, `rag/summaries.py`, `cli.py`) | raw documents, chunks, summaries | ensure document, replace chunks, ensure summary, bulk run | shared stores | read-modify-write of whole documents | no lost document, enrichment never undoes the index |
| Graph extraction (`rag/graph_pipeline.py`, hook in `main.py`) | entities per chunk, `graph_status` per document | extract, record state | queue jobs, chunk store | runs while others still embed | the catch-up pass finds whatever is missing |
| Supadata key ring (`transcripts/supadata_keys.py`, `transcripts/fetcher.py`) | active key, exhausted keys | get, back off, retire, poll | every fetcher and discovery client of the process | active key read without the lock | first key left is used, no key asked twice, own key polls |
| Watched channels (`channels/`) | `state.json`: seen ids, validators, failures, verdict per channel | poll, record, ingest, reset, save | queue worker and CLI process on one file | whole-file read and write, crashes, partial failure | seen means stored, nothing untried is hidden |
| Web sources (`channels/ingest.py`, `rag/web_store.py`, `channels/refresh.py`) | source rows, web chunks | ingest, refresh, re-extract | channel polls, refresh loop | two stores written one after the other, no lock across them, validators and hashes that stop a visit early | chunks and row are one version, unchanged means unchanged, a revision names a text |
| Answering (`chat/setups.py`, `agents/rag_transcript_agent.py`) | one cached agent per retrieval variant: last context, rewrite, retrievals | run, answer, rewrite, retrieve, follow up, synthesise | every ask of the server runs on the same agent | per-answer state on a shared object, failures at every stage | a result reports its own retrievals, every ask ends |
| Ask and judge (`chat/history.py`, `chat/session.py`, routes in `main.py`) | one JSON file of entries, one lock per process | ask, re-ask, judge, command-line session | the file | verdict computed before the lock, applied after; a second process without the lock; in-place writes | no stored answer is lost, a verdict sits on the answer it judged, a torn file is not overwritten |
| Expert packs (`rag/pack_build.py`, `rag/packs.py`, `api/packs.py`) | catalogue, manifest, one pack file per arm, a cache of rubric calls | build, route, select, extract, dedupe, override | CLI build and server requests on one manifest | minutes between read and write, kills between files | blocked videos stay out, pins survive, the arms spend alike, no call twice |
| Deep research (`rag/deep_research.py`) | five arms, a report, planner and critic caches | build, frontier round, score | several commands, ingestion and the pack builder on the same files | arms of different builds on disk together, a corpus that moves | arms nest, new ground and new evidence are new, scores are of the report's build |
| Eval matrix (`api/matrix_runner.py`, `evals/matrix.py`, `evals/matrix_cache.py`) | current job, event queues, cell files, run files | start, sweep, answer, save, broadcast, subscribe | server and CLI over one cell cache | events put outside the lock by three threads, files written in place, a moving corpus | done means a whole run, the last event is the outcome, cells are of one corpus |
| Guides (`guides/`, `api/guide_runner.py`) | per guide a directory: export, evidence, page, claims, versions, manifest, comments, receipts | write, revise, verify, comment | the server's runner, commands that know nothing of it, readers | hours of agent sessions that fail anywhere, runs that resume from files, comments that arrive meanwhile | a comment is closed once and by the version that answers it, what is published was verified, a kill blocks no later run |
| Vector retrieval, graph and agentic setups, themes, conflicts, scoreboard, documents, dashboards, STT, frontend, infrastructure | per-request or derived files | | | sequential, or pure I/O | not modelled |

## 2. Modules

| Module | Models | Checked with | Proofs |
| --- | --- | --- | --- |
| `JobBoard` | what the queue promises callers, no workers or stores | as a property of `IngestionQueue` | |
| `IngestionQueue` | queue, workers, indexing steps on the shared stores, claims, graph hook | `MCIngestionQueue`: `QueueSafety`, `QueueProgress` | `IngestionQueueProofs` |
| `ProgressBus` | broadcasts of a job's three senders, connecting tabs | `MCProgressBus`: `Bus` | `IngestionQueueProofs`, last section |
| `ProgressTabs` | the state of `ProgressBus` and what a tab comes to show | with `ProgressBus` | |
| `SupadataKeyRing` | the ring and its pinned polls | `MCSupadataKeyRing`: `KeyRing` | `SupadataKeyRingProofs` |
| `ChannelPoll` | poll runs over one state file | `MCChannelPoll`: `Channels` | `ChannelPollProofs` |
| `WebSource` | one article: ingest, refresh, its row and its chunks | `MCWebSource`: `Web` | `WebSourceProofs` |
| `SetupRunner` | asks that share the cached answering agent | `MCSetupRunner`: `Runner` | `SetupRunnerProofs` |
| `Workbench` | asks, judges and a session over the history file | `MCWorkbench`: `Ask` | `WorkbenchProofs` |
| `TopicPacks` | the state of `ExpertPacks` and what its packs promise | with `ExpertPacks` | |
| `ExpertPacks` | one topic's pack builds, pins and exclusions | `MCExpertPacks`: `Packs` | `GuidesProofs`, last sections |
| `ResearchArms` | the state of `DeepResearch` and what its arms promise | with `DeepResearch` | |
| `DeepResearch` | deep-research builds, frontier rounds and scoring of one topic | `MCDeepResearch`: `Deep` | `SetupRunnerProofs`, last section |
| `MatrixRun` | a matrix job, a command, their cell cache and progress streams | `MCMatrixRun`: `Matrix` | `MatrixRunProofs` |
| `Guides` | one field guide's directory: its writer's and reviser's runs, `guides verify`, comments | `MCGuides`: `Guides` | `GuidesProofs` |

`IngestionQueue` composes the queue with the components it drives (indexing,
corpus listing, graph hook) because the properties are about the interleaving
of their reads and writes. `ProgressBus` and `IngestionQueue` share the queue's
source but no variable: a broadcast changes no job, so each can leave the
other's steps out. A channel poll is one step of a queue job in
`IngestionQueue` (`Poll`): it touches only the web stores, which `ChannelPoll`
takes up, with the worker as one of its `Runs`. `WebSource` takes up what
`ChannelPoll` has as one step, the storing of an article: articles share nothing
(`source_key` and the chunk ids are per article), so one is enough.
`Workbench` has as one step what `SetupRunner` does between the submission of a
question and the answer: the agent is in memory and the history in a file, and
nothing else joins them. `ExpertPacks` and `DeepResearch` write different arms of
a topic's directory and share the routing, the floors and the rubric-call cache;
each models them as far as its properties need. `MatrixRun` is the second user of
the queue's broadcast discipline, with the lock held over the copy of the
listeners and the building of the event, and with one runner that puts the last
event: a stream that is seeded before the outcome is put does end with it, where a
tab of the queue may not. One whose seed is put behind the outcome shows the
older state (section 4). `Guides` stands alone: a guide reads the corpus
and writes its own directory.

Three modules have their proofs in the proof module of a component they belong
with: the broadcasts are the queue's, the rules an answer follows come from deep
research, and packs and guides are the two artifacts that are written over a topic.
The constants, the variables and the promises of these three are in modules of
their own (`ProgressTabs`, `TopicPacks`, `ResearchArms`), which the component
extends. So does the proof module, which instantiates the component over that
state (`Bus`, `Topic`, `Deep`): its theorems are about the component's
specification and state the promise by its name.

Definitions whose comment begins with "Mutant" are no part of a specification:
each is a plausible bug in the definition that follows it, kept to show that a
property can fail.

### IngestionQueue

`pending`, `status`, `mode`, `attributed`, `claimed` are the fields of
`IngestionQueue` and `IngestionJob`; `current[w]` is the job worker `w` holds;
`at[j]` is the program counter of the thread that works for job `j` (a worker
waits for its inner thread, so there is one). `before`, `after`, `todo`,
`video`, `copy`, `seen` are locals. `doc`, `chunks`, `entities` are the stores
reduced to what the properties tell apart: a document's two enrichment fields,
whether a video has chunks, whether its chunks were extracted. One action is one
read or write of something shared: listing, looking a document up, storing it,
embedding, writing a summary, claiming under the lock, reading chunks, recording
a graph state (a read and a separate write). Any step that can fail in the code
can fail in the model: `index-rag` exits non-zero, `bulk-index` records the
video and goes on, the dashboard refresh after the last video fails, the graph
raises or reports failed chunks, a listing comes back empty.

Left out: `--refresh` (the queue never passes it), the summary collection beside
the raw document, and a crash of the process: nothing of the queue is persisted,
so a restart is the initial state with a larger `stock`. `hasGraph` says whether
the queue was given a graph hook. `added`, `stock` and `misread` are history
variables: what a job stored first, what was indexed before the server started,
whether a listing ever did not show the corpus.

### ProgressBus

A job shows its place on a timeline: queued, running, staged, ended.
`_broadcast_job` is three kinds of step (`Collect` under the lock, `Build`,
`Deliver` per subscriber), run by the enqueuing request, the worker and the indexing
thread. `sender[j][r]` is where a thread stands, `recipients[j][r]` whom it has
still to put its event to. `subscribe` is `Join`, `Snapshot`, `Seed`. A tab's queue
is FIFO and the page applies events in order, so `view[t]` is updated when an event
is put. `clear[j]` is a history variable: the tabs that the end of `j` reaches with
the enqueuing broadcast out of the way, or that joined after the end.

### SupadataKeyRing

`active` and `exhausted` are the ring's; a call is `Pick` (read without the
lock), requests on that key (`Answer`, `Refuse`, `Throttle`, `Unreachable`), and
`MarkLast` or `MarkAndMove` under the lock. `usedUp` and `owner` belong to
Supadata. A transcript answered by 202 is polled with the key that started it
(`Accept`, `Check`, `Pending`, `TimeOut`).

### ChannelPoll

`file[c]` is a channel's entry in `state.json`, `mem[r]` the copy run `r` read
when it began. `Recall` is what a run holds about a channel when it comes to it
(after `reset`, if asked for); `Fail`, `NotModified`, `Find` and `Skip` are one
poll folded in by `record_poll`; `Known`, `Store` and `Miss` are the outcomes of
`WebIngestor.ingest` that the loop tells apart; `Save` writes the whole map;
`Crash` may stop a run anywhere. ETag and Last-Modified are one tag, equal to the
feed it came with. Left out: time and intervals (a channel that is not forced may
be due or not), the limit of 5000 seen ids, the two halves of `save`, dry runs.

### WebSource

`row` is the article's `web_sources` row, `chunks` its `web_chunks`. A run (a poll
or a refresh, of the server or of the CLI) takes a candidate (`Offer`, `Refresh`),
reads the row (`Look`), fetches, and ends with the fetch (`Miss`, `Block`,
`NotModified`, `Same`) or goes on to store (`Found`, then `ReadIds`, `Upsert`,
`Trim` of `WebChunkStore.replace`, then `StoreRow`). `Build` is `_build_source`,
field by field. `site` is the page, which may be edited or moved at any time;
`vintage` the extractor and chunker installed. `Crash` stops a run anywhere, and
stands for the exceptions that `ingest` lets through. A document is what the page or
the feed serves, with its validator, a text what an extractor makes of it
(`Extract`), with its hash: another vintage may make another text of the same
document. A site may answer without a validator. `torn` and `alone` are history
variables: a run was killed between its chunk write and its row write; no two runs
were at work on the article together. Left out: when a source comes due, the title,
dates and reasons of a row, and the reuse of vectors by hash, which decides what is
embedded and not what is stored.

### SetupRunner

`agent` holds the three fields of `RagTranscriptAgent` that outlive a call;
`run[r]` is the thread of one ask: where it is, its setup, its query, the
follow-ups made, the result. `Enter` is the lookup and clearing in `run`,
`RefuseRequest` a malformed URL, `Answer`, `Rewrite` and `ReadQuery` the start of
`answer`, `Retrieve`, `FollowUp` and `Merge` the single-hop and the recursive
pipeline, `Build` and `BuildError` what is read off the agent at the end. A
retrieval may fail before it records a pass, with its pass recorded, or after its
context became the agent's. `alone` is a history variable: the asks that never
shared the agent. Left out: what is retrieved, the setups with agents of other
classes, and document reviews.

### Workbench

`history` is the parsed file, or torn; `lock` is `history._LOCK`, which the
command-line session does not see. A request is `Submit` or `JudgeRequest`
(unlocked reads), then `Load` (lock, load, change), `BeginWrite` (opening the file
empties it) and `EndWrite`, which may also leave the tail of what another writer
put there. `Changed` is the `mutate` of `_append_answers` and of the judge.
`Abandon` is a client that goes away, `Kill` the server's end at any point.
`overlap` and `overtaken` are history variables: the session and a request had
the file loaded together; a re-ask replaced an answer that a judge was scoring.
Left out: the chat page written after each save, outside the lock.

### ExpertPacks

`blocked` is the catalogue's exclusions, `packManifest`, `arms` and `cache` the
files, `build` the running command, `request[r]` an override request. `Start` is
everything `build_topic` reads before its first arm; then per unit `UseCached`,
`Call` or `CallFails`, per arm `SaveArm`, and the manifest in two steps. `Members`,
`SharedBudget` and `SelectUnits` are the code's functions; the units that pass the
floors are a function of the topic's members (`RaptorUnits`, `GraphUnits`), because
the clustering behind them reads nothing that a build writes. `MergeUnits` gives the
n-th unit of the alternation directly, where the code takes one of either pool in
turn until both are empty. `Kept` is `dedupe_rubrics` with equality for similarity.
A kill may leave the file in hand torn. The manifest is read back as empty when
torn, a torn cache row is a miss. `wish` and `raced` are history variables: the pins
as requests answered them, and whether two read-modify-writes overlapped or the file
was torn. Left out: the clustering behind the pools, citation checks, gap texts, and
the ablation that scores the arms.

### DeepResearch

`corpus` is how often the live corpus was re-indexed and how much of it there is;
its digest is that pair, so `Reproducible` (`corpus_as_built`) is the existence of a
prefix with the digest. `job` is a build or a frontier round and `pack` what it
carries from one arm to the next: plan, first round, one-shot control, critic,
second round, report; or coverage critic, frontier arm, admission arm, report block.
`Retrieve`, `Admit`, `Dedupe`, `PublishOver` are the code's functions, with a
passage per video and equality for similarity. A pack's rules are a set ordered by
`rank`, the number in the rule's unit id; the later rounds number from 50 and from
60, so a first round of at most 50 probes comes first. The code's loops over rules
are stated by what they return: a rule is deduped when one of lower rank states the
same (whatever else was dropped, the first statement of a rule never is), and a
candidate is admitted when it quotes a passage that neither the inherited rules nor
the candidates before it quote (a refused candidate quotes nothing that was not
quoted already, so counting it changes nothing). `memo` and `cache` are the call
caches. `score` is a scoring run in another process, which reads every arm on disk,
of whichever build it is. `unsettled` is a history variable: a build ran beside the
scoring run, or was killed. The two reads of the corpus at the start of a build are
one step. Left out: the hand-built pack and rediscovery, diagnostics computed into
the report, routing itself.

### MatrixRun

`job` is `MatrixRunner._job`, `sweep[p]` the run of `run_matrix` in the job's worker
thread or in the command, `sending[j][t]` an event built by one of the three threads
that broadcast for a job and not yet put, with the streams it is for. `Digest` is
the one read of the corpus, `Hit`, `Answer`, `BeginCell`, `EndCell` a cell,
`BeginRun` and `EndRun` the commit, `Raise` a sweep or commit that raises, `Finish`
the runner's end of the job. A cell's fingerprint is its name and the digest; the
other parts of it do not change during a run. `moved` is a history variable: the
corpus changed under a sweep. `follows` of a stream is one too: the job's outcome is
its last event or still to be put into it, which fails where an older seed, or an
event of an earlier job, is put behind the outcome. Left out: refresh, the scores
and the comparison, and two writers of one cell file leaving a mixture (a mixture
does not parse and reads as a miss, like a torn cell).

### Guides

The directory of one guide, a variable per file: `corpus` (the selection last
exported), `evidence`, `page` (`guide.html`), `claims`, `versions`, `manifest`,
`letter` (the reviser's `receipt.json`), `receipts`, and the comments as those in
`comments.jsonl` (`asked`) and the version that resolved each (`resolved`). `run[a]`
is what an actor is doing, with the locals of `write_async` or `revise_async`: the
server, whose `GuideRunner` holds one job, and a command, which does not ask it. An
action is one file read or written, or one agent session with the files it leaves.
Sessions write what they like within their brief: a page that verifies or does not
(`sound`), a receipt for some comments, all or none; they may then end well or
raise, and an extraction may end well without having written. A page records what
the properties tell apart: the videos it was composed from, whether every cite
resolves, the comments its revisers were given, and whether its chrome was
normalised since. A pass's evidence has the videos it lists and those it was taken
from: `VerifyEvidence` sets the first, whatever the file held. `last`, `cut`,
`silent` and `overlap` are history variables: how the last run ended, whether an
extraction broke off before its check, the passes whose last session to end well
wrote nothing over a file that was there, whether two runs have worked on the guide
at once. A revision that has only listed the comments works on nothing yet
(`Unworked`), so the time between the request and `revise_async` is no overlap. A
confirmed selection is split into at most `MaxClusters` passes. `StartWrite` joins
the route and, where the export need not be repeated, the choice of the passes to
run. The number a rewrite or revision takes, the rewriting of the page's chrome in
place, which is not verified again (`Normalise`), the check that the number is free,
the copy, the manifest, the receipt and each comment's closing are steps of their
own. A kill may fall between any two, and may tear the file its step writes,
whichever that is: a JSON file then does not parse, a version is there and not
whole, and what is left of the page may verify or not. Left out: the markdown copy,
a forced import over a published guide, scoping, the job's events (the discipline of
`ProgressBus`), web sources and the parsing of pages; the corpus a cite resolves in
does not change.

## 3. Runs

| Run | Instance | Shows |
| --- | --- | --- |
| `queue_safety` | 2 jobs of any kind, 2 workers, 2 videos, each indexed before or not, with and without a graph hook, any listing may fail | `ClaimsAreDisjoint`, `CountsAddUp`, and `ImplementsBoard`: the queue refines `JobBoard` (under 2 minutes) |
| `queue_progress` | the same with 1 fair worker, which any failure could take away | `EveryJobEnds` (under 2 minutes) |
| `bus` | 1 job, 2 tabs, fair threads | `EndIsTheLastWord`, `TabLearnsOfEnd` |
| `key_ring` | 3 keys, 2 threads, 2 attempts, fair threads | `NeverAsksTwice`, `PollsWithOwner`, `EveryCallEnds` |
| `channels` | 1 channel, 2 items, 1 per poll, 2 runs, limit 2 | `SeenIsStored`, `TagHidesOnlyMisses`, `DisabledAtLimit` |
| `web` | 1 run after the other, 2 documents of which one exceeds the fetch cap, 2 vintages that make 3 texts of them, 2 URLs, up to 3 revisions and 4 misses | `StoredIsReadable`, `RowDescribesChunks`, `UnchangedIsCurrent`, `NoUrlForgotten` |
| `runner` | 2 asks of either setup, up to 2 follow-ups, fair threads | `AloneIsOwn`: an ask with the agent to itself reports its own record only. `EveryAnswerEnds` whatever the other ask does |
| `ask` | 2 questions, one of which may re-ask the other's entry, 2 judges, 1 session, 1 kill | `NothingLost`, `EvaluationIsOfThisAnswer`, `TornIsKept` |
| `packs` | 2 builds, 1 override request, 1 exclusion, 2 videos, 2 units per pool, 1 fault | `BlockedStayOut`, `PinsKept`, `ManifestNotAhead`, `ArmsSpendAlike`, `OneCallOneRule` |
| `deep` | 3 commands, 1 scoring run, 1 plan, 5 passages, 3 questions, 1 fault, an ingestion | `NestedArms`, `OffTheGround`, `RestsOnItsOwn`, `ScoresOfThisBuild` |
| `matrix` | 1 job, 1 command, 2 cells, 1 stream, a corpus that changes once, 1 fault, fair threads | `CellsOfOneCorpus`, `DoneCanBeOpened`, `LastWordIsTheOutcome`, `EveryJobEnds` |
| `guides` | server and command, 4 runs, one at a time, 1 kill, 1 fix pass, 2 comments, selections of 2 passes and of 1 | `ClosedByItsReceipt`, `ClosedOnce`, `NumberIsFree`, `PublishedIsVerified`, `PageIsCurrent`, `EvidenceFits` (under 2 minutes) |

Every module states its type invariant, `TypeOK`. All but `JobBoard`'s are theorems,
so the runs spend their time on the properties that interleavings, failures and
kills can break. Proved as well are the invariants `AddedIsClaimed`,
`FailedJobsClaimNothing`, `ActiveIsFirstLeft` and the action properties
`MovesForward` and `RevisionsCountTexts`; the runs leave them out.

Bounds and why they suffice. Claims go wrong between two jobs, over a video one of
them did not add: two jobs, two workers and two videos give every overlap of two
windows, and the proofs cover any number. That no failure stops a worker shows most
clearly where there is one: the second job waits for it. Every job id is used once,
which bounds a run and makes it end (`Drained` stands for that, so deadlock is still
checked). The senders of a job interleave among themselves; jobs meet only in the
subscriber list, so one job suffices, and two tabs let one be served between two
deliveries to the other. The ring needs three keys so that a thread can hold a key
that is neither active nor last. Two runs are needed for a stale save, two items
with room for one for the items that a poll leaves behind, a limit of two for a
failure short of it. With one channel, `Left` holds one element; the file is still
read and written whole. Symmetry is used only in runs without liveness. An article
needs two documents whose texts differ in length and a second vintage that makes
another text of the one, and other chunks of the same text of the other, so that a
rewrite may leave chunks over in three ways (edit, re-extraction, a kill before the
delete); two URLs for a move and a move back; three revisions so that a text can
come back; four misses because the fourth takes a lost article off the schedule. The
run has one process at work at a time (which one is killed, and the next one finds
what it left); that `StoredIsReadable` and `UnchangedIsCurrent` also hold with any
number of overlapping runs is what their proofs show. Two asks are enough for one to
write over the other's record between two of its steps; two follow-ups let a
recursive answer keep more than its first retrieval. A history needs an entry that
two requests want, judges beside them - two, so that one may evaluate what the other
has - and a second process; one kill tears the file and the requests after it find
it so. Two builds make a rebuild; of four units one speaks of both videos, so a
topic of one video leaves the pools unequal, which is where the budget matters. In
`deep` two of three questions rank the same passage first, so that probes overlap
within a round and between rounds; the fifth passage is ingested later; three
commands are a build, a frontier round on it and a rebuild, in any order, so that a
scoring run finds arms of two builds; a single probe is the first round, so that
plans have a rest for the control. Two cells let one come from the cache and one
not. The run has one job; of a second one's meeting with events of the first that
are put late the proofs speak, which hold for any number of jobs. Four runs on a
guide are a write, a revision and two more that find what they left, or four that
resume one another's files after failures and a kill; what follows two runs at once
is not searched (`Apart`, a constraint), because the properties except it; a wider
and a narrower selection let evidence of the one lie in the way of the other; of two
comments one can arrive during the revision of the other. One fix pass tells a page
that verifies at once, after it, or never. `Symmetry` permutes rules and requests,
videos, runs or comments, never what an operator of the instance names.
`CHECK_DEADLOCK FALSE` is set for `bus`, where the job may have ended and every tab
have gone, and for `guides`, where the bound on the runs lets everything come to
rest.

Fairness. Workers are threads in an endless loop and every request they make has a
timeout, so a worker's next step is weakly fair; enqueuing is not. In `ProgressBus`
a started call finishes; the end of a job needs strong fairness because a heartbeat
takes the waiting worker away from it again and again, and an index run does end. In
`SupadataKeyRing` a thread goes on and the deadline of a polled job passes (strong
fairness of `TimeOut`, which is looked at between two polls). In `SetupRunner` a
thread that entered goes on: each of its calls has a timeout. In `MatrixRun` the
job's worker thread and the runner's thread go on, each for itself, and no heartbeat
is assumed. `Workbench`, `ExpertPacks`, `DeepResearch` and `Guides` claim no
liveness. No fairness is assumed for stages, heartbeats, pages, feeds or failures.

## 4. Where code and text disagree

The models show where the code does not do what a doc or a comment of it says. No
run is kept for these: each can be seen by following the named actions, or by
dropping the named condition from a property and running TLC.

* "a pack is rebuilt from the corpus and a human's decision must survive that. The
  rebuild reads these back and reapplies them" (`src/src/rag/packs.py:1095-1097`):
  `build_topic` reads the pins when it starts and writes them into the new manifest
  when it ends (`src/src/rag/pack_build.py:460`, `:499-506`), so a pin answered 200
  in between is overwritten. `PinsKept` without `raced` is violated by one build
  and one request; with it, it is what does hold: without such an overlap and a
  kill in the middle of the manifest, pins survive any number of rebuilds.
* A raw document is listed before its chunks exist. A job that lists it then and
  claims it extracts nothing, and the hook records `done` (`GraphRead`,
  `GraphMark`), so `run_enrichment` never selects the video. `_record_graph_state`
  exists to rule this out: without its record "the catch-up pass has nothing to
  select on" (`src/src/api/main.py:563-565`).
* An event built before a job's end may be put after it, by the enqueuing request
  or as a late snapshot (`Collect`, `Build`, `Deliver`, `Snapshot`, `Seed`), and
  nothing corrects the tab until it reconnects. `EndIsTheLastWord` is what holds.
* `record_poll` keeps the feed's validator although a candidate failed, and a 304
  lists nothing (`Find`, `NotModified`), so the candidate is not "offered again
  next time" (`src/src/channels/schedule.py:78-80`).
* The last run to save wins (`Save`), so an overlapping run re-enables a channel
  that another has just disabled, without a reset (`schedule.py:56-58`).
* `candidate_for` carries no `body_html`, so a refresh of an article kept from its
  feed fetches the page (`Refresh`, `Pages`); a page below the word floor makes
  the article `blocked`, which is never due again.
* An unchanged visit of a truncated article sets `live` (`Confirmed`), so the flag
  the readme promises (`src/readme.md:610`) is gone; the `truncated` column stays.
* "a citation that says "revision 4" has to mean the document was edited four times"
  (`src/src/channels/ingest.py:272-275`): `text_changed` compares hashes of extracted
  text, so an extractor that makes another text of the same document adds a revision
  (`Upgrade`, then `Changed`), and so does the first page fetched for an article that
  was stored from its feed. `RevisionsCountTexts` is what holds.
* "the arms are still comparable to *each other* - they were all built at the build
  digest" (`src/src/rag/deep_research.py:1367-1368`): a build leaves the frontier and
  admission arms of the one before on disk, and `score_research` scores them into the
  new report beside its own arms (`StartScore` after a second build).
  `ScoresOfThisBuild` is about the arms a build makes.
* "so no reader ever sees a half-applied update" (`src/src/api/matrix_runner.py:114`)
  holds of the matrix runner's events one by one, not of their order. `subscribe` lists
  the stream before it takes the snapshot, and puts that without the lock (`:102-104`),
  so a snapshot that says "running" may be put behind the outcome, and nothing but a
  reconnect corrects the stream (`TakeSnapshot`, `Finish`, `Put`, `PutSnapshot`).
  `LastWordIsTheOutcome` excepts that stream (`follows`), and one that is put an event
  of an earlier job behind the outcome.
* Two asks at once mix their records (`Build` without `alone`), although the
  clearing is said to make a persisted trace contain "steps this answer recorded"
  only (`src/src/chat/setups.py:846-847`).
* A build killed between `SaveRoundOne` and `SaveRoundTwo` leaves rounds of two
  builds; the frontier round checks the corpus of the first only
  (`StartFrontier`) and `deep-r2-admit` joins rules of both.
* "every cell in this run retrieves from the same corpus by definition"
  (`src/src/evals/matrix.py:175-176`): the digest is read once, and a corpus that
  grows during the sweep (`Ingest` between `Digest` and `Answer`) is answered over
  under the old digest, and cached under it.
* "each pass's claims are verified (chunk exists, quote occurs) before composition"
  (`src/readme.md:1497-1498`): an extraction session that fails or is killed after
  it wrote its file leaves evidence that names its videos, because the extractor
  writes them itself (`src/skills/field-guide-writer/SKILL.md:43`), and the next
  run skips it unchecked (`EvidenceMatches`). `EvidenceFits` excepts it (`cut`).
* "guide.html is a copy of the latest" (`src/readme.md:1456`) and "a failed run, not
  a partial one" (`src/src/guides/writer.py:798-799`): a revision that fails after
  its session leaves the edited `guide.html`, and the next write or revision
  publishes what it finds there (`Revise`, then `SessionFails`). `PageIsCurrent` is
  what holds.
* A rewrite under the same slug with other videos finds a page and composes none
  (`Extracted`): the old page is published under the new videos, as `page.of` and
  `manifest.of` show. Evidence of a wider selection stays and still counts.
* "Only skip re-extraction when the cached evidence covers this exact cluster"
  (`src/src/guides/writer.py:457`): a session that ends well without writing leaves
  the file another selection's run made under the same number, which passes as the
  session's (`src/src/guides/writer.py:429`) and is given this pass's videos
  (`:470-471`). The composer reads it, and later runs skip the pass (`Extract`,
  `VerifyEvidence`). `EvidenceFits` excepts it (`silent`).
* "nothing unverified is published" (`src/readme.md:1499-1500`): the page is given
  its chrome after the last verification and copied as it then is (`Normalise`); no
  cite changes by that, but a kill in the middle of it leaves a `guide.html` cut short,
  which the next run does not compose again (`Extracted`) and publishes if what is
  left of it verifies. The page an importer brings as version 1 may have cites that do
  not resolve; every later version was verified (`PublishedIsVerified`).
* "versions are immutable" (`src/src/guides/writer.py:647`): the server's job and a
  command at once may pass `PublishCheck` for the same number and copy over each
  other; `guides verify` writes back the manifest it read and may so turn
  `current_version` back (`WriteRate`). The properties of `Guides` except it
  (`overlap`).

Also visible in the models: a key that is only rate limited is retired
after `throttle_retries` attempts (`GiveUpOnKey`), as the field's comment says and
the module docstring of `supadata_keys.py` denies; a move with unchanged text is
not recorded (`Same` leaves `live` alone); a 403 or 429 counts as a miss and leads
to `gone`, where the readme's table has `blocked`.

## 5. Proofs

All proofs are checked by TLAPS with no assumption but the ones on the constants,
which TLC evaluates in the runs: null values differ from the values they stand for,
limits are positive, what a topic's members are given as pools are sequences of
units without repetition.

* `IngestionQueueProofs`. `IInv` adds to the properties what makes them
  inductive: a worker's current job is at a step of its mode and nobody else's
  (`Control`), `attributed` is the union of the claims, a job past its claim has
  claimed what its second listing shows it added, documents are never removed so
  every id in a listing has one. `Invariance` proves it step by step, one lemma
  per group of actions; `TypeCorrect`, `NeverDoubleCounted`, `NothingAddedIsLost`
  and `ErrorsReportNothing` follow. `QueueImplementsBoard` maps each step to a
  step of `JobBoard` or a stutter: `Put` to `Submit`, `Start` to `Begin`, `Claim`
  to `Credit`, the endings to `Succeed` or `Fail`. `CountsAreComplete` needs a second
  invariant beside `IInv`, that nothing fills the corpus but the jobs: every listed
  video was in stock or added by one (`Sums`), the window of an ingest opens on the
  stock and its second listing shows what it added (`Window`). Both hold until a listing
  is misread (`Kept`), after which `CountsAddUp` claims nothing: a listing that comes
  back empty makes the counts wrong.
* `ProgressBus`, in the same module. `EndIsLast` follows from `BusInv`: where the
  three threads of a job stand agrees with what the job shows (`BusThreads`); only a
  tab on the list is sent anything (`BusTabs`); and for a tab the end reaches cleanly,
  every event of the job still to be put on its queue is the end, the snapshot it
  waits for shows the end, and once seeded it shows the end or the worker has it to
  put (`BusClean`).
* `SupadataKeyRingProofs`. `ActiveIsFirstLeft` alone is not inductive: a thread
  that retires the active key needs to know that its own key is the first one
  left, and one that retires another key that the first one left is untouched.
  `IInv` adds that a call's retired keys are exhausted, that a thread at work
  holds a key, and that a polling thread holds its job's key. `NoWayBack` proves
  the action property from it.
* `ChannelPollProofs`. `IInv` says what any memory of a channel, in a run or in
  the file, may claim (`Honest`): seen items are stored; the items of its tag are
  stored, missed, or in the hand of that run; count and verdict agree. Saving
  copies a memory of a run with empty hands, so the file never depends on items
  in hand, whichever run saves and whatever it overwrites.
* `WebSourceProofs`. `IInv` has four parts that hold however runs overlap and one
  that holds while they do not. `Rows`: every row, stored, read or about to be
  written, has a validator that is none or its own text's, and a row about to be
  written follows the one its run read. `Candidates`: only a refresh holds a stored
  row, and it has no body, so a matching hash is a match with the page. `First`: no
  run ever plans to delete the first chunk, and one past its upsert has written it;
  with rows coming last this makes every stored article readable. `Solo` and
  `Described`, under `alone`: the run at work read the row that is there; what it
  will delete is what its upsert left over. `UnchangedIsTrue`, `UrlsKept` and
  `RevisionsNameTexts` are action properties proved from it.
* `MatrixRunProofs`. `DoneCanBeOpened` and `CellsOfOneCorpus` are inductive only
  beside what a sweep has at each point: results no longer than the list of cells, an
  answer where one is saved (`Progress`), a run file that is missing before the
  commit, unwritten during it and whole after a complete sweep (`RunFiles`), and, while
  no corpus moved, cell files, results and digest of one corpus (`OneCorpus`).
  `Current`: a sweep under way is the current job's, and it has ended when the job
  has. `LastWordIsTheOutcome` follows from `PutInTime` - a thread puts its event before
  its next step, so by the end of a sweep the start's and the cells' events are put -
  and from `Outcome`: a stream that follows an ended job shows its outcome, or is on
  the list of the one event still to be put. Nothing orders the puts of two jobs: an
  earlier job's outcome, built with its list of streams, may be put even behind the
  next job's outcome. The property excepts the streams this happens to.
* `GuidesProofs`. One half of `IInv` holds whatever overlaps. `Equipped`: what a run
  has at hand at each stage. `Room`: the highest version and every number taken,
  with the runs that have yet to take one, are within the runs started, so a number
  never runs out and each run finds one. `Checked`: unverified evidence is about to
  be verified or was cut off. `Origins`, a second layer for `EvidenceIsComplete`:
  evidence is of the videos it lists, or, until it is checked, of those of the run
  that had it written, unless the session wrote nothing. The other half of `IInv`,
  `Alone`, is claimed while one run at a time works on the guide: that run is the
  only one (`Lone`); what it has made of the files at its stage (`Holds`) - all
  versions are below its number until it copies the page, its page was verified and
  its claims are that page's, the comments it is about to close are open and its
  receipt answers them; the manifest's version is whole (`Sound`), each closed
  comment's version, receipt and manifest agree (`Closed`), and when nobody writes
  the page is the current version (`LeftCurrent`). Failures and kills keep it
  because each file is written once and after what it depends on.
  `CommentsCloseOnce` is an action property from the same invariant.
* `ExpertPacks`, in `GuidesProofs`. First what the arms may spend, for pools of any
  length: `ArmsOfOneLength` rests on `BudgetIsShared` and on the length of a merge
  (`MergeIs`). Then `TopicInv`. `TopicPins`: while no two read-modify-writes of the
  manifest overlapped, who holds a copy of it holds it alone, with the pins that
  count. `TopicOrder`: the arms before the one in work are saved, and any manifest -
  the file, or a request's draft - speaks of arms that are there and are not older.
  `TopicFiles` and `TopicBuild`: an arm on disk holds the selection from its members,
  no blocked member, and of each unit the rule remembered for it, and so does what
  the build has found so far. A torn file is excepted where the code cannot tell.
* `DeepResearch`, in `SetupRunnerProofs`. `ResearchInv` says what a command has made
  of the arms at its step (`JobHas`): past its first round a build carries the pack
  that is on disk as `deep-r1`, and its other arms are its own by the time of the
  report. `Opening` is what a first round is to whatever builds on it: its ranks are
  the lowest and no two of its rules state the same, which is why a publication over
  it drops none of them (`JoinKeeps`). `ArmsHave`: an arm on disk is of a build that
  was started, and a build under way has none before it saves one. `Measured`, for
  `ScoresFit`: while nothing unsettled them, the report, the three arms a build
  makes and a scoring run to come are of one build. `AddedRulesRest` joins the
  admission's promise for the candidates (`AdmittedRest`) with the dedupe that
  follows it.
* `SetupRunnerProofs`. `AloneIsOwn` is about a result; `IInv` follows it back through
  the run. `Solo`: an ask that is alone with the agent is the only one inside the
  runner, since entering beside another takes the word from both. `Mine`: what the
  agent holds while such an ask is at work - context, rewrite, every retrieval - and
  what its thread has read back is its own; each step keeps it because the
  answer starts with clearing the record. `Fresh`: a result is made once, at the end.
* `WorkbenchProofs`. `NothingLost` needs to know what is about to be saved. `Drafts`:
  while a process has the history loaded, its draft is the file as it is with that
  process's one change, because the lock has one holder (`Locked`) and the session
  has not met a request (`Apart`); while it writes, the file is torn and the draft is
  good. `Good` is the same for the file, for a draft and for what a load will make:
  every done request has an answer where its ticket says (`Kept`), whoever wrote an
  answer had the ticket for it (`Authored`), evaluations and those still to come fit
  their answers or were overtaken (`Scored`, `Current`), and the session's entry is
  empty until it saves (`Unsaved`), which is why nobody can want it before (`Early`).
  One lemma shows that a step which saves nothing keeps contents good (`GoodStays`),
  one that what is saved is good (`SavedIsGood`).

Only model-checked: liveness (`EveryJobEnds` of the queue and of the matrix,
`TabLearnsOfEnd`, `EveryCallEnds`, `EveryAnswerEnds`), because the prover handles
neither fairness nor `ENABLED`.

## 6. Not modelled, and the plan

In this order:

1. Proofs: every safety property of a run is a theorem. What is left are statements
   no module makes yet: an abstract history that `Workbench` implements while the
   session stays away, and an abstract board for the one job of `MatrixRun`.
2. `StateFile`: `save` split into temporary file and rename under one shared
   name, two writers and a crash; to be composed with `ChannelPoll`.
3. `ChunkStore`: two re-indexings of one video (list, upsert, delete).
4. Pure functions against reference definitions on bounded inputs: rank fusion,
   chunk windows, the interval arithmetic of polls and revisits.

`ChannelPoll` and `WebSource` are to be joined by a statement of what ingest
promises the poll loop, which the second is shown to implement. Of the modelled
parts these stay out: the chat page written beside the history (a rendering that
the next save repeats), the id of a matrix run, which two sweeps started in one
second share, and the scoreboard's reading of run files. Poll intervals, feed and
robots parsing, vector retrieval, the graph and agentic setups, themes, conflicts,
the critique experiments, dashboards, speech input, the frontend beyond the queue
panel and the infrastructure stay out: they are sequential computations around a
language model, derived files, parsers of external text, or pure I/O.
