------------------------------ MODULE MatrixRun ------------------------------
(***************************************************************************)
(* The eval matrix: a job of the workbench (MatrixRunner) and an           *)
(* `eval-matrix` command sweep the same cells over one cell cache on disk   *)
(* (run_matrix) and commit their runs as files, while ingestion changes the *)
(* corpus and either process may be killed.                                *)
(*                                                                         *)
(* A cell is a pair of a setup and a question; its result is abstracted to  *)
(* the corpus it was answered over, and a corpus to how often it has        *)
(* changed, which is also its digest.                                      *)
(***************************************************************************)
EXTENDS Naturals, Sequences, SequencesExt

CONSTANTS
  Cells,        \* the cells of a sweep, in its order
  Jobs,         \* the jobs the workbench is asked for
  Cli,          \* the eval-matrix command
  Subscribers,  \* the open progress streams
  Absent,       \* no file, no event, no job (Python's None)
  Torn,         \* a file that is being written or was cut short by a kill
  Failed,       \* the result of a cell whose answer or judge failed
  MaxGrowth,    \* bound on the changes of the corpus
  MaxFaults     \* bound on the kills, failed cells and sweeps that raise

ASSUME ParametersAssumption ==
  /\ Cells \in Seq(Range(Cells)) /\ Cells # <<>>
  /\ Cli \notin Jobs /\ MaxGrowth \in Nat /\ MaxFaults \in Nat
  /\ {Absent, Torn, Failed} \cap (0..MaxGrowth) = {}
  /\ Absent # Torn /\ Absent # Failed /\ Torn # Failed

VARIABLES
  corpus,   \* the live corpus
  cache,    \* the cell files, by fingerprint
  runs,     \* the run file of every sweep
  sweep,    \* run_matrix, in the job's worker thread or in the command
  job,      \* MatrixRunner._job: the current or the last one, and its fields
  sending,  \* the events built and not yet put, by the thread that puts them
  stream,   \* every subscriber: subscribed or not, its last event, and (auxiliary)
            \* whether the job's outcome is its last event or still to be put into it
  faults,   \* kills, failures so far
  moved     \* the corpus changed under a sweep (auxiliary)

vars == <<corpus, cache, runs, sweep, job, sending, stream, faults, moved>>

Sweepers == Jobs \cup {Cli}
Corpora == 0..MaxGrowth
CellNames == Range(Cells)
Results == Corpora \cup {Failed}

Threads == {"start", "cell", "run"}  \* the request's, the worker's, the runner's

NoSweep == [at |-> "idle", digest |-> 0, answer |-> Absent, results |-> <<>>, hits |-> 0]
NoJob == [id |-> Absent, status |-> "none", run |-> Absent, done |-> 0, hits |-> 0, misses |-> 0]

(* What the files, the job and the events hold. *)
RunType == [digest: Corpora, results: Seq(Results), hits: 0..Len(Cells)]
SweepType == [at: {"idle", "starting", "cells", "answered", "saving", "report", "committing",
                   "finished", "gone"},
              digest: Corpora, answer: Results \cup {Absent}, results: Seq(Results),
              hits: 0..Len(Cells)]
JobType == [id: Jobs \cup {Absent}, status: {"none", "running", "done", "error"},
            run: Jobs \cup {Absent}, done: 0..Len(Cells), hits: 0..Len(Cells), misses: 0..Len(Cells)]
EventType == [event: JobType, to: SUBSET Subscribers]
StreamType == [at: {"closed", "listed", "looked", "open"}, last: JobType \cup {Absent},
               follows: BOOLEAN]

(* None of them is a run, a job or an event that is not there. *)
ASSUME AbsenceAssumption ==
  /\ Absent \notin RunType /\ Torn \notin RunType
  /\ Absent \notin JobType /\ Absent \notin EventType /\ Absent \notin Jobs

Init ==
  /\ corpus = 0
  /\ cache = [c \in CellNames |-> [d \in Corpora |-> Absent]]
  /\ runs = [p \in Sweepers |-> Absent]
  /\ sweep = [p \in Sweepers |-> NoSweep]
  /\ job = NoJob
  /\ sending = [p \in Sweepers |-> [t \in Threads |-> Absent]]
  /\ stream = [s \in Subscribers |-> [at |-> "closed", last |-> Absent, follows |-> FALSE]]
  /\ faults = 0
  /\ moved = FALSE

Fault == faults < MaxFaults /\ faults' = faults + 1

----------------------------------------------------------------------------
(* The broadcasts: an event is built and the streams are listed under the   *)
(* lock, and the event is put without it.  The change an event tells of is   *)
(* made under the lock just before; a stream listed between the two finds   *)
(* the change in its snapshot, so both are one step here.                   *)

Listed == {s \in Subscribers: stream[s].at # "closed"}
Build(j, t, state) == sending' = [sending EXCEPT ![j][t] = [event |-> state, to |-> Listed]]

(* subscribe, in a thread of its own: the stream is listed ...             *)
Subscribe(s) ==
  /\ stream[s].at = "closed"
  /\ stream' = [stream EXCEPT ![s].at = "listed"]
  /\ UNCHANGED <<corpus, cache, runs, sweep, job, sending, faults, moved>>

(* ... the snapshot is taken ...                                           *)
TakeSnapshot(s) ==
  /\ stream[s].at = "listed"
  /\ stream' = [stream EXCEPT ![s] = [at |-> "looked", last |-> job, follows |-> FALSE]]
  /\ UNCHANGED <<corpus, cache, runs, sweep, job, sending, faults, moved>>

(* The outcome of the job is still to be put into the stream: it is to come, *)
(* or its event is built for the stream and not put.                        *)
OutcomeAhead(s) ==
  \/ job.status = "running"
  \/ job.id \in Jobs /\ sending[job.id]["run"] # Absent /\ s \in sending[job.id]["run"].to

(* ... and put, behind what was put there meanwhile: the outcome, too.      *)
PutSnapshot(s) ==
  /\ stream[s].at = "looked"
  /\ stream' = [stream EXCEPT ![s].at = "open",
                              ![s].follows = OutcomeAhead(s) \/ stream[s].last = job]
  /\ UNCHANGED <<corpus, cache, runs, sweep, job, sending, faults, moved>>

(* The event is put into the streams it was built for.  Before a stream's   *)
(* seed only the seed counts as its last event: it is put behind this one.  *)
Put(j, t) ==
  /\ sending[j][t] # Absent
  /\ stream' = [s \in Subscribers |->
                  IF stream[s].at = "open" /\ s \in sending[j][t].to
                  THEN [stream[s] EXCEPT !.last = sending[j][t].event,
                                         !.follows = @ /\ (job.id = j \/ OutcomeAhead(s))]
                  ELSE stream[s]]
  /\ sending' = [sending EXCEPT ![j][t] = Absent]
  /\ UNCHANGED <<corpus, cache, runs, sweep, job, faults, moved>>

----------------------------------------------------------------------------
(* MatrixRunner.                                                           *)

(* start: a job in flight is returned, otherwise a new one takes the slot.  *)
Start(j) ==
  /\ sweep[j].at = "idle"
  /\ job.status # "running"
  /\ job' = [NoJob EXCEPT !.id = j, !.status = "running"]
  /\ sweep' = [sweep EXCEPT ![j].at = "starting"]
  /\ Build(j, "start", job')
  /\ stream' = [s \in Subscribers |-> [stream[s] EXCEPT !.follows = stream[s].at = "open"]]
  /\ UNCHANGED <<corpus, cache, runs, faults, moved>>

(* The runner's thread says what it knows while the worker is busy.        *)
Heartbeat(j) ==
  /\ job.id = j /\ job.status = "running" /\ sweep[j].at \notin {"starting", "finished"}
  /\ sending[j]["start"] = Absent /\ sending[j]["run"] = Absent
  /\ Build(j, "run", job)
  /\ UNCHANGED <<corpus, cache, runs, sweep, job, stream, faults, moved>>

(* Mutant: the last event is built before the outcome is in the job. *)
FinishStaleEvent(j) ==
  /\ sweep[j].at = "finished" /\ job.id = j /\ job.status = "running"
  /\ sending[j]["run"] = Absent
  /\ job' = IF Len(sweep[j].results) = Len(Cells)
            THEN [job EXCEPT !.status = "done", !.run = j, !.hits = sweep[j].hits,
                             !.misses = Len(Cells) - sweep[j].hits]
            ELSE [job EXCEPT !.status = "error"]
  /\ Build(j, "run", job)
  /\ UNCHANGED <<corpus, cache, runs, sweep, stream, faults, moved>>

(* The worker is joined, and the job takes its outcome: the run's id and    *)
(* its own tallies, or the error.                                          *)
Finish(j) ==
  /\ sweep[j].at = "finished" /\ job.id = j /\ job.status = "running"
  /\ sending[j]["run"] = Absent
  /\ job' = IF Len(sweep[j].results) = Len(Cells)
            THEN [job EXCEPT !.status = "done", !.run = j, !.hits = sweep[j].hits,
                             !.misses = Len(Cells) - sweep[j].hits]
            ELSE [job EXCEPT !.status = "error"]
  /\ Build(j, "run", job')
  /\ UNCHANGED <<corpus, cache, runs, sweep, stream, faults, moved>>

----------------------------------------------------------------------------
(* run_matrix, for the job of the workbench or for the command.            *)

Sweeping(p) == sweep[p].at \notin {"idle", "starting", "finished", "gone"}
Cell(p) == Cells[Len(sweep[p].results) + 1]

StartCli ==
  /\ sweep[Cli].at = "idle"
  /\ sweep' = [sweep EXCEPT ![Cli].at = "starting"]
  /\ UNCHANGED <<corpus, cache, runs, job, sending, stream, faults, moved>>

(* The corpus is digested once for all cells.                              *)
Digest(p) ==
  /\ sweep[p].at = "starting" /\ sending[p]["start"] = Absent
  /\ sweep' = [sweep EXCEPT ![p].at = "cells", ![p].digest = corpus]
  /\ UNCHANGED <<corpus, cache, runs, job, sending, stream, faults, moved>>

(* Mutant: the fingerprint does not name the corpus. *)
FileOfAnyCorpus(p) == cache[Cell(p)][0]

(* load_cell of the cell's fingerprint.                                    *)
FileOf(p) == cache[Cell(p)][sweep[p].digest]

(* The result is the sweep's next one; a job's on_cell callback counts it.  *)
NextCell(p, result, hit) ==
  [sweep[p] EXCEPT !.at = IF p = Cli THEN "cells" ELSE "report",
                   !.results = Append(@, result), !.hits = @ + hit, !.answer = Absent]

(* A cell file that parses and holds no error is reused.                   *)
Hit(p) ==
  /\ sweep[p].at = "cells" /\ Len(sweep[p].results) < Len(Cells)
  /\ FileOf(p) \notin {Absent, Torn}
  /\ sweep' = [sweep EXCEPT ![p] = NextCell(p, FileOf(p), 1)]
  /\ UNCHANGED <<corpus, cache, runs, job, sending, stream, faults, moved>>

(* The engine answers over the corpus there is when it retrieves; the       *)
(* answer or its judge may fail.                                           *)
Answer(p) ==
  /\ sweep[p].at = "cells" /\ Len(sweep[p].results) < Len(Cells)
  /\ FileOf(p) \in {Absent, Torn}
  /\ \/ sweep' = [sweep EXCEPT ![p].at = "answered", ![p].answer = corpus] /\ UNCHANGED faults
     \/ sweep' = [sweep EXCEPT ![p].at = "answered", ![p].answer = Failed] /\ Fault
  /\ UNCHANGED <<corpus, cache, runs, job, sending, stream, moved>>

WriteCell(p, contents) == cache' = [cache EXCEPT ![Cell(p)][sweep[p].digest] = contents]

(* save_cell: "Errors are not written". *)
WorthSaving(answer) == answer # Failed

(* save_cell opens the cell's file, which empties it ...                   *)
BeginCell(p) ==
  /\ sweep[p].at = "answered"
  /\ IF WorthSaving(sweep[p].answer)
     THEN WriteCell(p, Torn) /\ sweep' = [sweep EXCEPT ![p].at = "saving"]
     ELSE sweep' = [sweep EXCEPT ![p] = NextCell(p, Failed, 0)] /\ UNCHANGED cache
  /\ UNCHANGED <<corpus, runs, job, sending, stream, faults, moved>>

(* ... and writes it.                                                      *)
EndCell(p) ==
  /\ sweep[p].at = "saving"
  /\ WriteCell(p, sweep[p].answer)
  /\ sweep' = [sweep EXCEPT ![p] = NextCell(p, sweep[p].answer, 0)]
  /\ UNCHANGED <<corpus, runs, job, sending, stream, faults, moved>>

(* _on_cell: the job's counters, and an event.                             *)
OnCell(p) ==
  /\ sweep[p].at = "report" /\ sending[p]["cell"] = Absent
  /\ job' = [job EXCEPT !.done = Len(sweep[p].results), !.hits = sweep[p].hits,
                        !.misses = Len(sweep[p].results) - sweep[p].hits]
  /\ Build(p, "cell", job')
  /\ sweep' = [sweep EXCEPT ![p].at = "cells"]
  /\ UNCHANGED <<corpus, cache, runs, stream, faults, moved>>

Swept(p) == sweep[p].at = "cells" /\ Len(sweep[p].results) = Len(Cells)
EventsPut(p) == sending[p]["cell"] = Absent

(* Mutant: the end of the sweep is announced before its run is committed. *)
BeginRunAnnounced(p) ==
  /\ Swept(p) /\ EventsPut(p)
  /\ runs' = [runs EXCEPT ![p] = Torn]
  /\ sweep' = [sweep EXCEPT ![p].at = "finished"]
  /\ UNCHANGED <<corpus, cache, job, sending, stream, faults, moved>>

(* save_run, in two steps likewise; then the worker ends.                  *)
BeginRun(p) ==
  /\ Swept(p) /\ EventsPut(p)
  /\ runs' = [runs EXCEPT ![p] = Torn]
  /\ sweep' = [sweep EXCEPT ![p].at = "committing"]
  /\ UNCHANGED <<corpus, cache, job, sending, stream, faults, moved>>

EndRun(p) ==
  /\ sweep[p].at = "committing"
  /\ runs' = [runs EXCEPT ![p] = [digest |-> sweep[p].digest, results |-> sweep[p].results,
                                  hits |-> sweep[p].hits]]
  /\ sweep' = [sweep EXCEPT ![p].at = "finished"]
  /\ UNCHANGED <<corpus, cache, job, sending, stream, faults, moved>>

(* Mutant: the end of a sweep that raises is not put on the queue. *)
RaiseUnheard(p) ==
  /\ sweep[p].at \in {"cells", "committing"} /\ EventsPut(p) /\ Fault
  /\ sweep' = [sweep EXCEPT ![p] = [NoSweep EXCEPT !.at = "gone"]]
  /\ UNCHANGED <<corpus, cache, runs, job, sending, stream, moved>>

(* The sweep or the commit of its run raises, and "finished" is put on the  *)
(* runner's queue all the same (finally).                                  *)
Raise(p) ==
  /\ sweep[p].at \in {"cells", "committing"} /\ EventsPut(p) /\ Fault
  /\ sweep' = [sweep EXCEPT ![p] = [NoSweep EXCEPT !.at = "finished"]]
  /\ UNCHANGED <<corpus, cache, runs, job, sending, stream, moved>>

AllPut == \A j \in Jobs: \A t \in Threads: sending[j][t] = Absent
Committed == {p \in Sweepers: runs[p] \notin {Absent, Torn}}

(* Ingestion.                                                              *)
Ingest ==
  /\ corpus < MaxGrowth
  /\ corpus' = corpus + 1
  /\ moved' = (moved \/ (\E p \in Sweepers: Sweeping(p) /\ sweep[p].at # "committing"))
  /\ UNCHANGED <<cache, runs, sweep, job, sending, stream, faults>>

----------------------------------------------------------------------------
(* The command is killed; what it was writing stays cut short. *)
KillCli ==
  /\ Sweeping(Cli) \/ sweep[Cli].at = "starting"
  /\ Fault
  /\ sweep' = [sweep EXCEPT ![Cli] = [NoSweep EXCEPT !.at = "gone"]]
  /\ UNCHANGED <<corpus, cache, runs, job, sending, stream, moved>>

(* So is the server, with its job and its streams; it is started again.     *)
KillServer ==
  /\ job.id # Absent
  /\ Fault
  /\ sweep' = [p \in Sweepers |-> IF p \in Jobs /\ sweep[p].at # "idle"
                                  THEN [NoSweep EXCEPT !.at = "gone"] ELSE sweep[p]]
  /\ job' = NoJob
  /\ sending' = [p \in Sweepers |-> [t \in Threads |-> Absent]]
  /\ stream' = [s \in Subscribers |-> [at |-> "closed", last |-> Absent, follows |-> FALSE]]
  /\ UNCHANGED <<corpus, cache, runs, moved>>

SweepStep(p) ==
  Digest(p) \/ Hit(p) \/ Answer(p) \/ BeginCell(p) \/ EndCell(p) \/ BeginRun(p) \/ EndRun(p)

(* The steps of the job's two threads. *)
WorkerStep(j) == SweepStep(j) \/ OnCell(j) \/ Put(j, "cell")
RunnerStep(j) == Finish(j) \/ Put(j, "start") \/ Put(j, "run")

(* Every sweep has ended and nobody is left to tell. *)
Settled ==
  /\ \A p \in Sweepers: sweep[p].at \in {"finished", "gone"}
  /\ job.status # "running" /\ AllPut
  /\ \A s \in Subscribers: stream[s].at = "open"
  /\ UNCHANGED vars

Next ==
  \/ \E j \in Jobs: Start(j) \/ Heartbeat(j) \/ WorkerStep(j) \/ RunnerStep(j)
  \/ StartCli
  \/ \E p \in Sweepers: Raise(p)
  \/ SweepStep(Cli)
  \/ \E s \in Subscribers: Subscribe(s) \/ TakeSnapshot(s) \/ PutSnapshot(s)
  \/ Ingest \/ KillCli \/ KillServer \/ Settled

(* The job's two threads keep going; nobody has to start, ingest or kill,   *)
(* and no heartbeat is due.                                                *)
Fairness == \A j \in Jobs: WF_vars(WorkerStep(j)) /\ WF_vars(RunnerStep(j))

Spec == Init /\ [][Next]_vars /\ Fairness

----------------------------------------------------------------------------
(* The types of the variables. *)
TypeOK ==
  /\ corpus \in Corpora
  /\ cache \in [CellNames -> [Corpora -> Corpora \cup {Absent, Torn}]]
  /\ runs \in [Sweepers -> RunType \cup {Absent, Torn}]
  /\ sweep \in [Sweepers -> SweepType]
  /\ job \in JobType
  /\ sending \in [Sweepers -> [Threads -> EventType \cup {Absent}]]
  /\ stream \in [Subscribers -> StreamType]
  /\ faults \in 0..MaxFaults /\ moved \in BOOLEAN

(* A committed run names one corpus, and its cells - answered now or taken  *)
(* from the cache, by this sweep or by another process - were answered over *)
(* that corpus, as long as none was ingested under a sweep: the case the    *)
(* corpus in the fingerprint is there for (cell_fingerprint).              *)
CellsOfOneCorpus ==
  ~moved => \A p \in Committed: \A i \in DOMAIN runs[p].results:
              runs[p].results[i] \in {runs[p].digest, Failed}

Openable(e) == e # Absent /\ e.status = "done" => e.run = e.id /\ e.id \in Committed

(* A job is said to be done, in the snapshot or in any event, only when its *)
(* run can be opened: the id is there and the file is whole (_broadcast).   *)
DoneCanBeOpened ==
  /\ Openable(job)
  /\ \A s \in Subscribers: Openable(stream[s].last)
  /\ \A j \in Jobs: \A t \in Threads: sending[j][t] # Absent => Openable(sending[j][t].event)

(* A stream whose seed was put while the job ran, or before the outcome was, *)
(* or whose seed is the outcome, ends with the outcome once everything is    *)
(* put, and not with progress that was put late.  Two streams are excepted:  *)
(* one whose seed, taken while the job ran, is put behind the outcome        *)
(* (subscribe), and one that got an earlier job's event behind it.          *)
LastWordIsTheOutcome ==
  \A s \in Subscribers:
    /\ stream[s].at = "open" /\ stream[s].follows
    /\ job.status \in {"done", "error"}
    /\ AllPut
    => stream[s].last = job

(* A job comes to an end, with a run or with an error, or with the server.  *)
EveryJobEnds ==
  \A j \in Jobs: (job.id = j /\ job.status = "running") ~> ~(job.id = j /\ job.status = "running")
=============================================================================
