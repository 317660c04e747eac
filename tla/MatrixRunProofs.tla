-------------------------- MODULE MatrixRunProofs --------------------------
(* TLAPS proofs of the safety properties of MatrixRun, for any cells, jobs,   *)
(* streams and bounds.                                                       *)
EXTENDS MatrixRun, TLAPS

(* A sweep holds at most one result per cell, a started one none, and one     *)
(* that is busy with a cell has a result to come and an answer for it, which   *)
(* is no failure when it is saved.                                           *)
Progress ==
  \A p \in Sweepers :
    /\ Len(sweep[p].results) <= Len(Cells) /\ sweep[p].hits <= Len(sweep[p].results)
    /\ sweep[p].at \in {"idle", "starting"} => sweep[p].results = <<>>
    /\ sweep[p].at \in {"answered", "saving"} => Len(sweep[p].results) < Len(Cells)
    /\ sweep[p].at = "answered" => sweep[p].answer # Absent
    /\ sweep[p].at = "saving" => sweep[p].answer \in Corpora

(* The cell files and the results of a sweep are of the sweep's one corpus,   *)
(* which is the live one until the sweep commits.                            *)
OfOneCorpus(p) ==
  /\ Sweeping(p) =>
       \A i \in DOMAIN sweep[p].results : sweep[p].results[i] \in {sweep[p].digest, Failed}
  /\ sweep[p].at = "answered" => sweep[p].answer \in {sweep[p].digest, Failed}
  /\ sweep[p].at = "saving" => sweep[p].answer = sweep[p].digest
  /\ Sweeping(p) /\ sweep[p].at # "committing" => sweep[p].digest = corpus

FilesOfOneCorpus ==
  /\ \A c \in CellNames : \A d \in Corpora : cache[c][d] \in {d, Absent, Torn}
  /\ \A p \in Sweepers : OfOneCorpus(p)

OneCorpus == ~moved => FilesOfOneCorpus

(* A sweep that has not come to its commit has no run file, one that commits   *)
(* has an unwritten one, and one that has ended with all its results a whole   *)
(* one.                                                                      *)
RunFiles ==
  \A p \in Sweepers :
    /\ runs[p] # Absent => sweep[p].at \in {"committing", "finished", "gone"}
    /\ sweep[p].at = "committing" => runs[p] = Torn
    /\ sweep[p].at = "finished" /\ Len(sweep[p].results) = Len(Cells) => p \in Committed

(* Only the current job's sweep is under way, and it has ended when the job has. *)
Current ==
  /\ \A j \in Jobs : sweep[j].at \notin {"idle", "finished", "gone"} =>
                       job.id = j /\ job.status = "running"
  /\ job.status \in {"done", "error"} => job.id \in Jobs /\ sweep[job.id].at = "finished"

(* The event of the start is put before the sweep begins, the last one of a    *)
(* cell before the sweep commits or ends.                                    *)
PutInTime ==
  \A j \in Jobs :
    /\ sweep[j].at \notin {"idle", "starting"} => sending[j]["start"] = Absent
    /\ sweep[j].at \in {"idle", "starting", "committing", "finished"} => sending[j]["cell"] = Absent

(* Once the job has ended, a stream that follows it has its outcome or is to   *)
(* get it.                                                                   *)
Outcome ==
  job.status \in {"done", "error"} =>
    LET last == sending[job.id]["run"]
    IN  /\ last # Absent => last.event = job
        /\ \A s \in Subscribers :
             stream[s].at = "open" /\ stream[s].follows =>
               stream[s].last = job \/ (last # Absent /\ s \in last.to)

IInv ==
  /\ TypeOK /\ Progress /\ OneCorpus /\ RunFiles /\ Current /\ PutInTime /\ Outcome
  /\ CellsOfOneCorpus /\ DoneCanBeOpened
LEMMA Members ==
  /\ Jobs \subseteq Sweepers /\ Cli \in Sweepers /\ Cli \notin Jobs /\ Absent \notin Jobs
  /\ Cells \in Seq(CellNames) /\ Len(Cells) \in Nat \ {0}
  /\ Corpora \subseteq Nat /\ 0 \in Corpora /\ Corpora \subseteq Results /\ Failed \in Results
  /\ Absent \notin Results /\ Torn \notin Results /\ Failed \notin Corpora
  /\ NoSweep \in SweepType /\ NoJob \in JobType
<1>1. Absent \notin Results /\ Torn \notin Results /\ Failed \notin Corpora
  BY ParametersAssumption DEF Corpora, Results
<1>2. Cells \in Seq(CellNames) /\ Len(Cells) \in Nat \ {0}
  BY ParametersAssumption DEF CellNames
<1>3. 0 \in Corpora /\ Corpora \subseteq Nat
  BY ParametersAssumption DEF Corpora
<1>4. NoSweep \in SweepType
  BY <1>2, <1>3 DEF NoSweep, SweepType, Results
<1>5. NoJob \in JobType
  BY <1>2 DEF NoJob, JobType
<1> QED BY <1>1, <1>2, <1>3, <1>4, <1>5, ParametersAssumption, AbsenceAssumption
        DEF Sweepers, Results

LEMMA InitIInv == Init => IInv
<1> SUFFICES ASSUME Init PROVE IInv
  OBVIOUS
<1> USE Members DEF Init
<1>1. TypeOK
  <2>1. 0 \in 0..MaxFaults
    BY ParametersAssumption
  <2>2. [at |-> "closed", last |-> Absent, follows |-> FALSE] \in StreamType
    BY DEF StreamType
  <2> QED BY <2>1, <2>2 DEF TypeOK
<1>2. Progress
  BY DEF Progress, NoSweep
<1>3. OneCorpus
  BY DEF OneCorpus, FilesOfOneCorpus, OfOneCorpus, Sweeping, NoSweep
<1>4. RunFiles /\ Committed = {}
  BY DEF RunFiles, NoSweep, Committed
<1>5. Current /\ PutInTime /\ Outcome
  BY DEF Current, PutInTime, Outcome, NoSweep, NoJob, Threads
<1>6. CellsOfOneCorpus
  BY <1>4 DEF CellsOfOneCorpus
<1>7. DoneCanBeOpened
  BY DEF DoneCanBeOpened, Openable, NoJob
<1> QED BY <1>1, <1>2, <1>3, <1>4, <1>5, <1>6, <1>7 DEF IInv

-----------------------------------------------------------------------------
(* The steps of a sweep: what p's step has to keep, the others' sweeps and     *)
(* runs and all the events being left alone.                                 *)
LEMMA SweepKeeps ==
  ASSUME IInv, NEW p \in Sweepers,
         UNCHANGED <<corpus, job, sending, stream, moved>>,
         TypeOK',
         \A q \in Sweepers \ {p} : sweep'[q] = sweep[q] /\ runs'[q] = runs[q],
         runs'[p] = runs[p] \/ p \notin Committed,
         ~moved => \A c \in CellNames : \A d \in Corpora : cache'[c][d] \in {d, Absent, Torn},
         Len(sweep'[p].results) <= Len(Cells) /\ sweep'[p].hits <= Len(sweep'[p].results),
         sweep'[p].at \in {"idle", "starting"} => sweep'[p].results = <<>>,
         sweep'[p].at \in {"answered", "saving"} => Len(sweep'[p].results) < Len(Cells),
         sweep'[p].at = "answered" => sweep'[p].answer # Absent,
         sweep'[p].at = "saving" => sweep'[p].answer \in Corpora,
         ~moved => OfOneCorpus(p)',
         runs'[p] # Absent => sweep'[p].at \in {"committing", "finished", "gone"},
         sweep'[p].at = "committing" => runs'[p] = Torn,
         sweep'[p].at = "finished" /\ Len(sweep'[p].results) = Len(Cells) => p \in Committed',
         ~moved /\ p \in Committed' =>
           \A i \in DOMAIN runs'[p].results : runs'[p].results[i] \in {runs'[p].digest, Failed},
         p \in Jobs /\ sweep'[p].at \notin {"idle", "finished", "gone"} =>
           sweep[p].at \notin {"idle", "finished", "gone"},
         p \in Jobs => sweep[p].at # "finished",
         p \in Jobs /\ sweep'[p].at \notin {"idle", "starting"} => sending[p]["start"] = Absent,
         p \in Jobs /\ sweep'[p].at \in {"idle", "starting", "committing", "finished"} =>
           sending[p]["cell"] = Absent
  PROVE  IInv'
<1> USE DEF IInv
<1>1. Committed \subseteq Committed' /\ Committed' \subseteq Committed \cup {p}
  BY DEF Committed
<1>2. Progress'
  BY DEF Progress
<1>3. OneCorpus'
  <2> SUFFICES ASSUME ~moved PROVE FilesOfOneCorpus'
    BY DEF OneCorpus
  <2>1. ASSUME NEW q \in Sweepers PROVE OfOneCorpus(q)'
    BY DEF OneCorpus, FilesOfOneCorpus, OfOneCorpus, Sweeping
  <2> QED BY <2>1 DEF FilesOfOneCorpus
<1>4. RunFiles'
  BY <1>1 DEF RunFiles, Committed
<1>5. Current'
  BY Members DEF Current
<1>6. PutInTime'
  BY Members DEF PutInTime
<1>7. Outcome'
  BY DEF Outcome
<1>8. CellsOfOneCorpus'
  BY <1>1 DEF CellsOfOneCorpus, Committed
<1>9. DoneCanBeOpened'
  BY <1>1 DEF DoneCanBeOpened, Openable
<1> QED BY <1>2, <1>3, <1>4, <1>5, <1>6, <1>7, <1>8, <1>9

LEMMA DigestIInv ==
  ASSUME IInv, NEW p \in Sweepers, Digest(p)
  PROVE  IInv'
<1> USE Members DEF Digest
<1>1. sweep[p] \in SweepType /\ sweep[p].results = <<>> /\ sweep[p].hits = 0
  BY DEF IInv, TypeOK, Progress, SweepType
<1>2. sweep'[p] = [sweep[p] EXCEPT !.at = "cells", !.digest = corpus]
  BY DEF IInv, TypeOK
<1>3. sweep'[p] \in SweepType /\ sweep'[p].at = "cells" /\ sweep'[p].digest = corpus
      /\ sweep'[p].results = <<>> /\ sweep'[p].hits = 0
  BY <1>1, <1>2 DEF SweepType, IInv, TypeOK
<1>4. \A q \in Sweepers \ {p} : sweep'[q] = sweep[q]
  BY DEF IInv, TypeOK
<1>5. TypeOK'
  BY <1>3, <1>4 DEF IInv, TypeOK
<1>6. runs[p] = Absent
  BY DEF IInv, RunFiles
<1>7. OfOneCorpus(p)'
  <2>1. \A i \in DOMAIN <<>> : FALSE
    OBVIOUS
  <2> QED BY <1>3, <2>1 DEF OfOneCorpus, Sweeping
<1>8. p \in Jobs => sending[p]["cell"] = Absent
  BY DEF IInv, PutInTime
<1>9. ~moved => \A c \in CellNames : \A d \in Corpora : cache'[c][d] \in {d, Absent, Torn}
  BY DEF IInv, OneCorpus, FilesOfOneCorpus
<1>10. p \notin Committed /\ p \notin Committed' /\ runs'[p] = Absent
  BY <1>6 DEF Committed
<1>11. Len(sweep'[p].results) <= Len(Cells) /\ sweep'[p].hits <= Len(sweep'[p].results)
  BY <1>3
<1>12. TypeOK' /\ UNCHANGED <<corpus, job, sending, stream, moved, runs>>
  BY <1>5
<1>13. sweep[p].at = "starting"
  OBVIOUS
<1>14. p \in Jobs => sending[p]["start"] = Absent
  OBVIOUS
<1> HIDE DEF Digest
<1> QED BY <1>3, <1>4, <1>7, <1>8, <1>9, <1>10, <1>11, <1>12, <1>13, <1>14, SweepKeeps

(* The steps from one cell to the next: the runs are left alone too.         *)
LEMMA CellKeeps ==
  ASSUME IInv, NEW p \in Sweepers,
         UNCHANGED <<corpus, runs, job, sending, stream, moved>>,
         sweep[p].at \in {"cells", "answered", "saving"},
         NEW next \in SweepType, sweep' = [sweep EXCEPT ![p] = next],
         cache' \in [CellNames -> [Corpora -> Corpora \cup {Absent, Torn}]],
         faults' \in 0..MaxFaults,
         next.at \in {"cells", "answered", "saving", "report"},
         ~moved => \A c \in CellNames : \A d \in Corpora : cache'[c][d] \in {d, Absent, Torn},
         Len(next.results) <= Len(Cells) /\ next.hits <= Len(next.results),
         next.at \in {"answered", "saving"} => Len(next.results) < Len(Cells),
         next.at = "answered" => next.answer # Absent,
         next.at = "saving" => next.answer \in Corpora,
         next.digest = sweep[p].digest,
         ~moved => \A i \in DOMAIN next.results : next.results[i] \in {next.digest, Failed},
         ~moved /\ next.at = "answered" => next.answer \in {next.digest, Failed},
         ~moved /\ next.at = "saving" => next.answer = next.digest
  PROVE  IInv'
<1>1. sweep'[p] = next /\ \A q \in Sweepers \ {p} : sweep'[q] = sweep[q]
  BY DEF IInv, TypeOK
<1>2. TypeOK'
  BY DEF IInv, TypeOK
<1>3. runs[p] = Absent
  BY DEF IInv, RunFiles
<1>4. p \notin Committed /\ p \notin Committed' /\ runs'[p] = Absent
  BY <1>3 DEF Committed
<1>5. p \in Jobs => sending[p]["start"] = Absent
  BY DEF IInv, PutInTime
<1>6. ~moved => OfOneCorpus(p)'
  <2>1. ~moved => sweep[p].digest = corpus
    BY DEF IInv, OneCorpus, FilesOfOneCorpus, OfOneCorpus, Sweeping
  <2> QED BY <1>1, <2>1 DEF OfOneCorpus
<1>7. /\ sweep'[p].at \in {"cells", "answered", "saving", "report"}
      /\ Len(sweep'[p].results) <= Len(Cells) /\ sweep'[p].hits <= Len(sweep'[p].results)
      /\ sweep'[p].at \in {"answered", "saving"} => Len(sweep'[p].results) < Len(Cells)
      /\ sweep'[p].at = "answered" => sweep'[p].answer # Absent
      /\ sweep'[p].at = "saving" => sweep'[p].answer \in Corpora
  BY <1>1
<1>8. \A q \in Sweepers \ {p} : sweep'[q] = sweep[q] /\ runs'[q] = runs[q]
  BY <1>1
<1> QED BY <1>2, <1>4, <1>5, <1>6, <1>7, <1>8, SweepKeeps

LEMMA NextCellIs ==
  ASSUME IInv, NEW p \in Sweepers, NEW result \in Results, NEW hit \in {0, 1},
         Len(sweep[p].results) < Len(Cells)
  PROVE  LET next == NextCell(p, result, hit)
         IN  /\ next \in SweepType
             /\ next.at \in {"cells", "report"}
             /\ next.digest = sweep[p].digest
             /\ next.results = Append(sweep[p].results, result)
             /\ Len(next.results) <= Len(Cells) /\ next.hits <= Len(next.results)
<1>1. sweep[p] \in SweepType /\ sweep[p].hits <= Len(sweep[p].results)
  BY DEF IInv, TypeOK, Progress
<1>2. /\ Append(sweep[p].results, result) \in Seq(Results)
      /\ Len(Append(sweep[p].results, result)) = Len(sweep[p].results) + 1
  BY <1>1 DEF SweepType
<1>3. /\ sweep[p].hits + hit \in 0..Len(Cells)
      /\ sweep[p].hits + hit <= Len(sweep[p].results) + 1
      /\ Len(sweep[p].results) + 1 <= Len(Cells)
  BY <1>1, Members DEF SweepType
<1>4. Absent \in Results \cup {Absent}
  OBVIOUS
<1> QED BY <1>1, <1>2, <1>3, <1>4 DEF NextCell, SweepType

(* One more result of the sweep's corpus, or none.                           *)
LEMMA NextResult ==
  ASSUME IInv, NEW p \in Sweepers, ~moved, Sweeping(p), NEW result \in {sweep[p].digest, Failed}
  PROVE  \A i \in DOMAIN Append(sweep[p].results, result) :
           Append(sweep[p].results, result)[i] \in {sweep[p].digest, Failed}
<1>1. sweep[p].results \in Seq(Results)
  BY DEF IInv, TypeOK, SweepType
<1>2. \A i \in DOMAIN sweep[p].results : sweep[p].results[i] \in {sweep[p].digest, Failed}
  BY DEF IInv, OneCorpus, FilesOfOneCorpus, OfOneCorpus
<1> QED BY <1>1, <1>2

(* The cell a sweep is at, and the file it has for its corpus.               *)
LEMMA CellIs ==
  ASSUME IInv, NEW p \in Sweepers, Len(sweep[p].results) < Len(Cells)
  PROVE  /\ Cell(p) \in CellNames
         /\ sweep[p].digest \in Corpora
         /\ FileOf(p) \in Corpora \cup {Absent, Torn}
         /\ ~moved => FileOf(p) \in {sweep[p].digest, Absent, Torn}
<1>1. sweep[p].results \in Seq(Results) /\ sweep[p].digest \in Corpora
  BY DEF IInv, TypeOK, SweepType
<1>2. Cell(p) \in CellNames
  BY <1>1, Members DEF Cell
<1> QED BY <1>1, <1>2 DEF FileOf, IInv, TypeOK, OneCorpus, FilesOfOneCorpus

LEMMA WriteCellIs ==
  ASSUME IInv, NEW p \in Sweepers, Len(sweep[p].results) < Len(Cells),
         NEW contents \in Corpora \cup {Torn}, WriteCell(p, contents)
  PROVE  /\ cache' \in [CellNames -> [Corpora -> Corpora \cup {Absent, Torn}]]
         /\ ~moved /\ contents \in {sweep[p].digest, Torn} =>
              \A c \in CellNames : \A d \in Corpora : cache'[c][d] \in {d, Absent, Torn}
<1>1. /\ cache \in [CellNames -> [Corpora -> Corpora \cup {Absent, Torn}]]
      /\ ~moved => \A c \in CellNames : \A d \in Corpora : cache[c][d] \in {d, Absent, Torn}
  BY DEF IInv, TypeOK, OneCorpus, FilesOfOneCorpus
<1>2. Cell(p) \in CellNames /\ sweep[p].digest \in Corpora
  BY CellIs
<1>3. \A c \in CellNames : \A d \in Corpora :
        cache'[c][d] = IF c = Cell(p) /\ d = sweep[p].digest THEN contents ELSE cache[c][d]
  BY <1>1, <1>2 DEF WriteCell
<1>4. cache' \in [CellNames -> [Corpora -> Corpora \cup {Absent, Torn}]]
  BY <1>1, <1>2 DEF WriteCell
<1> QED BY <1>1, <1>3, <1>4

LEMMA HitIInv ==
  ASSUME IInv, NEW p \in Sweepers, Hit(p)
  PROVE  IInv'
<1> DEFINE next == NextCell(p, FileOf(p), 1)
<1>1. /\ sweep[p].at = "cells" /\ Len(sweep[p].results) < Len(Cells)
      /\ FileOf(p) \notin {Absent, Torn}
      /\ sweep' = [sweep EXCEPT ![p] = next]
      /\ UNCHANGED <<corpus, cache, runs, job, sending, stream, faults, moved>>
  BY DEF Hit
<1>2. FileOf(p) \in Results /\ (~moved => FileOf(p) = sweep[p].digest)
  BY <1>1, CellIs, Members
<1>3. /\ next \in SweepType /\ next.at \in {"cells", "report"} /\ next.digest = sweep[p].digest
      /\ next.results = Append(sweep[p].results, FileOf(p))
      /\ Len(next.results) <= Len(Cells) /\ next.hits <= Len(next.results)
  BY <1>1, <1>2, NextCellIs
<1>4. ~moved => \A i \in DOMAIN next.results : next.results[i] \in {next.digest, Failed}
  BY <1>1, <1>2, <1>3, NextResult DEF Sweeping
<1>5. /\ cache' \in [CellNames -> [Corpora -> Corpora \cup {Absent, Torn}]]
      /\ faults' \in 0..MaxFaults
      /\ ~moved => \A c \in CellNames : \A d \in Corpora : cache'[c][d] \in {d, Absent, Torn}
  BY <1>1 DEF IInv, TypeOK, OneCorpus, FilesOfOneCorpus
<1> HIDE DEF next
<1> QED BY <1>1, <1>3, <1>4, <1>5, CellKeeps

LEMMA FaultIs ==
  ASSUME IInv, Fault
  PROVE  faults' \in 0..MaxFaults
BY ParametersAssumption DEF IInv, TypeOK, Fault

LEMMA AnswerIInv ==
  ASSUME IInv, NEW p \in Sweepers, Answer(p)
  PROVE  IInv'
<1>1. /\ sweep[p].at = "cells" /\ Len(sweep[p].results) < Len(Cells)
      /\ UNCHANGED <<corpus, cache, runs, job, sending, stream, moved>>
  BY DEF Answer
<1>2. PICK answer \in {corpus, Failed} :
        sweep' = [sweep EXCEPT ![p].at = "answered", ![p].answer = answer]
  BY DEF Answer
<1>3. faults' \in 0..MaxFaults
  BY FaultIs DEF Answer, IInv, TypeOK
<1> DEFINE next == [sweep[p] EXCEPT !.at = "answered", !.answer = answer]
<1>4. sweep' = [sweep EXCEPT ![p] = next]
  BY <1>2
<1>5. sweep[p] \in SweepType /\ corpus \in Results
  BY Members DEF IInv, TypeOK
<1>6. /\ next \in SweepType /\ next.at = "answered" /\ next.answer = answer
      /\ next.results = sweep[p].results /\ next.hits = sweep[p].hits
      /\ next.digest = sweep[p].digest
  BY <1>5, Members DEF SweepType
<1> HIDE DEF next
<1>7. Len(next.results) < Len(Cells) /\ next.hits <= Len(next.results)
  BY <1>1, <1>6 DEF IInv, Progress
<1>8. Len(next.results) <= Len(Cells)
  BY <1>6 DEF IInv, Progress
<1>9. ~moved => /\ \A i \in DOMAIN next.results : next.results[i] \in {next.digest, Failed}
                /\ next.answer \in {next.digest, Failed}
                /\ \A c \in CellNames : \A d \in Corpora : cache'[c][d] \in {d, Absent, Torn}
  BY <1>1, <1>6 DEF IInv, OneCorpus, FilesOfOneCorpus, OfOneCorpus, Sweeping
<1>10. cache' \in [CellNames -> [Corpora -> Corpora \cup {Absent, Torn}]]
  BY <1>1 DEF IInv, TypeOK
<1>11. next.answer # Absent
  BY <1>6, Members DEF IInv, TypeOK
<1> QED BY <1>1, <1>3, <1>4, <1>6, <1>7, <1>8, <1>9, <1>10, <1>11, CellKeeps

LEMMA BeginCellIInv ==
  ASSUME IInv, NEW p \in Sweepers, BeginCell(p)
  PROVE  IInv'
<1>1. sweep[p].at = "answered" /\ UNCHANGED <<corpus, runs, job, sending, stream, faults, moved>>
  BY DEF BeginCell
<1>2. /\ sweep[p] \in SweepType
      /\ Len(sweep[p].results) < Len(Cells) /\ sweep[p].hits <= Len(sweep[p].results)
  BY <1>1 DEF IInv, TypeOK, Progress
<1>3. ~moved => /\ \A i \in DOMAIN sweep[p].results :
                     sweep[p].results[i] \in {sweep[p].digest, Failed}
                /\ sweep[p].answer \in {sweep[p].digest, Failed}
  BY <1>1 DEF IInv, OneCorpus, FilesOfOneCorpus, OfOneCorpus, Sweeping
<1>4. faults' \in 0..MaxFaults
  BY <1>1 DEF IInv, TypeOK
<1>5. CASE WorthSaving(sweep[p].answer)
  <2> DEFINE next == [sweep[p] EXCEPT !.at = "saving"]
  <2>1. WriteCell(p, Torn) /\ sweep' = [sweep EXCEPT ![p] = next]
    BY <1>5 DEF BeginCell
  <2>2. /\ next \in SweepType /\ next.at = "saving" /\ next.answer = sweep[p].answer
        /\ next.results = sweep[p].results /\ next.hits = sweep[p].hits
        /\ next.digest = sweep[p].digest
    BY <1>2 DEF SweepType
  <2> HIDE DEF next
  <2>3. /\ cache' \in [CellNames -> [Corpora -> Corpora \cup {Absent, Torn}]]
        /\ ~moved => \A c \in CellNames : \A d \in Corpora : cache'[c][d] \in {d, Absent, Torn}
    BY <1>2, <2>1, WriteCellIs
  <2>4. (~moved => next.answer = next.digest) /\ next.answer \in Corpora
    BY <1>1, <1>2, <1>3, <1>5, <2>2 DEF WorthSaving, IInv, Progress, SweepType, Results
  <2>5. Len(next.results) < Len(Cells) /\ Len(next.results) <= Len(Cells)
        /\ next.hits <= Len(next.results)
    BY <1>2, <2>2 DEF IInv, Progress
  <2> QED BY <1>1, <1>3, <1>4, <2>1, <2>2, <2>3, <2>4, <2>5, CellKeeps
<1>6. CASE ~WorthSaving(sweep[p].answer)
  <2> DEFINE next == NextCell(p, Failed, 0)
  <2>1. sweep' = [sweep EXCEPT ![p] = next] /\ UNCHANGED cache
    BY <1>6 DEF BeginCell
  <2>2. /\ next \in SweepType /\ next.at \in {"cells", "report"} /\ next.digest = sweep[p].digest
        /\ next.results = Append(sweep[p].results, Failed)
        /\ Len(next.results) <= Len(Cells) /\ next.hits <= Len(next.results)
    BY <1>2, Members, NextCellIs
  <2>3. ~moved => \A i \in DOMAIN next.results : next.results[i] \in {next.digest, Failed}
    BY <1>1, <2>2, NextResult DEF Sweeping
  <2>4. /\ cache' \in [CellNames -> [Corpora -> Corpora \cup {Absent, Torn}]]
        /\ ~moved => \A c \in CellNames : \A d \in Corpora : cache'[c][d] \in {d, Absent, Torn}
    BY <2>1 DEF IInv, TypeOK, OneCorpus, FilesOfOneCorpus
  <2> HIDE DEF next
  <2> QED BY <1>1, <1>4, <2>1, <2>2, <2>3, <2>4, CellKeeps
<1> QED BY <1>5, <1>6

LEMMA EndCellIInv ==
  ASSUME IInv, NEW p \in Sweepers, EndCell(p)
  PROVE  IInv'
<1> DEFINE next == NextCell(p, sweep[p].answer, 0)
<1>1. /\ sweep[p].at = "saving" /\ WriteCell(p, sweep[p].answer)
      /\ sweep' = [sweep EXCEPT ![p] = next]
      /\ UNCHANGED <<corpus, runs, job, sending, stream, faults, moved>>
  BY DEF EndCell
<1>2. /\ Len(sweep[p].results) < Len(Cells)
      /\ sweep[p].answer \in Corpora
      /\ ~moved => sweep[p].answer = sweep[p].digest
  BY <1>1 DEF IInv, Progress, OneCorpus, FilesOfOneCorpus, OfOneCorpus
<1>3. /\ next \in SweepType /\ next.at \in {"cells", "report"} /\ next.digest = sweep[p].digest
      /\ next.results = Append(sweep[p].results, sweep[p].answer)
      /\ Len(next.results) <= Len(Cells) /\ next.hits <= Len(next.results)
  BY <1>2, Members, NextCellIs
<1>4. ~moved => \A i \in DOMAIN next.results : next.results[i] \in {next.digest, Failed}
  BY <1>1, <1>2, <1>3, NextResult DEF Sweeping
<1>5. /\ cache' \in [CellNames -> [Corpora -> Corpora \cup {Absent, Torn}]]
      /\ ~moved => \A c \in CellNames : \A d \in Corpora : cache'[c][d] \in {d, Absent, Torn}
  BY <1>1, <1>2, WriteCellIs
<1>6. faults' \in 0..MaxFaults
  BY <1>1 DEF IInv, TypeOK
<1> HIDE DEF next
<1> QED BY <1>1, <1>3, <1>4, <1>5, <1>6, CellKeeps

-----------------------------------------------------------------------------
(* The commit and the other ends of a sweep.                                 *)
LEMMA BeginRunIInv ==
  ASSUME IInv, NEW p \in Sweepers, BeginRun(p)
  PROVE  IInv'
<1>1. /\ sweep[p].at = "cells" /\ sending[p]["cell"] = Absent
      /\ sweep' = [sweep EXCEPT ![p].at = "committing"]
      /\ runs' = [runs EXCEPT ![p] = Torn]
      /\ UNCHANGED <<corpus, cache, job, sending, stream, faults, moved>>
  BY DEF BeginRun, Swept, EventsPut
<1>2. sweep[p] \in SweepType
  BY DEF IInv, TypeOK
<1>3. sweep'[p] = [sweep[p] EXCEPT !.at = "committing"]
      /\ runs'[p] = Torn
      /\ \A q \in Sweepers \ {p} : sweep'[q] = sweep[q] /\ runs'[q] = runs[q]
  BY <1>1 DEF IInv, TypeOK
<1>4. /\ sweep'[p] \in SweepType /\ sweep'[p].at = "committing"
      /\ sweep'[p].results = sweep[p].results /\ sweep'[p].hits = sweep[p].hits
      /\ sweep'[p].digest = sweep[p].digest
  BY <1>2, <1>3 DEF SweepType
<1>5. TypeOK'
  BY <1>1, <1>4 DEF IInv, TypeOK
<1>6. p \notin Committed /\ p \notin Committed'
  BY <1>1, <1>3 DEF IInv, RunFiles, Committed
<1>7. Len(sweep'[p].results) <= Len(Cells) /\ sweep'[p].hits <= Len(sweep'[p].results)
  BY <1>4 DEF IInv, Progress
<1>8. ~moved => /\ OfOneCorpus(p)'
                /\ \A c \in CellNames : \A d \in Corpora : cache'[c][d] \in {d, Absent, Torn}
  BY <1>1, <1>4 DEF IInv, OneCorpus, FilesOfOneCorpus, OfOneCorpus, Sweeping
<1>9. p \in Jobs => sending[p]["start"] = Absent
  BY <1>1 DEF IInv, PutInTime
<1> QED BY <1>1, <1>3, <1>4, <1>5, <1>6, <1>7, <1>8, <1>9, SweepKeeps

LEMMA EndRunIInv ==
  ASSUME IInv, NEW p \in Sweepers, EndRun(p)
  PROVE  IInv'
<1> DEFINE run == [digest |-> sweep[p].digest, results |-> sweep[p].results, hits |-> sweep[p].hits]
<1>1. /\ sweep[p].at = "committing"
      /\ sweep' = [sweep EXCEPT ![p].at = "finished"]
      /\ runs' = [runs EXCEPT ![p] = run]
      /\ UNCHANGED <<corpus, cache, job, sending, stream, faults, moved>>
  BY DEF EndRun
<1>2. sweep[p] \in SweepType
  BY DEF IInv, TypeOK
<1>3. /\ run \in RunType /\ run \notin {Absent, Torn}
      /\ run.digest = sweep[p].digest /\ run.results = sweep[p].results
  BY <1>2, AbsenceAssumption DEF RunType, SweepType
<1> HIDE DEF run
<1>4. sweep'[p] = [sweep[p] EXCEPT !.at = "finished"]
      /\ runs'[p] = run
      /\ \A q \in Sweepers \ {p} : sweep'[q] = sweep[q] /\ runs'[q] = runs[q]
  BY <1>1 DEF IInv, TypeOK
<1>5. /\ sweep'[p] \in SweepType /\ sweep'[p].at = "finished"
      /\ sweep'[p].results = sweep[p].results /\ sweep'[p].hits = sweep[p].hits
  BY <1>2, <1>4 DEF SweepType
<1>6. TypeOK'
  BY <1>1, <1>3, <1>5 DEF IInv, TypeOK
<1>7. p \in Committed'
  BY <1>3, <1>4 DEF Committed
<1>8. Len(sweep'[p].results) <= Len(Cells) /\ sweep'[p].hits <= Len(sweep'[p].results)
  BY <1>5 DEF IInv, Progress
<1>9. ~moved => /\ OfOneCorpus(p)'
                /\ \A c \in CellNames : \A d \in Corpora : cache'[c][d] \in {d, Absent, Torn}
                /\ \A i \in DOMAIN run.results : run.results[i] \in {run.digest, Failed}
  BY <1>1, <1>3, <1>5 DEF IInv, OneCorpus, FilesOfOneCorpus, OfOneCorpus, Sweeping
<1>10. p \in Jobs => sending[p]["start"] = Absent /\ sending[p]["cell"] = Absent
  BY <1>1 DEF IInv, PutInTime
<1>11. p \notin Committed
  BY <1>1 DEF IInv, RunFiles, Committed
<1> QED BY <1>1, <1>4, <1>5, <1>6, <1>7, <1>8, <1>9, <1>10, <1>11, SweepKeeps

LEMMA RaiseIInv ==
  ASSUME IInv, NEW p \in Sweepers, Raise(p)
  PROVE  IInv'
<1>1. /\ sweep[p].at \in {"cells", "committing"} /\ sending[p]["cell"] = Absent
      /\ sweep' = [sweep EXCEPT ![p] = [NoSweep EXCEPT !.at = "finished"]]
      /\ UNCHANGED <<corpus, cache, runs, job, sending, stream, moved>>
  BY DEF Raise, EventsPut
<1>2. /\ sweep'[p] = [NoSweep EXCEPT !.at = "finished"]
      /\ \A q \in Sweepers \ {p} : sweep'[q] = sweep[q] /\ runs'[q] = runs[q]
  BY <1>1 DEF IInv, TypeOK
<1>3. /\ sweep'[p] \in SweepType /\ sweep'[p].at = "finished"
      /\ Len(sweep'[p].results) = 0 /\ sweep'[p].hits = 0
  BY <1>2, Members DEF NoSweep, SweepType
<1>4. TypeOK'
  BY <1>1, <1>3, FaultIs DEF Raise, IInv, TypeOK
<1>5. p \notin Committed /\ p \notin Committed' /\ runs'[p] = runs[p]
  BY <1>1 DEF IInv, RunFiles, Committed
<1>6. ~moved => /\ OfOneCorpus(p)'
                /\ \A c \in CellNames : \A d \in Corpora : cache'[c][d] \in {d, Absent, Torn}
  BY <1>1, <1>3 DEF IInv, OneCorpus, FilesOfOneCorpus, OfOneCorpus, Sweeping
<1>7. p \in Jobs => sending[p]["start"] = Absent
  BY <1>1 DEF IInv, PutInTime
<1>8. Len(Cells) > 0 /\ Len(Cells) \in Nat
  BY Members
<1> QED BY <1>1, <1>2, <1>3, <1>4, <1>5, <1>6, <1>7, <1>8, SweepKeeps

LEMMA StartCliIInv ==
  ASSUME IInv, StartCli
  PROVE  IInv'
<1>1. /\ sweep[Cli].at = "idle"
      /\ sweep' = [sweep EXCEPT ![Cli].at = "starting"]
      /\ UNCHANGED <<corpus, cache, runs, job, sending, stream, faults, moved>>
  BY DEF StartCli
<1>2. /\ sweep'[Cli] = [sweep[Cli] EXCEPT !.at = "starting"]
      /\ \A q \in Sweepers \ {Cli} : sweep'[q] = sweep[q] /\ runs'[q] = runs[q]
  BY <1>1, Members DEF IInv, TypeOK
<1>3. sweep[Cli] \in SweepType
  BY Members DEF IInv, TypeOK
<1>4. /\ sweep'[Cli] \in SweepType /\ sweep'[Cli].at = "starting"
      /\ sweep'[Cli].results = sweep[Cli].results /\ sweep'[Cli].hits = sweep[Cli].hits
  BY <1>2, <1>3 DEF SweepType
<1>5. TypeOK'
  BY <1>1, <1>4 DEF IInv, TypeOK
<1>6. runs[Cli] = Absent /\ Cli \notin Committed /\ Cli \notin Committed'
  BY <1>1, Members DEF IInv, RunFiles, Committed
<1>7. /\ Len(sweep'[Cli].results) <= Len(Cells) /\ sweep'[Cli].hits <= Len(sweep'[Cli].results)
      /\ sweep'[Cli].results = <<>>
  BY <1>1, <1>4, Members DEF IInv, Progress
<1>8. ~moved => /\ OfOneCorpus(Cli)'
                /\ \A c \in CellNames : \A d \in Corpora : cache'[c][d] \in {d, Absent, Torn}
  BY <1>1, <1>4 DEF IInv, OneCorpus, FilesOfOneCorpus, OfOneCorpus, Sweeping
<1>9. Cli \in Sweepers /\ Cli \notin Jobs
  BY Members
<1> QED BY <1>1, <1>2, <1>4, <1>5, <1>6, <1>7, <1>8, <1>9, SweepKeeps

LEMMA KillCliIInv ==
  ASSUME IInv, KillCli
  PROVE  IInv'
<1>1. /\ sweep[Cli].at \notin {"finished", "gone"}
      /\ sweep' = [sweep EXCEPT ![Cli] = [NoSweep EXCEPT !.at = "gone"]]
      /\ UNCHANGED <<corpus, cache, runs, job, sending, stream, moved>>
  BY DEF KillCli, Sweeping
<1>2. /\ sweep'[Cli] = [NoSweep EXCEPT !.at = "gone"]
      /\ \A q \in Sweepers \ {Cli} : sweep'[q] = sweep[q] /\ runs'[q] = runs[q]
  BY <1>1, Members DEF IInv, TypeOK
<1>3. /\ sweep'[Cli] \in SweepType /\ sweep'[Cli].at = "gone"
      /\ Len(sweep'[Cli].results) = 0 /\ sweep'[Cli].hits = 0
  BY <1>2, Members DEF NoSweep, SweepType
<1>4. TypeOK'
  BY <1>1, <1>3, FaultIs DEF KillCli, IInv, TypeOK
<1>5. Cli \notin Committed /\ Cli \notin Committed' /\ runs'[Cli] = runs[Cli]
  BY <1>1, Members DEF IInv, RunFiles, Committed
<1>6. ~moved => /\ OfOneCorpus(Cli)'
                /\ \A c \in CellNames : \A d \in Corpora : cache'[c][d] \in {d, Absent, Torn}
  BY <1>1, <1>3 DEF IInv, OneCorpus, FilesOfOneCorpus, OfOneCorpus, Sweeping
<1>7. Cli \in Sweepers /\ Cli \notin Jobs /\ Len(Cells) \in Nat
  BY Members
<1> QED BY <1>1, <1>2, <1>3, <1>4, <1>5, <1>6, <1>7, SweepKeeps

-----------------------------------------------------------------------------
(* The steps that leave the sweeps and their files alone.                    *)

(* What is left to keep when only the job, the events or the streams change. *)
LEMMA TalkKeeps ==
  ASSUME IInv, UNCHANGED <<corpus, cache, runs, sweep, faults, moved>>,
         TypeOK', Current', PutInTime', Outcome', DoneCanBeOpened'
  PROVE  IInv'
<1> USE DEF IInv
<1>1. Progress'
  BY DEF Progress
<1>2. OneCorpus'
  BY DEF OneCorpus, FilesOfOneCorpus, OfOneCorpus, Sweeping
<1>3. RunFiles'
  BY DEF RunFiles, Committed
<1>4. CellsOfOneCorpus'
  BY DEF CellsOfOneCorpus, Committed
<1> QED BY <1>1, <1>2, <1>3, <1>4

(* A subscription: one stream's seed.                                        *)
LEMMA SubscriptionKeeps ==
  ASSUME IInv, NEW s \in Subscribers, NEW next \in StreamType,
         UNCHANGED <<corpus, cache, runs, sweep, job, sending, faults, moved>>,
         stream' = [stream EXCEPT ![s] = next],
         next.at = "open" /\ next.follows => OutcomeAhead(s) \/ next.last = job,
         next.last \in {stream[s].last, job}
  PROVE  IInv'
<1>1. next = stream'[s] /\ \A r \in Subscribers \ {s} : stream'[r] = stream[r]
  BY DEF IInv, TypeOK
<1>2. TypeOK'
  BY DEF IInv, TypeOK
<1>3. Current' /\ PutInTime'
  BY DEF IInv, Current, PutInTime
<1>4. Outcome'
  BY <1>1 DEF IInv, Outcome, OutcomeAhead
<1>5. DoneCanBeOpened'
  BY <1>1 DEF IInv, DoneCanBeOpened, Openable, Committed
<1> QED BY <1>2, <1>3, <1>4, <1>5, TalkKeeps

LEMMA SubscriptionIInv ==
  ASSUME IInv, NEW s \in Subscribers, Subscribe(s) \/ TakeSnapshot(s) \/ PutSnapshot(s)
  PROVE  IInv'
<1>1. stream[s] \in StreamType /\ job \in JobType
  BY DEF IInv, TypeOK
<1>2. CASE Subscribe(s)
  <2> DEFINE next == [stream[s] EXCEPT !.at = "listed"]
  <2>1. stream' = [stream EXCEPT ![s] = next]
        /\ UNCHANGED <<corpus, cache, runs, sweep, job, sending, faults, moved>>
    BY <1>2 DEF Subscribe
  <2>2. next \in StreamType /\ next.at = "listed" /\ next.last = stream[s].last
    BY <1>1 DEF StreamType
  <2> HIDE DEF next
  <2> QED BY <2>1, <2>2, SubscriptionKeeps
<1>3. CASE TakeSnapshot(s)
  <2> DEFINE next == [at |-> "looked", last |-> job, follows |-> FALSE]
  <2>1. stream' = [stream EXCEPT ![s] = next]
        /\ UNCHANGED <<corpus, cache, runs, sweep, job, sending, faults, moved>>
    BY <1>3 DEF TakeSnapshot
  <2>2. next \in StreamType /\ next.at = "looked" /\ next.last = job
    BY <1>1 DEF StreamType
  <2> HIDE DEF next
  <2> QED BY <2>1, <2>2, SubscriptionKeeps
<1>4. CASE PutSnapshot(s)
  <2> DEFINE next == [stream[s] EXCEPT !.at = "open",
                                   !.follows = OutcomeAhead(s) \/ stream[s].last = job]
  <2>1. stream' = [stream EXCEPT ![s] = next]
        /\ UNCHANGED <<corpus, cache, runs, sweep, job, sending, faults, moved>>
    BY <1>4 DEF PutSnapshot
  <2>2. /\ next \in StreamType /\ next.last = stream[s].last
        /\ next.follows = (OutcomeAhead(s) \/ stream[s].last = job)
    BY <1>1 DEF StreamType, OutcomeAhead
  <2> HIDE DEF next
  <2> QED BY <2>1, <2>2, SubscriptionKeeps
<1> QED BY <1>2, <1>3, <1>4

LEMMA PutIInv ==
  ASSUME IInv, NEW j \in Jobs, NEW t \in Threads, Put(j, t)
  PROVE  IInv'
<1> DEFINE e == sending[j][t]
           Gets(s) == stream[s].at = "open" /\ s \in e.to
           told(s) == job.id = j \/ OutcomeAhead(s)
<1>1. /\ e # Absent
      /\ stream' = [s \in Subscribers |->
                       IF Gets(s)
                       THEN [stream[s] EXCEPT !.last = e.event, !.follows = @ /\ told(s)]
                       ELSE stream[s]]
      /\ sending' = [sending EXCEPT ![j][t] = Absent]
      /\ UNCHANGED <<corpus, cache, runs, sweep, job, faults, moved>>
  BY DEF Put
<1>2. e \in EventType
  <2>1. sending \in [Sweepers -> [Threads -> EventType \cup {Absent}]] /\ j \in Sweepers
    BY Members DEF IInv, TypeOK
  <2>2. e # Absent
    BY <1>1
  <2> QED BY <2>1, <2>2
<1>3. \A s \in Subscribers :
        IF Gets(s) THEN /\ stream'[s].at = stream[s].at /\ stream'[s].last = e.event
                        /\ stream'[s].follows = (stream[s].follows /\ told(s))
                        /\ stream'[s] \in StreamType
                   ELSE stream'[s] = stream[s]
  <2> SUFFICES ASSUME NEW s \in Subscribers, Gets(s)
               PROVE  /\ stream'[s].at = stream[s].at /\ stream'[s].last = e.event
                      /\ stream'[s].follows = (stream[s].follows /\ told(s))
                      /\ stream'[s] \in StreamType
    BY <1>1
  <2>1. stream'[s] = [stream[s] EXCEPT !.last = e.event, !.follows = @ /\ told(s)]
    BY <1>1
  <2>2. stream[s] \in StreamType /\ e.event \in JobType
    BY <1>2 DEF IInv, TypeOK, EventType
  <2>3. told(s) \in BOOLEAN
    BY DEF OutcomeAhead
  <2> HIDE DEF told
  <2> QED BY <2>1, <2>2, <2>3 DEF StreamType
<1>4. /\ sending' \in [Sweepers -> [Threads -> EventType \cup {Absent}]]
      /\ \A k \in Sweepers : \A u \in Threads :
            sending'[k][u] = IF k = j /\ u = t THEN Absent ELSE sending[k][u]
  BY <1>1, Members DEF IInv, TypeOK
<1>5. TypeOK'
  <2>1. stream' \in [Subscribers -> StreamType]
    BY <1>1, <1>3 DEF IInv, TypeOK
  <2> QED BY <1>1, <1>4, <2>1 DEF IInv, TypeOK
<1>6. Current'
  BY <1>1 DEF IInv, Current
<1>7. PutInTime'
  BY <1>1, <1>4, Members DEF IInv, PutInTime, Threads
<1>8. Outcome'
  <2> SUFFICES ASSUME job.status \in {"done", "error"}
               PROVE  LET last == sending'[job.id]["run"]
                      IN  /\ last # Absent => last.event = job
                          /\ \A s \in Subscribers :
                               stream'[s].at = "open" /\ stream'[s].follows =>
                                 stream'[s].last = job \/ (last # Absent /\ s \in last.to)
    BY <1>1 DEF Outcome
  <2>1. job.id \in Jobs /\ job.id \in Sweepers /\ "run" \in Threads
    BY Members DEF IInv, Current, Threads
  <2>2. /\ sending[job.id]["run"] # Absent => sending[job.id]["run"].event = job
        /\ \A s \in Subscribers :
             stream[s].at = "open" /\ stream[s].follows =>
               \/ stream[s].last = job
               \/ sending[job.id]["run"] # Absent /\ s \in sending[job.id]["run"].to
    BY DEF IInv, Outcome
  <2>3. job.id = j => t = "run"
    BY <1>1 DEF IInv, Current, PutInTime, Threads
  <2>4. CASE job.id = j
    <3>1. sending'[job.id]["run"] = Absent /\ e = sending[job.id]["run"]
      BY <1>4, <2>1, <2>3, <2>4
    <3>2. e.event = job
      BY <1>1, <2>2, <3>1
    <3>3. ASSUME NEW s \in Subscribers, stream'[s].at = "open", stream'[s].follows
          PROVE  stream'[s].last = job
      <4>1. CASE Gets(s)
        BY <1>3, <3>2, <4>1
      <4>2. CASE ~Gets(s)
        BY <1>3, <2>2, <3>1, <3>3, <4>2
      <4> QED BY <4>1, <4>2
    <3> QED BY <3>1, <3>3
  <2>5. CASE job.id # j
    BY <1>3, <1>4, <2>1, <2>2, <2>5 DEF OutcomeAhead
  <2> QED BY <2>4, <2>5
<1>9. DoneCanBeOpened'
  <2>1. Openable(e.event) /\ Openable(job)
    BY <1>1 DEF IInv, DoneCanBeOpened
  <2>2. \A x : Openable(x)' <=> Openable(x)
    BY <1>1 DEF Openable, Committed
  <2>3. \A s \in Subscribers : Openable(stream'[s].last)
    BY <1>3, <2>1 DEF IInv, DoneCanBeOpened
  <2>4. \A k \in Jobs : \A u \in Threads :
          sending'[k][u] # Absent => Openable(sending'[k][u].event)
    BY <1>4, Members DEF IInv, DoneCanBeOpened
  <2> QED BY <1>1, <2>1, <2>2, <2>3, <2>4 DEF DoneCanBeOpened, Openable, Committed
<1> QED BY <1>1, <1>5, <1>6, <1>7, <1>8, <1>9, TalkKeeps

(* What building an event changes.                                           *)
LEMMA BuildIs ==
  ASSUME IInv, NEW j \in Jobs, NEW t \in Threads, NEW state \in JobType, Build(j, t, state)
  PROVE  /\ sending' \in [Sweepers -> [Threads -> EventType \cup {Absent}]]
         /\ \A k \in Sweepers : \A u \in Threads :
               k # j \/ u # t => sending'[k][u] = sending[k][u]
         /\ sending'[j][t] # Absent /\ sending'[j][t].event = state
         /\ \A s \in Subscribers : stream[s].at = "open" => s \in sending'[j][t].to
<1> DEFINE e == [event |-> state, to |-> Listed]
<1>1. /\ e \in EventType /\ e # Absent /\ e.event = state
      /\ \A s \in Subscribers : stream[s].at = "open" => s \in e.to
  BY AbsenceAssumption DEF EventType, Listed
<1>2. sending' = [sending EXCEPT ![j][t] = e]
  BY DEF Build
<1> HIDE DEF e
<1>3. \A k \in Sweepers : \A u \in Threads :
        sending'[k][u] = IF k = j /\ u = t THEN e ELSE sending[k][u]
  BY <1>2, Members DEF IInv, TypeOK
<1>4. sending' \in [Sweepers -> [Threads -> EventType \cup {Absent}]]
  BY <1>1, <1>2, Members DEF IInv, TypeOK
<1> QED BY <1>1, <1>3, <1>4, Members

(* A run that is there stays there: when the runs do not change, what is said   *)
(* of a job that is done stays right.                                        *)
LEMMA DoneKeeps ==
  ASSUME DoneCanBeOpened, UNCHANGED runs, Openable(job'),
         \A s \in Subscribers : stream'[s].last = stream[s].last,
         \A k \in Jobs : \A u \in Threads :
           sending'[k][u] = sending[k][u] \/ sending'[k][u].event = job'
  PROVE  DoneCanBeOpened'
BY DEF DoneCanBeOpened, Openable, Committed

LEMMA StartIInv ==
  ASSUME IInv, NEW j \in Jobs, Start(j)
  PROVE  IInv'
<1>1. /\ sweep[j].at = "idle" /\ job.status # "running"
      /\ job' = [NoJob EXCEPT !.id = j, !.status = "running"]
      /\ sweep' = [sweep EXCEPT ![j].at = "starting"]
      /\ Build(j, "start", job')
      /\ stream' = [s \in Subscribers |-> [stream[s] EXCEPT !.follows = stream[s].at = "open"]]
      /\ UNCHANGED <<corpus, cache, runs, faults, moved>>
  BY DEF Start
<1>2. /\ sweep[j] \in SweepType /\ sweep[j].results = <<>> /\ sweep[j].hits <= Len(Cells)
      /\ runs[j] = Absent
  BY <1>1, Members DEF IInv, TypeOK, SweepType, Progress, RunFiles
<1>3. /\ sweep'[j] \in SweepType /\ sweep'[j].at = "starting" /\ sweep'[j].results = <<>>
      /\ sweep'[j].hits = sweep[j].hits
      /\ \A p \in Sweepers \ {j} : sweep'[p] = sweep[p]
  <2>1. sweep'[j] = [sweep[j] EXCEPT !.at = "starting"]
        /\ \A p \in Sweepers \ {j} : sweep'[p] = sweep[p]
    BY <1>1, Members DEF IInv, TypeOK
  <2> QED BY <1>2, <2>1 DEF SweepType
<1>4. job' \in JobType /\ job'.id = j /\ job'.status = "running"
  BY <1>1, Members DEF NoJob, JobType
<1>5. /\ sending' \in [Sweepers -> [Threads -> EventType \cup {Absent}]]
      /\ \A k \in Sweepers : \A u \in Threads :
            k # j \/ u # "start" => sending'[k][u] = sending[k][u]
      /\ sending'[j]["start"].event = job'
  BY <1>1, <1>4, BuildIs DEF Threads
<1>6. \A s \in Subscribers : stream'[s] \in StreamType /\ stream'[s].last = stream[s].last
  <2> SUFFICES ASSUME NEW s \in Subscribers
               PROVE  stream'[s] \in StreamType /\ stream'[s].last = stream[s].last
    OBVIOUS
  <2>1. stream'[s] = [stream[s] EXCEPT !.follows = stream[s].at = "open"]
    BY <1>1
  <2>2. stream[s] \in StreamType
    BY DEF IInv, TypeOK
  <2> QED BY <2>1, <2>2 DEF StreamType
<1>7. TypeOK'
  BY <1>1, <1>3, <1>4, <1>5, <1>6 DEF IInv, TypeOK
<1>8. Progress'
  BY <1>2, <1>3 DEF IInv, Progress
<1>9. OneCorpus'
  <2> SUFFICES ASSUME ~moved PROVE FilesOfOneCorpus'
    BY <1>1 DEF OneCorpus
  <2>1. ASSUME NEW p \in Sweepers PROVE OfOneCorpus(p)'
    BY <1>1, <1>3 DEF IInv, OneCorpus, FilesOfOneCorpus, OfOneCorpus, Sweeping
  <2> QED BY <1>1, <2>1 DEF IInv, OneCorpus, FilesOfOneCorpus
<1>10. RunFiles' /\ Committed' = Committed
  BY <1>1, <1>2, <1>3 DEF IInv, RunFiles, Committed
<1>11. Current'
  BY <1>1, <1>3, <1>4, Members DEF IInv, Current
<1>12. PutInTime'
  BY <1>1, <1>3, <1>5, Members DEF IInv, PutInTime, Threads
<1>13. Outcome'
  BY <1>4 DEF Outcome
<1>14. CellsOfOneCorpus'
  BY <1>1, <1>10 DEF IInv, CellsOfOneCorpus
<1>15. DoneCanBeOpened'
  <2>1. Openable(job')
    BY <1>4 DEF Openable
  <2>2. \A k \in Jobs : \A u \in Threads :
          sending'[k][u] = sending[k][u] \/ sending'[k][u].event = job'
    BY <1>5, Members
  <2>3. DoneCanBeOpened /\ UNCHANGED runs
        /\ \A s \in Subscribers : stream'[s].last = stream[s].last
    BY <1>1, <1>6 DEF IInv
  <2> QED BY <2>1, <2>2, <2>3, DoneKeeps
<1> QED BY <1>7, <1>8, <1>9, <1>10, <1>11, <1>12, <1>13, <1>14, <1>15 DEF IInv

(* The steps of the current job's threads that change the job and build an    *)
(* event: what they leave alone.                                             *)
LEMMA EventKeeps ==
  ASSUME IInv, NEW j \in Jobs, NEW t \in Threads,
         UNCHANGED <<corpus, cache, runs, stream, faults, moved>>,
         sweep' \in [Sweepers -> SweepType], NEW next \in JobType, job' = next,
         Build(j, t, next), Openable(next)
  PROVE  TypeOK' /\ DoneCanBeOpened'
<1>1. /\ sending' \in [Sweepers -> [Threads -> EventType \cup {Absent}]]
      /\ \A k \in Sweepers : \A u \in Threads :
            k # j \/ u # t => sending'[k][u] = sending[k][u]
      /\ sending'[j][t].event = next
  BY BuildIs
<1>2. TypeOK'
  BY <1>1 DEF IInv, TypeOK
<1>3. \A k \in Jobs : \A u \in Threads :
        sending'[k][u] = sending[k][u] \/ sending'[k][u].event = job'
  BY <1>1, Members
<1>4. DoneCanBeOpened /\ Openable(job') /\ \A s \in Subscribers : stream'[s].last = stream[s].last
  BY DEF IInv
<1>5. DoneCanBeOpened'
  BY <1>3, <1>4, DoneKeeps
<1> QED BY <1>2, <1>5

LEMMA HeartbeatIInv ==
  ASSUME IInv, NEW j \in Jobs, Heartbeat(j)
  PROVE  IInv'
<1>1. /\ job.id = j /\ job.status = "running" /\ sweep[j].at \notin {"starting", "finished"}
      /\ Build(j, "run", job)
      /\ UNCHANGED <<corpus, cache, runs, sweep, job, stream, faults, moved>>
  BY DEF Heartbeat
<1>2. job \in JobType /\ "run" \in Threads
  BY DEF IInv, TypeOK, Threads
<1>3. Openable(job)
  BY <1>1 DEF Openable
<1>4. TypeOK' /\ DoneCanBeOpened'
  BY <1>1, <1>2, <1>3, EventKeeps DEF IInv, TypeOK
<1>5. \A k \in Sweepers : \A u \in Threads : u # "run" => sending'[k][u] = sending[k][u]
  BY <1>1, <1>2, BuildIs
<1>6. PutInTime'
  BY <1>1, <1>5, Members DEF IInv, PutInTime, Threads
<1>7. Current' /\ Outcome'
  BY <1>1 DEF IInv, Current, Outcome
<1> QED BY <1>1, <1>4, <1>6, <1>7, TalkKeeps

LEMMA FinishIInv ==
  ASSUME IInv, NEW j \in Jobs, Finish(j)
  PROVE  IInv'
<1>1. /\ sweep[j].at = "finished" /\ job.id = j /\ job.status = "running"
      /\ Build(j, "run", job')
      /\ UNCHANGED <<corpus, cache, runs, sweep, stream, faults, moved>>
  BY DEF Finish
<1>2. sweep[j] \in SweepType /\ job \in JobType /\ j \in Sweepers /\ "run" \in Threads
      /\ sweep[j].hits <= Len(sweep[j].results)
  BY Members DEF IInv, TypeOK, Threads, Progress
<1>3. job' \in JobType /\ job'.id = j /\ job'.status \in {"done", "error"} /\ Openable(job')
  <2>1. CASE Len(sweep[j].results) = Len(Cells)
    <3>1. job' = [job EXCEPT !.status = "done", !.run = j, !.hits = sweep[j].hits,
                             !.misses = Len(Cells) - sweep[j].hits]
      BY <2>1 DEF Finish
    <3>2. sweep[j].hits \in 0..Len(Cells) /\ Len(Cells) - sweep[j].hits \in 0..Len(Cells)
      BY <1>2, Members DEF SweepType
    <3>3. j \in Committed
      BY <1>1, <1>2, <2>1 DEF IInv, RunFiles
    <3> QED BY <1>1, <1>2, <3>1, <3>2, <3>3 DEF JobType, Openable
  <2>2. CASE Len(sweep[j].results) # Len(Cells)
    <3>1. job' = [job EXCEPT !.status = "error"]
      BY <2>2 DEF Finish
    <3> QED BY <1>1, <1>2, <3>1 DEF JobType, Openable
  <2> QED BY <2>1, <2>2
<1>4. TypeOK' /\ DoneCanBeOpened'
  BY <1>1, <1>2, <1>3, EventKeeps DEF IInv, TypeOK
<1>5. /\ \A k \in Sweepers : \A u \in Threads : u # "run" => sending'[k][u] = sending[k][u]
      /\ sending'[j]["run"] # Absent /\ sending'[j]["run"].event = job'
      /\ \A s \in Subscribers : stream[s].at = "open" => s \in sending'[j]["run"].to
  BY <1>1, <1>2, <1>3, BuildIs
<1>6. PutInTime'
  BY <1>1, <1>5, Members DEF IInv, PutInTime, Threads
<1>7. Current'
  BY <1>1, <1>3 DEF IInv, Current
<1>8. Outcome'
  BY <1>1, <1>3, <1>5 DEF Outcome
<1> QED BY <1>1, <1>4, <1>6, <1>7, <1>8, TalkKeeps

LEMMA OnCellIInv ==
  ASSUME IInv, NEW j \in Jobs, OnCell(j)
  PROVE  IInv'
<1>1. /\ sweep[j].at = "report"
      /\ job' = [job EXCEPT !.done = Len(sweep[j].results), !.hits = sweep[j].hits,
                            !.misses = Len(sweep[j].results) - sweep[j].hits]
      /\ Build(j, "cell", job')
      /\ sweep' = [sweep EXCEPT ![j].at = "cells"]
      /\ UNCHANGED <<corpus, cache, runs, stream, faults, moved>>
  BY DEF OnCell
<1>2. /\ sweep[j] \in SweepType /\ job \in JobType /\ j \in Sweepers /\ "cell" \in Threads
      /\ Len(sweep[j].results) <= Len(Cells) /\ sweep[j].hits <= Len(sweep[j].results)
  BY Members DEF IInv, TypeOK, Threads, Progress
<1>3. job.id = j /\ job.status = "running" /\ runs[j] = Absent
  BY <1>1, <1>2 DEF IInv, Current, RunFiles
<1>4. job' \in JobType /\ job'.id = j /\ job'.status = "running" /\ Openable(job')
  <2>1. /\ Len(sweep[j].results) \in 0..Len(Cells) /\ sweep[j].hits \in 0..Len(Cells)
        /\ Len(sweep[j].results) - sweep[j].hits \in 0..Len(Cells)
    BY <1>2, Members DEF SweepType
  <2> QED BY <1>1, <1>2, <1>3, <2>1 DEF JobType, Openable
<1>5. /\ sweep'[j] = [sweep[j] EXCEPT !.at = "cells"]
      /\ \A p \in Sweepers \ {j} : sweep'[p] = sweep[p]
  BY <1>1, <1>2 DEF IInv, TypeOK
<1>6. /\ sweep'[j] \in SweepType /\ sweep'[j].at = "cells"
      /\ sweep'[j].results = sweep[j].results /\ sweep'[j].hits = sweep[j].hits
      /\ sweep'[j].digest = sweep[j].digest
  BY <1>2, <1>5 DEF SweepType
<1>7. sweep' \in [Sweepers -> SweepType]
  BY <1>1, <1>5, <1>6 DEF IInv, TypeOK
<1>8. TypeOK' /\ DoneCanBeOpened'
  BY <1>1, <1>2, <1>4, <1>7, EventKeeps
<1>9. \A k \in Sweepers : \A u \in Threads :
        k # j \/ u # "cell" => sending'[k][u] = sending[k][u]
  BY <1>1, <1>2, <1>4, BuildIs
<1>10. Progress'
  BY <1>5, <1>6 DEF IInv, Progress
<1>11. OneCorpus'
  <2> SUFFICES ASSUME ~moved PROVE FilesOfOneCorpus'
    BY <1>1 DEF OneCorpus
  <2>1. ASSUME NEW p \in Sweepers PROVE OfOneCorpus(p)'
    BY <1>1, <1>5, <1>6 DEF IInv, OneCorpus, FilesOfOneCorpus, OfOneCorpus, Sweeping
  <2> QED BY <1>1, <2>1 DEF IInv, OneCorpus, FilesOfOneCorpus
<1>12. RunFiles' /\ Committed' = Committed
  BY <1>1, <1>3, <1>5, <1>6 DEF IInv, RunFiles, Committed
<1>13. Current'
  BY <1>3, <1>4, <1>5, <1>6, Members DEF IInv, Current
<1>14. PutInTime'
  BY <1>1, <1>5, <1>6, <1>9, Members DEF IInv, PutInTime, Threads
<1>15. Outcome'
  BY <1>4 DEF Outcome
<1>16. CellsOfOneCorpus'
  BY <1>1, <1>12 DEF IInv, CellsOfOneCorpus
<1> QED BY <1>8, <1>10, <1>11, <1>12, <1>13, <1>14, <1>15, <1>16 DEF IInv

-----------------------------------------------------------------------------
(* The steps around the sweeps.                                              *)
LEMMA IngestIInv ==
  ASSUME IInv, Ingest
  PROVE  IInv'
<1>1. /\ corpus < MaxGrowth /\ corpus' = corpus + 1
      /\ moved' = (moved \/ (\E p \in Sweepers : Sweeping(p) /\ sweep[p].at # "committing"))
      /\ UNCHANGED <<cache, runs, sweep, job, sending, stream, faults>>
  BY DEF Ingest
<1>2. TypeOK'
  BY <1>1, ParametersAssumption DEF IInv, TypeOK, Corpora
<1>3. Progress' /\ RunFiles' /\ Current' /\ PutInTime' /\ Outcome'
  BY <1>1 DEF IInv, Progress, RunFiles, Current, PutInTime, Outcome, Committed
<1>4. OneCorpus'
  <2> SUFFICES ASSUME ~moved' PROVE FilesOfOneCorpus'
    BY DEF OneCorpus
  <2>1. FilesOfOneCorpus
    BY <1>1 DEF IInv, OneCorpus
  <2>2. ASSUME NEW p \in Sweepers PROVE OfOneCorpus(p)'
    BY <1>1, <2>1 DEF FilesOfOneCorpus, OfOneCorpus, Sweeping
  <2> QED BY <1>1, <2>1, <2>2 DEF FilesOfOneCorpus
<1>5. CellsOfOneCorpus' /\ DoneCanBeOpened'
  BY <1>1 DEF IInv, CellsOfOneCorpus, DoneCanBeOpened, Openable, Committed
<1> QED BY <1>2, <1>3, <1>4, <1>5 DEF IInv

LEMMA KillServerIInv ==
  ASSUME IInv, KillServer
  PROVE  IInv'
<1> DEFINE lost(p) == p \in Jobs /\ sweep[p].at # "idle"
<1>1. /\ sweep' = [p \in Sweepers |-> IF lost(p) THEN [NoSweep EXCEPT !.at = "gone"] ELSE sweep[p]]
      /\ job' = NoJob
      /\ sending' = [p \in Sweepers |-> [t \in Threads |-> Absent]]
      /\ stream' = [s \in Subscribers |-> [at |-> "closed", last |-> Absent, follows |-> FALSE]]
      /\ UNCHANGED <<corpus, cache, runs, moved>>
  BY DEF KillServer
<1>2. [NoSweep EXCEPT !.at = "gone"] \in SweepType
  BY Members DEF NoSweep, SweepType
<1>3. \A p \in Sweepers :
        IF lost(p) THEN /\ sweep'[p].at = "gone" /\ Len(sweep'[p].results) = 0
                        /\ sweep'[p].hits = 0
                   ELSE sweep'[p] = sweep[p]
  BY <1>1 DEF NoSweep
<1>4. TypeOK'
  <2>1. sweep' \in [Sweepers -> SweepType]
    BY <1>1, <1>2 DEF IInv, TypeOK
  <2>2. [at |-> "closed", last |-> Absent, follows |-> FALSE] \in StreamType
    BY DEF StreamType
  <2>3. stream' \in [Subscribers -> StreamType]
    BY <1>1, <2>2
  <2>4. sending' \in [Sweepers -> [Threads -> EventType \cup {Absent}]]
    BY <1>1
  <2>5. job' \in JobType /\ faults' \in 0..MaxFaults
    BY <1>1, Members, FaultIs DEF KillServer
  <2> QED BY <1>1, <2>1, <2>3, <2>4, <2>5 DEF IInv, TypeOK
<1>5. Progress'
  BY <1>3, Members DEF IInv, Progress
<1>6. OneCorpus'
  <2> SUFFICES ASSUME ~moved PROVE FilesOfOneCorpus'
    BY <1>1 DEF OneCorpus
  <2>1. ASSUME NEW p \in Sweepers PROVE OfOneCorpus(p)'
    <3>1. CASE lost(p)
      BY <1>3, <3>1 DEF OfOneCorpus, Sweeping
    <3>2. CASE ~lost(p)
      BY <1>1, <1>3, <3>2 DEF IInv, OneCorpus, FilesOfOneCorpus, OfOneCorpus, Sweeping
    <3> QED BY <3>1, <3>2
  <2> QED BY <1>1, <2>1 DEF IInv, OneCorpus, FilesOfOneCorpus
<1>7. RunFiles' /\ Committed' = Committed
  BY <1>1, <1>3 DEF IInv, RunFiles, Committed
<1>8. Current'
  BY <1>1, <1>3, Members DEF IInv, Current, NoJob
<1>9. PutInTime'
  BY <1>1, Members DEF PutInTime, Threads
<1>10. Outcome'
  BY <1>1 DEF Outcome, NoJob
<1>11. CellsOfOneCorpus'
  BY <1>1, <1>7 DEF IInv, CellsOfOneCorpus
<1>12. DoneCanBeOpened'
  BY <1>1, Members DEF DoneCanBeOpened, Openable, NoJob
<1> QED BY <1>4, <1>5, <1>6, <1>7, <1>8, <1>9, <1>10, <1>11, <1>12 DEF IInv

-----------------------------------------------------------------------------
LEMMA SweepStepIInv ==
  ASSUME IInv, NEW p \in Sweepers, SweepStep(p)
  PROVE  IInv'
BY DigestIInv, HitIInv, AnswerIInv, BeginCellIInv, EndCellIInv, BeginRunIInv, EndRunIInv
   DEF SweepStep

LEMMA StutterIInv ==
  ASSUME IInv, UNCHANGED vars
  PROVE  IInv'
<1> USE DEF vars
<1>1. TypeOK' /\ Current' /\ PutInTime'
  BY DEF IInv, TypeOK, Current, PutInTime
<1>2. Outcome' /\ DoneCanBeOpened'
  BY DEF IInv, Outcome, DoneCanBeOpened, Openable, Committed
<1> QED BY <1>1, <1>2, TalkKeeps

LEMMA NextIInv == IInv /\ [Next]_vars => IInv'
<1> SUFFICES ASSUME IInv, [Next]_vars PROVE IInv'
  OBVIOUS
<1>1. ASSUME NEW j \in Jobs, Start(j) \/ Heartbeat(j) \/ WorkerStep(j) \/ RunnerStep(j)
      PROVE  IInv'
  <2>1. CASE WorkerStep(j)
    BY <2>1, SweepStepIInv, OnCellIInv, PutIInv, Members DEF WorkerStep, Threads
  <2>2. CASE RunnerStep(j)
    BY <2>2, FinishIInv, PutIInv DEF RunnerStep, Threads
  <2> QED BY <1>1, <2>1, <2>2, StartIInv, HeartbeatIInv
<1>2. CASE StartCli \/ SweepStep(Cli) \/ Ingest \/ KillCli \/ KillServer
  BY <1>2, StartCliIInv, SweepStepIInv, IngestIInv, KillCliIInv, KillServerIInv, Members
<1>3. ASSUME NEW p \in Sweepers, Raise(p) PROVE IInv'
  BY <1>3, RaiseIInv
<1>4. ASSUME NEW s \in Subscribers, Subscribe(s) \/ TakeSnapshot(s) \/ PutSnapshot(s)
      PROVE  IInv'
  BY <1>4, SubscriptionIInv
<1>5. CASE Settled \/ UNCHANGED vars
  BY <1>5, StutterIInv DEF Settled
<1> QED BY <1>1, <1>2, <1>3, <1>4, <1>5 DEF Next

LEMMA Invariance == Spec => []IInv
BY InitIInv, NextIInv, PTL DEF Spec

-----------------------------------------------------------------------------
(* The variables keep their types in every execution of run_matrix, of the    *)
(* MatrixRunner and of its streams.                                          *)
THEOREM TypeCorrect == Spec => []TypeOK
<1>1. IInv => TypeOK
  BY DEF IInv
<1> QED BY <1>1, Invariance, PTL

(* As long as no corpus is ingested under a sweep, all the cells of a          *)
(* committed run were answered over the one corpus it names, however many      *)
(* sweeps share the cell files and whichever of them were cut short.          *)
THEOREM RunsAreOfOneCorpus == Spec => []CellsOfOneCorpus
<1>1. IInv => CellsOfOneCorpus
  BY DEF IInv
<1> QED BY <1>1, Invariance, PTL

(* A job that the snapshot or an event calls done names its own run, and the   *)
(* file of that run is whole.                                                *)
THEOREM DoneIsCommitted == Spec => []DoneCanBeOpened
<1>1. IInv => DoneCanBeOpened
  BY DEF IInv
<1> QED BY <1>1, Invariance, PTL

(* A stream ends with the job's outcome, whatever progress was put late and     *)
(* however many jobs came before, unless its seed was put behind the outcome   *)
(* and is older, or an earlier job's event was put behind it.                *)
THEOREM StreamsEndWithTheOutcome == Spec => []LastWordIsTheOutcome
<1>1. IInv => LastWordIsTheOutcome
  <2> SUFFICES ASSUME IInv, NEW s \in Subscribers, stream[s].at = "open", stream[s].follows,
                      job.status \in {"done", "error"}, AllPut
               PROVE  stream[s].last = job
    BY DEF LastWordIsTheOutcome
  <2>1. job.id \in Jobs
    BY DEF IInv, Current
  <2>2. sending[job.id]["run"] = Absent
    BY <2>1 DEF AllPut, Threads
  <2> QED BY <2>2 DEF IInv, Outcome
<1> QED BY <1>1, Invariance, PTL
=============================================================================
