---------------------------- MODULE DeepResearch ----------------------------
(***************************************************************************)
(* The deep-research arms of one topic: `deep-research` plans, executes,   *)
(* criticises and republishes (run_deep_research), --frontier builds two    *)
(* more arms on the stored first round (run_frontier_round), --score folds  *)
(* a scoring run into the report (attach_scores).  The commands are         *)
(* processes of their own over the same files; one of them builds while     *)
(* another may be scoring, ingestion goes on and either may be killed.      *)
(*                                                                         *)
(* A passage stands for the video it is from, so that "two videos" is two   *)
(* passages.  A probe is abstracted to its question, a question to the      *)
(* order in which it ranks the passages, a rule (Rubric) to its unit's      *)
(* rank, the rule it states - two that state the same are what              *)
(* dedupe_rubrics takes for one - and the passages it quotes.  The rules of *)
(* a pack are a set: their ranks, the rubric_ids, are all different and give *)
(* the order in which they are read.                                        *)
(***************************************************************************)
EXTENDS ResearchArms, Naturals, Sequences, SequencesExt, FiniteSets

vars == <<corpus, arms, report, memo, cache, job, score, faults, unsettled>>

Digests == [edition: Nat, size: 0..Len(Passages)]
CorpusOf(digest) == {Passages[i]: i \in 1..digest.size}

Answers == [says: Rules, on: SUBSET Range(Passages)]
Rubrics == [rank: Nat, says: Rules, on: SUBSET Range(Passages)]
Packs ==
  [build: 0..MaxJobs, digest: Digests, members: SUBSET Range(Passages),
   units: Seq([rank: Nat, reads: SUBSET Range(Passages)]), inherited: Nat,
   rules: SUBSET Rubrics]

(* A row of a scoring run: an arm, and the build it was of when it was read. *)
Rows == [arm: Arms, build: 1..MaxJobs]
Reports == [build: 0..MaxJobs, frontier: 0..MaxJobs, scores: SUBSET Rows]

BuildSteps == {"plan", "deep-r1", "deep-oneshot", "critic", "deep-r2", "report"}
FrontierSteps == {"coverage", "deep-frontier", "admit", "block"}

(* A command at work: the arm it builds on or has built, for the admission  *)
(* arm the second round, and the probes and answers of its round.           *)
Jobs ==
  [kind: {"idle", "build", "frontier"}, at: {"idle"} \cup BuildSteps \cup FrontierSteps,
   number: 0..MaxJobs, pack: Packs, second: Packs, extra: Seq(Questions),
   probes: Seq(Questions), found: Seq(Answers \cup {Absent})]

NoPack == [build |-> 0, digest |-> [edition |-> 0, size |-> 0], members |-> {},
           units |-> <<>>, inherited |-> 0, rules |-> {}]
NoReport == [build |-> 0, frontier |-> 0, scores |-> {}]
NoJob == [kind |-> "idle", at |-> "idle", number |-> 0, pack |-> NoPack, second |-> NoPack,
          extra |-> <<>>, probes |-> <<>>, found |-> <<>>]

Init ==
  /\ corpus = [edition |-> 0, size |-> Indexed]
  /\ arms = [a \in Arms |-> Absent]
  /\ report = Absent
  /\ memo = {}
  /\ cache = [seen \in {} |-> Absent]
  /\ job = NoJob
  /\ score = [at |-> "idle", runs |-> 0, of |-> {}]
  /\ faults = 0
  /\ unsettled = FALSE

----------------------------------------------------------------------------
(* The executors, the admission rule and the publisher.                    *)

(* probe_unit: the pool best ranked passages of the members outside the     *)
(* excluded ground; a unit is eligible when they come from two videos.     *)
Retrieve(question, members, excluded) ==
  LET ranked == Ranking[question]
      left   == {i \in DOMAIN ranked: ranked[i] \in members \ excluded}
  IN  {ranked[i]: i \in {k \in left: Cardinality({j \in left: j <= k}) <= Pool}}

EligibleUnit(unit) == Cardinality(unit.reads) >= 2

(* dedupe_rubrics: the first statement of every rule. *)
Dedupe(rubrics) ==
  {r \in rubrics: \A s \in rubrics: s.rank < r.rank => s.says # r.says}

States(rubrics, rule) == \E r \in rubrics: r.says = rule

(* Mutant: a candidate that restates an inherited rule takes its place. *)
JoinLast(prior, candidates) ==
  {r \in prior: ~States(candidates, r.says)} \cup Dedupe(candidates)

(* The inherited rules and then the candidates, deduped as one list.       *)
Join(prior, candidates) ==
  Dedupe(prior) \cup {r \in Dedupe(candidates): ~States(prior, r.says)}

(* Mutant: only the inherited rules' passages count as used. *)
AdmitAgainstPrior(prior, candidates) ==
  {r \in candidates: ~(r.on \subseteq Quoted(prior))}

(* admit_novel_evidence: a candidate that quotes a passage no rule admitted *)
(* before it quotes.  Whatever it refuses quotes nothing new, so all the    *)
(* candidates before it may be counted, refused or not.                    *)
Admit(prior, candidates) ==
  {r \in candidates: ~(r.on \subseteq Quoted(prior) \cup Quoted(Before(candidates, r)))}

(* The round's probes as units; gap_probes numbers from 50, or from 60.    *)
UnitsOf(probes, start, members, excluded) ==
  [i \in DOMAIN probes |-> [rank |-> start + i, reads |-> Retrieve(probes[i], members, excluded)]]

(* The rubrics of the round. *)
RubricsOf(units, found) ==
  {[rank |-> units[i].rank, says |-> found[i].says, on |-> found[i].on]:
     i \in {k \in DOMAIN units: found[k] # Absent}}

(* publish over the first round's pack: its units and its rules come first. *)
PublishOver(first, units, candidates) ==
  [first EXCEPT !.units = @ \o units, !.inherited = Len(first.units),
                !.rules = Join(@, candidates)]

----------------------------------------------------------------------------
(* The build and the frontier round.                                       *)

Idle == job.kind = "idle" /\ job.number < MaxJobs
Doing(kind, at) == job.kind = kind /\ job.at = at
Goto(at) == job' = [job EXCEPT !.at = at]
End == job' = [NoJob EXCEPT !.number = job.number]

(* run_deep_research: corpus, catalogue and pins are read, and the topic is *)
(* routed.                                                                 *)
StartBuild(members) ==
  /\ Idle /\ members \subseteq CorpusOf(corpus)
  /\ job' = [NoJob EXCEPT !.kind = "build", !.at = "plan", !.number = job.number + 1,
                          !.pack = [NoPack EXCEPT !.build = job.number + 1,
                                                  !.digest = corpus, !.members = members]]
  /\ unsettled' = (unsettled \/ score.at # "idle")
  /\ UNCHANGED <<corpus, arms, report, memo, cache, score, faults>>

(* _cached_json: an identical call on disk is used, a new one is stored.   *)
Answered(key, answers, rows) ==
  LET known == {m \in memo: m.key = key} IN
  IF known = {} THEN rows \in answers /\ memo' = memo \cup {[key |-> key, rows |-> rows]}
                ELSE [key |-> key, rows |-> rows] \in known /\ UNCHANGED memo

(* The plan: the first round's probes, and those of the one-shot control.  *)
Plan(rows) ==
  /\ Doing("build", "plan")
  /\ Answered(<<"plan", job.pack.members>>, Plans, rows)
  /\ LET first == SubSeq(rows, 1, IF Len(rows) < RoundOne THEN Len(rows) ELSE RoundOne) IN
     job' = [job EXCEPT !.at = "deep-r1", !.probes = first,
                        !.extra = SubSeq(rows, Len(first) + 1, Len(rows))]
  /\ UNCHANGED <<corpus, arms, report, cache, score, faults, unsettled>>

(* Mutant: the later rounds may read what the first one read. *)
NothingExcluded == {}

(* A frontier round stays off the ground of the first round. *)
Excluded ==
  IF job.kind = "frontier"
  THEN UNION {job.pack.units[i].reads: i \in DOMAIN job.pack.units} ELSE {}

Start == IF job.at = "deep-r2" THEN 50 ELSE IF job.at = "deep-frontier" THEN 60
         ELSE IF job.at = "deep-oneshot" THEN RoundOne ELSE 0

Probing == job.at \in {"deep-r1", "deep-oneshot", "deep-r2", "deep-frontier"}
RoundUnits == UnitsOf(job.probes, Start, job.pack.members, Excluded)
Pending == Probing /\ Len(job.found) < Len(job.probes)
Unit == RoundUnits[Len(job.found) + 1]
Found(answer) == job' = [job EXCEPT !.found = Append(@, answer)]

(* An ineligible probe spends no call. *)
SkipProbe ==
  /\ Pending /\ ~EligibleUnit(Unit)
  /\ Found(Absent)
  /\ UNCHANGED <<corpus, arms, report, memo, cache, score, faults, unsettled>>

(* rubrics_for_unit: a remembered answer is used, a new one remembered.    *)
Execute(says, on) ==
  /\ Pending /\ EligibleUnit(Unit)
  /\ LET answer == [says |-> says, on |-> on] IN
     /\ IF Unit.reads \in DOMAIN cache
        THEN answer = cache[Unit.reads] /\ UNCHANGED cache
        ELSE /\ on \subseteq Unit.reads
             /\ cache' = [seen \in DOMAIN cache \cup {Unit.reads} |->
                            IF seen = Unit.reads THEN answer ELSE cache[seen]]
     /\ Found(answer)
  /\ UNCHANGED <<corpus, arms, report, memo, score, faults, unsettled>>

(* A call whose answer is not usable gives no rubric and is not remembered. *)
ExecuteFails ==
  /\ Pending /\ EligibleUnit(Unit) /\ Unit.reads \notin DOMAIN cache
  /\ faults < MaxFaults /\ faults' = faults + 1
  /\ Found(Absent)
  /\ UNCHANGED <<corpus, arms, report, memo, cache, score, unsettled>>

RoundDone(at) == job.at = at /\ Len(job.found) = Len(job.probes)
RoundRubrics == RubricsOf(RoundUnits, job.found)
Save(arm, pack) == arms' = [arms EXCEPT ![arm] = pack]

(* deep-r1 is published and saved; the one-shot control probes on.         *)
SaveRoundOne ==
  /\ RoundDone("deep-r1")
  /\ LET pack == PublishOver(job.pack, RoundUnits, RoundRubrics) IN
     /\ Save("deep-r1", pack)
     /\ job' = [job EXCEPT !.at = "deep-oneshot", !.pack = pack,
                           !.probes = job.extra, !.found = <<>>]
  /\ UNCHANGED <<corpus, report, memo, cache, score, faults, unsettled>>

SaveOneShot ==
  /\ RoundDone("deep-oneshot")
  /\ Save("deep-oneshot", PublishOver(job.pack, RoundUnits, RoundRubrics))
  /\ job' = [job EXCEPT !.at = "critic", !.probes = <<>>, !.found = <<>>]
  /\ UNCHANGED <<corpus, report, memo, cache, score, faults, unsettled>>

(* find_gaps: the critic reads the first round's rules, and its gaps are    *)
(* the second round's probes.                                              *)
FindGaps(rows) ==
  /\ Doing("build", "critic")
  /\ Answered(<<"gaps", job.pack.rules>>, GapLists, rows)
  /\ job' = [job EXCEPT !.at = "deep-r2", !.probes = rows]
  /\ UNCHANGED <<corpus, arms, report, cache, score, faults, unsettled>>

SaveRoundTwo ==
  /\ RoundDone("deep-r2")
  /\ Save("deep-r2", PublishOver(job.pack, RoundUnits, RoundRubrics))
  /\ job' = [job EXCEPT !.at = "report", !.probes = <<>>, !.found = <<>>]
  /\ UNCHANGED <<corpus, report, memo, cache, score, faults, unsettled>>

(* Mutant: a rebuilt report keeps the scores of the report before. *)
BuiltReportScored(old) ==
  [build |-> job.number, frontier |-> 0,
   scores |-> IF old \in {Absent, Torn} THEN {} ELSE old.scores]

(* The report of a build: no scores, no frontier round, whatever was there. *)
BuiltReport(old) == [build |-> job.number, frontier |-> 0, scores |-> {}]

SaveReport ==
  /\ Doing("build", "report")
  /\ report' = BuiltReport(report)
  /\ End
  /\ unsettled' = (score.at # "idle")
  /\ UNCHANGED <<corpus, arms, memo, cache, score, faults>>

(* corpus_as_built: some prefix of the live corpus has the digest.         *)
Reproducible(digest) == digest.edition = corpus.edition /\ digest.size <= corpus.size

(* run_frontier_round: both stored rounds are read; a torn one raises, and  *)
(* so does a corpus that has not purely grown since the first round.        *)
StartFrontier ==
  /\ Idle
  /\ \A a \in {"deep-r1", "deep-r2"}: arms[a] \notin {Absent, Torn}
  /\ Reproducible(arms["deep-r1"].digest)
  /\ job' = [NoJob EXCEPT !.kind = "frontier", !.at = "coverage", !.number = job.number + 1,
                          !.pack = arms["deep-r1"], !.second = arms["deep-r2"]]
  /\ UNCHANGED <<corpus, arms, report, memo, cache, score, faults, unsettled>>

(* The coverage-aware critic's probes.                                     *)
FindFrontier(rows) ==
  /\ Doing("frontier", "coverage")
  /\ Answered(<<"gaps-coverage", job.pack.rules, Excluded>>, GapLists, rows)
  /\ job' = [job EXCEPT !.at = "deep-frontier", !.probes = rows]
  /\ UNCHANGED <<corpus, arms, report, cache, score, faults, unsettled>>

(* deep-frontier: the first round and what the admission rule lets in.     *)
FrontierPack == PublishOver(job.pack, RoundUnits, Admit(job.pack.rules, RoundRubrics))

SaveFrontier ==
  /\ RoundDone("deep-frontier")
  /\ Save("deep-frontier", FrontierPack)
  /\ Goto("admit")
  /\ UNCHANGED <<corpus, report, memo, cache, score, faults, unsettled>>

(* build_admission_arm: the rules of the stored second round that are not   *)
(* the first round's by rubric_id, through the admission rule.              *)
AdmissionPack ==
  LET inherited == {r.rank: r \in job.pack.rules}
      added == {r \in job.second.rules: r.rank \notin inherited}
  IN  [job.second EXCEPT !.rules = Join(job.pack.rules, Admit(job.pack.rules, added)),
                         !.digest = job.pack.digest]

SaveAdmission ==
  /\ Doing("frontier", "admit")
  /\ Save("deep-r2-admit", AdmissionPack)
  /\ Goto("block")
  /\ UNCHANGED <<corpus, report, memo, cache, score, faults, unsettled>>

(* The frontier block joins the report on disk, or an empty one where that  *)
(* cannot be read; a torn one-shot arm raises before it.                    *)
SaveBlock ==
  /\ Doing("frontier", "block")
  /\ report' = IF arms["deep-oneshot"] = Torn THEN report
               ELSE [(IF report \in {Absent, Torn} THEN NoReport ELSE report) EXCEPT
                       !.frontier = job.pack.build]
  /\ End
  /\ UNCHANGED <<corpus, arms, memo, cache, score, faults, unsettled>>

(* The command is killed, or a planner's or critic's call raises: the file  *)
(* it was writing, if any, is left cut short.                              *)
Kill ==
  /\ job.kind # "idle"
  /\ faults < MaxFaults /\ faults' = faults + 1
  /\ End
  /\ \/ UNCHANGED <<arms, report>>
     \/ /\ \/ Probing /\ ~Pending /\ arms' = [arms EXCEPT ![job.at] = Torn]
           \/ job.at = "admit" /\ arms' = [arms EXCEPT !["deep-r2-admit"] = Torn]
        /\ UNCHANGED report
     \/ job.at \in {"report", "block"} /\ report' = Torn /\ UNCHANGED arms
  /\ unsettled' = (unsettled \/ job.kind = "build")
  /\ UNCHANGED <<corpus, memo, cache, score>>

----------------------------------------------------------------------------
(* Scoring, and ingestion.                                                 *)

(* score_research loads every arm there is, whichever build left it; one    *)
(* that is torn raises.  There is a report: --score-only returns without    *)
(* one, and the other commands have just written it.                       *)
StartScore ==
  /\ score.at = "idle" /\ score.runs < MaxScores
  /\ report \notin {Absent, Torn}
  /\ \A a \in Arms: arms[a] # Torn
  /\ score' = [at |-> "scoring", runs |-> score.runs + 1,
               of |-> {[arm |-> a, build |-> arms[a].build]: a \in OnDisk}]
  /\ unsettled' = (unsettled \/ job.kind = "build")
  /\ UNCHANGED <<corpus, arms, report, memo, cache, job, faults>>

(* attach_scores, when the matcher is done: into the report as it is now.  *)
AttachScores ==
  /\ score.at = "scoring"
  /\ score' = [score EXCEPT !.at = "idle", !.of = {}]
  /\ report' = IF report \in {Absent, Torn} THEN report
               ELSE [report EXCEPT !.scores = score.of]
  /\ UNCHANGED <<corpus, arms, memo, cache, job, faults, unsettled>>

(* Ingestion adds a video, or re-indexes one the corpus has.               *)
Ingest ==
  \/ /\ corpus.size < Len(Passages)
     /\ corpus' = [corpus EXCEPT !.size = @ + 1]
     /\ UNCHANGED <<arms, report, memo, cache, job, score, faults, unsettled>>
  \/ /\ faults < MaxFaults /\ faults' = faults + 1
     /\ corpus' = [corpus EXCEPT !.edition = @ + 1]
     /\ UNCHANGED <<arms, report, memo, cache, job, score, unsettled>>

BuildStep ==
  \/ \E rows \in Plans: Plan(rows)
  \/ SaveRoundOne \/ SaveOneShot
  \/ \E rows \in GapLists: FindGaps(rows)
  \/ SaveRoundTwo \/ SaveReport

FrontierStep ==
  \/ \E rows \in GapLists: FindFrontier(rows)
  \/ SaveFrontier \/ SaveAdmission \/ SaveBlock

ProbeStep ==
  \/ SkipProbe
  \/ \E says \in Rules, on \in SUBSET Range(Passages):
       on # {} /\ Cardinality(on) <= MaxQuotes /\ Execute(says, on)
  \/ ExecuteFails

(* Nothing more is asked of the commands. *)
Settled == job.kind = "idle" /\ job.number = MaxJobs /\ score.at = "idle"

Next ==
  \/ \E members \in Routings: StartBuild(members)
  \/ StartFrontier
  \/ BuildStep \/ FrontierStep \/ ProbeStep \/ Kill
  \/ StartScore \/ AttachScores
  \/ Ingest
  \/ Settled /\ UNCHANGED vars

Spec == Init /\ [][Next]_vars

----------------------------------------------------------------------------
(* The types of the variables. *)
TypeOK ==
  /\ corpus \in Digests
  /\ arms \in [Arms -> Packs \cup {Absent, Torn}]
  /\ report \in Reports \cup {Absent, Torn}
  /\ \A m \in memo: m.rows \in Seq(Questions)
  /\ \A seen \in DOMAIN cache: cache[seen] \in [says: Rules, on: SUBSET seen]
  /\ job \in Jobs
  /\ Len(job.found) <= Len(job.probes)
  /\ score \in [at: {"idle", "scoring"}, runs: 0..MaxScores, of: SUBSET Rows]
  /\ faults \in 0..MaxFaults
  /\ unsettled \in BOOLEAN

=============================================================================
