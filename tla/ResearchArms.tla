---------------------------- MODULE ResearchArms ----------------------------
(***************************************************************************)
(* The research arms of one topic: the state that the commands of           *)
(* DeepResearch share, and what holds of the arms and of the report whoever  *)
(* wrote them last.                                                        *)
(***************************************************************************)
EXTENDS Naturals, Sequences, SequencesExt

CONSTANTS
  Passages,    \* the passages in ingestion order
  Indexed,     \* how many of them are in the corpus at first
  Questions,   \* what a probe may ask
  Ranking,     \* the order in which every question ranks the passages
  Routings,    \* the sets of videos the topic may be routed to
  Rules,       \* what a rubric may state
  Plans,       \* what the planner may answer (parse_probes)
  GapLists,    \* what a critic may answer (parse_gaps)
  Pool,        \* passages a probe retrieves (DEFAULT_RETRIEVAL_POOL)
  RoundOne,    \* probes of the first round (DEFAULT_ROUND_ONE_PROBES)
  Absent, Torn, \* no file or no answer; a file cut short by a kill
  MaxQuotes,   \* bound on the passages a rubric quotes
  MaxJobs,     \* bound on the builds and frontier rounds started
  MaxScores,   \* bound on the scoring runs started
  MaxFaults    \* bound on failed calls, kills and re-indexed corpora

ASSUME ParametersAssumption ==
  /\ Passages \in Seq(Range(Passages)) /\ IsInjective(Passages)
  /\ Indexed \in 1..Len(Passages)
  /\ Ranking \in [Questions -> Seq(Range(Passages))]
  /\ Plans \subseteq Seq(Questions) /\ GapLists \subseteq Seq(Questions)
  /\ Pool \in Nat \ {0} /\ RoundOne \in 1..50
  /\ Routings \subseteq SUBSET Range(Passages)
  /\ {Absent, Torn} \cap Rules = {} /\ Absent # Torn
  /\ MaxQuotes \in Nat /\ MaxJobs \in Nat /\ MaxScores \in Nat /\ MaxFaults \in Nat

VARIABLES
  corpus,   \* the live corpus: how often it was re-indexed, and its size
  arms,     \* the pack file of every research arm
  report,   \* research.json
  memo,     \* the planner and critic calls remembered
  cache,    \* the rubric calls remembered, by the passages they read
  job,      \* the build or the frontier round that runs
  score,    \* the scoring run
  faults,   \* failed calls, kills and re-indexings so far
  unsettled \* a score may be of other arms than the report's (auxiliary)

Arms == {"deep-r1", "deep-oneshot", "deep-r2", "deep-frontier", "deep-r2-admit"}
Built == {"deep-r1", "deep-oneshot", "deep-r2"}

(* The arms there are to read; what a set of rules quotes; rows whose arms of *)
(* a build are all of this one; the rules of a set that come before one.     *)
OnDisk == {a \in Arms: arms[a] \notin {Absent, Torn}}
Quoted(rubrics) == UNION {r.on: r \in rubrics}
OfBuild(rows, number) == \A r \in rows: r.arm \in Built => r.build = number
Before(rubrics, r) == {s \in rubrics: s.rank < r.rank}

----------------------------------------------------------------------------
(* The arms that build on a first round hold every rule of it, unchanged    *)
(* and in its order, so that a later round cannot bank a restatement of     *)
(* what it inherited as new coverage (publish); and they are over its       *)
(* corpus.  Whatever was killed or rebuilt, as long as the first round on   *)
(* disk is still the one they were built on.                               *)
NestedArms ==
  \A a \in OnDisk \ {"deep-r1", "deep-r2-admit"}:
    "deep-r1" \in OnDisk /\ arms["deep-r1"].build = arms[a].build =>
      LET first == arms["deep-r1"] IN
      /\ first.rules \subseteq arms[a].rules
      /\ \A r \in first.rules, s \in arms[a].rules \ first.rules: r.rank < s.rank
      /\ IsPrefix(first.units, arms[a].units)
      /\ first.digest = arms[a].digest

(* What the frontier round's own probes read is no passage the first round  *)
(* had before it, whichever build's first round it found on disk: a later   *)
(* probe cannot spend its call on ground that had its chance (probe_unit).  *)
OffTheGround ==
  "deep-frontier" \in OnDisk =>
    LET p == arms["deep-frontier"] IN
    \A i \in 1..p.inherited, j \in (p.inherited + 1)..Len(p.units):
      p.units[i].reads \cap p.units[j].reads = {}

(* A rule the frontier or the admission arm adds rests on a passage that no *)
(* rule before it rests on - of the first round, or added with it.          *)
RestsOnItsOwn ==
  \A a \in OnDisk \cap {"deep-frontier", "deep-r2-admit"}:
    \A r \in arms[a].rules:
      r.rank > 50 => ~(r.on \subseteq Quoted(Before(arms[a].rules, r)))

(* The three arms a build makes are scored into a report only as its own     *)
(* build made them.  The scoring run takes long and goes into whatever      *)
(* report there is when it ends, so no build may have run beside it or       *)
(* stopped half-way.  Nothing like it holds of the frontier and admission    *)
(* arms: a build leaves those of an earlier one on disk, and score_research  *)
(* scores every arm there is.                                              *)
ScoresOfThisBuild ==
  report \notin {Absent, Torn} /\ ~unsettled /\ report.build > 0 =>
    OfBuild(report.scores, report.build)

=============================================================================
