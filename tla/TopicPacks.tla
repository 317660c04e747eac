----------------------------- MODULE TopicPacks -----------------------------
(***************************************************************************)
(* The pack files of one topic: the state that the build and the override   *)
(* requests of ExpertPacks share, and what holds of the packs and of the     *)
(* manifest whatever was built, pinned or killed last.                       *)
(***************************************************************************)
EXTENDS Naturals, Sequences, SequencesExt, FiniteSets

CONSTANTS
  Videos,       \* the videos of the corpus
  Rules,        \* the rules a rubric may state
  Requests,     \* the override requests
  Units,        \* the units a rubric can be asked of
  RaptorUnits,  \* the eligible theme units of every set of members, best first
  GraphUnits,   \* its eligible community units, best first
  UnitVideos,   \* the videos every unit speaks of
  UnitBudget,   \* units an arm may use (DEFAULT_UNIT_BUDGET)
  TornFile,     \* a file cut short by a kill
  Silent,       \* an answer without a rule
  Absent,       \* no file, no row, no answer
  MaxBuilds,    \* bound on the builds started
  MaxFaults,    \* bound on the kills and the calls that give no rule
  MaxExcluded   \* bound on the videos the catalogue blocks

ASSUME BoundsAssumption ==
  /\ UnitBudget \in Nat \ {0} /\ MaxBuilds \in Nat /\ MaxFaults \in Nat /\ MaxExcluded \in Nat
  /\ {Absent, TornFile, Silent} \cap Rules = {}
  /\ TornFile # Absent /\ Silent \notin {TornFile, Absent}

(* A pool lists no unit twice and the two share none: theme and community    *)
(* units have ids of their own.                                            *)
ASSUME PoolAssumption ==
  /\ RaptorUnits \in [SUBSET Videos -> Seq(Units)]
  /\ GraphUnits \in [SUBSET Videos -> Seq(Units)]
  /\ UnitVideos \in [Units -> SUBSET Videos]
  /\ \A S \in SUBSET Videos:
       /\ IsInjective(RaptorUnits[S]) /\ IsInjective(GraphUnits[S])
       /\ Range(RaptorUnits[S]) \cap Range(GraphUnits[S]) = {}

(* An arm on disk: no more units than the budget, and for some of them a rule. *)
PackFiles ==
  [build: 1..MaxBuilds, members: SUBSET Videos, blocked: SUBSET Videos, units: Seq(Units),
   rules: UNION {[kept -> Rules]: kept \in SUBSET (1..UnitBudget)}]

ASSUME AbsentAssumption == Absent \notin PackFiles

VARIABLES
  blocked,   \* the videos experts/packs.json excludes or holds out
  packManifest, \* the topic's manifest.json: the pins and the last build, or TornFile
  arms,      \* the topic's pack file of every arm
  cache,     \* the rubric calls remembered, by unit and by its videos in the topic
  build,     \* the running build-packs command
  faults,    \* the kills and the calls without a rule so far
  request,   \* the state of every override request
  wish,      \* the pins as the requests answered 200 left them (auxiliary)
  raced      \* two read-modify-writes of the manifest overlapped, or it tore (auxiliary)

ArmNames == {"raptor", "communities", "merged"}
Packs == {arms[a]: a \in {x \in ArmNames: arms[x] \notin {Absent, TornFile}}}

----------------------------------------------------------------------------
(* No pack holds a video its build's catalogue blocked, though a human had  *)
(* pinned it in before it was blocked: "An override cannot re-admit an      *)
(* excluded video" (route_members), whatever order the edit, the pin, a     *)
(* killed build and the next one come in.                                  *)
BlockedStayOut == \A p \in Packs: p.members \cap p.blocked = {}

(* A pin outlives rebuilds and other pins, as long as none of them read the *)
(* manifest before it and wrote it after, and no kill cut the file short.  *)
PinsKept == packManifest # TornFile /\ ~raced => packManifest.pins = wish

(* The manifest is written last: whatever was killed, the arms it speaks of *)
(* are there and none is older than it.                                    *)
ManifestNotAhead ==
  packManifest # TornFile /\ packManifest.build > 0 =>
    \A a \in ArmNames: arms[a] # Absent /\ (arms[a] # TornFile => arms[a].build >= packManifest.build)

(* The arms of one build compare what the units say and not how many calls  *)
(* an arm had: all have the same number of units, except when one of the    *)
(* two pools has none at all.                                              *)
ArmsSpendAlike ==
  \A p, q \in Packs: p.build = q.build => Len(p.units) = Len(q.units) \/ p.units = <<>> \/ q.units = <<>>

(* One unit over the same of its videos gives the same rule in every arm and in  *)
(* every build that keeps a rule of it: a failed or killed call is made     *)
(* again, an answered one never.                                           *)
OneCallOneRule ==
  \A p, q \in Packs: \A i \in DOMAIN p.rules, j \in DOMAIN q.rules:
    /\ p.units[i] = q.units[j]
    /\ UnitVideos[p.units[i]] \cap p.members = UnitVideos[q.units[j]] \cap q.members
    => p.rules[i] = q.rules[j]

=============================================================================
