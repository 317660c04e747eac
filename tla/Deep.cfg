\* Three commands - so that a build may follow a frontier round - beside one
\* scoring run and one fault; a plan of two probes, one of them the first
\* round's, and at most two gaps.
CONSTANTS
  a = a
  b = b
  c = c
  d = d
  e = e
  q1 = q1
  q2 = q2
  q3 = q3
  Passages <- FivePassages
  Indexed = 4
  Questions = {q1, q2, q3}
  Ranking <- Rankings
  Routings <- TwoRoutings
  Rules = {c1, c2}
  Plans <- OnePlan
  GapLists <- TwoGapLists
  Pool = 2
  RoundOne = 1
  Absent = Absent
  Torn = Torn
  MaxQuotes = 1
  MaxJobs = 3
  MaxScores = 1
  MaxFaults = 1
SYMMETRY Symmetry
SPECIFICATION Spec
INVARIANTS
  NestedArms
  OffTheGround
  RestsOnItsOwn
  ScoresOfThisBuild
