\* Two builds, one override request and one exclusion over two videos; two
\* theme units, two community units and two rules they may state.
CONSTANTS
  v1 = v1
  v2 = v2
  u1 = u1
  u2 = u2
  g1 = g1
  g2 = g2
  Videos = {v1, v2}
  Rules = {c1, c2}
  Requests = {r1}
  Units = {u1, u2, g1, g2}
  RaptorUnits <- TwoThemes
  GraphUnits <- TwoCommunities
  UnitVideos <- WhoSpeaks
  UnitBudget = 2
  Silent = Silent
  TornFile = TornFile
  Absent = Absent
  MaxBuilds = 2
  MaxFaults = 1
  MaxExcluded = 1
SYMMETRY Symmetry
SPECIFICATION Spec
INVARIANTS
  BlockedStayOut
  PinsKept
  ManifestNotAhead
  ArmsSpendAlike
  OneCallOneRule
