\* The server and one command; four runs, one of them killed.
CONSTANTS
  wide = wide
  small = small
  server = server
  command = command
  Actors = {server, command}
  Server = server
  Comments = {c1, c2}
  Selections = {wide, small}
  Clusters <- TwoAndOne
  MaxClusters = 2
  None = None
  Torn = Torn
  MaxFixPasses = 1
  MaxRuns = 4
  MaxKills = 1
SYMMETRY Symmetry
CONSTRAINT Apart
CHECK_DEADLOCK FALSE
SPECIFICATION Spec
INVARIANTS
  ClosedByItsReceipt
  NumberIsFree
  PublishedIsVerified
  PageIsCurrent
  EvidenceFits
PROPERTY ClosedOnce
