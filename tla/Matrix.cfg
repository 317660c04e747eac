\* A job and a command over two cells, a corpus that changes once, one stream
\* and one fault.
CONSTANTS
  x1 = x1
  x2 = x2
  Cells <- TwoCells
  Jobs = {m1}
  Cli = Cli
  Subscribers = {s1}
  Absent = Absent
  Torn = Torn
  Failed = Failed
  MaxGrowth = 1
  MaxFaults = 1
SPECIFICATION Spec
INVARIANTS
  CellsOfOneCorpus
  DoneCanBeOpened
  LastWordIsTheOutcome
PROPERTY EveryJobEnds
