\* Two jobs of every kind on two workers over a corpus of two videos,
\* each indexed before or not, with and without a graph hook, any listing unread.
CONSTANTS
  j1 = j1
  j2 = j2
  v1 = v1
  v2 = v2
  w1 = w1
  w2 = w2
  NoJob = NoJob
  NoVideo = NoVideo
  NoDocument = NoDocument
  Jobs = {j1, j2}
  Workers = {w1, w2}
  Videos = {v1, v2}
  Modes = {"video", "channel", "enrichment", "channels"}
SYMMETRY Symmetry
SPECIFICATION Spec
INVARIANTS
  ClaimsAreDisjoint
  CountsAddUp
PROPERTY ImplementsBoard
