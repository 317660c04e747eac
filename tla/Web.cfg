\* One article, two documents, three texts, two URLs, two vintages, one run.
CONSTANTS
  a = a
  b = b
  c = c
  p = p
  q = q
  u1 = u1
  u2 = u2
  r1 = r1
  r2 = r2
  None = None
  Runs = {r1}
  Documents = {p, q}
  Long = {q}
  Texts = {a, b, c}
  Reading <- Readings
  Urls = {u1, u2}
  Vintages = {1, 2}
  Length <- Lengths
  BodyInFeed = TRUE
  MaxRevision = 3
  MaxMisses = 4
SYMMETRY Symmetry
SPECIFICATION Spec
INVARIANTS
  StoredIsReadable
  RowDescribesChunks
PROPERTIES
  UnchangedIsCurrent
  NoUrlForgotten
