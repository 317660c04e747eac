CONSTANTS
  Asks = {a1, a2}
  Judges = {j1, j2}
  Cli = cli
  MaxKills = 1
  Nobody = Nobody
  Torn = Torn
SPECIFICATION Spec
INVARIANTS
  NothingLost
  EvaluationIsOfThisAnswer
PROPERTY
  TornIsKept
