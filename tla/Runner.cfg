\* Two asks of either setup, one after the other or at the same time.
CONSTANTS
  Asks = {a1, a2}
  Nobody = Nobody
  MaxFollowups = 2
SPECIFICATION Spec
INVARIANTS
  AloneIsOwn
PROPERTY EveryAnswerEnds
