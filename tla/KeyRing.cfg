\* Three keys and two threads, two attempts per key.
CONSTANTS
  t1 = t1
  t2 = t2
  NoKey = NoKey
  NKeys = 3
  ThrottleRetries = 2
  Threads = {t1, t2}
SPECIFICATION FairSpec
INVARIANTS
  NeverAsksTwice
  PollsWithOwner
PROPERTIES
  EveryCallEnds
