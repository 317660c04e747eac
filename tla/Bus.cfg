\* One job, two tabs: every interleaving of the three senders and of two
\* connections, with the fairness of FairSpec.
CONSTANTS
  j1 = j1
  j2 = j2
  t1 = t1
  t2 = t2
  Shown = {j1}
  Tabs = {t1, t2}
SPECIFICATION FairSpec
INVARIANTS
  EndIsTheLastWord
PROPERTY TabLearnsOfEnd
CHECK_DEADLOCK FALSE
