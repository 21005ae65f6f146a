SPECIFICATION FairSpec
CONSTANTS
  w1 = w1
  w2 = w2
  u1 = u1
  u2 = u2
  Workers <- OneWorker
  Sessions <- TwoSessions
  MaxOps = 2
  MaxQueued = 1
  MaxLosses = 1
  MaxAborts = 1
  MaxRetries = 2
INVARIANTS NeverStuck NoLostEdit
PROPERTIES DuePostSettles SessionsEnd
