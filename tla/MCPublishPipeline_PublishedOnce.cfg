SPECIFICATION Spec
CONSTANTS
  w1 = w1
  w2 = w2
  u1 = u1
  u2 = u2
  Workers <- TwoWorkers
  Sessions <- OneSession
  MaxOps = 1
  MaxQueued = 2
  MaxLosses = 0
  MaxAborts = 0
  MaxRetries = 2
INVARIANT PublishedOnce
