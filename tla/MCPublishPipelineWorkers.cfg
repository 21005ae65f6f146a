SPECIFICATION Spec
CONSTANTS
  w1 = w1
  w2 = w2
  u1 = u1
  u2 = u2
  Workers <- TwoWorkers
  Sessions <- OneSession
  MaxOps = 2
  MaxQueued = 1
  MaxLosses = 0
  MaxAborts = 0
  MaxRetries = 2
SYMMETRY WorkerSymmetry
INVARIANTS TypeOK CallsExclusive StatusesBacked AttemptsLogged
PROPERTY PublicationKept
