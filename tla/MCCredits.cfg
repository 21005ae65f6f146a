SPECIFICATION Spec
CONSTANTS
  j1 = j1
  j2 = j2
  w1 = w1
  w2 = w2
  c1 = c1
  Jobs <- TwoJobs
  Workers <- TwoWorkers
  Clerks <- OneClerk
  Cost = 2
  Initial = 3
  Monthly = 3
  FreePlan = 1
  Grant = 1
  TaskRetries = 1
  MaxChanges = 2
  MaxLosses = 1
SYMMETRY Symmetry
INVARIANTS TypeOK BalanceBounded PaymentsBounded OutcomeTrue
PROPERTIES LedgerKept
CHECK_DEADLOCK FALSE
