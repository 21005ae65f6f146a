SPECIFICATION RateSpec
SYMMETRY Symmetry
CONSTANTS
  c1 = c1
  c2 = c2
  c3 = c3
  NotCalling = NotCalling
  Callers <- ThreeWorkers
  Window = 6
  MaxDelay = 3
  MaxCalls = 2
  MaxTime = 12
PROPERTIES WindowKept
CHECK_DEADLOCK FALSE
