SPECIFICATION Spec
CONSTANTS
  h1 = h1
  h2 = h2
  t1 = t1
  t2 = t2
  t3 = t3
  Requests <- TwoRequests
  Tokens <- ThreeTokens
  MaxResets = 1
SYMMETRY Symmetry
INVARIANTS ProvisionedOnce SessionsBounded
PROPERTIES LinkKept
