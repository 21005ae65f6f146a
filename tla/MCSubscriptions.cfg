SPECIFICATION Spec
SYMMETRY Symmetry
CONSTANTS
  p1 = p1
  p2 = p2
  o1 = o1
  h1 = h1
  h2 = h2
  Purchases <- TwoPurchases
  Overrides <- OneOverride
  Handlers <- TwoHandlers
  MaxRollbacks = 1
INVARIANTS TypeOK GrantedOnce NeverStranded
PROPERTIES EntitlementsKept
