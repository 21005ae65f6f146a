SPECIFICATION Spec
SYMMETRY Symmetry
CONSTANTS
  u1 = u1
  u2 = u2
  u3 = u3
  s1 = s1
  s2 = s2
  NoOne = NoOne
  Users <- ThreeUsers
  Sessions <- TwoSessions
  MaxMembers = 1
INVARIANTS TypeOK InvitesBounded
PROPERTIES RemovalsLast
CHECK_DEADLOCK FALSE
