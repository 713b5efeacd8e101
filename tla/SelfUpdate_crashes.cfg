\* Two updates that may overlap, crashes at any point.
CONSTANTS
  u1 = u1
  u2 = u2
  Updates = {u1, u2}
  None = None
SPECIFICATION Spec
SYMMETRY Symmetry
CHECK_DEADLOCK FALSE
INVARIANTS
  BinaryMatches
  BinaryKept
  OnlyVerified
