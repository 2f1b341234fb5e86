SPECIFICATION TodoSpec
CONSTANTS
  alice = alice  bob = bob  t1 = t1  t2 = t2
  Lists = {l1, l2}
  Items = {i1, i2, i3}
  Names = {n1}
  Callers <- Members
  Teams <- TwoTeams
  Home <- HomeSuper
  Reach <- ReachSuper
  Ops <- OpsSplit
  MaxPos = 3
SYMMETRY SymAll
CHECK_DEADLOCK FALSE
INVARIANTS TodoTypeOK
PROPERTY ReorderPlaces
