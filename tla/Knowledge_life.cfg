\* One entry, three callers, one a superadmin, every operation, failing embedders and a restart.
SPECIFICATION Spec
CONSTANTS
  alice = alice  bob = bob  sue = sue  t1 = t1  t2 = t2
  None = None
  Ids = {e1}
  Callers <- Trio
  Super <- Sue
  Teams <- TwoTeams
  Home <- HomeTrio
  Texts = {x1, x2}
  Ops <- AllOps
  Faults = {"embed"}
  MaxStops = 1
CHECK_DEADLOCK FALSE
SYMMETRY SymAll
INVARIANTS TypeOK IndexWasText NoOrphanChunks
PROPERTY DecisionsStand
