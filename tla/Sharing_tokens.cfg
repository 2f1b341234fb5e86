SPECIFICATION ShareSpec
CONSTANTS
  alice = alice  bob = bob  sue = sue  t1 = t1  t2 = t2
  None = None
  Ids = {e1, e2, e3}
  Callers <- Trio
  Super <- Sue
  Teams <- TwoTeams
  Home <- HomeOf
  Texts = {x1}
  Tokens = {k1, k2}
  Ops <- ShareOpsOf
  Faults = {"embed"}
  MaxStops = 1
CHECK_DEADLOCK FALSE
SYMMETRY SymAll
INVARIANTS ShareTypeOK OneCopyPerToken
PROPERTIES ImplementsLedger ImportsAwaitApproval
