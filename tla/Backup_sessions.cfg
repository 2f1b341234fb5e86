SPECIFICATION Spec
CONSTANTS
  c1 = c1 c2 = c2 s1 = s1 e1 = e1
  Callers = {c1, c2}
  SessionIds = {s1}
  Entries = {e1}
  None = None
  Asks <- AgentAsks
  CallsOf <- Calls
  MinRating = 0
  Unassigned = unassigned
  MaxChanges = 1
  EnvDim = d1
  Dims = {d1, d2}
  LongLine <- ToolOutput
CONSTRAINT Bounded
CHECK_DEADLOCK FALSE
INVARIANTS TypeOK TurnsInOrder
PROPERTIES RestoreIsExact
