\* Two teams and the reserved one, two runs, two deleted teams, one process stop; every call may fail.
SPECIFICATION Spec
CONSTANTS
  Teams = {t1, t2, u}
  Unassigned = u
  Unscoped = Unscoped
  None = None
  Faults = {"latestRun", "startRun", "listEntries", "summarize", "generateAgent", "deleteOld", "detectGaps", "latestSnapshot", "storeSnapshot", "finishRun", "ensureTeam", "backfill", "mark"}
  MaxRuns = 2
  MaxFound = 1
  MaxGone = 2
  MaxStops = 1
SYMMETRY RealTeamsAlike
INVARIANTS TypeOK RunsHonest CompleteMeansDone SnapshotsDense
PROPERTIES DeletesOnlyOlder
CHECK_DEADLOCK FALSE
