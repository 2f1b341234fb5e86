\* The pipeline (for teams and unscoped), a refactor request, renames, publication,
\* merges and deletions of teams, and a stop interleave.
SPECIFICATION RegistrySpec
CONSTANTS
  Ids = {a1, a2}
  Domains = {d1, d2}
  Teams = {t1, t2}
  UnassignedTeam = t2
  NoTeam = NoTeam
  Scopes = {t1, t2, NoTeam}
  Editors = {e1}
  MaxGen = 3
  MaxStops = 1
  NoAgent = NoAgent
INVARIANTS RegistryTypeOK HistorySound
PROPERTIES PipelineStaysInTeam
CHECK_DEADLOCK FALSE
