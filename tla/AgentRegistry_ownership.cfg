\* A refactored agent loses its team.
SPECIFICATION RegistrySpec
CONSTANTS
  Ids = {a1}
  Domains = {d1}
  Teams = {t1}
  UnassignedTeam = t1
  NoTeam = NoTeam
  Scopes = {t1}
  Editors = {e1}
  MaxGen = 2
  MaxStops = 0
  NoAgent = NoAgent
PROPERTY AgentKeepsTeam
CHECK_DEADLOCK FALSE
