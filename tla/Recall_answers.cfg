SPECIFICATION MCSpec
CONSTANTS
  e1 = e1 e2 = e2 e3 = e3 e4 = e4 e5 = e5 t1 = t1 t2 = t2
  ann = ann bo = bo law = law ops = ops urgent = urgent r1 = r1
  asking = asking tuning = tuning
  Entries <- AllEntries
  Teams <- AllTeams
  Values <- AllValues
  AuthorOf <- Author
  DomainOf <- Domain
  TagsOf <- Tags
  ChunksOf <- Distances
  Far = 10
  Clients <- Windows
  ActorOf <- SameActor
  NamesOf <- Names
  TeamOf <- HomeTeam
  Superadmins <- NoSuper
  DefaultMin = 3
  DefaultMax = 3
  FetchPer = 1
  FetchMin = 2
  FetchMax = 3
  PoolPer = 1
  Growth = 2
  PoolMax = 8
  Bodies <- Saved
  Overrides <- Tried
  RuleIds = {r1}
  Asks <- TwoWindows
  CallsOf <- Calls
  MaxChanges = 1
  None = None
CHECK_DEADLOCK FALSE
INVARIANTS TypeOK HiddenStaysHidden PinsSurvive
PROPERTIES NearestFound
