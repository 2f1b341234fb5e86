\* Two callers behind one address, one of them a superadmin at times.
SPECIFICATION FairSpec
CONSTANTS
  MaxTime = 8
  t1 = t1 t2 = t2 a1 = a1 a2 = a2 c1 = c1 c2 = c2 i1 = i1
  Ips = {i1}
  Burst = 1
  Lag = 1
  PruneAfter = 3
  NoBucket = NoBucket
  Teams = {t1, t2}
  Actors = {a1, a2}
  Window = 4
  Never = Never
  Clients = {c1, c2}
  AddressOf <- OneAddress
  Identities <- Known
  MaxSubscribers = 1
  SweepEvery = 2
  LastCall = 4
  NoTeam = NoTeam
  Nobody = Nobody
INVARIANTS TypeOK RateBound
 
CHECK_DEADLOCK FALSE
