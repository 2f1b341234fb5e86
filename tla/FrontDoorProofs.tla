-------------------------- MODULE FrontDoorProofs --------------------------
(***************************************************************************)
(* The bound the token buckets keep, for every number of addresses, every  *)
(* burst and every age of a clock reading; and, resting on it, the types   *)
(* of everything a request and the sweep loop go by.                       *)
(*                                                                         *)
(* The argument follows a bucket's debt, lastSeen - tokens: the instant at *)
(* which it was last known to be empty.  A grant moves the debt forward by *)
(* one, a refill never moves it back, and it is never in the future; so an *)
(* address's level is covered by what its debt is ahead of now, plus the   *)
(* burst and the age of a reading.  A pruned bucket's debt is so old that  *)
(* the level is 0, which is why a full bucket may take its place.          *)
(***************************************************************************)
EXTENDS FrontDoor, FiniteSetTheorems, TLAPS

Debt(ip) == buckets[ip].lastSeen - buckets[ip].tokens

\* What the other conditions need of an address with a bucket.
Covered(ip) ==
  /\ buckets[ip].lastSeen \in 0..now
  /\ buckets[ip].tokens \in Int /\ buckets[ip].tokens <= Burst
  /\ Debt(ip) <= now
  /\ Debt(ip) <= buckets[ip].lastSeen + Lag
  /\ level[ip] = 0 \/ level[ip] <= Debt(ip) - now + Lag + Burst

RateInv ==
  /\ now \in Nat
  /\ level \in [Ips -> Nat]
  /\ buckets \in [Ips -> [tokens : Int, lastSeen : Int] \cup {NoBucket}]
  /\ \A ip \in Ips : IF buckets[ip] = NoBucket THEN level[ip] = 0 ELSE Covered(ip)

\* The invariant covers the bound.
LEMMA RateInvBound == RateInv => RateBound
  BY BurstAssumption DEF RateInv, RateBound, Covered, Debt

\* A request of one address, let through or not.
LEMMA RequestKeepsRateInv ==
  ASSUME RateInv, NEW ip \in Ips, NEW at \in Readings, UNCHANGED now,
         Admit(ip, at) \/ Refuse(ip, at)
  PROVE  RateInv'
PROOF
<1> DEFINE b == Bucket(ip, at)
           left == Refilled(b, at)
<1>1. now \in Nat /\ Burst \in Nat /\ Burst >= 1 /\ Lag \in Nat /\ level[ip] \in Nat
  BY BurstAssumption DEF RateInv
<1>2. at \in Int /\ 0 <= at /\ at <= now /\ now - Lag <= at
  BY <1>1 DEF Readings
<1>3. /\ b.tokens \in Int /\ b.lastSeen \in Int
      /\ b.lastSeen - b.tokens <= now
      /\ level[ip] = 0 \/ level[ip] <= b.lastSeen - b.tokens - now + Lag + Burst
  <2>1. CASE buckets[ip] = NoBucket
    BY <1>1, <1>2, <2>1 DEF Bucket, RateInv
  <2>2. CASE buckets[ip] # NoBucket
    BY <1>1, <1>2, <2>2 DEF Bucket, RateInv, Covered, Debt
  <2> QED BY <2>1, <2>2
<1>4. left \in Int /\ left <= Burst /\ left <= b.tokens + (at - b.lastSeen)
      /\ (left = Burst \/ left = b.tokens + (at - b.lastSeen))
  BY <1>1, <1>2, <1>3 DEF Refilled, AtMost
<1> HIDE DEF b, left
<1>5. \A other \in Ips \ {ip} : buckets'[other] = buckets[other] /\ level'[other] = level[other]
  BY DEF Admit, Refuse, RateInv
<1>6. \E taken \in {0, 1} :
        /\ buckets'[ip] = [tokens |-> left - taken, lastSeen |-> at]
        /\ level'[ip] = level[ip] + taken
        /\ taken = 1 => left >= 1
        /\ taken = 0 => left < 1
  <2>1. CASE Admit(ip, at)
    BY <2>1 DEF Admit, RateInv, left, b
  <2>2. CASE Refuse(ip, at)
    <3>1. buckets'[ip] = [tokens |-> left, lastSeen |-> at] /\ level' = level /\ left < 1
      BY <2>2 DEF Refuse, RateInv, left, b
    <3>2. left - 0 = left /\ level[ip] + 0 = level[ip]
      BY <1>1, <1>4
    <3> QED BY <3>1, <3>2
  <2> QED BY <2>1, <2>2
<1>7. PICK taken \in {0, 1} :
        /\ buckets'[ip] = [tokens |-> left - taken, lastSeen |-> at]
        /\ level'[ip] = level[ip] + taken
        /\ taken = 1 => left >= 1
        /\ taken = 0 => left < 1
  BY <1>6
<1>8. buckets'[ip].tokens = left - taken /\ buckets'[ip].lastSeen = at
  BY <1>7
<1>9. /\ at \in 0..now
      /\ left - taken \in Int /\ left - taken <= Burst
      /\ at - (left - taken) <= now
      /\ at - (left - taken) <= at + Lag
      /\ level[ip] + taken = 0 \/ level[ip] + taken <= at - (left - taken) - now + Lag + Burst
  BY <1>1, <1>2, <1>3, <1>4, <1>7
<1>10. Covered(ip)'
  BY <1>7, <1>8, <1>9 DEF Covered, Debt
<1>11. buckets'[ip] # NoBucket
  BY <1>7, <1>2, <1>4, NoBucketAssumption
<1>12. level' \in [Ips -> Nat] /\ buckets' \in [Ips -> [tokens : Int, lastSeen : Int] \cup {NoBucket}]
  <2>1. left - 1 \in Int /\ left \in Int /\ at \in Int
    BY <1>2, <1>4
  <2>2. CASE Admit(ip, at)
    BY <2>1, <2>2 DEF Admit, RateInv, left, b
  <2>3. CASE Refuse(ip, at)
    BY <2>1, <2>3 DEF Refuse, RateInv, left, b
  <2> QED BY <2>2, <2>3
<1>13. \A other \in Ips \ {ip} :
         IF buckets'[other] = NoBucket THEN level'[other] = 0 ELSE Covered(other)'
  BY <1>5 DEF RateInv, Covered, Debt
<1> QED BY <1>10, <1>11, <1>12, <1>13 DEF RateInv

\* A bucket that is pruned has been full for as long as a reading can be old.
LEMMA PruneKeepsRateInv ==
  ASSUME RateInv, UNCHANGED now, Prune
  PROVE  RateInv'
PROOF
<1>1. PICK at \in Readings :
        buckets' = [ip \in Ips |-> IF buckets[ip] # NoBucket
                                      /\ buckets[ip].lastSeen < at - PruneAfter
                                   THEN NoBucket ELSE buckets[ip]]
  BY DEF Prune
<1>2. now \in Nat /\ Burst \in Nat /\ Lag \in Nat /\ PruneAfter \in Nat
      /\ PruneAfter >= Burst + 2 * Lag /\ at \in Int /\ at <= now /\ level' = level
  BY BurstAssumption, PruneAssumption DEF RateInv, Readings, Prune
<1>3. ASSUME NEW ip \in Ips
      PROVE  IF buckets'[ip] = NoBucket THEN level'[ip] = 0 ELSE Covered(ip)'
  <2>1. CASE buckets'[ip] = buckets[ip]
    BY <1>2, <2>1 DEF RateInv, Covered, Debt
  <2>2. CASE buckets'[ip] # buckets[ip]
    <3>1. buckets[ip] # NoBucket /\ buckets[ip].lastSeen < at - PruneAfter /\ buckets'[ip] = NoBucket
      BY <1>1, <2>2
    <3>2. Covered(ip) /\ level[ip] \in Nat
      BY <3>1 DEF RateInv
    <3>3. level[ip] = 0
      BY <1>2, <3>1, <3>2 DEF Covered, Debt
    <3> QED BY <1>2, <3>1, <3>3
  <2> QED BY <2>1, <2>2
<1>4. buckets' \in [Ips -> [tokens : Int, lastSeen : Int] \cup {NoBucket}]
  BY <1>1 DEF RateInv
<1> QED BY <1>2, <1>3, <1>4 DEF RateInv

\* Time drains the level as fast as it takes debts into the past.
LEMMA TickKeepsRateInv ==
  ASSUME RateInv, Tick, Drain
  PROVE  RateInv'
PROOF
<1>1. now \in Nat /\ now' = now + 1 /\ buckets' = buckets /\ Burst \in Nat /\ Lag \in Nat
  BY BurstAssumption DEF RateInv, Tick, Drain
<1>2. ASSUME NEW ip \in Ips
      PROVE  /\ level'[ip] \in Nat
             /\ IF buckets'[ip] = NoBucket THEN level'[ip] = 0 ELSE Covered(ip)'
  <2>1. /\ level[ip] \in Nat
        /\ level'[ip] = IF level[ip] = 0 THEN 0 ELSE level[ip] - 1
    BY DEF RateInv, Drain, Drained
  <2>2. CASE buckets[ip] = NoBucket
    BY <1>1, <2>1, <2>2 DEF RateInv
  <2>3. CASE buckets[ip] # NoBucket
    BY <1>1, <2>1, <2>3 DEF RateInv, Covered, Debt
  <2> QED BY <2>2, <2>3
<1>3. level' \in [Ips -> Nat]
  BY <1>2 DEF Drain, Drained, RateInv
<1> QED BY <1>1, <1>2, <1>3 DEF RateInv

\* Every other step leaves the clock and the limiter alone.
LEMMA NextKeepsRateInv == RateInv /\ [Next]_vars => RateInv'
PROOF
<1> SUFFICES ASSUME RateInv, [Next]_vars PROVE RateInv'
  OBVIOUS
<1>1. CASE PassTime
  BY <1>1, TickKeepsRateInv DEF PassTime
<1>2. CASE PruneBuckets
  BY <1>2, PruneKeepsRateInv DEF PruneBuckets
<1>3. ASSUME NEW c \in Clients, Arrive(c) PROVE RateInv'
  <2>1. AddressOf[c] \in Ips
    BY ClientAssumption
  <2>2. PICK at \in Readings : Admit(AddressOf[c], at) \/ Refuse(AddressOf[c], at)
    BY <1>3 DEF Arrive
  <2>3. UNCHANGED now
    BY <1>3 DEF Arrive
  <2> QED BY <2>1, <2>2, <2>3, RequestKeepsRateInv
<1>4. CASE UNCHANGED <<now, rateVars>>
  BY <1>4 DEF RateInv, Covered, Debt, rateVars
<1>5. ASSUME NEW c \in Clients,
             Authenticate(c) \/ Unauthorized(c) \/ Leave(c) \/ OpenStream(c)
               \/ SendSnapshot(c) \/ Subscribe(c) \/ Deliver(c) \/ Overrun(c)
      PROVE  UNCHANGED <<now, rateVars>>
  BY <1>5 DEF Authenticate, Unauthorized, Leave, OpenStream, SendSnapshot, Subscribe, Deliver, Overrun
<1>6. CASE Sweep \/ PublishPresence \/ \E t \in Teams : CountOnline(t)
  BY <1>6, <1>4 DEF Sweep, PublishPresence, CountOnline
<1>7. CASE UNCHANGED vars
  BY <1>7, <1>4 DEF vars
<1> QED BY <1>1, <1>2, <1>3, <1>4, <1>5, <1>6, <1>7 DEF Next

(* No address is let through more often, over any stretch of time, than    *)
(* the burst and the stretch allow, up to the age of a clock reading.      *)
THEOREM RateIsBounded == Spec => []RateBound
PROOF
<1>1. Init => RateInv
  BY BurstAssumption DEF Init, RateInit, RateInv
<1>2. RateInv /\ [Next]_vars => RateInv'
  BY NextKeepsRateInv
<1>3. RateInv => RateBound
  BY RateInvBound
<1> QED BY <1>1, <1>2, <1>3, PTL DEF Spec
-----------------------------------------------------------------------------
(***************************************************************************)
(* The rest of a request's state.  The type invariant needs the limiter's  *)
(* invariant for the balances, which would sink without bound if a debt    *)
(* could be in the future, and it needs to know that a count on its way to *)
(* the streams is one of actors there are.                                 *)
(***************************************************************************)
Count  == 0..Cardinality(Actors)
Events == [team : Teams, online : Count]

StreamsTyped ==
  /\ phase \in [Clients -> Phases]
  /\ who = [c \in Clients |-> who[c]]
  /\ \A c \in Clients : IF phase[c] \in {"idle", "auth"} THEN who[c] = Nobody
                                                        ELSE who[c] \in Identities[c]
  /\ shown \in [Clients -> [teams : SUBSET Teams, online : Count]]
  /\ mail \in [Clients -> Events \cup {NoEvent}]
  /\ behind \in [Clients -> BOOLEAN]

SweepTyped ==
  /\ swept \in 0..now /\ deltas \subseteq Teams
  /\ counted # NoEvent => counted \in Events /\ counted.team \in deltas

DoorInv == RateInv /\ now <= MaxTime /\ PresenceTypeOK /\ StreamsTyped /\ SweepTyped

\* A balance is at most Lag below zero: its debt is not in the future.
LEMMA BalancesTyped == RateInv => RateTypeOK
<1> SUFFICES ASSUME RateInv PROVE RateTypeOK
  OBVIOUS
<1>1. ASSUME NEW ip \in Ips, buckets[ip] # NoBucket
      PROVE  buckets[ip] \in [tokens : -Lag..Burst, lastSeen : 0..now]
  <2>1. Covered(ip) /\ buckets[ip] \in [tokens : Int, lastSeen : Int]
    BY <1>1 DEF RateInv
  <2>2. buckets[ip].tokens \in -Lag..Burst /\ buckets[ip].lastSeen \in 0..now
    BY <2>1, BurstAssumption DEF Covered, Debt, RateInv
  <2> QED BY <2>1, <2>2
<1> QED BY <1>1 DEF RateInv, RateTypeOK

\* As many are online as there are actors, at most.
LEMMA OnlineCounts ==
  ASSUME NEW S \in SUBSET Actors
  PROVE  Cardinality(S) \in Count
BY ActorsAssumption, FS_Subset, FS_CardinalityType DEF Count

LEMMA InitDoorInv == Init => DoorInv
<1> SUFFICES ASSUME Init PROVE DoorInv
  OBVIOUS
<1>1. RateInv
  BY BurstAssumption DEF Init, RateInit, RateInv
<1>2. now <= MaxTime /\ PresenceTypeOK
  BY TimeAssumption DEF Init, PresenceInit, PresenceTypeOK
<1>3. Cardinality({}) = 0 /\ 0 \in Count
  BY FS_EmptySet, OnlineCounts
<1>4. StreamsTyped
  BY <1>3 DEF Init, StreamsTyped, Phases, Nothing
<1>5. SweepTyped
  BY DEF Init, SweepTyped
<1> QED BY <1>1, <1>2, <1>4, <1>5 DEF DoorInv

\* The steps of one client.
LEMMA ClientKeepsStreams ==
  ASSUME DoorInv, NEW c \in Clients,
         Arrive(c) \/ Authenticate(c) \/ Unauthorized(c) \/ Leave(c) \/ OpenStream(c)
           \/ SendSnapshot(c) \/ Subscribe(c) \/ Deliver(c) \/ Overrun(c)
  PROVE  StreamsTyped'
<1>1. CASE Arrive(c)
  <2>1. phase' = phase \/ (phase[c] = "idle" /\ phase' = [phase EXCEPT ![c] = "auth"])
    BY <1>1 DEF Arrive, Goto
  <2> QED BY <1>1, <2>1 DEF Arrive, DoorInv, StreamsTyped, Phases
<1>2. CASE Authenticate(c)
  BY <1>2 DEF Authenticate, Goto, DoorInv, StreamsTyped, Phases
<1>3. CASE Unauthorized(c)
  BY <1>3 DEF Unauthorized, Goto, DoorInv, StreamsTyped, Phases
<1>4. CASE Leave(c)
  <2>1. 0 \in Count
    BY FS_EmptySet, OnlineCounts
  <2>2. Nothing \in [teams : SUBSET Teams, online : Count]
    BY <2>1 DEF Nothing
  <2> QED BY <1>4, <2>2 DEF Leave, Goto, DoorInv, StreamsTyped, Phases
<1>5. CASE OpenStream(c)
  BY <1>5 DEF OpenStream, Goto, DoorInv, StreamsTyped, Phases
<1>6. CASE SendSnapshot(c)
  <2>1. Snapshot(TeamsOf(c)) \in SUBSET Actors
    BY DEF Snapshot, Online, Present
  <2>2. Cardinality(Snapshot(TeamsOf(c))) \in Count
    BY <2>1, OnlineCounts
  <2>3. TeamsOf(c) \in SUBSET Teams
    BY DEF TeamsOf
  <2> QED BY <1>6, <2>2, <2>3 DEF SendSnapshot, Goto, DoorInv, StreamsTyped, Phases
<1>7. CASE Subscribe(c)
  BY <1>7 DEF Subscribe, Goto, DoorInv, StreamsTyped, Phases
<1>8. CASE Deliver(c)
  <2>1. mail[c] \in Events
    BY <1>8 DEF Deliver, DoorInv, StreamsTyped
  <2>2. [teams |-> {mail[c].team}, online |-> mail[c].online] \in [teams : SUBSET Teams, online : Count]
    BY <2>1 DEF Events
  <2> QED BY <1>8, <2>2 DEF Deliver, DoorInv, StreamsTyped
<1>9. CASE Overrun(c)
  BY <1>9 DEF Overrun, DoorInv, StreamsTyped
<1> QED BY <1>1, <1>2, <1>3, <1>4, <1>5, <1>6, <1>7, <1>8, <1>9

LEMMA ClientKeepsInv ==
  ASSUME DoorInv, NEW c \in Clients,
         Arrive(c) \/ Authenticate(c) \/ Unauthorized(c) \/ Leave(c) \/ OpenStream(c)
           \/ SendSnapshot(c) \/ Subscribe(c) \/ Deliver(c) \/ Overrun(c)
  PROVE  DoorInv'
<1>1. StreamsTyped'
  BY ClientKeepsStreams
<1>2. UNCHANGED <<now, sweepVars>>
  BY DEF Arrive, Authenticate, Unauthorized, Leave, OpenStream, SendSnapshot, Subscribe, Deliver, Overrun
<1>3. RateInv'
  <2>1. [Next]_vars
    BY DEF Next
  <2> QED BY <2>1, NextKeepsRateInv DEF DoorInv
<1>4. PresenceTypeOK'
  <2>1. CASE Authenticate(c)
    <3>1. PICK i \in Identities[c] : IF i.team \in Teams THEN Touch(i.team, i.actor) ELSE UNCHANGED presenceVars
      BY <2>1 DEF Authenticate
    <3>2. i.actor \in Actors
      BY IdentityAssumption
    <3>3. now \in 0..now /\ now # Never
      BY NeverAssumption DEF DoorInv, RateInv
    <3>4. UNCHANGED presenceVars \/ (i.team \in Teams /\ known' = known /\ seen' = [seen EXCEPT ![i.team][i.actor] = now])
      BY <3>1 DEF Touch
    <3>5. PresenceTypeOK /\ now' = now
      BY <1>2 DEF DoorInv
    <3>6. CASE UNCHANGED presenceVars
      BY <3>5, <3>6 DEF presenceVars, PresenceTypeOK, Present
    <3>7. CASE i.team \in Teams /\ known' = known /\ seen' = [seen EXCEPT ![i.team][i.actor] = now]
      <4>1. seen' \in [Teams -> [Actors -> 0..now \cup {Never}]]
        BY <3>2, <3>3, <3>5, <3>7 DEF PresenceTypeOK
      <4>2. \A t \in Teams, a \in Actors : seen[t][a] # Never => seen'[t][a] # Never
        BY <3>2, <3>3, <3>5, <3>7 DEF PresenceTypeOK
      <4>3. \A t \in Teams : Present(t) \subseteq Present(t)'
        BY <4>2 DEF Present
      <4> QED BY <3>5, <3>7, <4>1, <4>3 DEF PresenceTypeOK
    <3> QED BY <3>4, <3>6, <3>7
  <2>2. CASE ~Authenticate(c)
    <3>1. UNCHANGED presenceVars
      BY <2>2 DEF Arrive, Unauthorized, Leave, OpenStream, SendSnapshot, Subscribe, Deliver, Overrun
    <3> QED BY <1>2, <3>1 DEF presenceVars, DoorInv, PresenceTypeOK, Present
  <2> QED BY <2>1, <2>2
<1>5. SweepTyped'
  BY <1>2 DEF sweepVars, DoorInv, SweepTyped
<1> QED BY <1>1, <1>2, <1>3, <1>4, <1>5 DEF DoorInv

LEMMA SweeperKeepsInv ==
  ASSUME DoorInv, Sweep \/ PublishPresence \/ \E t \in Teams : CountOnline(t)
  PROVE  DoorInv'
<1>1. UNCHANGED now
  BY DEF Sweep, PublishPresence, CountOnline
<1>2. RateInv'
  <2>1. [Next]_vars
    BY DEF Next
  <2> QED BY <2>1, NextKeepsRateInv DEF DoorInv
<1>3. CASE Sweep
  <2>1. UNCHANGED streamVars /\ swept' = now /\ counted' = counted /\ counted = NoEvent /\ deltas' \subseteq Teams
    BY <1>3 DEF Sweep, SweeperIdle, Changed
  <2>2. PresenceTypeOK'
    BY <1>1, <1>3 DEF Sweep, Evict, DoorInv, PresenceTypeOK, Present, Online
  <2>3. StreamsTyped' /\ SweepTyped'
    BY <1>1, <2>1 DEF DoorInv, StreamsTyped, streamVars, SweepTyped, RateInv
  <2> QED BY <1>1, <1>2, <2>2, <2>3 DEF DoorInv
<1>4. ASSUME NEW t \in Teams, CountOnline(t) PROVE DoorInv'
  <2>1. UNCHANGED <<now, presenceVars, streamVars, swept, deltas>> /\ t \in deltas
        /\ counted' = [team |-> t, online |-> Cardinality(Online(t))]
    BY <1>4 DEF CountOnline
  <2>2. Online(t) \in SUBSET Actors
    BY DEF Online, Present
  <2>3. counted'.team = t /\ counted' \in Events
    BY <2>1, <2>2, OnlineCounts DEF Events
  <2>4. PresenceTypeOK'
    BY <2>1 DEF presenceVars, DoorInv, PresenceTypeOK, Present
  <2>5. StreamsTyped' /\ SweepTyped'
    BY <2>1, <2>3 DEF DoorInv, StreamsTyped, streamVars, SweepTyped
  <2> QED BY <1>1, <1>2, <2>4, <2>5 DEF DoorInv
<1>5. CASE PublishPresence
  <2>1. counted # NoEvent /\ counted' = NoEvent /\ UNCHANGED <<now, presenceVars, phase, who, shown, swept>>
        /\ deltas' = deltas \ {counted.team}
    BY <1>5 DEF PublishPresence
  <2>2. mail' \in [Clients -> Events \cup {NoEvent}] /\ behind' \in [Clients -> BOOLEAN]
    <3>1. counted \in Events /\ mail \in [Clients -> Events \cup {NoEvent}] /\ behind \in [Clients -> BOOLEAN]
      BY <2>1 DEF DoorInv, StreamsTyped, SweepTyped
    <3>2. \A c \in Clients : (~Hears(c, counted.team)) \in BOOLEAN
      BY DEF Hears
    <3> QED BY <1>5, <3>1, <3>2 DEF PublishPresence
  <2>3. PresenceTypeOK'
    BY <2>1 DEF presenceVars, DoorInv, PresenceTypeOK, Present
  <2>4. StreamsTyped' /\ SweepTyped'
    BY <2>1, <2>2 DEF DoorInv, StreamsTyped, SweepTyped
  <2> QED BY <1>1, <1>2, <2>3, <2>4 DEF DoorInv
<1> QED BY <1>3, <1>4, <1>5

LEMMA NextKeepsDoorInv == DoorInv /\ [Next]_vars => DoorInv'
<1> SUFFICES ASSUME DoorInv, [Next]_vars PROVE DoorInv'
  OBVIOUS
<1>1. RateInv'
  BY NextKeepsRateInv DEF DoorInv
<1>2. ASSUME UNCHANGED <<presenceVars, streamVars, sweepVars>>, now' \in {now, now + 1}, now' <= MaxTime
      PROVE  DoorInv'
  <2>1. 0..now \subseteq 0..now'
    BY <1>2 DEF DoorInv, RateInv
  <2>2. PresenceTypeOK'
    BY <1>2, <2>1 DEF presenceVars, DoorInv, PresenceTypeOK, Present
  <2>3. StreamsTyped' /\ SweepTyped'
    BY <1>2, <2>1 DEF DoorInv, StreamsTyped, streamVars, SweepTyped, sweepVars
  <2> QED BY <1>1, <1>2, <2>2, <2>3 DEF DoorInv
<1>3. CASE PassTime
  <2>1. now' = now + 1 /\ now' <= MaxTime
    BY <1>3, TimeAssumption DEF PassTime, Tick, DoorInv, RateInv
  <2> QED BY <1>2, <1>3, <2>1 DEF PassTime
<1>4. CASE PruneBuckets \/ UNCHANGED vars
  <2>1. UNCHANGED <<now, presenceVars, streamVars, sweepVars>>
    BY <1>4 DEF PruneBuckets, vars
  <2> QED BY <1>2, <2>1 DEF DoorInv
<1> QED BY <1>3, <1>4, SweeperKeepsInv, ClientKeepsInv DEF Next

\* The invariant of the way in: limiter, presence, streams and sweep loop.
THEOREM FrontDoorInvariant == Spec => []DoorInv
BY InitDoorInv, NextKeepsDoorInv, PTL DEF Spec

\* Balances stay between the age of a reading below zero and the burst, an actor
\* known to the sweep loop has an entry to be missed from, and no stream is shown
\* more actors than there are (ratelimit.go:59, presence.go, main.go:232).
THEOREM FrontDoorTyped == Spec => []TypeOK
<1>1. DoorInv => TypeOK
  <2> SUFFICES ASSUME DoorInv PROVE TypeOK
    OBVIOUS
  <2>1. Cardinality({}) = 0 /\ Cardinality(Actors) \in Nat
    BY ActorsAssumption, FS_CardinalityType, FS_EmptySet
  <2>2. RateTypeOK
    BY BalancesTyped DEF DoorInv
  <2> QED BY <2>1, <2>2 DEF DoorInv, TypeOK, StreamsTyped, SweepTyped, RateInv, Count, Events
<1> QED BY FrontDoorInvariant, <1>1, PTL
=============================================================================
