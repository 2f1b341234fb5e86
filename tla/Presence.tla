------------------------------ MODULE Presence ------------------------------
(***************************************************************************)
(* Who is online: src/internal/live/presence.go.  Touch, Snapshot and      *)
(* Sweep each hold the table's lock, so each is one step.  A team without  *)
(* entries is absent from the table; here it has none.                     *)
(***************************************************************************)
EXTENDS Clock, FiniteSets

CONSTANTS Teams, Actors,
          Window,  \* an actor is online for this long after a request
          Never    \* no entry

ASSUME WindowAssumption == Window \in Nat
ASSUME NeverAssumption == Never \notin Int
ASSUME ActorsAssumption == IsFiniteSet(Actors)

VARIABLES
  seen,   \* entries: when each actor was last seen in each team
  known   \* the actors that were present at the last sweep

presenceVars == <<seen, known>>

PresenceInit == /\ seen = [t \in Teams |-> [a \in Actors |-> Never]]
                /\ known = [t \in Teams |-> {}]

Present(t) == {a \in Actors : seen[t][a] # Never}
Online(t)  == {a \in Present(t) : now - seen[t][a] <= Window}

\* A superadmin sees the union over the teams, each actor once.
Snapshot(ts) == UNION {Online(t) : t \in ts}

Touch(t, a) == seen' = [seen EXCEPT ![t][a] = now] /\ UNCHANGED known


\* The teams with a delta: somebody joined or left since the last sweep.
Changed == {t \in Teams : Online(t) # known[t]}

\* Mutant: what was present before the eviction is remembered.
EvictAndRemember ==
  /\ seen' = [t \in Teams |-> [a \in Actors |-> IF a \in Online(t) THEN seen[t][a] ELSE Never]]
  /\ known' = [t \in Teams |-> Present(t)]

\* Sweep: expired entries go, the rest is what the next sweep compares with.
Evict ==
  /\ seen' = [t \in Teams |-> [a \in Actors |-> IF a \in Online(t) THEN seen[t][a] ELSE Never]]
  /\ known' = [t \in Teams |-> Online(t)]
-----------------------------------------------------------------------------
\* A known actor has an entry still, so that its departure can be named.
PresenceTypeOK ==
  /\ seen \in [Teams -> [Actors -> 0..now \cup {Never}]]
  /\ known \in [Teams -> SUBSET Actors]
  /\ \A t \in Teams : known[t] \subseteq Present(t)
=============================================================================
