------------------------------ MODULE FrontDoor ------------------------------
(***************************************************************************)
(* The way of a request through the web server: the rate limiter, then     *)
(* RequireAuth, which reports the caller to the presence table, then a     *)
(* handler; one of them is the activity stream of                          *)
(* internal/web/stream_handler.go.  The sweep loop of cmd/server/main.go   *)
(* evicts absent actors every ten seconds and publishes a presence event   *)
(* for each team that changed.                                             *)
(*                                                                         *)
(* The events travel over the hub (module LiveHub), which delivers in      *)
(* order and drops the oldest event of a full channel, whatever its type.  *)
(* Of a stream's channel the newest presence event alone is kept here;     *)
(* activity events are there only as what may crowd it out (Overrun).      *)
(* Keep-alive comments are left out.                                       *)
(***************************************************************************)
EXTENDS RateLimit, Presence

CONSTANTS Clients,         \* browsers, and other callers of the API
          AddressOf,       \* the address each calls from
          Identities,      \* whom a client's credentials resolve to
          MaxSubscribers,  \* hub.go:12
          SweepEvery,      \* the ticker of main.go:232
          LastCall,        \* bound: requests come until then
          NoTeam, Nobody

ASSUME ClientAssumption == AddressOf \in [Clients -> Ips]
ASSUME IdentityAssumption ==
  Identities \in [Clients -> SUBSET [team : Teams \cup {NoTeam}, actor : Actors,
                                     superadmin : BOOLEAN]]
ASSUME SweepAssumption == SweepEvery \in 1..Window
ASSUME NamesAssumption == NoTeam \notin Teams /\ \A c \in Clients : Nobody \notin Identities[c]

VARIABLES phase,      \* where each client's request is
          who,        \* the identity it was resolved to
          shown,      \* the count of online actors the client displays, and of which teams
          mail,       \* the newest presence event in its channel
          behind,     \* history: the newest event for it was behind or lost
          swept,      \* when the ticker last fired
          deltas,     \* the teams whose delta is not published yet
          counted     \* the event it is about to publish

streamVars == <<phase, who, shown, mail, behind>>
sweepVars  == <<swept, deltas, counted>>
vars == <<now, rateVars, presenceVars, streamVars, sweepVars>>

NoEvent == <<>>
Nothing == [teams |-> {}, online |-> 0]
Phases == {"idle", "auth", "handler", "greeting", "joining", "live"}

TeamsOf(c) == IF who[c].superadmin THEN Teams ELSE {who[c].team} \cap Teams
SubscriberCount == Cardinality({c \in Clients : phase[c] = "live"})

Init ==
  /\ now = 0 /\ RateInit /\ PresenceInit
  /\ phase = [c \in Clients |-> "idle"] /\ who = [c \in Clients |-> Nobody]
  /\ shown = [c \in Clients |-> Nothing] /\ mail = [c \in Clients |-> NoEvent]
  /\ behind = [c \in Clients |-> FALSE]
  /\ swept = 0 /\ deltas = {} /\ counted = NoEvent

Goto(c, p) == phase' = [phase EXCEPT ![c] = p]
-----------------------------------------------------------------------------
(* A request. *)

\* NewRateLimiter's handler: the request goes on, or is answered 429.
Arrive(c) ==
  /\ phase[c] = "idle" /\ now <= LastCall
  /\ \E at \in Readings : \/ Admit(AddressOf[c], at) /\ Goto(c, "auth")
                          \/ Refuse(AddressOf[c], at) /\ UNCHANGED phase
  /\ UNCHANGED <<now, presenceVars, who, shown, mail, behind, sweepVars>>

\* RequireAuth: the credential is looked up; a caller with a team is touched.
Authenticate(c) ==
  /\ phase[c] = "auth" /\ now <= LastCall
  /\ \E i \in Identities[c] :
       /\ who' = [who EXCEPT ![c] = i]
       /\ IF i.team \in Teams THEN Touch(i.team, i.actor) ELSE UNCHANGED presenceVars
  /\ Goto(c, "handler")
  /\ UNCHANGED <<now, rateVars, shown, mail, behind, sweepVars>>

Unauthorized(c) ==
  /\ phase[c] = "auth"
  /\ Goto(c, "idle")
  /\ UNCHANGED <<now, rateVars, presenceVars, who, shown, mail, behind, sweepVars>>

\* Any other handler answers; or the stream is over, and unsubscribed.
Leave(c) ==
  /\ phase[c] \in {"handler", "greeting", "joining", "live"}
  /\ Goto(c, "idle")
  /\ who' = [who EXCEPT ![c] = Nobody]
  /\ shown' = [shown EXCEPT ![c] = Nothing]
  /\ mail' = [mail EXCEPT ![c] = NoEvent]
  /\ behind' = [behind EXCEPT ![c] = FALSE]
  /\ UNCHANGED <<now, rateVars, presenceVars, sweepVars>>

\* The subscriber cap is checked once, long before Subscribe.
OpenStream(c) ==
  /\ phase[c] = "handler" /\ SubscriberCount < MaxSubscribers
  /\ Goto(c, "greeting")
  /\ UNCHANGED <<now, rateVars, presenceVars, who, shown, mail, behind, sweepVars>>

\* The snapshot frame.
SendSnapshot(c) ==
  /\ phase[c] = "greeting"
  /\ shown' = [shown EXCEPT ![c] = [teams |-> TeamsOf(c), online |-> Cardinality(Snapshot(TeamsOf(c)))]]
  /\ Goto(c, "joining")
  /\ UNCHANGED <<now, rateVars, presenceVars, who, mail, behind, sweepVars>>

Subscribe(c) ==
  /\ phase[c] = "joining"
  /\ Goto(c, "live")
  /\ UNCHANGED <<now, rateVars, presenceVars, who, shown, mail, behind, sweepVars>>

\* A presence frame: the client displays the count it carries, which is of one
\* team even where the snapshot was of all (useActivityStream.ts:239).
Deliver(c) ==
  /\ phase[c] = "live" /\ mail[c] # NoEvent
  /\ shown' = [shown EXCEPT ![c] = [teams |-> {mail[c].team}, online |-> mail[c].online]]
  /\ mail' = [mail EXCEPT ![c] = NoEvent]
  /\ UNCHANGED <<now, rateVars, presenceVars, phase, who, behind, sweepVars>>

\* The stream stalls while a channelful of activity events is published after
\* the newest presence event: the hub drops it as the oldest.
Overrun(c) ==
  /\ phase[c] = "live" /\ mail[c] # NoEvent
  /\ mail' = [mail EXCEPT ![c] = NoEvent]
  /\ behind' = [behind EXCEPT ![c] = TRUE]
  /\ UNCHANGED <<now, rateVars, presenceVars, phase, who, shown, sweepVars>>
-----------------------------------------------------------------------------
(* The sweep loop. *)

SweeperIdle == deltas = {} /\ counted = NoEvent

Sweep ==
  /\ SweeperIdle /\ now >= swept + SweepEvery
  /\ swept' = now
  /\ deltas' = Changed /\ Evict
  /\ UNCHANGED <<now, rateVars, streamVars, counted>>

\* OnlineCount, after Sweep has let go of the lock.
CountOnline(t) ==
  /\ counted = NoEvent /\ t \in deltas
  /\ counted' = [team |-> t, online |-> Cardinality(Online(t))]
  /\ UNCHANGED <<now, rateVars, presenceVars, streamVars, swept, deltas>>

Watches(c, t) == phase[c] \in {"joining", "live"} /\ t \in TeamsOf(c)
Hears(c, t)   == phase[c] = "live" /\ Watches(c, t)

PublishPresence ==
  /\ counted # NoEvent
  /\ LET t == counted.team
     IN /\ mail' = [c \in Clients |-> IF Hears(c, t) THEN counted ELSE mail[c]]
        /\ behind' = [c \in Clients |-> IF Watches(c, t) THEN ~Hears(c, t) ELSE behind[c]]
        /\ deltas' = deltas \ {t}
  /\ counted' = NoEvent
  /\ UNCHANGED <<now, rateVars, presenceVars, phase, who, shown, swept>>

PruneBuckets == Prune /\ UNCHANGED <<now, presenceVars, streamVars, sweepVars>>

\* The sweeper keeps up with its ticker: publishing never blocks (LiveHub).
PassTime ==
  /\ Tick /\ Drain
  /\ SweeperIdle => now < swept + SweepEvery
  /\ ~SweeperIdle => now + 1 < swept + SweepEvery
  /\ UNCHANGED <<presenceVars, streamVars, sweepVars>>

Next == \/ PassTime \/ PruneBuckets \/ Sweep \/ PublishPresence
        \/ \E t \in Teams : CountOnline(t)
        \/ \E c \in Clients : \/ Arrive(c) \/ Authenticate(c) \/ Unauthorized(c) \/ Leave(c)
                              \/ OpenStream(c) \/ SendSnapshot(c) \/ Subscribe(c) \/ Deliver(c)
                              \/ Overrun(c)

Spec == Init /\ [][Next]_vars

\* Time passes, the sweep loop runs and the streams are written.
Fairness == /\ WF_vars(PassTime) /\ WF_vars(Sweep) /\ WF_vars(PublishPresence)
            /\ \A t \in Teams : WF_vars(CountOnline(t))
            /\ \A c \in Clients : WF_vars(Deliver(c))

FairSpec == Spec /\ Fairness
-----------------------------------------------------------------------------
TypeOK ==
  /\ now \in 0..MaxTime /\ RateTypeOK /\ PresenceTypeOK
  /\ phase \in [Clients -> Phases]
  /\ \A c \in Clients : IF phase[c] \in {"idle", "auth"} THEN who[c] = Nobody
                                                        ELSE who[c] \in Identities[c]
  /\ shown \in [Clients -> [teams : SUBSET Teams, online : 0..Cardinality(Actors)]]
  /\ mail \in [Clients -> [team : Teams, online : 0..Cardinality(Actors)] \cup {NoEvent}]
  /\ behind \in [Clients -> BOOLEAN]
  /\ swept \in 0..now /\ deltas \subseteq Teams
  /\ counted # NoEvent => counted.team \in deltas

=============================================================================
