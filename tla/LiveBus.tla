------------------------------- MODULE LiveBus -------------------------------
(***************************************************************************)
(* What the live event bus promises, without locks or goroutines           *)
(* (src/internal/live/hub.go): every stream that is joined when an event   *)
(* is posted, and may see its team, is owed the event; an owed event is    *)
(* queued at most once, in the publisher's order; a queue never exceeds    *)
(* Cap; only the oldest queued event may be lost, and only while another   *)
(* one is owed; nothing is queued once the stream is gone.                 *)
(***************************************************************************)
EXTENDS Naturals, Sequences

CONSTANTS
  Streams,     \* SSE connections; each subscribes at most once
  Publishers,  \* goroutines that call Publish
  Teams,       \* team IDs
  Cap          \* subscriberChanCap, hub.go:15

VARIABLES
  state,   \* per stream: "out", "in", "leaving" (deleted from the map), "gone"
  view,    \* per stream: the teams whose events it may see
  queue,   \* per stream: the buffered events, oldest first
  taken,   \* per stream: flips when its consumer takes an event
  owed     \* per stream: events posted to it and not yet queued

vars == <<state, view, queue, taken, owed>>

\* Publishers never stop: two events of one publisher differ only by their team.
Events == [pub : Publishers, team : Teams]
Views == {{t} : t \in Teams} \cup {Teams}
States == {"out", "in", "leaving", "gone"}

TypeOK ==
  /\ state \in [Streams -> States]
  /\ view \in [Streams -> SUBSET Teams]
  /\ queue \in [Streams -> Seq(Events)]
  /\ taken \in [Streams -> BOOLEAN]
  /\ owed \in [Streams -> SUBSET Events]

Init ==
  /\ state = [s \in Streams |-> "out"]
  /\ view = [s \in Streams |-> {}]
  /\ queue = [s \in Streams |-> <<>>]
  /\ taken = [s \in Streams |-> FALSE]
  /\ owed = [s \in Streams |-> {}]

Join(s) ==
  /\ state[s] = "out"
  /\ state' = [state EXCEPT ![s] = "in"]
  /\ \E v \in Views : view' = [view EXCEPT ![s] = v]
  /\ UNCHANGED <<queue, taken, owed>>

Leave(s) ==
  /\ state[s] = "in"
  /\ state' = [state EXCEPT ![s] = "leaving"]
  /\ UNCHANGED <<view, queue, taken, owed>>

Gone(s) ==
  /\ state[s] = "leaving"
  /\ state' = [state EXCEPT ![s] = "gone"]
  /\ UNCHANGED <<view, queue, taken, owed>>

\* A publisher posts its next event once none of its earlier ones is owed.
Post(p, t) ==
  LET e == [pub |-> p, team |-> t] IN
  /\ \A s \in Streams : \A f \in owed[s] : f.pub # p
  /\ owed' = [s \in Streams |-> IF state[s] = "in" /\ t \in view[s]
                                THEN owed[s] \cup {e} ELSE owed[s]]
  /\ UNCHANGED <<state, view, queue, taken>>

Enqueue(s, e) ==
  /\ e \in owed[s]
  /\ state[s] # "gone"
  /\ Len(queue[s]) < Cap
  /\ queue' = [queue EXCEPT ![s] = Append(@, e)]
  /\ owed' = [owed EXCEPT ![s] = @ \ {e}]
  /\ UNCHANGED <<state, view, taken>>

\* Loss is possible only while another event is owed to the stream.
DropOldest(s) ==
  /\ owed[s] # {}
  /\ state[s] # "gone"
  /\ queue[s] # <<>>
  /\ queue' = [queue EXCEPT ![s] = Tail(@)]
  /\ UNCHANGED <<state, view, taken, owed>>

Forget(s, e) ==
  /\ state[s] = "gone"
  /\ e \in owed[s]
  /\ owed' = [owed EXCEPT ![s] = @ \ {e}]
  /\ UNCHANGED <<state, view, queue, taken>>

Take(s) ==
  /\ state[s] = "in"
  /\ queue[s] # <<>>
  /\ taken' = [taken EXCEPT ![s] = ~@]
  /\ queue' = [queue EXCEPT ![s] = Tail(@)]
  /\ UNCHANGED <<state, view, owed>>

Next ==
  \/ \E s \in Streams : Join(s) \/ Leave(s) \/ Gone(s) \/ DropOldest(s) \/ Take(s)
  \/ \E s \in Streams : \E e \in owed[s] : Enqueue(s, e) \/ Forget(s, e)
  \/ \E p \in Publishers, t \in Teams : Post(p, t)

Spec == Init /\ [][Next]_vars
=============================================================================
