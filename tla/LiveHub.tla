------------------------------- MODULE LiveHub -------------------------------
(***************************************************************************)
(* The in-memory event hub of src/internal/live/hub.go at the granularity  *)
(* of its locks and channel operations.  Publish snapshots the matching    *)
(* subscribers under the hub's read lock and then delivers to each one     *)
(* under that subscriber's own read lock; the read lock is shared, so      *)
(* several publishers operate on one channel at a time, and the consumer   *)
(* receives without any lock.  Unsubscribing deletes the subscriber from   *)
(* the map, then takes its write lock, then closes the channel.            *)
(*                                                                         *)
(* A critical section that conflicts with nothing inside it is one step.   *)
(* As in Go's sync.RWMutex, a waiting writer keeps new readers out.        *)
(***************************************************************************)
EXTENDS Naturals, Sequences, FiniteSets

CONSTANTS
  Streams,     \* SSE connections; each subscribes at most once
  Publishers,  \* goroutines that call Publish
  Teams,       \* team IDs
  Cap,         \* subscriberChanCap, hub.go:15
  None         \* no current target, no event in hand

ASSUME CapAssumption == Cap \in Nat \ {0}
ASSUME NoneAssumption == None \notin Streams

VARIABLES
  phase,   \* per stream: "new", "live" (in h.subs), "removed", "locking", "closed"
  view,    \* per stream: {team}, or all teams for a superadmin
  ch,      \* per stream: the channel's buffer
  pc,      \* per publisher: "idle", "deliver", "lock", "send", "drain"
  ev,      \* per publisher: the event being published
  todo,    \* per publisher: targets of the snapshot not yet taken up
  cur,     \* per publisher: the subscriber being delivered to
  taken    \* history, per stream: flips when the consumer receives an event

vars == <<phase, view, ch, pc, ev, todo, cur, taken>>
hubVars == <<phase, view>>
pubVars == <<pc, ev, todo, cur>>

\* Publishers never stop: two events of one publisher differ only by their team.
Events == [pub : Publishers, team : Teams]
Views == {{t} : t \in Teams} \cup {Teams}
Phases == {"new", "live", "removed", "locking", "closed"}
Labels == {"idle", "deliver", "lock", "send", "drain"}

\* h.subs
Registered == {s \in Streams : phase[s] = "live"}

\* Publishers holding sub.mu for reading: between the closed check and RUnlock.
Readers(s) == {p \in Publishers : cur[p] = s /\ pc[p] \in {"send", "drain"}}

Init ==
  /\ phase = [s \in Streams |-> "new"]
  /\ view = [s \in Streams |-> {}]
  /\ ch = [s \in Streams |-> <<>>]
  /\ pc = [p \in Publishers |-> "idle"]
  /\ ev = [p \in Publishers |-> None]
  /\ todo = [p \in Publishers |-> {}]
  /\ cur = [p \in Publishers |-> None]
  /\ taken = [s \in Streams |-> FALSE]

-----------------------------------------------------------------------------
(* The stream handler's side: Subscribe, receive, unsub. *)

Subscribe(s) ==
  /\ phase[s] = "new"
  /\ phase' = [phase EXCEPT ![s] = "live"]
  /\ \E v \in Views : view' = [view EXCEPT ![s] = v]
  /\ UNCHANGED <<ch, pubVars, taken>>

Receive(s) ==
  /\ phase[s] = "live"
  /\ ch[s] # <<>>
  /\ taken' = [taken EXCEPT ![s] = ~@]
  /\ ch' = [ch EXCEPT ![s] = Tail(@)]
  /\ UNCHANGED <<hubVars, pubVars>>

\* once.Do: the map entry goes first, under h.mu.
UnsubRemove(s) ==
  /\ phase[s] = "live"
  /\ phase' = [phase EXCEPT ![s] = "removed"]
  /\ UNCHANGED <<view, ch, pubVars, taken>>

\* sub.mu.Lock() is called: from here on no publisher gets a new read lock.
UnsubLock(s) ==
  /\ phase[s] = "removed"
  /\ phase' = [phase EXCEPT ![s] = "locking"]
  /\ UNCHANGED <<view, ch, pubVars, taken>>

\* Mutant: the channel is closed without waiting for the write lock.
UnsubCloseAtOnce(s) ==
  /\ phase[s] = "locking"
  /\ phase' = [phase EXCEPT ![s] = "closed"]
  /\ UNCHANGED <<view, ch, pubVars, taken>>

\* The write lock is granted when the readers are out; closed = true; close(ch).
UnsubClose(s) ==
  /\ phase[s] = "locking"
  /\ Readers(s) = {}
  /\ phase' = [phase EXCEPT ![s] = "closed"]
  /\ UNCHANGED <<view, ch, pubVars, taken>>

-----------------------------------------------------------------------------
(* Publish and deliverToSubscriber. *)

Goto(p, l) == pc' = [pc EXCEPT ![p] = l]

\* The snapshot of the matching subscribers under h.mu.RLock.
PublishSnapshot(p, t) ==
  /\ pc[p] = "idle"
  /\ ev' = [ev EXCEPT ![p] = [pub |-> p, team |-> t]]
  /\ todo' = [todo EXCEPT ![p] = {s \in Registered : t \in view[s]}]
  /\ Goto(p, "deliver")
  /\ UNCHANGED <<hubVars, ch, cur, taken>>

\* The loop over targets takes the next one; their order is the map's.
NextTarget(p) ==
  /\ pc[p] = "deliver"
  /\ \E s \in todo[p] :
       /\ cur' = [cur EXCEPT ![p] = s]
       /\ todo' = [todo EXCEPT ![p] = @ \ {s}]
  /\ Goto(p, "lock")
  /\ UNCHANGED <<hubVars, ch, ev, taken>>

PublishReturn(p) ==
  /\ pc[p] = "deliver"
  /\ todo[p] = {}
  /\ Goto(p, "idle")
  /\ ev' = [ev EXCEPT ![p] = None]
  /\ UNCHANGED <<hubVars, ch, todo, cur, taken>>

\* deliverToSubscriber returns: the publisher goes back to its loop.
Delivered(p) ==
  /\ Goto(p, "deliver")
  /\ cur' = [cur EXCEPT ![p] = None]

\* Mutant: a closed subscriber is retried instead of abandoned.
LockAndCheckSpins(p) ==
  /\ pc[p] = "lock"
  /\ phase[cur[p]] \notin {"locking", "closed"}
  /\ Goto(p, "send")
  /\ UNCHANGED <<hubVars, ch, ev, todo, cur, taken>>

\* sub.mu.RLock(), then the closed check.
LockAndCheck(p) ==
  /\ pc[p] = "lock"
  /\ phase[cur[p]] # "locking"
  /\ IF phase[cur[p]] = "closed"
     THEN Delivered(p)
     ELSE Goto(p, "send") /\ UNCHANGED cur
  /\ UNCHANGED <<hubVars, ch, ev, todo, taken>>

Accept(p, s) == ch' = [ch EXCEPT ![s] = Append(@, ev[p])]

\* Mutant: a plain channel send, which waits for room under the read lock.
TrySendBlocking(p) ==
  /\ pc[p] = "send"
  /\ Len(ch[cur[p]]) < Cap
  /\ Accept(p, cur[p])
  /\ Delivered(p)
  /\ UNCHANGED <<hubVars, ev, todo, taken>>

\* Mutant: drop-newest, the incoming event is discarded when the channel is full.
TrySendDropNewest(p) ==
  /\ pc[p] = "send"
  /\ IF Len(ch[cur[p]]) < Cap THEN Accept(p, cur[p]) ELSE UNCHANGED ch
  /\ Delivered(p)
  /\ UNCHANGED <<hubVars, ev, todo, taken>>

\* Mutant: the channel is one slot larger than its capacity.
TrySendOffByOne(p) ==
  /\ pc[p] = "send"
  /\ IF Len(ch[cur[p]]) <= Cap
     THEN Accept(p, cur[p]) /\ Delivered(p)
     ELSE Goto(p, "drain") /\ UNCHANGED <<ch, cur>>
  /\ UNCHANGED <<hubVars, ev, todo, taken>>

\* The non-blocking send: accepted, or the channel is full.
TrySend(p) ==
  LET s == cur[p] IN
  /\ pc[p] = "send"
  /\ IF Len(ch[s]) < Cap
     THEN Accept(p, s) /\ Delivered(p)
     ELSE Goto(p, "drain") /\ UNCHANGED <<ch, cur>>
  /\ UNCHANGED <<hubVars, ev, todo, taken>>

\* The non-blocking drain of the oldest event, RUnlock, and the retry.
DrainOldest(p) ==
  LET s == cur[p] IN
  /\ pc[p] = "drain"
  /\ ch' = [ch EXCEPT ![s] = IF @ = <<>> THEN @ ELSE Tail(@)]
  /\ Goto(p, "lock")
  /\ UNCHANGED <<hubVars, ev, todo, cur, taken>>

Publish(p) ==
  \/ NextTarget(p)
  \/ PublishReturn(p)
  \/ LockAndCheck(p)
  \/ TrySend(p)
  \/ DrainOldest(p)

Serve(s) == Subscribe(s) \/ Receive(s) \/ UnsubRemove(s) \/ UnsubLock(s) \/ UnsubClose(s)

Next ==
  \/ \E s \in Streams : Serve(s)
  \/ \E p \in Publishers : Publish(p) \/ \E t \in Teams : PublishSnapshot(p, t)

Spec == Init /\ [][Next]_vars

\* The Go scheduler runs a runnable goroutine; whether anything is published,
\* and whether a client reads or leaves, is up to the environment.
Fairness ==
  /\ \A p \in Publishers : WF_vars(Publish(p))
  /\ \A s \in Streams : WF_vars(UnsubLock(s)) /\ WF_vars(UnsubClose(s))

-----------------------------------------------------------------------------
(* Properties. *)

\* Types, and the channel's capacity: make(chan LiveEvent, subscriberChanCap).
TypeOK ==
  /\ phase \in [Streams -> Phases]
  /\ view \in [Streams -> SUBSET Teams]
  /\ ch \in [Streams -> Seq(Events)]
  /\ \A s \in Streams : Len(ch[s]) <= Cap
  /\ pc \in [Publishers -> Labels]
  /\ ev \in [Publishers -> Events \cup {None}]
  /\ todo \in [Publishers -> SUBSET Streams]
  /\ cur \in [Publishers -> Streams \cup {None}]
  /\ taken \in [Streams -> BOOLEAN]

\* close(ch) never falls between a publisher's closed check and its channel
\* operations (a send on a closed channel panics the server): hub.go:121-125.
NoSendOnClosed ==
  \A p \in Publishers : pc[p] \in {"send", "drain"} => phase[cur[p]] # "closed"

\* "This ensures Publish never blocks": a Publish returns although consumers
\* stop reading, channels are full and subscribers leave (hub.go:101).  It
\* drops and retries without a bound (hub.go:117-148), so all that can keep it
\* in its loop is others refilling each slot it frees: a Publish that never
\* returns has a competitor whose Publishes return again and again.
KeepsPublishing(p) == []<>(pc[p] = "idle") /\ []<>(pc[p] # "idle")

PublishReturns ==
  \A p \in Publishers :
    \/ pc[p] # "idle" ~> pc[p] = "idle"
    \/ \E q \in Publishers \ {p} : KeepsPublishing(q)

\* An unsubscribe that has begun closes its channel: publishers busy with the
\* subscriber cannot keep it waiting for its write lock.
UnsubCompletes == \A s \in Streams : phase[s] = "removed" ~> phase[s] = "closed"

-----------------------------------------------------------------------------
(* The hub implements the lossy bus. *)

StateOf(s) ==
  CASE phase[s] = "new" -> "out"
    [] phase[s] = "live" -> "in"
    [] phase[s] \in {"removed", "locking"} -> "leaving"
    [] phase[s] = "closed" -> "gone"

OwedTo(s) == {ev[p] : p \in {q \in Publishers : s \in todo[q] \/ cur[q] = s}}

Bus == INSTANCE LiveBus WITH
         state <- [s \in Streams |-> StateOf(s)],
         queue <- ch,
         owed <- [s \in Streams |-> OwedTo(s)]

\* No event that was addressed to a live subscriber is skipped or queued
\* twice, none is queued after close, and only the oldest is ever lost.
ImplementsBus == Bus!Spec
=============================================================================
