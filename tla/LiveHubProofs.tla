---------------------------- MODULE LiveHubProofs ----------------------------
(***************************************************************************)
(* TLAPS proofs about LiveHub, for any sets of streams and publishers, any *)
(* channel capacity, however many events are published.                    *)
(***************************************************************************)
EXTENDS PipelineTrigger, SequenceTheorems, TLAPS

(***************************************************************************)
(* Inductive invariant: besides the types, where each publisher is in its  *)
(* loop decides what its targets and its current event are, and a read     *)
(* lock on a subscriber keeps it from being closed.                        *)
(***************************************************************************)
PublisherOK(p) ==
  /\ pc[p] = "idle" => todo[p] = {} /\ cur[p] = None
  /\ pc[p] = "deliver" => cur[p] = None
  /\ pc[p] \in {"lock", "send", "drain"} => cur[p] \in Streams /\ cur[p] \notin todo[p]
  /\ pc[p] # "idle" => /\ ev[p] \in Events
                       /\ ev[p].pub = p

IInv ==
  /\ TypeOK
  /\ \A p \in Publishers : PublisherOK(p)
  /\ NoSendOnClosed

LEMMA EventsType ==
  ASSUME NEW e \in Events
  PROVE  e.pub \in Publishers /\ e.team \in Teams
BY DEF Events

LEMMA InitIInv == Init => IInv
<1> SUFFICES ASSUME Init PROVE IInv
  OBVIOUS
<1>1. TypeOK
  BY CapAssumption, EmptySeq DEF Init, TypeOK, Phases, Labels
<1>2. \A p \in Publishers : PublisherOK(p)
  BY DEF Init, PublisherOK
<1>3. NoSendOnClosed
  BY DEF Init, NoSendOnClosed
<1> QED BY <1>1, <1>2, <1>3 DEF IInv

\* An event a publisher is about to deliver is one of the model's events.
LEMMA NewEvent ==
  ASSUME NEW p \in Publishers, NEW t \in Teams
  PROVE  [pub |-> p, team |-> t] \in Events
BY DEF Events

\* Removing the oldest event keeps a channel a sequence of events within Cap.
LEMMA TailType ==
  ASSUME NEW q \in Seq(Events), q # <<>>
  PROVE  Tail(q) \in Seq(Events) /\ Len(Tail(q)) = Len(q) - 1 /\ Len(q) \in Nat
BY HeadTailProperties, LenProperties

LEMMA StreamStep ==
  ASSUME IInv, NEW s \in Streams,
         Serve(s)
  PROVE  IInv'
<1> USE DEF IInv
<1>1. CASE Subscribe(s)
  <2>1. TypeOK'
    BY <1>1 DEF Subscribe, TypeOK, Views, Phases, pubVars
  <2>2. \A p \in Publishers : PublisherOK(p)'
    BY <1>1 DEF Subscribe, PublisherOK, pubVars
  <2>3. NoSendOnClosed'
    BY <1>1 DEF Subscribe, NoSendOnClosed, pubVars, TypeOK, PublisherOK
  <2> QED BY <2>1, <2>2, <2>3
<1>2. CASE Receive(s)
  <2>1. TypeOK'
    <3>1. ch[s] \in Seq(Events) /\ ch[s] # <<>>
      BY <1>2 DEF Receive, TypeOK
    <3>2. Head(ch[s]) \in Events
      BY <3>1, HeadTailProperties
    <3>4. Tail(ch[s]) \in Seq(Events) /\ Len(Tail(ch[s])) <= Cap
      BY <3>1, TailType, CapAssumption DEF TypeOK
    <3> QED BY <1>2, <3>2, <3>4 DEF Receive, TypeOK, hubVars, pubVars
  <2>2. \A p \in Publishers : PublisherOK(p)'
    BY <1>2 DEF Receive, PublisherOK, pubVars
  <2>3. NoSendOnClosed'
    BY <1>2 DEF Receive, NoSendOnClosed, hubVars, pubVars
  <2> QED BY <2>1, <2>2, <2>3
<1>3. CASE UnsubRemove(s) \/ UnsubLock(s)
  <2>1. TypeOK'
    BY <1>3 DEF UnsubRemove, UnsubLock, TypeOK, Phases, pubVars
  <2>2. \A p \in Publishers : PublisherOK(p)'
    BY <1>3 DEF UnsubRemove, UnsubLock, PublisherOK, pubVars
  <2>3. NoSendOnClosed'
    BY <1>3 DEF UnsubRemove, UnsubLock, NoSendOnClosed, pubVars, TypeOK, PublisherOK
  <2> QED BY <2>1, <2>2, <2>3
<1>4. CASE UnsubClose(s)
  <2>1. TypeOK'
    BY <1>4 DEF UnsubClose, TypeOK, Phases, pubVars
  <2>2. \A p \in Publishers : PublisherOK(p)'
    BY <1>4 DEF UnsubClose, PublisherOK, pubVars
  <2>3. NoSendOnClosed'
    <3> SUFFICES ASSUME NEW p \in Publishers, pc'[p] \in {"send", "drain"}
                 PROVE  phase'[cur'[p]] # "closed"
      BY DEF NoSendOnClosed
    <3>1. pc[p] \in {"send", "drain"} /\ cur'[p] = cur[p]
      BY <1>4 DEF UnsubClose, pubVars
    <3>2. cur[p] # s
      BY <1>4, <3>1 DEF UnsubClose, Readers
    <3>3. cur[p] \in Streams /\ phase[cur[p]] # "closed"
      BY <3>1 DEF PublisherOK, NoSendOnClosed
    <3> QED BY <1>4, <3>1, <3>2, <3>3 DEF UnsubClose, TypeOK
  <2> QED BY <2>1, <2>2, <2>3
<1> QED BY <1>1, <1>2, <1>3, <1>4 DEF Serve

LEMMA PublisherStep ==
  ASSUME IInv, NEW p \in Publishers,
         Publish(p) \/ \E t \in Teams : PublishSnapshot(p, t)
  PROVE  IInv'
<1> USE DEF IInv
<1>1. CASE \E t \in Teams : PublishSnapshot(p, t)
  <2> PICK t \in Teams : PublishSnapshot(p, t)
    BY <1>1
  <2>1. TypeOK'
    BY NewEvent DEF PublishSnapshot, TypeOK, Registered, Goto, Labels, hubVars
  <2>2. ASSUME NEW q \in Publishers PROVE PublisherOK(q)'
    BY NewEvent, <2>1 DEF PublishSnapshot, PublisherOK, Goto, TypeOK
  <2>3. NoSendOnClosed'
    BY DEF PublishSnapshot, NoSendOnClosed, Goto, TypeOK, hubVars
  <2> QED BY <2>1, <2>2, <2>3
<1>2. CASE NextTarget(p)
  <2>1. TypeOK'
    BY <1>2 DEF NextTarget, TypeOK, Goto, Labels, hubVars
  <2>2. ASSUME NEW q \in Publishers PROVE PublisherOK(q)'
    BY <1>2 DEF NextTarget, PublisherOK, Goto, TypeOK
  <2>3. NoSendOnClosed'
    BY <1>2 DEF NextTarget, NoSendOnClosed, Goto, TypeOK, hubVars
  <2> QED BY <2>1, <2>2, <2>3
<1>3. CASE PublishReturn(p)
  <2>1. TypeOK'
    BY <1>3 DEF PublishReturn, TypeOK, Goto, Labels, hubVars
  <2>2. ASSUME NEW q \in Publishers PROVE PublisherOK(q)'
    BY <1>3 DEF PublishReturn, PublisherOK, Goto, TypeOK
  <2>3. NoSendOnClosed'
    BY <1>3 DEF PublishReturn, NoSendOnClosed, Goto, TypeOK, hubVars
  <2> QED BY <2>1, <2>2, <2>3
<1>4. CASE LockAndCheck(p)
  <2>1. TypeOK'
    BY <1>4 DEF LockAndCheck, Delivered, TypeOK, Goto, Labels, hubVars
  <2>2. ASSUME NEW q \in Publishers PROVE PublisherOK(q)'
    BY <1>4 DEF LockAndCheck, Delivered, PublisherOK, Goto, TypeOK
  <2>3. NoSendOnClosed'
    BY <1>4 DEF LockAndCheck, Delivered, NoSendOnClosed, Goto, TypeOK, hubVars
  <2> QED BY <2>1, <2>2, <2>3
<1>5. CASE TrySend(p)
  <2>0. cur[p] \in Streams /\ ch[cur[p]] \in Seq(Events) /\ ev[p] \in Events
    BY <1>5 DEF TrySend, PublisherOK, TypeOK
  <2>1. TypeOK'
    <3>1. Append(ch[cur[p]], ev[p]) \in Seq(Events)
          /\ Len(Append(ch[cur[p]], ev[p])) = Len(ch[cur[p]]) + 1
          /\ Len(ch[cur[p]]) \in Nat
      BY <2>0, AppendProperties, LenProperties
    <3>2. CASE Len(ch[cur[p]]) < Cap
      <4>1. /\ ch' = [ch EXCEPT ![cur[p]] = Append(ch[cur[p]], ev[p])]
            /\ pc' = [pc EXCEPT ![p] = "deliver"]
            /\ cur' = [cur EXCEPT ![p] = None]
            /\ UNCHANGED <<phase, view, ev, todo, taken>>
        BY <1>5, <3>2 DEF TrySend, Accept, Delivered, Goto, hubVars
      <4>2. ch' \in [Streams -> Seq(Events)]
        BY <4>1, <3>1, <2>0 DEF TypeOK
      <4>3. ASSUME NEW s \in Streams PROVE Len(ch'[s]) <= Cap
        <5>1. CASE s = cur[p]
          <6>1. ch'[s] = Append(ch[cur[p]], ev[p])
            BY <4>1, <5>1, <2>0 DEF TypeOK
          <6> QED BY <6>1, <3>1, <3>2, CapAssumption
        <5>2. CASE s # cur[p]
          BY <4>1, <5>2 DEF TypeOK
        <5> QED BY <5>1, <5>2
      <4>4. pc' \in [Publishers -> Labels] /\ cur' \in [Publishers -> Streams \cup {None}]
        BY <4>1 DEF TypeOK, Labels
      <4> QED BY <4>1, <4>2, <4>3, <4>4 DEF TypeOK
    <3>3. CASE ~(Len(ch[cur[p]]) < Cap)
      BY <1>5, <3>3 DEF TrySend, TypeOK, Goto, Labels, hubVars
    <3> QED BY <3>2, <3>3
  <2>2. ASSUME NEW q \in Publishers PROVE PublisherOK(q)'
    BY <1>5 DEF TrySend, Delivered, PublisherOK, Goto, TypeOK
  <2>3. NoSendOnClosed'
    BY <1>5 DEF TrySend, Delivered, NoSendOnClosed, Goto, TypeOK, hubVars
  <2> QED BY <2>1, <2>2, <2>3
<1>6. CASE DrainOldest(p)
  <2>0. cur[p] \in Streams /\ ch[cur[p]] \in Seq(Events)
    BY <1>6 DEF DrainOldest, PublisherOK, TypeOK
  <2>1. TypeOK'
    <3>1. ch[cur[p]] # <<>> => Tail(ch[cur[p]]) \in Seq(Events)
                               /\ Len(Tail(ch[cur[p]])) <= Cap
      BY <2>0, TailType, CapAssumption DEF TypeOK
    <3> QED BY <1>6, <2>0, <3>1 DEF DrainOldest, TypeOK, Goto, Labels, hubVars
  <2>2. ASSUME NEW q \in Publishers PROVE PublisherOK(q)'
    BY <1>6 DEF DrainOldest, PublisherOK, Goto, TypeOK
  <2>3. NoSendOnClosed'
    BY <1>6 DEF DrainOldest, NoSendOnClosed, Goto, TypeOK, hubVars
  <2> QED BY <2>1, <2>2, <2>3
<1> QED BY <1>1, <1>2, <1>3, <1>4, <1>5, <1>6 DEF Publish

LEMMA StutterStep == IInv /\ UNCHANGED vars => IInv'
BY DEF IInv, vars, TypeOK, PublisherOK, NoSendOnClosed

\* Every behaviour of the hub keeps its types and channel capacities, its
\* publishers' control state consistent, and no publisher between its closed
\* check and its channel operation ever has that channel closed under it.
THEOREM HubInvariant == Spec => []IInv
<1>1. IInv /\ [Next]_vars => IInv'
  BY StreamStep, PublisherStep, StutterStep DEF Next
<1> QED BY InitIInv, <1>1, PTL DEF Spec

\* The types and the capacity bound of every subscriber's channel.
THEOREM HubTypes == Spec => []TypeOK
<1>1. IInv => TypeOK
  BY DEF IInv
<1> QED BY HubInvariant, <1>1, PTL

\* The server never panics with a send on a closed channel (hub.go:121-125).
THEOREM HubNeverSendsOnClosed == Spec => []NoSendOnClosed
<1>1. IInv => NoSendOnClosed
  BY DEF IInv
<1> QED BY HubInvariant, <1>1, PTL

-----------------------------------------------------------------------------
(* The hub implements LiveBus: the initial states map to its initial states, *)
(* and every step of the hub is a step of the bus or leaves it as it is.     *)

\* What a stream is owed, spelled out.
LEMMA OwedToIs ==
  ASSUME NEW s, NEW e
  PROVE  e \in OwedTo(s) <=> \E p \in Publishers : (s \in todo[p] \/ cur[p] = s) /\ ev[p] = e
BY DEF OwedTo

\* Only the publisher of an event holds it, and not while it is idle.
LEMMA OwedByItsPublisher ==
  ASSUME IInv, NEW s \in Streams, NEW e \in OwedTo(s)
  PROVE  e.pub \in Publishers /\ ev[e.pub] = e /\ pc[e.pub] # "idle"
         /\ (s \in todo[e.pub] \/ cur[e.pub] = s)
<1>1. PICK p \in Publishers : (s \in todo[p] \/ cur[p] = s) /\ ev[p] = e
  BY DEF OwedTo
<1>2. pc[p] # "idle"
  BY <1>1, NoneAssumption DEF IInv, PublisherOK
<1>3. ev[p].pub = p
  BY <1>2 DEF IInv, PublisherOK
<1> QED BY <1>1, <1>2, <1>3

\* The images of the hub's variables that a step leaves alone.
LEMMA OwedUnchanged ==
  ASSUME UNCHANGED <<ev, todo, cur>>
  PROVE  \A s \in Streams : OwedTo(s)' = OwedTo(s)
BY DEF OwedTo

\* What a phase stands for, of a stream's state before and after a step.
LEMMA StateOfPhase ==
  ASSUME NEW s \in Streams
  PROVE  /\ phase[s] = "new" => StateOf(s) = "out"
         /\ phase[s] = "live" => StateOf(s) = "in"
         /\ phase[s] = "removed" => StateOf(s) = "leaving"
         /\ phase[s] = "locking" => StateOf(s) = "leaving"
         /\ phase[s] = "closed" => StateOf(s) = "gone"
BY DEF StateOf

LEMMA StateMoves ==
  ASSUME NEW s \in Streams, NEW a, phase \in [Streams -> Phases], phase' = [phase EXCEPT ![s] = a]
  PROVE  [r \in Streams |-> StateOf(r)]' = [[r \in Streams |-> StateOf(r)] EXCEPT ![s] = StateOf(s)']
<1>1. \A r \in Streams : r # s => phase'[r] = phase[r]
  OBVIOUS
<1>2. ASSUME NEW r \in Streams, r # s PROVE StateOf(r)' = StateOf(r)
  <2>1. phase'[r] = phase[r]
    BY <1>1, <1>2
  <2> QED BY <2>1 DEF StateOf
<1> QED BY <1>2

LEMMA InitIsBusInit == Init => Bus!Init
<1> SUFFICES ASSUME Init PROVE Bus!Init
  OBVIOUS
<1>1. \A s \in Streams : StateOf(s) = "out"
  BY DEF Init, StateOf
<1>2. \A s \in Streams : OwedTo(s) = {}
  BY NoneAssumption DEF Init, OwedTo
<1> QED BY <1>1, <1>2 DEF Init, Bus!Init

\* A step of a stream's handler is the bus's step of the same stream.
LEMMA StreamStepIsBusStep ==
  ASSUME IInv, NEW s \in Streams,
         Serve(s)
  PROVE  [Bus!Next]_(Bus!vars)
<1> DEFINE states == [r \in Streams |-> StateOf(r)]
           owes == [r \in Streams |-> OwedTo(r)]
<1>1. UNCHANGED <<ev, todo, cur>>
  BY DEF Serve, Subscribe, Receive, UnsubRemove, UnsubLock, UnsubClose, pubVars
<1>2. owes' = owes
  BY <1>1, OwedUnchanged
<1>3. phase \in [Streams -> Phases] /\ view \in [Streams -> SUBSET Teams]
  BY DEF IInv, TypeOK
<1>3a. /\ phase'[s] = "live" => StateOf(s)' = "in"
       /\ phase'[s] = "removed" => StateOf(s)' = "leaving"
       /\ phase'[s] = "locking" => StateOf(s)' = "leaving"
       /\ phase'[s] = "closed" => StateOf(s)' = "gone"
  BY DEF StateOf
<1>4. CASE Subscribe(s)
  <2>1. states[s] = "out" /\ states' = [states EXCEPT ![s] = "in"]
    BY <1>3, <1>4, StateMoves, StateOfPhase, <1>3a DEF Subscribe
  <2>2. Bus!Join(s)
    BY <1>1, <1>2, <1>4, <2>1 DEF Subscribe, Bus!Join, Views, Bus!Views
  <2> QED BY <2>2 DEF Bus!Next
<1>5. CASE Receive(s)
  <2>1. states[s] = "in" /\ states' = states
    BY <1>3, <1>5 DEF Receive, StateOf, hubVars
  <2>2. Bus!Take(s)
    BY <1>1, <1>2, <1>5, <2>1 DEF Receive, hubVars, Bus!Take
  <2> QED BY <2>2 DEF Bus!Next
<1>6. CASE UnsubRemove(s)
  <2>1. states[s] = "in" /\ states' = [states EXCEPT ![s] = "leaving"]
    BY <1>3, <1>6, StateMoves, StateOfPhase, <1>3a DEF UnsubRemove
  <2>2. Bus!Leave(s)
    BY <1>1, <1>2, <1>6, <2>1 DEF UnsubRemove, Bus!Leave
  <2> QED BY <2>2 DEF Bus!Next
<1>7. CASE UnsubLock(s)
  <2>1. states' = states
    BY <1>3, <1>7, StateMoves, StateOfPhase, <1>3a DEF UnsubLock
  <2> QED BY <1>1, <1>2, <1>7, <2>1 DEF UnsubLock, Bus!vars
<1>8. CASE UnsubClose(s)
  <2>1. states[s] = "leaving" /\ states' = [states EXCEPT ![s] = "gone"]
    BY <1>3, <1>8, StateMoves, StateOfPhase, <1>3a DEF UnsubClose
  <2>2. Bus!Gone(s)
    BY <1>1, <1>2, <1>8, <2>1 DEF UnsubClose, Bus!Gone
  <2> QED BY <2>2 DEF Bus!Next
<1> QED BY <1>4, <1>5, <1>6, <1>7, <1>8 DEF Serve

\* Publishing takes the snapshot of who is owed the event.
LEMMA SnapshotIsPost ==
  ASSUME IInv, NEW p \in Publishers, NEW t \in Teams, PublishSnapshot(p, t)
  PROVE  Bus!Post(p, t)
<1> DEFINE e == [pub |-> p, team |-> t]
           owes == [r \in Streams |-> OwedTo(r)]
<1>1. /\ UNCHANGED <<phase, view, ch, taken>> /\ pc[p] = "idle"
      /\ ev' = [ev EXCEPT ![p] = e]
      /\ todo' = [todo EXCEPT ![p] = {s \in Registered : t \in view[s]}]
      /\ cur' = cur
  BY DEF PublishSnapshot, hubVars
<1>2. todo[p] = {} /\ cur[p] = None
  BY <1>1 DEF IInv, PublisherOK
<1>3. \A s \in Streams : \A f \in OwedTo(s) : f.pub # p
  BY <1>1, OwedByItsPublisher
<1>4. ASSUME NEW s \in Streams
      PROVE  OwedTo(s)' = IF StateOf(s) = "in" /\ t \in view[s] THEN OwedTo(s) \cup {e} ELSE OwedTo(s)
  <2>1. /\ ev'[p] = e /\ todo'[p] = {r \in Registered : t \in view[r]} /\ cur'[p] = None
        /\ \A q \in Publishers \ {p} : ev'[q] = ev[q] /\ todo'[q] = todo[q] /\ cur'[q] = cur[q]
    BY <1>1, <1>2 DEF IInv, TypeOK
  <2>2. s \in Registered <=> StateOf(s) = "in"
    BY DEF Registered, StateOf, IInv, TypeOK, Phases
  <2>3. \A f : f \in OwedTo(s)' <=> \/ f = e /\ StateOf(s) = "in" /\ t \in view[s]
                                    \/ f \in OwedTo(s)
    <3>1. \A f : f \in OwedTo(s)' <=>
                 \E q \in Publishers : (s \in todo'[q] \/ cur'[q] = s) /\ ev'[q] = f
      BY DEF OwedTo
    <3>2. \A f : f \in OwedTo(s) <=>
                 \E q \in Publishers : (s \in todo[q] \/ cur[q] = s) /\ ev[q] = f
      BY DEF OwedTo
    <3> QED BY <1>2, <2>1, <2>2, <3>1, <3>2, NoneAssumption
  <2> QED BY <2>3
<1>5. owes' = [s \in Streams |-> IF StateOf(s) = "in" /\ t \in view[s]
                                 THEN OwedTo(s) \cup {e} ELSE OwedTo(s)]
  BY <1>4
<1>6. [s \in Streams |-> StateOf(s)]' = [s \in Streams |-> StateOf(s)]
  BY <1>1 DEF StateOf
<1> QED BY <1>1, <1>3, <1>5, <1>6 DEF Bus!Post

\* Once the event is queued, or the stream found closed, it is owed no longer.
LEMMA DeliveredIsPaid ==
  ASSUME IInv, NEW p \in Publishers, pc[p] \in {"lock", "send"}, Delivered(p), UNCHANGED <<ev, todo>>
  PROVE  /\ cur[p] \in Streams /\ ev[p] \in OwedTo(cur[p])
         /\ [s \in Streams |-> OwedTo(s)]'
              = [[s \in Streams |-> OwedTo(s)] EXCEPT ![cur[p]] = @ \ {ev[p]}]
<1> DEFINE d == cur[p]
<1>1. d \in Streams /\ d \notin todo[p] /\ ev[p].pub = p
  BY DEF IInv, PublisherOK
<1>2. ev[p] \in OwedTo(d)
  BY DEF OwedTo
<1>3. cur'[p] = None /\ \A q \in Publishers \ {p} : cur'[q] = cur[q]
  BY DEF Delivered, IInv, TypeOK
<1>4. ASSUME NEW s \in Streams
      PROVE  OwedTo(s)' = IF s = d THEN OwedTo(s) \ {ev[p]} ELSE OwedTo(s)
  <2>1. \A f : f \in OwedTo(s)' <=>
               \E q \in Publishers : (s \in todo[q] \/ cur'[q] = s) /\ ev[q] = f
    BY DEF OwedTo
  <2>2. \A f : f \in OwedTo(s) <=>
               \E q \in Publishers : (s \in todo[q] \/ cur[q] = s) /\ ev[q] = f
    BY DEF OwedTo
  <2>3. \A q \in Publishers : (s \in todo[q] \/ cur[q] = s) => ev[q].pub = q
    BY NoneAssumption DEF IInv, PublisherOK
  <2>4. CASE s = d
    <3>1. \A f : f \in OwedTo(s)' => f \in OwedTo(s) /\ f # ev[p]
      BY <1>1, <1>3, <2>1, <2>2, <2>3, <2>4, NoneAssumption
    <3>2. \A f : f \in OwedTo(s) /\ f # ev[p] => f \in OwedTo(s)'
      BY <1>3, <2>1, <2>2
    <3> QED BY <2>4, <3>1, <3>2
  <2>5. CASE s # d
    <3>1. \A q \in Publishers : cur'[q] = s <=> cur[q] = s
      BY <1>3, <2>5, NoneAssumption
    <3>2. \A f : f \in OwedTo(s)' <=> f \in OwedTo(s)
      BY <2>1, <2>2, <3>1
    <3>3. OwedTo(s)' = OwedTo(s)
      BY <3>2
    <3> QED BY <2>5, <3>3
  <2> QED BY <2>4, <2>5
<1> QED BY <1>1, <1>2, <1>4

\* A step of a publisher is a step of the bus, or one it does not see.
LEMMA PublishIsBusStep ==
  ASSUME IInv, NEW p \in Publishers, Publish(p)
  PROVE  [Bus!Next]_(Bus!vars)
<1> DEFINE states == [r \in Streams |-> StateOf(r)]
           owes == [r \in Streams |-> OwedTo(r)]
<1>1. UNCHANGED <<phase, view, taken>>
  BY DEF Publish, NextTarget, PublishReturn, LockAndCheck, TrySend, DrainOldest, hubVars
<1>2. states' = states
  BY <1>1 DEF StateOf
<1>3. CASE NextTarget(p)
  <2>1. PICK s \in todo[p] : /\ cur' = [cur EXCEPT ![p] = s]
                             /\ todo' = [todo EXCEPT ![p] = @ \ {s}]
    BY <1>3 DEF NextTarget
  <2>2. ev' = ev /\ ch' = ch /\ cur[p] = None
    BY <1>3 DEF NextTarget, IInv, PublisherOK
  <2>3. /\ cur'[p] = s /\ todo'[p] = todo[p] \ {s}
        /\ \A q \in Publishers \ {p} : cur'[q] = cur[q] /\ todo'[q] = todo[q]
    BY <2>1 DEF IInv, TypeOK
  <2>4. ASSUME NEW r \in Streams PROVE OwedTo(r)' = OwedTo(r)
    <3>1. \A q \in Publishers : r \in todo'[q] \/ cur'[q] = r <=> r \in todo[q] \/ cur[q] = r
      BY <2>2, <2>3, NoneAssumption
    <3> QED BY <2>2, <3>1 DEF OwedTo
  <2> QED BY <1>1, <1>2, <2>2, <2>4 DEF Bus!vars
<1>4. CASE PublishReturn(p)
  <2>1. /\ todo' = todo /\ cur' = cur /\ ch' = ch /\ todo[p] = {} /\ cur[p] = None
        /\ ev' = [ev EXCEPT ![p] = None]
    BY <1>4 DEF PublishReturn, IInv, PublisherOK
  <2>2. \A q \in Publishers \ {p} : ev'[q] = ev[q]
    BY <2>1 DEF IInv, TypeOK
  <2>3. ASSUME NEW r \in Streams PROVE OwedTo(r)' = OwedTo(r)
    BY <2>1, <2>2, NoneAssumption DEF OwedTo
  <2> QED BY <1>1, <1>2, <2>1, <2>3 DEF Bus!vars
<1>5. CASE LockAndCheck(p)
  <2>1. pc[p] = "lock" /\ UNCHANGED <<ch, ev, todo>>
    BY <1>5 DEF LockAndCheck
  <2>2. CASE phase[cur[p]] = "closed"
    <3>1. Delivered(p)
      BY <1>5, <2>2 DEF LockAndCheck
    <3>2. /\ cur[p] \in Streams /\ ev[p] \in OwedTo(cur[p])
          /\ owes' = [owes EXCEPT ![cur[p]] = @ \ {ev[p]}]
      BY <2>1, <3>1, DeliveredIsPaid
    <3>3. states[cur[p]] = "gone"
      BY <2>2, <3>2, StateOfPhase
    <3>4. Bus!Forget(cur[p], ev[p])
      BY <1>1, <1>2, <2>1, <3>2, <3>3 DEF Bus!Forget
    <3> QED BY <3>2, <3>4 DEF Bus!Next
  <2>3. CASE phase[cur[p]] # "closed"
    <3>1. cur' = cur
      BY <1>5, <2>3 DEF LockAndCheck
    <3> QED BY <1>1, <1>2, <2>1, <3>1, OwedUnchanged DEF Bus!vars
  <2> QED BY <2>2, <2>3
<1>6. CASE TrySend(p)
  <2>1. pc[p] = "send" /\ UNCHANGED <<ev, todo>>
    BY <1>6 DEF TrySend
  <2>2. CASE Len(ch[cur[p]]) < Cap
    <3>1. Delivered(p) /\ ch' = [ch EXCEPT ![cur[p]] = Append(@, ev[p])]
      BY <1>6, <2>2 DEF TrySend, Accept
    <3>2. /\ cur[p] \in Streams /\ ev[p] \in OwedTo(cur[p])
          /\ owes' = [owes EXCEPT ![cur[p]] = @ \ {ev[p]}]
      BY <2>1, <3>1, DeliveredIsPaid
    <3>3. states[cur[p]] # "gone"
      BY <2>1, <3>2 DEF IInv, NoSendOnClosed, TypeOK, Phases, StateOf
    <3>4. Bus!Enqueue(cur[p], ev[p])
      BY <1>1, <1>2, <2>2, <3>1, <3>2, <3>3 DEF Bus!Enqueue
    <3> QED BY <3>2, <3>4 DEF Bus!Next
  <2>3. CASE ~(Len(ch[cur[p]]) < Cap)
    <3>1. cur' = cur /\ ch' = ch
      BY <1>6, <2>3 DEF TrySend
    <3> QED BY <1>1, <1>2, <2>1, <3>1, OwedUnchanged DEF Bus!vars
  <2> QED BY <2>2, <2>3
<1>7. CASE DrainOldest(p)
  <2>1. /\ pc[p] = "drain" /\ UNCHANGED <<ev, todo, cur>>
        /\ ch' = [ch EXCEPT ![cur[p]] = IF @ = <<>> THEN @ ELSE Tail(@)]
    BY <1>7 DEF DrainOldest
  <2>2. cur[p] \in Streams /\ ev[p] \in OwedTo(cur[p]) /\ ch \in [Streams -> Seq(Events)]
    BY <2>1 DEF IInv, PublisherOK, TypeOK, OwedTo
  <2>3. states[cur[p]] # "gone"
    BY <2>1, <2>2 DEF IInv, NoSendOnClosed, TypeOK, Phases, StateOf
  <2>4. owes' = owes
    BY <2>1, OwedUnchanged
  <2>5. CASE ch[cur[p]] = <<>>
    <3>1. ch' = ch
      BY <2>1, <2>2, <2>5
    <3> QED BY <1>1, <1>2, <2>4, <3>1 DEF Bus!vars
  <2>6. CASE ch[cur[p]] # <<>>
    <3>1. Bus!DropOldest(cur[p])
      BY <1>1, <1>2, <2>1, <2>2, <2>3, <2>4, <2>6 DEF Bus!DropOldest
    <3> QED BY <2>2, <3>1 DEF Bus!Next
  <2> QED BY <2>5, <2>6
<1> QED BY <1>3, <1>4, <1>5, <1>6, <1>7 DEF Publish

LEMMA HubStepIsBusStep == IInv /\ [Next]_vars => [Bus!Next]_(Bus!vars)
<1> SUFFICES ASSUME IInv, [Next]_vars PROVE [Bus!Next]_(Bus!vars)
  OBVIOUS
<1>1. ASSUME NEW p \in Publishers, NEW t \in Teams, PublishSnapshot(p, t)
      PROVE  Bus!Next
  BY <1>1, SnapshotIsPost DEF Bus!Next
<1>2. CASE UNCHANGED vars
  <2>1. [s \in Streams |-> StateOf(s)]' = [s \in Streams |-> StateOf(s)]
    BY <1>2 DEF vars, StateOf
  <2> QED BY <1>2, <2>1, OwedUnchanged DEF vars, Bus!vars
<1> QED BY <1>1, <1>2, StreamStepIsBusStep, PublishIsBusStep DEF Next

\* The hub is the lossy bus: no event that was addressed to a live subscriber
\* is skipped or queued twice, none is queued after close, only the oldest is
\* ever lost, and only while another one is owed (hub.go:97-148).
THEOREM HubImplementsBus == Spec => ImplementsBus
BY InitIsBusInit, HubStepIsBusStep, HubInvariant, PTL DEF Spec, ImplementsBus, Bus!Spec

\* The hub whose publisher is the pipeline goroutine, with the channels that ask
\* it for runs (main.go:288-299), does nothing a hub may not do: the theorems
\* above hold of it too.
THEOREM TriggerUsesHub == TriggerSpec => Spec
<1>1. TriggerInit => Init
  BY DEF TriggerInit
<1>2. [TriggerNext]_triggerVars => [Next]_vars
  <2> SUFFICES ASSUME [TriggerNext]_triggerVars PROVE [Next]_vars
    OBVIOUS
  <2>1. CASE BeginManual \/ BeginInterval
    BY <2>1, PipeAssumption DEF BeginManual, BeginInterval, BeginPass, Next
  <2>2. CASE HubStep
    BY <2>2 DEF HubStep, Next
  <2> QED BY <2>1, <2>2 DEF TriggerNext, HandleTrigger, TriggerNow, triggerVars
<1> QED BY <1>1, <1>2, PTL DEF TriggerSpec, Spec
=============================================================================
