--------------------------- MODULE PipelineTrigger ---------------------------
(***************************************************************************)
(* How a request for a pipeline run reaches the pipeline goroutine:        *)
(* through triggerCh and the pipeline's own channel, each with one slot,   *)
(* and a relay goroutine between them (web/handlers.go:877,                *)
(* cmd/server/main.go:288-299, pipeline.go:63-68).  The goroutine is one   *)
(* of the hub's publishers, and a pass ends only when its Publish returns, *)
(* so that a request depends on the hub, module LiveHub.  A pass stands    *)
(* here for its Publish: what else it does is the subject of module        *)
(* Pipeline, and ends by itself.  Nothing of this outlives the process.    *)
(***************************************************************************)
EXTENDS LiveHub

CONSTANT Pipe  \* the pipeline goroutine

ASSUME PipeAssumption == Pipe \in Publishers

VARIABLES
  httpCh,   \* triggerCh holds a token
  trigger,  \* p.trigger holds a token
  waiting   \* history: someone asked for a run and no pass has begun since

tokens == <<httpCh, trigger>>
triggerVars == <<vars, tokens, waiting>>

TriggerInit == Init /\ httpCh = FALSE /\ trigger = FALSE /\ waiting = FALSE

\* POST /api/pipeline/trigger: a non-blocking send, dropped if the slot is full.
HandleTrigger ==
  /\ httpCh' = TRUE
  /\ waiting' = TRUE
  /\ UNCHANGED <<vars, trigger>>

\* Mutant: the token is dropped when a pass is in progress.
TriggerNowDropsWhenBusy ==
  /\ httpCh
  /\ httpCh' = FALSE
  /\ trigger' = (trigger \/ pc[Pipe] = "idle")
  /\ UNCHANGED <<vars, waiting>>

\* The relay takes a token and calls TriggerNow: a non-blocking send, dropped if
\* a token is already pending.
TriggerNow ==
  /\ httpCh
  /\ httpCh' = FALSE
  /\ trigger' = TRUE
  /\ UNCHANGED <<vars, waiting>>

\* The goroutine leaves the select of Start: a pass begins.
BeginPass ==
  /\ \E t \in Teams : PublishSnapshot(Pipe, t)
  /\ waiting' = FALSE
  /\ UNCHANGED httpCh

BeginManual == trigger /\ trigger' = FALSE /\ BeginPass
BeginInterval == trigger' = trigger /\ BeginPass

\* Everyone's steps in the hub; other goroutines publish when they like.
HubStep ==
  /\ \/ \E s \in Streams : Serve(s)
     \/ \E p \in Publishers : Publish(p)
     \/ \E p \in Publishers \ {Pipe}, t \in Teams : PublishSnapshot(p, t)
  /\ UNCHANGED <<tokens, waiting>>

TriggerNext ==
  \/ HandleTrigger \/ TriggerNow
  \/ BeginManual \/ BeginInterval
  \/ HubStep

\* The relay and the pipeline goroutine run when they can.  Nobody need ask for a
\* run and the ticker need not fire; between a token and a tick that are both
\* ready, Go's select may take either, and both begin a pass.
TriggerFairness ==
  /\ Fairness
  /\ WF_triggerVars(TriggerNow)
  /\ WF_triggerVars(BeginManual)

TriggerSpec == TriggerInit /\ [][TriggerNext]_triggerVars /\ TriggerFairness

-----------------------------------------------------------------------------
(* Properties. *)

\* A requested run begins after the request, even if the request finds a pass in
\* progress, or is dropped because a token is already pending in either channel:
\* the pending one is taken later than the request.  The exception is the hub's,
\* a pass whose Publish is kept from returning by others that go on publishing.
TriggerServed ==
  \/ waiting ~> ~waiting
  \/ \E q \in Publishers \ {Pipe} : KeepsPublishing(q)
=============================================================================
