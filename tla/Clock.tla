------------------------------- MODULE Clock -------------------------------
(* The one clock the modules of a request's way in read.  A tick is the     *)
(* time the rate limiter takes to earn one token.                           *)
EXTENDS Integers

CONSTANT MaxTime  \* bound: the last instant of a behaviour
ASSUME TimeAssumption == MaxTime \in Nat

VARIABLE
  now

Tick == now < MaxTime /\ now' = now + 1
=============================================================================
