----------------------------- MODULE MCPipeline -----------------------------
(***************************************************************************)
(* A small instance of Pipeline: teams other than the reserved one are     *)
(* alike, and no temporal property is checked.                             *)
(***************************************************************************)
EXTENDS Pipeline, TLC

RealTeamsAlike == Permutations(Teams \ {Unassigned})
=============================================================================
