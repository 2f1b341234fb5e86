------------------------------ MODULE MCBackup ------------------------------
(* An instance of Backup: an agent that starts a session and captures an    *)
(* enrichment, and one that appends an answer or what a tool returned,      *)
(* prefers, links and completes, in one session.                            *)
EXTENDS Backup

CONSTANTS c1, c2, s1, e1

AgentAsks(c, a) ==
  IF c = c1
  THEN a.op = "start" \/ (a.op = "capture" /\ a.entries # {})
  ELSE \/ a.op = "turn" /\ a.role \in {"assistant", "tool"} /\ a.entries = {}
       \/ a.op = "prefer" /\ a.arg = None
       \/ a.op = "link" /\ a.role = "stored"
       \/ a.op = "complete" /\ a.arg = <<"completed", 4>>
Calls == [c \in {c1, c2} |-> IF c = c1 THEN 2 ELSE 1]

(* What a tool returned does not fit a line of the archive. *)
ToolOutput(t, row) == t = "ft_turns" /\ row.role = "tool"

(* Nothing is promised once a request has overlapped a restore; training    *)
(* sets are exported, and sessions that are not eligible kept, in           *)
(* behaviours without a backup and with the entries left alone.             *)
Bounded ==
  /\ ~overlap
  /\ tr.pc # "idle" \/ (\E r \in db["ft_sessions"] : ~r.eligible) => ex.pc = "idle" /\ changes = 0
=============================================================================
