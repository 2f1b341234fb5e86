---------------------------- MODULE MCFrontDoor ----------------------------
(* An instance of FrontDoor: two callers behind one address.  One is a      *)
(* member of a team, the other a member of another or a superadmin without  *)
(* one.  The last callers are still online when the clock stops.            *)
EXTENDS FrontDoor

CONSTANTS t1, t2, a1, a2, c1, c2, i1

OneAddress == [c \in Clients |-> i1]
Known == [c \in Clients |->
            IF c = c1 THEN {[team |-> t1, actor |-> a1, superadmin |-> FALSE]}
            ELSE {[team |-> t2, actor |-> a2, superadmin |-> FALSE],
                  [team |-> NoTeam, actor |-> a2, superadmin |-> TRUE]}]
=============================================================================
