----------------------------- MODULE MCKnowledge -----------------------------
(* Instances of Knowledge: alice and bob are members of the first team; sue *)
(* is a superadmin whose context is the second team's.                      *)
EXTENDS Knowledge, TLC

CONSTANTS alice, bob, sue, t1, t2

TwoTeams == {t1, t2}
Sue      == {sue}
Trio     == {alice, bob, sue}

HomeTrio    == [c \in Trio |-> IF c = sue THEN t2 ELSE t1]

AllOps    == [c \in Trio |-> {"store", "import", "learn", "edit", "delete", "judge", "move"}]

SymAll == Permutations(Ids) \cup Permutations(Texts)
=============================================================================
