------------------------------ MODULE MCTodos ------------------------------
(* Instances of Todos: alice is a member of the first team; bob is a        *)
(* superadmin of the second, who may access every team.                     *)
EXTENDS Todos, TLC

CONSTANTS alice, bob, t1, t2

TwoTeams == {t1, t2}
Members  == {alice, bob}

HomeSuper   == [c \in Members |-> IF c = alice THEN t1 ELSE t2]
ReachSuper  == [c \in Members |-> IF c = alice THEN {t1} ELSE {t1, t2}]

(* The first caller fills and orders lists; the second edits and deletes.   *)
Fills == {"createList", "add", "addByName", "patch", "reorder"}
Edits == {"editList", "deleteList", "move", "complete", "delete"}
OpsSplit == [c \in Members |-> IF c = alice THEN Fills ELSE Edits]

SymAll   == Permutations(Items) \cup Permutations(Lists)
=============================================================================
