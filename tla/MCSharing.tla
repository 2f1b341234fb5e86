------------------------------ MODULE MCSharing ------------------------------
(* Instances of Sharing: alice is in the first team, bob and sue in the     *)
(* second; sue is a superadmin.                                             *)
EXTENDS Sharing, TLC

CONSTANTS alice, bob, sue, t1, t2

TwoTeams == {t1, t2}
Trio     == {alice, bob, sue}
Sue      == {sue}
HomeOf   == [c \in Trio |-> IF c = alice THEN t1 ELSE t2]

ShareOpsOf == [c \in Trio |-> IF c = alice THEN {"store", "share", "delete"}
                              ELSE IF c = bob THEN {"redeem", "judge"}
                              ELSE {"redeem", "copy", "delete"}]

SymAll == Permutations(Ids) \cup Permutations(Texts) \cup Permutations(Tokens)
=============================================================================
