----------------------------- MODULE MCAccounts -----------------------------
(* An instance of Accounts.  It starts from deployments the operations can *)
(* build from an empty database: one team, or a second one whose domain    *)
(* patterns match; a key and a member of the first; and a person who has   *)
(* signed in once and is still unassigned.                                 *)
EXTENDS Accounts

CONSTANTS un, t1, t2, ann, bo, ann2, p1, boot, k1, k2, c1, c2

AllTeams == {un, t1, t2}
AllEmails == {ann, bo, ann2}
OnePerson == {p1}
HerEmails == [p \in OnePerson |-> {ann, ann2}]
Clients == {c1, c2}
AllKeys == {boot, k1, k2}
HasPassword == {bo}

Deployed ==
  /\ \E more \in SUBSET {t2} :
       /\ teams = [t \in {un, t1} \cup more |-> [enabled |-> TRUE, open |-> t = t2]]
       /\ born = {un, t1} \cup more
  /\ users = (ann :> [team |-> un, role |-> "member", manual |-> FALSE, subject |-> p1])
             @@ (bo :> [team |-> t1, role |-> "member", manual |-> TRUE, subject |-> None])
  /\ members = {} /\ settings = {t2} \cap born /\ session = None /\ rows = {}
  /\ keys = (boot :> [team |-> None, user |-> None, role |-> "superadmin"])
            @@ (k1 :> [team |-> t1, user |-> None, role |-> "admin"])
  /\ req = [c \in Callers |-> NoReq] /\ left = CallsOf /\ restarts = 0

MCSpec == Deployed /\ [][Next]_vars

TeamOps == {"createTeam", "updateTeam", "setEnabled", "deleteTeam", "migrateTeam", "moveUser"}
AdminOps == {"assignUser", "setRole", "createKey", "revokeKey", "addMember", "removeMember", "putSettings"}
SignOps == {"login", "oidc", "logout"}

(* The superadmin key works on teams and homes, unpinned; the other client  *)
(* is the team's administrator, a browser, or a writer of other data.       *)
Splits(c, a) ==
  /\ a.role # "curator" /\ (a.user = ann2 => a.op = "oidc")
  /\ IF c = c1
     THEN a.op \in TeamOps /\ a.tc.user = None /\ a.tc.team = None /\ a.role # "admin"
     ELSE /\ a.op \in AdminOps \cup SignOps \cup {"store"}
          /\ a.op \notin SignOps => a.tc.team = t1 /\ a.tc.role # "superadmin"
          /\ a.op \in {"addMember", "removeMember"} => a.team = t1
CallsThree == [c \in Clients |-> IF c = c1 THEN 1 ELSE 2]
=============================================================================
