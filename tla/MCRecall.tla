------------------------------ MODULE MCRecall ------------------------------
(* An instance of Recall: a user who asks in one window and changes         *)
(* preferences in another, over five entries: one of them the user's own,   *)
(* one of another team, two of several chunks, one whose embedding failed.  *)
EXTENDS Recall, TLC

CONSTANTS e1, e2, e3, e4, e5, t1, t2, ann, bo, law, ops, urgent, r1, asking, tuning

AllEntries == {e1, e2, e3, e4, e5}
AllTeams == {t1, t2}
AllValues == {ann, bo, law, ops, urgent}
Author == [e \in AllEntries |-> IF e = e1 THEN ann ELSE bo]
Domain == [e \in AllEntries |-> IF e = e3 THEN ops ELSE law]
Tags == [e \in AllEntries |-> IF e = e2 THEN {urgent} ELSE {}]
Distances == (e1 :> {5}) @@ (e2 :> {2, 3, 4}) @@ (e3 :> {6, 9}) @@ (e4 :> {1}) @@ (e5 :> {})
Windows == {asking, tuning}
SameActor == [c \in Windows |-> ann]
Names == [c \in Windows |-> {ann}]
HomeTeam == [c \in Windows |-> t1]
NoSuper == {}

Saved == {[min |-> 5, max |-> 1, picks |-> [NoRules EXCEPT !["deny_tag"] = {urgent}, !["allow_domain"] = {ops}, !["pin_entry"] = {e3}]],
          [min |-> Unset, max |-> 2, picks |-> [NoRules EXCEPT !["allow_domain"] = {law}, !["pin_entry"] = {e2, e3}]]}
Tried == {[min |-> 0, max |-> 1, picks |-> [NoRules EXCEPT !["allow_tag"] = {urgent}, !["deny_domain"] = {ops}]]}

TeamRule(on) == [scope |-> "team", value |-> t1, enabled |-> on]

TwoWindows(c) ==
  IF c = asking
  THEN {a \in Recalls : a.op = "enrich" => a.arg = <<t1, None, ann>>}
       \cup {a \in PrefAsks : a.op = "put"}
  ELSE {a \in PrefAsks : a.op # "put" => a.arg = e1}
       \cup {a \in HideAsks : a.arg \in {<<"item", e3>>, <<"author", ann>>, <<"domain", law>>, <<"tag", urgent>>}}
       \cup {a \in RuleAsks : a.op = "deleteRule" \/ a.arg[2] = TeamRule(a.op = "storeRule")}
Calls == [c \in Windows |-> IF c = asking THEN 1 ELSE 2]

Stored == Init /\ entries = [e \in AllEntries |-> IF e = e4 THEN t2 ELSE t1]
MCSpec == Stored /\ [][Next]_vars
=============================================================================
