----------------------------- MODULE TeamProofs -----------------------------
(***************************************************************************)
(* TLAPS proofs about what the teams own: their people, keys and settings  *)
(* (Accounts, for any teams, people, keys, callers and numbers of requests *)
(* and restarts, whatever each caller asks for) and their agents           *)
(* (AgentRegistry, for any agents, domains, teams and editors).            *)
(***************************************************************************)
EXTENDS Accounts, AgentRegistry, TLAPS

(***************************************************************************)
(* Accounts.  A request acts on what it read before.  The invariant says   *)
(* what a read is still good for when the write comes: a user row that was *)
(* found is there for good, a role that may be granted was below the role  *)
(* of the request's own context, and the two teams of a migration differ.  *)
(* A team row that was found is good for nothing, which is why the         *)
(* statements that write a team's name are guarded by the foreign keys.    *)
(***************************************************************************)
Ops == {"none", "store", "assignUser", "setRole", "createKey", "revokeKey", "addMember",
        "removeMember", "putSettings", "createTeam", "updateTeam", "setEnabled", "deleteTeam",
        "migrateTeam", "moveUser", "login", "oidc", "logout"}
Places == {"idle", "write", "find", "scope", "manage", "count", "settings", "row", "target", "tx",
           "team", "look", "insert", "update", "assign", "home", "resolve", "auto", "claim",
           "session", "delete"}
Requests == [op : Ops, pc : Places, tc : TeamContext, user : Emails \cup WithPassword \cup {None},
             team : TeamOrNone, to : TeamOrNone, role : Roles, key : KeyIds \cup {None},
             subject : People \cup {None}, kind : Kinds]

\* What a request in progress may rely on, given the users there are.
FoundUser(q, known) ==
  /\ q.op = "oidc" => q.user \in Emails
  /\ q.op = "oidc" /\ q.pc \notin {"find", "look", "insert"} => q.user \in known
  /\ q.op = "login" /\ q.pc # "find" => q.user \in known
  /\ q.op \in {"assignUser", "addMember"} => q.user \in Emails
  /\ q.op = "createKey" /\ q.pc = "write" => q.user \in known \cup {None}

NamesItsTeams(q) ==
  /\ q.op \in {"createTeam", "addMember", "migrateTeam"} => q.team \in TeamIds
  /\ q.op = "migrateTeam" => q.to \in TeamIds /\ q.team # q.to

MayGrant(q) ==
  /\ q.op \in {"assignUser", "createKey"} => q.role \in Grantable(q.tc)
  /\ q.op = "setRole" => q.role \in Grantable(q.tc) \/ q.tc.role = "superadmin"
  /\ q.op = "moveUser" => q.tc.role = "superadmin"
  /\ q.op = "createKey" => q.key \in KeyIds

ReqOK(q, known) == FoundUser(q, known) /\ NamesItsTeams(q) /\ MayGrant(q)

ReqsOK == /\ req \in [Callers -> Requests]
          /\ \A c \in Callers : ReqOK(req[c], DOMAIN users)

AccountsInv == TypeOK /\ restarts \in Nat /\ ReqsOK

-----------------------------------------------------------------------------
(* Requests as they are made. *)

LEMMA AskIs ==
  ASSUME NEW op, NEW pc, NEW tc
  PROVE  Ask(op, pc, tc) = [op |-> op, pc |-> pc, tc |-> tc, user |-> None, team |-> None,
                            to |-> None, role |-> "member", key |-> None, subject |-> None,
                            kind |-> "counted"]
<1> DEFINE Plain(o, p, x) == [op |-> o, pc |-> p, tc |-> x, user |-> None, team |-> None,
                              to |-> None, role |-> "member", key |-> None, subject |-> None,
                              kind |-> "counted"]
<1>1. [NoReq EXCEPT !.op = op] = Plain(op, "idle", NoContext)
  BY DEF NoReq
<1>2. [Plain(op, "idle", NoContext) EXCEPT !.pc = pc] = Plain(op, pc, NoContext)
  OBVIOUS
<1>3. [Plain(op, pc, NoContext) EXCEPT !.tc = tc] = Plain(op, pc, tc)
  OBVIOUS
<1>4. Ask(op, pc, tc) = [[[NoReq EXCEPT !.op = op] EXCEPT !.pc = pc] EXCEPT !.tc = tc]
  BY DEF Ask
<1> HIDE DEF Plain
<1>5. Ask(op, pc, tc) = Plain(op, pc, tc)
  BY Zenon, <1>1, <1>2, <1>3, <1>4
<1> QED BY <1>5 DEF Plain

LEMMA NoReqOK ==
  ASSUME NEW known
  PROVE  NoReq \in Requests /\ ReqOK(NoReq, known) /\ NoReq.op = "none" /\ NoReq.pc = "idle"
BY DEF NoReq, Ops, Places, NoContext, Requests, TeamContext, TeamOrNone, Roles, Kinds, ReqOK, FoundUser,
       NamesItsTeams, MayGrant

\* A role that may be granted is one of the roles.
LEMMA GrantableRoles ==
  ASSUME NEW tc \in TeamContext
  PROVE  Grantable(tc) \subseteq Roles
<1>1. Grantable(tc) \subseteq validAdminRole
  BY Zenon DEF Grantable
<1> QED BY <1>1 DEF validAdminRole, Roles

\* Whoever is authenticated has a context, pinned to a team or not.
LEMMA ContextsTyped ==
  ASSUME TypeOK, NEW x \in Authenticated, NEW tc \in ActiveTeam(x)
  PROVE  tc \in TeamContext
<1>1. x \in TeamContext
  <2>1. CASE x \in {[team |-> keys[k].team, user |-> keys[k].user, role |-> keys[k].role] : k \in DOMAIN keys}
    BY <2>1 DEF TypeOK, KeyRows, TeamContext
  <2>2. CASE session # None /\ x = [team |-> users[session.user].team, user |-> session.user,
                                    role |-> users[session.user].role]
    <3>1. session.user \in DOMAIN users
      BY <2>2 DEF TypeOK
    <3> QED BY <2>2, <3>1 DEF TypeOK, UserRows, TeamContext
  <2> QED BY <2>1, <2>2 DEF Authenticated
<1> QED BY <1>1 DEF ActiveTeam, TeamContext, TeamOrNone

LEMMA StoreAsksOK ==
  ASSUME NEW tc \in TeamContext, NEW a \in StoreAsks(tc), NEW known
  PROVE  a \in Requests /\ ReqOK(a, known)
<1>1. PICK k \in Kinds : a = [Ask("store", "write", tc) EXCEPT !.kind = k]
  BY DEF StoreAsks
<1>2. a = [op |-> "store", pc |-> "write", tc |-> tc, user |-> None, team |-> None, to |-> None,
           role |-> "member", key |-> None, subject |-> None, kind |-> k]
  BY <1>1, AskIs
<1> QED BY <1>2 DEF Requests, Ops, Places, TeamOrNone, Roles, ReqOK, FoundUser, NamesItsTeams, MayGrant

LEMMA RoleAsksOK ==
  ASSUME TypeOK, NEW tc \in TeamContext
  PROVE  \A a \in AssignAsks(tc) \cup SetRoleAsks(tc) :
           a \in Requests /\ ReqOK(a, DOMAIN users)
<1> DEFINE Assigns(u, r) == [Ask("assignUser", "find", tc) EXCEPT !.user = u, !.role = r]
           Sets(u, r) == [Ask("setRole", "scope", tc) EXCEPT !.user = u, !.role = r]
           More == IF tc.role = "superadmin" THEN {"superadmin"} ELSE {}
<1>1. ASSUME NEW a, NEW u \in Emails, NEW r \in Grantable(tc), a = Assigns(u, r)
      PROVE  a \in Requests /\ ReqOK(a, DOMAIN users)
  <2>1. a = [op |-> "assignUser", pc |-> "find", tc |-> tc, user |-> u, team |-> None, to |-> None,
             role |-> r, key |-> None, subject |-> None, kind |-> "counted"]
    BY <1>1, AskIs
  <2>2. r \in Roles
    BY GrantableRoles
  <2> QED BY <2>1, <2>2 DEF Requests, Ops, Places, TeamOrNone, Kinds, ReqOK, FoundUser, NamesItsTeams,
                            MayGrant
<1>2. ASSUME NEW a, NEW u \in DOMAIN users, NEW r \in Grantable(tc) \cup More, a = Sets(u, r)
      PROVE  a \in Requests /\ ReqOK(a, DOMAIN users)
  <2>1. a = [op |-> "setRole", pc |-> "scope", tc |-> tc, user |-> u, team |-> None, to |-> None,
             role |-> r, key |-> None, subject |-> None, kind |-> "counted"]
    BY <1>2, AskIs
  <2>2. r \in Roles /\ u \in Emails
    BY GrantableRoles DEF Roles, TypeOK
  <2>3. r \in Grantable(tc) \/ tc.role = "superadmin"
    OBVIOUS
  <2> QED BY <2>1, <2>2, <2>3 DEF Requests, Ops, Places, TeamOrNone, Kinds, ReqOK, FoundUser,
                                  NamesItsTeams, MayGrant
<1>3. AssignAsks(tc) = {Assigns(u, r) : u \in Emails, r \in Grantable(tc)}
  BY DEF AssignAsks
<1>4. SetRoleAsks(tc) = {Sets(u, r) : u \in DOMAIN users, r \in Grantable(tc) \cup More}
  BY DEF SetRoleAsks
<1> HIDE DEF Assigns, Sets, More
<1> QED BY <1>1, <1>2, <1>3, <1>4

LEMMA KeyAsksOK ==
  ASSUME TypeOK, NEW tc \in TeamContext
  PROVE  \A a \in CreateKeyAsks(tc) \cup RevokeKeyAsks(tc) :
           a \in Requests /\ ReqOK(a, DOMAIN users)
<1> DEFINE Creates(k, u, r) == [Ask("createKey", "scope", tc) EXCEPT !.key = k, !.user = u, !.role = r]
           Revokes(k) == [Ask("revokeKey", "scope", tc) EXCEPT !.key = k]
<1>1. ASSUME NEW a, NEW k \in KeyIds, NEW u \in Emails \cup {None}, NEW r \in Grantable(tc), a = Creates(k, u, r)
      PROVE  a \in Requests /\ ReqOK(a, DOMAIN users)
  <2>1. a = [op |-> "createKey", pc |-> "scope", tc |-> tc, user |-> u, team |-> None, to |-> None,
             role |-> r, key |-> k, subject |-> None, kind |-> "counted"]
    BY <1>1, AskIs
  <2>2. r \in Roles
    BY GrantableRoles
  <2> QED BY <2>1, <2>2 DEF Requests, Ops, Places, TeamOrNone, Kinds, ReqOK, FoundUser, NamesItsTeams,
                            MayGrant
<1>2. ASSUME NEW a, NEW k \in KeyIds, a = Revokes(k)
      PROVE  a \in Requests /\ ReqOK(a, DOMAIN users)
  <2>1. a = [op |-> "revokeKey", pc |-> "scope", tc |-> tc, user |-> None, team |-> None, to |-> None,
             role |-> "member", key |-> k, subject |-> None, kind |-> "counted"]
    BY <1>2, AskIs
  <2> QED BY <2>1 DEF Requests, Ops, Places, TeamOrNone, Kinds, Roles, ReqOK, FoundUser, NamesItsTeams,
                      MayGrant
<1>3. CreateKeyAsks(tc) = {Creates(k, u, r) : k \in KeyIds \ (DOMAIN keys \cup {Bootstrap}),
                                              u \in Emails \cup {None}, r \in Grantable(tc)}
  BY DEF CreateKeyAsks
<1>4. RevokeKeyAsks(tc) = {Revokes(k) : k \in KeyIds}
  BY DEF RevokeKeyAsks
<1> HIDE DEF Creates, Revokes
<1> QED BY <1>1, <1>2, <1>3, <1>4

LEMMA AdminAsksOK ==
  ASSUME TypeOK, NEW tc \in TeamContext, NEW a \in AdminAsks(tc)
  PROVE  a \in Requests /\ ReqOK(a, DOMAIN users)
<1> DEFINE Manages(op, u, t) == [Ask(op, "manage", tc) EXCEPT !.user = u, !.team = t]
<1>1. ASSUME NEW op \in {"addMember", "removeMember"}, NEW u \in DOMAIN users, NEW t \in TeamIds,
             a = Manages(op, u, t)
      PROVE  a \in Requests /\ ReqOK(a, DOMAIN users)
  <2>1. a = [op |-> op, pc |-> "manage", tc |-> tc, user |-> u, team |-> t, to |-> None,
             role |-> "member", key |-> None, subject |-> None, kind |-> "counted"]
    BY <1>1, AskIs
  <2>2. u \in Emails
    BY DEF TypeOK
  <2> QED BY <2>1, <2>2 DEF Requests, Ops, Places, TeamOrNone, Kinds, Roles, ReqOK, FoundUser,
                            NamesItsTeams, MayGrant
<1>2. CASE a = Ask("putSettings", "write", tc)
  <2>1. a = [op |-> "putSettings", pc |-> "write", tc |-> tc, user |-> None, team |-> None, to |-> None,
             role |-> "member", key |-> None, subject |-> None, kind |-> "counted"]
    BY <1>2, AskIs
  <2> QED BY <2>1 DEF Requests, Ops, Places, TeamOrNone, Kinds, Roles, ReqOK, FoundUser, NamesItsTeams,
                      MayGrant
<1>3. MemberAsks(tc) = {Manages(op, u, t) : op \in {"addMember", "removeMember"},
                                            u \in DOMAIN users, t \in TeamIds}
  BY DEF MemberAsks
<1> HIDE DEF Manages
<1>4. a \in MemberAsks(tc) => a \in Requests /\ ReqOK(a, DOMAIN users)
  BY <1>1, <1>3
<1> QED BY <1>2, <1>4, RoleAsksOK, KeyAsksOK DEF AdminAsks

LEMMA TeamAsksOK ==
  ASSUME TypeOK, NEW tc \in TeamContext, tc.role = "superadmin", NEW a \in TeamAsks(tc)
  PROVE  a \in Requests /\ ReqOK(a, DOMAIN users)
<1> DEFINE Names(op, pc, t) == [Ask(op, pc, tc) EXCEPT !.team = t]
           Migration(t, to) == [Ask("migrateTeam", "target", tc) EXCEPT !.team = t, !.to = to]
           Moves(u, t, r) == [Ask("moveUser", "team", tc) EXCEPT !.user = u, !.team = t, !.role = r]
<1>1. ASSUME NEW op \in {"createTeam", "updateTeam", "setEnabled", "deleteTeam"},
             NEW pc \in {"write", "count"}, NEW t \in TeamIds, a = Names(op, pc, t)
      PROVE  a \in Requests /\ ReqOK(a, DOMAIN users)
  <2>1. a = [op |-> op, pc |-> pc, tc |-> tc, user |-> None, team |-> t, to |-> None,
             role |-> "member", key |-> None, subject |-> None, kind |-> "counted"]
    BY <1>1, AskIs
  <2> QED BY <2>1 DEF Requests, Ops, Places, TeamOrNone, Kinds, Roles, ReqOK, FoundUser, NamesItsTeams,
                      MayGrant
<1>2. ASSUME NEW t \in TeamIds, NEW to \in TeamIds, t # to, a = Migration(t, to)
      PROVE  a \in Requests /\ ReqOK(a, DOMAIN users)
  <2>1. a = [op |-> "migrateTeam", pc |-> "target", tc |-> tc, user |-> None, team |-> t, to |-> to,
             role |-> "member", key |-> None, subject |-> None, kind |-> "counted"]
    BY <1>2, AskIs
  <2>2. a \in Requests
    BY <2>1 DEF Requests, Ops, Places, TeamOrNone, Kinds, Roles
  <2>3. a.op = "migrateTeam" /\ a.team = t /\ a.to = to
    BY <2>1
  <2>4. ReqOK(a, DOMAIN users)
    BY <1>2, <2>3 DEF ReqOK, FoundUser, NamesItsTeams, MayGrant
  <2> QED BY <2>2, <2>4
<1>3. ASSUME NEW u \in Emails, NEW t \in TeamIds, NEW r \in Roles, a = Moves(u, t, r)
      PROVE  a \in Requests /\ ReqOK(a, DOMAIN users)
  <2>1. a = [op |-> "moveUser", pc |-> "team", tc |-> tc, user |-> u, team |-> t, to |-> None,
             role |-> r, key |-> None, subject |-> None, kind |-> "counted"]
    BY <1>3, AskIs
  <2> QED BY <2>1 DEF Requests, Ops, Places, TeamOrNone, Kinds, Roles, ReqOK, FoundUser, NamesItsTeams,
                      MayGrant
<1>4. born \subseteq TeamIds /\ DOMAIN users \subseteq Emails /\ validAdminRole \subseteq Roles
  BY DEF TypeOK, validAdminRole, Roles
<1>5. /\ CreateTeamAsks(tc) = {Names("createTeam", "write", t) : t \in TeamIds \ born}
      /\ EditTeamAsks(tc) = {Names(op, "write", t) : op \in {"updateTeam", "setEnabled"}, t \in born}
      /\ DeleteTeamAsks(tc) = {Names("deleteTeam", "count", t) : t \in born}
  BY DEF CreateTeamAsks, EditTeamAsks, DeleteTeamAsks
<1>6. MigrateAsks(tc) = {Migration(p[1], p[2]) : p \in {q \in born \X born : q[1] # q[2]}}
  BY DEF MigrateAsks
<1>7. MoveAsks(tc) = {Moves(u, t, r) : u \in DOMAIN users, t \in born, r \in validAdminRole}
  BY DEF MoveAsks
<1> HIDE DEF Names, Migration, Moves
<1>8. a \in CreateTeamAsks(tc) \cup EditTeamAsks(tc) \cup DeleteTeamAsks(tc)
        => a \in Requests /\ ReqOK(a, DOMAIN users)
  BY <1>1, <1>4, <1>5
<1>9. a \in MigrateAsks(tc) => a \in Requests /\ ReqOK(a, DOMAIN users)
  BY <1>2, <1>4, <1>6
<1>10. a \in MoveAsks(tc) => a \in Requests /\ ReqOK(a, DOMAIN users)
  BY <1>3, <1>4, <1>7
<1> QED BY <1>8, <1>9, <1>10 DEF TeamAsks

LEMMA PublicAsksOK ==
  ASSUME TypeOK, NEW a \in PublicAsks
  PROVE  a \in Requests /\ ReqOK(a, DOMAIN users)
<1> DEFINE Login(u) == [Ask("login", "find", NoContext) EXCEPT !.user = u]
           Oidc(p, u) == [Ask("oidc", "find", NoContext) EXCEPT !.subject = p, !.user = u]
<1>0. NoContext \in TeamContext
  BY DEF NoContext, TeamContext, TeamOrNone, Roles
<1>1. ASSUME NEW u \in WithPassword, a = Login(u)
      PROVE  a \in Requests /\ ReqOK(a, DOMAIN users)
  <2>1. a = [op |-> "login", pc |-> "find", tc |-> NoContext, user |-> u, team |-> None, to |-> None,
             role |-> "member", key |-> None, subject |-> None, kind |-> "counted"]
    BY <1>1, AskIs
  <2> QED BY <1>0, <2>1 DEF Requests, Ops, Places, TeamOrNone, Kinds, Roles, ReqOK, FoundUser,
                            NamesItsTeams, MayGrant
<1>2. ASSUME NEW p \in People, NEW u \in UNION {EmailsOf[x] : x \in People}, a = Oidc(p, u)
      PROVE  a \in Requests /\ ReqOK(a, DOMAIN users)
  <2>1. a = [op |-> "oidc", pc |-> "find", tc |-> NoContext, user |-> u, team |-> None, to |-> None,
             role |-> "member", key |-> None, subject |-> p, kind |-> "counted"]
    BY <1>2, AskIs
  <2>2. u \in Emails
    BY PeopleAssumption
  <2> QED BY <1>0, <2>1, <2>2 DEF Requests, Ops, Places, TeamOrNone, Kinds, Roles, ReqOK, FoundUser,
                                  NamesItsTeams, MayGrant
<1>3. CASE a = Ask("logout", "delete", NoContext)
  <2>1. a = [op |-> "logout", pc |-> "delete", tc |-> NoContext, user |-> None, team |-> None, to |-> None,
             role |-> "member", key |-> None, subject |-> None, kind |-> "counted"]
    BY <1>3, AskIs
  <2> QED BY <1>0, <2>1 DEF Requests, Ops, Places, TeamOrNone, Kinds, Roles, ReqOK, FoundUser,
                            NamesItsTeams, MayGrant
<1>4. LoginAsks = {Login(u) : u \in WithPassword}
  BY DEF LoginAsks
<1>5. OidcAsks = {Oidc(p, u) : p \in People, u \in UNION {EmailsOf[x] : x \in People}}
  BY DEF OidcAsks
<1> HIDE DEF Login, Oidc
<1> QED BY <1>1, <1>2, <1>3, <1>4, <1>5 DEF PublicAsks

\* Only a superadmin's context reaches the superadmin's operations.
LEMMA SuperadminsOnly ==
  ASSUME NEW tc \in TeamContext, RequireRole(tc, "superadmin")
  PROVE  tc.role = "superadmin"
BY DEF RequireRole, adminRoleRank, TeamContext, Roles

LEMMA AsksOK ==
  ASSUME TypeOK,
         NEW a \in PublicAsks \cup UNION {Asks(tc) : tc \in UNION {ActiveTeam(x) : x \in Authenticated}}
  PROVE  a \in Requests /\ ReqOK(a, DOMAIN users)
<1>1. CASE \E x \in Authenticated : \E tc \in ActiveTeam(x) : a \in Asks(tc)
  <2>1. PICK x \in Authenticated : \E tc \in ActiveTeam(x) : a \in Asks(tc)
    BY <1>1
  <2>2. PICK tc \in ActiveTeam(x) : a \in Asks(tc)
    BY <2>1
  <2>3. tc \in TeamContext
    BY ContextsTyped
  <2> QED BY <2>2, <2>3, StoreAsksOK, AdminAsksOK, TeamAsksOK, SuperadminsOnly DEF Asks
<1> QED BY <1>1, PublicAsksOK

-----------------------------------------------------------------------------
(* How a step moves its request, whatever it does to the tables.            *)

LEMMA InitInv == Init => AccountsInv /\ Unassigned \in born
<1> SUFFICES ASSUME Init PROVE AccountsInv /\ Unassigned \in born
  OBVIOUS
<1>1. teams = [t \in {Unassigned} |-> [enabled |-> TRUE, open |-> FALSE]]
      /\ keys = [k \in {Bootstrap} |-> [team |-> None, user |-> None, role |-> "superadmin"]]
  BY DEF Init
<1>2. DOMAIN users = {}
  BY DEF Init
<1>3. TypeOK
  BY <1>1, <1>2, NamesAssumption DEF Init, TypeOK, KeyRows, TeamOrNone, Roles
<1>4. ReqsOK
  BY NoReqOK DEF Init, ReqsOK
<1> QED BY <1>3, <1>4 DEF Init, AccountsInv

LEMMA ReqOKGrows ==
  ASSUME NEW q, NEW known, NEW more, known \subseteq more, ReqOK(q, known)
  PROVE  ReqOK(q, more)
BY DEF ReqOK, FoundUser

\* The others' requests are as good as before while no user row goes away.
LEMMA OthersOK ==
  ASSUME ReqsOK, NEW c \in Callers, NEW q \in Requests, req' = [req EXCEPT ![c] = q],
         DOMAIN users \subseteq DOMAIN users', ReqOK(q, DOMAIN users')
  PROVE  ReqsOK'
<1>1. req' \in [Callers -> Requests]
  BY DEF ReqsOK
<1>2. ASSUME NEW d \in Callers PROVE ReqOK(req'[d], DOMAIN users')
  <2>1. CASE d = c
    BY <2>1 DEF ReqsOK
  <2>2. CASE d # c
    <3>1. req'[d] = req[d] /\ ReqOK(req[d], DOMAIN users)
      BY <2>2 DEF ReqsOK
    <3>2. ReqOK(req[d], DOMAIN users')
      BY <3>1, ReqOKGrows
    <3> QED BY <3>1, <3>2
  <2> QED BY <2>1, <2>2
<1> QED BY <1>1, <1>2 DEF ReqsOK

LEMMA ReturnOK ==
  ASSUME ReqsOK, NEW c \in Callers, Return(c), DOMAIN users \subseteq DOMAIN users'
  PROVE  ReqsOK'
BY OthersOK, NoReqOK DEF Return

\* A request at its next place; what it found it has kept.
LEMMA GotoOK ==
  ASSUME ReqsOK, NEW c \in Callers, NEW p \in Places, Goto(c, p), DOMAIN users \subseteq DOMAIN users',
         req[c].op = "oidc" /\ p \notin {"find", "look", "insert"} => req[c].user \in DOMAIN users',
         req[c].op = "login" => req[c].user \in DOMAIN users',
         req[c].op = "createKey" => req[c].user \in DOMAIN users' \cup {None}
  PROVE  ReqsOK'
<1> DEFINE q == [req[c] EXCEPT !.pc = p]
<1>1. req[c] \in Requests /\ ReqOK(req[c], DOMAIN users)
  BY DEF ReqsOK
<1>2. /\ q \in Requests /\ q.pc = p /\ q.op = req[c].op /\ q.user = req[c].user /\ q.team = req[c].team
      /\ q.to = req[c].to /\ q.role = req[c].role /\ q.tc = req[c].tc /\ q.key = req[c].key
  BY <1>1 DEF Requests
<1> HIDE DEF q
<1>3. ReqOK(q, DOMAIN users')
  BY <1>1, <1>2 DEF ReqOK, FoundUser, NamesItsTeams, MayGrant
<1>4. req' = [req EXCEPT ![c] = q]
  BY DEF Goto, q
<1> QED BY <1>2, <1>3, <1>4, OthersOK

LEMMA QuietKeepsTypes == TypeOK /\ UNCHANGED tables => TypeOK'
BY DEF TypeOK, tables

LEMMA EnterKeeps ==
  ASSUME AccountsInv, NEW c \in Callers, Enter(c)
  PROVE  AccountsInv'
<1>1. PICK a \in PublicAsks \cup UNION {Asks(tc) : tc \in UNION {ActiveTeam(x) : x \in Authenticated}} :
        req' = [req EXCEPT ![c] = a]
  BY DEF Enter
<1>2. a \in Requests /\ ReqOK(a, DOMAIN users)
  BY AsksOK DEF AccountsInv
<1>3. UNCHANGED <<tables, restarts>>
  BY DEF Enter
<1>4. DOMAIN users' = DOMAIN users
  BY <1>3 DEF tables
<1>5. ReqsOK'
  BY <1>1, <1>2, <1>4, OthersOK DEF AccountsInv
<1> QED BY <1>3, <1>5, QuietKeepsTypes DEF AccountsInv

\* A request between two statements reads, and changes no table.
LEMMA ReadKeeps ==
  ASSUME AccountsInv, NEW c \in Callers, NEW p \in Places, Goto(c, p) \/ Return(c), Quiet,
         req[c].op \notin {"oidc", "login", "createKey"}
  PROVE  AccountsInv'
<1>1. UNCHANGED <<tables, restarts>> /\ DOMAIN users' = DOMAIN users
  BY DEF Quiet, tables
<1>2. ReqsOK'
  BY <1>1, GotoOK, ReturnOK DEF AccountsInv
<1> QED BY <1>1, <1>2, QuietKeepsTypes DEF AccountsInv

\* The last statement of a request; the users there were are still there.
LEMMA WriteKeeps ==
  ASSUME AccountsInv, NEW c \in Callers, Return(c), DOMAIN users \subseteq DOMAIN users',
         restarts' = restarts, TypeOK'
  PROVE  AccountsInv'
BY ReturnOK DEF AccountsInv
-----------------------------------------------------------------------------
(* Teams. *)

LEMMA TeamStepKeeps ==
  ASSUME AccountsInv, NEW c \in Callers, TeamStep(c)
  PROVE  AccountsInv'
<1>0. TypeOK /\ req[c] \in Requests /\ NamesItsTeams(req[c])
  BY DEF AccountsInv, ReqsOK, ReqOK
<1>1. CASE CreateTeam(c)
  <2>1. req[c].team \in TeamIds
    BY <1>0, <1>1 DEF CreateTeam, At, NamesItsTeams
  <2>2. TypeOK'
    BY <1>0, <1>1, <2>1 DEF CreateTeam, TypeOK
  <2> QED BY <1>1, <2>2, WriteKeeps DEF CreateTeam
<1>2. ASSUME NEW op, NEW row \in [enabled : BOOLEAN, open : BOOLEAN],
             SetColumn(c, op, row)
      PROVE  AccountsInv'
  <2>1. TypeOK'
    BY <1>0, <1>2 DEF SetColumn, TypeOK
  <2> QED BY <1>2, <2>1, WriteKeeps DEF SetColumn
<1>3. CASE UpdateTeam(c) \/ SetTeamEnabled(c)
  <2>1. CASE req[c].team \in DOMAIN teams
    <3>1. teams[req[c].team] \in [enabled : BOOLEAN, open : BOOLEAN]
      BY <1>0, <2>1 DEF TypeOK
    <3>2. \A b \in BOOLEAN : /\ [teams[req[c].team] EXCEPT !.open = b] \in [enabled : BOOLEAN, open : BOOLEAN]
                             /\ [teams[req[c].team] EXCEPT !.enabled = b] \in [enabled : BOOLEAN, open : BOOLEAN]
      BY <3>1
    <3> QED BY <1>2, <1>3, <3>2 DEF UpdateTeam, SetTeamEnabled
  <2>2. CASE req[c].team \notin DOMAIN teams
    <3>1. UNCHANGED tables /\ Return(c) /\ UNCHANGED restarts
      BY <1>3, <2>2 DEF UpdateTeam, SetTeamEnabled, SetColumn, tables
    <3> QED BY <1>0, <3>1, QuietKeepsTypes, WriteKeeps DEF tables
  <2> QED BY <2>1, <2>2
<1>4. CASE CountRows(c) \/ MigrationTarget(c)
  BY <1>4, ReadKeeps DEF CountRows, MigrationTarget, At, Places
<1>5. CASE DeleteSettings(c)
  <2>1. TypeOK' /\ DOMAIN users' = DOMAIN users /\ restarts' = restarts
    BY <1>0, <1>5 DEF DeleteSettings, TypeOK
  <2>2. ReqsOK'
    BY <1>5, <2>1, GotoOK DEF DeleteSettings, At, Places, AccountsInv
  <2> QED BY <2>1, <2>2 DEF AccountsInv
<1>6. CASE DeleteTeam(c)
  <2>1. TypeOK'
    <3>1. CASE HasPrincipals(req[c].team) \/ req[c].team \in settings
      BY <1>0, <1>6, <3>1 DEF DeleteTeam, TypeOK
    <3>2. CASE ~(HasPrincipals(req[c].team) \/ req[c].team \in settings)
      <4>1. teams' = [t \in DOMAIN teams \ {req[c].team} |-> teams[t]]
            /\ UNCHANGED <<born, users, members, keys, settings, session, rows>>
        BY <1>6, <3>2 DEF DeleteTeam, Restrict
      <4> QED BY <1>0, <3>2, <4>1 DEF TypeOK, HasPrincipals
    <3> QED BY <3>1, <3>2
  <2> QED BY <1>6, <2>1, WriteKeeps DEF DeleteTeam
<1>7. CASE DeleteTeamMigrate(c)
  <2> DEFINE from == req[c].team
             to == req[c].to
  <2>1. from \in TeamIds /\ to \in TeamIds /\ from # to
    BY <1>0, <1>7 DEF DeleteTeamMigrate, At, NamesItsTeams
  <2>2. TypeOK' /\ DOMAIN users' = DOMAIN users
    <3>1. CASE from \in DOMAIN teams /\ (to \in DOMAIN teams \/ ~HasPrincipals(from))
      <4>1. /\ users' = [u \in DOMAIN users |-> [users[u] EXCEPT !.team = Moved(@, from, to)]]
            /\ keys' = [k \in DOMAIN keys |-> [keys[k] EXCEPT !.team = Moved(@, from, to)]]
            /\ rows' = {r \in rows : r[1] = "left"}
                       \cup {<<r[1], Moved(r[2], from, to)>> : r \in {x \in rows : x[1] # "left"}}
            /\ settings' = settings \ {from}
            /\ teams' = [t \in DOMAIN teams \ {from} |-> teams[t]]
            /\ UNCHANGED <<born, members, session>>
        BY <1>7, <3>1 DEF DeleteTeamMigrate, Migrates, Restrict
      <4>2. ASSUME NEW u \in DOMAIN users
            PROVE  users'[u] \in UserRows /\ users'[u].team \in DOMAIN teams' \cup {None}
        <5>1. users[u] \in UserRows /\ users[u].team \in DOMAIN teams \cup {None}
          BY <1>0 DEF TypeOK
        <5>2. users'[u] = [users[u] EXCEPT !.team = Moved(users[u].team, from, to)]
          BY <4>1
        <5>3. users[u].team = from => to \in DOMAIN teams
          BY <3>1 DEF HasPrincipals
        <5>4. Moved(users[u].team, from, to) \in (DOMAIN teams \ {from}) \cup {None}
              /\ Moved(users[u].team, from, to) \in TeamOrNone
          BY <2>1, <5>1, <5>3, NamesAssumption DEF Moved, UserRows, TeamOrNone
        <5> HIDE DEF from, to
        <5>5. users'[u] \in UserRows /\ users'[u].team = Moved(users[u].team, from, to)
          BY <5>1, <5>2, <5>4 DEF UserRows
        <5> QED BY <4>1, <5>4, <5>5
      <4>3. ASSUME NEW k \in DOMAIN keys
            PROVE  /\ keys'[k] \in KeyRows /\ keys'[k].team \in DOMAIN teams' \cup {None}
                   /\ keys'[k].user \in DOMAIN users \cup {None}
        <5>1. keys[k] \in KeyRows /\ keys[k].team \in DOMAIN teams \cup {None}
              /\ keys[k].user \in DOMAIN users \cup {None}
          BY <1>0 DEF TypeOK
        <5>2. keys'[k] = [keys[k] EXCEPT !.team = Moved(keys[k].team, from, to)]
          BY <4>1
        <5>3. keys[k].team = from => to \in DOMAIN teams
          BY <3>1 DEF HasPrincipals
        <5>4. Moved(keys[k].team, from, to) \in (DOMAIN teams \ {from}) \cup {None}
              /\ Moved(keys[k].team, from, to) \in TeamOrNone
          BY <2>1, <5>1, <5>3, NamesAssumption DEF Moved, KeyRows, TeamOrNone
        <5> HIDE DEF from, to
        <5>5. /\ keys'[k] \in KeyRows /\ keys'[k].team = Moved(keys[k].team, from, to)
              /\ keys'[k].user = keys[k].user
          BY <5>1, <5>2, <5>4 DEF KeyRows
        <5> QED BY <4>1, <5>1, <5>4, <5>5
      <4>4. rows' \subseteq Kinds \X TeamIds
        BY <1>0, <2>1, <4>1 DEF TypeOK, Moved
      <4>5. /\ DOMAIN teams' = DOMAIN teams \ {from} /\ \A t \in DOMAIN teams' : teams'[t] = teams[t]
            /\ DOMAIN users' = DOMAIN users /\ DOMAIN keys' = DOMAIN keys
        BY <4>1
      <4> HIDE DEF from, to
      <4>6. UNCHANGED <<born, members, session>> /\ settings' = settings \ {from}
        BY <4>1
      <4> QED BY <1>0, <4>2, <4>3, <4>4, <4>5, <4>6 DEF TypeOK
    <3>2. CASE ~(from \in DOMAIN teams /\ (to \in DOMAIN teams \/ ~HasPrincipals(from)))
      <4>1. UNCHANGED tables
        BY <1>7, <3>2 DEF DeleteTeamMigrate, tables
      <4> QED BY <1>0, <4>1, QuietKeepsTypes DEF tables
    <3> QED BY <3>1, <3>2
  <2> QED BY <1>7, <2>2, WriteKeeps DEF DeleteTeamMigrate
<1> QED BY <1>1, <1>3, <1>4, <1>5, <1>6, <1>7 DEF TeamStep
-----------------------------------------------------------------------------
(* Users, and signing in. *)

\* A step that changes the users table only, and drops no user.
LEMMA UsersTyped ==
  ASSUME TypeOK, UNCHANGED <<teams, born, members, keys, settings, session, rows>>,
         DOMAIN users \subseteq DOMAIN users', DOMAIN users' \subseteq Emails,
         \A u \in DOMAIN users' :
           users'[u] \in UserRows /\ users'[u].team \in DOMAIN teams \cup {None}
  PROVE  TypeOK'
BY DEF TypeOK

\* What the statements on a user's row do, row by row.
LEMMA SetRoleIs ==
  ASSUME TypeOK, NEW x, NEW r \in Roles, users' = [users EXCEPT ![x].role = r]
  PROVE  /\ DOMAIN users' = DOMAIN users
         /\ \A u \in DOMAIN users : /\ users'[u] \in UserRows /\ users'[u].team = users[u].team
                                    /\ users'[u] = users[u] \/ (u = x /\ users'[u].role = r)
<1>1. ASSUME NEW u \in DOMAIN users
      PROVE  users'[u] = IF u = x THEN [users[u] EXCEPT !.role = r] ELSE users[u]
  OBVIOUS
<1>2. \A u \in DOMAIN users : users[u] \in UserRows
  BY DEF TypeOK
<1> QED BY <1>1, <1>2, DOMAIN users' = DOMAIN users DEF UserRows

LEMMA UpsertIs ==
  ASSUME TypeOK, NEW x, NEW r \in Roles, NEW s \in People \cup {None},
         users' = [users EXCEPT ![x].role = r, ![x].subject = s]
  PROVE  /\ DOMAIN users' = DOMAIN users
         /\ \A u \in DOMAIN users : /\ users'[u] \in UserRows /\ users'[u].team = users[u].team
                                    /\ users'[u] = users[u] \/ (u = x /\ users'[u].role = r)
<1>1. ASSUME NEW u \in DOMAIN users
      PROVE  users'[u] = IF u = x THEN [users[u] EXCEPT !.role = r, !.subject = s] ELSE users[u]
  OBVIOUS
<1>2. \A u \in DOMAIN users : users[u] \in UserRows
  BY DEF TypeOK
<1> QED BY <1>1, <1>2, DOMAIN users' = DOMAIN users DEF UserRows

LEMMA ClaimIs ==
  ASSUME TypeOK, NEW x, users' = [users EXCEPT ![x].role = "superadmin", ![x].manual = TRUE]
  PROVE  /\ DOMAIN users' = DOMAIN users
         /\ \A u \in DOMAIN users : users'[u] \in UserRows /\ users'[u].team = users[u].team
<1>1. ASSUME NEW u \in DOMAIN users
      PROVE  users'[u] = IF u = x THEN [users[u] EXCEPT !.role = "superadmin", !.manual = TRUE] ELSE users[u]
  OBVIOUS
<1>2. \A u \in DOMAIN users : users[u] \in UserRows
  BY DEF TypeOK
<1> QED BY <1>1, <1>2, DOMAIN users' = DOMAIN users DEF UserRows, Roles

\* The users once x is put into team t with role r, and what is known of them.
PutInto(x, t, r) == [users EXCEPT ![x].team = t, ![x].role = r]
OnlyPuts(x, t) ==
  /\ DOMAIN users' = DOMAIN users
  /\ \A u \in DOMAIN users : /\ users'[u] \in UserRows
                             /\ users'[u] = users[u] \/ (u = x /\ users'[u].team = t)

LEMMA AutoAssignIs ==
  ASSUME TypeOK, NEW x, NEW r \in Roles, NEW t \in DOMAIN teams, users' = PutInto(x, t, r)
  PROVE  OnlyPuts(x, t)
<1>1. /\ DOMAIN users' = DOMAIN users
      /\ \A u \in DOMAIN users :
           users'[u] = IF u = x THEN [users[u] EXCEPT !.team = t, !.role = r] ELSE users[u]
  BY DEF PutInto
<1>2. \A u \in DOMAIN users : users[u] \in UserRows
  BY DEF TypeOK
<1>3. t \in TeamOrNone
  BY DEF TypeOK, TeamOrNone
<1> QED BY <1>1, <1>2, <1>3 DEF UserRows, OnlyPuts

LEMMA AssignedIs ==
  ASSUME TypeOK, NEW x, NEW r \in Roles, NEW t, users' = Assigned(x, t, r)
  PROVE  /\ DOMAIN users' = DOMAIN users
         /\ \A u \in DOMAIN users : /\ users'[u] \in UserRows
                                    /\ users'[u].team \in DOMAIN teams \cup {None}
                                    /\ users'[u] = users[u] \/ (u = x /\ users'[u].role = r)
<1>0. \A u \in DOMAIN users : users[u] \in UserRows /\ users[u].team \in DOMAIN teams \cup {None}
  BY DEF TypeOK
<1>1. CASE t \in DOMAIN teams /\ x \in DOMAIN users
  <2>1. users' = [users EXCEPT ![x].team = t, ![x].role = r, ![x].manual = TRUE]
    BY <1>1 DEF Assigned
  <2>2. ASSUME NEW u \in DOMAIN users
        PROVE  users'[u] = IF u = x THEN [users[u] EXCEPT !.team = t, !.role = r, !.manual = TRUE]
                           ELSE users[u]
    BY <2>1
  <2>3. DOMAIN users' = DOMAIN users
    BY <2>1
  <2>4. t \in TeamOrNone
    BY <1>1 DEF TypeOK, TeamOrNone
  <2> QED BY <1>0, <1>1, <2>2, <2>3, <2>4 DEF UserRows
<1>2. CASE ~(t \in DOMAIN teams /\ x \in DOMAIN users)
  BY <1>0, <1>2 DEF Assigned
<1> QED BY <1>1, <1>2

\* A statement on the users table by a request that has more to do, or none.
LEMMA UserWriteKeeps ==
  ASSUME AccountsInv, NEW c \in Callers, OnlyUsers,
         DOMAIN users \subseteq DOMAIN users', DOMAIN users' \subseteq Emails,
         \A u \in DOMAIN users' : users'[u] \in UserRows /\ users'[u].team \in DOMAIN teams \cup {None},
         ReqsOK'
  PROVE  AccountsInv'
BY UsersTyped DEF OnlyUsers, AccountsInv

LEMMA UpsertKeeps ==
  ASSUME AccountsInv, NEW c \in Callers, NEW op \in {"assignUser", "oidc"},
         NEW next \in {"resolve", "assign"},
         UpsertLook(c, op) \/ UpsertInsert(c, op, next) \/ UpsertUpdate(c, op, next)
  PROVE  AccountsInv'
<1>0. /\ TypeOK /\ ReqsOK /\ req[c] \in Requests /\ FoundUser(req[c], DOMAIN users)
      /\ req[c].op = op /\ req[c].user \in Emails
  BY DEF AccountsInv, ReqsOK, ReqOK, UpsertLook, UpsertInsert, UpsertUpdate, At, FoundUser
<1>1. CASE UpsertLook(c, op)
  <2>1. UNCHANGED <<tables, restarts>> /\ DOMAIN users' = DOMAIN users
    BY <1>1 DEF UpsertLook, Quiet, tables
  <2>2. ReqsOK'
    BY <1>0, <1>1, <2>1, GotoOK DEF UpsertLook, Places
  <2> QED BY <1>0, <2>1, <2>2, QuietKeepsTypes DEF AccountsInv
<1>2. CASE UpsertInsert(c, op, next)
  <2>1. CASE req[c].user \in DOMAIN users
    <3>1. UNCHANGED <<tables, restarts>> /\ Return(c) /\ DOMAIN users' = DOMAIN users
      BY <1>2, <2>1 DEF UpsertInsert, OnlyUsers, tables
    <3> QED BY <1>0, <3>1, QuietKeepsTypes, WriteKeeps
  <2>2. CASE req[c].user \notin DOMAIN users
    <3> DEFINE row == [team |-> None, role |-> req[c].role, manual |-> FALSE, subject |-> req[c].subject]
    <3>1. /\ users' = [x \in DOMAIN users \cup {req[c].user} |-> IF x = req[c].user THEN row ELSE users[x]]
          /\ Goto(c, next) /\ OnlyUsers
      BY <1>2, <2>2 DEF UpsertInsert, WithRow
    <3>2. row \in UserRows /\ row.team = None
      BY <1>0 DEF UserRows, TeamOrNone, Requests
    <3> HIDE DEF row
    <3>3. DOMAIN users' = DOMAIN users \cup {req[c].user}
      BY <3>1
    <3>4. \A x \in DOMAIN users' : users'[x] \in UserRows /\ users'[x].team \in DOMAIN teams \cup {None}
      BY <1>0, <3>1, <3>2, <3>3 DEF TypeOK
    <3>5. ReqsOK'
      BY <1>0, <3>1, <3>3, GotoOK DEF Places
    <3>6. DOMAIN users' \subseteq Emails
      BY <1>0, <3>3 DEF TypeOK
    <3> QED BY <3>1, <3>3, <3>4, <3>5, <3>6, UserWriteKeeps
  <2> QED BY <2>1, <2>2
<1>3. CASE UpsertUpdate(c, op, next)
  <2>1. req[c].role \in Roles /\ req[c].subject \in People \cup {None}
    BY <1>0 DEF Requests
  <2>2. /\ users' = [users EXCEPT ![req[c].user].role = req[c].role, ![req[c].user].subject = req[c].subject]
        /\ Goto(c, next) /\ OnlyUsers /\ req[c].pc = "update"
    BY <1>3 DEF UpsertUpdate, At
  <2>3. /\ DOMAIN users' = DOMAIN users
        /\ \A u \in DOMAIN users : users'[u] \in UserRows /\ users'[u].team = users[u].team
    BY <1>0, <2>1, <2>2, UpsertIs
  <2>4. op = "oidc" => req[c].user \in DOMAIN users
    BY <1>0, <2>2 DEF FoundUser
  <2>5. ReqsOK'
    BY <1>0, <2>2, <2>3, <2>4, GotoOK DEF Places
  <2> QED BY <1>0, <2>2, <2>3, <2>5, UserWriteKeeps DEF TypeOK
<1> QED BY <1>1, <1>2, <1>3

LEMMA UserStepKeeps ==
  ASSUME AccountsInv, NEW c \in Callers, UserStep(c)
  PROVE  AccountsInv'
<1>0. /\ TypeOK /\ ReqsOK /\ req[c] \in Requests /\ req[c].role \in Roles
  BY DEF AccountsInv, ReqsOK, Requests
<1>1. CASE FindAssignee(c) \/ CheckMoveTeam(c) \/ CheckRoleScope(c)
  BY <1>1, ReadKeeps DEF FindAssignee, CheckMoveTeam, CheckRoleScope, At, Places
<1>2. CASE AssignUser(c) \/ MoveUser(c)
  <2>1. PICK t : users' = Assigned(req[c].user, t, req[c].role) /\ Return(c) /\ OnlyUsers
    BY <1>2 DEF AssignUser, MoveUser
  <2>2. /\ DOMAIN users' = DOMAIN users
        /\ \A u \in DOMAIN users : users'[u] \in UserRows /\ users'[u].team \in DOMAIN teams \cup {None}
    BY <1>0, <2>1, AssignedIs
  <2>3. ReqsOK'
    BY <1>0, <2>1, <2>2, ReturnOK
  <2> QED BY <1>0, <2>1, <2>2, <2>3, UserWriteKeeps DEF TypeOK
<1>3. CASE SetUserRole(c)
  <2>1. users' = [users EXCEPT ![req[c].user].role = req[c].role] /\ Return(c) /\ OnlyUsers
    BY <1>3 DEF SetUserRole
  <2>2. /\ DOMAIN users' = DOMAIN users
        /\ \A u \in DOMAIN users : users'[u] \in UserRows /\ users'[u].team = users[u].team
    BY <1>0, <2>1, SetRoleIs
  <2>3. ReqsOK'
    BY <1>0, <2>1, <2>2, ReturnOK
  <2> QED BY <1>0, <2>1, <2>2, <2>3, UserWriteKeeps DEF TypeOK
<1> QED BY <1>1, <1>2, <1>3, UpsertKeeps DEF UserStep

LEMMA SignInStepKeeps ==
  ASSUME AccountsInv, NEW c \in Callers, SignInStep(c)
  PROVE  AccountsInv'
<1>0. /\ TypeOK /\ ReqsOK /\ req[c] \in Requests /\ req[c].role \in Roles
      /\ FoundUser(req[c], DOMAIN users) /\ ReqOK(req[c], DOMAIN users)
  BY DEF AccountsInv, ReqsOK, Requests, ReqOK
<1>1. CASE FindLocal(c) \/ SkipAutoAssign(c)
  <2>1. UNCHANGED <<tables, restarts>> /\ DOMAIN users' = DOMAIN users
    BY <1>1 DEF FindLocal, SkipAutoAssign, Quiet, tables
  <2>2. ReqsOK'
    <3>1. CASE FindLocal(c)
      BY <1>0, <3>1, <2>1, GotoOK, ReturnOK DEF FindLocal, At, Places
    <3>2. CASE SkipAutoAssign(c)
      <4>1. req[c].op = "oidc" /\ req[c].user \in DOMAIN users /\ Goto(c, "claim")
        BY <1>0, <3>2 DEF SkipAutoAssign, At, FoundUser
      <4> QED BY <1>0, <4>1, <2>1, GotoOK DEF Places
    <3> QED BY <1>1, <3>1, <3>2
  <2> QED BY <1>0, <2>1, <2>2, QuietKeepsTypes DEF AccountsInv
<1>2. CASE FindByEmailOrSubject(c)
  <2>1. UNCHANGED <<tables, restarts>> /\ DOMAIN users' = DOMAIN users
    BY <1>2 DEF FindByEmailOrSubject, Quiet, tables
  <2>2. PICK r \in Roles, t \in TeamOrNone :
          req' = [req EXCEPT ![c].role = r, ![c].team = t, ![c].pc = "look"]
    <3>1. Unassigned \in TeamOrNone /\ "member" \in Roles
      BY NamesAssumption DEF TeamOrNone, Roles
    <3>2. \A x \in DOMAIN users : users[x].role \in Roles /\ users[x].team \in TeamOrNone
      BY <1>0 DEF TypeOK, UserRows
    <3>3. \/ req' = [req EXCEPT ![c].role = "member", ![c].team = Unassigned, ![c].pc = "look"]
          \/ \E x \in DOMAIN users :
               req' = [req EXCEPT ![c].role = users[x].role, ![c].team = users[x].team, ![c].pc = "look"]
      BY <1>2 DEF FindByEmailOrSubject
    <3> QED BY <3>1, <3>2, <3>3
  <2> DEFINE q == [req[c] EXCEPT !.role = r, !.team = t, !.pc = "look"]
  <2>3. req[c].op = "oidc"
    BY <1>2 DEF FindByEmailOrSubject, At
  <2>4. q \in Requests /\ q.op = "oidc" /\ q.pc = "look" /\ q.user = req[c].user
    BY <1>0, <2>3 DEF Requests, Places
  <2>5. req' = [req EXCEPT ![c] = q]
    BY <1>0, <2>2 DEF ReqsOK
  <2> HIDE DEF q
  <2>6. ReqOK(q, DOMAIN users')
    BY <1>0, <2>3, <2>4 DEF ReqOK, FoundUser, NamesItsTeams, MayGrant
  <2>7. ReqsOK'
    BY <1>0, <2>1, <2>4, <2>5, <2>6, OthersOK
  <2> QED BY <1>0, <2>1, <2>7, QuietKeepsTypes DEF AccountsInv
<1>3. CASE ResolveTeam(c)
  <2>1. UNCHANGED <<tables, restarts>> /\ DOMAIN users' = DOMAIN users
    BY <1>3 DEF ResolveTeam, Quiet, tables
  <2>2. PICK t \in TeamOrNone : req' = [req EXCEPT ![c].team = t, ![c].pc = "auto"]
    BY <1>0, <1>3, NamesAssumption DEF ResolveTeam, TypeOK, TeamOrNone
  <2> DEFINE q == [req[c] EXCEPT !.team = t, !.pc = "auto"]
  <2>3. req[c].op = "oidc" /\ req[c].user \in DOMAIN users /\ req[c].user \in Emails
    BY <1>0, <1>3 DEF ResolveTeam, At, FoundUser
  <2>4. q \in Requests /\ q.op = "oidc" /\ q.pc = "auto" /\ q.user = req[c].user
    BY <1>0, <2>3 DEF Requests, Places
  <2>5. req' = [req EXCEPT ![c] = q]
    BY <1>0, <2>2 DEF ReqsOK
  <2> HIDE DEF q
  <2>6. ReqOK(q, DOMAIN users')
    BY <2>1, <2>3, <2>4 DEF ReqOK, FoundUser, NamesItsTeams, MayGrant
  <2>7. ReqsOK'
    BY <1>0, <2>1, <2>4, <2>5, <2>6, OthersOK
  <2> QED BY <1>0, <2>1, <2>7, QuietKeepsTypes DEF AccountsInv
<1>4. CASE AutoAssign(c)
  <2>1. req[c].op = "oidc" /\ req[c].user \in DOMAIN users /\ Goto(c, "claim") /\ OnlyUsers
    BY <1>0, <1>4 DEF AutoAssign, At, FoundUser
  <2>2. /\ DOMAIN users' = DOMAIN users
        /\ \A u \in DOMAIN users : users'[u] \in UserRows /\ users'[u].team \in DOMAIN teams \cup {None}
    <3>1. CASE users[req[c].user].manual \/ req[c].team \notin DOMAIN teams
      BY <1>0, <1>4, <3>1 DEF AutoAssign, TypeOK
    <3>2. CASE ~(users[req[c].user].manual \/ req[c].team \notin DOMAIN teams)
      <4>1. users' = PutInto(req[c].user, req[c].team, req[c].role)
        BY <1>4, <3>2 DEF AutoAssign, PutInto
      <4>2. PICK t \in DOMAIN teams, r \in Roles : t = req[c].team /\ r = req[c].role
        BY <1>0, <3>2
      <4>3. PICK x : x = req[c].user
        OBVIOUS
      <4>4. users' = PutInto(x, t, r) /\ TypeOK
        BY <1>0, <4>1, <4>2, <4>3
      <4>5. OnlyPuts(x, t)
        BY <4>4, AutoAssignIs
      <4>6. \A u \in DOMAIN users : users[u].team \in DOMAIN teams \cup {None}
        BY <1>0 DEF TypeOK
      <4> QED BY <4>5, <4>6 DEF OnlyPuts
    <3> QED BY <3>1, <3>2
  <2>3. ReqsOK'
    BY <1>0, <2>1, <2>2, GotoOK DEF Places
  <2> QED BY <1>0, <2>1, <2>2, <2>3, UserWriteKeeps DEF TypeOK
<1>5. CASE ClaimFirstSuperadmin(c)
  <2>1. req[c].op \in {"login", "oidc"} /\ req[c].user \in DOMAIN users /\ Goto(c, "session") /\ OnlyUsers
    BY <1>0, <1>5 DEF ClaimFirstSuperadmin, FoundUser
  <2>2. /\ DOMAIN users' = DOMAIN users
        /\ \A u \in DOMAIN users : users'[u] \in UserRows /\ users'[u].team \in DOMAIN teams \cup {None}
    <3>1. CASE NoOwner
      <4>1. users' = [users EXCEPT ![req[c].user].role = "superadmin", ![req[c].user].manual = TRUE]
        BY <1>5, <3>1 DEF ClaimFirstSuperadmin
      <4>2. /\ DOMAIN users' = DOMAIN users
            /\ \A u \in DOMAIN users : users'[u] \in UserRows /\ users'[u].team = users[u].team
        BY <1>0, <4>1, ClaimIs
      <4>3. \A u \in DOMAIN users : users[u].team \in DOMAIN teams \cup {None}
        BY <1>0 DEF TypeOK
      <4> QED BY <4>2, <4>3
    <3>2. CASE ~NoOwner
      BY <1>0, <1>5, <3>2 DEF ClaimFirstSuperadmin, TypeOK
    <3> QED BY <3>1, <3>2
  <2>3. ReqsOK'
    BY <1>0, <2>1, <2>2, GotoOK DEF Places
  <2> QED BY <1>0, <2>1, <2>2, <2>3, UserWriteKeeps DEF TypeOK
<1>6. CASE CreateSession(c)
  <2>1. req[c].user \in DOMAIN users
    BY <1>0, <1>6 DEF CreateSession, FoundUser
  <2>2. TypeOK'
    BY <1>0, <1>6, <2>1 DEF CreateSession, TypeOK
  <2> QED BY <1>6, <2>2, WriteKeeps DEF CreateSession
<1>7. CASE DeleteSession(c)
  <2>1. TypeOK'
    BY <1>0, <1>7 DEF DeleteSession, TypeOK
  <2> QED BY <1>7, <2>1, WriteKeeps DEF DeleteSession
<1> QED BY <1>1, <1>2, <1>3, <1>4, <1>5, <1>6, <1>7 DEF SignInStep
-----------------------------------------------------------------------------
(* Memberships, keys, settings, the rows of other components; the rest. *)

LEMMA GrantStepKeeps ==
  ASSUME AccountsInv, NEW c \in Callers, GrantStep(c)
  PROVE  AccountsInv'
<1>0. /\ TypeOK /\ ReqsOK /\ req[c] \in Requests /\ FoundUser(req[c], DOMAIN users)
      /\ NamesItsTeams(req[c]) /\ MayGrant(req[c])
      /\ req[c].tc \in TeamContext /\ req[c].kind \in Kinds /\ req[c].role \in Roles
  BY DEF AccountsInv, ReqsOK, Requests, ReqOK
<1>1. CASE \/ CheckManage(c, "addMember", "write") \/ CheckManage(c, "removeMember", "home")
           \/ CheckHome(c) \/ CheckKeyTeam(c)
  BY <1>1, ReadKeeps DEF CheckManage, CheckHome, CheckKeyTeam, At, Places
<1>2. CASE AddTeamMember(c) \/ RemoveTeamMember(c)
  <2>1. members' \subseteq Emails \X TeamIds
    BY <1>0, <1>2 DEF AddTeamMember, RemoveTeamMember, SetMembers, At, FoundUser, NamesItsTeams, TypeOK
  <2>2. TypeOK' /\ DOMAIN users' = DOMAIN users /\ restarts' = restarts /\ Return(c)
    BY <1>0, <1>2, <2>1 DEF AddTeamMember, RemoveTeamMember, SetMembers, TypeOK
  <2> QED BY <2>2, WriteKeeps
<1>3. CASE CheckKeyUser(c)
  <2>1. UNCHANGED <<tables, restarts>> /\ DOMAIN users' = DOMAIN users /\ req[c].op = "createKey"
    BY <1>3 DEF CheckKeyUser, Quiet, tables, At
  <2>2. ReqsOK'
    BY <1>0, <1>3, <2>1, GotoOK, ReturnOK DEF CheckKeyUser, ListUsers, Places
  <2> QED BY <1>0, <2>1, <2>2, QuietKeepsTypes DEF AccountsInv
<1>4. CASE CreateAPIKey(c)
  <2> DEFINE row == [team |-> req[c].tc.team, user |-> req[c].user, role |-> req[c].role]
  <2>1. /\ req[c].key \in KeyIds /\ req[c].user \in DOMAIN users \cup {None}
        /\ req[c].tc.team \in TeamOrNone
    BY <1>0, <1>4 DEF CreateAPIKey, At, FoundUser, MayGrant, TeamContext
  <2>2. row \in KeyRows /\ row.team = req[c].tc.team /\ row.user = req[c].user
    BY <1>0, <2>1 DEF KeyRows, TypeOK
  <2> HIDE DEF row
  <2>3. /\ keys' = IF row.team \in DOMAIN teams \cup {None} /\ req[c].key \notin DOMAIN keys
                   THEN WithRow(keys, req[c].key, row) ELSE keys
        /\ UNCHANGED <<teams, born, users, members, settings, session, rows>>
    BY <1>4 DEF CreateAPIKey, OnlyKeys, row
  <2>4. \A k \in DOMAIN keys' : /\ k \in KeyIds /\ keys'[k] \in KeyRows
                                /\ keys'[k].team \in DOMAIN teams \cup {None}
                                /\ keys'[k].user \in DOMAIN users \cup {None}
    BY <1>0, <2>1, <2>2, <2>3 DEF TypeOK, WithRow
  <2>5. TypeOK'
    BY <1>0, <2>3, <2>4 DEF TypeOK
  <2> QED BY <1>4, <2>3, <2>5, WriteKeeps DEF CreateAPIKey, OnlyKeys
<1>5. CASE RevokeAPIKey(c)
  <2>1. keys' = [k \in DOMAIN keys \ {req[c].key} |-> keys[k]]
        /\ UNCHANGED <<teams, born, users, members, settings, session, rows>>
    BY <1>5 DEF RevokeAPIKey, OnlyKeys, Restrict
  <2>2. TypeOK'
    BY <1>0, <2>1 DEF TypeOK
  <2> QED BY <1>5, <2>1, <2>2, WriteKeeps DEF RevokeAPIKey, OnlyKeys
<1>6. CASE PutTeamSettings(c)
  <2>1. TypeOK' /\ DOMAIN users' = DOMAIN users /\ restarts' = restarts /\ Return(c)
    BY <1>0, <1>6 DEF PutTeamSettings, TypeOK
  <2> QED BY <2>1, WriteKeeps
<1>7. CASE StoreRow(c)
  <2>1. rows' \subseteq Kinds \X TeamIds
    BY <1>0, <1>7 DEF StoreRow, TypeOK, TeamContext, TeamOrNone
  <2>2. TypeOK' /\ DOMAIN users' = DOMAIN users /\ restarts' = restarts /\ Return(c)
    BY <1>0, <1>7, <2>1 DEF StoreRow, TypeOK
  <2> QED BY <2>2, WriteKeeps
<1> QED BY <1>1, <1>2, <1>3, <1>4, <1>5, <1>6, <1>7 DEF GrantStep

LEMMA ExpireKeeps == AccountsInv /\ Expire => AccountsInv'
<1> SUFFICES ASSUME AccountsInv, Expire PROVE AccountsInv'
  OBVIOUS
<1>1. session \in [user : DOMAIN users, valid : BOOLEAN]
  BY DEF AccountsInv, TypeOK, Expire
<1>2. session' \in [user : DOMAIN users, valid : BOOLEAN]
  BY <1>1 DEF Expire
<1>3. TypeOK' /\ ReqsOK' /\ restarts' = restarts
  BY <1>2 DEF AccountsInv, TypeOK, ReqsOK, Expire
<1> QED BY <1>3 DEF AccountsInv

LEMMA RestartKeeps == AccountsInv /\ Unassigned \in born /\ Restart => AccountsInv'
<1> SUFFICES ASSUME AccountsInv, Unassigned \in born, Restart PROVE AccountsInv'
  OBVIOUS
<1>0. TypeOK /\ UNCHANGED <<born, users, settings, session, rows>>
  BY DEF AccountsInv, Restart
<1>1. ReqsOK'
  BY NoReqOK DEF Restart, ReqsOK
<1>2. /\ DOMAIN teams \subseteq DOMAIN teams' /\ DOMAIN teams' \subseteq born
      /\ \A t \in DOMAIN teams' : teams'[t] \in [enabled : BOOLEAN, open : BOOLEAN]
  BY <1>0 DEF Restart, WithRow, TypeOK
<1>3. \A k \in DOMAIN keys' : /\ k \in KeyIds /\ keys'[k] \in KeyRows
                              /\ keys'[k].team \in DOMAIN teams \cup {None}
                              /\ keys'[k].user \in DOMAIN users \cup {None}
  <2>1. [team |-> None, user |-> None, role |-> "superadmin"] \in KeyRows
    BY DEF KeyRows, TeamOrNone, Roles
  <2> QED BY <1>0, <2>1, NamesAssumption DEF Restart, WithRow, TypeOK
<1>4. members' \subseteq Emails \X TeamIds
  BY <1>0 DEF Restart, TypeOK, UserRows, TeamOrNone
<1>5. TypeOK'
  BY <1>0, <1>2, <1>3, <1>4 DEF TypeOK
<1>6. restarts' \in Nat
  BY DEF Restart, AccountsInv
<1> QED BY <1>1, <1>5, <1>6 DEF AccountsInv

\* An id that was given to a team is never taken back.
LEMMA BornStays == [Next]_vars => born \subseteq born'
<1> SUFFICES ASSUME [Next]_vars PROVE born \subseteq born'
  OBVIOUS
<1>1. ASSUME NEW c \in Callers, TeamStep(c) PROVE born \subseteq born'
  BY <1>1 DEF TeamStep, CreateTeam, UpdateTeam, SetTeamEnabled, SetColumn, CountRows, DeleteSettings,
              DeleteTeam, MigrationTarget, DeleteTeamMigrate, Quiet, tables
<1>2. ASSUME NEW c \in Callers, UserStep(c) PROVE born \subseteq born'
  BY <1>2 DEF UserStep, FindAssignee, AssignUser, CheckMoveTeam, MoveUser, CheckRoleScope, SetUserRole,
              UpsertLook, UpsertInsert, UpsertUpdate, OnlyUsers, Quiet, tables
<1>3. ASSUME NEW c \in Callers, GrantStep(c) PROVE born \subseteq born'
  BY <1>3 DEF GrantStep, CheckManage, AddTeamMember, CheckHome, RemoveTeamMember, SetMembers,
              CheckKeyUser, CreateAPIKey, CheckKeyTeam, RevokeAPIKey, OnlyKeys, PutTeamSettings, StoreRow,
              Quiet, tables
<1>4. ASSUME NEW c \in Callers, SignInStep(c) PROVE born \subseteq born'
  BY <1>4 DEF SignInStep, FindLocal, FindByEmailOrSubject, SkipAutoAssign, ResolveTeam, AutoAssign,
              ClaimFirstSuperadmin, CreateSession, DeleteSession, OnlyUsers, Quiet, tables
<1>5. ASSUME \/ UNCHANGED vars
             \/ Expire
             \/ Restart
             \/ \E c \in Callers : Enter(c)
      PROVE born \subseteq born'
  BY <1>5 DEF Expire, Restart, Enter, vars, tables
<1> QED BY <1>1, <1>2, <1>3, <1>4, <1>5 DEF Next

LEMMA NextKeepsInv ==
  AccountsInv /\ Unassigned \in born /\ [Next]_vars => AccountsInv' /\ (Unassigned \in born)'
<1> SUFFICES ASSUME AccountsInv, Unassigned \in born, [Next]_vars
             PROVE  AccountsInv' /\ Unassigned \in born'
  OBVIOUS
<1>1. CASE UNCHANGED vars
  <2>1. UNCHANGED <<tables, req, restarts>> /\ DOMAIN users' = DOMAIN users
    BY <1>1 DEF vars, tables
  <2>2. AccountsInv'
    BY <2>1, QuietKeepsTypes DEF AccountsInv, ReqsOK
  <2> QED BY <2>2, BornStays
<1> QED BY <1>1, BornStays, EnterKeeps, TeamStepKeeps, UserStepKeeps, GrantStepKeeps, SignInStepKeeps,
           ExpireKeeps, RestartKeeps DEF Next

\* The rows refer to rows there are, and every request may rely on what it read.
THEOREM AccountsInvariant == Spec => [](AccountsInv /\ Unassigned \in born)
BY InitInv, NextKeepsInv, PTL DEF Spec

\* No user, key or settings row ever names a team that does not exist, and no
\* key or session a user who does not, whatever deletions and migrations run
\* between the statements of a request (teams_sqlite.go:110-230).
THEOREM AccountsTyped == Spec => []TypeOK
<1>1. AccountsInv => TypeOK
  BY DEF AccountsInv
<1> QED BY AccountsInvariant, <1>1, PTL
-----------------------------------------------------------------------------
(* What a step of one caller does to the requests of the others, and which  *)
(* steps are a sign-in's or an administrative request's own.                *)

LEMMA OwnOnly ==
  ASSUME AccountsInv, NEW d \in Callers,
         Enter(d) \/ TeamStep(d) \/ UserStep(d) \/ GrantStep(d) \/ SignInStep(d),
         NEW c \in Callers, c # d
  PROVE  req'[c] = req[c]
<1>1. \/ \E q : req' = [req EXCEPT ![d] = q]
      \/ \E p : Goto(d, p)
      \/ Return(d)
      \/ FindByEmailOrSubject(d) \/ ResolveTeam(d)
  <2>1. ASSUME Enter(d) PROVE \E q : req' = [req EXCEPT ![d] = q]
    BY <2>1 DEF Enter
  <2>2. ASSUME TeamStep(d) PROVE Return(d) \/ \E p : Goto(d, p)
    BY <2>2 DEF TeamStep, CreateTeam, UpdateTeam, SetTeamEnabled, SetColumn, CountRows, DeleteSettings,
                DeleteTeam, MigrationTarget, DeleteTeamMigrate
  <2>3. ASSUME UserStep(d) PROVE Return(d) \/ \E p : Goto(d, p)
    BY <2>3 DEF UserStep, FindAssignee, AssignUser, CheckMoveTeam, MoveUser, CheckRoleScope, SetUserRole,
                UpsertLook, UpsertInsert, UpsertUpdate
  <2>4. ASSUME GrantStep(d) PROVE Return(d) \/ \E p : Goto(d, p)
    BY <2>4 DEF GrantStep, CheckManage, AddTeamMember, CheckHome, RemoveTeamMember, SetMembers,
                CheckKeyUser, CreateAPIKey, CheckKeyTeam, RevokeAPIKey, PutTeamSettings, StoreRow
  <2>5. ASSUME SignInStep(d)
        PROVE Return(d) \/ (\E p : Goto(d, p)) \/ FindByEmailOrSubject(d) \/ ResolveTeam(d)
    BY <2>5 DEF SignInStep, FindLocal, SkipAutoAssign, AutoAssign, ClaimFirstSuperadmin, CreateSession,
                DeleteSession
  <2> QED BY <2>1, <2>2, <2>3, <2>4, <2>5
<1>2. req \in [Callers -> Requests]
  BY DEF AccountsInv, ReqsOK
<1>3. ASSUME FindByEmailOrSubject(d) \/ ResolveTeam(d) PROVE req'[c] = req[c]
  BY <1>2, <1>3 DEF FindByEmailOrSubject, ResolveTeam
<1>4. ASSUME \/ \E q : req' = [req EXCEPT ![d] = q]
             \/ \E p : Goto(d, p)
             \/ Return(d)
      PROVE req'[c] = req[c]
  BY <1>2, <1>4 DEF Goto, Return
<1> QED BY <1>1, <1>3, <1>4

\* Whose step it was, when a request moved.
LEMMA WhoseStep ==
  ASSUME AccountsInv, [Next]_vars, NEW c \in Callers, req'[c] # req[c], ~Restart
  PROVE  Enter(c) \/ TeamStep(c) \/ UserStep(c) \/ GrantStep(c) \/ SignInStep(c)
<1>1. req' # req
  OBVIOUS
<1>2. ~Expire /\ ~UNCHANGED vars
  BY <1>1 DEF Expire, vars
<1> QED BY <1>2, OwnOnly DEF Next

LEMMA SigningInSteps ==
  ASSUME NEW c \in Callers, req[c].op \in {"login", "oidc"},
         Enter(c) \/ TeamStep(c) \/ UserStep(c) \/ GrantStep(c) \/ SignInStep(c)
  PROVE  \/ UpsertLook(c, "oidc") \/ UpsertInsert(c, "oidc", "resolve") \/ UpsertUpdate(c, "oidc", "resolve")
         \/ SignInStep(c)
<1>1. ~Enter(c)
  BY DEF Enter, NoReq
<1>2. ~TeamStep(c)
  BY DEF TeamStep, CreateTeam, UpdateTeam, SetTeamEnabled, SetColumn, CountRows, DeleteSettings,
         DeleteTeam, MigrationTarget, DeleteTeamMigrate, At
<1>3. ~GrantStep(c)
  BY DEF GrantStep, CheckManage, AddTeamMember, CheckHome, RemoveTeamMember, CheckKeyUser, CreateAPIKey,
         CheckKeyTeam, RevokeAPIKey, PutTeamSettings, StoreRow, At
<1>4. UserStep(c) => \/ UpsertLook(c, "oidc") \/ UpsertInsert(c, "oidc", "resolve")
                     \/ UpsertUpdate(c, "oidc", "resolve")
  BY DEF UserStep, FindAssignee, AssignUser, CheckMoveTeam, MoveUser, CheckRoleScope, SetUserRole,
         UpsertLook, UpsertInsert, UpsertUpdate, At
<1> QED BY <1>1, <1>2, <1>3, <1>4

\* No statement of a sign-in moves a user whose row says it was assigned.
LEMMA SignInLeavesAssigned ==
  ASSUME AccountsInv, NEW c \in Callers,
         \/ UpsertLook(c, "oidc") \/ UpsertInsert(c, "oidc", "resolve") \/ UpsertUpdate(c, "oidc", "resolve")
         \/ SignInStep(c),
         NEW u \in DOMAIN users, users[u].manual
  PROVE  users'[u].team = users[u].team
<1>0. TypeOK /\ req[c].role \in Roles /\ req[c].subject \in People \cup {None}
  BY DEF AccountsInv, ReqsOK, Requests
<1>1. CASE UpsertLook(c, "oidc")
  BY <1>1 DEF UpsertLook, Quiet, tables
<1>2. CASE UpsertInsert(c, "oidc", "resolve")
  BY <1>2 DEF UpsertInsert, WithRow
<1>3. CASE UpsertUpdate(c, "oidc", "resolve")
  <2>1. users' = [users EXCEPT ![req[c].user].role = req[c].role, ![req[c].user].subject = req[c].subject]
    BY <1>3 DEF UpsertUpdate
  <2> QED BY <1>0, <2>1, UpsertIs
<1>4. CASE AutoAssign(c)
  <2>1. CASE u = req[c].user
    <3>1. users' = users
      BY <1>4, <2>1 DEF AutoAssign
    <3> QED BY <3>1
  <2>2. CASE u # req[c].user
    BY <1>4, <2>2 DEF AutoAssign
  <2> QED BY <2>1, <2>2
<1>5. CASE ClaimFirstSuperadmin(c)
  <2>1. \/ users' = users
        \/ users' = [users EXCEPT ![req[c].user].role = "superadmin", ![req[c].user].manual = TRUE]
    BY <1>5 DEF ClaimFirstSuperadmin
  <2> QED BY <1>0, <2>1, ClaimIs
<1>6. CASE \/ FindLocal(c) \/ FindByEmailOrSubject(c) \/ SkipAutoAssign(c) \/ ResolveTeam(c)
           \/ CreateSession(c) \/ DeleteSession(c)
  <2>1. users' = users
    BY <1>6 DEF FindLocal, FindByEmailOrSubject, SkipAutoAssign, ResolveTeam, CreateSession, DeleteSession,
                Quiet, tables
  <2> QED BY <2>1
<1> QED BY <1>1, <1>2, <1>3, <1>4, <1>5, <1>6 DEF SignInStep

\* A user an administrator assigned stays in the team: no sign-in moves the
\* user, however old the row is that it read (auth_handlers.go:207-209, the
\* guard of AutoAssignUserToTeam).
THEOREM AccountsManualStands == Spec => ManualStands
<1>1. AccountsInv /\ [Next]_vars
        => [\A c \in Callers, u \in DOMAIN users :
              SigningIn(c) /\ users[u].manual => users'[u].team = users[u].team]_vars
  <2> SUFFICES ASSUME AccountsInv, [Next]_vars, NEW c \in Callers, NEW u \in DOMAIN users,
                      SigningIn(c), users[u].manual
               PROVE  users'[u].team = users[u].team
    OBVIOUS
  <2>1. ~Restart
    BY DEF SigningIn, Restart, AccountsInv
  <2> QED BY <2>1, WhoseStep, SigningInSteps, SignInLeavesAssigned DEF SigningIn
<1> QED BY AccountsInvariant, <1>1, PTL DEF ManualStands, Spec
-----------------------------------------------------------------------------
(* Roles handed out. *)

Below(c, r) == adminRoleRank[r] < adminRoleRank[req[c].tc.role] \/ req[c].tc.role = "superadmin"

LEMMA AsksBelow ==
  ASSUME AccountsInv, NEW c \in Callers,
         req[c].op \in {"assignUser", "setRole", "moveUser", "createKey"}
  PROVE  Below(c, req[c].role)
<1>1. MayGrant(req[c])
  BY DEF AccountsInv, ReqsOK, ReqOK
<1>2. \A r \in Grantable(req[c].tc) : adminRoleRank[r] < adminRoleRank[req[c].tc.role]
  BY Zenon DEF Grantable
<1> QED BY <1>1, <1>2 DEF MayGrant, Below

LEMMA GrantSteps ==
  ASSUME NEW c \in Callers, req[c].op \in {"assignUser", "setRole", "moveUser", "createKey"},
         Enter(c) \/ TeamStep(c) \/ UserStep(c) \/ GrantStep(c) \/ SignInStep(c)
  PROVE  \/ UserStep(c)
         \/ CheckKeyUser(c)
         \/ CreateAPIKey(c)
<1>1. ~Enter(c)
  BY DEF Enter, NoReq
<1>2. ~TeamStep(c)
  BY DEF TeamStep, CreateTeam, UpdateTeam, SetTeamEnabled, SetColumn, CountRows, DeleteSettings,
         DeleteTeam, MigrationTarget, DeleteTeamMigrate, At
<1>3. ~SignInStep(c)
  BY DEF SignInStep, FindLocal, FindByEmailOrSubject, SkipAutoAssign, ResolveTeam, AutoAssign,
         ClaimFirstSuperadmin, CreateSession, DeleteSession, At
<1>4. GrantStep(c) => CheckKeyUser(c) \/ CreateAPIKey(c)
  BY DEF GrantStep, CheckManage, AddTeamMember, CheckHome, RemoveTeamMember, CheckKeyUser, CreateAPIKey,
         CheckKeyTeam, RevokeAPIKey, PutTeamSettings, StoreRow, At
<1> QED BY <1>1, <1>2, <1>3, <1>4

\* A role that is new in a user's row is the one the request asked for.
LEMMA UserRaised ==
  ASSUME AccountsInv, NEW c \in Callers, UserStep(c), NEW u, NEW r, Raised(users, users', u, r)
  PROVE  r = req[c].role
<1>0. TypeOK /\ req[c].role \in Roles /\ req[c].subject \in People \cup {None}
  BY DEF AccountsInv, ReqsOK, Requests
<1>1. \/ users' = users
      \/ \E t : users' = Assigned(req[c].user, t, req[c].role)
      \/ users' = [users EXCEPT ![req[c].user].role = req[c].role]
      \/ users' = [users EXCEPT ![req[c].user].role = req[c].role, ![req[c].user].subject = req[c].subject]
      \/ \E row : row.role = req[c].role /\ users' = WithRow(users, req[c].user, row)
  <2>1. CASE FindAssignee(c) \/ CheckMoveTeam(c) \/ CheckRoleScope(c) \/ \E op : UpsertLook(c, op)
    BY <2>1 DEF FindAssignee, CheckMoveTeam, CheckRoleScope, UpsertLook, Quiet, tables
  <2>2. CASE AssignUser(c) \/ MoveUser(c)
    BY <2>2 DEF AssignUser, MoveUser
  <2>3. CASE SetUserRole(c) \/ \E op, next : UpsertUpdate(c, op, next)
    BY <2>3 DEF SetUserRole, UpsertUpdate
  <2>4. CASE \E op, next : UpsertInsert(c, op, next)
    BY <2>4 DEF UpsertInsert
  <2> QED BY <2>1, <2>2, <2>3, <2>4 DEF UserStep
<1>2. CASE \E row : row.role = req[c].role /\ users' = WithRow(users, req[c].user, row)
  BY <1>2 DEF WithRow, Raised
<1>3. DOMAIN users' = DOMAIN users /\ (users'[u] = users[u] \/ users'[u].role = req[c].role) => r = req[c].role
  BY DEF Raised
<1>4. u \in DOMAIN users'
  BY DEF Raised
<1> QED BY <1>0, <1>1, <1>2, <1>3, <1>4, AssignedIs, SetRoleIs, UpsertIs

LEMMA KeyRaised ==
  ASSUME NEW c \in Callers, CreateAPIKey(c), NEW k, NEW r, Raised(keys, keys', k, r)
  PROVE  r = req[c].role
<1> DEFINE row == [team |-> req[c].tc.team, user |-> req[c].user, role |-> req[c].role]
<1>1. row.role = req[c].role
  OBVIOUS
<1>2. keys' = keys \/ keys' = WithRow(keys, req[c].key, row)
  BY DEF CreateAPIKey
<1> HIDE DEF row
<1> QED BY <1>1, <1>2 DEF WithRow, Raised

\* Nobody hands out a role at or above their own, by any administrative request;
\* only a superadmin makes a superadmin (admin_handlers.go:512).
THEOREM AccountsGrantsBelow == Spec => GrantsBelowOwn
<1>1. AccountsInv /\ [Next]_vars
        => [\A c \in Callers, r \in Roles :
              /\ req[c].op \in {"assignUser", "setRole", "moveUser", "createKey"} /\ req'[c] # req[c]
              /\ \/ \E u \in Emails : Raised(users, users', u, r)
                 \/ \E k \in KeyIds : restarts' = restarts /\ Raised(keys, keys', k, r)
              => \/ adminRoleRank[r] < adminRoleRank[req[c].tc.role]
                 \/ req[c].tc.role = "superadmin"]_vars
  <2> SUFFICES ASSUME AccountsInv, [Next]_vars, NEW c \in Callers, NEW r \in Roles,
                      req[c].op \in {"assignUser", "setRole", "moveUser", "createKey"}, req'[c] # req[c],
                      \/ \E u \in Emails : Raised(users, users', u, r)
                      \/ \E k \in KeyIds : restarts' = restarts /\ Raised(keys, keys', k, r)
               PROVE  Below(c, r)
    BY DEF Below
  <2>1. ~Restart
    BY DEF Restart, AccountsInv, Raised
  <2>2. UserStep(c) \/ CheckKeyUser(c) \/ CreateAPIKey(c)
    BY <2>1, WhoseStep, GrantSteps
  <2>3. CASE \E u \in Emails : Raised(users, users', u, r)
    <3>1. users' # users
      BY <2>3 DEF Raised
    <3>2. UserStep(c)
      BY <2>2, <3>1 DEF CheckKeyUser, CreateAPIKey, OnlyKeys, Quiet, tables
    <3> QED BY <2>3, <3>2, UserRaised, AsksBelow
  <2>4. CASE \E k \in KeyIds : Raised(keys, keys', k, r)
    <3>1. keys' # keys
      BY <2>4 DEF Raised
    <3>2. CreateAPIKey(c)
      BY <2>2, <3>1 DEF CheckKeyUser, Quiet, tables, UserStep, FindAssignee, AssignUser, CheckMoveTeam,
                        MoveUser, CheckRoleScope, SetUserRole, UpsertLook, UpsertInsert, UpsertUpdate, OnlyUsers
    <3> QED BY <2>4, <3>2, KeyRaised, AsksBelow
  <2> QED BY <2>3, <2>4
<1> QED BY AccountsInvariant, <1>1, PTL DEF GrantsBelowOwn, Spec

-----------------------------------------------------------------------------
(***************************************************************************)
(* AgentRegistry.  A writer that has read an agent holds a row's worth of  *)
(* columns; a writer that has upserted holds a version that was in force.  *)
(* What the pipeline read for a team belonged to that team or to none.     *)
(* Since then it can only have lost its team, have been deleted, or have   *)
(* followed the pipeline's own team when that was merged into another.     *)
(***************************************************************************)
TablesTyped ==
  /\ teamRows \subseteq Teams /\ home \in [Teams -> Teams]
  /\ \A t \in teamRows : home[t] = t
  /\ agents \in [Ids -> Row \cup {NoAgent}]
  /\ versions \subseteq Version /\ lived \subseteq Version
  /\ gens \in 0..MaxGen /\ stops \in 0..MaxStops

\* What generateAgent holds after its read, given the agents.
Reading(p) ==
  /\ p.team \in Teams \cup {NoTeam} /\ p.domain \in Domains
  /\ p.content \in Contents /\ p.version \in Nat \ {0} /\ p.status \in Status
  /\ p.id # NoAgent =>
       /\ p.id \in Ids
       /\ p.team # NoTeam /\ p.id \in Live => agents[p.id].team \in Reach(p.team)

\* What a refactor request holds after its read.
Revising(q) == q.id \in Ids /\ q.row \in Row /\ q.row.team = NoTeam

\* What either holds after its upsert.
WasInForce(i, v, k) == [agent |-> i, version |-> v, content |-> k] \in lived
InForce(p) == WasInForce(p.id, p.version, p.content)
EditInForce(q) == WasInForce(q.id, q.row.version, q.row.content)

PipeInv ==
  /\ pipe.at \in {"idle", "read", "record"}
  /\ pipe.at = "read" => Reading(pipe)
  /\ pipe.at = "record" => InForce(pipe)

EditInv(e) ==
  /\ edit[e].at \in {"idle", "read", "record"}
  /\ edit[e].at = "read" => Revising(edit[e])
  /\ edit[e].at = "record" => EditInForce(edit[e])

WritersInv ==
  /\ PipeInv
  /\ edit = [e \in Editors |-> edit[e]]
  /\ \A e \in Editors : EditInv(e)

RegistryInv == TablesTyped /\ WritersInv /\ HistorySound

\* Version v of agent i has a row, will be tried, or could not be written.
Accounted(i, v) ==
  Recording(i, v) \/ Recorded(i, v) \/ [agent |-> i, version |-> v] \in missed

LEMMA InitRegistryInv == RegistryInit => RegistryInv
<1> SUFFICES ASSUME RegistryInit PROVE RegistryInv
  OBVIOUS
<1>1. TablesTyped
  BY BoundsAssumption DEF RegistryInit, TablesTyped
<1>2. WritersInv
  BY DEF RegistryInit, WritersInv, PipeInv, EditInv, Idle
<1>3. HistorySound
  BY DEF RegistryInit, HistorySound, Live
<1> QED BY <1>1, <1>2, <1>3 DEF RegistryInv

LEMMA LiveRow ==
  ASSUME TablesTyped, NEW i \in Live
  PROVE  i \in Ids /\ agents[i] \in Row
BY DEF TablesTyped, Live

\* What Lookup returns: live agents of the domain, of the team or of none.
LEMMA LookupFinds ==
  ASSUME NEW d, NEW t, NEW i \in Lookup(d, t)
  PROVE  i \in Live /\ agents[i].domain = d /\ (t # NoTeam => agents[i].team \in {t, NoTeam})
BY DEF Lookup

\* The effect of an upsert of a row under an ID.
LEMMA UpsertTables ==
  ASSUME TablesTyped, NEW i \in Ids, NEW r \in Row, Upsert(i, r), UNCHANGED <<versions, gens, admin>>
  PROVE  /\ TablesTyped' /\ lived \subseteq lived'
         /\ i \in Live' /\ agents'[i].version = r.version /\ agents'[i].team = r.team
         /\ \A j \in Ids \ {i} : agents'[j] = agents[j]
         /\ [agent |-> i, version |-> r.version, content |-> r.content] \in lived'
<1> DEFINE new == IF i \in Live THEN [r EXCEPT !.domain = agents[i].domain] ELSE r
<1>1. new \in Row /\ new.version = r.version /\ new.content = r.content /\ new.team = r.team
  BY LiveRow DEF Row
<1>2. agents' = [agents EXCEPT ![i] = new]
      /\ lived' = lived \cup {[agent |-> i, version |-> new.version, content |-> new.content]}
  BY DEF Upsert
<1> HIDE DEF new
<1>3. [agent |-> i, version |-> r.version, content |-> r.content] \in Version
  BY <1>1 DEF Row, Version
<1>4. agents' \in [Ids -> Row \cup {NoAgent}] /\ agents'[i] = new
      /\ \A j \in Ids \ {i} : agents'[j] = agents[j]
  BY <1>1, <1>2 DEF TablesTyped
<1>5. TablesTyped'
  BY <1>1, <1>2, <1>3, <1>4 DEF TablesTyped, admin
<1>6. new # NoAgent
  BY <1>1, NoAgentAssumption
<1> QED BY <1>1, <1>2, <1>4, <1>5, <1>6 DEF Live

\* After an upsert the current version of its agent is still to be recorded, and
\* nothing has changed for the others.
LEMMA UpsertHistory ==
  ASSUME RegistryInv, NEW i \in Ids, lived \subseteq lived', UNCHANGED <<versions, missed>>,
         Recording(i, agents[i].version)',
         \A j \in Ids \ {i} : agents'[j] = agents[j],
         \A j, v : Recording(j, v) => Recording(j, v)'
  PROVE  HistorySound'
<1>1. ASSUME NEW j \in Ids \ {i}, j \in Live' PROVE Accounted(j, agents[j].version)'
  <2>1. agents'[j] = agents[j] /\ j \in Live
    BY <1>1 DEF Live
  <2>2. Accounted(j, agents[j].version)
    BY <2>1 DEF RegistryInv, HistorySound, Accounted
  <2> QED BY <2>1, <2>2 DEF Accounted, Recorded
<1> QED BY <1>1 DEF RegistryInv, HistorySound, Accounted, Live

\* Recording the version of a writer that is done with its upsert: the writer's
\* version is accounted for, and whatever was recorded or missed still is.
LEMMA StoreVersionTables ==
  ASSUME TablesTyped, NEW i, NEW v, NEW k, StoreAgentVersion(i, v, k),
         WasInForce(i, v, k), versions \subseteq lived,
         UNCHANGED <<agents, lived, gens, admin>>
  PROVE  /\ TablesTyped' /\ versions' \subseteq lived'
         /\ (\E x \in versions' : x.agent = i /\ x.version = v) \/ [agent |-> i, version |-> v] \in missed'
         /\ versions \subseteq versions' /\ missed \subseteq missed'
<1>1. versions \subseteq versions' /\ versions' \subseteq lived /\ missed \subseteq missed'
  BY DEF StoreAgentVersion, WasInForce
<1>2. TablesTyped'
  BY <1>1 DEF TablesTyped, admin
<1>3. ASSUME versions' = IF \E x \in versions : x.agent = i /\ x.version = v THEN versions
                          ELSE versions \cup {[agent |-> i, version |-> v, content |-> k]}
      PROVE  \E x \in versions' : x.agent = i /\ x.version = v
  <2>1. CASE \E x \in versions : x.agent = i /\ x.version = v
    BY <1>3, <2>1
  <2>2. CASE ~\E x \in versions : x.agent = i /\ x.version = v
    <3>1. [agent |-> i, version |-> v, content |-> k] \in versions'
      BY <1>3, <2>2
    <3> QED BY <3>1
  <2> QED BY <2>1, <2>2
<1>4. CASE i \in Live /\ UNCHANGED missed
           /\ versions' = IF \E x \in versions : x.agent = i /\ x.version = v THEN versions
                          ELSE versions \cup {[agent |-> i, version |-> v, content |-> k]}
  BY <1>1, <1>2, <1>3, <1>4
<1>5. CASE missed' = missed \cup {[agent |-> i, version |-> v]}
  BY <1>1, <1>2, <1>5
<1> QED BY <1>4, <1>5 DEF StoreAgentVersion

\* What an editor holds stays true while history grows.
LEMMA EditsAge ==
  ASSUME WritersInv, lived \subseteq lived', NEW e \in Editors, edit'[e] = edit[e]
  PROVE  EditInv(e)'
BY DEF WritersInv, EditInv, Revising, EditInForce, WasInForce

\* So does what the pipeline holds, as long as its agent goes to no other team.
LEMMA PipeAges ==
  ASSUME WritersInv, lived \subseteq lived', UNCHANGED <<pipe, teamRows, home>>,
         \A i \in Live' : agents'[i].team = NoTeam \/ (i \in Live /\ agents'[i].team = agents[i].team)
  PROVE  PipeInv'
<1>1. pipe.at = "read" => Reading(pipe)'
  BY DEF WritersInv, PipeInv, Reading, Reach
<1> QED BY <1>1 DEF WritersInv, PipeInv, InForce, WasInForce

-----------------------------------------------------------------------------
(* The steps that read: agents, versions and history stay as they are. *)

LEMMA GenerateReadStep ==
  ASSUME RegistryInv, NEW t \in Scopes, NEW d \in Domains, GenerateRead(t, d)
  PROVE  RegistryInv'
<1>1. UNCHANGED <<agents, versions, lived, missed, edit, teamRows, home, stops>>
      /\ gens' = gens + 1 /\ gens < MaxGen /\ pipe = Idle
  BY DEF GenerateRead, agentTables, admin
<1>2. TablesTyped'
  BY <1>1, BoundsAssumption DEF RegistryInv, TablesTyped
<1>3. gens + 1 \in Contents /\ t \in Teams \cup {NoTeam}
  BY <1>1, BoundsAssumption, ScopesAssumption DEF RegistryInv, TablesTyped, Contents
<1>4. pipe'.at = "read" /\ Reading(pipe)'
  <2>1. CASE Lookup(d, t) = {}
    <3>1. pipe' = [at |-> "read", team |-> t, domain |-> d, content |-> gens + 1,
                   id |-> NoAgent, version |-> 1, status |-> "draft"]
      BY <2>1 DEF GenerateRead
    <3> QED BY <1>3, <3>1 DEF Reading, Status
  <2>2. CASE Lookup(d, t) # {}
    <3>1. PICK i \in Lookup(d, t) :
            pipe' = [at |-> "read", team |-> t, domain |-> d, content |-> gens + 1,
                     id |-> i, version |-> agents[i].version + 1, status |-> agents[i].status]
      BY <2>2 DEF GenerateRead
    <3>2. i \in Ids /\ agents[i] \in Row /\ (t # NoTeam => agents[i].team \in Reach(t))
      BY LookupFinds, LiveRow DEF RegistryInv, Reach
    <3>3. agents[i].version + 1 \in Nat \ {0} /\ agents[i].status \in Status
      BY <3>2 DEF Row
    <3> QED BY <1>1, <1>3, <3>1, <3>2, <3>3 DEF Reading, Live, Reach
  <2> QED BY <2>1, <2>2
<1>5. WritersInv'
  BY <1>1, <1>4, EditsAge DEF RegistryInv, WritersInv, PipeInv
<1>6. HistorySound'
  BY <1>1, <1>4 DEF RegistryInv, HistorySound, Recording, Recorded, Idle, Live
<1> QED BY <1>2, <1>5, <1>6 DEF RegistryInv

LEMMA RefactorReadStep ==
  ASSUME RegistryInv, NEW e \in Editors, NEW i \in Ids, RefactorRead(e, i)
  PROVE  RegistryInv'
<1>1. PICK r : r = Revised(i)
  OBVIOUS
<1>2. UNCHANGED <<agents, versions, lived, missed, pipe, teamRows, home, stops>>
      /\ gens' = gens + 1 /\ gens < MaxGen /\ edit[e] = Idle /\ i \in Live
      /\ edit' = [edit EXCEPT ![e] = [at |-> "read", id |-> i, row |-> r]]
  BY <1>1 DEF RefactorRead, agentTables, admin
<1>3. TablesTyped'
  BY <1>2, BoundsAssumption DEF RegistryInv, TablesTyped
<1>4. r \in Row /\ r.team = NoTeam
  <2>1. gens + 1 \in Contents
    BY <1>2, BoundsAssumption DEF RegistryInv, TablesTyped, Contents
  <2>2. agents[i] \in Row
    BY <1>2, LiveRow DEF RegistryInv
  <2> QED BY <1>1, <2>1, <2>2 DEF Revised, Row, Status
<1>5. edit'[e] = [at |-> "read", id |-> i, row |-> r]
      /\ \A f \in Editors \ {e} : edit'[f] = edit[f]
  BY <1>2 DEF RegistryInv, WritersInv
<1>6. edit' = [f \in Editors |-> edit'[f]]
  BY <1>2 DEF RegistryInv, WritersInv
<1>7. EditInv(e)'
  BY <1>4, <1>5 DEF EditInv, Revising
<1>8. PipeInv'
  BY <1>2, PipeAges DEF RegistryInv, Live
<1>9. WritersInv'
  BY <1>2, <1>5, <1>6, <1>7, <1>8, EditsAge DEF RegistryInv, WritersInv
<1>10. HistorySound'
  <2>1. \A j, v : Recording(j, v) => Recording(j, v)'
    BY <1>2, <1>5 DEF Recording, Idle
  <2> QED BY <1>2, <2>1 DEF RegistryInv, HistorySound, Recorded, Live
<1> QED BY <1>3, <1>9, <1>10 DEF RegistryInv

\* A writer that gives up: the row was rejected.
LEMMA GenerateRejectedStep ==
  ASSUME RegistryInv, GenerateRejected
  PROVE  RegistryInv'
<1>1. pipe.at = "read" /\ pipe' = Idle
      /\ UNCHANGED <<agents, versions, lived, missed, gens, edit, teamRows, home, stops>>
  BY DEF GenerateRejected, agentTables, admin
<1>2. TablesTyped'
  BY <1>1 DEF RegistryInv, TablesTyped
<1>3. WritersInv'
  BY <1>1, EditsAge DEF RegistryInv, WritersInv, PipeInv, Idle
<1>4. HistorySound'
  BY <1>1 DEF RegistryInv, HistorySound, Recording, Recorded, Idle, Live
<1> QED BY <1>2, <1>3, <1>4 DEF RegistryInv

LEMMA RefactorRejectedStep ==
  ASSUME RegistryInv, NEW e \in Editors, RefactorRejected(e)
  PROVE  RegistryInv'
<1>1. edit[e].at = "read" /\ edit' = [edit EXCEPT ![e] = Idle]
      /\ UNCHANGED <<agents, versions, lived, missed, gens, pipe, teamRows, home, stops>>
  BY DEF RefactorRejected, agentTables, admin
<1>2. edit'[e] = Idle /\ (\A f \in Editors \ {e} : edit'[f] = edit[f])
      /\ edit' = [f \in Editors |-> edit'[f]]
  BY <1>1 DEF RegistryInv, WritersInv
<1>3. TablesTyped'
  BY <1>1 DEF RegistryInv, TablesTyped
<1>4. WritersInv'
  <2>1. PipeInv'
    BY <1>1, PipeAges DEF RegistryInv, Live
  <2>2. EditInv(e)'
    BY <1>2 DEF EditInv, Idle
  <2> QED BY <1>1, <1>2, <2>1, <2>2, EditsAge DEF RegistryInv, WritersInv
<1>5. HistorySound'
  <2>1. \A j, v : Recording(j, v) => Recording(j, v)'
    BY <1>1, <1>2 DEF Recording
  <2> QED BY <1>1, <2>1 DEF RegistryInv, HistorySound, Recorded, Live
<1> QED BY <1>3, <1>4, <1>5 DEF RegistryInv

-----------------------------------------------------------------------------
(* The steps that write agents. *)

LEMMA RowOfTyped ==
  ASSUME NEW p, Reading(p)
  PROVE  RowOf(p) \in Row
BY DEF Reading, RowOf, Row

LEMMA GenerateUpsertStep ==
  ASSUME RegistryInv, GenerateUpsert
  PROVE  RegistryInv'
<1>1. Reading(pipe) /\ TablesTyped /\ pipe.at = "read"
  BY DEF GenerateUpsert, RegistryInv, WritersInv, PipeInv
<1>2. PICK i \in Targets(pipe) :
        /\ Upsert(i, RowOf(pipe))
        /\ pipe' = [at |-> "record", id |-> i, version |-> pipe.version,
                    content |-> pipe.content, team |-> pipe.team]
  BY DEF GenerateUpsert
<1>3. i \in Ids
  BY <1>1, LookupFinds DEF Targets, Unused, Reading, Live
<1>4. PICK r \in Row : r = RowOf(pipe)
  BY <1>1, RowOfTyped
<1>5. r.version = pipe.version /\ r.content = pipe.content
  BY <1>4 DEF RowOf
<1>6. UNCHANGED <<versions, missed, gens, edit, admin>>
  BY DEF GenerateUpsert
<1>7. /\ TablesTyped' /\ lived \subseteq lived' /\ agents'[i].version = pipe.version
      /\ \A j \in Ids \ {i} : agents'[j] = agents[j]
      /\ [agent |-> i, version |-> pipe.version, content |-> pipe.content] \in lived'
  BY <1>1, <1>2, <1>3, <1>4, <1>5, <1>6, UpsertTables
<1>8. WritersInv'
  <2>1. PipeInv'
    BY <1>2, <1>7 DEF PipeInv, InForce, WasInForce
  <2> QED BY <1>6, <1>7, <2>1, EditsAge DEF RegistryInv, WritersInv
<1>9. HistorySound'
  <2>1. Recording(i, agents[i].version)'
    BY <1>2, <1>7 DEF Recording
  <2>2. \A j, v : Recording(j, v) => Recording(j, v)'
    BY <1>1, <1>6 DEF Recording
  <2> QED BY <1>3, <1>6, <1>7, <2>1, <2>2, UpsertHistory
<1> QED BY <1>7, <1>8, <1>9 DEF RegistryInv

LEMMA RefactorUpsertStep ==
  ASSUME RegistryInv, NEW e \in Editors, RefactorUpsert(e)
  PROVE  RegistryInv'
<1>1. PICK i, r : i = edit[e].id /\ r = edit[e].row
  OBVIOUS
<1>2. TablesTyped /\ edit[e].at = "read" /\ i \in Ids /\ r \in Row /\ Upsert(i, r)
  BY <1>1 DEF RefactorUpsert, RegistryInv, WritersInv, EditInv, Revising
<1>3. UNCHANGED <<versions, missed, gens, pipe, admin>> /\ edit' = [edit EXCEPT ![e].at = "record"]
  BY DEF RefactorUpsert
<1>4. /\ TablesTyped' /\ lived \subseteq lived' /\ agents'[i].version = r.version
      /\ agents'[i].team = r.team
      /\ \A j \in Ids \ {i} : agents'[j] = agents[j]
      /\ [agent |-> i, version |-> r.version, content |-> r.content] \in lived'
  BY <1>2, <1>3, UpsertTables
<1>5. edit'[e].at = "record" /\ edit'[e].id = i /\ edit'[e].row = r
  <2>1. edit'[e] = [edit[e] EXCEPT !.at = "record"]
    BY <1>3 DEF RegistryInv, WritersInv
  <2> QED BY <1>1, <2>1
<1>6. (\A f \in Editors \ {e} : edit'[f] = edit[f]) /\ edit' = [f \in Editors |-> edit'[f]]
  BY <1>3 DEF RegistryInv, WritersInv
<1>7. r.team = NoTeam
  BY <1>1, <1>2 DEF RegistryInv, WritersInv, EditInv, Revising
<1>8. WritersInv'
  <2>1. EditInv(e)'
    BY <1>4, <1>5 DEF EditInv, EditInForce, WasInForce
  <2>2. PipeInv'
    BY <1>3, <1>4, <1>7, PipeAges DEF RegistryInv, Live, admin
  <2> QED BY <1>4, <1>6, <2>1, <2>2, EditsAge DEF RegistryInv, WritersInv
<1>9. HistorySound'
  <2>1. Recording(i, agents[i].version)'
    BY <1>4, <1>5 DEF Recording
  <2>2. \A j, v : Recording(j, v) => Recording(j, v)'
    BY <1>2, <1>3, <1>6 DEF Recording
  <2> QED BY <1>2, <1>3, <1>4, <2>1, <2>2, UpsertHistory
<1> QED BY <1>4, <1>8, <1>9 DEF RegistryInv

LEMMA GenerateRecordStep ==
  ASSUME RegistryInv, GenerateRecord
  PROVE  RegistryInv'
<1>1. PICK p : p = pipe
  OBVIOUS
<1>2. p.at = "record" /\ WasInForce(p.id, p.version, p.content) /\ pipe' = Idle
      /\ TablesTyped /\ versions \subseteq lived
      /\ UNCHANGED <<agents, lived, gens, edit, admin>>
      /\ StoreAgentVersion(p.id, p.version, p.content)
  BY <1>1 DEF GenerateRecord, RegistryInv, WritersInv, PipeInv, InForce, HistorySound
<1>3. /\ TablesTyped' /\ versions' \subseteq lived'
      /\ \/ \E x \in versions' : x.agent = p.id /\ x.version = p.version
         \/ [agent |-> p.id, version |-> p.version] \in missed'
      /\ versions \subseteq versions' /\ missed \subseteq missed'
  BY <1>2, StoreVersionTables
<1>4. WritersInv'
  BY <1>2, EditsAge DEF RegistryInv, WritersInv, PipeInv, Idle
<1>5. HistorySound'
  <2>1. ASSUME NEW j, NEW v, Accounted(j, v) PROVE Accounted(j, v)'
    BY <1>1, <1>2, <1>3, <2>1 DEF Accounted, Recording, Recorded
  <2> QED BY <1>2, <1>3, <2>1 DEF RegistryInv, HistorySound, Accounted, Live
<1> QED BY <1>3, <1>4, <1>5 DEF RegistryInv

LEMMA RefactorRecordStep ==
  ASSUME RegistryInv, NEW e \in Editors, RefactorRecord(e)
  PROVE  RegistryInv'
<1>1. PICK i, r : i = edit[e].id /\ r = edit[e].row
  OBVIOUS
<1>2. edit[e].at = "record" /\ WasInForce(i, r.version, r.content)
      /\ TablesTyped /\ versions \subseteq lived
      /\ edit' = [edit EXCEPT ![e] = Idle]
      /\ UNCHANGED <<agents, lived, gens, pipe, admin>>
      /\ StoreAgentVersion(i, r.version, r.content)
  BY <1>1 DEF RefactorRecord, RegistryInv, WritersInv, EditInv, EditInForce, HistorySound
<1>3. /\ TablesTyped' /\ versions' \subseteq lived'
      /\ \/ \E x \in versions' : x.agent = i /\ x.version = r.version
         \/ [agent |-> i, version |-> r.version] \in missed'
      /\ versions \subseteq versions' /\ missed \subseteq missed'
  BY <1>2, StoreVersionTables
<1>4. edit'[e] = Idle /\ (\A f \in Editors \ {e} : edit'[f] = edit[f])
      /\ edit' = [f \in Editors |-> edit'[f]]
  BY <1>2 DEF RegistryInv, WritersInv
<1>5. WritersInv'
  <2>1. PipeInv'
    BY <1>2, PipeAges DEF RegistryInv, Live, admin
  <2>2. EditInv(e)'
    BY <1>4 DEF EditInv, Idle
  <2> QED BY <1>2, <1>4, <2>1, <2>2, EditsAge DEF RegistryInv, WritersInv
<1>6. HistorySound'
  <2>1. ASSUME NEW j, NEW v, Accounted(j, v) PROVE Accounted(j, v)'
    <3>1. CASE Recorded(j, v) \/ [agent |-> j, version |-> v] \in missed
      BY <1>3, <3>1 DEF Accounted, Recorded
    <3>2. CASE pipe.at = "record" /\ pipe.id = j /\ pipe.version = v
      BY <1>2, <3>2 DEF Accounted, Recording
    <3>3. ASSUME NEW f \in Editors, edit[f].at = "record", edit[f].id = j, edit[f].row.version = v
          PROVE  Accounted(j, v)'
      <4>1. CASE f = e
        BY <1>1, <1>3, <3>3, <4>1 DEF Accounted, Recorded
      <4>2. CASE f # e
        BY <1>4, <3>3, <4>2 DEF Accounted, Recording
      <4> QED BY <4>1, <4>2
    <3> QED BY <2>1, <3>1, <3>2, <3>3 DEF Accounted, Recording
  <2> QED BY <1>2, <1>3, <2>1 DEF RegistryInv, HistorySound, Accounted, Live
<1> QED BY <1>3, <1>5, <1>6 DEF RegistryInv

\* Publishing and renaming keep the version, the content and the team of a row.
LEMMA RetouchStep ==
  ASSUME RegistryInv, UNCHANGED <<versions, missed, gens, pipe, edit, lived, admin>>,
         agents' \in [Ids -> Row \cup {NoAgent}],
         \A i \in Live : /\ agents'[i] \in Row
                         /\ agents'[i].version = agents[i].version
                         /\ agents'[i].team = agents[i].team,
         \A i \in Ids \ Live : agents'[i] = agents[i]
  PROVE  RegistryInv'
<1>1. Live' = Live
  BY NoAgentAssumption DEF Live
<1>2. TablesTyped'
  BY <1>1 DEF RegistryInv, TablesTyped, admin
<1>3. WritersInv'
  <2>1. PipeInv'
    BY <1>1, PipeAges DEF RegistryInv, admin
  <2> QED BY <2>1, EditsAge DEF RegistryInv, WritersInv
<1>4. HistorySound'
  BY <1>1 DEF RegistryInv, HistorySound, Recording, Recorded
<1> QED BY <1>2, <1>3, <1>4 DEF RegistryInv

LEMMA HandlerSteps ==
  ASSUME RegistryInv,
         \/ \E i \in Ids : PublishAgent(i)
         \/ \E t \in Teams \cup {NoTeam}, old, new \in Domains : RenameDomain(t, old, new)
  PROVE  RegistryInv'
<1>1. ASSUME NEW i \in Ids, PublishAgent(i) PROVE RegistryInv'
  <2>1. agents[i] \in Row /\ agents \in [Ids -> Row \cup {NoAgent}] /\ i \in Live
    BY <1>1, LiveRow DEF PublishAgent, RegistryInv, TablesTyped
  <2>2. agents'[i] = [agents[i] EXCEPT !.status = "published"]
        /\ \A j \in Ids \ {i} : agents'[j] = agents[j]
    BY <1>1, <2>1 DEF PublishAgent
  <2>3. agents'[i] \in Row /\ agents'[i].version = agents[i].version
        /\ agents'[i].team = agents[i].team
    BY <2>1, <2>2 DEF Row, Status
  <2>4. agents' \in [Ids -> Row \cup {NoAgent}]
    BY <1>1, <2>1, <2>3 DEF PublishAgent
  <2>5. \A j \in Live : agents'[j] \in Row /\ agents'[j].version = agents[j].version
                        /\ agents'[j].team = agents[j].team
    BY <2>2, <2>3, LiveRow DEF RegistryInv
  <2> QED BY <1>1, <2>1, <2>2, <2>4, <2>5, RetouchStep DEF PublishAgent
<1>2. ASSUME NEW t \in Teams \cup {NoTeam}, NEW old \in Domains, NEW new \in Domains,
             RenameDomain(t, old, new)
      PROVE  RegistryInv'
  <2>1. agents' = [i \in Ids |-> IF i \in Live /\ agents[i].domain = old /\ agents[i].team = t
                                 THEN [agents[i] EXCEPT !.domain = new] ELSE agents[i]]
    BY <1>2 DEF RenameDomain
  <2>2. \A j \in Live : agents'[j] \in Row /\ agents'[j].version = agents[j].version
                        /\ agents'[j].team = agents[j].team
    BY <2>1, LiveRow DEF RegistryInv, Row
  <2>3. \A j \in Ids \ Live : agents'[j] = agents[j]
    BY <2>1
  <2>4. agents' \in [Ids -> Row \cup {NoAgent}]
    BY <2>1, <2>2, <2>3 DEF RegistryInv, TablesTyped
  <2> QED BY <1>2, <2>2, <2>3, <2>4, RetouchStep DEF RenameDomain
<1> QED BY <1>1, <1>2

-----------------------------------------------------------------------------
(* The administrator of teams, and the process. *)

LEMMA DeleteEmptyTeamStep ==
  ASSUME RegistryInv, NEW t \in Teams, DeleteEmptyTeam(t)
  PROVE  RegistryInv'
<1>1. UNCHANGED <<agents, versions, lived, missed, gens, pipe, edit, home, stops>>
      /\ teamRows' = teamRows \ {t}
  BY DEF DeleteEmptyTeam, agentTables
<1>2. TablesTyped'
  BY <1>1 DEF RegistryInv, TablesTyped
<1>3. PipeInv'
  <2>1. pipe.at = "read" => Reading(pipe)'
    BY <1>1 DEF RegistryInv, WritersInv, PipeInv, Reading, Reach, Live
  <2> QED BY <1>1, <2>1 DEF RegistryInv, WritersInv, PipeInv, InForce, WasInForce
<1>4. WritersInv'
  BY <1>1, <1>3, EditsAge DEF RegistryInv, WritersInv
<1>5. HistorySound'
  BY <1>1 DEF RegistryInv, HistorySound, Recording, Recorded, Live
<1> QED BY <1>2, <1>4, <1>5 DEF RegistryInv

\* A merge: an agent is deleted, moves with its team, or stays as it is.
LEMMA MigratedRows ==
  ASSUME RegistryInv, NEW s \in Teams, NEW t \in Teams, MigrateAgents(s, t)
  PROVE  /\ agents' \in [Ids -> Row \cup {NoAgent}]
         /\ \A i \in Live' : /\ i \in Live \ Doubled(s, t)
                             /\ agents'[i].version = agents[i].version
                             /\ agents'[i].team = IF agents[i].team = s THEN t ELSE agents[i].team
<1>1. agents' = [i \in Ids |-> Migrated(i, s, t)]
  BY DEF MigrateAgents
<1>2. \A i \in Live : agents[i] \in Row /\ [agents[i] EXCEPT !.team = t] \in Row
  BY LiveRow DEF RegistryInv, Row
<1>3. \A i \in Ids : Migrated(i, s, t) \in Row \cup {NoAgent}
  BY <1>2 DEF Migrated, RegistryInv, TablesTyped
<1>4. ASSUME NEW i \in Live'
      PROVE  /\ i \in Live \ Doubled(s, t)
             /\ agents'[i].version = agents[i].version
             /\ agents'[i].team = IF agents[i].team = s THEN t ELSE agents[i].team
  <2>1. i \in Ids /\ agents'[i] = Migrated(i, s, t) /\ agents'[i] # NoAgent
    BY <1>1, <1>4 DEF Live
  <2>2. i \in Live \ Doubled(s, t)
    BY <2>1 DEF Migrated, Live
  <2>3. agents'[i] = IF agents[i].team = s THEN [agents[i] EXCEPT !.team = t] ELSE agents[i]
    BY <2>1, <2>2 DEF Migrated
  <2> QED BY <1>2, <2>2, <2>3 DEF Row
<1> QED BY <1>1, <1>3, <1>4

LEMMA MigrateStep ==
  ASSUME RegistryInv, NEW s \in Teams, NEW t \in Teams, MigrateAgents(s, t)
  PROVE  RegistryInv'
<1>1. UNCHANGED <<lived, missed, gens, pipe, edit, stops>> /\ s \in teamRows /\ s # t
      /\ teamRows' = teamRows \ {s} /\ home' = [u \in Teams |-> IF home[u] = s THEN t ELSE home[u]]
      /\ versions' = {x \in versions : x.agent \notin Doubled(s, t)}
  BY DEF MigrateAgents
<1>2. TablesTyped'
  BY <1>1, MigratedRows DEF RegistryInv, TablesTyped
<1>3. PipeInv'
  <2>1. ASSUME pipe.at = "read" PROVE Reading(pipe)'
    <3>1. Reading(pipe)
      BY <2>1 DEF RegistryInv, WritersInv, PipeInv
    <3>2. ASSUME pipe.id # NoAgent, pipe.team # NoTeam, pipe.id \in Live'
          PROVE  agents'[pipe.id].team \in Reach(pipe.team)'
      <4>1. PICK i, g : i = pipe.id /\ g = pipe.team
        OBVIOUS
      <4>2. i \in Live /\ g \in Teams /\ agents[i].team \in Reach(g)
            /\ agents'[i].team = IF agents[i].team = s THEN t ELSE agents[i].team
        BY <3>1, <3>2, <4>1, MigratedRows DEF Reading
      <4>3. home'[g] = IF home[g] = s THEN t ELSE home[g]
        BY <1>1, <4>2
      <4>4. s # NoTeam /\ home[s] = s
        BY <1>1, TeamsAssumption DEF RegistryInv, TablesTyped
      <4>5. agents'[i].team \in {g, NoTeam} \cup (IF g \in teamRows' THEN {} ELSE {home'[g]})
        BY <1>1, <4>2, <4>3, <4>4 DEF Reach
      <4> QED BY <1>1, <4>1, <4>5 DEF Reach
    <3> QED BY <1>1, <3>1, <3>2 DEF Reading
  <2> QED BY <1>1, <2>1 DEF RegistryInv, WritersInv, PipeInv, InForce, WasInForce
<1>4. WritersInv'
  BY <1>1, <1>3, EditsAge DEF RegistryInv, WritersInv
<1>5. HistorySound'
  <2>1. ASSUME NEW i \in Live' PROVE Accounted(i, agents[i].version)'
    <3>1. i \in Live \ Doubled(s, t) /\ agents'[i].version = agents[i].version
      BY MigratedRows
    <3>2. Accounted(i, agents[i].version)
      BY <3>1 DEF RegistryInv, HistorySound, Accounted
    <3> QED BY <1>1, <3>1, <3>2 DEF Accounted, Recording, Recorded
  <2> QED BY <1>1, <2>1 DEF RegistryInv, HistorySound, Accounted
<1> QED BY <1>2, <1>4, <1>5 DEF RegistryInv

\* The boot gives agents of no team a team, and keeps their versions.
LEMMA BootRows ==
  ASSUME RegistryInv, Stop
  PROVE  /\ agents' \in [Ids -> Row \cup {NoAgent}]
         /\ \A i \in Live' : i \in Live /\ agents'[i].version = agents[i].version
<1>1. CASE UNCHANGED agents
  BY <1>1 DEF RegistryInv, TablesTyped, Live
<1>2. ASSUME NEW t \in Teams, agents' = [i \in Ids |-> Backfilled(i, t)]
      PROVE  /\ agents' \in [Ids -> Row \cup {NoAgent}]
             /\ \A i \in Live' : i \in Live /\ agents'[i].version = agents[i].version
  <2>1. \A i \in Live : agents[i] \in Row /\ [agents[i] EXCEPT !.team = t] \in Row
    BY LiveRow DEF RegistryInv, Row
  <2>2. \A i \in Live : Backfilled(i, t) \in Row /\ Backfilled(i, t).version = agents[i].version
    BY <2>1 DEF Backfilled, Row
  <2>3. \A i \in Ids \ Live : Backfilled(i, t) = NoAgent
    BY DEF Backfilled, Live
  <2> QED BY <1>2, <2>2, <2>3 DEF Live
<1> QED BY <1>1, <1>2 DEF Stop

LEMMA StopStep ==
  ASSUME RegistryInv, Stop
  PROVE  RegistryInv'
<1>1. TablesTyped'
  <2>1. teamRows' \subseteq Teams /\ home' \in [Teams -> Teams] /\ \A t \in teamRows' : home'[t] = t
    BY TeamsAssumption DEF Stop, RegistryInv, TablesTyped
  <2>2. stops' \in 0..MaxStops
    BY BoundsAssumption DEF Stop, RegistryInv, TablesTyped
  <2> QED BY <2>1, <2>2, BootRows DEF Stop, RegistryInv, TablesTyped
<1>2. WritersInv'
  BY DEF Stop, WritersInv, PipeInv, EditInv, Idle
<1>3. HistorySound'
  <2>1. UNCHANGED <<versions, lived>>
        /\ missed' = missed \cup (IF pipe.at = "record"
                                  THEN {[agent |-> pipe.id, version |-> pipe.version]} ELSE {})
                     \cup {[agent |-> edit[e].id, version |-> edit[e].row.version] :
                             e \in {f \in Editors : edit[f].at = "record"}}
    BY DEF Stop
  <2>2. ASSUME NEW i \in Live' PROVE Accounted(i, agents[i].version)'
    <3>1. i \in Live /\ agents'[i].version = agents[i].version
      BY BootRows
    <3>2. Accounted(i, agents[i].version)
      BY <3>1 DEF RegistryInv, HistorySound, Accounted
    <3>3. Recording(i, agents[i].version) => [agent |-> i, version |-> agents[i].version] \in missed'
      BY <2>1 DEF Recording
    <3> QED BY <2>1, <3>1, <3>2, <3>3 DEF Accounted, Recorded
  <2> QED BY <2>1, <2>2 DEF RegistryInv, HistorySound, Accounted
<1> QED BY <1>1, <1>2, <1>3 DEF RegistryInv

LEMMA NextRegistryInv == RegistryInv /\ [RegistryNext]_registryVars => RegistryInv'
<1> SUFFICES ASSUME RegistryInv, [RegistryNext]_registryVars PROVE RegistryInv'
  OBVIOUS
<1>1. CASE UNCHANGED registryVars
  <2>1. \A i \in Live : agents[i] \in Row
    BY LiveRow DEF RegistryInv
  <2> QED BY <1>1, <2>1, RetouchStep DEF registryVars, agentTables, RegistryInv, TablesTyped
<1>2. ASSUME NEW t \in Scopes, NEW d \in Domains, GenerateRead(t, d) PROVE RegistryInv'
  BY <1>2, GenerateReadStep
<1>3. CASE GenerateUpsert \/ GenerateRejected \/ GenerateRecord
  BY <1>3, GenerateUpsertStep, GenerateRejectedStep, GenerateRecordStep
<1>4. ASSUME NEW e \in Editors, NEW i \in Ids, RefactorRead(e, i) PROVE RegistryInv'
  BY <1>4, RefactorReadStep
<1>5. ASSUME NEW e \in Editors, RefactorUpsert(e) \/ RefactorRejected(e) \/ RefactorRecord(e)
      PROVE  RegistryInv'
  BY <1>5, RefactorUpsertStep, RefactorRejectedStep, RefactorRecordStep
<1>6. ASSUME NEW i \in Ids, PublishAgent(i) PROVE RegistryInv'
  BY <1>6, HandlerSteps
<1>7. ASSUME NEW t \in Teams \cup {NoTeam}, NEW old \in Domains, NEW new \in Domains,
             RenameDomain(t, old, new)
      PROVE  RegistryInv'
  BY <1>7, HandlerSteps
<1>8. ASSUME NEW t \in Teams, DeleteEmptyTeam(t) PROVE RegistryInv'
  BY <1>8, DeleteEmptyTeamStep
<1>9. ASSUME NEW s \in Teams, NEW t \in Teams, MigrateAgents(s, t) PROVE RegistryInv'
  BY <1>9, MigrateStep
<1>10. CASE Stop
  BY <1>10, StopStep
<1> QED BY <1>1, <1>2, <1>3, <1>4, <1>5, <1>6, <1>7, <1>8, <1>9, <1>10 DEF RegistryNext

\* The only step from "read" to "record" is the upsert, which changes one agent:
\* the one it read, or one it finds now.
LEMMA NextStays ==
  ASSUME RegistryInv, RegistryNext, NEW i \in Live, pipe.at = "read", pipe'.at = "record",
         pipe.team # NoTeam, agents'[i] # agents[i]
  PROVE  agents[i].team \in Reach(pipe.team)
<1>1. GenerateUpsert
  BY DEF RegistryNext, GenerateRead, GenerateRejected, GenerateRecord, RefactorRead, RefactorUpsert,
         RefactorRejected, RefactorRecord, PublishAgent, RenameDomain, DeleteEmptyTeam, MigrateAgents,
         Stop, Idle
<1>2. Reading(pipe) /\ i \in Ids
  BY DEF RegistryInv, WritersInv, PipeInv, Live
<1>3. PICK j \in Targets(pipe) : Upsert(j, RowOf(pipe))
  BY <1>1 DEF GenerateUpsert
<1>4. i = j
  BY <1>2, <1>3 DEF Upsert, RegistryInv, TablesTyped
<1>5. CASE pipe.id # NoAgent
  BY <1>2, <1>3, <1>4, <1>5 DEF Targets, Reading
<1>6. CASE pipe.id = NoAgent
  <2>1. i \in Lookup(pipe.domain, pipe.team) \cup Unused
    BY <1>3, <1>4, <1>6 DEF Targets
  <2> QED BY <2>1, LookupFinds DEF Reach, Unused
<1> QED BY <1>5, <1>6

-----------------------------------------------------------------------------
(* The theorems. *)

\* The inductive invariant holds of every behaviour of the agents' writers: what
\* the pipeline read for a team has since only lost its team, been deleted, or
\* followed that team in a merge.
THEOREM RegistryInvariant == RegistrySpec => []RegistryInv
BY InitRegistryInv, NextRegistryInv, PTL DEF RegistrySpec

\* The agent tables and the writers' locals stay within their types.
THEOREM RegistryTyped == RegistrySpec => []RegistryTypeOK
<1>1. RegistryInv => RegistryTypeOK
  BY DEF RegistryInv, TablesTyped, WritersInv, PipeInv, EditInv, RegistryTypeOK
<1> QED BY <1>1, RegistryInvariant, PTL

\* Every version row was the agent's definition under its number, and a current
\* version without one is about to get it, was refused by the store or was lost
\* in a stop (pipeline.go:603-669, handlers.go:399-468), whoever else writes,
\* fails, deletes or merges in between.
THEOREM RegistryHistorySound == RegistrySpec => []HistorySound
<1>1. RegistryInv => HistorySound
  BY DEF RegistryInv
<1> QED BY <1>1, RegistryInvariant, PTL

\* Running for a team, the pipeline overwrites only agents of that team or of
\* none (agents_sqlite.go:14-16), although it upserts long after it has read;
\* only a team merged away meanwhile can reach agents of the team it went to.
THEOREM RegistryPipelineStays == RegistrySpec => PipelineStaysInTeam
<1>1. RegistryInv /\ [RegistryNext]_registryVars =>
        [\A i \in Live :
           pipe.at = "read" /\ pipe'.at = "record" /\ pipe.team # NoTeam /\ agents'[i] # agents[i] =>
             agents[i].team \in Reach(pipe.team)]_registryVars
  BY NextStays
<1> QED BY <1>1, RegistryInvariant, PTL DEF RegistrySpec, PipelineStaysInTeam
=============================================================================
