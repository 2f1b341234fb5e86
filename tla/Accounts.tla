------------------------------ MODULE Accounts ------------------------------
(***************************************************************************)
(* Teams, users, memberships, API keys and the login session:             *)
(* internal/storage/teams_sqlite.go under the handlers of internal/web     *)
(* (admin_handlers.go, team_handlers.go, auth_handlers.go, settings.go),   *)
(* the middleware of internal/auth and the boot steps of cmd/server.       *)
(*                                                                         *)
(* A request is authenticated once, into a context with a team, a user and *)
(* a role (tc); the handler then reads, checks and writes in statements of *)
(* its own, between which other requests run.  Each action is one          *)
(* statement (one transaction for the migration).  SQLite enforces foreign *)
(* keys (sqlite.go:28): a statement that would leave a users, api_keys or  *)
(* team_settings row with a team that does not exist fails.                *)
(*                                                                         *)
(* IsTeamMember reads the home team and the membership in two statements;  *)
(* here it is one.  A positive answer is true at the moment of the read    *)
(* that gave it, and a negative one ends the request without a write.      *)
(*                                                                         *)
(* Rows of other components count here only by their team: `rows' says     *)
(* which teams have rows of which kind.  "counted" rows (entries, clusters,*)
(* agents, rules) block a plain delete and are migrated, "moved" rows      *)
(* (snapshots, runs, feed, activity log) are migrated only, "left" rows    *)
(* (todo lists, fine-tuning sessions, share tokens) are neither.           *)
(***************************************************************************)
EXTENDS Naturals, FiniteSets, Functions, TLC

CONSTANTS TeamIds,     \* every team id, Unassigned among them
          Unassigned,  \* the reserved team
          Emails,      \* a user row is named by its unique email
          People,      \* the subjects an identity provider knows
          EmailsOf,    \* the emails each of them may sign in with
          WithPassword,\* the emails whose row was given a password hash by an operator
          KeyIds,      \* API keys, Bootstrap among them
          Bootstrap,   \* the key of the SUPERADMIN_KEY environment variable
          Callers, CallsOf,  \* clients, and how many requests each makes
          Wants(_, _), \* which requests a client makes
          MaxRestarts,
          None

ASSUME NamesAssumption == /\ Unassigned \in TeamIds /\ Bootstrap \in KeyIds
                          /\ None \notin TeamIds \cup Emails \cup People \cup KeyIds
ASSUME PeopleAssumption == EmailsOf \in [People -> SUBSET Emails]

VARIABLES teams,     \* the teams table
          born,      \* the ids ever given to a team
          users,     \* the users table
          members,   \* the team_members table
          keys,      \* the api_keys table
          settings,  \* the teams with a team_settings row
          session,   \* the one row the sessions table can hold
          rows,      \* which teams the rows of other tables name
          req,       \* the request each client has in progress
          left,      \* the requests each client has yet to make
          restarts   \* process stops so far

tables == <<teams, born, users, members, keys, settings, session, rows>>
vars   == <<tables, req, left, restarts>>

Roles == {"member", "curator", "admin", "superadmin"}
adminRoleRank == [member |-> 1, curator |-> 2, admin |-> 3, superadmin |-> 4]
validAdminRole == {"member", "curator", "admin"}
Kinds == {"counted", "moved", "left"}

TeamOrNone == TeamIds \cup {None}
UserRows == [team : TeamOrNone, role : Roles, manual : BOOLEAN, subject : People \cup {None}]
KeyRows  == [team : TeamOrNone, user : Emails \cup {None}, role : Roles]
-----------------------------------------------------------------------------
(* Contexts: who a request acts for. *)

TeamContext == [team : TeamOrNone, user : Emails \cup {None}, role : Roles]
NoContext == [team |-> None, user |-> None, role |-> "member"]

HomeOf(u) == IF u \in DOMAIN users THEN users[u].team ELSE None
IsTeamMember(u, t) == HomeOf(u) = t \/ <<u, t>> \in members

(* A bearer key speaks for its own columns, a session for its user's row.  *)
Authenticated ==
  {[team |-> keys[k].team, user |-> keys[k].user, role |-> keys[k].role] : k \in DOMAIN keys}
  \cup IF session = None \/ ~session.valid THEN {}
       ELSE {[team |-> users[session.user].team, user |-> session.user,
              role |-> users[session.user].role]}

(* X-Team-Id pins the request to a team. *)
MayPin(tc, t) == \/ tc.role = "superadmin"
                 \/ tc.user # None /\ IsTeamMember(tc.user, t)
                 \/ tc.user = None /\ t = tc.team
ActiveTeam(tc) == {tc} \cup {[tc EXCEPT !.team = t] : t \in {x \in TeamIds : MayPin(tc, x)}}

RequireRole(tc, role) == adminRoleRank[tc.role] >= adminRoleRank[role]

(* authorizeTeamManage *)
MayManage(tc, t) == \/ tc.role = "superadmin"
                    \/ tc.user # None /\ IsTeamMember(tc.user, t)
                    \/ tc.user = None /\ t = tc.team

(* ListUsers: an empty team lists every user. *)
ListUsers(t) == {u \in DOMAIN users : t = None \/ users[u].team = t}
ListAPIKeys(t) == {k \in DOMAIN keys : t = None \/ keys[k].team = t}

(* Mutant: the caller's own role may be granted. *)
GrantableUpTo(tc) == {r \in validAdminRole : adminRoleRank[r] <= adminRoleRank[tc.role]}

(* The roles a caller may grant: valid, and below its own. *)
Grantable(tc) == {r \in validAdminRole : adminRoleRank[r] < adminRoleRank[tc.role]}
-----------------------------------------------------------------------------
(* Requests.  The fields a request does not use keep their default.         *)

NoReq == [op |-> "none", pc |-> "idle", tc |-> NoContext, user |-> None, team |-> None,
          to |-> None, role |-> "member", key |-> None, subject |-> None, kind |-> "counted"]
Ask(op, pc, tc) == [NoReq EXCEPT !.op = op, !.pc = pc, !.tc = tc]

StoreAsks(tc) == {[Ask("store", "write", tc) EXCEPT !.kind = k] : k \in Kinds}
AssignAsks(tc) ==
  {[Ask("assignUser", "find", tc) EXCEPT !.user = u, !.role = r] : u \in Emails, r \in Grantable(tc)}
SetRoleAsks(tc) ==
  {[Ask("setRole", "scope", tc) EXCEPT !.user = u, !.role = r] :
     u \in DOMAIN users,
     r \in Grantable(tc) \cup IF tc.role = "superadmin" THEN {"superadmin"} ELSE {}}
CreateKeyAsks(tc) ==
  {[Ask("createKey", "scope", tc) EXCEPT !.key = k, !.user = u, !.role = r] :
     k \in KeyIds \ (DOMAIN keys \cup {Bootstrap}), u \in Emails \cup {None}, r \in Grantable(tc)}
RevokeKeyAsks(tc) == {[Ask("revokeKey", "scope", tc) EXCEPT !.key = k] : k \in KeyIds}
MemberAsks(tc) ==
  {[Ask(op, "manage", tc) EXCEPT !.user = u, !.team = t] :
     op \in {"addMember", "removeMember"}, u \in DOMAIN users, t \in TeamIds}
AdminAsks(tc) == AssignAsks(tc) \cup SetRoleAsks(tc) \cup CreateKeyAsks(tc) \cup RevokeKeyAsks(tc)
                 \cup MemberAsks(tc) \cup {Ask("putSettings", "write", tc)}

CreateTeamAsks(tc) == {[Ask("createTeam", "write", tc) EXCEPT !.team = t] : t \in TeamIds \ born}
EditTeamAsks(tc) ==
  {[Ask(op, "write", tc) EXCEPT !.team = t] : op \in {"updateTeam", "setEnabled"}, t \in born}
DeleteTeamAsks(tc) == {[Ask("deleteTeam", "count", tc) EXCEPT !.team = t] : t \in born}
MigrateAsks(tc) ==
  {[Ask("migrateTeam", "target", tc) EXCEPT !.team = p[1], !.to = p[2]] :
     p \in {q \in born \X born : q[1] # q[2]}}
MoveAsks(tc) ==
  {[Ask("moveUser", "team", tc) EXCEPT !.user = u, !.team = t, !.role = r] :
     u \in DOMAIN users, t \in born, r \in validAdminRole}
TeamAsks(tc) == CreateTeamAsks(tc) \cup EditTeamAsks(tc) \cup DeleteTeamAsks(tc)
                \cup MigrateAsks(tc) \cup MoveAsks(tc)

Asks(tc) == StoreAsks(tc)
            \cup (IF RequireRole(tc, "admin") THEN AdminAsks(tc) ELSE {})
            \cup (IF RequireRole(tc, "superadmin") THEN TeamAsks(tc) ELSE {})
LoginAsks == {[Ask("login", "find", NoContext) EXCEPT !.user = u] : u \in WithPassword}
OidcAsks == {[Ask("oidc", "find", NoContext) EXCEPT !.subject = p, !.user = u] :
               p \in People, u \in UNION {EmailsOf[p] : p \in People}}
PublicAsks == LoginAsks \cup OidcAsks \cup {Ask("logout", "delete", NoContext)}

At(c, op, pc) == req[c].op = op /\ req[c].pc = pc
Goto(c, pc) == req' = [req EXCEPT ![c].pc = pc]
Return(c) == req' = [req EXCEPT ![c] = NoReq]
Quiet == UNCHANGED <<tables, left, restarts>>

(* The middleware chain lets a request in. *)
Enter(c) ==
  /\ req[c] = NoReq /\ left[c] > 0
  /\ left' = [left EXCEPT ![c] = @ - 1]
  /\ \E a \in PublicAsks \cup UNION {Asks(tc) : tc \in UNION {ActiveTeam(x) : x \in Authenticated}} :
       /\ Wants(c, a)
       /\ a.op = "oidc" => a.user \in EmailsOf[a.subject]
       /\ req' = [req EXCEPT ![c] = a]
  /\ UNCHANGED <<tables, restarts>>
-----------------------------------------------------------------------------
(* Teams. *)

CreateTeam(c) ==
  /\ At(c, "createTeam", "write") /\ req[c].team \notin born
  /\ teams' = [t \in DOMAIN teams \cup {req[c].team} |->
                 IF t = req[c].team THEN [enabled |-> TRUE, open |-> FALSE] ELSE teams[t]]
  /\ born' = born \cup {req[c].team}
  /\ Return(c) /\ UNCHANGED <<users, members, keys, settings, session, rows, left, restarts>>

SetColumn(c, op, row) ==
  /\ At(c, op, "write")
  /\ teams' = IF req[c].team \in DOMAIN teams THEN [teams EXCEPT ![req[c].team] = row] ELSE teams
  /\ Return(c) /\ UNCHANGED <<born, users, members, keys, settings, session, rows, left, restarts>>

(* open: whether the team's domain patterns match a signing-in email.      *)
UpdateTeam(c) == \E b \in BOOLEAN : SetColumn(c, "updateTeam", [teams[req[c].team] EXCEPT !.open = b])
SetTeamEnabled(c) == \E b \in BOOLEAN : SetColumn(c, "setEnabled", [teams[req[c].team] EXCEPT !.enabled = b])

HasPrincipals(t) == \/ \E u \in DOMAIN users : users[u].team = t
                    \/ \E k \in DOMAIN keys : keys[k].team = t

(* TeamDataCounts, then DeleteTeam's two statements.                        *)
CountRows(c) ==
  /\ At(c, "deleteTeam", "count")
  /\ LET t == req[c].team
     IN  IF HasPrincipals(t) \/ <<"counted", t>> \in rows THEN Return(c) ELSE Goto(c, "settings")
  /\ Quiet

DeleteSettings(c) ==
  /\ At(c, "deleteTeam", "settings")
  /\ settings' = settings \ {req[c].team}
  /\ Goto(c, "row")
  /\ UNCHANGED <<teams, born, users, members, keys, session, rows, left, restarts>>

(* Mutant: the foreign keys are not enforced. *)
DeleteTeamUnchecked(c) ==
  /\ At(c, "deleteTeam", "row")
  /\ teams' = Restrict(teams, DOMAIN teams \ {req[c].team})
  /\ Return(c) /\ UNCHANGED <<born, users, members, keys, settings, session, rows, left, restarts>>

(* The foreign keys refuse the delete while a row still names the team.     *)
DeleteTeam(c) ==
  /\ At(c, "deleteTeam", "row")
  /\ teams' = IF HasPrincipals(req[c].team) \/ req[c].team \in settings THEN teams
              ELSE Restrict(teams, DOMAIN teams \ {req[c].team})
  /\ Return(c) /\ UNCHANGED <<born, users, members, keys, settings, session, rows, left, restarts>>

MigrationTarget(c) ==
  /\ At(c, "migrateTeam", "target")
  /\ IF req[c].to \in DOMAIN teams THEN Goto(c, "tx") ELSE Return(c)
  /\ Quiet

Moved(t, from, to) == IF t = from THEN to ELSE t

(* DeleteTeamMigrate's transaction; it rolls back when the source is gone, *)
(* or when the target is and a user or key would have to name it.          *)
Migrates(from, to) ==
  /\ users' = [u \in DOMAIN users |-> [users[u] EXCEPT !.team = Moved(@, from, to)]]
  /\ keys' = [k \in DOMAIN keys |-> [keys[k] EXCEPT !.team = Moved(@, from, to)]]
  /\ rows' = {r \in rows : r[1] = "left"}
             \cup {<<r[1], Moved(r[2], from, to)>> : r \in {x \in rows : x[1] # "left"}}
  /\ settings' = settings \ {from}
  /\ teams' = Restrict(teams, DOMAIN teams \ {from})

DeleteTeamMigrate(c) ==
  /\ At(c, "migrateTeam", "tx")
  /\ LET from == req[c].team to == req[c].to
     IN  IF from \in DOMAIN teams /\ (to \in DOMAIN teams \/ ~HasPrincipals(from))
         THEN Migrates(from, to)
         ELSE UNCHANGED <<users, keys, rows, settings, teams>>
  /\ Return(c) /\ UNCHANGED <<born, members, session, left, restarts>>
-----------------------------------------------------------------------------
(* Users and roles. *)

WithRow(f, u, row) == [x \in DOMAIN f \cup {u} |-> IF x = u THEN row ELSE f[x]]
OnlyUsers == UNCHANGED <<teams, born, members, keys, settings, session, rows, left, restarts>>

(* UpsertUser looks the email up, then inserts or updates; an insert that  *)
(* lost the race against another one fails on the unique email.            *)
UpsertLook(c, op) ==
  /\ At(c, op, "look")
  /\ Goto(c, IF req[c].user \in DOMAIN users THEN "update" ELSE "insert")
  /\ Quiet

UpsertInsert(c, op, next) ==
  /\ At(c, op, "insert")
  /\ LET u == req[c].user
     IN  IF u \in DOMAIN users THEN Return(c) /\ UNCHANGED users
         ELSE /\ users' = WithRow(users, u, [team |-> None, role |-> req[c].role,
                                             manual |-> FALSE, subject |-> req[c].subject])
              /\ Goto(c, next)
  /\ OnlyUsers

UpsertUpdate(c, op, next) ==
  /\ At(c, op, "update")
  /\ users' = [users EXCEPT ![req[c].user].role = req[c].role,
                            ![req[c].user].subject = req[c].subject]
  /\ Goto(c, next)
  /\ OnlyUsers

(* AssignUserToTeam fails on a team that does not exist. *)
Assigned(u, t, r) ==
  IF t \in DOMAIN teams /\ u \in DOMAIN users
  THEN [users EXCEPT ![u].team = t, ![u].role = r, ![u].manual = TRUE]
  ELSE users

(* handleAssignUser *)
FindAssignee(c) ==
  /\ At(c, "assignUser", "find")
  /\ Goto(c, IF req[c].user \in DOMAIN users THEN "assign" ELSE "look")
  /\ Quiet

AssignUser(c) ==
  /\ At(c, "assignUser", "assign")
  /\ users' = Assigned(req[c].user, req[c].tc.team, req[c].role)
  /\ Return(c) /\ OnlyUsers

(* handleAdminAssignUserTeam *)
CheckMoveTeam(c) ==
  /\ At(c, "moveUser", "team")
  /\ IF req[c].team \in DOMAIN teams THEN Goto(c, "assign") ELSE Return(c)
  /\ Quiet

MoveUser(c) ==
  /\ At(c, "moveUser", "assign")
  /\ users' = Assigned(req[c].user, req[c].team, req[c].role)
  /\ Return(c) /\ OnlyUsers

(* handleSetUserRole *)
CheckRoleScope(c) ==
  /\ At(c, "setRole", "scope")
  /\ IF \/ req[c].tc.role = "superadmin" /\ req[c].user \in DOMAIN users
        \/ req[c].tc.role # "superadmin" /\ req[c].user \in ListUsers(req[c].tc.team)
     THEN Goto(c, "write") ELSE Return(c)
  /\ Quiet

SetUserRole(c) ==
  /\ At(c, "setRole", "write")
  /\ users' = [users EXCEPT ![req[c].user].role = req[c].role]
  /\ Return(c) /\ OnlyUsers
-----------------------------------------------------------------------------
(* Memberships, keys, settings and the rows of other components.            *)

CheckManage(c, op, next) ==
  /\ At(c, op, "manage")
  /\ IF MayManage(req[c].tc, req[c].team) THEN Goto(c, next) ELSE Return(c)
  /\ Quiet

SetMembers(c, m) ==
  /\ members' = m
  /\ Return(c) /\ UNCHANGED <<teams, born, users, keys, settings, session, rows, left, restarts>>

AddTeamMember(c) ==
  /\ At(c, "addMember", "write")
  /\ SetMembers(c, members \cup {<<req[c].user, req[c].team>>})

(* RemoveTeamMember refuses the home team it reads first. *)
CheckHome(c) ==
  /\ At(c, "removeMember", "home")
  /\ IF HomeOf(req[c].user) = req[c].team THEN Return(c) ELSE Goto(c, "write")
  /\ Quiet

RemoveTeamMember(c) ==
  /\ At(c, "removeMember", "write")
  /\ SetMembers(c, members \ {<<req[c].user, req[c].team>>})

CheckKeyUser(c) ==
  /\ At(c, "createKey", "scope")
  /\ IF req[c].user = None \/ req[c].user \in ListUsers(req[c].tc.team)
     THEN Goto(c, "write") ELSE Return(c)
  /\ Quiet

OnlyKeys == UNCHANGED <<teams, born, users, members, settings, session, rows, left, restarts>>

CreateAPIKey(c) ==
  /\ At(c, "createKey", "write")
  /\ LET row == [team |-> req[c].tc.team, user |-> req[c].user, role |-> req[c].role]
     IN  keys' = IF row.team \in DOMAIN teams \cup {None} /\ req[c].key \notin DOMAIN keys
                 THEN WithRow(keys, req[c].key, row) ELSE keys
  /\ Return(c) /\ OnlyKeys

CheckKeyTeam(c) ==
  /\ At(c, "revokeKey", "scope")
  /\ IF req[c].key \in ListAPIKeys(req[c].tc.team) THEN Goto(c, "write") ELSE Return(c)
  /\ Quiet

RevokeAPIKey(c) ==
  /\ At(c, "revokeKey", "write")
  /\ keys' = Restrict(keys, DOMAIN keys \ {req[c].key})
  /\ Return(c) /\ OnlyKeys

PutTeamSettings(c) ==
  /\ At(c, "putSettings", "write")
  /\ settings' = settings \cup ({req[c].tc.team} \cap DOMAIN teams)
  /\ Return(c) /\ UNCHANGED <<teams, born, users, members, keys, session, rows, left, restarts>>

(* Any other component stores a row for the team of the context. *)
StoreRow(c) ==
  /\ At(c, "store", "write")
  /\ rows' = rows \cup {<<req[c].kind, t>> : t \in {req[c].tc.team} \ {None}}
  /\ Return(c) /\ UNCHANGED <<teams, born, users, members, keys, settings, session, left, restarts>>
-----------------------------------------------------------------------------
(* Signing in.  Sessions are inserted without an id, and the id is the     *)
(* primary key: an insert fails while there is any row.                    *)

NoOwner == \A u \in DOMAIN users : adminRoleRank[users[u].role] < adminRoleRank["admin"]

(* VerifyPassword *)
FindLocal(c) ==
  /\ At(c, "login", "find")
  /\ IF req[c].user \in DOMAIN users THEN Goto(c, "claim") ELSE Return(c)
  /\ Quiet

(* The callback looks the email up, then the subject, and takes the role   *)
(* of the row it finds; team "none yet" leads to auto-assignment.          *)
FindByEmailOrSubject(c) ==
  /\ At(c, "oidc", "find")
  /\ LET u == req[c].user p == req[c].subject
         found == IF u \in DOMAIN users THEN {u}
                  ELSE {x \in DOMAIN users : users[x].subject = p}
     IN  IF found = {}
         THEN req' = [req EXCEPT ![c].role = "member", ![c].team = Unassigned, ![c].pc = "look"]
         ELSE \E x \in found :
                req' = [req EXCEPT ![c].role = users[x].role, ![c].team = users[x].team,
                                   ![c].pc = "look"]
  /\ Quiet

SkipAutoAssign(c) ==
  /\ At(c, "oidc", "resolve") /\ req[c].team \notin {None, Unassigned}
  /\ Goto(c, "claim") /\ Quiet

(* ResolveTeamByEmail: an enabled team whose patterns match, else none.     *)
ResolveTeam(c) ==
  /\ At(c, "oidc", "resolve") /\ req[c].team \in {None, Unassigned}
  /\ LET open == {t \in DOMAIN teams : teams[t].enabled /\ teams[t].open}
     IN  \E t \in IF open = {} THEN {Unassigned} ELSE open :
           req' = [req EXCEPT ![c].team = t, ![c].pc = "auto"]
  /\ Quiet

(* Mutant: the guard on manual assignments is missing. *)
AutoAssignAlways(c) ==
  /\ At(c, "oidc", "auto")
  /\ users' = IF req[c].team \notin DOMAIN teams THEN users
              ELSE [users EXCEPT ![req[c].user].team = req[c].team,
                                 ![req[c].user].role = req[c].role]
  /\ Goto(c, "claim") /\ OnlyUsers

(* AutoAssignUserToTeam, guarded by manually_assigned = 0. *)
AutoAssign(c) ==
  /\ At(c, "oidc", "auto")
  /\ users' = IF users[req[c].user].manual \/ req[c].team \notin DOMAIN teams THEN users
              ELSE [users EXCEPT ![req[c].user].team = req[c].team,
                                 ![req[c].user].role = req[c].role]
  /\ Goto(c, "claim") /\ OnlyUsers

(* ClaimFirstSuperadmin, one guarded UPDATE. *)
ClaimFirstSuperadmin(c) ==
  /\ req[c].op \in {"login", "oidc"} /\ req[c].pc = "claim"
  /\ users' = IF NoOwner
              THEN [users EXCEPT ![req[c].user].role = "superadmin", ![req[c].user].manual = TRUE]
              ELSE users
  /\ Goto(c, "session") /\ OnlyUsers

CreateSession(c) ==
  /\ req[c].op \in {"login", "oidc"} /\ req[c].pc = "session"
  /\ session' = IF session = None THEN [user |-> req[c].user, valid |-> TRUE] ELSE session
  /\ Return(c) /\ UNCHANGED <<teams, born, users, members, keys, settings, rows, left, restarts>>

(* Logging out deletes the session of the cookie, whatever its age. *)
DeleteSession(c) ==
  /\ At(c, "logout", "delete")
  /\ session' \in {session, None}
  /\ Return(c) /\ UNCHANGED <<teams, born, users, members, keys, settings, rows, left, restarts>>

(* A session expires; its row stays. *)
Expire ==
  /\ session # None /\ session.valid
  /\ session' = [session EXCEPT !.valid = FALSE]
  /\ UNCHANGED <<teams, born, users, members, keys, settings, rows, req, left, restarts>>

(* A restart: every request dies; the schema step copies home teams into   *)
(* team_members, and the bootstrap key and the reserved team are restored. *)
Restart ==
  /\ restarts < MaxRestarts /\ restarts' = restarts + 1
  /\ req' = [c \in Callers |-> NoReq]
  /\ members' = members \cup {<<u, users[u].team>> : u \in {x \in DOMAIN users : users[x].team # None}}
  /\ keys' = IF Bootstrap \in DOMAIN keys THEN keys
             ELSE WithRow(keys, Bootstrap, [team |-> None, user |-> None, role |-> "superadmin"])
  /\ teams' = IF Unassigned \in DOMAIN teams THEN teams
              ELSE WithRow(teams, Unassigned, [enabled |-> TRUE, open |-> FALSE])
  /\ UNCHANGED <<born, users, settings, session, rows, left>>
-----------------------------------------------------------------------------
(* The first boot of an empty database. *)
Init ==
  /\ teams = [t \in {Unassigned} |-> [enabled |-> TRUE, open |-> FALSE]]
  /\ born = {Unassigned}
  /\ users = <<>> /\ members = {} /\ settings = {} /\ session = None /\ rows = {}
  /\ keys = [k \in {Bootstrap} |-> [team |-> None, user |-> None, role |-> "superadmin"]]
  /\ req = [c \in Callers |-> NoReq] /\ left = CallsOf /\ restarts = 0

TeamStep(c) == \/ CreateTeam(c) \/ UpdateTeam(c) \/ SetTeamEnabled(c)
               \/ CountRows(c) \/ DeleteSettings(c) \/ DeleteTeam(c)
               \/ MigrationTarget(c) \/ DeleteTeamMigrate(c)

UserStep(c) == \/ FindAssignee(c) \/ AssignUser(c) \/ CheckMoveTeam(c) \/ MoveUser(c)
               \/ CheckRoleScope(c) \/ SetUserRole(c)
               \/ \E op \in {"assignUser", "oidc"} :
                    LET next == IF op = "oidc" THEN "resolve" ELSE "assign"
                    IN  UpsertLook(c, op) \/ UpsertInsert(c, op, next) \/ UpsertUpdate(c, op, next)

GrantStep(c) == \/ CheckManage(c, "addMember", "write") \/ AddTeamMember(c)
                \/ CheckManage(c, "removeMember", "home") \/ CheckHome(c) \/ RemoveTeamMember(c)
                \/ CheckKeyUser(c) \/ CreateAPIKey(c) \/ CheckKeyTeam(c) \/ RevokeAPIKey(c)
                \/ PutTeamSettings(c) \/ StoreRow(c)

SignInStep(c) == \/ FindLocal(c) \/ FindByEmailOrSubject(c) \/ SkipAutoAssign(c) \/ ResolveTeam(c)
                 \/ AutoAssign(c) \/ ClaimFirstSuperadmin(c) \/ CreateSession(c) \/ DeleteSession(c)

Next == \/ \E c \in Callers : Enter(c) \/ TeamStep(c) \/ UserStep(c) \/ GrantStep(c) \/ SignInStep(c)
        \/ Expire
        \/ Restart

Spec == Init /\ [][Next]_vars
-----------------------------------------------------------------------------
(* Types, and referential integrity: no user, key or settings row ever      *)
(* names a team that does not exist, whatever deletions and migrations run  *)
(* while requests with an older context still write.                        *)
TypeOK ==
  /\ DOMAIN teams \subseteq born /\ born \subseteq TeamIds
  /\ \A t \in DOMAIN teams : teams[t] \in [enabled : BOOLEAN, open : BOOLEAN]
  /\ DOMAIN users \subseteq Emails /\ DOMAIN keys \subseteq KeyIds
  /\ \A u \in DOMAIN users : users[u] \in UserRows /\ users[u].team \in DOMAIN teams \cup {None}
  /\ \A k \in DOMAIN keys : /\ keys[k] \in KeyRows
                            /\ keys[k].team \in DOMAIN teams \cup {None}
                            /\ keys[k].user \in DOMAIN users \cup {None}
  /\ members \subseteq Emails \X TeamIds /\ settings \subseteq DOMAIN teams
  /\ session \in {None} \cup [user : DOMAIN users, valid : BOOLEAN]
  /\ rows \subseteq Kinds \X TeamIds

SigningIn(c) == req[c].op \in {"login", "oidc"} /\ req'[c] # req[c] /\ restarts' = restarts

(* A user an administrator assigned to a team stays there: no sign-in      *)
(* moves the user, however old the row is that it read                     *)
(* (auth_handlers.go:207-209, the guard of AutoAssignUserToTeam).           *)
ManualStands ==
  [][\A c \in Callers, u \in DOMAIN users :
       SigningIn(c) /\ users[u].manual => users'[u].team = users[u].team]_vars

(* Nobody hands out a role at or above their own, by any administrative     *)
(* request; only a superadmin makes a superadmin                            *)
(* (admin_handlers.go:512, "Callers may not grant a role >= their own       *)
(* rank").                                                                  *)
Raised(old, new, x, r) == /\ x \in DOMAIN new /\ new[x].role = r
                          /\ x \in DOMAIN old => old[x].role # r
GrantsBelowOwn ==
  [][\A c \in Callers, r \in Roles :
       /\ req[c].op \in {"assignUser", "setRole", "moveUser", "createKey"} /\ req'[c] # req[c]
       /\ \/ \E u \in Emails : Raised(users, users', u, r)
          \/ \E k \in KeyIds : restarts' = restarts /\ Raised(keys, keys', k, r)
       => \/ adminRoleRank[r] < adminRoleRank[req[c].tc.role]
          \/ req[c].tc.role = "superadmin"]_vars
=============================================================================
