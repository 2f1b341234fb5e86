---------------------------- MODULE AgentRegistry ----------------------------
(***************************************************************************)
(* The agents and agent_versions tables and those who write them while the *)
(* server runs: the pipeline's generateAgent (pipeline.go:603-669), the    *)
(* refactor, publish and rename handlers (web/handlers.go:330-357,         *)
(* 399-531), the merge of two teams (teams_sqlite.go:151-264) and the      *)
(* back-fill at boot.  Generation and refactoring read an agent, upsert it *)
(* and record the version in three separate store calls, so that the       *)
(* writers interleave, each call may fail and the process may stop in      *)
(* between.                                                                *)
(***************************************************************************)
EXTENDS Naturals

CONSTANTS
  Ids,        \* agent IDs
  Domains,    \* knowledge domains
  Teams,      \* team IDs
  UnassignedTeam,  \* the reserved team of users without one
  NoTeam,     \* the team ID ""
  Scopes,     \* teams the pipeline runs for; may include NoTeam (fallback run)
  Editors,    \* concurrent refactor requests
  MaxGen,     \* bound: definitions the LLM writes
  MaxStops,   \* bound: process stops
  NoAgent     \* no agent: an unused ID, or none found

ASSUME TeamsAssumption == NoTeam \notin Teams /\ UnassignedTeam \in Teams
ASSUME BoundsAssumption == MaxGen \in Nat /\ MaxStops \in Nat
ASSUME ScopesAssumption == Scopes \subseteq Teams \cup {NoTeam}

VARIABLES
  teamRows,   \* rows of the teams table; a team is there before it is used
  agents,     \* per ID: a row, or NoAgent
  versions,   \* agent_versions: [agent, version, content]
  gens,       \* definitions written so far; the n-th has content n
  pipe,       \* the pipeline goroutine's locals in generateAgent
  edit,       \* per editor: the handler's locals
  lived,      \* history: every (agent, version, content) a row ever had
  missed,     \* history: [agent, version] whose version row was not written
  home,       \* history: where a team's agents have gone, itself while it exists
  stops       \* history: process stops so far

agentTables == <<agents, versions, lived, missed>>
admin == <<teamRows, home, stops>>
registryVars == <<agentTables, gens, pipe, edit, admin>>

Contents == 1..MaxGen
Status == {"draft", "published"}
Row == [domain : Domains, team : Teams \cup {NoTeam}, version : Nat \ {0},
        status : Status, content : Contents]
Version == [agent : Ids, version : Nat \ {0}, content : Contents]

ASSUME NoAgentAssumption == NoAgent \notin Row

Idle == [at |-> "idle"]
Live == {i \in Ids : agents[i] # NoAgent}

\* GetAgentByDomain: the IDs it may return; several only for team "".
Lookup(d, t) ==
  LET of(u) == {i \in Live : agents[i].domain = d /\ agents[i].team = u}
  IN  IF t = NoTeam THEN {i \in Live : agents[i].domain = d}
      ELSE IF of(t) # {} THEN of(t) ELSE of(NoTeam)

\* UNIQUE(domain, team_id) would reject this row under this ID.
Conflict(i, d, t) ==
  \E j \in Live \ {i} : agents[j].domain = d /\ agents[j].team = t

\* INSERT ... ON CONFLICT(id) DO UPDATE: an existing row keeps its domain, and
\* one that was deleted since it was read is there again.
Upsert(i, row) ==
  LET new == IF i \in Live THEN [row EXCEPT !.domain = agents[i].domain] ELSE row IN
  /\ ~Conflict(i, new.domain, new.team)
  /\ agents' = [agents EXCEPT ![i] = new]
  /\ lived' = lived \cup {[agent |-> i, version |-> new.version, content |-> new.content]}

\* INSERT OR IGNORE under UNIQUE(agent_id, version).  It may fail, and it does
\* so under the foreign key when the agent is gone.
StoreAgentVersion(i, v, c) ==
  \/ /\ i \in Live
     /\ versions' = IF \E x \in versions : x.agent = i /\ x.version = v THEN versions
                    ELSE versions \cup {[agent |-> i, version |-> v, content |-> c]}
     /\ UNCHANGED missed
  \/ missed' = missed \cup {[agent |-> i, version |-> v]} /\ UNCHANGED versions

RegistryInit ==
  /\ teamRows = Teams /\ home = [t \in Teams |-> t]
  /\ agents = [i \in Ids |-> NoAgent]
  /\ versions = {} /\ lived = {} /\ missed = {}
  /\ gens = 0 /\ stops = 0
  /\ pipe = Idle
  /\ edit = [e \in Editors |-> Idle]

-----------------------------------------------------------------------------
(* generateAgent. *)

\* The definition comes from the LLM or its cache; then the existing agent of
\* the cluster's domain is read.  A run goes on for a team deleted meanwhile.
GenerateRead(t, d) ==
  /\ pipe = Idle /\ gens < MaxGen
  /\ gens' = gens + 1
  /\ LET job(i, v, s) == [at |-> "read", team |-> t, domain |-> d, content |-> gens + 1,
                          id |-> i, version |-> v, status |-> s]
     IN  IF Lookup(d, t) = {} THEN pipe' = job(NoAgent, 1, "draft")
         ELSE \E i \in Lookup(d, t) :
                pipe' = job(i, agents[i].version + 1, agents[i].status)
  /\ UNCHANGED <<agentTables, edit, admin>>

\* Without an ID, UpsertAgent looks the domain up again before it makes one; a
\* UUID it makes was no agent's before.
Unused == {i \in Ids \ Live : \A x \in lived : x.agent # i}
Targets(job) ==
  IF job.id # NoAgent THEN {job.id}
  ELSE IF Lookup(job.domain, job.team) # {} THEN Lookup(job.domain, job.team)
  ELSE Unused

\* Mutant: the row keeps the version that was read.
RowOfReadVersion(job) == [domain |-> job.domain, team |-> job.team,
  version |-> job.version - 1, status |-> job.status, content |-> job.content]

RowOf(job) == [domain |-> job.domain, team |-> job.team, version |-> job.version,
               status |-> job.status, content |-> job.content]

\* Mutant: an agent of any team with the domain is taken over.
GenerateUpsertAnyTeam ==
  /\ pipe.at = "read"
  /\ \E i \in {j \in Live : agents[j].domain = pipe.domain} \cup Unused :
       /\ Upsert(i, RowOf(pipe))
       /\ pipe' = [at |-> "record", id |-> i, version |-> pipe.version,
                   content |-> pipe.content, team |-> pipe.team]
  /\ UNCHANGED <<versions, missed, gens, edit, admin>>

GenerateUpsert ==
  /\ pipe.at = "read"
  /\ \E i \in Targets(pipe) :
       /\ Upsert(i, RowOf(pipe))
       /\ pipe' = [at |-> "record", id |-> i, version |-> pipe.version,
                   content |-> pipe.content, team |-> pipe.team]
  /\ UNCHANGED <<versions, missed, gens, edit, admin>>

\* Mutant: the version is recorded although the agent was not saved.
GenerateRejectedRecords ==
  /\ pipe.at = "read" /\ pipe.id # NoAgent
  /\ StoreAgentVersion(pipe.id, pipe.version, pipe.content)
  /\ pipe' = Idle
  /\ UNCHANGED <<agents, lived, gens, edit, admin>>

\* The store, or its unique constraint, refuses the row: the cluster counts as
\* an error.
GenerateRejected ==
  /\ pipe.at = "read"
  /\ pipe' = Idle
  /\ UNCHANGED <<agentTables, gens, edit, admin>>

\* Mutant: the version row is skipped when the agent existed before.
GenerateRecordFirstOnly ==
  /\ pipe.at = "record"
  /\ IF pipe.version = 1 THEN StoreAgentVersion(pipe.id, pipe.version, pipe.content)
     ELSE UNCHANGED <<versions, missed>>
  /\ pipe' = Idle
  /\ UNCHANGED <<agents, lived, gens, edit, admin>>

\* The error is returned, but the agent has been saved.
GenerateRecord ==
  /\ pipe.at = "record"
  /\ StoreAgentVersion(pipe.id, pipe.version, pipe.content)
  /\ pipe' = Idle
  /\ UNCHANGED <<agents, lived, gens, edit, admin>>

-----------------------------------------------------------------------------
(* The handlers. *)

\* GetAgent; the LLM then works on this copy, and returns a draft without a
\* TeamID.
Revised(i) == [domain |-> agents[i].domain, team |-> NoTeam, status |-> "draft",
               version |-> agents[i].version + 1, content |-> gens + 1]

RefactorRead(e, i) ==
  /\ edit[e] = Idle /\ gens < MaxGen /\ i \in Live
  /\ gens' = gens + 1
  /\ edit' = [edit EXCEPT ![e] = [at |-> "read", id |-> i, row |-> Revised(i)]]
  /\ UNCHANGED <<agentTables, pipe, admin>>

RefactorUpsert(e) ==
  /\ edit[e].at = "read"
  /\ Upsert(edit[e].id, edit[e].row)
  /\ edit' = [edit EXCEPT ![e].at = "record"]
  /\ UNCHANGED <<versions, missed, gens, pipe, admin>>

RefactorRejected(e) ==
  /\ edit[e].at = "read"
  /\ edit' = [edit EXCEPT ![e] = Idle]
  /\ UNCHANGED <<agentTables, gens, pipe, admin>>

\* The error is ignored.
RefactorRecord(e) ==
  /\ edit[e].at = "record"
  /\ StoreAgentVersion(edit[e].id, edit[e].row.version, edit[e].row.content)
  /\ edit' = [edit EXCEPT ![e] = Idle]
  /\ UNCHANGED <<agents, lived, gens, pipe, admin>>

PublishAgent(i) ==
  /\ i \in Live
  /\ agents' = [agents EXCEPT ![i].status = "published"]
  /\ UNCHANGED <<versions, missed, gens, pipe, edit, lived, admin>>

\* RenameDomain: one transaction, refused if the team has an agent under new.
RenameDomain(t, old, new) ==
  /\ old # new
  /\ ~\E i \in Live : agents[i].domain = new /\ agents[i].team = t
  /\ agents' = [i \in Ids |-> IF i \in Live /\ agents[i].domain = old /\ agents[i].team = t
                              THEN [agents[i] EXCEPT !.domain = new] ELSE agents[i]]
  /\ UNCHANGED <<versions, missed, gens, pipe, edit, lived, admin>>

-----------------------------------------------------------------------------
(* The administrator of teams, and the process. *)

\* A team counted as empty is deleted; it may have agents by now, which stay.
DeleteEmptyTeam(t) ==
  /\ t \in teamRows
  /\ teamRows' = teamRows \ {t}
  /\ UNCHANGED <<agentTables, gens, pipe, edit, home, stops>>

\* The agents of team s whose domain team t has too.
Doubled(s, t) ==
  {i \in Live : agents[i].team = s /\ \E j \in Live : agents[j].team = t
                                                      /\ agents[j].domain = agents[i].domain}

Migrated(i, s, t) ==
  IF i \in Doubled(s, t) THEN NoAgent
  ELSE IF i \in Live /\ agents[i].team = s THEN [agents[i] EXCEPT !.team = t] ELSE agents[i]

\* One transaction.  The target was looked up before, and may be gone by now.
MigrateAgents(s, t) ==
  /\ s \in teamRows /\ s # t
  /\ versions' = {x \in versions : x.agent \notin Doubled(s, t)}
  /\ agents' = [i \in Ids |-> Migrated(i, s, t)]
  /\ teamRows' = teamRows \ {s}
  /\ home' = [u \in Teams |-> IF home[u] = s THEN t ELSE home[u]]
  /\ UNCHANGED <<lived, missed, gens, pipe, edit, stops>>

RealTeams == teamRows \ {UnassignedTeam}
Backfilled(i, t) ==
  IF i \in Live /\ agents[i].team = NoTeam THEN [agents[i] EXCEPT !.team = t] ELSE agents[i]

\* The process stops and boots: the reserved team is there again, and with one
\* team besides it the agents of no team become that team's, unless the
\* statement fails, as it does when the team has one of their domains.
Stop ==
  /\ stops < MaxStops
  /\ stops' = stops + 1
  /\ missed' = missed \cup (IF pipe.at = "record" THEN {[agent |-> pipe.id, version |-> pipe.version]} ELSE {})
                      \cup {[agent |-> edit[e].id, version |-> edit[e].row.version] :
                              e \in {f \in Editors : edit[f].at = "record"}}
  /\ pipe' = Idle
  /\ edit' = [e \in Editors |-> Idle]
  /\ teamRows' = teamRows \cup {UnassignedTeam}
  /\ home' = [home EXCEPT ![UnassignedTeam] = UnassignedTeam]
  /\ \/ UNCHANGED agents
     \/ \E t \in Teams :
          /\ RealTeams = {t}
          /\ \A i, j \in Live : agents[i].team = NoTeam /\ agents[j].team = t
                                => agents[i].domain # agents[j].domain
          /\ agents' = [i \in Ids |-> Backfilled(i, t)]
  /\ UNCHANGED <<versions, gens, lived>>

RegistryNext ==
  \/ \E t \in Scopes, d \in Domains : GenerateRead(t, d)
  \/ GenerateUpsert \/ GenerateRejected \/ GenerateRecord
  \/ \E e \in Editors : \E i \in Ids : RefactorRead(e, i)
  \/ \E e \in Editors : RefactorUpsert(e) \/ RefactorRejected(e) \/ RefactorRecord(e)
  \/ \E i \in Ids : PublishAgent(i)
  \/ \E t \in Teams \cup {NoTeam}, old, new \in Domains : RenameDomain(t, old, new)
  \/ \E t \in Teams : DeleteEmptyTeam(t)
  \/ \E s, t \in Teams : MigrateAgents(s, t)
  \/ Stop

RegistrySpec == RegistryInit /\ [][RegistryNext]_registryVars

-----------------------------------------------------------------------------
(* Properties. *)

RegistryTypeOK ==
  /\ teamRows \subseteq Teams /\ home \in [Teams -> Teams]
  /\ agents \in [Ids -> Row \cup {NoAgent}]
  /\ versions \subseteq Version /\ lived \subseteq Version
  /\ gens \in 0..MaxGen
  /\ pipe.at \in {"idle", "read", "record"}
  /\ \A e \in Editors : edit[e].at \in {"idle", "read", "record"}
  /\ stops \in 0..MaxStops

\* Some writer still has to record version v of agent i.
Recording(i, v) ==
  \/ pipe.at = "record" /\ pipe.id = i /\ pipe.version = v
  \/ \E e \in Editors : edit[e].at = "record" /\ edit[e].id = i /\ edit[e].row.version = v

Recorded(i, v) == \E x \in versions : x.agent = i /\ x.version = v

\* The history shows only definitions that were in force: a version row was the
\* agent's definition under that number at some time, whoever wrote, renamed or
\* merged in between and wherever a writer failed or was stopped.  And every
\* agent's current version has a row, or is about to get one, unless the row
\* itself could not be written (handlers.go:453, pipeline.go:645-654) or the
\* process stopped before it.
HistorySound ==
  /\ versions \subseteq lived
  /\ \A i \in Live :
       \/ Recording(i, agents[i].version)
       \/ Recorded(i, agents[i].version)
       \/ [agent |-> i, version |-> agents[i].version] \in missed

\* Whose agents a run for team t may save over: its own, those of no team, and
\* once it has been merged away also those of the team its agents went to.
Reach(t) == {t, NoTeam} \cup (IF t \in teamRows THEN {} ELSE {home[t]})

\* The pipeline, running for a team, changes only agents within that team's
\* reach, even if the agent was refactored, renamed, deleted or merged into
\* another team between its read and its upsert (agents_sqlite.go:14-16).
PipelineStaysInTeam ==
  [][\A i \in Live :
       pipe.at = "read" /\ pipe'.at = "record" /\ pipe.team # NoTeam /\ agents'[i] # agents[i] =>
         agents[i].team \in Reach(pipe.team)]_registryVars

\* "Each team owns its own agent per domain" (agents_sqlite.go:15): once an
\* agent belongs to a team it never belongs to another, or to none.
AgentKeepsTeam ==
  [][\A i \in Live \cap Live' :
       agents[i].team # NoTeam => agents'[i].team = agents[i].team]_registryVars
=============================================================================
