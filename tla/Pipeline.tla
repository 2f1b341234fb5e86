------------------------------ MODULE Pipeline ------------------------------
(***************************************************************************)
(* The analysis pipeline (src/internal/pipeline/pipeline.go) and the       *)
(* tables it owns: pipeline_runs, clusters and dataset_snapshots           *)
(* (src/internal/storage/analysis.go).  One goroutine executes the runs;   *)
(* how a request reaches it is the subject of module PipelineTrigger.      *)
(*                                                                         *)
(* Between two store calls the process may stop at any time: main does not *)
(* wait for the pipeline when it shuts down.  A call named in Faults may   *)
(* also fail.  An administrator creates, deletes and merges teams          *)
(* meanwhile; the run keeps the team ID it was given.  Agents are the      *)
(* subject of module AgentRegistry.                                        *)
(***************************************************************************)
EXTENDS Naturals, Sequences, FiniteSets

CONSTANTS
  Teams,       \* team IDs
  Unassigned,  \* the reserved team of users without one (UnassignedTeamID)
  Unscoped,    \* the team ID "" of the fallback run
  None,        \* no run is executed
  Faults,      \* calls that may fail: a subset of Calls
  MaxRuns,     \* bound: rows of pipeline_runs
  MaxFound,    \* bound: cluster candidates per run
  MaxGone,     \* bound: team IDs that are gone
  MaxStops     \* bound: process stops

Calls == {"latestRun", "startRun", "listEntries", "summarize", "generateAgent", "deleteOld", "detectGaps",
          "latestSnapshot", "storeSnapshot", "finishRun", "ensureTeam", "backfill", "mark"}

ASSUME TeamsAssumption ==
  /\ Unassigned \in Teams
  /\ Unscoped \notin Teams
  /\ None \notin Teams \cup {Unscoped}
ASSUME FaultsAssumption == Faults \subseteq Calls
ASSUME BoundsAssumption ==
  MaxRuns \in Nat /\ MaxFound \in Nat /\ MaxGone \in Nat /\ MaxStops \in Nat

VARIABLES
  teams,      \* rows of the teams table
  runs,       \* pipeline_runs in insertion order: [team, status, prev, pred]
  clusters,   \* clusters: [run, n]; their team is not read here
  snaps,      \* dataset_snapshots: [team, version, run]
  up,         \* the process is running
  pc,         \* the goroutine: "idle", "teams", "start", "list", "cluster", "old",
              \* "snapshot", "finish"
  queue,      \* teams of this pass not yet run
  scope,      \* runForTeam's teamID, None between runs
  seen,       \* before the row is inserted: [prev, pred] of the new run
  version,    \* the version the next snapshot gets
  found,      \* candidates of this run not yet summarised
  errs,       \* runErrs is not empty
  stops,      \* history: process stops so far
  unmarked,   \* history: running rows whose end, or whose marking, could not be written
  gone,       \* history: team IDs that were deleted
  home,       \* history: where a team's rows have gone, itself while it exists
  mixed       \* history: teams whose snapshots are numbered from different counts

tables == <<runs, clusters, snaps>>
worker == <<pc, queue, scope, seen, version, found, errs>>
history == <<stops, unmarked>>
lineage == <<gone, home, mixed>>
admin == <<teams, lineage>>
vars == <<admin, tables, up, worker, history>>

Scopes == Teams \cup {Unscoped}
Statuses == {"running", "complete", "complete_with_errors", "failed"}
RunIds == 1..MaxRuns

\* A call in Faults may fail, any call may succeed.
MayFail(call) == call \in Faults

\* The run being executed is the last one inserted.
Current == Len(runs)
RunsOf(t) == {r \in 1..Len(runs) : t = Unscoped \/ runs[r].team = t}

Newest(S) == CHOOSE x \in S : \A y \in S : y <= x

\* GetLatestPipelineRun: the newest run of the team, whatever its status; the
\* newest run of all for team "".  0 stands for none.  Rows that start within
\* the same second are taken in the order of their insertion.
GetLatestPipelineRun(t) == IF RunsOf(t) = {} THEN 0 ELSE Newest(RunsOf(t))

\* GetLatestSnapshot(t).Version + 1, or 1 when there is none.
NextVersion(t) ==
  LET own == {s.version : s \in {x \in snaps : t = Unscoped \/ x.team = t}}
  IN  IF own = {} THEN 1 ELSE Newest(own) + 1

Nothing == [prev |-> 0, pred |-> 0]

\* The goroutine between runs, and before the first.
Idle ==
  /\ pc = "idle" /\ queue = {} /\ scope = None /\ seen = Nothing /\ version = 0
  /\ found = 0 /\ errs = FALSE

Init ==
  /\ teams \in SUBSET Teams
  /\ runs = <<>> /\ clusters = {} /\ snaps = {}
  /\ up = TRUE
  /\ Idle
  /\ stops = 0 /\ unmarked = {}
  /\ gone = {} /\ home = [t \in Teams |-> t] /\ mixed = {}

-----------------------------------------------------------------------------
(* Run and runForTeam. *)

\* A token or the ticker starts a pass: Run lists the teams and keeps the enabled
\* ones; an administrator may have enabled or disabled any of them before.  When
\* none is left, or the list failed, the pass is one unscoped run.
Begin ==
  /\ up /\ pc = "idle" /\ Len(runs) < MaxRuns
  /\ pc' = "teams"
  /\ \E enabled \in SUBSET teams : queue' = IF enabled = {} THEN {Unscoped} ELSE enabled
  /\ UNCHANGED <<admin, tables, up, scope, seen, version, found, errs, history>>

\* No run row: too few entries for an interval pass, or no LLM configured.
SkipTeam ==
  /\ up /\ pc = "teams"
  /\ \E t \in queue : queue' = queue \ {t}
  /\ UNCHANGED <<admin, tables, up, pc, scope, seen, version, found, errs, history>>

\* GetLatestPipelineRun, whose failure counts as no previous run.
LatestRun ==
  /\ up /\ pc = "teams" /\ Len(runs) < MaxRuns
  /\ \E t \in queue :
       /\ queue' = queue \ {t}
       /\ scope' = t
       /\ \E prev \in {GetLatestPipelineRun(t)} \cup (IF MayFail("latestRun") THEN {0} ELSE {}) :
            seen' = [prev |-> prev, pred |-> GetLatestPipelineRun(t)]
  /\ pc' = "start"
  /\ UNCHANGED <<admin, tables, up, version, found, errs, history>>

\* The team's part of the pass is over: its locals are gone.
LeaveTeam == pc' = "teams" /\ scope' = None /\ version' = 0 /\ found' = 0 /\ errs' = FALSE

StartFails ==
  /\ up /\ pc = "start" /\ MayFail("startRun")
  /\ seen' = Nothing
  /\ LeaveTeam
  /\ UNCHANGED <<admin, tables, up, queue, history>>

NewRun(prev) == [team |-> scope, status |-> "running", prev |-> prev, pred |-> seen.pred]

\* Mutant: the previous run is looked up after the new row is inserted.
StartRunPrevIsSelf ==
  /\ up /\ pc = "start"
  /\ runs' = Append(runs, NewRun(Len(runs) + 1))
  /\ seen' = Nothing
  /\ pc' = "list"
  /\ UNCHANGED <<admin, clusters, snaps, up, queue, scope, version, found, errs, history>>

\* StartPipelineRun
StartRun ==
  /\ up /\ pc = "start"
  /\ runs' = Append(runs, NewRun(seen.prev))
  /\ seen' = Nothing
  /\ pc' = "list"
  /\ UNCHANGED <<admin, clusters, snaps, up, queue, scope, version, found, errs, history>>

\* FinishPipelineRun for the current run; its failure leaves the row "running".
SetStatus(status) ==
  \/ /\ runs' = [runs EXCEPT ![Current].status = status]
     /\ UNCHANGED unmarked
  \/ /\ MayFail("finishRun")
     /\ unmarked' = unmarked \cup {Current}
     /\ UNCHANGED runs

\* ListEntries or GetAllEmbeddings fails: logFinish("failed") and return.
ListFails ==
  /\ up /\ pc = "list" /\ MayFail("listEntries")
  /\ SetStatus("failed")
  /\ LeaveTeam
  /\ UNCHANGED <<admin, clusters, snaps, up, queue, seen, stops>>

\* Cluster() returns any number of candidates.
ListEntries ==
  /\ up /\ pc = "list"
  /\ \E n \in 0..MaxFound : found' = n
  /\ pc' = "cluster"
  /\ UNCHANGED <<admin, tables, up, queue, scope, seen, version, errs, history>>

\* Mutant: a cluster is stored under the previous run's ID.
StoreClusterOldId ==
  /\ up /\ pc = "cluster" /\ found > 0
  /\ found' = found - 1
  /\ clusters' = clusters \cup {[run |-> runs[Current].prev, n |-> found]}
  /\ UNCHANGED <<admin, runs, snaps, up, pc, queue, scope, seen, version, errs, history>>

\* Summarize, score and store one candidate and generate its agent; the loop
\* counts an error of any of these and goes on.
StoreCluster ==
  /\ up /\ pc = "cluster" /\ found > 0
  /\ found' = found - 1
  /\ \/ /\ clusters' = clusters \cup {[run |-> Current, n |-> found]}
        /\ \/ UNCHANGED errs
           \/ MayFail("generateAgent") /\ errs' = TRUE
     \/ /\ MayFail("summarize")
        /\ errs' = TRUE
        /\ UNCHANGED clusters
  /\ UNCHANGED <<admin, runs, snaps, up, pc, queue, scope, seen, version, history>>

\* Mutant: the previous run's clusters are left in place.
DeleteOldForgets ==
  /\ up /\ pc = "cluster" /\ found = 0
  /\ pc' = "old"
  /\ UNCHANGED <<admin, tables, up, queue, scope, seen, version, found, errs, history>>

\* DeleteClustersByRunID(prevRunID), with a context of its own.
DeleteOld ==
  /\ up /\ pc = "cluster" /\ found = 0
  /\ pc' = "old"
  /\ \/ /\ clusters' = {c \in clusters : c.run # runs[Current].prev}
        /\ UNCHANGED errs
     \/ /\ MayFail("deleteOld") /\ runs[Current].prev # 0
        /\ errs' = TRUE
        /\ UNCHANGED clusters
  /\ UNCHANGED <<admin, runs, snaps, up, queue, scope, seen, version, found, history>>

\* GetLatestSnapshot fails: logFinish("failed") and return.
LatestSnapshotFails ==
  /\ up /\ pc = "old" /\ MayFail("latestSnapshot")
  /\ SetStatus("failed")
  /\ LeaveTeam
  /\ UNCHANGED <<admin, clusters, snaps, up, queue, seen, stops>>

\* Mutant: the version counts the team's runs instead of its snapshots.
LatestSnapshotRunVersion ==
  /\ up /\ pc = "old"
  /\ pc' = "snapshot"
  /\ version' = Cardinality(RunsOf(scope))
  /\ UNCHANGED errs \/ (MayFail("detectGaps") /\ errs' = TRUE)
  /\ UNCHANGED <<admin, tables, up, queue, scope, seen, found, history>>

\* DetectGaps, whose failure is counted, then GetLatestSnapshot.
LatestSnapshot ==
  /\ up /\ pc = "old"
  /\ pc' = "snapshot"
  /\ version' = NextVersion(scope)
  /\ UNCHANGED errs \/ (MayFail("detectGaps") /\ errs' = TRUE)
  /\ UNCHANGED <<admin, tables, up, queue, scope, seen, found, history>>

\* StoreSnapshot under the team ID and the version the run has in hand.
StoreSnapshot ==
  /\ up /\ pc = "snapshot"
  /\ pc' = "finish"
  /\ \/ /\ snaps' = snaps \cup {[team |-> scope, run |-> Current, version |-> version]}
        /\ UNCHANGED errs
     \/ MayFail("storeSnapshot") /\ errs' = TRUE /\ UNCHANGED snaps
  /\ UNCHANGED <<admin, runs, clusters, up, queue, scope, seen, version, found, history>>

FinishRun ==
  /\ up /\ pc = "finish"
  /\ SetStatus(IF errs THEN "complete_with_errors" ELSE "complete")
  /\ LeaveTeam
  /\ UNCHANGED <<admin, clusters, snaps, up, queue, seen, stops>>

EndPass ==
  /\ up /\ pc = "teams" /\ queue = {}
  /\ pc' = "idle"
  /\ UNCHANGED <<admin, tables, up, queue, scope, seen, version, found, errs, history>>

-----------------------------------------------------------------------------
(* Administration of teams. *)

\* POST /api/admin/teams: a fresh ID.
CreateTeam ==
  /\ up
  /\ \E t \in Teams \ (teams \cup gone) : teams' = teams \cup {t}
  /\ UNCHANGED <<lineage, tables, up, worker, history>>

RemoveTeam(t) ==
  /\ Cardinality(gone) < MaxGone
  /\ teams' = teams \ {t}
  /\ gone' = gone \cup {t}

\* DELETE of a team without data.  What it has is counted before, so it may have
\* clusters by now; runs and snapshots are not counted and stay under the ID.
DeleteTeam ==
  /\ up
  /\ \E t \in teams : RemoveTeam(t)
  /\ UNCHANGED <<home, mixed, tables, up, worker, history>>

SnapsOf(t) == {s \in snaps : s.team = t}

Migrate(from, to) ==
  /\ runs' = [r \in DOMAIN runs |-> [runs[r] EXCEPT !.team = IF @ = from THEN to ELSE @]]
  /\ snaps' = {[s EXCEPT !.team = IF @ = from THEN to ELSE @] : s \in snaps}
  /\ RemoveTeam(from)
  /\ home' = [t \in Teams |-> IF home[t] = from THEN home[to] ELSE home[t]]
  /\ mixed' = mixed \cup (IF SnapsOf(from) # {} THEN {to} ELSE {})
                    \cup (IF pc = "snapshot" /\ scope = from THEN {from} ELSE {})

\* One transaction moves the rows of a team to another and deletes the team; a
\* run of the team goes on under its old ID.  The target is looked up before the
\* transaction, and may be gone by then.
DeleteTeamMigrate ==
  /\ up
  /\ \E from \in teams, to \in teams \cup gone : from # to /\ Migrate(from, to)
  /\ UNCHANGED <<clusters, up, worker, history>>

Administer ==
  \/ CreateTeam \/ DeleteTeam \/ DeleteTeamMigrate

-----------------------------------------------------------------------------
(* Stops and restarts. *)

Stop ==
  /\ up /\ stops < MaxStops
  /\ up' = FALSE
  /\ stops' = stops + 1
  /\ pc' = "idle" /\ queue' = {} /\ scope' = None /\ seen' = Nothing /\ version' = 0
  /\ found' = 0 /\ errs' = FALSE
  /\ UNCHANGED <<admin, tables, unmarked>>

\* Mutant: rows left "running" by a dead process are not looked at.
BootWithoutMarking ==
  /\ ~up
  /\ up' = TRUE
  /\ UNCHANGED <<admin, tables, worker, history>>

\* The reserved team is there again after a boot, unless its creation fails.
EnsureUnassignedTeam ==
  \/ /\ teams' = teams \cup {Unassigned}
     /\ gone' = gone \ {Unassigned}
     /\ home' = [home EXCEPT ![Unassigned] = Unassigned]
  \/ MayFail("ensureTeam") /\ UNCHANGED <<teams, gone, home>>

\* BackfillTeamID: with exactly one team besides the unassigned one, the rows
\* of team "" become that team's.
RealTeams == teams \ {Unassigned}
Backfilled(t) == IF t = Unscoped /\ Cardinality(RealTeams) = 1
                 THEN CHOOSE x \in RealTeams : TRUE ELSE t

\* It goes from table to table and ends at the first that fails; main logs that.
BackfillTeamID(rows) ==
  \/ /\ snaps' = {[s EXCEPT !.team = Backfilled(@)] : s \in snaps}
     /\ mixed' = mixed \cup {Backfilled(s.team) : s \in SnapsOf(Unscoped)}
     /\ \/ rows = [r \in DOMAIN runs |-> [runs[r] EXCEPT !.team = Backfilled(@)]]
        \/ MayFail("backfill") /\ rows = runs
  \/ MayFail("backfill") /\ rows = runs /\ UNCHANGED <<snaps, mixed>>

\* MarkInterruptedRuns, whose failure is only logged.
Marked(status) == IF status = "running" THEN "failed" ELSE status

MarkInterruptedRuns(rows) ==
  \/ /\ runs' = [r \in DOMAIN rows |-> [rows[r] EXCEPT !.status = Marked(@)]]
     /\ unmarked' = {}
  \/ /\ MayFail("mark")
     /\ runs' = rows
     /\ unmarked' = {r \in DOMAIN rows : rows[r].status = "running"}

\* main: the reserved team, the team backfill, the marking of interrupted runs,
\* then the server.
Boot ==
  /\ ~up
  /\ up' = TRUE
  /\ EnsureUnassignedTeam
  /\ \E rows \in {runs, [r \in DOMAIN runs |-> [runs[r] EXCEPT !.team = Backfilled(@)]]} :
       BackfillTeamID(rows) /\ MarkInterruptedRuns(rows)
  /\ UNCHANGED <<clusters, worker, stops>>

Work ==
  \/ SkipTeam \/ LatestRun \/ StartFails \/ StartRun \/ ListFails \/ ListEntries
  \/ StoreCluster \/ DeleteOld \/ LatestSnapshotFails \/ LatestSnapshot \/ StoreSnapshot
  \/ FinishRun \/ EndPass

Next ==
  \/ Begin \/ Work
  \/ Administer \/ Stop \/ Boot

Spec == Init /\ [][Next]_vars

-----------------------------------------------------------------------------
(* Properties. *)

Busy == pc \in {"list", "cluster", "old", "snapshot", "finish"}

TypeOK ==
  /\ teams \subseteq Teams /\ gone \subseteq Teams \ teams
  /\ home \in [Teams -> Teams] /\ mixed \subseteq Scopes
  /\ runs \in Seq([team : Scopes, status : Statuses, prev : 0..MaxRuns, pred : 0..MaxRuns])
  /\ Len(runs) <= MaxRuns
  /\ clusters \subseteq [run : 1..Len(runs), n : 1..MaxFound]
  /\ snaps \subseteq [team : Scopes, run : 1..Len(runs), version : 1..MaxRuns]
  /\ pc \in {"idle", "teams", "start", "list", "cluster", "old", "snapshot", "finish"}
  /\ queue \subseteq Scopes /\ scope \in Scopes \cup {None}
  /\ seen \in [prev : 0..Len(runs), pred : 0..Len(runs)]
  /\ version \in 0..Len(runs)
  /\ found \in 0..MaxFound
  /\ {up, errs} \subseteq BOOLEAN
  /\ stops \in 0..MaxStops /\ unmarked \subseteq 1..Len(runs)

\* "so the runs list is honest" (main.go:158): while the server runs, a row is
\* "running" exactly when the pipeline is executing that run, or when the call
\* that should have ended it failed: FinishPipelineRun in this process, or the
\* marking at the last boot, whose failure main only logs (main.go:159-160).
RunsHonest ==
  up => \A r \in DOMAIN runs :
    runs[r].status = "running" <=> (Busy /\ r = Current) \/ r \in unmarked

\* A run that reports "complete" has stored exactly one snapshot and has
\* replaced the clusters of the run before it, although each of these steps may
\* fail and the run goes on (pipeline.go:364-408).  One failure the status does
\* not tell of: a run that could not look up the run before it takes it that
\* there is none and leaves its clusters (pipeline.go:246).
CompleteMeansDone ==
  \A r \in DOMAIN runs : runs[r].status = "complete" =>
    /\ Cardinality({s \in snaps : s.run = r}) = 1
    /\ \/ \A c \in clusters : c.run # runs[r].pred
       \/ runs[r].prev = 0 /\ runs[r].pred # 0

Home(t) == IF t = Unscoped THEN Unscoped ELSE home[t]

\* Clusters are removed only by a later run of the same team, or a later
\* unscoped one: no run deletes what it, a newer run or another team's run
\* stored.  A team and those merged into it are one team, even for a run that
\* still goes by an ID which is gone.
DeletesOnlyOlder ==
  [][\A c \in clusters : c \notin clusters' =>
       /\ c.run < Current
       /\ scope = Unscoped \/ Home(runs[c.run].team) = Home(scope)]_vars

\* A team's snapshots are numbered 1, 2, 3... without gap or repetition, over
\* failed runs, stops, unscoped passes and merges of other teams.  Not so where
\* it is given snapshots counted apart from its own: those of a team merged
\* into it (teams_sqlite.go:230), or of unscoped runs by the back-fill of the
\* only real team (sqlite.go:1077-1088); nor for a run that had read its
\* team's latest version when the team was merged away.
SnapshotsDense ==
  \A t \in Teams \ mixed : {s.version : s \in SnapsOf(t)} = 1..Cardinality(SnapsOf(t))
=============================================================================
