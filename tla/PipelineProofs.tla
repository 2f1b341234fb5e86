---------------------------- MODULE PipelineProofs ----------------------------
(***************************************************************************)
(* TLAPS proofs about Pipeline, for any teams, faults and bounds: the rows *)
(* of pipeline_runs are honest, a completed run has done its work, a run   *)
(* deletes only what an older run of its team stored, and the snapshots of *)
(* a team are numbered densely.                                            *)
(***************************************************************************)
EXTENDS Pipeline, FiniteSetTheorems, SequenceTheorems, WellFoundedInduction, TLAPS

(***************************************************************************)
(* Inductive invariant.  A run row refers to an older one, of its team or  *)
(* of one merged with it; the row of the run being executed is not marked; *)
(* the version of a snapshot is at most the number of the run that stored  *)
(* it, no run has stored two, and a version in hand follows those of its   *)
(* team.  While a run has no error on record, what it has passed is done.  *)
(***************************************************************************)
RunRow == [team : Scopes, status : Statuses, prev : 0..MaxRuns, pred : 0..MaxRuns]
SnapRow == [team : Scopes, run : 1..Len(runs), version : 1..MaxRuns]

TablesTyped ==
  /\ runs \in Seq(RunRow) /\ Len(runs) <= MaxRuns
  /\ clusters \subseteq [run : 1..Len(runs), n : 1..MaxFound]
  /\ snaps \subseteq SnapRow
  /\ unmarked \subseteq 1..Len(runs)

TeamsTyped ==
  /\ teams \subseteq Teams /\ gone \subseteq Teams \ teams
  /\ home \in [Teams -> Teams] /\ mixed \subseteq Scopes

WorkTyped ==
  /\ pc \in {"idle", "teams", "start", "list", "cluster", "old", "snapshot", "finish"}
  /\ queue \subseteq Scopes /\ scope \in Scopes \cup {None}
  /\ seen \in [prev : 0..Len(runs), pred : 0..Len(runs)]
  /\ version \in 0..Len(runs)
  /\ found \in 0..MaxFound
  /\ up \in BOOLEAN /\ errs \in BOOLEAN
  /\ stops \in 0..MaxStops

ControlInv ==
  /\ ~up => pc = "idle"
  /\ pc = "start" \/ Busy => scope \in Scopes
  /\ pc = "start" => Len(runs) < MaxRuns /\ seen.prev \in {0, seen.pred}
  /\ Busy => Current \in 1..Len(runs) /\ Current \notin unmarked

RunsInv ==
  /\ \A r \in 1..Len(runs) : runs[r].pred < r /\ runs[r].prev \in {0, runs[r].pred}
  /\ RunsHonest

SameTeam(r, t) == t = Unscoped \/ Home(runs[r].team) = Home(t)

LineageInv ==
  /\ \A t \in Teams \ gone : home[t] = t
  /\ pc = "start" /\ seen.prev # 0 => SameTeam(seen.prev, scope)
  /\ Busy /\ runs[Current].prev # 0 => SameTeam(runs[Current].prev, scope)

SnapsInv ==
  /\ IsFiniteSet(snaps)
  /\ \A s \in snaps : s.version <= s.run
  /\ \A s, x \in snaps : s.run = x.run => s = x
  /\ pc \in {"list", "cluster", "old", "snapshot"} => \A s \in snaps : s.run # Current
  /\ pc = "snapshot" => version \in 1..Current
  /\ pc = "snapshot" /\ scope \in Teams \ mixed => version = Cardinality(SnapsOf(scope)) + 1
  /\ SnapshotsDense

Replaced(r) == (\A c \in clusters : c.run # runs[r].pred) \/ (runs[r].prev = 0 /\ runs[r].pred # 0)
Recorded(r) == \E s \in snaps : s.run = r

DoneInv ==
  /\ \A r \in 1..Len(runs) : runs[r].status = "complete" => Replaced(r) /\ Recorded(r)
  /\ pc \in {"old", "snapshot", "finish"} /\ ~errs => Replaced(Current)
  /\ pc = "finish" /\ ~errs => Recorded(Current)

PipelineInv ==
  /\ TypeOK /\ ControlInv /\ RunsInv /\ LineageInv /\ SnapsInv /\ DoneInv

-----------------------------------------------------------------------------
(* The newest run and the newest snapshot exist: sets of natural numbers    *)
(* have a least element, and bounded ones a greatest.                       *)

LEMMA NatLeast ==
  ASSUME NEW S \in SUBSET Nat, S # {}
  PROVE  \E x \in S : \A y \in S : x <= y
<1> DEFINE R == {ss \in Nat \X Nat : ss[1] < ss[2]}
<1>1. R = OpToRel(<, Nat)
  BY Zenon DEF OpToRel
<1>2. IsWellFoundedOn(R, Nat)
  BY <1>1, NatLessThanWellFounded, Zenon
<1> HIDE DEF R
<1>3. PICK x \in S : \A y \in S : <<y, x>> \notin R
  BY <1>2, WFMin
<1>4. \A y \in S : <<y, x>> \in R <=> y < x
  BY DEF R
<1>5. \A y \in S : ~(y < x)
  BY <1>3, <1>4
<1>6. x \in Nat /\ \A y \in S : y \in Nat
  OBVIOUS
<1> QED BY <1>5, <1>6

\* What Newest returns for the runs and versions it is asked about.
LEMMA NewestIsGreatest ==
  ASSUME NEW S, S # {}, NEW N \in Nat, S \subseteq 0..N
  PROVE  Newest(S) \in S /\ \A y \in S : y <= Newest(S)
<1> DEFINE T == {n \in Nat : \E x \in S : n + x = N}
<1>1. T \in SUBSET Nat
  OBVIOUS
<1>2. \A x \in S : N - x \in T
  OBVIOUS
<1>3. T # {}
  BY <1>2
<1>4. PICK n \in T : \A m \in T : n <= m
  <2> HIDE DEF T
  <2> QED BY <1>1, <1>3, NatLeast
<1>5. PICK x \in S : n + x = N
  BY <1>4
<1>6. \A y \in S : y <= x
  <2> SUFFICES ASSUME NEW y \in S PROVE y <= x
    OBVIOUS
  <2>1. n <= N - y
    BY <1>2, <1>4
  <2>2. n \in Nat /\ x \in Nat /\ y \in Nat
    OBVIOUS
  <2> QED BY <2>1, <2>2, <1>5
<1> QED BY <1>6 DEF Newest

LEMMA LatestRunIsOlder ==
  ASSUME TypeOK, NEW t
  PROVE  \/ GetLatestPipelineRun(t) = 0
         \/ GetLatestPipelineRun(t) \in RunsOf(t)
<1>1. Len(runs) \in Nat
  BY DEF TypeOK
<1>2. RunsOf(t) \subseteq 0..Len(runs)
  BY <1>1 DEF RunsOf
<1>3. RunsOf(t) # {} => Newest(RunsOf(t)) \in RunsOf(t)
  BY <1>1, <1>2, NewestIsGreatest
<1> QED BY <1>3 DEF GetLatestPipelineRun

\* The next version exceeds those of the team by one; it is at most the number
\* of a run that has stored no snapshot yet.
LEMMA NextVersionBounded ==
  ASSUME TypeOK, SnapsInv, NEW t, NEW n \in Nat \ {0}, \A s \in snaps : s.run < n
  PROVE  NextVersion(t) \in 1..n
<1> DEFINE own == {s.version : s \in {x \in snaps : t = Unscoped \/ x.team = t}}
<1>1. \A v \in own : v \in 1..(n - 1)
  <2> SUFFICES ASSUME NEW s \in snaps PROVE s.version \in 1..(n - 1)
    OBVIOUS
  <2>1. s.version \in Nat /\ s.version >= 1 /\ s.run \in Nat /\ s.run < n /\ s.version <= s.run
    BY BoundsAssumption DEF TypeOK, SnapsInv
  <2> QED BY <2>1
<1>2. own \subseteq 0..(n - 1) /\ n - 1 \in Nat
  BY <1>1
<1> HIDE DEF own
<1>3. own # {} => Newest(own) \in own
  BY <1>2, NewestIsGreatest
<1>4. NextVersion(t) = IF own = {} THEN 1 ELSE Newest(own) + 1
  BY DEF NextVersion, own
<1> QED BY <1>1, <1>3, <1>4

-----------------------------------------------------------------------------
LEMMA TypesSplit == TypeOK <=> TablesTyped /\ TeamsTyped /\ WorkTyped
<1>1. up \in BOOLEAN /\ errs \in BOOLEAN <=> {up, errs} \subseteq BOOLEAN
  BY Zenon
<1> QED BY <1>1 DEF TypeOK, TablesTyped, TeamsTyped, WorkTyped, RunRow, SnapRow

LEMMA TypesSplitNext == TypeOK' <=> TablesTyped' /\ TeamsTyped' /\ WorkTyped'
BY TypesSplit, PTL

LEMMA LenIsNat == TablesTyped => Len(runs) \in Nat /\ DOMAIN runs = 1..Len(runs)
BY LenProperties DEF TablesTyped

LEMMA InitPipelineInv == Init => PipelineInv
<1> SUFFICES ASSUME Init PROVE PipelineInv
  OBVIOUS
<1>1. Len(runs) = 0 /\ pc = "idle" /\ snaps = {} /\ unmarked = {}
  BY DEF Init, Idle
<1>2. TypeOK
  <2>1. TablesTyped
    BY BoundsAssumption, EmptySeq DEF Init, TablesTyped
  <2>2. TeamsTyped
    BY DEF Init, TeamsTyped
  <2>3. WorkTyped
    <3>1. errs \in BOOLEAN /\ up \in BOOLEAN
      BY DEF Init, Idle
    <3>2. seen \in [prev : 0..Len(runs), pred : 0..Len(runs)] /\ version \in 0..Len(runs)
      BY <1>1 DEF Init, Idle, Nothing
    <3>3. found \in 0..MaxFound /\ stops \in 0..MaxStops
      BY BoundsAssumption DEF Init, Idle
    <3> QED BY <1>1, <3>1, <3>2, <3>3 DEF Init, Idle, WorkTyped
  <2> QED BY <2>1, <2>2, <2>3, TypesSplit
<1>3. ControlInv
  BY <1>1 DEF Init, ControlInv, Busy
<1>4. RunsInv
  BY <1>1 DEF Init, RunsInv, Busy, RunsHonest
<1>5. LineageInv
  BY <1>1 DEF Init, LineageInv, Busy
<1>6. SnapsInv
  <2>1. \A t : SnapsOf(t) = {}
    BY <1>1 DEF SnapsOf
  <2>2. \A S : S = {} => {s.version : s \in S} = 1..Cardinality(S)
    BY FS_EmptySet
  <2>3. SnapshotsDense
    BY <2>1, <2>2 DEF SnapshotsDense
  <2> QED BY <1>1, <2>3, FS_EmptySet DEF SnapsInv
<1>7. DoneInv
  BY <1>1 DEF DoneInv
<1> QED BY <1>2, <1>3, <1>4, <1>5, <1>6, <1>7 DEF PipelineInv

\* What a step keeps that leaves alone what the rows and the run rest on.
LEMMA RowsFrame ==
  ASSUME PipelineInv, UNCHANGED <<tables, unmarked, up, errs, scope, gone, home, mixed>>,
         pc' = pc /\ UNCHANGED <<seen, version>>
  PROVE  ControlInv' /\ RunsInv' /\ LineageInv' /\ SnapsInv' /\ DoneInv'
<1>1. ControlInv' /\ RunsInv'
  BY DEF PipelineInv, ControlInv, RunsInv, RunsHonest, Busy, Current, tables
<1>2. LineageInv'
  BY DEF PipelineInv, LineageInv, SameTeam, Home, Busy, Current, tables
<1>3. SnapsInv'
  BY DEF PipelineInv, SnapsInv, SnapshotsDense, SnapsOf, Current, tables
<1>4. DoneInv'
  BY DEF PipelineInv, DoneInv, Replaced, Recorded, Current, tables
<1> QED BY <1>1, <1>2, <1>3, <1>4

\* Between runs nothing is asked of the goroutine's locals.
LEMMA RestFrame ==
  ASSUME PipelineInv, UNCHANGED <<tables, unmarked, up, gone, home, mixed>>, up,
         ~Busy, pc' \in {"idle", "teams"}
  PROVE  ControlInv' /\ RunsInv' /\ LineageInv' /\ SnapsInv' /\ DoneInv'
<1>1. ControlInv' /\ RunsInv'
  BY DEF PipelineInv, ControlInv, RunsInv, RunsHonest, Busy, Current, tables
<1>2. LineageInv'
  BY DEF PipelineInv, LineageInv, Busy, tables
<1>3. SnapsInv'
  BY DEF PipelineInv, SnapsInv, SnapshotsDense, SnapsOf, tables
<1>4. DoneInv'
  BY DEF PipelineInv, DoneInv, Replaced, Recorded, tables
<1> QED BY <1>1, <1>2, <1>3, <1>4

LEMMA PassSteps ==
  ASSUME PipelineInv, Begin \/ SkipTeam \/ EndPass \/ StartFails
  PROVE  PipelineInv'
<1>1. TablesTyped /\ TeamsTyped /\ WorkTyped
  BY TypesSplit DEF PipelineInv
<1>2. /\ UNCHANGED <<admin, tables, up, history>> /\ up
      /\ ~Busy /\ pc' \in {"idle", "teams"}
  BY DEF Begin, SkipTeam, EndPass, StartFails, LeaveTeam, Busy
<1>3. queue' \subseteq Scopes
  <2>1. CASE Begin
    BY <1>1, <2>1 DEF Begin, TeamsTyped, Scopes
  <2>2. CASE SkipTeam \/ EndPass \/ StartFails
    BY <1>1, <2>2 DEF SkipTeam, EndPass, StartFails, WorkTyped
  <2> QED BY <2>1, <2>2
<1>4. TablesTyped'
  BY <1>1, <1>2 DEF TablesTyped, SnapRow, tables, history
<1>5. TeamsTyped'
  BY <1>1, <1>2 DEF TeamsTyped, admin, lineage
<1>6. WorkTyped'
  <2>1. CASE StartFails
    <3>1. Len(runs') = Len(runs) /\ Len(runs) \in Nat
      BY <1>1, <1>2, LenIsNat DEF tables
    <3>2. found' \in 0..MaxFound
      BY <2>1, BoundsAssumption DEF StartFails, LeaveTeam
    <3>4. errs' \in BOOLEAN
      BY <2>1, Zenon DEF StartFails, LeaveTeam
    <3>3. seen' \in [prev : 0..Len(runs'), pred : 0..Len(runs')] /\ version' \in 0..Len(runs')
      BY <2>1, <3>1 DEF StartFails, LeaveTeam, Nothing
    <3> QED BY <1>1, <1>2, <1>3, <2>1, <3>2, <3>3, <3>4 DEF WorkTyped, StartFails, LeaveTeam, history
  <2>2. CASE Begin \/ SkipTeam \/ EndPass
    BY <1>1, <1>2, <1>3, <2>2 DEF WorkTyped, Begin, SkipTeam, EndPass, tables, history
  <2> QED BY <2>1, <2>2
<1>7. TypeOK'
  BY <1>4, <1>5, <1>6, TypesSplitNext
<1> QED BY <1>2, <1>7, RestFrame DEF PipelineInv, admin, lineage, history

LEMMA RowsTyped ==
  ASSUME TablesTyped, NEW r \in 1..Len(runs)
  PROVE  /\ runs[r] \in RunRow
         /\ runs[r].team \in Scopes /\ runs[r].status \in Statuses
         /\ runs[r].prev \in Nat /\ runs[r].pred \in Nat
<1>1. runs[r] \in RunRow
  BY ElementOfSeq DEF TablesTyped
<1>2. \A n \in 0..MaxRuns : n \in Nat
  OBVIOUS
<1> QED BY <1>1, <1>2 DEF RunRow

\* The run before, if it can be looked up, is one of the team's.
LEMMA LatestRunStep ==
  ASSUME PipelineInv, LatestRun
  PROVE  PipelineInv'
<1>1. TablesTyped /\ TeamsTyped /\ WorkTyped /\ TypeOK
  BY TypesSplit DEF PipelineInv
<1>2. PICK t \in queue : /\ queue' = queue \ {t} /\ scope' = t
                         /\ \E prev \in {GetLatestPipelineRun(t), 0} :
                              seen' = [prev |-> prev, pred |-> GetLatestPipelineRun(t)]
  BY DEF LatestRun
<1>3. PICK prev \in {GetLatestPipelineRun(t), 0} :
        seen' = [prev |-> prev, pred |-> GetLatestPipelineRun(t)]
  BY <1>2
<1> DEFINE pred == GetLatestPipelineRun(t)
<1>4. pred = 0 \/ pred \in RunsOf(t)
  BY <1>1, LatestRunIsOlder
<1> HIDE DEF pred
<1>5. seen' = [prev |-> prev, pred |-> pred] /\ prev \in {pred, 0}
  BY <1>3 DEF pred
<1>6. t \in Scopes
  BY <1>1, <1>2 DEF WorkTyped
<1>7. UNCHANGED <<admin, tables, up, version, found, errs, history>> /\ up /\ pc' = "start"
      /\ pc = "teams" /\ Len(runs) < MaxRuns
  BY DEF LatestRun
<1>8. pred \in 0..Len(runs)
  BY <1>1, <1>4, LenIsNat DEF RunsOf
<1>9. TypeOK'
  <2>1. TablesTyped'
    BY <1>1, <1>7 DEF TablesTyped, SnapRow, tables, history
  <2>2. TeamsTyped'
    BY <1>1, <1>7 DEF TeamsTyped, admin, lineage
  <2>3. WorkTyped'
    <3>1. seen' \in [prev : 0..Len(runs), pred : 0..Len(runs)]
      BY <1>1, <1>5, <1>8, LenIsNat
    <3> QED BY <1>1, <1>2, <1>6, <1>7, <3>1 DEF WorkTyped, tables, history
  <2> QED BY <2>1, <2>2, <2>3, TypesSplitNext
<1>10. ControlInv' /\ RunsInv'
  BY <1>2, <1>5, <1>6, <1>7 DEF PipelineInv, ControlInv, RunsInv, RunsHonest, Busy, Current, tables, history
<1>11. LineageInv'
  <2>1. prev # 0 => t = Unscoped \/ runs[prev].team = t
    BY <1>4, <1>5 DEF RunsOf
  <2>2. prev # 0 => SameTeam(prev, t)'
    BY <1>7, <2>1 DEF SameTeam, Home, tables
  <2> QED BY <1>2, <1>5, <1>7, <2>2 DEF PipelineInv, LineageInv, Busy, SameTeam, admin, lineage
<1>12. SnapsInv'
  BY <1>7 DEF PipelineInv, SnapsInv, SnapshotsDense, SnapsOf, tables, admin, lineage
<1>13. DoneInv'
  BY <1>7 DEF PipelineInv, DoneInv, Replaced, Recorded, tables
<1> QED BY <1>9, <1>10, <1>11, <1>12, <1>13 DEF PipelineInv

\* A run begins under a number that nothing refers to yet.
LEMMA StartRunStep ==
  ASSUME PipelineInv, StartRun
  PROVE  PipelineInv'
<1>1. TablesTyped /\ TeamsTyped /\ WorkTyped /\ ControlInv /\ RunsInv
  BY TypesSplit DEF PipelineInv
<1> DEFINE new == [team |-> scope, status |-> "running", prev |-> seen.prev, pred |-> seen.pred]
           n == Len(runs)
<1>2. runs' = Append(runs, new)
  BY DEF StartRun, NewRun
<1>3. UNCHANGED <<admin, clusters, snaps, up, queue, scope, version, found, errs, history>>
      /\ up /\ pc = "start" /\ pc' = "list" /\ seen' = Nothing
  BY DEF StartRun
<1>4. n \in Nat /\ n < MaxRuns /\ seen.prev \in 0..n /\ seen.pred \in 0..n
      /\ seen.prev \in {0, seen.pred} /\ scope \in Scopes
  BY <1>1, <1>3, LenIsNat DEF ControlInv, WorkTyped
<1>5. new \in RunRow
  BY <1>4, BoundsAssumption DEF RunRow, Statuses
<1>6. runs \in Seq(RunRow)
  BY <1>1 DEF TablesTyped
<1>7. runs' \in Seq(RunRow) /\ Len(runs') = n + 1
      /\ runs'[n + 1] = new /\ \A r \in 1..n : runs'[r] = runs[r]
  BY <1>2, <1>5, <1>6
<1>8. new.team = scope /\ new.status = "running" /\ new.prev = seen.prev /\ new.pred = seen.pred
  OBVIOUS
<1> HIDE DEF new
<1>9. TypeOK'
  <2>1. TablesTyped'
    BY <1>1, <1>3, <1>4, <1>7, BoundsAssumption DEF TablesTyped, SnapRow, history
  <2>2. TeamsTyped'
    BY <1>1, <1>3 DEF TeamsTyped, admin, lineage
  <2>3. WorkTyped'
    BY <1>1, <1>3, <1>4, <1>7 DEF WorkTyped, Nothing, history
  <2> QED BY <2>1, <2>2, <2>3, TypesSplitNext
<1>10. Current' = n + 1 /\ n + 1 \notin unmarked
  BY <1>1, <1>4, <1>7 DEF TablesTyped, Current
<1>11. ControlInv'
  BY <1>3, <1>4, <1>7, <1>10 DEF ControlInv, Busy, history
<1>12. RunsInv'
  <2>1. \A r \in 1..Len(runs)' : runs'[r].pred < r /\ runs'[r].prev \in {0, runs'[r].pred}
    <3> SUFFICES ASSUME NEW r \in 1..(n + 1)
                 PROVE  runs'[r].pred < r /\ runs'[r].prev \in {0, runs'[r].pred}
      BY <1>7
    <3>1. CASE r = n + 1
      BY <1>4, <1>7, <1>8, <3>1
    <3>2. CASE r \in 1..n
      BY <1>1, <1>7, <3>2 DEF RunsInv
    <3> HIDE DEF n
    <3> QED BY <1>4, <3>1, <3>2
  <2>2. RunsHonest'
    <3>1. \A r \in 1..n : runs[r].status = "running" <=> r \in unmarked
      BY <1>1, <1>3, LenIsNat DEF RunsInv, RunsHonest, Busy
    <3>2. Busy'
      BY <1>3 DEF Busy
    <3>3. DOMAIN runs' = 1..(n + 1)
      BY <1>7, LenProperties
    <3> HIDE DEF n
    <3>4. ASSUME NEW r \in 1..(n + 1)
          PROVE  runs'[r].status = "running" <=> r = n + 1 \/ r \in unmarked
      <4>1. CASE r = n + 1
        BY <1>7, <1>8, <4>1
      <4>2. CASE r \in 1..n
        BY <1>4, <1>7, <3>1, <4>2
      <4> QED BY <1>4, <4>1, <4>2
    <3> QED BY <1>3, <1>10, <3>2, <3>3, <3>4 DEF RunsHonest, history
  <2> QED BY <2>1, <2>2 DEF RunsInv
<1>13. LineageInv'
  <2>1. PICK p \in 0..n : p = seen.prev
    BY <1>4
  <2>2. runs'[n + 1].prev = p
    BY <1>7, <1>8, <2>1
  <2>3. p # 0 => SameTeam(p, scope)'
    <3> SUFFICES ASSUME p # 0 PROVE SameTeam(p, scope)'
      OBVIOUS
    <3>1. SameTeam(p, scope)
      BY <1>3, <2>1 DEF PipelineInv, LineageInv
    <3>2. runs'[p] = runs[p]
      BY <1>4, <1>7, <2>1
    <3> QED BY <1>3, <3>1, <3>2 DEF SameTeam, Home, admin, lineage
  <2>4. \A t \in Teams \ gone' : home'[t] = t
    BY <1>3 DEF PipelineInv, LineageInv, admin, lineage
  <2>5. runs'[Current'].prev = p
    BY <1>10, <2>2
  <2>6. SameTeam(runs[Current].prev, scope)' <=> SameTeam(p, scope)'
    BY <2>5 DEF SameTeam
  <2> QED BY <1>3, <2>3, <2>4, <2>5, <2>6 DEF LineageInv
<1>14. SnapsInv'
  <2>1. \A s \in snaps : s.run # n + 1
    BY <1>1, <1>4 DEF TablesTyped, SnapRow
  <2> QED BY <1>3, <1>10, <2>1 DEF PipelineInv, SnapsInv, SnapshotsDense, SnapsOf, admin, lineage
<1>15. DoneInv'
  <2>1. runs'[n + 1].status = "running"
    BY <1>7, <1>8
  <2>2. ASSUME NEW r \in 1..Len(runs)', runs'[r].status = "complete"
        PROVE  Replaced(r)' /\ Recorded(r)'
    <3>1. r \in 1..n
      BY <1>4, <1>7, <2>1, <2>2
    <3> QED BY <1>3, <1>7, <2>2, <3>1 DEF PipelineInv, DoneInv, Replaced, Recorded
  <2> QED BY <1>3, <2>2 DEF DoneInv
<1> QED BY <1>9, <1>11, <1>12, <1>13, <1>14, <1>15 DEF PipelineInv

\* The end of the current run is written, or its row stays "running" and is
\* remembered as such.
LEMMA EndRunStep ==
  ASSUME PipelineInv, Busy, up, NEW st \in Statuses \ {"running"}, SetStatus(st), LeaveTeam,
         UNCHANGED <<admin, clusters, snaps, up, queue, seen, stops>>,
         st = "complete" => pc = "finish" /\ ~errs
  PROVE  PipelineInv'
<1>1. TablesTyped /\ TeamsTyped /\ WorkTyped /\ ControlInv /\ RunsInv
  BY TypesSplit DEF PipelineInv
<1>2. Current \in 1..Len(runs) /\ Current \notin unmarked /\ Current = Len(runs)
  BY <1>1 DEF ControlInv, Current
<1>3. runs \in Seq(RunRow) /\ runs[Current] \in RunRow /\ DOMAIN runs = 1..Len(runs)
      /\ Len(runs) \in Nat
  BY <1>1, <1>2, LenIsNat, ElementOfSeq DEF TablesTyped
<1>4. /\ runs' \in Seq(RunRow) /\ Len(runs') = Len(runs) /\ DOMAIN runs' = DOMAIN runs
      /\ \A r \in 1..Len(runs) : /\ runs'[r].prev = runs[r].prev /\ runs'[r].pred = runs[r].pred
                                 /\ runs'[r].team = runs[r].team
      /\ \A r \in 1..Len(runs) \ {Current} : runs'[r] = runs[r]
      /\ \/ runs'[Current].status = st /\ UNCHANGED unmarked
         \/ UNCHANGED runs /\ unmarked' = unmarked \cup {Current}
  <2>1. CASE runs' = [runs EXCEPT ![Current].status = st] /\ UNCHANGED unmarked
    <3>1. [runs[Current] EXCEPT !.status = st] \in RunRow
      BY <1>3 DEF RunRow
    <3>2. runs' = [runs EXCEPT ![Current] = [runs[Current] EXCEPT !.status = st]]
      BY <2>1
    <3> QED BY <1>2, <1>3, <2>1, <3>1, <3>2, ExceptSeq, LenProperties DEF RunRow
  <2>2. CASE UNCHANGED runs /\ unmarked' = unmarked \cup {Current}
    BY <1>3, <2>2
  <2> QED BY <2>1, <2>2 DEF SetStatus
<1>5. pc' = "teams" /\ scope' = None /\ version' = 0 /\ found' = 0 /\ errs' = FALSE
  BY DEF LeaveTeam
<1>6. TypeOK'
  <2>1. TablesTyped'
    BY <1>1, <1>2, <1>4 DEF TablesTyped, SnapRow
  <2>2. TeamsTyped'
    BY <1>1 DEF TeamsTyped, admin, lineage
  <2>3. WorkTyped'
    <3>1. found' \in 0..MaxFound
      BY <1>5, BoundsAssumption
    <3>2. errs' \in BOOLEAN
      BY <1>5, Zenon
    <3> QED BY <1>1, <1>3, <1>4, <1>5, <3>1, <3>2 DEF WorkTyped
  <2> QED BY <2>1, <2>2, <2>3, TypesSplitNext
<1>7. ControlInv'
  BY <1>5 DEF ControlInv, Busy
<1>8. RunsInv'
  <2>1. \A r \in 1..Len(runs)' : runs'[r].pred < r /\ runs'[r].prev \in {0, runs'[r].pred}
    BY <1>1, <1>4 DEF RunsInv
  <2>2. RunsHonest'
    <3>1. \A r \in 1..Len(runs) : runs[r].status = "running" <=> r = Current \/ r \in unmarked
      BY <1>1, <1>3 DEF RunsInv, RunsHonest
    <3>2. ~Busy'
      BY <1>5 DEF Busy
    <3>3. \A r \in 1..Len(runs) : runs'[r].status = "running" <=> r \in unmarked'
      BY <1>2, <1>4, <3>1
    <3> QED BY <1>3, <1>4, <3>2, <3>3 DEF RunsHonest
  <2> QED BY <2>1, <2>2 DEF RunsInv
<1>9. LineageInv'
  BY <1>5 DEF PipelineInv, LineageInv, Busy, admin, lineage
<1>10. SnapsInv'
  BY <1>5 DEF PipelineInv, SnapsInv, SnapshotsDense, SnapsOf, admin, lineage
<1>11. DoneInv'
  <2>1. ASSUME NEW r \in 1..Len(runs), runs'[r].status = "complete"
        PROVE  Replaced(r)' /\ Recorded(r)'
    <3>1. CASE r # Current
      BY <1>4, <2>1, <3>1 DEF PipelineInv, DoneInv, Replaced, Recorded
    <3>2. CASE r = Current
      <4>1. runs[Current].status = "running"
        BY <1>1, <1>2, <1>3 DEF RunsInv, RunsHonest
      <4>2. st = "complete"
        BY <1>4, <2>1, <3>2, <4>1
      <4>3. Replaced(Current) /\ Recorded(Current)
        BY <4>2 DEF PipelineInv, DoneInv
      <4> QED BY <1>4, <3>2, <4>3 DEF Replaced, Recorded
    <3> QED BY <3>1, <3>2
  <2> QED BY <1>4, <1>5, <2>1 DEF DoneInv
<1> QED BY <1>6, <1>7, <1>8, <1>9, <1>10, <1>11 DEF PipelineInv

LEMMA EndSteps ==
  ASSUME PipelineInv, ListFails \/ LatestSnapshotFails \/ FinishRun
  PROVE  PipelineInv'
<1>1. CASE ListFails
  BY <1>1, EndRunStep DEF ListFails, Busy, Statuses
<1>2. CASE LatestSnapshotFails
  BY <1>2, EndRunStep DEF LatestSnapshotFails, Busy, Statuses
<1>3. CASE FinishRun
  <2>1. CASE errs
    BY <1>3, <2>1, EndRunStep DEF FinishRun, Busy, Statuses
  <2>2. CASE ~errs
    BY <1>3, <2>2, EndRunStep DEF FinishRun, Busy, Statuses
  <2> QED BY <2>1, <2>2
<1> QED BY <1>1, <1>2, <1>3

LEMMA ListEntriesStep ==
  ASSUME PipelineInv, ListEntries
  PROVE  PipelineInv'
<1>1. TablesTyped /\ TeamsTyped /\ WorkTyped
  BY TypesSplit DEF PipelineInv
<1>2. UNCHANGED <<admin, tables, up, queue, scope, seen, version, errs, history>>
      /\ pc = "list" /\ pc' = "cluster" /\ found' \in 0..MaxFound /\ up
  BY DEF ListEntries
<1>3. TypeOK'
  <2>1. TablesTyped'
    BY <1>1, <1>2 DEF TablesTyped, SnapRow, tables, history
  <2>2. TeamsTyped'
    BY <1>1, <1>2 DEF TeamsTyped, admin, lineage
  <2>3. WorkTyped'
    BY <1>1, <1>2 DEF WorkTyped, tables, history
  <2> QED BY <2>1, <2>2, <2>3, TypesSplitNext
<1>4. ControlInv' /\ RunsInv'
  BY <1>2 DEF PipelineInv, ControlInv, RunsInv, Busy, RunsHonest, Current, tables, history
<1>5. LineageInv'
  BY <1>2 DEF PipelineInv, LineageInv, SameTeam, Home, Busy, Current, tables, admin, lineage
<1>6. SnapsInv'
  BY <1>2 DEF PipelineInv, SnapsInv, SnapshotsDense, SnapsOf, Current, tables, admin, lineage
<1>7. DoneInv'
  BY <1>2 DEF PipelineInv, DoneInv, Replaced, Recorded, Current, tables
<1> QED BY <1>3, <1>4, <1>5, <1>6, <1>7 DEF PipelineInv

LEMMA StoreClusterStep ==
  ASSUME PipelineInv, StoreCluster
  PROVE  PipelineInv'
<1>1. TablesTyped /\ TeamsTyped /\ WorkTyped /\ ControlInv /\ RunsInv
  BY TypesSplit DEF PipelineInv
<1>2. UNCHANGED <<admin, runs, snaps, up, pc, queue, scope, seen, version, history>>
      /\ up /\ pc = "cluster" /\ errs' \in BOOLEAN /\ found' \in 0..MaxFound
      /\ found \in 1..MaxFound
      /\ (clusters' = clusters \/ clusters' = clusters \cup {[run |-> Current, n |-> found]})
  <2>1. errs' \in BOOLEAN
    BY <1>1 DEF StoreCluster, WorkTyped
  <2>2. found \in 1..MaxFound /\ found' \in 0..MaxFound
    BY <1>1, BoundsAssumption DEF StoreCluster, WorkTyped
  <2> QED BY <2>1, <2>2 DEF StoreCluster
<1>3. Current \in 1..Len(runs) /\ Current = Len(runs) /\ Len(runs) \in Nat
  BY <1>1, <1>2, LenIsNat DEF ControlInv, Busy, Current
<1>4. TypeOK'
  <2>1. TablesTyped'
    BY <1>1, <1>2, <1>3 DEF TablesTyped, SnapRow, history
  <2>2. TeamsTyped'
    BY <1>1, <1>2 DEF TeamsTyped, admin, lineage
  <2>3. WorkTyped'
    BY <1>1, <1>2 DEF WorkTyped, history
  <2> QED BY <2>1, <2>2, <2>3, TypesSplitNext
<1>5. ControlInv' /\ RunsInv'
  BY <1>1, <1>2 DEF ControlInv, RunsInv, Busy, RunsHonest, Current, history
<1>6. LineageInv'
  BY <1>2 DEF PipelineInv, LineageInv, SameTeam, Home, Busy, Current, admin, lineage
<1>7. SnapsInv'
  BY <1>2 DEF PipelineInv, SnapsInv, SnapshotsDense, SnapsOf, Current, admin, lineage
<1>8. DoneInv'
  <2>1. ASSUME NEW r \in 1..Len(runs), Replaced(r) PROVE Replaced(r)'
    <3>1. runs[r].pred < r /\ runs[r].pred \in Nat
      BY <1>1, RowsTyped DEF RunsInv
    <3>2. runs[r].pred # Current
      BY <1>3, <3>1
    <3> QED BY <1>2, <2>1, <3>2 DEF Replaced
  <2> QED BY <1>2, <2>1 DEF PipelineInv, DoneInv, Recorded
<1> QED BY <1>4, <1>5, <1>6, <1>7, <1>8 DEF PipelineInv

\* The run before is replaced if the run knows of it.
LEMMA DeleteOldStep ==
  ASSUME PipelineInv, DeleteOld
  PROVE  PipelineInv'
<1>1. TablesTyped /\ TeamsTyped /\ WorkTyped /\ ControlInv /\ RunsInv
  BY TypesSplit DEF PipelineInv
<1>2. UNCHANGED <<admin, runs, snaps, up, queue, scope, seen, version, found, history>>
      /\ up /\ pc = "cluster" /\ pc' = "old" /\ errs' \in BOOLEAN
      /\ clusters' \subseteq clusters
      /\ (errs' = TRUE \/ \A c \in clusters' : c.run # runs[Current].prev)
  <2>1. errs' \in BOOLEAN
    BY <1>1 DEF DeleteOld, WorkTyped
  <2> QED BY <2>1 DEF DeleteOld
<1>3. Current \in 1..Len(runs) /\ Current' = Current
  BY <1>1, <1>2 DEF ControlInv, Busy, Current
<1>4. TypeOK'
  <2>1. TablesTyped'
    BY <1>1, <1>2 DEF TablesTyped, SnapRow, history
  <2>2. TeamsTyped'
    BY <1>1, <1>2 DEF TeamsTyped, admin, lineage
  <2>3. WorkTyped'
    BY <1>1, <1>2 DEF WorkTyped, history
  <2> QED BY <2>1, <2>2, <2>3, TypesSplitNext
<1>5. ControlInv' /\ RunsInv'
  BY <1>1, <1>2 DEF ControlInv, RunsInv, Busy, RunsHonest, Current, history
<1>6. LineageInv'
  BY <1>2 DEF PipelineInv, LineageInv, SameTeam, Home, Busy, Current, admin, lineage
<1>7. SnapsInv'
  BY <1>2 DEF PipelineInv, SnapsInv, SnapshotsDense, SnapsOf, Current, admin, lineage
<1>8. DoneInv'
  <2>1. ~errs' => Replaced(Current)'
    <3>1. runs[Current].prev \in {0, runs[Current].pred}
      BY <1>1, <1>3 DEF RunsInv
    <3>2. \A c \in clusters' : c.run # 0
      BY <1>1, <1>2 DEF TablesTyped
    <3> QED BY <1>2, <1>3, <3>1, <3>2 DEF Replaced
  <2>2. \A r : Replaced(r) => Replaced(r)'
    BY <1>2 DEF Replaced
  <2> QED BY <1>2, <1>3, <2>1, <2>2 DEF PipelineInv, DoneInv, Recorded
<1> QED BY <1>4, <1>5, <1>6, <1>7, <1>8 DEF PipelineInv

\* The version that a team's next snapshot gets follows those the team has.
LEMMA NextVersionFollows ==
  ASSUME TablesTyped, NEW t \in Teams, NEW k \in Nat, {s.version : s \in SnapsOf(t)} = 1..k
  PROVE  NextVersion(t) = k + 1
<1> DEFINE own == {s.version : s \in {x \in snaps : t = Unscoped \/ x.team = t}}
<1>1. own = 1..k
  BY TeamsAssumption DEF SnapsOf
<1>2. NextVersion(t) = IF own = {} THEN 1 ELSE Newest(own) + 1
  BY DEF NextVersion
<1> HIDE DEF own
<1>3. CASE k = 0
  <2>1. own = {}
    BY <1>1, <1>3
  <2> QED BY <1>2, <1>3, <2>1
<1>4. CASE k > 0
  <2>1. k \in own /\ own # {} /\ own \subseteq 0..k
    BY <1>1, <1>4
  <2>2. Newest(own) \in own /\ \A y \in own : y <= Newest(own)
    BY <2>1, NewestIsGreatest
  <2>3. Newest(own) = k
    BY <1>1, <2>1, <2>2
  <2> QED BY <1>2, <2>1, <2>3
<1> QED BY <1>3, <1>4

LEMMA LatestSnapshotStep ==
  ASSUME PipelineInv, LatestSnapshot
  PROVE  PipelineInv'
<1>1. TablesTyped /\ TeamsTyped /\ WorkTyped /\ ControlInv /\ RunsInv /\ SnapsInv /\ TypeOK
  BY TypesSplit DEF PipelineInv
<1>2. UNCHANGED <<admin, tables, up, queue, scope, seen, found, history>>
      /\ up /\ pc = "old" /\ pc' = "snapshot" /\ errs' \in BOOLEAN /\ (errs => errs')
      /\ version' = NextVersion(scope)
  <2>1. errs' \in BOOLEAN /\ (errs => errs')
    BY <1>1 DEF LatestSnapshot, WorkTyped
  <2> QED BY <2>1 DEF LatestSnapshot
<1>3. Current \in 1..Len(runs) /\ Current = Len(runs) /\ Len(runs) \in Nat
      /\ Current \in Nat \ {0} /\ Current' = Current
  BY <1>1, <1>2, LenIsNat DEF ControlInv, Busy, Current, tables
<1>4. \A s \in snaps : s.run < Current
  BY <1>1, <1>2, <1>3 DEF SnapsInv, TablesTyped, SnapRow
<1>5. version' \in 1..Current
  BY <1>1, <1>2, <1>3, <1>4, NextVersionBounded
<1>6. TypeOK'
  <2>1. TablesTyped'
    BY <1>1, <1>2 DEF TablesTyped, SnapRow, tables, history
  <2>2. TeamsTyped'
    BY <1>1, <1>2 DEF TeamsTyped, admin, lineage
  <2>3. WorkTyped'
    BY <1>1, <1>2, <1>3, <1>5 DEF WorkTyped, tables, history
  <2> QED BY <2>1, <2>2, <2>3, TypesSplitNext
<1>7. ControlInv' /\ RunsInv'
  BY <1>1, <1>2 DEF ControlInv, RunsInv, Busy, RunsHonest, Current, tables, history
<1>8. LineageInv'
  BY <1>2 DEF PipelineInv, LineageInv, SameTeam, Home, Busy, Current, tables, admin, lineage
<1>9. SnapsInv'
  <2>1. scope \in Teams \ mixed => version' = Cardinality(SnapsOf(scope)) + 1
    <3> SUFFICES ASSUME scope \in Teams \ mixed
                 PROVE  version' = Cardinality(SnapsOf(scope)) + 1
      OBVIOUS
    <3>1. {s.version : s \in SnapsOf(scope)} = 1..Cardinality(SnapsOf(scope))
      BY <1>1 DEF SnapsInv, SnapshotsDense
    <3>2. Cardinality(SnapsOf(scope)) \in Nat
      BY <1>1, FS_Subset, FS_CardinalityType DEF SnapsInv, SnapsOf
    <3> QED BY <1>1, <1>2, <3>1, <3>2, NextVersionFollows
  <2> QED BY <1>1, <1>2, <1>3, <1>5, <2>1 DEF SnapsInv, SnapshotsDense, SnapsOf, tables, admin, lineage
<1>10. DoneInv'
  BY <1>2, <1>3 DEF PipelineInv, DoneInv, Replaced, Recorded, tables
<1> QED BY <1>6, <1>7, <1>8, <1>9, <1>10 DEF PipelineInv

LEMMA DenseGrows ==
  ASSUME PipelineInv, pc = "snapshot", UNCHANGED mixed,
         snaps' = snaps \cup {[team |-> scope, run |-> Current, version |-> version]}
  PROVE  SnapshotsDense'
<1> DEFINE new == [team |-> scope, run |-> Current, version |-> version]
           OwnNext(u) == {s \in snaps' : s.team = u}
<1> SUFFICES ASSUME NEW u \in Teams \ mixed
             PROVE  {s.version : s \in OwnNext(u)} = 1..Cardinality(OwnNext(u))
  BY DEF SnapshotsDense, SnapsOf
<1>1. {s.version : s \in SnapsOf(u)} = 1..Cardinality(SnapsOf(u))
  BY DEF PipelineInv, SnapsInv, SnapshotsDense
<1>2. IsFiniteSet(SnapsOf(u)) /\ Cardinality(SnapsOf(u)) \in Nat
  BY FS_Subset, FS_CardinalityType DEF PipelineInv, SnapsInv, SnapsOf
<1>3. CASE u # scope
  <2>1. OwnNext(u) = SnapsOf(u)
    BY <1>3 DEF SnapsOf
  <2> HIDE DEF OwnNext
  <2> QED BY <1>1, <2>1
<1>4. CASE u = scope
  <2>1. version = Cardinality(SnapsOf(u)) + 1
    BY <1>4 DEF PipelineInv, SnapsInv
  <2>2. \A s \in snaps : s.run # Current
    BY DEF PipelineInv, SnapsInv
  <2>3. new.run = Current /\ new.team = scope /\ new.version = version
    OBVIOUS
  <2> HIDE DEF new
  <2>4. OwnNext(u) = SnapsOf(u) \cup {new} /\ new \notin SnapsOf(u)
    BY <1>4, <2>2, <2>3 DEF SnapsOf, new
  <2> HIDE DEF OwnNext
  <2>5. Cardinality(OwnNext(u)) = Cardinality(SnapsOf(u)) + 1
    BY <1>2, <2>4, FS_AddElement
  <2>6. {s.version : s \in OwnNext(u)} = {s.version : s \in SnapsOf(u)} \cup {new.version}
    BY <2>4
  <2>7. PICK k \in Nat : k = Cardinality(SnapsOf(u))
    BY <1>2
  <2>8. {s.version : s \in OwnNext(u)} = 1..k \cup {k + 1}
    BY <1>1, <2>1, <2>3, <2>6, <2>7
  <2>9. 1..k \cup {k + 1} = 1..(k + 1)
    OBVIOUS
  <2> QED BY <2>5, <2>7, <2>8, <2>9
<1> QED BY <1>3, <1>4

LEMMA StoreSnapshotStep ==
  ASSUME PipelineInv, StoreSnapshot
  PROVE  PipelineInv'
<1> DEFINE new == [team |-> scope, run |-> Current, version |-> version]
<1>1. TablesTyped /\ TeamsTyped /\ WorkTyped /\ ControlInv /\ RunsInv /\ SnapsInv
  BY TypesSplit DEF PipelineInv
<1>2. UNCHANGED <<admin, runs, clusters, up, queue, scope, seen, version, found, history>>
      /\ up /\ pc = "snapshot" /\ pc' = "finish" /\ errs' \in BOOLEAN /\ (errs => errs')
      /\ (snaps' = snaps \cup {new} \/ (snaps' = snaps /\ errs'))
  <2>1. errs' \in BOOLEAN /\ (errs => errs')
    BY <1>1 DEF StoreSnapshot, WorkTyped
  <2> QED BY <2>1 DEF StoreSnapshot
<1>3. Current \in 1..Len(runs) /\ Current = Len(runs) /\ Len(runs) \in Nat /\ Current' = Current
      /\ scope \in Scopes /\ version \in 1..Current
  BY <1>1, <1>2, LenIsNat DEF ControlInv, SnapsInv, Busy, Current
<1>4. new \in SnapRow /\ new.run = Current /\ new.version <= new.run
  BY <1>1, <1>3, BoundsAssumption DEF TablesTyped, SnapRow
<1>5. \A s \in snaps : s.run # Current
  BY <1>1, <1>2 DEF SnapsInv
<1>6. snaps' = snaps \cup {new} => SnapshotsDense'
  BY <1>2, DenseGrows DEF admin, lineage
<1> HIDE DEF new
<1>7. TypeOK'
  <2>1. TablesTyped'
    BY <1>1, <1>2, <1>4 DEF TablesTyped, SnapRow, history
  <2>2. TeamsTyped'
    BY <1>1, <1>2 DEF TeamsTyped, admin, lineage
  <2>3. WorkTyped'
    BY <1>1, <1>2 DEF WorkTyped, history
  <2> QED BY <2>1, <2>2, <2>3, TypesSplitNext
<1>8. ControlInv' /\ RunsInv'
  BY <1>1, <1>2 DEF ControlInv, RunsInv, Busy, RunsHonest, Current, history
<1>9. LineageInv'
  BY <1>2 DEF PipelineInv, LineageInv, SameTeam, Home, Busy, Current, admin, lineage
<1>10. SnapsInv'
  <2>1. CASE snaps' = snaps
    BY <1>1, <1>2, <2>1 DEF SnapsInv, SnapshotsDense, SnapsOf, admin, lineage
  <2>2. CASE snaps' = snaps \cup {new}
    <3>1. IsFiniteSet(snaps')
      BY <1>1, <2>2, FS_AddElement DEF SnapsInv
    <3>2. \A s \in snaps' : s.version <= s.run
      BY <1>1, <1>4, <2>2 DEF SnapsInv
    <3>3. \A s, x \in snaps' : s.run = x.run => s = x
      BY <1>1, <1>4, <1>5, <2>2 DEF SnapsInv
    <3> QED BY <1>2, <1>6, <2>2, <3>1, <3>2, <3>3 DEF SnapsInv
  <2> QED BY <1>2, <2>1, <2>2
<1>11. DoneInv'
  <2>1. \A r : (Recorded(r) => Recorded(r)') /\ (Replaced(r) => Replaced(r)')
    BY <1>2 DEF Recorded, Replaced
  <2>2. ~errs' => Recorded(Current)'
    BY <1>2, <1>3, <1>4 DEF Recorded
  <2> QED BY <1>2, <1>3, <2>1, <2>2 DEF PipelineInv, DoneInv
<1> QED BY <1>7, <1>8, <1>9, <1>10, <1>11 DEF PipelineInv

-----------------------------------------------------------------------------
(* Steps that rewrite rows in place: merges of teams, and the boot. *)

\* The rows keep their number, what they refer to and which of them are complete.
Kept(rows) ==
  /\ rows \in Seq(RunRow) /\ Len(rows) = Len(runs) /\ DOMAIN rows = 1..Len(runs)
  /\ \A r \in 1..Len(runs) :
       /\ rows[r].prev = runs[r].prev /\ rows[r].pred = runs[r].pred
       /\ rows[r].status = "complete" <=> runs[r].status = "complete"

LEMMA RowsAreSeq ==
  ASSUME NEW n \in Nat, NEW rows \in [1..n -> RunRow]
  PROVE  rows \in Seq(RunRow) /\ Len(rows) = n /\ DOMAIN rows = 1..n
<1>1. rows \in Seq(RunRow)
  BY SeqDef
<1>2. DOMAIN rows = 1..n
  OBVIOUS
<1> QED BY <1>1, <1>2, LenProperties

LEMMA RowsRetagged ==
  ASSUME TablesTyped, NEW g \in [Scopes -> Scopes], NEW rows,
         rows = [r \in DOMAIN runs |-> [runs[r] EXCEPT !.team = g[@]]]
  PROVE  /\ Kept(rows)
         /\ \A r \in 1..Len(runs) : /\ rows[r].status = runs[r].status
                                    /\ rows[r].team = g[runs[r].team]
<1> DEFINE New(r) == [runs[r] EXCEPT !.team = g[@]]
<1>1. Len(runs) \in Nat /\ DOMAIN runs = 1..Len(runs)
  BY LenIsNat
<1>2. ASSUME NEW r \in 1..Len(runs)
      PROVE  /\ New(r) \in RunRow /\ New(r).prev = runs[r].prev /\ New(r).pred = runs[r].pred
             /\ New(r).status = runs[r].status /\ New(r).team = g[runs[r].team]
  <2>1. runs[r] \in RunRow
    BY RowsTyped
  <2> QED BY <2>1 DEF RunRow
<1>3. rows = [r \in 1..Len(runs) |-> New(r)]
  BY <1>1
<1> HIDE DEF New
<1>4. rows \in [1..Len(runs) -> RunRow]
  BY <1>2, <1>3
<1>5. rows \in Seq(RunRow) /\ Len(rows) = Len(runs) /\ DOMAIN rows = 1..Len(runs)
  BY <1>1, <1>4, RowsAreSeq
<1> QED BY <1>2, <1>3, <1>5 DEF Kept

LEMMA SnapsRetagged ==
  ASSUME TablesTyped, SnapsInv, NEW g \in [Scopes -> Scopes],
         snaps' = {[s EXCEPT !.team = g[@]] : s \in snaps}
  PROVE  /\ snaps' \subseteq SnapRow
         /\ IsFiniteSet(snaps')
         /\ \A s \in snaps' : s.version <= s.run
         /\ \A s, x \in snaps' : s.run = x.run => s = x
         /\ \A r : Recorded(r) => Recorded(r)'
         /\ \A r : (\A s \in snaps : s.run # r) => (\A s \in snaps' : s.run # r)
         /\ \A t : (\A u \in Scopes : g[u] = t <=> u = t) => SnapsOf(t)' = SnapsOf(t)
         /\ \A t : (\A u \in Scopes : g[u] # t) => SnapsOf(t)' = {}
<1> DEFINE Move(s) == [s EXCEPT !.team = g[@]]
           f == [s \in snaps |-> Move(s)]
<1>1. snaps' = {Move(s) : s \in snaps}
  OBVIOUS
<1>2. ASSUME NEW s \in snaps
      PROVE  /\ Move(s) \in SnapRow /\ Move(s).run = s.run /\ Move(s).version = s.version
             /\ Move(s).team = g[s.team] /\ s.team \in Scopes
             /\ g[s.team] = s.team => Move(s) = s
  <2>1. s \in SnapRow
    BY <1>2 DEF TablesTyped
  <2> QED BY <2>1 DEF SnapRow
<1> HIDE DEF Move
<1>3. f \in Surjection(snaps, snaps')
  BY <1>1 DEF Surjection
<1>4. IsFiniteSet(snaps')
  BY <1>3, FS_Surjection DEF SnapsInv
<1>5. \A s \in snaps' : s.version <= s.run
  BY <1>1, <1>2 DEF SnapsInv
<1>6. \A s, x \in snaps' : s.run = x.run => s = x
  BY <1>1, <1>2 DEF SnapsInv
<1>7. \A r : Recorded(r) => Recorded(r)'
  BY <1>1, <1>2 DEF Recorded
<1>8. \A r : (\A s \in snaps : s.run # r) => (\A s \in snaps' : s.run # r)
  BY <1>1, <1>2
<1>9. ASSUME NEW t, \A u \in Scopes : g[u] = t <=> u = t
      PROVE  SnapsOf(t)' = SnapsOf(t)
  BY <1>1, <1>2, <1>9 DEF SnapsOf
<1>10. ASSUME NEW t, \A u \in Scopes : g[u] # t PROVE SnapsOf(t)' = {}
  BY <1>1, <1>2, <1>10 DEF SnapsOf
<1>11. snaps' \subseteq SnapRow
  BY <1>1, <1>2
<1> QED BY <1>4, <1>5, <1>6, <1>7, <1>8, <1>9, <1>10, <1>11

\* The snapshots of a team are numbered densely; those of a team without any are.
Dense(t) == {s.version : s \in SnapsOf(t)} = 1..Cardinality(SnapsOf(t))

LEMMA EmptyIsDenseNext == ASSUME NEW t, SnapsOf(t)' = {} PROVE Dense(t)'
<1>1. SnapsOf(t)' = {} => {s.version : s \in SnapsOf(t)'} = 1..Cardinality(SnapsOf(t)')
  BY FS_EmptySet
<1> QED BY <1>1 DEF Dense

LEMMA DoneKept ==
  ASSUME DoneInv, Kept(runs'), UNCHANGED <<clusters, errs>>, pc' = pc \/ pc' = "idle",
         \A r : Recorded(r) => Recorded(r)', pc # "idle" => Current \in 1..Len(runs)
  PROVE  DoneInv'
<1>1. Len(runs') = Len(runs) /\ Current' = Current
  BY DEF Kept, Current
<1>2. ASSUME NEW r \in 1..Len(runs), Replaced(r) PROVE Replaced(r)'
  BY <1>2 DEF Replaced, Kept
<1>3. \A r \in 1..Len(runs) : runs'[r].status = "complete" => Replaced(r)' /\ Recorded(r)'
  BY <1>2 DEF DoneInv, Kept
<1> QED BY <1>1, <1>2, <1>3 DEF DoneInv

-----------------------------------------------------------------------------
(* Teams. *)

LEMMA TeamRowSteps ==
  ASSUME PipelineInv, CreateTeam \/ DeleteTeam
  PROVE  PipelineInv'
<1>1. TablesTyped /\ TeamsTyped /\ WorkTyped
  BY TypesSplit DEF PipelineInv
<1>2. UNCHANGED <<home, mixed, tables, up, worker, history>> /\ up
      /\ teams' \subseteq Teams /\ gone' \subseteq Teams \ teams' /\ gone \subseteq gone'
  BY <1>1 DEF CreateTeam, DeleteTeam, RemoveTeam, TeamsTyped, lineage
<1>3. TypeOK'
  <2>1. TablesTyped'
    BY <1>1, <1>2 DEF TablesTyped, SnapRow, tables, history
  <2>2. TeamsTyped'
    BY <1>1, <1>2 DEF TeamsTyped
  <2>3. WorkTyped'
    BY <1>1, <1>2 DEF WorkTyped, worker, tables, history
  <2> QED BY <2>1, <2>2, <2>3, TypesSplitNext
<1>4. ControlInv' /\ RunsInv'
  BY <1>2 DEF PipelineInv, ControlInv, RunsInv, RunsHonest, Busy, Current, tables, worker, history
<1>5. LineageInv'
  <2>1. \A t \in Teams \ gone' : home'[t] = t
    BY <1>2 DEF PipelineInv, LineageInv
  <2>2. pc' = "start" /\ seen'.prev # 0 => SameTeam(seen.prev, scope)'
    BY <1>2 DEF PipelineInv, LineageInv, SameTeam, Home, tables, worker
  <2>3. Busy' /\ runs'[Current'].prev # 0 => SameTeam(runs[Current].prev, scope)'
    BY <1>2 DEF PipelineInv, LineageInv, SameTeam, Home, Busy, Current, tables, worker
  <2> QED BY <2>1, <2>2, <2>3 DEF LineageInv
<1>6. SnapsInv'
  BY <1>2 DEF PipelineInv, SnapsInv, SnapshotsDense, SnapsOf, Current, tables, worker
<1>7. DoneInv'
  BY <1>2 DEF PipelineInv, DoneInv, Replaced, Recorded, Current, tables, worker
<1> QED BY <1>3, <1>4, <1>5, <1>6, <1>7 DEF PipelineInv

\* A merge makes two homes one: what was alike stays alike.
LEMMA MigrateStep ==
  ASSUME PipelineInv, DeleteTeamMigrate
  PROVE  PipelineInv'
<1>1. TablesTyped /\ TeamsTyped /\ WorkTyped /\ ControlInv /\ RunsInv /\ LineageInv /\ SnapsInv
      /\ DoneInv
  BY TypesSplit DEF PipelineInv
<1>2. PICK from \in teams, to \in teams \cup gone : from # to /\ Migrate(from, to)
  BY DEF DeleteTeamMigrate
<1>3. UNCHANGED <<clusters, up, worker, history>> /\ up
  BY DEF DeleteTeamMigrate
<1>4. from \in Teams /\ to \in Teams /\ from \in Scopes /\ to \in Scopes /\ from \notin gone
      /\ from # Unscoped /\ home \in [Teams -> Teams]
  BY <1>1, <1>2, TeamsAssumption DEF TeamsTyped, Scopes
<1> DEFINE g == [t \in Scopes |-> IF t = from THEN to ELSE t]
<1>5. g \in [Scopes -> Scopes] /\ \A t \in Scopes : g[t] = IF t = from THEN to ELSE t
  BY <1>4
<1> HIDE DEF g
<1>6. runs' = [r \in DOMAIN runs |-> [runs[r] EXCEPT !.team = g[@]]]
  <2>1. \A r \in DOMAIN runs : runs[r].team \in Scopes
    BY <1>1, LenIsNat, RowsTyped
  <2> QED BY <1>2, <1>5, <2>1 DEF Migrate
<1>7. snaps' = {[s EXCEPT !.team = g[@]] : s \in snaps}
  <2>1. \A s \in snaps : s.team \in Scopes
    BY <1>1 DEF TablesTyped, SnapRow
  <2> QED BY <1>2, <1>5, <2>1 DEF Migrate
<1>8. /\ Kept(runs')
      /\ \A r \in 1..Len(runs) : /\ runs'[r].status = runs[r].status
                                 /\ runs'[r].team = g[runs[r].team]
  BY <1>1, <1>5, <1>6, RowsRetagged
<1>9. Len(runs') = Len(runs) /\ Current' = Current /\ DOMAIN runs' = DOMAIN runs
      /\ DOMAIN runs = 1..Len(runs)
  BY <1>1, <1>8, LenIsNat DEF Kept, Current
<1>10. /\ teams' = teams \ {from} /\ gone' = gone \cup {from}
       /\ home' = [t \in Teams |-> IF home[t] = from THEN home[to] ELSE home[t]]
       /\ mixed' = mixed \cup (IF SnapsOf(from) # {} THEN {to} ELSE {})
                         \cup (IF pc = "snapshot" /\ scope = from THEN {from} ELSE {})
  BY <1>2 DEF Migrate, RemoveTeam
<1>11. /\ snaps' \subseteq SnapRow
       /\ IsFiniteSet(snaps')
       /\ \A s \in snaps' : s.version <= s.run
       /\ \A s, x \in snaps' : s.run = x.run => s = x
       /\ \A r : Recorded(r) => Recorded(r)'
       /\ \A r : (\A s \in snaps : s.run # r) => (\A s \in snaps' : s.run # r)
       /\ \A t : (\A u \in Scopes : g[u] = t <=> u = t) => SnapsOf(t)' = SnapsOf(t)
       /\ \A t : (\A u \in Scopes : g[u] # t) => SnapsOf(t)' = {}
  BY <1>1, <1>5, <1>7, SnapsRetagged
<1>12. TypeOK'
  <2>1. TablesTyped'
    BY <1>1, <1>3, <1>8, <1>9, <1>11 DEF TablesTyped, SnapRow, Kept, history
  <2>2. TeamsTyped'
    BY <1>1, <1>4, <1>10 DEF TeamsTyped
  <2>3. WorkTyped'
    BY <1>1, <1>3, <1>9 DEF WorkTyped, worker, history
  <2> QED BY <2>1, <2>2, <2>3, TypesSplitNext
<1>13. ControlInv'
  BY <1>1, <1>3, <1>9 DEF ControlInv, Busy, worker, history
<1>14. RunsInv'
  <2>1. \A r \in 1..Len(runs)' : runs'[r].pred < r /\ runs'[r].prev \in {0, runs'[r].pred}
    BY <1>1, <1>8, <1>9 DEF RunsInv, Kept
  <2>2. RunsHonest'
    BY <1>1, <1>3, <1>8, <1>9 DEF RunsInv, RunsHonest, Busy, worker, history
  <2> QED BY <2>1, <2>2 DEF RunsInv
<1>15. LineageInv'
  <2>1. \A t \in Teams \ gone' : home'[t] = t
    BY <1>1, <1>4, <1>10 DEF LineageInv
  <2> DEFINE F(t) == IF t = from THEN home[to] ELSE t
  <2>2. \A t \in Scopes : Home(t)' = F(Home(t))
    BY <1>4, <1>10 DEF Home, Scopes
  <2>3. home[from] = from
    BY <1>1, <1>4 DEF LineageInv
  <2>4. Home(from)' = Home(to)'
    <3>1. Home(from) = from /\ Home(to) = home[to]
      BY <1>4, <2>3, TeamsAssumption DEF Home
    <3>2. Home(from)' = home[to]
      BY <1>4, <2>2, <3>1
    <3>3. Home(to)' = F(home[to])
      BY <1>4, <2>2, <3>1
    <3> QED BY <3>2, <3>3
  <2>5. ASSUME NEW r \in 1..Len(runs), NEW t \in Scopes, SameTeam(r, t)
        PROVE  SameTeam(r, t)'
    <3>1. runs[r].team \in Scopes /\ runs'[r].team = g[runs[r].team]
      BY <1>1, <1>8, RowsTyped
    <3>2. PICK x \in Scopes, y \in Scopes : x = runs[r].team /\ y = runs'[r].team /\ y = g[x]
      BY <1>5, <3>1
    <3>3. Home(y)' = Home(x)'
      BY <1>5, <2>4, <3>2
    <3>4. t = Unscoped \/ Home(x) = Home(t)
      BY <2>5, <3>2 DEF SameTeam
    <3>5. t = Unscoped \/ Home(x)' = Home(t)'
      BY <2>2, <3>4
    <3>6. t = Unscoped \/ Home(y)' = Home(t)'
      BY <3>3, <3>5
    <3> QED BY <3>2, <3>6 DEF SameTeam, Home
  <2>6. pc = "start" \/ Busy => scope \in Scopes
    BY <1>1 DEF ControlInv
  <2>7. ASSUME pc' = "start", seen'.prev # 0 PROVE SameTeam(seen.prev, scope)'
    <3>1. pc = "start" /\ seen' = seen /\ scope' = scope /\ seen.prev # 0
      BY <1>3, <2>7 DEF worker
    <3>2. PICK p \in 1..Len(runs) : p = seen.prev
      BY <1>1, <3>1, LenIsNat DEF WorkTyped
    <3>3. PICK t \in Scopes : t = scope
      BY <2>6, <3>1
    <3>4. SameTeam(p, t)
      BY <1>1, <3>1, <3>2, <3>3 DEF LineageInv
    <3>5. SameTeam(p, t)'
      BY <2>5, <3>4
    <3> QED BY <3>1, <3>2, <3>3, <3>5 DEF SameTeam
  <2>8. ASSUME Busy', runs'[Current'].prev # 0 PROVE SameTeam(runs[Current].prev, scope)'
    <3>1. Busy /\ scope' = scope /\ Current \in 1..Len(runs)
      BY <1>1, <1>3, <2>8 DEF Busy, ControlInv, worker
    <3>2. runs'[Current'].prev = runs[Current].prev
      BY <1>8, <1>9, <3>1 DEF Kept
    <3>3. PICK p \in 1..Len(runs) : p = runs[Current].prev
      <4>1. runs[Current].prev \in Nat /\ runs[Current].pred \in Nat /\ runs[Current].pred < Current
            /\ runs[Current].prev \in {0, runs[Current].pred}
        BY <1>1, <3>1, RowsTyped DEF RunsInv
      <4> QED BY <1>1, <2>8, <3>1, <3>2, <4>1, LenIsNat
    <3>4. PICK t \in Scopes : t = scope
      BY <2>6, <3>1
    <3>5. SameTeam(p, t)
      BY <1>1, <2>8, <3>1, <3>2, <3>3, <3>4 DEF LineageInv
    <3>6. SameTeam(p, t)'
      BY <2>5, <3>5
    <3> QED BY <3>1, <3>2, <3>3, <3>4, <3>6 DEF SameTeam
  <2> QED BY <2>1, <2>7, <2>8 DEF LineageInv
<1>16. SnapsInv'
  <2>1. ASSUME NEW t \in Teams \ mixed'
        PROVE  \/ SnapsOf(t)' = SnapsOf(t) /\ t \in Teams \ mixed
               \/ t = from /\ SnapsOf(t)' = {}
    <3>1. t \notin mixed
      BY <1>10
    <3>2. CASE t = from
      BY <1>2, <1>5, <1>11, <3>2
    <3>3. CASE t = to
      <4>1. SnapsOf(from) = {}
        BY <1>10, <3>3
      <4>2. SnapsOf(t)' = SnapsOf(t)
        <5>1. \A s \in snaps : s.team # from
          BY <4>1 DEF SnapsOf
        <5>2. \A s \in snaps : s.team \in Scopes /\ g[s.team] = s.team /\ s \in SnapRow
          BY <1>1, <1>5, <5>1 DEF TablesTyped, SnapRow
        <5>3. snaps' = snaps
          <6>1. \A s \in snaps : [s EXCEPT !.team = g[@]] = s
            BY <5>2 DEF SnapRow
          <6> QED BY <1>7, <6>1
        <5> QED BY <5>3 DEF SnapsOf
      <4> QED BY <3>1, <4>2
    <3>4. CASE t \notin {from, to}
      <4>1. \A u \in Scopes : g[u] = t <=> u = t
        BY <1>5, <3>4
      <4> QED BY <1>11, <3>1, <4>1
    <3> QED BY <3>2, <3>3, <3>4
  <2>2. SnapshotsDense'
    <3> SUFFICES ASSUME NEW t \in Teams \ mixed' PROVE Dense(t)'
      BY DEF SnapshotsDense, Dense
    <3>1. CASE SnapsOf(t)' = {}
      BY <3>1, EmptyIsDenseNext
    <3>2. CASE SnapsOf(t)' = SnapsOf(t) /\ t \in Teams \ mixed
      BY <1>1, <3>2 DEF SnapsInv, SnapshotsDense, Dense
    <3> QED BY <2>1, <3>1, <3>2
  <2>3. ASSUME pc' = "snapshot", scope' \in Teams \ mixed'
        PROVE  version' = Cardinality(SnapsOf(scope)') + 1
    <3>1. pc = "snapshot" /\ scope' = scope /\ version' = version
      BY <1>3, <2>3 DEF worker
    <3>2. scope # from
      BY <1>10, <2>3, <3>1
    <3>3. PICK t \in Teams \ mixed' : t = scope
      BY <2>3, <3>1
    <3>4. SnapsOf(t)' = SnapsOf(t) /\ t \in Teams \ mixed
      BY <2>1, <3>2, <3>3
    <3>5. version = Cardinality(SnapsOf(t)) + 1
      BY <1>1, <3>1, <3>3, <3>4 DEF SnapsInv
    <3>6. SnapsOf(scope)' = SnapsOf(t)'
      BY <3>1, <3>3 DEF SnapsOf
    <3> QED BY <3>1, <3>4, <3>5, <3>6
  <2> QED BY <1>1, <1>3, <1>9, <1>11, <2>2, <2>3 DEF SnapsInv, worker
<1>17. DoneInv'
  BY <1>1, <1>3, <1>8, <1>9, <1>11, DoneKept DEF Busy, ControlInv, DoneInv, Replaced, Recorded, Kept, worker
<1> QED BY <1>12, <1>13, <1>14, <1>15, <1>16, <1>17 DEF PipelineInv

-----------------------------------------------------------------------------
(* Stops and restarts. *)

LEMMA StopStep ==
  ASSUME PipelineInv, Stop
  PROVE  PipelineInv'
<1>1. TablesTyped /\ TeamsTyped /\ WorkTyped
  BY TypesSplit DEF PipelineInv
<1>2. UNCHANGED <<admin, tables, unmarked>> /\ ~up' /\ pc' = "idle"
  BY DEF Stop
<1>3. TypeOK'
  <2>1. TablesTyped'
    BY <1>1, <1>2 DEF TablesTyped, SnapRow, tables
  <2>2. TeamsTyped'
    BY <1>1, <1>2 DEF TeamsTyped, admin, lineage
  <2>3. WorkTyped'
    <3>1. Len(runs') = Len(runs) /\ Len(runs) \in Nat
      BY <1>1, <1>2, LenIsNat DEF tables
    <3>2. found' \in 0..MaxFound
      BY BoundsAssumption DEF Stop
    <3>6. errs' \in BOOLEAN /\ up' \in BOOLEAN
      BY Zenon DEF Stop
    <3>3. seen' \in [prev : 0..Len(runs'), pred : 0..Len(runs')] /\ version' \in 0..Len(runs')
      BY <3>1 DEF Stop, Nothing
    <3>4. queue' \subseteq Scopes /\ scope' \in Scopes \cup {None}
      BY DEF Stop
    <3>5. stops' \in 0..MaxStops
      BY <1>1, BoundsAssumption DEF Stop, WorkTyped
    <3> QED BY <1>2, <3>2, <3>3, <3>4, <3>5, <3>6 DEF WorkTyped
  <2> QED BY <2>1, <2>2, <2>3, TypesSplitNext
<1>4. ControlInv' /\ RunsInv'
  BY <1>2 DEF PipelineInv, ControlInv, RunsInv, RunsHonest, Busy, Current, tables
<1>5. LineageInv'
  BY <1>2 DEF PipelineInv, LineageInv, Busy, admin, lineage
<1>6. SnapsInv'
  BY <1>2 DEF PipelineInv, SnapsInv, SnapshotsDense, SnapsOf, tables, admin, lineage
<1>7. DoneInv'
  BY <1>2 DEF PipelineInv, DoneInv, Replaced, Recorded, tables
<1> QED BY <1>3, <1>4, <1>5, <1>6, <1>7 DEF PipelineInv

LEMMA BackfilledScope ==
  ASSUME TeamsTyped, NEW t \in Scopes
  PROVE  Backfilled(t) \in Scopes /\ (t # Unscoped => Backfilled(t) = t)
<1>1. CASE t = Unscoped /\ Cardinality(RealTeams) = 1
  <2>1. RealTeams # {}
    BY <1>1, FS_EmptySet
  <2> QED BY <1>1, <2>1 DEF Backfilled, RealTeams, Scopes, TeamsTyped
<1>2. CASE ~(t = Unscoped /\ Cardinality(RealTeams) = 1)
  BY <1>2 DEF Backfilled
<1> QED BY <1>1, <1>2

\* The rows the back-fill leaves are the rows before, team IDs apart.
LEMMA BackfilledRows ==
  ASSUME TablesTyped, TeamsTyped, NEW rows,
         rows = [r \in DOMAIN runs |-> [runs[r] EXCEPT !.team = Backfilled(@)]]
  PROVE  /\ Kept(rows)
         /\ \A r \in 1..Len(runs) : rows[r].status = runs[r].status
<1> DEFINE g == [t \in Scopes |-> Backfilled(t)]
<1>1. g \in [Scopes -> Scopes] /\ \A t \in Scopes : g[t] = Backfilled(t)
  BY BackfilledScope
<1> HIDE DEF g
<1>2. rows = [r \in DOMAIN runs |-> [runs[r] EXCEPT !.team = g[@]]]
  <2>1. \A r \in DOMAIN runs : runs[r].team \in Scopes
    BY LenIsNat, RowsTyped
  <2> QED BY <1>1, <2>1
<1> QED BY <1>1, <1>2, RowsRetagged

LEMMA SameRows ==
  ASSUME TablesTyped
  PROVE  Kept(runs) /\ \A r \in 1..Len(runs) : runs[r].status = runs[r].status
BY LenIsNat DEF Kept, TablesTyped

\* Marking leaves no row running but those it remembers.
LEMMA MarkedRows ==
  ASSUME TablesTyped, NEW rows, Kept(rows), MarkInterruptedRuns(rows)
  PROVE  /\ Kept(runs')
         /\ unmarked' \subseteq 1..Len(runs)
         /\ \A r \in 1..Len(runs) : runs'[r].status = "running" <=> r \in unmarked'
<1> DEFINE n == Len(runs)
           New(r) == [rows[r] EXCEPT !.status = Marked(@)]
<1>1. n \in Nat /\ DOMAIN rows = 1..n /\ rows \in Seq(RunRow) /\ Len(rows) = n
  BY LenIsNat DEF Kept
<1>2. CASE /\ runs' = [r \in DOMAIN rows |-> New(r)]
           /\ unmarked' = {}
  <2>1. ASSUME NEW r \in 1..n
        PROVE  /\ New(r) \in RunRow /\ New(r).prev = runs[r].prev /\ New(r).pred = runs[r].pred
               /\ New(r).status # "running"
               /\ New(r).status = "complete" <=> runs[r].status = "complete"
    <3>1. rows[r] \in RunRow
      BY <1>1, ElementOfSeq
    <3>2. Marked(rows[r].status) \in Statuses /\ Marked(rows[r].status) # "running"
          /\ (Marked(rows[r].status) = "complete" <=> rows[r].status = "complete")
      BY <3>1 DEF RunRow, Marked, Statuses
    <3>3. New(r) \in RunRow /\ New(r).status = Marked(rows[r].status)
          /\ New(r).prev = rows[r].prev /\ New(r).pred = rows[r].pred
      BY <3>1, <3>2 DEF RunRow
    <3> QED BY <3>2, <3>3 DEF Kept
  <2> HIDE DEF New
  <2>2. runs' \in [1..n -> RunRow]
    BY <1>1, <1>2, <2>1
  <2>3. runs' \in Seq(RunRow) /\ Len(runs') = n /\ DOMAIN runs' = 1..n
    BY <1>1, <2>2, RowsAreSeq
  <2> QED BY <1>1, <1>2, <2>1, <2>3 DEF Kept
<1>3. CASE runs' = rows /\ unmarked' = {r \in DOMAIN rows : rows[r].status = "running"}
  BY <1>1, <1>3
<1> QED BY <1>2, <1>3 DEF MarkInterruptedRuns

\* What the back-fill leaves of the snapshots: a team that is not given any has
\* those it had.
LEMMA BackfilledSnaps ==
  ASSUME TablesTyped, TeamsTyped, SnapsInv, NEW rows, BackfillTeamID(rows)
  PROVE  /\ snaps' \subseteq SnapRow
         /\ IsFiniteSet(snaps')
         /\ \A s \in snaps' : s.version <= s.run
         /\ \A s, x \in snaps' : s.run = x.run => s = x
         /\ \A r : Recorded(r) => Recorded(r)'
         /\ mixed' \subseteq Scopes /\ mixed \subseteq mixed'
         /\ \A t \in Teams \ mixed' : SnapsOf(t)' = SnapsOf(t)
<1>1. CASE UNCHANGED <<snaps, mixed>>
  BY <1>1 DEF TablesTyped, TeamsTyped, SnapsInv, Recorded, SnapsOf
<1>2. CASE /\ snaps' = {[s EXCEPT !.team = Backfilled(@)] : s \in snaps}
           /\ mixed' = mixed \cup {Backfilled(s.team) : s \in SnapsOf(Unscoped)}
  <2> DEFINE g == [t \in Scopes |-> Backfilled(t)]
  <2>1. g \in [Scopes -> Scopes] /\ \A t \in Scopes : g[t] = Backfilled(t)
    BY BackfilledScope
  <2> HIDE DEF g
  <2>2. \A s \in snaps : s.team \in Scopes /\ s \in SnapRow
    BY DEF TablesTyped, SnapRow
  <2>3. snaps' = {[s EXCEPT !.team = g[@]] : s \in snaps}
    BY <1>2, <2>1, <2>2
  <2>4. /\ snaps' \subseteq SnapRow
        /\ IsFiniteSet(snaps')
        /\ \A s \in snaps' : s.version <= s.run
        /\ \A s, x \in snaps' : s.run = x.run => s = x
        /\ \A r : Recorded(r) => Recorded(r)'
        /\ \A t : (\A u \in Scopes : g[u] = t <=> u = t) => SnapsOf(t)' = SnapsOf(t)
    BY <2>1, <2>3, SnapsRetagged
  <2>5. mixed' \subseteq Scopes
    BY <1>2, <2>2, BackfilledScope DEF SnapsOf, TeamsTyped
  <2>6. ASSUME NEW t \in Teams \ mixed' PROVE SnapsOf(t)' = SnapsOf(t)
    <3>1. t \in Scopes /\ t # Unscoped
      BY TeamsAssumption DEF Scopes
    <3>2. CASE g[Unscoped] = t
      <4>1. Unscoped \in Scopes /\ Backfilled(Unscoped) = t
        BY <2>1, <3>2 DEF Scopes
      <4>2. SnapsOf(Unscoped) = {}
        <5>1. \A s \in SnapsOf(Unscoped) : Backfilled(s.team) = t
          BY <4>1 DEF SnapsOf
        <5> QED BY <1>2, <5>1
      <4>3. \A s \in snaps : [s EXCEPT !.team = g[@]] = s
        <5>1. \A s \in snaps : s.team # Unscoped
          BY <4>2 DEF SnapsOf
        <5>2. \A s \in snaps : g[s.team] = s.team
          BY <2>1, <2>2, <5>1, BackfilledScope
        <5> QED BY <2>2, <5>2 DEF SnapRow
      <4>4. snaps' = snaps
        BY <2>3, <4>3
      <4> QED BY <4>4 DEF SnapsOf
    <3>3. CASE g[Unscoped] # t
      <4>1. \A u \in Scopes : g[u] = t <=> u = t
        BY <2>1, <3>1, <3>3, BackfilledScope DEF Scopes
      <4> QED BY <2>4, <4>1
    <3> QED BY <3>2, <3>3
  <2> QED BY <1>2, <2>4, <2>5, <2>6
<1> QED BY <1>1, <1>2 DEF BackfillTeamID

LEMMA BootStep ==
  ASSUME PipelineInv, Boot
  PROVE  PipelineInv'
<1>1. TablesTyped /\ TeamsTyped /\ WorkTyped /\ ControlInv /\ RunsInv /\ LineageInv /\ SnapsInv
      /\ DoneInv
  BY TypesSplit DEF PipelineInv
<1>2. PICK rows \in {runs, [r \in DOMAIN runs |-> [runs[r] EXCEPT !.team = Backfilled(@)]]} :
        BackfillTeamID(rows) /\ MarkInterruptedRuns(rows)
  BY DEF Boot
<1>3. UNCHANGED <<clusters, worker, stops>> /\ up' /\ pc = "idle" /\ pc' = "idle"
      /\ EnsureUnassignedTeam
  BY <1>1 DEF Boot, ControlInv, worker
<1>4. Kept(rows)
  BY <1>1, <1>2, BackfilledRows, SameRows
<1>5. /\ Kept(runs')
      /\ unmarked' \subseteq 1..Len(runs)
      /\ \A r \in 1..Len(runs) : runs'[r].status = "running" <=> r \in unmarked'
  BY <1>1, <1>2, <1>4, MarkedRows
<1>6. Len(runs') = Len(runs) /\ DOMAIN runs' = 1..Len(runs)
  BY <1>5 DEF Kept
<1>7. /\ snaps' \subseteq SnapRow
      /\ IsFiniteSet(snaps')
      /\ \A s \in snaps' : s.version <= s.run
      /\ \A s, x \in snaps' : s.run = x.run => s = x
      /\ \A r : Recorded(r) => Recorded(r)'
      /\ mixed' \subseteq Scopes /\ mixed \subseteq mixed'
      /\ \A t \in Teams \ mixed' : SnapsOf(t)' = SnapsOf(t)
  BY <1>1, <1>2, BackfilledSnaps
<1>8. /\ teams' \subseteq Teams /\ gone' \subseteq Teams \ teams' /\ home' \in [Teams -> Teams]
      /\ \A t \in Teams \ gone' : home'[t] = t
  BY <1>1, <1>3, TeamsAssumption DEF EnsureUnassignedTeam, TeamsTyped, LineageInv
<1>9. TypeOK'
  <2>1. TablesTyped'
    BY <1>1, <1>3, <1>5, <1>6, <1>7 DEF TablesTyped, SnapRow, Kept
  <2>2. TeamsTyped'
    BY <1>7, <1>8 DEF TeamsTyped
  <2>3. WorkTyped'
    BY <1>1, <1>3, <1>6 DEF WorkTyped, worker, Boot
  <2> QED BY <2>1, <2>2, <2>3, TypesSplitNext
<1>10. ControlInv'
  BY <1>3 DEF ControlInv, Busy
<1>11. RunsInv'
  <2>1. \A r \in 1..Len(runs)' : runs'[r].pred < r /\ runs'[r].prev \in {0, runs'[r].pred}
    BY <1>1, <1>5, <1>6 DEF RunsInv, Kept
  <2> QED BY <1>3, <1>5, <1>6, <2>1 DEF RunsInv, RunsHonest, Busy
<1>12. LineageInv'
  BY <1>3, <1>8 DEF LineageInv, Busy
<1>13. SnapsInv'
  <2>1. SnapshotsDense'
    BY <1>1, <1>7 DEF SnapsInv, SnapshotsDense
  <2> QED BY <1>3, <1>7, <2>1 DEF SnapsInv
<1>14. DoneInv'
  <2>1. UNCHANGED errs
    BY <1>3 DEF worker
  <2> QED BY <1>1, <1>3, <1>5, <1>7, <2>1, DoneKept
<1> QED BY <1>9, <1>10, <1>11, <1>12, <1>13, <1>14 DEF PipelineInv

LEMMA StutterStep == PipelineInv /\ UNCHANGED vars => PipelineInv'
<1> SUFFICES ASSUME PipelineInv, UNCHANGED vars PROVE PipelineInv'
  OBVIOUS
<1>1. UNCHANGED <<admin, tables, up, worker, history>>
  BY DEF vars
<1>2. TablesTyped /\ TeamsTyped /\ WorkTyped
  BY TypesSplit DEF PipelineInv
<1>3. TablesTyped'
  BY <1>1, <1>2 DEF TablesTyped, SnapRow, tables, history
<1>4. TeamsTyped'
  BY <1>1, <1>2 DEF TeamsTyped, admin, lineage
<1>5. WorkTyped'
  BY <1>1, <1>2 DEF WorkTyped, worker, tables, history
<1>6. TypeOK'
  BY <1>3, <1>4, <1>5, TypesSplitNext
<1> QED BY <1>1, <1>6, RowsFrame DEF PipelineInv, worker, history, admin, lineage

LEMMA NextPipelineInv == PipelineInv /\ [Next]_vars => PipelineInv'
<1> SUFFICES ASSUME PipelineInv, [Next]_vars PROVE PipelineInv'
  OBVIOUS
<1>1. CASE UNCHANGED vars
  BY <1>1, StutterStep
<1>2. CASE Begin \/ SkipTeam \/ EndPass \/ StartFails
  BY <1>2, PassSteps
<1>3. CASE LatestRun \/ StartRun \/ ListEntries
  BY <1>3, LatestRunStep, StartRunStep, ListEntriesStep
<1>4. CASE ListFails \/ LatestSnapshotFails \/ FinishRun
  BY <1>4, EndSteps
<1>5. CASE StoreCluster \/ DeleteOld \/ LatestSnapshot \/ StoreSnapshot
  BY <1>5, StoreClusterStep, DeleteOldStep, LatestSnapshotStep, StoreSnapshotStep
<1>6. CASE Administer
  BY <1>6, TeamRowSteps, MigrateStep DEF Administer
<1>7. CASE Stop \/ Boot
  BY <1>7, StopStep, BootStep
<1> QED BY <1>1, <1>2, <1>3, <1>4, <1>5, <1>6, <1>7 DEF Next, Work

\* Clusters disappear only in DeleteOld, which deletes those of the previous run.
OnlyOlder ==
  \A c \in clusters : c \notin clusters' =>
    /\ c.run < Current
    /\ scope = Unscoped \/ Home(runs[c.run].team) = Home(scope)

LEMMA NextOnlyOlder == PipelineInv /\ Next => OnlyOlder
<1> SUFFICES ASSUME PipelineInv, Next PROVE OnlyOlder
  OBVIOUS
<1>1. TablesTyped /\ RunsInv /\ LineageInv /\ ControlInv
  BY TypesSplit DEF PipelineInv
<1>2. CASE clusters \subseteq clusters'
  BY <1>2 DEF OnlyOlder
<1>3. CASE DeleteOld
  <2> SUFFICES ASSUME NEW c \in clusters, c \notin clusters'
               PROVE  c.run < Current /\ SameTeam(c.run, scope)
    BY DEF OnlyOlder, SameTeam
  <2>1. c.run = runs[Current].prev
    BY <1>3 DEF DeleteOld
  <2>2. c.run \in Nat /\ c.run # 0
    BY <1>1 DEF TablesTyped
  <2>3. Busy /\ Current \in 1..Len(runs)
    BY <1>1, <1>3 DEF DeleteOld, Busy, ControlInv
  <2>4. runs[Current].pred < Current /\ runs[Current].prev \in {0, runs[Current].pred}
    BY <1>1, <2>3 DEF RunsInv
  <2>5. SameTeam(runs[Current].prev, scope)
    BY <1>1, <2>1, <2>2, <2>3 DEF LineageInv
  <2> QED BY <2>1, <2>2, <2>4, <2>5
<1>4. CASE StoreCluster
  BY <1>2, <1>4 DEF StoreCluster
<1> QED BY <1>2, <1>3, <1>4
        DEF Next, Work, Begin, SkipTeam, LatestRun, StartFails, StartRun, ListFails, ListEntries,
            LatestSnapshotFails, LatestSnapshot, StoreSnapshot, FinishRun, EndPass, Administer,
            CreateTeam, DeleteTeam, DeleteTeamMigrate, Stop, Boot, tables

-----------------------------------------------------------------------------
(* The theorems. *)

\* The inductive invariant holds of every behaviour of the pipeline.
THEOREM PipelineInvariant == Spec => []PipelineInv
BY InitPipelineInv, NextPipelineInv, PTL DEF Spec

\* The run, cluster and snapshot tables and the goroutine's locals stay within
\* their types; the bounds hold although versions are numbered over failed runs.
THEOREM PipelineTyped == Spec => []TypeOK
<1>1. PipelineInv => TypeOK
  BY DEF PipelineInv
<1> QED BY <1>1, PipelineInvariant, PTL

\* "so the runs list is honest" (main.go:158): a row is "running" exactly while
\* its run is executed, or if its end, or its marking at the boot, could not be
\* written (main.go:159-160).
THEOREM PipelineRunsHonest == Spec => []RunsHonest
<1>1. PipelineInv => RunsHonest
  BY DEF PipelineInv, RunsInv
<1> QED BY <1>1, PipelineInvariant, PTL

\* A run that reports "complete" has stored exactly one snapshot and replaced its
\* predecessor's clusters (pipeline.go:364-408), whatever failed before, unless
\* it could not look up its predecessor (pipeline.go:246).
THEOREM PipelineCompleteIsDone == Spec => []CompleteMeansDone
<1>1. PipelineInv => CompleteMeansDone
  <2> SUFFICES ASSUME PipelineInv, NEW r \in DOMAIN runs, runs[r].status = "complete"
               PROVE  Replaced(r) /\ Cardinality({s \in snaps : s.run = r}) = 1
    BY DEF CompleteMeansDone, Replaced
  <2>1. r \in 1..Len(runs)
    BY TypesSplit, LenIsNat DEF PipelineInv
  <2>2. Replaced(r) /\ Recorded(r)
    BY <2>1 DEF PipelineInv, DoneInv
  <2>3. PICK x \in snaps : x.run = r
    BY <2>2 DEF Recorded
  <2>4. {s \in snaps : s.run = r} = {x}
    BY <2>3 DEF PipelineInv, SnapsInv
  <2> QED BY <2>2, <2>4, FS_Singleton
<1> QED BY <1>1, PipelineInvariant, PTL

\* The snapshots of a team are numbered 1, 2, 3... (pipeline.go:386-400), over
\* failed runs, stops, unscoped passes and merges of other teams, unless it was
\* given snapshots counted apart from its own (teams_sqlite.go:230,
\* sqlite.go:1077-1088).
THEOREM PipelineSnapshotsDense == Spec => []SnapshotsDense
<1>1. PipelineInv => SnapshotsDense
  BY DEF PipelineInv, SnapsInv
<1> QED BY <1>1, PipelineInvariant, PTL

\* A run deletes clusters of older runs of its own team only, or of any team if
\* it is unscoped (pipeline.go:340-372); teams merged meanwhile are one team.
THEOREM PipelineDeletesOnlyOlder == Spec => DeletesOnlyOlder
<1>1. PipelineInv /\ [Next]_vars =>
        [\A c \in clusters : c \notin clusters' =>
           /\ c.run < Current
           /\ scope = Unscoped \/ Home(runs[c.run].team) = Home(scope)]_vars
  BY NextOnlyOlder DEF OnlyOlder
<1> QED BY <1>1, PipelineInvariant, PTL DEF Spec, DeletesOnlyOlder
=============================================================================
