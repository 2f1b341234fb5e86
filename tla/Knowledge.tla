------------------------------ MODULE Knowledge ------------------------------
(***************************************************************************)
(* The life of knowledge entries: the REST handlers of internal/web        *)
(* (handlers.go, batch_handlers.go, knowledge_move_handlers.go,            *)
(* import_handlers.go) and the MCP tools of internal/mcp/tools.go over     *)
(* internal/storage/sqlite.go.                                             *)
(*                                                                         *)
(* A handler loads the entry, checks that the caller's team may access it, *)
(* and acts in later statements of its own; an edit stores the row first   *)
(* and replaces the entry's search chunks after embedding the new text.    *)
(* The steps of other callers fall in between, and the process may stop.   *)
(* Batch operations are sequences of single ones by the same caller.       *)
(*                                                                         *)
(* A text stands for the title and content of an entry, its chunks are one *)
(* record.  Left out: the other columns (they travel with the text), team- *)
(* less entries, tags, ratings, activity records and live events.          *)
(***************************************************************************)
EXTENDS Naturals, FiniteSets

CONSTANTS
  Ids,       \* entry IDs (UUIDs, never used again)
  Callers,   \* concurrent requests; each caller has one at a time
  Super,     \* the callers who are superadmins
  Teams,
  Home,      \* the team of each caller's context
  Texts,
  Ops,       \* the operations each caller requests
  Faults,    \* {"embed"} if an embedder may be missing or fail
  MaxStops,  \* bound: process stops
  None

ASSUME CallersAssumption == Super \subseteq Callers /\ Home \in [Callers -> Teams]
ASSUME NoneAssumption == None \notin Texts \cup Teams
ASSUME StopsAssumption == MaxStops \in Nat

VARIABLES
  row,     \* the entries table
  index,   \* entry_chunks with vec_chunks: what search knows of an entry
  req,     \* what each caller's handler holds
  was,     \* history, per entry: the texts its row has had
  stops    \* history: process stops so far

vars == <<row, index, req, was, stops>>

Unborn == [state |-> "unborn"]
Gone == [state |-> "gone"]
Idle == [op |-> "idle"]

Statuses == {"pending", "approved", "rejected"}
Rows == [team : Teams, text : Texts, hash : Texts \cup {None}, status : Statuses]
Chunks == [text : Texts, vec : BOOLEAN]

Live == {i \in Ids : row[i] \in Rows}
Reach(c) == IF c \in Super THEN Teams ELSE {Home[c]}
CanAccess(c, i) == i \in Live /\ row[i].team \in Reach(c)

Asks(c, op) == req[c] = Idle /\ op \in Ops[c]
Holds(c, op) == req[c].op = op
Keeps(c, q) == req' = [req EXCEPT ![c] = q]
Answers(c) == Keeps(c, Idle)

Init ==
  /\ row = [i \in Ids |-> Unborn]
  /\ index = [i \in Ids |-> None]
  /\ req = [c \in Callers |-> Idle]
  /\ was = [i \in Ids |-> {}]
  /\ stops = 0

-----------------------------------------------------------------------------
(* New entries. *)

Insert(i, r, chunks) ==
  /\ row[i] = Unborn
  /\ row' = [row EXCEPT ![i] = r]
  /\ index' = [index EXCEPT ![i] = chunks]
  /\ was' = [was EXCEPT ![i] = {r.text}]
  /\ UNCHANGED stops

\* StoreEntryChunked: the row, with its hash, and the chunks in one transaction.
StoreEntryChunked(i, t, x, status, vec) ==
  Insert(i, [team |-> t, text |-> x, hash |-> x, status |-> status], [text |-> x, vec |-> vec])

\* handleKnowledgeStore stores without vectors.
Store(c, i, x) ==
  /\ Asks(c, "store")
  /\ StoreEntryChunked(i, Home[c], x, "pending", FALSE)
  /\ UNCHANGED req

\* BulkImport writes neither a hash nor chunks.
BulkImport(c, i, x) ==
  /\ Asks(c, "import")
  /\ Insert(i, [team |-> Home[c], text |-> x, hash |-> None, status |-> "approved"], None)
  /\ UNCHANGED req

\* HandleKnowledgeStore: GetEntryByContentHash over the entries of all teams.
LookupHash(c, x) ==
  LET same == {i \in Live : row[i].hash = x} IN
  /\ Asks(c, "learn")
  /\ IF same = {} THEN Keeps(c, [op |-> "learn", text |-> x])
     ELSE \E i \in same : Keeps(c, [op |-> "known", entry |-> i, text |-> x])
  /\ UNCHANGED <<row, index, was, stops>>

\* "already_exists"
AnswerKnown(c) ==
  /\ Holds(c, "known")
  /\ Answers(c)
  /\ UNCHANGED <<row, index, was, stops>>

Embeds == IF "embed" \in Faults THEN BOOLEAN ELSE {TRUE}

\* Mutant: the empty status is stored, not its default.
StoreLearntNoDefault(c, i) ==
  /\ Holds(c, "learn")
  /\ \E vec \in Embeds : StoreEntryChunked(i, Home[c], req[c].text, "", vec)
  /\ Answers(c)

\* Embedding is fail-soft: the entry is stored in any case.  The status is not
\* given: statusOrDefaultSQLite makes it "approved".
StoreLearnt(c, i) ==
  /\ Holds(c, "learn")
  /\ \E vec \in Embeds : StoreEntryChunked(i, Home[c], req[c].text, "approved", vec)
  /\ Answers(c)

-----------------------------------------------------------------------------
(* Editing.  A body without content leaves the text as it was read. *)

ReadToEdit(c, i, x) ==
  /\ Asks(c, "edit") /\ CanAccess(c, i)
  /\ Keeps(c, [op |-> "write", entry |-> i, text |-> x, changed |-> x # row[i].text,
               status |-> row[i].status, team |-> row[i].team])
  /\ UNCHANGED <<row, index, was, stops>>

\* Re-embedding is for texts that changed.
Continue(c) ==
  IF req[c].changed THEN Keeps(c, [op |-> "replace", entry |-> req[c].entry, text |-> req[c].text])
  ELSE Answers(c)

\* Mutant: the team that was read is written back with the text.
UpdateEntryOldTeam(c) ==
  LET i == req[c].entry IN
  /\ Holds(c, "write")
  /\ IF i \in Live
     THEN /\ row' = [row EXCEPT ![i].text = req[c].text, ![i].team = req[c].team]
          /\ was' = [was EXCEPT ![i] = @ \cup {req[c].text}]
          /\ Continue(c)
     ELSE Answers(c) /\ UNCHANGED <<row, was>>
  /\ UNCHANGED <<index, stops>>

\* Mutant: the status that was read is written back with the text.
UpdateEntryWholeRow(c) ==
  LET i == req[c].entry IN
  /\ Holds(c, "write")
  /\ IF i \in Live
     THEN /\ row' = [row EXCEPT ![i].text = req[c].text, ![i].status = req[c].status]
          /\ was' = [was EXCEPT ![i] = @ \cup {req[c].text}]
          /\ Continue(c)
     ELSE Answers(c) /\ UNCHANGED <<row, was>>
  /\ UNCHANGED <<index, stops>>

\* Mutant: the row keeps its old text, and the chunks are replaced all the same.
UpdateEntryNoText(c) ==
  /\ Holds(c, "write")
  /\ Continue(c)
  /\ UNCHANGED <<row, was, index, stops>>

\* UpdateEntry writes neither team, status nor hash.  A missing row is an error.
UpdateEntry(c) ==
  LET i == req[c].entry IN
  /\ Holds(c, "write")
  /\ IF i \in Live
     THEN /\ row' = [row EXCEPT ![i].text = req[c].text]
          /\ was' = [was EXCEPT ![i] = @ \cup {req[c].text}]
          /\ Continue(c)
     ELSE Answers(c) /\ UNCHANGED <<row, was>>
  /\ UNCHANGED <<index, stops>>

\* No embedder, or it fails: the text is stored, the chunks stay as they are.
EmbedSkipped(c) ==
  /\ Holds(c, "replace") /\ "embed" \in Faults
  /\ Answers(c)
  /\ UNCHANGED <<row, index, was, stops>>

\* Mutant: the chunks are written without looking for the entry.
ReplaceEntryChunksBlind(c) ==
  /\ Holds(c, "replace")
  /\ index' = [index EXCEPT ![req[c].entry] = [text |-> req[c].text, vec |-> TRUE]]
  /\ Answers(c)
  /\ UNCHANGED <<row, was, stops>>

\* One transaction, which finds the entry first.
ReplaceEntryChunks(c) ==
  LET i == req[c].entry IN
  /\ Holds(c, "replace")
  /\ index' = IF i \in Live THEN [index EXCEPT ![i] = [text |-> req[c].text, vec |-> TRUE]]
              ELSE index
  /\ Answers(c)
  /\ UNCHANGED <<row, was, stops>>

-----------------------------------------------------------------------------
(* Deleting, judging, moving. *)

ReadToDelete(c, i) ==
  /\ Asks(c, "delete") /\ CanAccess(c, i)
  /\ Keeps(c, [op |-> "delete", entry |-> i])
  /\ UNCHANGED <<row, index, was, stops>>

\* One transaction over the entry, its chunks and their vectors.
DeleteEntry(c) ==
  LET i == req[c].entry IN
  /\ Holds(c, "delete")
  /\ row' = [row EXCEPT ![i] = Gone]
  /\ index' = [index EXCEPT ![i] = None]
  /\ Answers(c)
  /\ UNCHANGED <<was, stops>>

ReadToJudge(c, i, verdict) ==
  /\ Asks(c, "judge") /\ CanAccess(c, i)
  /\ Keeps(c, [op |-> "judge", entry |-> i, status |-> verdict])
  /\ UNCHANGED <<row, index, was, stops>>

\* ApproveEntry and RejectEntry, whatever the status was.
SetStatus(c) ==
  LET i == req[c].entry IN
  /\ Holds(c, "judge")
  /\ row' = IF i \in Live THEN [row EXCEPT ![i].status = req[c].status] ELSE row
  /\ Answers(c)
  /\ UNCHANGED <<index, was, stops>>

\* ReassignEntriesTeam, for superadmins: one transaction; missing entries are ignored.
MoveEntries(c, S, t) ==
  /\ Asks(c, "move") /\ c \in Super
  /\ row' = [i \in Ids |-> IF i \in S \cap Live THEN [row[i] EXCEPT !.team = t] ELSE row[i]]
  /\ UNCHANGED <<index, req, was, stops>>

\* The process stops and starts: requests are lost, and migrate() gives entries
\* without chunks one of their current text (backfillChunks).
Restart ==
  /\ stops < MaxStops
  /\ stops' = stops + 1
  /\ req' = [c \in Callers |-> Idle]
  /\ index' = [i \in Ids |-> IF i \in Live /\ index[i] = None
                             THEN [text |-> row[i].text, vec |-> FALSE] ELSE index[i]]
  /\ UNCHANGED <<row, was>>

-----------------------------------------------------------------------------
Next ==
  \/ \E c \in Callers :
       \/ \E i \in Ids, x \in Texts : Store(c, i, x) \/ BulkImport(c, i, x) \/ ReadToEdit(c, i, x)
       \/ \E x \in Texts : LookupHash(c, x)
       \/ \E i \in Ids : StoreLearnt(c, i) \/ ReadToDelete(c, i)
       \/ \E i \in Ids, v \in {"approved", "rejected"} : ReadToJudge(c, i, v)
       \/ \E S \in SUBSET Ids \ {{}}, t \in Teams : MoveEntries(c, S, t)
       \/ AnswerKnown(c) \/ UpdateEntry(c) \/ EmbedSkipped(c) \/ ReplaceEntryChunks(c)
       \/ DeleteEntry(c) \/ SetStatus(c)
  \/ Restart

Spec == Init /\ [][Next]_vars

-----------------------------------------------------------------------------
(* Properties. *)

\* What a handler may hold, per operation.
EntryOps == {"known", "write", "replace", "delete", "judge"}

TypeOK ==
  /\ row \in [Ids -> Rows \cup {Unborn, Gone}]
  /\ index \in [Ids -> Chunks \cup {None}]
  /\ was \in [Ids -> SUBSET Texts]
  /\ stops \in 0..MaxStops
  /\ \A c \in Callers :
       /\ req[c].op \in EntryOps => req[c].entry \in Ids /\ row[req[c].entry] # Unborn
       /\ req[c].op \in {"learn", "known", "write", "replace"} => req[c].text \in Texts
       /\ req[c].op \in {"judge", "write"} => req[c].status \in Statuses
       /\ req[c].op = "write" => req[c].team \in Teams

\* Search never knows an entry by a text the entry has not had, whatever edits,
\* embedding failures and restarts interleave (handlers.go:710-765).
IndexWasText == \A i \in Ids : index[i] # None => index[i].text \in was[i]

\* Chunks exist only of entries that exist: an edit that is still embedding when
\* its entry is deleted leaves nothing behind (sqlite.go:718-775, 1090-1125).
NoOrphanChunks == \A i \in Ids : index[i] # None => i \in Live

\* A curator's decision, or a move, that falls between an edit's read and its
\* write is not taken back by the write-back (sqlite.go:963-976): a status only
\* changes when a caller judges the entry, and a team only when a superadmin
\* moves it, which no handler in progress does.
DecisionsStand ==
  [][\A i \in Live : i \in Live' =>
       /\ row'[i].status # row[i].status =>
            \E c \in Callers : Holds(c, "judge") /\ req[c].entry = i /\ req'[c] = Idle
       /\ row'[i].team # row[i].team =>
            UNCHANGED req /\ \E c \in Super : Asks(c, "move")]_vars
=============================================================================
