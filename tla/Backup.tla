------------------------------- MODULE Backup -------------------------------
(***************************************************************************)
(* Backup and restore (internal/backup, storage/backup_sqlite.go) of a      *)
(* database in use: Export dumps table after table without a transaction    *)
(* around them, Import empties the target and loads table after table,      *)
(* while callers append to fine-tuning sessions (TurnLog), entries are      *)
(* stored, deleted and re-embedded, and the process stops and starts.       *)
(*                                                                         *)
(* Of the covered tables, those of the fine-tuning sessions stand for the   *)
(* ones with foreign keys, teams for those with rows made at start-up and   *)
(* entries for those with vectors; the archive is what Export read.  Both   *)
(* run in the server (web/backup_handlers.go); the command line's do in a   *)
(* process of their own, whose store is as a server's just started.         *)
(*                                                                         *)
(* Import refuses an archive without a manifest, of another format or of    *)
(* another EMBEDDING_DIM before it touches anything.  The dimension of the  *)
(* vectors is another matter: a re-embed run may have changed it, in the    *)
(* store and its columns but not in the environment (Embedding has the      *)
(* steps of the run, which is one here).                                    *)
(***************************************************************************)
EXTENDS TurnLog

CONSTANTS Unassigned,  \* the team made at start-up
          MaxChanges,  \* bound: entries stored, deleted or re-embedded by others
          EnvDim, Dims, \* EMBEDDING_DIM, and what a model's vectors may have
          LongLine(_, _) \* whether a row of a table is over 16 MiB as a line of JSON

ASSUME DimAssumption == EnvDim \in Dims

CoveredTables == <<"teams", "entries", "ft_sessions", "ft_turns", "ft_preferences", "ft_session_knowledge">>
Covered == {CoveredTables[i] : i \in 1..Len(CoveredTables)}
VectorTables == {"entry_embeddings", "entry_chunks"}

VARIABLES ex,       \* the export: how far, and what it has read
          rs,       \* the restore
          overlap,  \* history: a request was in progress during a restore
          changes,
          dim       \* of vectors: the store's (in memory) and the columns'

bvars == <<ex, rs, overlap, changes, dim>>
vars == <<db, req, acked, left, used, tr, ex, rs, overlap, changes, dim>>
-----------------------------------------------------------------------------
NoRows == [t \in Covered \cup VectorTables |-> {}]
Idle == [pc |-> "idle", i |-> 0, fault |-> FALSE]

(* UNIQUE and FOREIGN KEY: a row collides with one of its key, or has no    *)
(* parent.                                                                  *)
SameKey(t, a, b) ==
  CASE t \in {"ft_sessions", "ft_preferences"} -> a.id = b.id
    [] t = "ft_turns" -> a.id = b.id \/ (a.session = b.session /\ a.seq = b.seq)
    [] OTHER -> a = b
Collides(t, rows) == \E a \in rows, b \in db[t] : SameKey(t, a, b)

(* Mutant: the foreign keys, off during the truncation, stay off. *)
OrphanedUnseen(t, rows) == FALSE

Orphaned(t, rows) == t \in Children /\ \E r \in rows : ~Has(r.session)

(* Export: a SELECT per table, the vectors last, which the store reads as   *)
(* of its dimension.                                                        *)
BeginExport ==
  /\ ex.pc = "idle"
  /\ ex' = [ex EXCEPT !.pc = "dump", !.i = 1, !.rows = NoRows, !.quiet = TRUE]
  /\ UNCHANGED <<db, rs, changes, dim>>

DumpTable ==
  /\ ex.pc = "dump"
  /\ LET t == CoveredTables[ex.i]
     IN  ex' = [ex EXCEPT !.rows[t] = db[t], !.i = @ + 1,
                          !.pc = IF ex.i = Len(CoveredTables) THEN "embeddings" ELSE "dump"]
  /\ UNCHANGED <<db, rs, changes, dim>>

DumpEmbeddings ==
  /\ ex.pc = "embeddings"
  /\ db["entry_embeddings"] \cap db["entries"] # {} => dim.mem = dim.col
  /\ ex' = [ex EXCEPT !.rows["entry_embeddings"] = db["entry_embeddings"] \cap db["entries"],
                      !.pc = "archive", !.dim = dim.mem]
  /\ UNCHANGED <<db, rs, changes, dim>>

(* The stream ends without a manifest; Import refuses it. *)
ExportFails == /\ ex.pc \in {"dump", "embeddings"}
               /\ ex' = [ex EXCEPT !.pc = "idle", !.rows = NoRows]
               /\ UNCHANGED <<db, rs, changes, dim>>

(* Import. *)
IsEmpty == db["entries"] = {} /\ db["teams"] \subseteq {Unassigned}
Restoring == rs.pc \in {"vectors", "truncate", "load", "embeddings", "chunks"}

BeginImport ==
  /\ rs.pc = "idle" /\ ex.pc = "archive"
  /\ \E force \in BOOLEAN :
       IF IsEmpty \/ force THEN rs' = [rs EXCEPT !.pc = "vectors"] ELSE UNCHANGED rs
  /\ UNCHANGED <<db, ex, changes, dim>>

(* The vector tables first, then the others from the last to the first,     *)
(* each in a statement of its own with foreign keys off.                    *)
TruncateVectors ==
  /\ rs.pc = "vectors"
  /\ db' = [t \in DOMAIN db |-> IF t \in VectorTables THEN {} ELSE db[t]]
  /\ rs' = [rs EXCEPT !.pc = "truncate", !.i = Len(CoveredTables)]
  /\ UNCHANGED <<ex, changes, dim>>

TruncateTable ==
  /\ rs.pc = "truncate"
  /\ db' = [db EXCEPT ![CoveredTables[rs.i]] = {}]
  /\ rs' = IF rs.i = 1 THEN [rs EXCEPT !.pc = "load"] ELSE [rs EXCEPT !.i = @ - 1]
  /\ UNCHANGED <<ex, changes, dim>>

Fail == rs' = [rs EXCEPT !.pc = "failed"]

(* The scanner's buffer: the rows of a table are decoded all or none. *)
Overlong(t) == \E row \in ex.rows[t] : LongLine(t, row)

(* A transaction per table, from the first. *)
LoadTable ==
  /\ rs.pc = "load"
  /\ LET t == CoveredTables[rs.i]
         rows == ex.rows[t]
     IN  IF Overlong(t) \/ Collides(t, rows) \/ Orphaned(t, rows) THEN Fail /\ UNCHANGED db
         ELSE /\ db' = [db EXCEPT ![t] = @ \cup rows]
              /\ rs' = IF rs.i = Len(CoveredTables) THEN [rs EXCEPT !.pc = "embeddings"]
                       ELSE [rs EXCEPT !.i = @ + 1]
  /\ UNCHANGED <<ex, changes, dim>>

(* A vector must have the store's dimension and its columns'. *)
OtherDimension == ex.rows["entry_embeddings"] # {} /\ {dim.mem, dim.col} # {ex.dim}

LoadEmbeddings ==
  /\ rs.pc = "embeddings"
  /\ LET items == ex.rows["entry_embeddings"]
     IN  IF /\ ~Overlong("entry_embeddings") /\ ~OtherDimension
            /\ items \subseteq db["entries"] /\ items \cap db["entry_embeddings"] = {}
         THEN /\ db' = [db EXCEPT !["entry_embeddings"] = @ \cup items]
              /\ rs' = [rs EXCEPT !.pc = "chunks"]
         ELSE Fail /\ UNCHANGED db
  /\ UNCHANGED <<ex, changes, dim>>

(* Mutant: only entries with a vector get a chunk. *)
backfillEmbedded ==
  /\ rs.pc = "chunks"
  /\ db' = [db EXCEPT !["entry_chunks"] = @ \cup db["entry_embeddings"]]
  /\ rs' = [rs EXCEPT !.pc = "done"]
  /\ UNCHANGED <<ex, changes, dim>>

(* One chunk for every entry that has none. *)
backfillChunks ==
  /\ rs.pc = "chunks"
  /\ db' = [db EXCEPT !["entry_chunks"] = @ \cup db["entries"]]
  /\ rs' = [rs EXCEPT !.pc = "done"]
  /\ UNCHANGED <<ex, changes, dim>>

StoreFails ==
  /\ Restoring
  /\ rs' = [rs EXCEPT !.pc = "failed", !.fault = TRUE]
  /\ UNCHANGED <<db, ex, changes, dim>>

(* Others store and delete entries, with a vector that the store and its    *)
(* columns take, or without.                                                *)
ChangeEntry ==
  /\ changes < MaxChanges /\ changes' = changes + 1
  /\ \E e \in Entries :
       \/ /\ e \notin db["entries"]
          /\ \E embedded \in SUBSET {x \in {e} : dim.mem = dim.col} :
               db' = [db EXCEPT !["entries"] = @ \cup {e}, !["entry_chunks"] = @ \cup {e},
                                !["entry_embeddings"] = @ \cup embedded]
       \/ /\ e \in db["entries"]
          /\ db' = [db EXCEPT !["entries"] = @ \ {e}, !["entry_chunks"] = @ \ {e},
                              !["entry_embeddings"] = @ \ {e}]
  /\ UNCHANGED <<rs, dim>>

(* A re-embed run at another dimension: new columns, and new vectors as far *)
(* as it comes.                                                             *)
ReembedAll ==
  /\ changes < MaxChanges /\ changes' = changes + 1
  /\ \E d \in Dims \ {dim.col} : dim' = [mem |-> d, col |-> d]
  /\ \E embedded \in SUBSET db["entries"] : db' = [db EXCEPT !["entry_embeddings"] = embedded]
  /\ UNCHANGED rs
-----------------------------------------------------------------------------
Busy == \E c \in Callers : req[c].pc # "idle"
Exporting == ex.pc \in {"dump", "embeddings"}
Watch(disturbed) == overlap' = (overlap \/ disturbed)
Unquiet == ex' = IF Exporting /\ db' # db THEN [ex EXCEPT !.quiet = FALSE] ELSE ex

Init ==
  /\ db = [NoRows EXCEPT !["teams"] = {Unassigned}, !["entries"] = Entries,
             !["entry_embeddings"] = Entries, !["entry_chunks"] = Entries]
  /\ req = [c \in Callers |-> NoReq] /\ acked = {} /\ left = CallsOf /\ used = {}
  /\ tr = NoExport
  /\ ex = [pc |-> "idle", i |-> 0, rows |-> NoRows, quiet |-> TRUE, dim |-> EnvDim]
  /\ rs = Idle /\ overlap = FALSE /\ changes = 0 /\ dim = [mem |-> EnvDim, col |-> EnvDim]

CallerStep == /\ \E c \in Callers : TurnStep(c)
              /\ Watch(Restoring) /\ Unquiet /\ UNCHANGED <<rs, changes, dim>>
ReaderStep == ExportStep /\ UNCHANGED bvars
OtherStep == (ChangeEntry \/ ReembedAll) /\ Watch(Restoring) /\ Unquiet /\ UNCHANGED <<req, acked, left, used, tr>>
ImportStep == \/ TruncateVectors \/ TruncateTable \/ LoadTable \/ LoadEmbeddings
              \/ backfillChunks \/ StoreFails
BackupStep ==
  /\ \/ BeginExport \/ DumpTable \/ DumpEmbeddings \/ ExportFails \/ BeginImport \/ ImportStep
  /\ Watch(Restoring' /\ Busy)
  /\ UNCHANGED <<req, left, used, tr>>
  /\ acked' = IF Restoring' THEN {} ELSE acked

(* The server stops, and with it every request, export and restore in it;   *)
(* the next one has the environment's dimension in memory, gives entries    *)
(* without a chunk theirs and makes the reserved team if it can.            *)
Restart ==
  /\ req' = [c \in Callers |-> NoReq]
  /\ dim' = [dim EXCEPT !.mem = EnvDim]
  /\ \E made \in SUBSET {Unassigned} :
       db' = [db EXCEPT !["teams"] = @ \cup made, !["entry_chunks"] = @ \cup db["entries"]]
  /\ ex' = IF Exporting THEN [ex EXCEPT !.pc = "idle", !.rows = NoRows] ELSE ex
  /\ rs' = IF Restoring THEN [rs EXCEPT !.pc = "failed", !.fault = TRUE] ELSE rs
  /\ UNCHANGED <<acked, left, used, tr, overlap, changes>>

Next == CallerStep \/ ReaderStep \/ OtherStep \/ BackupStep \/ Restart
Spec == Init /\ [][Next]_vars
-----------------------------------------------------------------------------
(* Types, and the rows of the fine-tuning sessions belong together: while   *)
(* no request overlaps a restore, none is without its session, however an   *)
(* export, failures of the store and of the restore are interleaved.        *)
TypeOK ==
  /\ db["entries"] \subseteq Entries /\ db["teams"] \subseteq {Unassigned}
  /\ db["ft_sessions"] \subseteq [id : SessionIds, status : {"open", "completed", "abandoned"},
                                 rating : 0..5, eligible : BOOLEAN]
  /\ \A t \in {"entry_embeddings", "entry_chunks"} : db[t] \subseteq Entries
  /\ dim \in [mem : Dims, col : Dims] /\ ex.dim \in Dims
  /\ Cardinality({r.id : r \in db["ft_sessions"]}) = Cardinality(db["ft_sessions"])
  /\ ~overlap /\ ~Restoring => \A t \in Children : \A r \in db[t] : Has(r.session)
  /\ ~overlap /\ ~Restoring => db["entry_embeddings"] \subseteq db["entries"]

(* Turns stay in order in the tables, through restores that no request      *)
(* overlaps, and in every conversation exported for training.               *)
TurnsInOrder == ~overlap => InOrder(db["ft_turns"]) /\ ExportedInOrder

(* A restore that nobody overlaps brings back exactly what the archive      *)
(* holds, every entry with a chunk to be found by, and vectors of the       *)
(* store's dimension; of an archive during whose export nothing was written *)
(* it fails only when the store or the process does, when a row is longer   *)
(* than a line may be, or when the vectors' dimension has changed           *)
(* (import.go:18, "full replace").                                          *)
RestoreIsExact ==
  [][rs.pc # rs'.pc /\ rs'.pc \in {"done", "failed"} /\ ~overlap' =>
       \/ /\ rs'.pc = "done"
          /\ \A t \in Covered \cup {"entry_embeddings"} : db'[t] = ex.rows[t]
          /\ db'["entry_chunks"] = db'["entries"]
          /\ ~OtherDimension
       \/ /\ rs'.pc = "failed"
          /\ rs'.fault \/ ~ex.quiet \/ OtherDimension \/ \E t \in Covered \cup {"entry_embeddings"} : Overlong(t)]_vars
=============================================================================
