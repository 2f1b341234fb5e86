---------------------------- MODULE BackupProofs ----------------------------
(***************************************************************************)
(* TLAPS proofs about Backup, for any callers, sessions and entries: the    *)
(* turns of a session stay numbered in the order in which they were said,  *)
(* rows stay with the session they belong to, and a restore that nobody    *)
(* overlaps brings back what the archive holds.                            *)
(***************************************************************************)
EXTENDS Backup, FiniteSetTheorems, SequenceTheorems, TLAPS

(***************************************************************************)
(* Inductive invariant, from the tables inwards.                           *)
(***************************************************************************)
AllTables == Covered \cup VectorTables
SessionRows == [id : SessionIds, status : {"open", "completed", "abandoned"},
                rating : 0..5, eligible : BOOLEAN]
Of(turns, s) == {t \in turns : t.session = s}
Among(sessions, s) == \E r \in sessions : r.id = s

\* What the tables of the database and those of the archive have in common.
TablesOK(T) ==
  /\ T = [t \in AllTables |-> T[t]]
  /\ T["entries"] \subseteq Entries /\ T["teams"] \subseteq {Unassigned}
  /\ \A t \in VectorTables : T[t] \subseteq Entries
  /\ T["ft_sessions"] \subseteq SessionRows /\ IsFiniteSet(T["ft_sessions"])
  /\ \A a, b \in T["ft_sessions"] : a.id = b.id => a = b
  /\ \A r \in T["ft_sessions"] : r.id \in used
  /\ IsFiniteSet(T["ft_turns"])

\* No row refers to one that is not there.
Whole(T) == /\ \A t \in Children : \A r \in T[t] : Among(T["ft_sessions"], r.session)
            /\ T["entry_embeddings"] \subseteq T["entries"]

Fields(q) == q = [op |-> q.op, pc |-> q.pc, session |-> q.session, arg |-> q.arg, role |-> q.role,
                  entries |-> q.entries, todo |-> q.todo, seq |-> q.seq, after |-> q.after,
                  stored |-> q.stored]

\* A session to be made has an id of its own, known to nobody else.
Starting(c) ==
  req[c].op = "start" =>
    /\ req[c].session \in used /\ req[c].arg \in BOOLEAN /\ req[c].pc = "write"
    /\ ~Among(db["ft_sessions"], req[c].session)
    /\ ~Among(ex.rows["ft_sessions"], req[c].session)
    /\ \A d \in Callers \ {c} : req[d].op = "start" => req[d].session # req[c].session

Asking(c) ==
  /\ Fields(req[c])
  /\ IF req[c].pc = "idle" THEN req[c] = NoReq ELSE req[c].session \in SessionIds
  /\ req[c].op = "complete" => req[c].arg \in {"completed", "abandoned"} \X (0..5)
  /\ Starting(c)

\* How far export and restore have come; overlap is what a restore may suffer.
Places ==
  /\ ex = [pc |-> ex.pc, i |-> ex.i, rows |-> ex.rows, quiet |-> ex.quiet, dim |-> ex.dim]
  /\ ex.pc \in {"idle", "dump", "embeddings", "archive"} /\ ex.quiet \in BOOLEAN
  /\ ex.pc = "dump" => ex.i \in 1..Len(CoveredTables)
  /\ rs = [pc |-> rs.pc, i |-> rs.i, fault |-> rs.fault]
  /\ rs.pc \in {"idle", "vectors", "truncate", "load", "embeddings", "chunks", "failed", "done"}
  /\ rs.pc \in {"truncate", "load"} => rs.i \in 1..Len(CoveredTables)
  /\ ex.pc # "archive" => rs.pc = "idle"
  /\ overlap \in BOOLEAN /\ (rs.pc = "idle" => ~overlap)
  /\ dim \in [mem : Dims, col : Dims] /\ ex.dim \in Dims

TypeInv ==
  /\ used \subseteq SessionIds
  /\ TablesOK(db) /\ TablesOK(ex.rows)
  /\ req = [c \in Callers |-> req[c]] /\ \A c \in Callers : Asking(c)
  /\ left = [c \in Callers |-> left[c]]
  /\ tr = [pc |-> tr.pc, only |-> tr.only, todo |-> tr.todo, now |-> tr.now, turns |-> tr.turns,
           chats |-> tr.chats, pairs |-> tr.pairs, prefs |-> tr.prefs]
  /\ Places

\* The turns a request comes after are there, and before the number it holds.
FollowsIn(turns, q, id) ==
  /\ \A a \in q.after : \E t \in Of(turns, q.session) : t.id = a
  /\ q.stored => \E t \in Of(turns, q.session) : t.id = id
  /\ q.pc = "insert" =>
       /\ q.seq \in 0..Cardinality(Of(turns, q.session))
       /\ \A a \in q.after : \E t \in Of(turns, q.session) : t.id = a /\ t.seq < q.seq
Follows(c) == FollowsIn(db["ft_turns"], req[c], TurnId(c))

Acknowledged == \A p \in acked : \E t \in TurnsOf(p[1]) : t.id = p[2]

\* The training export has read complete beginnings of sessions.
Training ==
  /\ \A r \in tr.todo : Trainable(r, tr.only)
  /\ tr.pc = "idle" => tr.chats = {}
  /\ tr.pc = "prefs" => Trainable(tr.now, tr.only) /\ InOrder(ToSet(tr.turns))
  /\ ExportedInOrder

OrderInv ==
  /\ InOrder(db["ft_turns"]) /\ InOrder(ex.rows["ft_turns"])
  /\ \A c \in Callers : Follows(c)
  /\ Acknowledged
  /\ Training

\* The restore, table by table, as long as it is alone.
Emptied(j) == db[CoveredTables[j]] = {}
Loaded(j) == db[CoveredTables[j]] = ex.rows[CoveredTables[j]]
NoVectors == \A t \in VectorTables : db[t] = {}
Order == 1..Len(CoveredTables)

RestoreInv ==
  /\ Restoring => acked = {} /\ \A c \in Callers : req[c].pc = "idle"
  /\ rs.pc = "truncate" => NoVectors /\ \A j \in Order : j > rs.i => Emptied(j)
  /\ rs.pc = "load" => NoVectors /\ \A j \in Order : IF j < rs.i THEN Loaded(j) ELSE Emptied(j)
  /\ rs.pc = "embeddings" => NoVectors /\ \A j \in Order : Loaded(j)
  /\ rs.pc = "chunks" => /\ \A j \in Order : Loaded(j)
                         /\ db["entry_embeddings"] = ex.rows["entry_embeddings"]
                         /\ db["entry_chunks"] = {} /\ ~OtherDimension

AloneInv == ~overlap => Whole(db) /\ OrderInv /\ RestoreInv

\* An export that nobody disturbs reads a database that was whole.
ExportInv ==
  ex.quiet =>
    /\ ex.pc = "dump" => \A j \in Order : j < ex.i => Loaded(j)
    /\ ex.pc = "embeddings" => \A j \in Order : Loaded(j)
    /\ ex.pc = "archive" => Whole(ex.rows)

BackupInv == TypeInv /\ AloneInv /\ ExportInv
-----------------------------------------------------------------------------
(* What the tables are. *)

LEMMA TheTables ==
  /\ Len(CoveredTables) = 6 /\ Order = 1..6
  /\ CoveredTables[1] = "teams" /\ CoveredTables[2] = "entries" /\ CoveredTables[3] = "ft_sessions"
  /\ CoveredTables[4] = "ft_turns" /\ CoveredTables[5] = "ft_preferences"
  /\ CoveredTables[6] = "ft_session_knowledge"
  /\ Covered = {"teams", "entries", "ft_sessions", "ft_turns", "ft_preferences", "ft_session_knowledge"}
  /\ AllTables = {"teams", "entries", "ft_sessions", "ft_turns", "ft_preferences",
                  "ft_session_knowledge", "entry_embeddings", "entry_chunks"}
<1>1. Len(CoveredTables) = 6
  BY DEF CoveredTables
<1>2. /\ CoveredTables[1] = "teams" /\ CoveredTables[2] = "entries" /\ CoveredTables[3] = "ft_sessions"
      /\ CoveredTables[4] = "ft_turns" /\ CoveredTables[5] = "ft_preferences"
      /\ CoveredTables[6] = "ft_session_knowledge"
  BY DEF CoveredTables
<1>3. 1..6 = {1, 2, 3, 4, 5, 6}
  OBVIOUS
<1>4. Covered = {CoveredTables[i] : i \in {1, 2, 3, 4, 5, 6}}
  BY <1>1, <1>3 DEF Covered
<1>5. Covered = {"teams", "entries", "ft_sessions", "ft_turns", "ft_preferences", "ft_session_knowledge"}
  BY <1>2, <1>4
<1> QED BY <1>1, <1>2, <1>5 DEF Order, AllTables, VectorTables

LEMMA PutTable ==
  ASSUME db = [t \in AllTables |-> db[t]], NEW t \in AllTables, NEW rows,
         db' = [db EXCEPT ![t] = rows]
  PROVE  /\ db'[t] = rows /\ \A u \in AllTables \ {t} : db'[u] = db[u]
         /\ db' = [u \in AllTables |-> db'[u]]
OBVIOUS

\* A session that is to be made makes no key twice.
LEMMA CreateKeepsTables ==
  ASSUME TypeInv, NEW c \in Callers, CreateFTSession(c)
  PROVE  TablesOK(db)' /\ db'["ft_sessions"] = db["ft_sessions"] \cup {SessionRow(req[c].session, req[c].arg)}
<1> DEFINE row == SessionRow(req[c].session, req[c].arg)
<1>1. "ft_sessions" \in AllTables
  BY TheTables
<1>2. db'["ft_sessions"] = db["ft_sessions"] \cup {row} /\ used' = used
      /\ db' = [u \in AllTables |-> db'[u]] /\ \A u \in AllTables \ {"ft_sessions"} : db'[u] = db[u]
  BY <1>1, PutTable DEF CreateFTSession, Tables, TypeInv, TablesOK
<1>3. req[c].session \in used /\ req[c].session \in SessionIds /\ req[c].arg \in BOOLEAN
      /\ \A r \in db["ft_sessions"] : r.id # req[c].session
  BY DEF CreateFTSession, TypeInv, Asking, Starting, Among
<1>4. row \in SessionRows /\ row.id = req[c].session
  BY <1>3 DEF SessionRow, SessionRows
<1>5. IsFiniteSet(db["ft_sessions"] \cup {row})
  BY FS_AddElement DEF TypeInv, TablesOK
<1> HIDE DEF row
<1>6. /\ db'["ft_sessions"] \subseteq SessionRows /\ IsFiniteSet(db'["ft_sessions"])
      /\ \A a, b \in db'["ft_sessions"] : a.id = b.id => a = b
      /\ \A r \in db'["ft_sessions"] : r.id \in used
  BY <1>2, <1>3, <1>4, <1>5 DEF TypeInv, TablesOK
<1>7. TablesOK(db)'
  BY <1>2, <1>6, TheTables DEF TypeInv, TablesOK, VectorTables
<1> QED BY <1>2, <1>7 DEF row

LEMMA CompleteKeepsTables ==
  ASSUME TypeInv, NEW c \in Callers, CompleteFTSession(c)
  PROVE  /\ TablesOK(db)' /\ \A u \in AllTables \ {"ft_sessions"} : db'[u] = db[u]
         /\ \A s : Among(db["ft_sessions"], s) <=> Among(db'["ft_sessions"], s)
<1> DEFINE to(r) == IF r.id = req[c].session
                    THEN [r EXCEPT !.status = req[c].arg[1], !.rating = req[c].arg[2]] ELSE r
           rows == {to(r) : r \in db["ft_sessions"]}
<1>1. "ft_sessions" \in AllTables
  BY TheTables
<1>2. db'["ft_sessions"] = rows /\ used' = used
      /\ db' = [u \in AllTables |-> db'[u]] /\ \A u \in AllTables \ {"ft_sessions"} : db'[u] = db[u]
  BY <1>1, PutTable DEF CompleteFTSession, Tables, TypeInv, TablesOK
<1>3. req[c].arg[1] \in {"completed", "abandoned"} /\ req[c].arg[2] \in 0..5
  BY DEF CompleteFTSession, TypeInv, Asking
<1>4. ASSUME NEW r \in db["ft_sessions"] PROVE to(r) \in SessionRows /\ to(r).id = r.id
  BY <1>3 DEF TypeInv, TablesOK, SessionRows
<1>5. IsFiniteSet(rows)
  <2> DEFINE f == [r \in db["ft_sessions"] |-> to(r)]
  <2>1. f \in Surjection(db["ft_sessions"], rows)
    BY DEF Surjection
  <2> QED BY <2>1, FS_Surjection DEF TypeInv, TablesOK
<1> HIDE DEF to
<1>6. /\ rows \subseteq SessionRows
      /\ \A a, b \in rows : a.id = b.id => a = b
      /\ \A r \in rows : r.id \in used
      /\ \A s : Among(db["ft_sessions"], s) <=> Among(rows, s)
  <2>1. rows \subseteq SessionRows
    BY <1>4
  <2>2. \A a, b \in rows : a.id = b.id => a = b
    <3>1. \A q, r \in db["ft_sessions"] : q.id = r.id => q = r
      BY DEF TypeInv, TablesOK
    <3> QED BY <1>4, <3>1
  <2>3. \A r \in rows : r.id \in used
    <3>1. \A r \in db["ft_sessions"] : r.id \in used
      BY DEF TypeInv, TablesOK
    <3> QED BY <1>4, <3>1
  <2>4. \A s : Among(db["ft_sessions"], s) <=> Among(rows, s)
    BY <1>4 DEF Among
  <2> QED BY <2>1, <2>2, <2>3, <2>4
<1> HIDE DEF rows
<1>7. TablesOK(db)'
  BY <1>2, <1>5, <1>6, TheTables DEF TypeInv, TablesOK, VectorTables
<1> QED BY <1>2, <1>6, <1>7

\* What a step of a caller may do to the tables: sessions and turns stay, and
\* what is new belongs to a session that is there.
Writes(c) ==
  /\ TablesOK(db)'
  /\ \A u \in {"teams", "entries"} \cup VectorTables : db'[u] = db[u]
  /\ db["ft_turns"] \subseteq db'["ft_turns"]
  /\ \A s : Among(db["ft_sessions"], s) => Among(db'["ft_sessions"], s)
  /\ \A s : Among(db'["ft_sessions"], s) =>
              Among(db["ft_sessions"], s) \/ (req[c].op = "start" /\ s = req[c].session)
  /\ \A t \in Children : \A r \in db'[t] : r \in db[t] \/ Has(r.session)

\* Rows are added to one of the tables of a session.
LEMMA AddRows ==
  ASSUME TypeInv, NEW c, NEW t \in Children, NEW rows, IsFiniteSet(rows) \/ t # "ft_turns",
         db' = [db EXCEPT ![t] = db[t] \cup rows], used' = used, \A r \in rows : Has(r.session)
  PROVE  Writes(c)
<1>1. t \in AllTables \ {"teams", "entries", "ft_sessions", "entry_embeddings", "entry_chunks"}
  BY TheTables DEF Children
<1>2. db'[t] = db[t] \cup rows /\ db' = [u \in AllTables |-> db'[u]]
      /\ \A u \in AllTables \ {t} : db'[u] = db[u]
  BY <1>1 DEF TypeInv, TablesOK
<1>3. IsFiniteSet(db'["ft_turns"])
  BY <1>2, FS_Union, TheTables DEF TypeInv, TablesOK
<1>4. db'["ft_sessions"] = db["ft_sessions"] /\ db'["entries"] = db["entries"] /\ db'["teams"] = db["teams"]
      /\ \A u \in VectorTables : db'[u] = db[u]
  BY <1>1, <1>2, TheTables DEF VectorTables
<1>5. TablesOK(db)'
  BY <1>2, <1>3, <1>4 DEF TypeInv, TablesOK
<1> QED BY <1>2, <1>4, <1>5, TheTables DEF Writes, VectorTables, Children

LEMMA NoRowsWritten ==
  ASSUME TypeInv, NEW c, UNCHANGED db, used \subseteq used'
  PROVE  Writes(c)
BY DEF Writes, TypeInv, TablesOK

LEMMA CallerWrites ==
  ASSUME TypeInv, NEW c \in Callers, TurnStep(c)
  PROVE  Writes(c)
<1>1. CASE Begin(c)
  BY <1>1, NoRowsWritten DEF Begin
<1>2. CASE CreateFTSession(c)
  <2>1. req[c].op = "start" /\ SessionRow(req[c].session, req[c].arg).id = req[c].session
    BY <1>2 DEF CreateFTSession, SessionRow
  <2>2. \A u \in AllTables \ {"ft_sessions"} : db'[u] = db[u]
    BY <1>2, PutTable, TheTables DEF CreateFTSession, Tables, TypeInv, TablesOK
  <2> QED BY <1>2, <2>1, <2>2, CreateKeepsTables, TheTables DEF Writes, VectorTables, Children, Among
<1>3. CASE GetFTSession(c) \/ NextFTTurnSeq(c) \/ AllLinked(c) \/ StatementFails(c)
  BY <1>3, NoRowsWritten DEF GetFTSession, NextFTTurnSeq, AllLinked, StatementFails
<1>4. CASE AddFTTurn(c)
  <2>1. CASE Has(req[c].session) /\ ~Taken(c)
    <3>1. db' = [db EXCEPT !["ft_turns"] = db["ft_turns"] \cup {NewTurn(c)}] /\ used' = used
      BY <1>4, <2>1 DEF AddFTTurn, Stored, Tables
    <3>2. NewTurn(c).session = req[c].session /\ IsFiniteSet({NewTurn(c)}) /\ "ft_turns" \in Children
      BY FS_Singleton DEF NewTurn, Children
    <3> QED BY <2>1, <3>1, <3>2, AddRows
  <2>2. CASE ~(Has(req[c].session) /\ ~Taken(c))
    BY <1>4, <2>2, NoRowsWritten DEF AddFTTurn
  <2> QED BY <2>1, <2>2
<1>5. ASSUME NEW es, NEW role, db' \in {db, Linked(req[c].session, es, role)}, used' = used PROVE Writes(c)
  <2>1. CASE db' = db
    BY <1>5, <2>1, NoRowsWritten
  <2>2. CASE db' # db
    <3> DEFINE rows == Links(req[c].session, es, role)
    <3>1. Has(req[c].session) /\ db' = [db EXCEPT !["ft_session_knowledge"] = db["ft_session_knowledge"] \cup rows]
      BY <1>5, <2>2 DEF Linked
    <3>2. \A r \in rows : r.session = req[c].session
      BY DEF Links
    <3>3. "ft_session_knowledge" \in Children /\ "ft_session_knowledge" # "ft_turns"
      BY DEF Children
    <3> HIDE DEF rows
    <3> QED BY <1>5, <3>1, <3>2, <3>3, AddRows
  <2> QED BY <2>1, <2>2
<1>6. CASE LinkRetrieved(c)
  BY <1>5, <1>6 DEF LinkRetrieved
<1>7. CASE LinkFTSessionKnowledge(c)
  BY <1>5, <1>7 DEF LinkFTSessionKnowledge
<1>8. CASE AddFTPreference(c)
  <2> DEFINE rows == {[session |-> req[c].session, id |-> <<c, left[c]>>, prompt |-> req[c].arg]}
  <2>1. used' = used /\ (\A r \in rows : r.session = req[c].session) /\ "ft_preferences" \in Children /\ "ft_preferences" # "ft_turns"
    BY <1>8 DEF AddFTPreference, Children
  <2>2. CASE Has(req[c].session)
    <3>1. db' = [db EXCEPT !["ft_preferences"] = db["ft_preferences"] \cup rows]
      BY <1>8, <2>2 DEF AddFTPreference
    <3>2. \A r \in rows : Has(r.session)
      BY <2>1, <2>2
    <3> HIDE DEF rows
    <3> QED BY <2>1, <3>1, <3>2, AddRows
  <2>3. CASE ~Has(req[c].session)
    BY <1>8, <2>1, <2>3, NoRowsWritten DEF AddFTPreference
  <2> QED BY <2>2, <2>3
<1>9. CASE CompleteFTSession(c)
  BY <1>9, CompleteKeepsTables, TheTables DEF Writes, VectorTables, Children
<1> QED BY <1>1, <1>2, <1>3, <1>4, <1>6, <1>7, <1>8, <1>9 DEF TurnStep

(* What a caller holds afterwards: nothing, or the same request further on. *)
Onward(c) ==
  /\ req' = [req EXCEPT ![c] = req'[c]] /\ Fields(req'[c])
  /\ \/ req'[c] = NoReq
     \/ /\ req'[c].op = req[c].op /\ req'[c].session = req[c].session /\ req'[c].arg = req[c].arg
        /\ req[c].op # "start" /\ req[c].pc # "idle" /\ req'[c].pc # "idle"

LEMMA NoReqFields == Fields(NoReq) /\ NoReq.op = "none" /\ NoReq.pc = "idle" /\ NoReq.after = {} /\ NoReq.stored = FALSE
  BY DEF Fields, NoReq, Ask

LEMMA FinishOnward ==
  ASSUME TypeInv, NEW c \in Callers, Finish(c, req[c]), req[c].pc # "idle"
  PROVE  Onward(c)
<1>1. Fields(req[c]) /\ req = [d \in Callers |-> req[d]]
  BY DEF TypeInv, Asking
<1>2. CASE Set(c, NoReq)
  BY <1>1, <1>2, NoReqFields DEF Onward, Set
<1>3. ASSUME NEW told, req[c].op = "capture",
             Set(c, [req[c] EXCEPT !.pc = "seq", !.role = "system_inject", !.stored = FALSE,
                                   !.after = @ \cup told])
      PROVE  Onward(c)
  BY <1>1, <1>3 DEF Onward, Set, Fields
<1> QED BY <1>2, <1>3 DEF Finish

LEMMA CallerOnward ==
  ASSUME TypeInv, NEW c \in Callers, TurnStep(c), ~Begin(c)
  PROVE  Onward(c) /\ UNCHANGED <<left, used, tr>>
<1>1. Fields(req[c]) /\ req = [d \in Callers |-> req[d]]
      /\ (req[c].op = "start" => req[c].pc = "write")
  BY DEF TypeInv, Asking, Starting
<1>2. ASSUME Return(c) PROVE Onward(c)
  BY <1>1, <1>2, NoReqFields DEF Onward, Set, Return
<1>3. ASSUME Finish(c, req[c]), req[c].pc # "idle" PROVE Onward(c)
  BY <1>3, FinishOnward
<1>4. UNCHANGED <<left, used, tr>>
  BY DEF TurnStep, CreateFTSession, GetFTSession, NextFTTurnSeq, AddFTTurn, LinkRetrieved, AllLinked,
         LinkFTSessionKnowledge, AddFTPreference, CompleteFTSession, StatementFails
<1>5. CASE GetFTSession(c)
  BY <1>1, <1>2, <1>5 DEF GetFTSession, Goto, Set, Onward, Fields
<1>6. CASE NextFTTurnSeq(c)
  BY <1>1, <1>6 DEF NextFTTurnSeq, Set, Onward, Fields
<1>7. CASE AddFTTurn(c)
  BY <1>1, <1>3, <1>7 DEF AddFTTurn, Stored, Set, Onward, Fields
<1>8. CASE LinkRetrieved(c)
  BY <1>1, <1>8 DEF LinkRetrieved, Set, Onward, Fields
<1>9. CASE AllLinked(c)
  BY <1>1, <1>3, <1>9 DEF AllLinked, Goto, Set, Onward, Fields
<1>10. CASE CreateFTSession(c) \/ LinkFTSessionKnowledge(c) \/ AddFTPreference(c) \/ CompleteFTSession(c)
  BY <1>2, <1>10 DEF CreateFTSession, LinkFTSessionKnowledge, AddFTPreference, CompleteFTSession
<1>11. CASE StatementFails(c)
  BY <1>3, <1>11 DEF StatementFails
<1> QED BY <1>4, <1>5, <1>6, <1>7, <1>8, <1>9, <1>10, <1>11 DEF TurnStep

\* A request as it is asked.
AskedRow(a) ==
  /\ Fields(a) /\ a.pc \in {"write", "get", "links"} /\ a.stored = FALSE /\ a.session \in SessionIds
  /\ a.op = "complete" => a.arg \in {"completed", "abandoned"} \X (0..5)
  /\ a.op = "start" => a.session \in SessionIds \ used /\ a.arg \in BOOLEAN /\ a.pc = "write"

LEMMA RequestsAsked ==
  ASSUME used \subseteq SessionIds, NEW a \in Requests
  PROVE  AskedRow(a)
<1>1. CASE a \in StartAsks
  <2>1. PICK s \in SessionIds \ used, b \in BOOLEAN : a = Ask("start", "write", s, b, "user", {})
    BY <1>1 DEF StartAsks
  <2> QED BY <2>1 DEF AskedRow, Ask, Fields
<1>2. CASE a \in TurnAsks
  <2>1. PICK s \in used, r \in Roles, es \in SUBSET Entries : a = Ask("turn", "get", s, None, r, es)
    BY <1>2 DEF TurnAsks
  <2> QED BY <2>1 DEF AskedRow, Ask, Fields
<1>3. CASE a \in LinkAsks
  <2>1. PICK s \in used, e \in Entries, r \in LinkRoles : a = Ask("link", "get", s, None, r, {e})
    <3> DEFINE one(e) == {e}
    <3>1. LinkAsks = {Ask("link", "get", s, None, r, one(e)) : s \in used, e \in Entries, r \in LinkRoles}
      BY DEF LinkAsks
    <3> HIDE DEF one
    <3>2. \E s \in used, e \in Entries, r \in LinkRoles : a = Ask("link", "get", s, None, r, one(e))
      BY <1>3, <3>1
    <3> QED BY <3>2 DEF one
  <2> QED BY <2>1 DEF AskedRow, Ask, Fields
<1>4. CASE a \in PreferAsks
  <2>1. PICK s \in used, p \in {None} \cup {t.id : t \in db["ft_turns"]} :
          a = Ask("prefer", "get", s, p, "user", {})
    BY <1>4 DEF PreferAsks
  <2> QED BY <2>1 DEF AskedRow, Ask, Fields
<1>5. CASE a \in CompleteAsks
  <2>1. PICK s \in used, status \in {"completed", "abandoned"}, n \in 0..5 :
          a = Ask("complete", "write", s, <<status, n>>, "user", {})
    BY <1>5 DEF CompleteAsks
  <2> QED BY <2>1 DEF AskedRow, Ask, Fields
<1>6. CASE a \in CaptureAsks
  <2>1. PICK s \in used, es \in SUBSET Entries : a = Ask("capture", "links", s, None, "user", es)
    BY <1>6 DEF CaptureAsks
  <2> QED BY <2>1 DEF AskedRow, Ask, Fields
<1> QED BY <1>1, <1>2, <1>3, <1>4, <1>5, <1>6 DEF Requests

\* A request that begins: its session is new, or was made before.
LEMMA BeginRow ==
  ASSUME TypeInv, NEW c \in Callers, Begin(c)
  PROVE  /\ req' = [req EXCEPT ![c] = req'[c]] /\ Fields(req'[c]) /\ req'[c].pc # "idle"
         /\ req'[c].session \in SessionIds
         /\ req'[c].op = "complete" => req'[c].arg \in {"completed", "abandoned"} \X (0..5)
         /\ req'[c].op = "start" =>
              /\ req'[c].session \in SessionIds \ used /\ used' = used \cup {req'[c].session}
              /\ req'[c].arg \in BOOLEAN /\ req'[c].pc = "write"
         /\ used \subseteq used' /\ used' \subseteq SessionIds
         /\ ~req'[c].stored /\ req'[c].pc # "insert"
         /\ req'[c].after = {p[2] : p \in {q \in acked : q[1] = req'[c].session}}
<1> DEFINE after(a) == {p[2] : p \in {q \in acked : q[1] = a.session}}
<1>1. PICK a \in Requests : /\ req' = [req EXCEPT ![c] = [a EXCEPT !.after = after(a)]]
                            /\ used' = IF a.op = "start" THEN used \cup {a.session} ELSE used
  BY DEF Begin, Set
<1>2. AskedRow(a)
  BY RequestsAsked DEF TypeInv
<1> HIDE DEF after
<1>3. req'[c] = [a EXCEPT !.after = after(a)]
  BY <1>1 DEF TypeInv
<1>4. /\ req'[c].op = a.op /\ req'[c].pc = a.pc /\ req'[c].session = a.session /\ req'[c].arg = a.arg
      /\ req'[c].stored = a.stored /\ req'[c].after = after(a) /\ Fields(req'[c])
  BY <1>2, <1>3 DEF Fields, AskedRow
<1>5. used \subseteq SessionIds
  BY DEF TypeInv
<1> QED BY <1>1, <1>2, <1>3, <1>4, <1>5 DEF after, AskedRow

LEMMA CallerKeepsAsking ==
  ASSUME TypeInv, NEW c \in Callers, TurnStep(c), ex'.rows = ex.rows
  PROVE  req' = [b \in Callers |-> req'[b]] /\ \A d \in Callers : Asking(d)'
<1>1. Writes(c)
  BY CallerWrites
<1>2. \A b \in Callers : Asking(b)
  BY DEF TypeInv
<1>3. req = [b \in Callers |-> req[b]]
  BY DEF TypeInv
<1>4. ASSUME Begin(c), NEW d \in Callers PROVE Asking(d)'
  <2>1. UNCHANGED db /\ \A b \in Callers \ {c} : req'[b] = req[b]
    BY <1>3, <1>4, BeginRow DEF Begin
  <2>2. \A s : Among(db["ft_sessions"], s) \/ Among(ex.rows["ft_sessions"], s) => s \in used
    BY DEF TypeInv, TablesOK, Among
  <2>3. CASE d = c
    BY <1>2, <1>4, <2>1, <2>2, <2>3, BeginRow DEF Asking, Starting
  <2>4. CASE d # c
    BY <1>2, <1>4, <2>1, <2>4, BeginRow DEF Asking, Starting
  <2> QED BY <2>3, <2>4
<1>5. ASSUME ~Begin(c), NEW d \in Callers PROVE Asking(d)'
  <2>1. Onward(c) /\ UNCHANGED used
    BY <1>5, CallerOnward
  <2>2. \A b \in Callers \ {c} : req'[b] = req[b]
    BY <1>3, <2>1 DEF Onward
  <2>3. CASE d = c
    BY <1>2, <2>1, <2>3, NoReqFields DEF Asking, Starting, Onward
  <2>4. CASE d # c
    <3>1. req'[c].op = "start" => FALSE
      BY <2>1, NoReqFields DEF Onward
    <3>2. req[d].op = "start" => ~Among(db'["ft_sessions"], req[d].session)
      BY <1>1, <1>2, <2>4 DEF Writes, Asking, Starting
    <3> QED BY <1>2, <2>1, <2>2, <2>4, <3>1, <3>2 DEF Asking, Starting
  <2> QED BY <2>3, <2>4
<1>6. req' = [b \in Callers |-> req'[b]]
  BY <1>3, BeginRow, CallerOnward DEF Onward
<1> QED BY <1>4, <1>5, <1>6

\* Others' writes end an export's quiet.
LEMMA UnquietKeeps ==
  ASSUME TypeInv, ExportInv, Unquiet, UNCHANGED rs, db' = [t \in AllTables |-> db'[t]]
  PROVE  /\ ex'.rows = ex.rows /\ ex'.pc = ex.pc /\ ex'.i = ex.i /\ ex'.dim = ex.dim /\ ex'.quiet \in BOOLEAN
         /\ ex' = [pc |-> ex'.pc, i |-> ex'.i, rows |-> ex'.rows, quiet |-> ex'.quiet, dim |-> ex'.dim]
         /\ ExportInv'
<1>1. ex = [pc |-> ex.pc, i |-> ex.i, rows |-> ex.rows, quiet |-> ex.quiet, dim |-> ex.dim] /\ ex.quiet \in BOOLEAN
  BY DEF TypeInv, Places
<1>2. CASE Exporting /\ db' # db
  BY <1>1, <1>2 DEF Unquiet, ExportInv
<1>3. CASE ~(Exporting /\ db' # db)
  <2>1. ex' = ex
    BY <1>3 DEF Unquiet
  <2>2. CASE Exporting
    BY <1>1, <1>3, <2>1, <2>2 DEF Exporting, ExportInv, Loaded
  <2>3. CASE ~Exporting
    BY <1>1, <2>1, <2>3 DEF Exporting, ExportInv, Whole
  <2> QED BY <1>1, <2>1, <2>2, <2>3
<1> QED BY <1>2, <1>3

LEMMA CallersKeepTypes ==
  ASSUME TypeInv, ExportInv, CallerStep
  PROVE  TypeInv' /\ ExportInv'
<1>1. PICK c \in Callers : TurnStep(c)
  BY DEF CallerStep
<1>2. Writes(c) /\ UNCHANGED <<rs, tr>> /\ Unquiet /\ overlap' = (overlap \/ Restoring)
  <2>1. UNCHANGED tr
    BY <1>1, CallerOnward DEF Begin
  <2> QED BY <1>1, <2>1, CallerWrites DEF CallerStep, Watch
<1>9. UNCHANGED dim
  BY DEF CallerStep
<1>3. /\ ex'.rows = ex.rows /\ ex'.pc = ex.pc /\ ex'.i = ex.i /\ ex'.dim = ex.dim /\ ex'.quiet \in BOOLEAN
      /\ ex' = [pc |-> ex'.pc, i |-> ex'.i, rows |-> ex'.rows, quiet |-> ex'.quiet, dim |-> ex'.dim]
      /\ ExportInv'
  BY <1>2, UnquietKeeps DEF Writes, TablesOK
<1>4. used \subseteq used' /\ used' \subseteq SessionIds
  BY <1>1, BeginRow, CallerOnward DEF TypeInv
<1>5. TablesOK(ex.rows)'
  BY <1>3, <1>4 DEF TypeInv, TablesOK
<1>6. Places'
  BY <1>2, <1>3, <1>9 DEF TypeInv, Places, Restoring
<1>7. req' = [d \in Callers |-> req'[d]] /\ \A d \in Callers : Asking(d)'
  BY <1>1, <1>3, CallerKeepsAsking
<1>8. left' = [d \in Callers |-> left'[d]]
  BY <1>1, CallerOnward DEF TypeInv, Begin
<1> QED BY <1>2, <1>3, <1>4, <1>5, <1>6, <1>7, <1>8 DEF TypeInv, Writes

LEMMA ReaderKeepsTypes ==
  ASSUME TypeInv, ExportInv, ReaderStep
  PROVE  TypeInv' /\ ExportInv'
<1>1. UNCHANGED <<db, req, acked, left, used, bvars>>
  BY DEF ReaderStep, ExportStep, ListFTSessions, ListFTTurns, ListFTPreferences
<1>2. ExportInv'
  BY <1>1 DEF bvars, ExportInv, Loaded, Whole
<1>3. tr' = [pc |-> tr'.pc, only |-> tr'.only, todo |-> tr'.todo, now |-> tr'.now, turns |-> tr'.turns,
             chats |-> tr'.chats, pairs |-> tr'.pairs, prefs |-> tr'.prefs]
  BY DEF TypeInv, ReaderStep, ExportStep, ListFTSessions, ListFTTurns, ListFTPreferences
<1>4. Places' /\ TablesOK(db)' /\ TablesOK(ex.rows)' /\ \A c \in Callers : Asking(c)'
  BY <1>1 DEF bvars, TypeInv, Places, TablesOK, Asking, Starting
<1> QED BY <1>1, <1>2, <1>3, <1>4 DEF TypeInv

\* Requests and sessions are left alone by everybody else.
LEMMA AskingKept ==
  ASSUME TypeInv, UNCHANGED <<req, used>>,
         \A s : Among(db'["ft_sessions"], s) => Among(db["ft_sessions"], s) \/ Among(ex.rows["ft_sessions"], s),
         \A s : Among(ex'.rows["ft_sessions"], s) => Among(db["ft_sessions"], s) \/ Among(ex.rows["ft_sessions"], s)
  PROVE  req' = [c \in Callers |-> req'[c]] /\ \A c \in Callers : Asking(c)'
BY DEF TypeInv, Asking, Starting

\* Others write entries and their vectors, and the dimensions.
LEMMA OthersWrite ==
  ASSUME TypeInv, OtherStep
  PROVE  /\ UNCHANGED <<rs, req, acked, left, used, tr>> /\ Unquiet /\ overlap' = (overlap \/ Restoring)
         /\ db' = [t \in AllTables |-> db'[t]]
         /\ db'["entries"] \subseteq Entries /\ \A t \in VectorTables : db'[t] \subseteq Entries
         /\ \A t \in Covered \ {"entries"} : db'[t] = db[t]
         /\ db["entry_embeddings"] \subseteq db["entries"] => db'["entry_embeddings"] \subseteq db'["entries"]
         /\ dim' \in [mem : Dims, col : Dims]
<1>1. UNCHANGED <<rs, req, acked, left, used, tr>> /\ Unquiet /\ overlap' = (overlap \/ Restoring)
  BY DEF OtherStep, ChangeEntry, ReembedAll, Watch
<1>2. /\ TablesOK(db) /\ db = [t \in AllTables |-> db[t]] /\ db["entries"] \subseteq Entries
      /\ \A t \in VectorTables : db[t] \subseteq Entries
      /\ dim \in [mem : Dims, col : Dims]
  BY DEF TypeInv, TablesOK, Places
<1>3. CASE ChangeEntry
  <2>1. dim' = dim
    BY <1>3 DEF ChangeEntry
  <2>2. PICK e \in Entries, embedded \in SUBSET Entries :
          \/ /\ embedded \subseteq {e}
             /\ db' = [db EXCEPT !["entries"] = @ \cup {e}, !["entry_chunks"] = @ \cup {e},
                                 !["entry_embeddings"] = @ \cup embedded]
          \/ db' = [db EXCEPT !["entries"] = @ \ {e}, !["entry_chunks"] = @ \ {e},
                              !["entry_embeddings"] = @ \ {e}]
    BY <1>3 DEF ChangeEntry
  <2> QED BY <1>1, <1>2, <2>1, <2>2, TheTables DEF VectorTables
<1>4. CASE ReembedAll
  <2>1. PICK embedded \in SUBSET db["entries"] : db' = [db EXCEPT !["entry_embeddings"] = embedded]
    BY <1>4 DEF ReembedAll
  <2>2. dim' \in [mem : Dims, col : Dims]
    BY <1>4 DEF ReembedAll
  <2> QED BY <1>1, <1>2, <2>1, <2>2, TheTables DEF VectorTables
<1> QED BY <1>3, <1>4 DEF OtherStep

LEMMA OthersKeepTypes ==
  ASSUME TypeInv, ExportInv, OtherStep
  PROVE  TypeInv' /\ ExportInv'
<1>1. UNCHANGED <<rs, req, acked, left, used, tr>> /\ Unquiet /\ overlap' = (overlap \/ Restoring)
      /\ dim' \in [mem : Dims, col : Dims]
  BY OthersWrite
<1>3. /\ db' = [t \in AllTables |-> db'[t]]
      /\ db'["entries"] \subseteq Entries /\ \A t \in VectorTables : db'[t] \subseteq Entries
      /\ \A t \in Covered \ {"entries"} : db'[t] = db[t]
  BY OthersWrite
<1>4. TablesOK(db)'
  BY <1>1, <1>3, TheTables DEF TypeInv, TablesOK
<1>5. /\ ex'.rows = ex.rows /\ ex'.pc = ex.pc /\ ex'.i = ex.i /\ ex'.dim = ex.dim /\ ex'.quiet \in BOOLEAN
      /\ ex' = [pc |-> ex'.pc, i |-> ex'.i, rows |-> ex'.rows, quiet |-> ex'.quiet, dim |-> ex'.dim]
      /\ ExportInv'
  BY <1>1, <1>3, UnquietKeeps
<1>6. TablesOK(ex.rows)'
  BY <1>1, <1>5 DEF TypeInv, TablesOK
<1>7. Places'
  BY <1>1, <1>5 DEF TypeInv, Places, Restoring
<1>8. req' = [c \in Callers |-> req'[c]] /\ \A c \in Callers : Asking(c)'
  <2>1. db'["ft_sessions"] = db["ft_sessions"]
    BY <1>3, TheTables
  <2> QED BY <1>1, <1>5, <2>1, AskingKept
<1> QED BY <1>1, <1>4, <1>5, <1>6, <1>7, <1>8 DEF TypeInv

LEMMA NoRowsOK == TypeInv => TablesOK(NoRows)
  BY TheTables, FS_EmptySet DEF NoRows, TablesOK, VectorTables, AllTables

LEMMA ExportKeepsTypes ==
  ASSUME TypeInv, ExportInv, AloneInv, UNCHANGED <<db, req, used, rs, left, tr, overlap>>,
         BeginExport \/ DumpTable \/ DumpEmbeddings \/ ExportFails
  PROVE  TypeInv' /\ ExportInv'
<1>1. ex = [pc |-> ex.pc, i |-> ex.i, rows |-> ex.rows, quiet |-> ex.quiet, dim |-> ex.dim]
      /\ (ex.pc = "dump" => ex.i \in 1..6) /\ TablesOK(db) /\ TablesOK(ex.rows)
  BY TheTables DEF TypeInv, Places
<1>2. CASE BeginExport
  <2>1. ex' = [pc |-> "dump", i |-> 1, rows |-> NoRows, quiet |-> TRUE, dim |-> ex.dim] /\ ex.pc = "idle"
        /\ UNCHANGED dim
    BY <1>1, <1>2 DEF BeginExport
  <2>2. ExportInv'
    BY <2>1, TheTables DEF ExportInv
  <2>3. TablesOK(ex.rows)'
    BY <2>1, NoRowsOK DEF TablesOK
  <2>4. TablesOK(db)' /\ Places'
    BY <2>1, TheTables DEF TypeInv, TablesOK, Places
  <2>5. \A s : ~Among(ex'.rows["ft_sessions"], s)
    BY <2>1, TheTables DEF NoRows, AllTables, Among
  <2> QED BY <2>2, <2>3, <2>4, <2>5, AskingKept DEF TypeInv
<1>3. CASE DumpTable
  <2> DEFINE t == CoveredTables[ex.i]
  <2>1. /\ ex'.rows = [ex.rows EXCEPT ![t] = db[t]] /\ ex'.i = ex.i + 1 /\ ex'.quiet = ex.quiet
        /\ ex'.pc = IF ex.i = 6 THEN "embeddings" ELSE "dump"
        /\ ex' = [pc |-> ex'.pc, i |-> ex'.i, rows |-> ex'.rows, quiet |-> ex'.quiet, dim |-> ex'.dim]
        /\ ex.pc = "dump" /\ ex.i \in 1..6 /\ ex'.dim = ex.dim /\ UNCHANGED dim
    BY <1>1, <1>3, TheTables DEF DumpTable
  <2>2. t \in Covered
    BY <2>1, TheTables DEF Covered
  <2>3. ex'.rows[t] = db[t] /\ (\A u \in AllTables \ {t} : ex'.rows[u] = ex.rows[u])
        /\ ex'.rows = [u \in AllTables |-> ex'.rows[u]]
    BY <1>1, <2>1, <2>2 DEF TablesOK, AllTables
  <2>4. \A i, j \in 1..6 : i # j => CoveredTables[i] # CoveredTables[j]
    <3>1. \A i \in 1..6 : i \in {1, 2, 3, 4, 5, 6}
      OBVIOUS
    <3> QED BY <3>1, TheTables
  <2>5. ExportInv'
    <3>1. ASSUME ex.quiet, NEW j \in 1..6, j < ex.i + 1 PROVE Loaded(j)'
      <4>1. CASE j = ex.i
        BY <2>3, <4>1 DEF Loaded
      <4>2. CASE j # ex.i
        <5>1. j < ex.i /\ CoveredTables[j] # t
          BY <2>1, <2>4, <3>1, <4>2
        <5>2. CoveredTables[j] \in AllTables
          BY TheTables DEF Covered, AllTables
        <5>3. Loaded(j)
          BY <2>1, <3>1, <5>1, TheTables DEF ExportInv
        <5> QED BY <2>3, <5>1, <5>2, <5>3 DEF Loaded
      <4> QED BY <4>1, <4>2
    <3> QED BY <2>1, <3>1, TheTables DEF ExportInv
  <2>6. TablesOK(ex.rows)'
    BY <1>1, <2>3, TheTables DEF TablesOK, VectorTables
  <2>7. TablesOK(db)' /\ Places'
    <3>1. (ex.i # 6 => ex.i + 1 \in 1..6) /\ Places
      BY <2>1 DEF TypeInv
    <3>2. /\ rs.pc = "idle" /\ overlap \in BOOLEAN /\ ~overlap /\ rs = [pc |-> rs.pc, i |-> rs.i, fault |-> rs.fault]
          /\ ex.quiet \in BOOLEAN /\ dim \in [mem : Dims, col : Dims] /\ ex.dim \in Dims
      BY <2>1, <3>1 DEF Places
    <3>3. UNCHANGED <<rs, overlap, dim>>
      BY <2>1
    <3>4. Places'
      BY <2>1, <3>1, <3>2, <3>3, TheTables DEF Places
    <3>5. UNCHANGED <<db, used>>
      OBVIOUS
    <3>6. TablesOK(db)'
      BY <1>1, <3>5 DEF TablesOK
    <3> QED BY <3>4, <3>6
  <2>8. \A s : Among(ex'.rows["ft_sessions"], s) => Among(db["ft_sessions"], s) \/ Among(ex.rows["ft_sessions"], s)
    BY <2>3, TheTables
  <2> QED BY <2>5, <2>6, <2>7, <2>8, AskingKept DEF TypeInv
<1>4. CASE DumpEmbeddings
  <2>1. /\ ex'.rows = [ex.rows EXCEPT !["entry_embeddings"] = db["entry_embeddings"] \cap db["entries"]]
        /\ ex'.i = ex.i /\ ex'.quiet = ex.quiet /\ ex'.pc = "archive" /\ ex.pc = "embeddings"
        /\ ex'.dim = dim.mem /\ UNCHANGED dim
        /\ ex' = [pc |-> ex'.pc, i |-> ex'.i, rows |-> ex'.rows, quiet |-> ex'.quiet, dim |-> ex'.dim]
    BY <1>1, <1>4 DEF DumpEmbeddings
  <2>2. /\ ex'.rows["entry_embeddings"] = db["entry_embeddings"] \cap db["entries"]
        /\ \A u \in AllTables \ {"entry_embeddings"} : ex'.rows[u] = ex.rows[u]
        /\ ex'.rows = [u \in AllTables |-> ex'.rows[u]]
    BY <1>1, <2>1, TheTables DEF TablesOK
  <2>3. ExportInv'
    <3>1. ASSUME ex.quiet PROVE Whole(ex.rows)'
      <4>1. \A j \in 1..6 : Loaded(j)
        BY <2>1, <3>1, TheTables DEF ExportInv
      <4>2. /\ ex.rows["entries"] = db["entries"] /\ ex.rows["ft_sessions"] = db["ft_sessions"]
            /\ \A t \in Children : ex.rows[t] = db[t]
        BY <4>1, TheTables DEF Loaded, Children
      <4>3. Whole(db)
        BY <2>1 DEF TypeInv, Places, AloneInv
      <4> QED BY <2>2, <4>2, <4>3, TheTables DEF Whole, Children
    <3> QED BY <2>1, <3>1 DEF ExportInv
  <2>4. TablesOK(ex.rows)'
    BY <1>1, <2>2, TheTables DEF TablesOK, VectorTables
  <2>5. TablesOK(db)' /\ Places'
    BY <2>1 DEF TypeInv, TablesOK, Places
  <2>6. ex'.rows["ft_sessions"] = ex.rows["ft_sessions"]
    BY <2>2, TheTables
  <2> QED BY <2>3, <2>4, <2>5, <2>6, AskingKept DEF TypeInv
<1>5. CASE ExportFails
  <2>1. ex'.pc = "idle" /\ ex'.rows = NoRows /\ ex'.quiet = ex.quiet /\ ex.pc # "archive"
        /\ ex'.dim = ex.dim /\ UNCHANGED dim
        /\ ex' = [pc |-> ex'.pc, i |-> ex'.i, rows |-> ex'.rows, quiet |-> ex'.quiet, dim |-> ex'.dim]
    BY <1>1, <1>5 DEF ExportFails
  <2>2. TablesOK(ex.rows)' /\ TablesOK(db)' /\ Places' /\ ExportInv'
    BY <2>1, NoRowsOK DEF TablesOK, TypeInv, Places, ExportInv
  <2>3. \A s : ~Among(ex'.rows["ft_sessions"], s)
    BY <2>1, TheTables DEF NoRows, AllTables, Among
  <2> QED BY <2>2, <2>3, AskingKept DEF TypeInv
<1> QED BY <1>2, <1>3, <1>4, <1>5

\* Import writes rows of the archive, and chunks of entries.
Restored ==
  /\ db' = [t \in AllTables |-> db'[t]]
  /\ \A t \in Covered : db'[t] \subseteq db[t] \cup ex.rows[t]
  /\ \A t \in VectorTables : db'[t] \subseteq Entries
  /\ \A a, b \in db'["ft_sessions"] : a.id = b.id => a = b

LEMMA ImportKeepsTables ==
  ASSUME TypeInv, UNCHANGED <<used, req, ex>>, Restored
  PROVE  TablesOK(db)' /\ TablesOK(ex.rows)' /\ \A c \in Callers : Asking(c)'
<1>1. /\ TablesOK(db) /\ TablesOK(ex.rows)
      /\ \A t \in {"teams", "entries", "ft_sessions", "ft_turns"} : db'[t] \subseteq db[t] \cup ex.rows[t]
  BY TheTables DEF TypeInv, Restored
<1>2. IsFiniteSet(db'["ft_sessions"]) /\ IsFiniteSet(db'["ft_turns"])
  BY <1>1, FS_Union, FS_Subset DEF TablesOK
<1>3. \A s : Among(db'["ft_sessions"], s) => Among(db["ft_sessions"], s) \/ Among(ex.rows["ft_sessions"], s)
  BY <1>1 DEF Among
<1>4. TablesOK(db)'
  BY <1>1, <1>2 DEF TablesOK, Restored
<1> QED BY <1>1, <1>3, <1>4, AskingKept DEF TablesOK

LEMMA ImportKeepsTypes ==
  ASSUME TypeInv, ExportInv, AloneInv, UNCHANGED <<req, used, left, tr>>, Watch(Restoring' /\ Busy),
         BeginImport \/ ImportStep
  PROVE  TypeInv' /\ ExportInv'
<1>1. /\ rs = [pc |-> rs.pc, i |-> rs.i, fault |-> rs.fault] /\ overlap' = (overlap \/ (Restoring' /\ Busy))
      /\ overlap \in BOOLEAN /\ (rs.pc \in {"truncate", "load"} => rs.i \in 1..6)
      /\ TablesOK(db) /\ TablesOK(ex.rows)
  BY TheTables DEF TypeInv, Places, Watch
<1>2. UNCHANGED ex /\ ex.pc = "archive"
  BY DEF BeginImport, ImportStep, TruncateVectors, TruncateTable, LoadTable, LoadEmbeddings, backfillChunks,
         StoreFails, Restoring, TypeInv, Places
<1>3. /\ rs' = [pc |-> rs'.pc, i |-> rs'.i, fault |-> rs'.fault]
      /\ rs'.pc \in {"idle", "vectors", "truncate", "load", "embeddings", "chunks", "failed", "done"}
      /\ rs'.pc \in {"truncate", "load"} => rs'.i \in 1..6
      /\ rs'.pc = "idle" => rs.pc = "idle"
  <2>1. CASE BeginImport
    BY <1>1, <2>1, TheTables DEF BeginImport, TypeInv, Places
  <2>2. CASE TruncateVectors
    <3>1. rs' = [pc |-> "truncate", i |-> 6, fault |-> rs.fault]
      BY <1>1, <2>2, TheTables DEF TruncateVectors
    <3>2. rs'.pc = "truncate" /\ rs'.i = 6 /\ rs'.fault = rs.fault
      BY <3>1
    <3> QED BY <3>1, <3>2
  <2>3. CASE TruncateTable
    BY <1>1, <2>3 DEF TruncateTable
  <2>4. CASE LoadTable
    <3>1. rs.i \in 1..6 /\ (rs.i = 6 \/ rs.i + 1 \in 1..6) /\ rs.pc = "load"
      BY <1>1, <2>4 DEF LoadTable
    <3> QED BY <1>1, <2>4, <3>1, TheTables DEF LoadTable, Fail
  <2>5. CASE LoadEmbeddings \/ backfillChunks \/ StoreFails
    BY <1>1, <2>5 DEF LoadEmbeddings, backfillChunks, StoreFails, Fail
  <2> QED BY <2>1, <2>2, <2>3, <2>4, <2>5 DEF ImportStep
<1>4. Places'
  <2>1. rs'.pc = "idle" => ~Restoring'
    BY <1>3 DEF Restoring
  <2>2. UNCHANGED dim
    BY DEF BeginImport, ImportStep, TruncateVectors, TruncateTable, LoadTable, LoadEmbeddings, backfillChunks, StoreFails
  <2> QED BY <1>1, <1>2, <1>3, <2>1, <2>2, TheTables DEF TypeInv, Places
<1>5. ExportInv'
  BY <1>2 DEF ExportInv, Whole
<1>6. Restored
  <2>1. CASE BeginImport \/ StoreFails
    BY <1>1, <2>1 DEF BeginImport, StoreFails, TablesOK, Restored
  <2>2. CASE TruncateVectors
    <3>1. DOMAIN db = AllTables
      BY <1>1 DEF TablesOK
    <3>2. db' = [t \in AllTables |-> IF t \in VectorTables THEN {} ELSE db[t]]
      BY <2>2, <3>1 DEF TruncateVectors
    <3> HIDE <3>1
    <3>3. \A t \in AllTables : db'[t] = {} \/ db'[t] = db[t]
      BY <3>2
    <3> QED BY <1>1, <3>2, <3>3, TheTables DEF TablesOK, VectorTables, Restored
  <2>3. ASSUME NEW t \in Covered, NEW rows, db' = [db EXCEPT ![t] = rows], rows \subseteq db[t] \cup ex.rows[t],
               ~Collides(t, ex.rows[t]) \/ rows = {}
        PROVE  Restored
    <3>1. db'[t] = rows /\ (\A u \in AllTables \ {t} : db'[u] = db[u]) /\ db' = [u \in AllTables |-> db'[u]]
      BY <1>1, <2>3, PutTable DEF TablesOK, AllTables
    <3>2. \A u \in VectorTables : db'[u] = db[u]
      BY <2>3, <3>1, TheTables DEF VectorTables
    <3>3. \A a, b \in db'["ft_sessions"] : a.id = b.id => a = b
      <4>1. CASE t # "ft_sessions"
        BY <1>1, <3>1, <4>1, TheTables DEF TablesOK
      <4>2. CASE t = "ft_sessions" /\ rows # {}
        <5>1. \A a \in ex.rows[t], b \in db[t] : a.id # b.id
          BY <2>3, <4>2 DEF Collides, SameKey
        <5> QED BY <1>1, <2>3, <3>1, <4>2, <5>1 DEF TablesOK
      <4> QED BY <3>1, <4>1, <4>2
    <3> QED BY <1>1, <2>3, <3>1, <3>2, <3>3 DEF TablesOK, AllTables, Restored
  <2>4. CASE TruncateTable
    <3>1. CoveredTables[rs.i] \in Covered
      BY <1>1, <2>4, TheTables DEF TruncateTable, Covered
    <3> QED BY <2>3, <2>4, <3>1 DEF TruncateTable
  <2>5. CASE LoadTable
    <3> DEFINE t == CoveredTables[rs.i]
    <3>1. t \in Covered
      BY <1>1, <2>5, TheTables DEF LoadTable, Covered
    <3>2. UNCHANGED db \/ (~Collides(t, ex.rows[t]) /\ db' = [db EXCEPT ![t] = db[t] \cup ex.rows[t]])
      BY <2>5 DEF LoadTable
    <3>3. CASE UNCHANGED db
      BY <1>1, <3>3 DEF TablesOK, Restored
    <3> QED BY <2>3, <3>1, <3>2, <3>3
  <2>6. CASE LoadEmbeddings \/ backfillChunks
    <3>1. PICK t \in VectorTables, rows \in SUBSET Entries : UNCHANGED db \/ db' = [db EXCEPT ![t] = db[t] \cup rows]
      <4>1. ex.rows["entry_embeddings"] \subseteq Entries /\ db["entries"] \subseteq Entries /\ db["entry_embeddings"] \subseteq Entries
        BY <1>1 DEF TablesOK, VectorTables
      <4> QED BY <2>6, <4>1 DEF LoadEmbeddings, backfillChunks, VectorTables
    <3>2. t \in AllTables /\ t \notin Covered
      BY TheTables DEF VectorTables
    <3>3. CASE UNCHANGED db
      BY <1>1, <3>3 DEF TablesOK, Restored
    <3>4. CASE db' = [db EXCEPT ![t] = db[t] \cup rows]
      <4>1. db'[t] = db[t] \cup rows /\ (\A u \in AllTables \ {t} : db'[u] = db[u]) /\ db' = [u \in AllTables |-> db'[u]]
        BY <1>1, <3>2, <3>4, PutTable DEF TablesOK
      <4> QED BY <1>1, <3>2, <4>1, TheTables DEF TablesOK, VectorTables, Restored
    <3> QED BY <3>1, <3>3, <3>4
  <2> QED BY <2>1, <2>2, <2>4, <2>5, <2>6 DEF ImportStep
<1>7. TablesOK(db)' /\ TablesOK(ex.rows)' /\ \A c \in Callers : Asking(c)'
  BY <1>2, <1>6, ImportKeepsTables
<1> QED BY <1>4, <1>5, <1>7 DEF TypeInv
\* A restart writes a team and chunks, and ends what is in progress.
LEMMA RestartWrites ==
  ASSUME TypeInv, Restart
  PROVE  /\ db' = [t \in AllTables |-> db'[t]]
         /\ db'["teams"] \subseteq {Unassigned} /\ db'["entry_chunks"] \subseteq Entries
         /\ \A t \in AllTables \ {"teams", "entry_chunks"} : db'[t] = db[t]
         /\ req' = [c \in Callers |-> NoReq] /\ dim' \in [mem : Dims, col : Dims]
         /\ ex' = [pc |-> ex'.pc, i |-> ex'.i, rows |-> ex'.rows, quiet |-> ex'.quiet, dim |-> ex'.dim]
         /\ ex'.i = ex.i /\ ex'.quiet = ex.quiet /\ ex'.dim = ex.dim
         /\ \/ ~Exporting /\ ex' = ex
            \/ Exporting /\ ex'.pc = "idle" /\ ex'.rows = NoRows
         /\ rs' = [pc |-> rs'.pc, i |-> rs'.i, fault |-> rs'.fault]
         /\ rs'.pc = (IF Restoring THEN "failed" ELSE rs.pc) /\ rs'.i = rs.i
         /\ IF Restoring THEN rs'.fault ELSE UNCHANGED rs
         /\ UNCHANGED <<acked, left, used, tr, overlap>>
<1>1. /\ db = [t \in AllTables |-> db[t]] /\ db["entries"] \subseteq Entries /\ db["teams"] \subseteq {Unassigned}
      /\ db["entry_chunks"] \subseteq Entries /\ dim \in [mem : Dims, col : Dims]
      /\ ex = [pc |-> ex.pc, i |-> ex.i, rows |-> ex.rows, quiet |-> ex.quiet, dim |-> ex.dim]
      /\ rs = [pc |-> rs.pc, i |-> rs.i, fault |-> rs.fault]
  BY DEF TypeInv, TablesOK, VectorTables, Places
<1>2. PICK made \in SUBSET {Unassigned} :
        db' = [db EXCEPT !["teams"] = @ \cup made, !["entry_chunks"] = @ \cup db["entries"]]
  BY DEF Restart
<1>3. /\ db' = [t \in AllTables |-> db'[t]]
      /\ db'["teams"] \subseteq {Unassigned} /\ db'["entry_chunks"] \subseteq Entries
      /\ \A t \in AllTables \ {"teams", "entry_chunks"} : db'[t] = db[t]
  BY <1>1, <1>2, TheTables
<1>4. dim' \in [mem : Dims, col : Dims]
  BY <1>1, DimAssumption DEF Restart
<1>5. /\ ex' = [pc |-> ex'.pc, i |-> ex'.i, rows |-> ex'.rows, quiet |-> ex'.quiet, dim |-> ex'.dim]
      /\ ex'.i = ex.i /\ ex'.quiet = ex.quiet /\ ex'.dim = ex.dim
      /\ \/ ~Exporting /\ ex' = ex
         \/ Exporting /\ ex'.pc = "idle" /\ ex'.rows = NoRows
  BY <1>1 DEF Restart
<1>6. /\ rs' = [pc |-> rs'.pc, i |-> rs'.i, fault |-> rs'.fault]
      /\ rs'.pc = (IF Restoring THEN "failed" ELSE rs.pc) /\ rs'.i = rs.i
      /\ IF Restoring THEN rs'.fault ELSE UNCHANGED rs
  BY <1>1 DEF Restart
<1> QED BY <1>3, <1>4, <1>5, <1>6 DEF Restart

LEMMA RestartKeepsTypes ==
  ASSUME TypeInv, ExportInv, Restart
  PROVE  TypeInv' /\ ExportInv'
<1>1. \A c \in Callers : req'[c] = NoReq
  BY RestartWrites
<1>2. \A c \in Callers : Asking(c)'
  BY <1>1, NoReqFields DEF Asking, Starting
<1>3. TablesOK(db)'
  BY RestartWrites, TheTables DEF TypeInv, TablesOK, VectorTables
<1>4. TablesOK(ex.rows)'
  <2>1. ex'.rows = ex.rows \/ ex'.rows = NoRows
    BY RestartWrites
  <2> QED BY <2>1, NoRowsOK, RestartWrites DEF TypeInv, TablesOK
<1>5. Places'
  <2>1. rs'.pc = "idle" => rs.pc = "idle"
    BY RestartWrites
  <2>2. ex.pc = "archive" => ex'.pc = "archive"
    BY RestartWrites DEF Exporting
  <2> QED BY <2>1, <2>2, RestartWrites DEF TypeInv, Places, Restoring, Exporting
<1>6. ExportInv'
  BY RestartWrites DEF ExportInv, Exporting, Whole, TypeInv, Places
<1> QED BY <1>1, <1>2, <1>3, <1>4, <1>5, <1>6, RestartWrites DEF TypeInv
-----------------------------------------------------------------------------
(* The order of turns. *)

\* The order in one session.
Numbered(of) ==
  /\ {t.seq : t \in of} = 0..(Cardinality(of) - 1)
  /\ \A b \in of : \A a \in b.after : \E t \in of : t.id = a /\ t.seq < b.seq

LEMMA OrderBySession ==
  ASSUME NEW turns
  PROVE  InOrder(turns) <=> \A s \in SessionIds : Numbered(Of(turns, s))
BY DEF InOrder, Numbered, Of

LEMMA NoTurnsInOrder == Numbered({}) /\ InOrder({})
<1>1. Cardinality({}) = 0
  BY FS_EmptySet
<1>2. Numbered({})
  BY <1>1 DEF Numbered
<1>3. \A s : Of({}, s) = {}
  BY DEF Of
<1> QED BY <1>2, <1>3, OrderBySession

LEMMA OneSessionInOrder ==
  ASSUME NEW turns, InOrder(turns), NEW s
  PROVE  InOrder(Of(turns, s))
<1>1. ASSUME NEW u \in SessionIds PROVE Numbered(Of(Of(turns, s), u))
  <2>1. CASE u = s
    <3>1. Of(Of(turns, s), u) = Of(turns, u)
      BY <2>1 DEF Of
    <3> QED BY <3>1, OrderBySession
  <2>2. CASE u # s
    <3>1. Of(Of(turns, s), u) = {}
      BY <2>2 DEF Of
    <3> QED BY <3>1, NoTurnsInOrder
  <2> QED BY <2>1, <2>2
<1> QED BY <1>1, OrderBySession

\* A turn with the next free number keeps the order.
LEMMA TurnAdded ==
  ASSUME NEW turns, IsFiniteSet(turns), InOrder(turns), NEW n,
         n.seq \in 0..Cardinality(Of(turns, n.session)), \A t \in Of(turns, n.session) : t.seq # n.seq,
         \A a \in n.after : \E t \in Of(turns, n.session) : t.id = a /\ t.seq < n.seq
  PROVE  InOrder(turns \cup {n})
<1> DEFINE of == Of(turns, n.session)
<1>1. IsFiniteSet(of) /\ Cardinality(of) \in Nat
  BY FS_Subset, FS_CardinalityType DEF Of
<1>2. n \notin of
  OBVIOUS
<1>3. Cardinality(of \cup {n}) = Cardinality(of) + 1
  BY <1>1, <1>2, FS_AddElement
<1>4. Of(turns \cup {n}, n.session) = of \cup {n}
  BY DEF Of
<1>5. ASSUME NEW s \in SessionIds PROVE Numbered(Of(turns \cup {n}, s))
  <2>1. Numbered(Of(turns, s))
    BY OrderBySession
  <2>2. CASE s # n.session
    <3>1. Of(turns \cup {n}, s) = Of(turns, s)
      BY <2>2 DEF Of
    <3> QED BY <2>1, <3>1
  <2>3. CASE s = n.session
    <3>1. {t.seq : t \in of} = 0..(Cardinality(of) - 1)
      BY <2>1, <2>3 DEF Numbered
    <3>2. n.seq = Cardinality(of)
      <4>1. n.seq \notin {t.seq : t \in of}
        OBVIOUS
      <4>2. n.seq \in 0..Cardinality(of) /\ n.seq \notin 0..(Cardinality(of) - 1)
        BY <3>1, <4>1
      <4> HIDE DEF of
      <4> QED BY <1>1, <4>2
    <3>3. {t.seq : t \in of \cup {n}} = {t.seq : t \in of} \cup {n.seq}
      OBVIOUS
    <3>4. {t.seq : t \in of \cup {n}} = 0..(Cardinality(of \cup {n}) - 1)
      <4> HIDE DEF of
      <4> QED BY <1>1, <1>3, <3>1, <3>2, <3>3
    <3>5. \A b \in of \cup {n} : \A a \in b.after : \E t \in of \cup {n} : t.id = a /\ t.seq < b.seq
      BY <2>1, <2>3 DEF Numbered
    <3> QED BY <1>4, <2>3, <3>4, <3>5 DEF Numbered
  <2> QED BY <2>2, <2>3
<1> QED BY <1>5, OrderBySession

\* The number a caller reads is the first that is free.
LEMMA NextFree ==
  ASSUME NEW of, IsFiniteSet(of), Numbered(of)
  PROVE  /\ (IF of = {} THEN 0 ELSE 1 + Max({t.seq : t \in of})) = Cardinality(of)
         /\ Cardinality(of) \in Nat /\ \A t \in of : t.seq < Cardinality(of)
<1> DEFINE n == Cardinality(of)  seqs == {t.seq : t \in of}
<1>1. n \in Nat /\ (n = 0 <=> of = {}) /\ seqs = 0..(n - 1)
  BY FS_CardinalityType, FS_EmptySet DEF Numbered
<1>2. \A t \in of : t.seq \in seqs
  OBVIOUS
<1> HIDE DEF seqs, n
<1>3. CASE of = {}
  BY <1>1, <1>3 DEF n
<1>4. CASE of # {}
  <2>1. n - 1 \in seqs /\ \A y \in seqs : n - 1 >= y
    BY <1>1, <1>4
  <2>2. Max(seqs) \in seqs /\ \A y \in seqs : Max(seqs) >= y
    BY <2>1 DEF Max
  <2>3. Max(seqs) = n - 1
    BY <1>1, <2>1, <2>2
  <2>4. \A t \in of : t.seq < n
    BY <1>1, <1>2
  <2> QED BY <1>1, <1>4, <2>3, <2>4 DEF n, seqs
<1> QED BY <1>3, <1>4

\* What a request waits for stays when turns are added.
LEMMA FollowsMore ==
  ASSUME NEW turns, NEW more, turns \subseteq more, IsFiniteSet(more), NEW q, NEW id, FollowsIn(turns, q, id)
  PROVE  FollowsIn(more, q, id)
<1>1. Of(turns, q.session) \subseteq Of(more, q.session)
  BY DEF Of
<1>2. IsFiniteSet(Of(more, q.session))
  BY FS_Subset DEF Of
<1>3. /\ Cardinality(Of(turns, q.session)) <= Cardinality(Of(more, q.session))
      /\ Cardinality(Of(turns, q.session)) \in Nat /\ Cardinality(Of(more, q.session)) \in Nat
  BY <1>1, <1>2, FS_Subset, FS_CardinalityType
<1> QED BY <1>1, <1>3 DEF FollowsIn

\* A list of the turns of a session in order of number holds exactly them.
LEMMA BySeqHoldsAll ==
  ASSUME NEW turns, IsFiniteSet(turns), NEW list \in BySeq(turns)
  PROVE  ToSet(list) = turns
<1> DEFINE D == 1..Cardinality(turns)
<1>1. list \in [D -> turns] /\ \A i, j \in D : i # j => list[i] # list[j]
  BY DEF BySeq, SetToSeqs
<1>2. Cardinality(turns) \in Nat
  BY FS_CardinalityType
<1>3. IsFiniteSet(D) /\ Cardinality(D) = Cardinality(turns)
  BY <1>2, FS_Interval
<1> HIDE DEF D
<1>4. list \in Injection(D, turns)
  BY <1>1 DEF Injection, IsInjective
<1>5. list \in Surjection(D, turns)
  BY <1>3, <1>4, FS_Injection
<1> QED BY <1>1, <1>5 DEF ToSet, Surjection
-----------------------------------------------------------------------------
(* Order under the steps of callers. *)

LEMMA FinishFollows ==
  ASSUME TypeInv, OrderInv, NEW c \in Callers, Finish(c, req[c]), UNCHANGED <<db, left>>
  PROVE  Follows(c)' /\ Acknowledged'
<1> DEFINE told == IF req[c].stored THEN {TurnId(c)} ELSE {}
<1>1. /\ acked' = acked \cup ({req[c].session} \X told)
      /\ \/ Set(c, NoReq)
         \/ Set(c, [req[c] EXCEPT !.pc = "seq", !.role = "system_inject", !.stored = FALSE,
                                  !.after = @ \cup told])
  BY DEF Finish
<1>2. /\ \A a \in req[c].after \cup told : \E t \in Of(db["ft_turns"], req[c].session) : t.id = a
      /\ Acknowledged /\ req = [d \in Callers |-> req[d]] /\ Fields(req[c])
  BY DEF OrderInv, Follows, FollowsIn, TypeInv, Asking
<1> HIDE DEF told
<1>3. Acknowledged'
  <2>1. ASSUME NEW p \in {req[c].session} \X told PROVE \E t \in TurnsOf(p[1]) : t.id = p[2]
    BY <1>2, <2>1 DEF TurnsOf, Of
  <2>2. \A p \in acked' : \E t \in TurnsOf(p[1]) : t.id = p[2]
    BY <1>1, <1>2, <2>1 DEF Acknowledged
  <2> QED BY <2>2 DEF Acknowledged, TurnsOf
<1>4. FollowsIn(db["ft_turns"], req'[c], TurnId(c)')
  <2>1. CASE req'[c] = NoReq
    BY <2>1, NoReqFields DEF FollowsIn
  <2>2. CASE req'[c] # NoReq
    <3>1. req'[c].pc = "seq" /\ req'[c].after = req[c].after \cup told /\ req'[c].stored = FALSE
          /\ req'[c].session = req[c].session
      BY <1>1, <1>2, <2>2 DEF Set, Fields
    <3> QED BY <1>2, <3>1 DEF FollowsIn
  <2> QED BY <2>1, <2>2
<1> QED BY <1>3, <1>4 DEF Follows

\* A turn is stored with the first free number, or not at all.
LEMMA AddFollows ==
  ASSUME TypeInv, OrderInv, NEW c \in Callers, AddFTTurn(c), Has(req[c].session) /\ ~Taken(c)
  PROVE  /\ InOrder(db["ft_turns"])' /\ Follows(c)' /\ UNCHANGED acked
<1> DEFINE turns == db["ft_turns"]  n == NewTurn(c)
<1>1. /\ Stored(c, turns \cup {n}) /\ UNCHANGED <<left, acked>> /\ req[c].pc = "insert"
      /\ req = [d \in Callers |-> req[d]] /\ Fields(req[c]) /\ IsFiniteSet(turns)
      /\ FollowsIn(turns, req[c], TurnId(c)) /\ InOrder(turns)
  BY DEF AddFTTurn, Stored, TypeInv, Asking, TablesOK, OrderInv, Follows
<1>2. /\ n.session = req[c].session /\ n.seq = req[c].seq /\ n.after = req[c].after /\ n.id = TurnId(c)
  BY DEF NewTurn
<1>3. db'["ft_turns"] = turns \cup {n}
  BY <1>1, TheTables DEF Stored, Tables, TypeInv, TablesOK
<1>4. /\ req'[c].session = req[c].session /\ req'[c].after = req[c].after /\ req'[c].pc = "links"
      /\ req'[c].role = req[c].role
  BY <1>1 DEF Stored, Set, Fields
<1>5. TurnId(c)' = TurnId(c)
  BY <1>1, <1>4 DEF TurnId
<1> HIDE DEF n
<1>6. InOrder(turns \cup {n})
  <2>1. \A t \in Of(turns, n.session) : t.seq # n.seq
    BY <1>2 DEF Taken, TurnsOf, Of
  <2>2. /\ n.seq \in 0..Cardinality(Of(turns, n.session))
        /\ \A a \in n.after : \E t \in Of(turns, n.session) : t.id = a /\ t.seq < n.seq
    BY <1>1, <1>2 DEF FollowsIn
  <2> QED BY <1>1, <2>1, <2>2, TurnAdded
<1>7. FollowsIn(turns \cup {n}, req'[c], TurnId(c))
  <2>1. Of(turns, req[c].session) \subseteq Of(turns \cup {n}, req[c].session)
        /\ n \in Of(turns \cup {n}, req[c].session)
    BY <1>2 DEF Of
  <2> QED BY <1>1, <1>2, <1>4, <2>1 DEF FollowsIn
<1> QED BY <1>1, <1>3, <1>5, <1>6, <1>7 DEF Follows

\* A request that goes on without having written a turn.
LEMMA SameWaits ==
  ASSUME NEW turns, NEW q, NEW p, NEW id, FollowsIn(turns, q, id), p.after = q.after, p.session = q.session,
         p.stored => q.stored, p.pc # "insert"
  PROVE  FollowsIn(turns, p, id)
BY DEF FollowsIn

LEMMA BeginFollows ==
  ASSUME TypeInv, OrderInv, NEW c \in Callers, Begin(c)
  PROVE  Follows(c)'
<1>1. /\ ~req'[c].stored /\ req'[c].pc # "insert" /\ UNCHANGED db
      /\ req'[c].after = {p[2] : p \in {q \in acked : q[1] = req'[c].session}}
  BY BeginRow DEF Begin
<1>2. \A a \in req'[c].after : \E t \in Of(db["ft_turns"], req'[c].session) : t.id = a
  BY <1>1 DEF OrderInv, Acknowledged, TurnsOf, Of
<1> QED BY <1>1, <1>2 DEF Follows, FollowsIn

LEMMA SeqFollows ==
  ASSUME TypeInv, OrderInv, NEW c \in Callers, NextFTTurnSeq(c)
  PROVE  Follows(c)'
<1> DEFINE of == Of(db["ft_turns"], req[c].session)
<1>1. /\ of = TurnsOf(req[c].session) /\ req[c].session \in SessionIds
      /\ req = [d \in Callers |-> req[d]] /\ Fields(req[c]) /\ UNCHANGED <<db, left>>
      /\ FollowsIn(db["ft_turns"], req[c], TurnId(c)) /\ req[c].pc = "seq"
  BY DEF NextFTTurnSeq, TypeInv, Asking, OrderInv, Follows, TurnsOf, Of
<1>2. IsFiniteSet(of) /\ Numbered(of)
  <2>1. IsFiniteSet(of)
    BY FS_Subset DEF TypeInv, TablesOK, Of
  <2> QED BY <1>1, <2>1, OrderBySession DEF OrderInv
<1>3. /\ (IF of = {} THEN 0 ELSE 1 + Max({t.seq : t \in of})) = Cardinality(of)
      /\ Cardinality(of) \in Nat /\ \A t \in of : t.seq < Cardinality(of)
  BY <1>2, NextFree
<1>4. req'[c] = [req[c] EXCEPT !.pc = "insert", !.seq = IF of = {} THEN 0 ELSE 1 + Max({t.seq : t \in of})]
  BY <1>1 DEF NextFTTurnSeq, Set
<1>5. /\ req'[c].seq = Cardinality(of) /\ req'[c].after = req[c].after /\ req'[c].session = req[c].session
      /\ req'[c].stored = req[c].stored /\ req'[c].role = req[c].role
  <2> HIDE DEF of
  <2> QED BY <1>1, <1>3, <1>4 DEF Fields
<1>6. TurnId(c)' = TurnId(c)
  BY <1>1, <1>5 DEF TurnId
<1> QED BY <1>1, <1>3, <1>5, <1>6 DEF Follows, FollowsIn

LEMMA CallerKeepsOrder ==
  ASSUME TypeInv, OrderInv, NEW c \in Callers, TurnStep(c)
  PROVE  InOrder(db["ft_turns"])' /\ Acknowledged' /\ \A d \in Callers : Follows(d)'
<1> DEFINE turns == db["ft_turns"]
<1>1. turns \subseteq turns' /\ IsFiniteSet(turns')
  BY CallerWrites DEF Writes, TablesOK
<1>2. ASSUME NEW d \in Callers \ {c} PROVE Follows(d)'
  <2>1. req'[d] = req[d] /\ left'[d] = left[d]
    BY BeginRow, CallerOnward DEF TypeInv, Begin, Onward
  <2>2. FollowsIn(turns, req[d], TurnId(d)) /\ TurnId(d)' = TurnId(d)
    BY <2>1 DEF OrderInv, Follows, TurnId
  <2> QED BY <1>1, <2>1, <2>2, FollowsMore DEF Follows
<1>3. ASSUME UNCHANGED acked PROVE Acknowledged'
  BY <1>1, <1>3 DEF OrderInv, Acknowledged, TurnsOf
<1>4. ASSUME turns' = turns, UNCHANGED left, req'[c] = NoReq \/
               (/\ req'[c].after = req[c].after /\ req'[c].session = req[c].session /\ req'[c].role = req[c].role
                /\ req'[c].stored = req[c].stored /\ req'[c].pc # "insert")
      PROVE  Follows(c)'
  <2>1. CASE req'[c] = NoReq
    BY <2>1, NoReqFields DEF Follows, FollowsIn
  <2>2. CASE req'[c] # NoReq
    <3>1. TurnId(c)' = TurnId(c)
      BY <1>4, <2>2 DEF TurnId
    <3> QED BY <1>4, <2>2, <3>1, SameWaits DEF OrderInv, Follows
  <2> QED BY <2>1, <2>2
<1>5. /\ InOrder(turns) /\ req = [d \in Callers |-> req[d]] /\ Fields(req[c])
  BY DEF OrderInv, TypeInv, Asking
<1>6. CASE Begin(c)
  BY <1>2, <1>3, <1>5, <1>6, BeginFollows DEF Begin
<1>7. CASE AddFTTurn(c) /\ Has(req[c].session) /\ ~Taken(c)
  BY <1>2, <1>3, <1>7, AddFollows
<1>8. ASSUME Finish(c, req[c]), UNCHANGED <<db, left>> PROVE Follows(c)' /\ Acknowledged' /\ InOrder(turns')
  BY <1>5, <1>8, FinishFollows
<1>9. CASE \/ AddFTTurn(c) /\ ~(Has(req[c].session) /\ ~Taken(c))
           \/ (AllLinked(c) /\ req[c].stored) \/ StatementFails(c)
  BY <1>2, <1>8, <1>9 DEF AddFTTurn, AllLinked, StatementFails
<1>10. CASE NextFTTurnSeq(c)
  BY <1>2, <1>3, <1>5, <1>10, SeqFollows DEF NextFTTurnSeq
<1>11. CASE CreateFTSession(c) \/ LinkFTSessionKnowledge(c) \/ AddFTPreference(c) \/ CompleteFTSession(c)
  <2>1. turns' = turns
    <3>1. ASSUME NEW t \in {"ft_sessions", "ft_preferences", "ft_session_knowledge"}, NEW rows,
                 db' = [db EXCEPT ![t] = rows]
          PROVE  turns' = turns
      BY <3>1, TheTables DEF TypeInv, TablesOK
    <3>2. CASE CreateFTSession(c) \/ CompleteFTSession(c)
      <4>1. \E rows : db' = [db EXCEPT !["ft_sessions"] = rows]
        BY <3>2 DEF CreateFTSession, CompleteFTSession, Tables
      <4> QED BY <3>1, <4>1
    <3>3. CASE LinkFTSessionKnowledge(c)
      <4>1. UNCHANGED db \/ \E rows : db' = [db EXCEPT !["ft_session_knowledge"] = rows]
        BY <3>3 DEF LinkFTSessionKnowledge, Linked
      <4> QED BY <3>1, <4>1
    <3>4. CASE AddFTPreference(c)
      <4>1. UNCHANGED db \/ \E rows : db' = [db EXCEPT !["ft_preferences"] = rows]
        BY <3>4 DEF AddFTPreference
      <4> QED BY <3>1, <4>1
    <3> QED BY <1>11, <3>2, <3>3, <3>4
  <2>2. Return(c) /\ UNCHANGED left
    BY <1>11 DEF CreateFTSession, LinkFTSessionKnowledge, AddFTPreference, CompleteFTSession
  <2>3. req'[c] = NoReq /\ UNCHANGED acked
    BY <1>5, <2>2 DEF Return, Set
  <2> QED BY <1>2, <1>3, <1>4, <1>5, <2>1, <2>2, <2>3
<1>12. CASE GetFTSession(c)
  <2>1. UNCHANGED <<db, left, acked>>
    BY <1>12 DEF GetFTSession, Return
  <2>2. req'[c] = NoReq \/
               (/\ req'[c].after = req[c].after /\ req'[c].session = req[c].session /\ req'[c].role = req[c].role
                /\ req'[c].stored = req[c].stored /\ req'[c].pc # "insert")
    BY <1>5, <1>12 DEF GetFTSession, Return, Goto, Set, Fields
  <2> QED BY <1>2, <1>3, <1>4, <1>5, <2>1, <2>2
<1>13. CASE AllLinked(c) /\ ~req[c].stored
  <2>1. UNCHANGED <<db, left, acked>>
    BY <1>13 DEF AllLinked
  <2>2. /\ req'[c].after = req[c].after /\ req'[c].session = req[c].session /\ req'[c].role = req[c].role
        /\ req'[c].stored = req[c].stored /\ req'[c].pc # "insert"
    BY <1>5, <1>13 DEF AllLinked, Goto, Set, Fields
  <2> QED BY <1>2, <1>3, <1>4, <1>5, <2>1, <2>2
<1>14. CASE LinkRetrieved(c)
  <2>1. UNCHANGED <<left, acked>>
    BY <1>14 DEF LinkRetrieved
  <2>2. /\ req'[c].after = req[c].after /\ req'[c].session = req[c].session /\ req'[c].role = req[c].role
        /\ req'[c].stored = req[c].stored /\ req'[c].pc # "insert"
    BY <1>5, <1>14 DEF LinkRetrieved, Set, Fields
  <2>3. turns' = turns
    <3>1. UNCHANGED db \/ \E rows : db' = [db EXCEPT !["ft_session_knowledge"] = rows]
      BY <1>14 DEF LinkRetrieved, Linked
    <3> QED BY <3>1, TheTables DEF TypeInv, TablesOK
  <2> QED BY <1>2, <1>3, <1>4, <1>5, <2>1, <2>2, <2>3
<1> QED BY <1>6, <1>7, <1>9, <1>10, <1>11, <1>12, <1>13, <1>14 DEF TurnStep

-----------------------------------------------------------------------------
(* While the restore is alone. *)

LEMMA CallersKeepAlone ==
  ASSUME TypeInv, AloneInv, CallerStep
  PROVE  AloneInv'
<1>0. SUFFICES ASSUME ~overlap' PROVE Whole(db)' /\ OrderInv' /\ RestoreInv'
  BY DEF AloneInv
<1>1. PICK c \in Callers : TurnStep(c)
  BY DEF CallerStep
<1>2. ~overlap /\ ~Restoring /\ UNCHANGED <<rs, tr>> /\ ex'.rows = ex.rows
  <2>1. ~overlap /\ ~Restoring /\ UNCHANGED rs /\ Unquiet
    BY <1>0 DEF CallerStep, Watch, TypeInv, Places
  <2>2. ex'.rows = ex.rows
    BY <2>1 DEF Unquiet, TypeInv, Places
  <2>3. UNCHANGED tr
    BY <1>1, CallerOnward DEF Begin
  <2> QED BY <2>1, <2>2, <2>3
<1>3. Whole(db) /\ OrderInv
  BY <1>2 DEF AloneInv
<1>4. Writes(c)
  BY <1>1, CallerWrites
<1>5. Whole(db)'
  <2>1. \A s : Has(s) => Among(db["ft_sessions"], s)
    BY DEF Has, Among
  <2>2. \A t \in Children : \A r \in db'[t] : Among(db'["ft_sessions"], r.session)
    BY <1>3, <1>4, <2>1 DEF Writes, Whole
  <2>3. db'["entry_embeddings"] \subseteq db'["entries"]
    BY <1>3, <1>4 DEF Writes, Whole, VectorTables
  <2> QED BY <2>2, <2>3 DEF Whole
<1>6. OrderInv'
  <2>1. InOrder(db["ft_turns"])' /\ Acknowledged' /\ \A d \in Callers : Follows(d)'
    BY <1>1, <1>3, CallerKeepsOrder
  <2>2. InOrder(ex.rows["ft_turns"])'
    BY <1>2, <1>3 DEF OrderInv
  <2>3. Training'
    BY <1>2, <1>3 DEF OrderInv, Training, ExportedInOrder
  <2> QED BY <2>1, <2>2, <2>3 DEF OrderInv
<1>7. RestoreInv'
  BY <1>2 DEF RestoreInv, Restoring
<1> QED BY <1>5, <1>6, <1>7

LEMMA OthersKeepAlone ==
  ASSUME TypeInv, AloneInv, OtherStep
  PROVE  AloneInv'
<1>0. SUFFICES ASSUME ~overlap' PROVE Whole(db)' /\ OrderInv' /\ RestoreInv'
  BY DEF AloneInv
<1>1. /\ ~overlap /\ ~Restoring /\ UNCHANGED <<rs, req, acked, left, tr>> /\ ex'.rows = ex.rows
  <2>1. ~overlap /\ ~Restoring /\ UNCHANGED <<rs, req, acked, left, tr>> /\ Unquiet
    BY <1>0, OthersWrite DEF TypeInv, Places
  <2> QED BY <2>1 DEF Unquiet, TypeInv, Places
<1>2. Whole(db) /\ OrderInv
  BY <1>1 DEF AloneInv
<1>4. /\ db'["entry_embeddings"] \subseteq db'["entries"] /\ db'["ft_turns"] = db["ft_turns"]
      /\ db'["ft_sessions"] = db["ft_sessions"] /\ \A t \in Children : db'[t] = db[t]
  BY <1>2, OthersWrite, TheTables DEF Whole, Children
<1>5. Whole(db)'
  BY <1>2, <1>4 DEF Whole
<1>6. OrderInv'
  <2>1. \A c \in Callers : Follows(c)'
    BY <1>1, <1>2, <1>4 DEF OrderInv, Follows, TurnId
  <2>2. Acknowledged' /\ Training'
    BY <1>1, <1>2, <1>4 DEF OrderInv, Acknowledged, TurnsOf, Training, ExportedInOrder
  <2>3. InOrder(db["ft_turns"])' /\ InOrder(ex.rows["ft_turns"])'
    BY <1>1, <1>2, <1>4 DEF OrderInv
  <2> QED BY <2>1, <2>2, <2>3 DEF OrderInv
<1>7. RestoreInv'
  BY <1>1 DEF RestoreInv, Restoring
<1> QED BY <1>5, <1>6, <1>7

\* The training export reads whole sessions, one at a time.
LEMMA ReaderKeepsAlone ==
  ASSUME TypeInv, AloneInv, ReaderStep
  PROVE  AloneInv'
<1>0. SUFFICES ASSUME ~overlap' PROVE Whole(db)' /\ OrderInv' /\ RestoreInv'
  BY DEF AloneInv
<1>1. UNCHANGED <<db, req, acked, left, used, ex, rs, overlap, dim>>
  BY DEF ReaderStep, ExportStep, ListFTSessions, ListFTTurns, ListFTPreferences, bvars
<1>2. Whole(db) /\ OrderInv /\ RestoreInv
  BY <1>0, <1>1 DEF AloneInv
<1>3. Whole(db)' /\ RestoreInv'
  BY <1>1, <1>2 DEF Whole, RestoreInv, Restoring, Emptied, Loaded, NoVectors, OtherDimension
<1>4. /\ tr = [pc |-> tr.pc, only |-> tr.only, todo |-> tr.todo, now |-> tr.now, turns |-> tr.turns,
               chats |-> tr.chats, pairs |-> tr.pairs, prefs |-> tr.prefs]
      /\ Training /\ IsFiniteSet(db["ft_turns"]) /\ InOrder(db["ft_turns"])
  BY <1>2 DEF TypeInv, TablesOK, OrderInv
<1>5. Training'
  <2>1. CASE ListFTSessions
    <3>1. PICK only \in BOOLEAN : tr' = [tr EXCEPT !.pc = "next", !.only = only,
                                              !.todo = {r \in db["ft_sessions"] : Trainable(r, only)}]
      BY <2>1 DEF ListFTSessions
    <3>2. tr'.pc = "next" /\ tr'.chats = {} /\ \A r \in tr'.todo : Trainable(r, tr'.only)
      BY <1>4, <2>1, <3>1 DEF ListFTSessions, Training
    <3> QED BY <3>2 DEF Training, ExportedInOrder
  <2>2. CASE ListFTTurns
    <3>1. PICK r \in tr.todo, turns \in BySeq(TurnsOf(tr'.now.id)) :
            /\ tr'.pc = "prefs" /\ tr'.todo \subseteq tr.todo /\ tr'.now = r /\ tr'.turns = turns /\ tr'.only = tr.only
            /\ tr'.chats = tr.chats
      <4>1. PICK r \in tr.todo : \E turns \in BySeq(TurnsOf(r.id)) :
              tr' = [tr EXCEPT !.pc = "prefs", !.todo = @ \ {r}, !.now = r, !.turns = turns]
        BY <2>2 DEF ListFTTurns
      <4>2. tr'.now = r
        BY <1>4, <4>1
      <4> QED BY <1>4, <4>1, <4>2
    <3>2. ToSet(tr'.turns) = Of(db["ft_turns"], tr'.now.id)
      <4>1. TurnsOf(tr'.now.id) = Of(db["ft_turns"], tr'.now.id)
        BY DEF TurnsOf, Of
      <4>2. IsFiniteSet(TurnsOf(tr'.now.id))
        BY <1>4, FS_Subset DEF TurnsOf
      <4> QED BY <3>1, <4>1, <4>2, BySeqHoldsAll
    <3>3. InOrder(ToSet(tr'.turns))
      BY <1>4, <3>2, OneSessionInOrder
    <3> QED BY <1>4, <3>1, <3>3 DEF Training, ExportedInOrder
  <2>3. CASE ListFTPreferences
    <3>1. /\ tr.pc = "prefs" /\ tr'.pc = "next" /\ tr'.todo = tr.todo /\ tr'.only = tr.only
          /\ tr'.chats = tr.chats \cup buildShareGPT(tr.now, tr.turns)
      BY <1>4, <2>3 DEF ListFTPreferences
    <3>2. \A chat \in buildShareGPT(tr.now, tr.turns) : chat.session = tr.now /\ chat.turns = tr.turns
      BY DEF buildShareGPT
    <3>3. \A chat \in tr'.chats : Trainable(chat.session, tr.only) /\ InOrder(ToSet(chat.turns))
      BY <1>4, <3>1, <3>2 DEF Training, ExportedInOrder
    <3> QED BY <1>4, <3>1, <3>3 DEF Training, ExportedInOrder, Trainable, InOrder
  <2> QED BY <2>1, <2>2, <2>3 DEF ReaderStep, ExportStep
<1>6. OrderInv'
  <2>1. \A c \in Callers : Follows(c)'
    BY <1>1, <1>2 DEF OrderInv, Follows, TurnId
  <2>2. InOrder(db["ft_turns"])' /\ InOrder(ex.rows["ft_turns"])'
    <3>1. db' = db /\ ex' = ex
      BY <1>1
    <3>2. InOrder(db["ft_turns"]) /\ InOrder(ex.rows["ft_turns"])
      BY <1>2 DEF OrderInv
    <3> QED BY <3>1, <3>2
  <2>3. Acknowledged'
    BY <1>1, <1>2 DEF OrderInv, Acknowledged, TurnsOf
  <2> QED BY <1>5, <2>1, <2>2, <2>3 DEF OrderInv
<1> QED BY <1>3, <1>6

LEMMA ExportKeepsAlone ==
  ASSUME TypeInv, AloneInv, UNCHANGED <<db, req, rs, left, tr, acked, overlap>>,
         BeginExport \/ DumpTable \/ DumpEmbeddings \/ ExportFails
  PROVE  AloneInv'
<1>0. SUFFICES ASSUME ~overlap' PROVE Whole(db)' /\ OrderInv' /\ RestoreInv'
  BY DEF AloneInv
<1>1. Whole(db) /\ OrderInv /\ ~overlap
  BY <1>0 DEF AloneInv
<1>2. ~Restoring
  BY DEF BeginExport, DumpTable, DumpEmbeddings, ExportFails, TypeInv, Places, Restoring
<1>3. ex'.rows["ft_turns"] \in {{}, db["ft_turns"], ex.rows["ft_turns"]}
  <2>1. NoRows["ft_turns"] = {} /\ ex.rows = [t \in AllTables |-> ex.rows[t]] /\ "ft_turns" \in AllTables
        /\ ex = [pc |-> ex.pc, i |-> ex.i, rows |-> ex.rows, quiet |-> ex.quiet, dim |-> ex.dim]
    BY TheTables DEF NoRows, AllTables, TypeInv, TablesOK, Places
  <2>2. CASE BeginExport \/ ExportFails
    <3>1. CASE BeginExport
      <4>1. ex' = [pc |-> "dump", i |-> 1, rows |-> NoRows, quiet |-> TRUE, dim |-> ex.dim]
        BY <2>1, <3>1 DEF BeginExport
      <4>2. ex'.rows = NoRows
        BY <4>1
      <4> QED BY <2>1, <4>2
    <3>2. CASE ExportFails
      <4>1. ex' = [ex EXCEPT !.pc = "idle", !.rows = NoRows]
        BY <3>2 DEF ExportFails
      <4>2. ex'.rows = NoRows
        BY <2>1, <4>1
      <4> QED BY <2>1, <4>2
    <3> QED BY <2>2, <3>1, <3>2
  <2>3. CASE DumpTable
    <3>1. ex'.rows = [ex.rows EXCEPT ![CoveredTables[ex.i]] = db[CoveredTables[ex.i]]]
      BY <2>1, <2>3 DEF DumpTable
    <3> QED BY <2>1, <3>1
  <2>4. CASE DumpEmbeddings
    <3>1. ex'.rows = [ex.rows EXCEPT !["entry_embeddings"] = db["entry_embeddings"] \cap db["entries"]]
      BY <2>1, <2>4 DEF DumpEmbeddings
    <3> QED BY <2>1, <3>1
  <2> QED BY <2>2, <2>3, <2>4
<1>4. InOrder(ex.rows["ft_turns"])'
  BY <1>1, <1>3, NoTurnsInOrder DEF OrderInv
<1>5. OrderInv'
  <2>1. InOrder(db["ft_turns"])' /\ Acknowledged'
    BY <1>1 DEF OrderInv, Acknowledged, TurnsOf
  <2>2. \A c \in Callers : Follows(c)'
    BY <1>1 DEF OrderInv, Follows, TurnId
  <2>3. Training'
    BY <1>1 DEF OrderInv, Training, ExportedInOrder
  <2> QED BY <1>4, <2>1, <2>2, <2>3 DEF OrderInv
<1>6. RestoreInv' /\ Whole(db)'
  BY <1>1, <1>2 DEF RestoreInv, Restoring, Whole
<1> QED BY <1>5, <1>6

LEMMA RestartKeepsAlone ==
  ASSUME TypeInv, AloneInv, Restart
  PROVE  AloneInv'
<1>0. SUFFICES ASSUME ~overlap' PROVE Whole(db)' /\ OrderInv' /\ RestoreInv'
  BY DEF AloneInv
<1>1. Whole(db) /\ OrderInv
  BY <1>0, RestartWrites DEF AloneInv
<1>2. /\ db'["entry_embeddings"] = db["entry_embeddings"] /\ db'["entries"] = db["entries"]
      /\ db'["ft_sessions"] = db["ft_sessions"] /\ \A t \in Children : db'[t] = db[t]
  BY RestartWrites, TheTables DEF Children
<1>3. Whole(db)'
  BY <1>1, <1>2 DEF Whole
<1>4. db'["ft_turns"] = db["ft_turns"]
  BY <1>2 DEF Children
<1>5. InOrder(ex.rows["ft_turns"])'
  <2>1. CASE ex' = ex
    BY <1>1, <2>1 DEF OrderInv
  <2>2. CASE ex'.rows = NoRows
    <3>1. NoRows["ft_turns"] = {}
      BY TheTables DEF NoRows, AllTables
    <3> QED BY <2>2, <3>1, NoTurnsInOrder
  <2> QED BY <2>1, <2>2, RestartWrites
<1>6. \A c \in Callers : Follows(c)'
  <2>1. \A c \in Callers : req'[c] = NoReq
    BY RestartWrites
  <2> QED BY <2>1, NoReqFields DEF Follows, FollowsIn
<1>7. Acknowledged' /\ Training'
  BY <1>1, <1>4, RestartWrites DEF OrderInv, Acknowledged, TurnsOf, Training, ExportedInOrder
<1>8. OrderInv'
  BY <1>1, <1>4, <1>5, <1>6, <1>7 DEF OrderInv
<1>9. RestoreInv'
  <2>1. rs'.pc \notin {"vectors", "truncate", "load", "embeddings", "chunks"}
    BY RestartWrites DEF Restoring
  <2> QED BY <2>1 DEF RestoreInv, Restoring
<1> QED BY <1>3, <1>8, <1>9

\* The restore's own step on the tables, and how far it has come.
LEMMA ImportRestores ==
  ASSUME TypeInv, Whole(db), RestoreInv, UNCHANGED req, ex.pc = "archive", ImportStep, Restoring' => ~Busy,
         acked' = (IF Restoring' THEN {} ELSE acked)
  PROVE  RestoreInv' /\ Whole(db)' /\ db'["ft_turns"] \in {{}, db["ft_turns"], ex.rows["ft_turns"]} /\ UNCHANGED ex
<1>1. /\ rs = [pc |-> rs.pc, i |-> rs.i, fault |-> rs.fault] /\ db = [t \in AllTables |-> db[t]]
      /\ (rs.pc \in {"truncate", "load"} => rs.i \in 1..6)
  BY TheTables DEF TypeInv, Places, TablesOK
<1>2. Restoring' => acked' = {} /\ \A c \in Callers : req'[c].pc = "idle"
  BY DEF Busy
<1>3. \A i, j \in 1..6 : i # j => CoveredTables[i] # CoveredTables[j]
  <2>1. \A i \in 1..6 : i \in {1, 2, 3, 4, 5, 6}
    OBVIOUS
  <2> QED BY <2>1, TheTables
<1>4. \A i \in 1..6 : CoveredTables[i] \in AllTables /\ CoveredTables[i] \notin VectorTables
  <2>1. \A i \in 1..6 : i \in {1, 2, 3, 4, 5, 6}
    OBVIOUS
  <2> QED BY <2>1, TheTables DEF VectorTables
<1>5. CASE TruncateVectors
  <2>1. db' = [t \in AllTables |-> IF t \in VectorTables THEN {} ELSE db[t]]
        /\ rs'.pc = "truncate" /\ rs'.i = 6 /\ UNCHANGED ex
    <3>1. DOMAIN db = AllTables
      BY <1>1
    <3> QED BY <1>1, <1>5, <3>1, TheTables DEF TruncateVectors
  <2>2. NoVectors' /\ db'["ft_turns"] = db["ft_turns"] /\ db'["ft_sessions"] = db["ft_sessions"]
        /\ (\A t \in Children : db'[t] = db[t]) /\ db'["entry_embeddings"] = {}
    BY <2>1, TheTables DEF NoVectors, VectorTables, Children
  <2>3. Whole(db)'
    BY <2>2 DEF Whole
  <2>4. RestoreInv'
    BY <1>2, <2>1, <2>2, TheTables DEF RestoreInv
  <2> QED BY <2>1, <2>2, <2>3, <2>4
<1>6. CASE TruncateTable
  <2> DEFINE t == CoveredTables[rs.i]
  <2>1. /\ db' = [db EXCEPT ![t] = {}] /\ UNCHANGED ex /\ rs.pc = "truncate" /\ rs.i \in 1..6
        /\ IF rs.i = 1 THEN rs'.pc = "load" /\ rs'.i = 1 ELSE rs'.pc = "truncate" /\ rs'.i = rs.i - 1
    BY <1>1, <1>6 DEF TruncateTable
  <2>2. db'[t] = {} /\ \A u \in AllTables \ {t} : db'[u] = db[u]
    BY <1>1, <1>4, <2>1
  <2>3. NoVectors /\ \A j \in 1..6 : j > rs.i => Emptied(j)
    BY <2>1, TheTables DEF RestoreInv
  <2>4. NoVectors' /\ \A j \in 1..6 : j >= rs.i => Emptied(j)'
    <3>1. NoVectors'
      BY <1>4, <2>1, <2>2, <2>3, TheTables DEF NoVectors, VectorTables
    <3>2. ASSUME NEW j \in 1..6, j >= rs.i PROVE Emptied(j)'
      BY <1>3, <1>4, <2>1, <2>2, <2>3, <3>2 DEF Emptied
    <3> QED BY <3>1, <3>2
  <2>5. RestoreInv'
    <3>1. CASE rs.i = 1
      <4>1. \A j \in 1..6 : Emptied(j)' /\ ~(j < 1)
        BY <2>4, <3>1
      <4> QED BY <1>2, <2>1, <2>4, <3>1, <4>1, TheTables DEF RestoreInv
    <3>2. CASE rs.i # 1
      <4>1. \A j \in 1..6 : j > rs.i - 1 => Emptied(j)'
        BY <2>1, <2>4
      <4> QED BY <1>2, <2>1, <2>4, <3>2, <4>1, TheTables DEF RestoreInv
    <3> QED BY <3>1, <3>2
  <2>6. Whole(db)'
    <3>1. db'["entry_embeddings"] = {}
      BY <2>4 DEF NoVectors, VectorTables
    <3>2. ASSUME NEW u \in Children PROVE \A r \in db'[u] : Among(db'["ft_sessions"], r.session)
      <4>1. CASE rs.i <= 3
        <5>1. Emptied(4)' /\ Emptied(5)' /\ Emptied(6)'
          BY <2>1, <2>4, <4>1
        <5> QED BY <5>1, TheTables DEF Emptied, Children
      <4>2. CASE rs.i > 3
        <5>1. t # "ft_sessions"
          BY <1>3, <2>1, <4>2, TheTables
        <5>2. db'["ft_sessions"] = db["ft_sessions"] /\ (db'[u] = {} \/ db'[u] = db[u])
          BY <2>2, <5>1, TheTables DEF Children
        <5> QED BY <5>2 DEF Whole
      <4> QED BY <2>1, <4>1, <4>2
    <3> QED BY <3>1, <3>2 DEF Whole
  <2> QED BY <2>1, <2>2, <2>5, <2>6, TheTables
<1>7. CASE LoadTable
  <2> DEFINE t == CoveredTables[rs.i]  rows == ex.rows[t]
  <2>1. UNCHANGED ex /\ rs.pc = "load" /\ rs.i \in 1..6
    BY <1>1, <1>7 DEF LoadTable
  <2>2. NoVectors /\ \A j \in 1..6 : IF j < rs.i THEN Loaded(j) ELSE Emptied(j)
    BY <2>1, TheTables DEF RestoreInv
  <2>3. db[t] = {}
    BY <2>1, <2>2 DEF Emptied
  <2>4. CASE Overlong(t) \/ Collides(t, rows) \/ Orphaned(t, rows)
    <3>1. UNCHANGED db /\ rs'.pc = "failed"
      BY <1>1, <1>7, <2>4 DEF LoadTable, Fail
    <3> QED BY <2>1, <3>1 DEF RestoreInv, Restoring, Whole
  <2>5. CASE ~Overlong(t) /\ ~Collides(t, rows) /\ ~Orphaned(t, rows)
    <3>1. /\ db' = [db EXCEPT ![t] = rows]
          /\ IF rs.i = 6 THEN rs'.pc = "embeddings" ELSE rs'.pc = "load" /\ rs'.i = rs.i + 1
      <4>1. db[t] \cup rows = rows
        BY <2>3
      <4> HIDE DEF rows
      <4>2. db' = [db EXCEPT ![t] = db[t] \cup rows]
        BY <1>7, <2>5 DEF LoadTable, rows
      <4> QED BY <1>1, <1>7, <2>5, <4>1, <4>2, TheTables DEF LoadTable, rows
    <3>2. db'[t] = rows /\ \A u \in AllTables \ {t} : db'[u] = db[u]
      BY <1>1, <1>4, <2>1, <3>1
    <3>3. NoVectors'
      BY <1>4, <2>1, <2>2, <3>2, TheTables DEF NoVectors, VectorTables
    <3>4. ASSUME NEW j \in 1..6 PROVE IF j <= rs.i THEN Loaded(j)' ELSE Emptied(j)'
      BY <1>3, <1>4, <2>1, <2>2, <3>2 DEF Loaded, Emptied
    <3>5. RestoreInv'
      <4>1. CASE rs.i = 6
        <5>1. \A j \in 1..6 : Loaded(j)'
          BY <3>4, <4>1
        <5> QED BY <1>2, <3>1, <3>3, <4>1, <5>1, TheTables DEF RestoreInv
      <4>2. CASE rs.i # 6
        <5>1. \A j \in 1..6 : IF j < rs.i + 1 THEN Loaded(j)' ELSE Emptied(j)'
          BY <2>1, <3>4
        <5> QED BY <1>2, <3>1, <3>3, <4>2, <5>1, TheTables DEF RestoreInv
      <4> QED BY <4>1, <4>2
    <3>6. Whole(db)'
      <4>1. db'["entry_embeddings"] = {}
        BY <3>3 DEF NoVectors, VectorTables
      <4>2. ASSUME NEW u \in Children PROVE \A r \in db'[u] : Among(db'["ft_sessions"], r.session)
        <5>1. CASE t = "ft_sessions"
          <6>1. rs.i = 3
            BY <1>3, <2>1, <5>1, TheTables
          <6>2. Emptied(4) /\ Emptied(5) /\ Emptied(6)
            BY <2>2, <6>1
          <6>3. db[u] = {} /\ u # t /\ u \in AllTables
            BY <5>1, <6>2, TheTables DEF Emptied, Children
          <6> QED BY <3>2, <6>3
        <5>2. CASE t # "ft_sessions"
          <6>1. db'["ft_sessions"] = db["ft_sessions"]
            BY <3>2, <5>2, TheTables
          <6>2. CASE u = t
            BY <2>5, <3>2, <6>1, <6>2 DEF Orphaned, Has, Among
          <6>3. CASE u # t
            <7>1. db'[u] = db[u]
              BY <3>2, <6>3, TheTables DEF Children
            <7> QED BY <6>1, <7>1 DEF Whole
          <6> QED BY <6>2, <6>3
        <5> QED BY <5>1, <5>2
      <4> QED BY <4>1, <4>2 DEF Whole
    <3> QED BY <2>1, <3>2, <3>5, <3>6, TheTables
  <2> QED BY <2>4, <2>5
<1>8. CASE LoadEmbeddings
  <2>1. /\ UNCHANGED ex /\ rs.pc = "embeddings" /\ NoVectors /\ \A j \in 1..6 : Loaded(j)
    BY <1>8, TheTables DEF LoadEmbeddings, RestoreInv
  <2>2. CASE UNCHANGED db /\ rs'.pc = "failed"
    BY <2>1, <2>2 DEF RestoreInv, Restoring, Whole
  <2>3. CASE ~(UNCHANGED db /\ rs'.pc = "failed")
    <3> DEFINE items == ex.rows["entry_embeddings"]
    <3>1. /\ db' = [db EXCEPT !["entry_embeddings"] = db["entry_embeddings"] \cup items]
          /\ rs'.pc = "chunks" /\ items \subseteq db["entries"] /\ ~OtherDimension /\ UNCHANGED dim
      BY <1>1, <1>8, <2>3 DEF LoadEmbeddings, Fail
    <3>2. /\ db'["entry_embeddings"] = items /\ \A u \in AllTables \ {"entry_embeddings"} : db'[u] = db[u]
      BY <1>1, <2>1, <3>1, TheTables DEF NoVectors, VectorTables
    <3>3. \A j \in 1..6 : Loaded(j)'
      BY <1>4, <2>1, <3>2 DEF Loaded, VectorTables
    <3>4. db'["entry_chunks"] = {}
      BY <2>1, <3>2, TheTables DEF NoVectors, VectorTables
    <3>5. RestoreInv'
      <4>1. ~OtherDimension'
        BY <2>1, <3>1 DEF OtherDimension
      <4> QED BY <1>2, <2>1, <3>1, <3>2, <3>3, <3>4, <4>1, TheTables DEF RestoreInv
    <3>6. Whole(db)'
      BY <3>1, <3>2, TheTables DEF Whole, Children
    <3> QED BY <2>1, <3>2, <3>5, <3>6, TheTables
  <2> QED BY <2>2, <2>3
<1>9. CASE backfillChunks
  <2>1. /\ db' = [db EXCEPT !["entry_chunks"] = db["entry_chunks"] \cup db["entries"]] /\ rs'.pc = "done" /\ UNCHANGED ex
    BY <1>1, <1>9 DEF backfillChunks
  <2>2. \A u \in AllTables \ {"entry_chunks"} : db'[u] = db[u]
    BY <1>1, <2>1
  <2>3. Whole(db)'
    BY <2>2, TheTables DEF Whole, Children
  <2> QED BY <2>1, <2>2, <2>3, TheTables DEF RestoreInv, Restoring
<1>10. CASE StoreFails
  <2>1. UNCHANGED <<db, ex>> /\ rs'.pc = "failed"
    BY <1>1, <1>10 DEF StoreFails
  <2> QED BY <2>1 DEF RestoreInv, Restoring, Whole
<1> QED BY <1>5, <1>6, <1>7, <1>8, <1>9, <1>10 DEF ImportStep

LEMMA ImportKeepsAlone ==
  ASSUME TypeInv, AloneInv, UNCHANGED <<req, left, tr>>, Watch(Restoring' /\ Busy),
         acked' = (IF Restoring' THEN {} ELSE acked), BeginImport \/ ImportStep
  PROVE  AloneInv'
<1>0. SUFFICES ASSUME ~overlap' PROVE Whole(db)' /\ OrderInv' /\ RestoreInv'
  BY DEF AloneInv
<1>1. ~overlap /\ (Restoring' => ~Busy)
  BY <1>0 DEF Watch
<1>2. Whole(db) /\ OrderInv /\ RestoreInv
  BY <1>1 DEF AloneInv
<1>3. ASSUME UNCHANGED ex, db'["ft_turns"] \in {{}, db["ft_turns"], ex.rows["ft_turns"]},
             db'["ft_turns"] = db["ft_turns"] \/ (acked' = {} /\ \A c \in Callers : req[c].pc = "idle")
      PROVE  OrderInv'
  <2>1. InOrder(db["ft_turns"])' /\ InOrder(ex.rows["ft_turns"])'
    BY <1>2, <1>3, NoTurnsInOrder DEF OrderInv
  <2>2. Training'
    BY <1>2 DEF OrderInv, Training, ExportedInOrder
  <2>3. ASSUME NEW c \in Callers PROVE Follows(c)'
    <3>1. CASE db'["ft_turns"] = db["ft_turns"]
      BY <1>2, <3>1 DEF OrderInv, Follows, TurnId
    <3>2. CASE req[c].pc = "idle"
      <4>1. req'[c] = NoReq
        BY <3>2 DEF TypeInv, Asking
      <4> QED BY <4>1, NoReqFields DEF Follows, FollowsIn
    <3> QED BY <1>3, <3>1, <3>2
  <2>4. Acknowledged'
    BY <1>2, <1>3 DEF OrderInv, Acknowledged, TurnsOf
  <2> QED BY <2>1, <2>2, <2>3, <2>4 DEF OrderInv
<1>4. CASE BeginImport
  <2>1. UNCHANGED <<db, ex>> /\ rs'.pc \in {"idle", "vectors"}
    BY <1>4 DEF BeginImport, TypeInv, Places
  <2>2. Restoring' => acked' = {} /\ \A c \in Callers : req'[c].pc = "idle"
    BY <1>1 DEF Busy
  <2>3. RestoreInv' /\ Whole(db)'
    BY <1>2, <2>1, <2>2 DEF RestoreInv, Whole
  <2> QED BY <1>3, <2>1, <2>3
<1>5. CASE ImportStep
  <2>1. Restoring /\ ex.pc = "archive"
    BY <1>5 DEF ImportStep, TruncateVectors, TruncateTable, LoadTable, LoadEmbeddings, backfillChunks,
                StoreFails, Restoring, TypeInv, Places
  <2>2. RestoreInv' /\ Whole(db)' /\ db'["ft_turns"] \in {{}, db["ft_turns"], ex.rows["ft_turns"]} /\ UNCHANGED ex
    BY <1>1, <1>2, <1>5, <2>1, ImportRestores
  <2>3. acked' = {} /\ \A c \in Callers : req[c].pc = "idle"
    BY <1>2, <2>1 DEF RestoreInv
  <2> QED BY <1>3, <2>2, <2>3
<1> QED BY <1>4, <1>5
-----------------------------------------------------------------------------
(* The invariant. *)

LEMMA InitBackupInv == Init => BackupInv
<1> SUFFICES ASSUME Init PROVE BackupInv
  OBVIOUS
<1>1. /\ db["teams"] = {Unassigned} /\ db["entries"] = Entries /\ db["entry_embeddings"] = Entries
      /\ db["entry_chunks"] = Entries /\ db["ft_sessions"] = {} /\ (\A t \in Children : db[t] = {})
      /\ db["ft_turns"] = {} /\ db = [t \in AllTables |-> db[t]]
  BY TheTables DEF Init, NoRows, AllTables, Children
<1>2. TablesOK(db)
  BY <1>1, FS_EmptySet DEF TablesOK, VectorTables
<1>3. /\ ex = [pc |-> "idle", i |-> 0, rows |-> NoRows, quiet |-> TRUE, dim |-> EnvDim] /\ rs = Idle /\ overlap = FALSE
      /\ tr = NoExport /\ acked = {} /\ used = {} /\ left = CallsOf /\ req = [c \in Callers |-> NoReq]
  BY DEF Init
<1>4. TablesOK(ex.rows)
  BY <1>3, TheTables, FS_EmptySet DEF NoRows, TablesOK, VectorTables, AllTables
<1>5. Places
  <2>1. dim = [mem |-> EnvDim, col |-> EnvDim]
    BY DEF Init
  <2>2. /\ ex.pc = "idle" /\ ex.quiet = TRUE /\ ex.dim = EnvDim
        /\ ex = [pc |-> ex.pc, i |-> ex.i, rows |-> ex.rows, quiet |-> ex.quiet, dim |-> ex.dim]
    BY <1>3
  <2>3. rs.pc = "idle" /\ rs = [pc |-> rs.pc, i |-> rs.i, fault |-> rs.fault]
    BY <1>3 DEF Idle
  <2> QED BY <1>3, <2>1, <2>2, <2>3, DimAssumption DEF Places
<1>6. \A c \in Callers : Asking(c)
  BY <1>3, NoReqFields DEF Asking, Starting
<1>7. left = [c \in Callers |-> left[c]] /\ req = [c \in Callers |-> req[c]]
  BY <1>3, CallsAssumption
<1>8. TypeInv
  BY <1>2, <1>3, <1>4, <1>5, <1>6, <1>7 DEF TypeInv, NoExport
<1>9. OrderInv
  <2>1. ex.rows["ft_turns"] = {}
    BY <1>3, TheTables DEF NoRows, AllTables
  <2>2. Training
    BY <1>3 DEF Training, NoExport, ExportedInOrder
  <2>3. \A c \in Callers : Follows(c)
    BY <1>3, NoReqFields DEF Follows, FollowsIn
  <2> QED BY <1>1, <1>3, <2>1, <2>2, <2>3, NoTurnsInOrder DEF OrderInv, Acknowledged
<1>10. Whole(db) /\ RestoreInv
  BY <1>1, <1>3 DEF Whole, RestoreInv, Restoring, Idle
<1>11. ExportInv
  BY <1>3 DEF ExportInv
<1> QED BY <1>8, <1>9, <1>10, <1>11 DEF BackupInv, AloneInv

LEMMA NextBackupInv == BackupInv /\ [Next]_vars => BackupInv'
<1> SUFFICES ASSUME TypeInv, AloneInv, ExportInv, [Next]_vars PROVE TypeInv' /\ AloneInv' /\ ExportInv'
  BY DEF BackupInv
<1>1. CASE CallerStep
  BY <1>1, CallersKeepTypes, CallersKeepAlone
<1>2. CASE ReaderStep
  BY <1>2, ReaderKeepsTypes, ReaderKeepsAlone
<1>6. CASE Restart
  BY <1>6, RestartKeepsTypes, RestartKeepsAlone
<1>3. CASE OtherStep
  BY <1>3, OthersKeepTypes, OthersKeepAlone
<1>4. CASE BackupStep
  <2>1. /\ UNCHANGED <<req, left, used, tr>> /\ Watch(Restoring' /\ Busy)
        /\ acked' = IF Restoring' THEN {} ELSE acked
    BY <1>4 DEF BackupStep
  <2>2. CASE BeginExport \/ DumpTable \/ DumpEmbeddings \/ ExportFails
    <3>1. UNCHANGED <<db, rs>> /\ ~Restoring'
      BY <2>2 DEF BeginExport, DumpTable, DumpEmbeddings, ExportFails, TypeInv, Places, Restoring
    <3>2. UNCHANGED <<acked, overlap>>
      BY <2>1, <3>1 DEF Watch, TypeInv, Places
    <3> QED BY <2>1, <2>2, <3>1, <3>2, ExportKeepsTypes, ExportKeepsAlone
  <2>3. CASE BeginImport \/ ImportStep
    BY <2>1, <2>3, ImportKeepsTypes, ImportKeepsAlone
  <2> QED BY <1>4, <2>2, <2>3 DEF BackupStep
<1>5. CASE UNCHANGED vars
  <2>1. UNCHANGED <<db, req, acked, left, used, tr, ex, rs, overlap, changes, dim>>
    BY <1>5 DEF vars
  <2>2. TypeInv'
    BY <2>1 DEF TypeInv, Places, TablesOK, Asking, Starting
  <2>3. ExportInv'
    BY <2>1 DEF ExportInv, Loaded, Whole
  <2>4. Whole(db)' = Whole(db) /\ RestoreInv' = RestoreInv
    BY <2>1 DEF Whole, RestoreInv, Restoring, NoVectors, Emptied, Loaded, OtherDimension
  <2>5. OrderInv => OrderInv'
    <3>1. \A c \in Callers : Follows(c) => Follows(c)'
      BY <2>1 DEF Follows, TurnId
    <3>2. Training => Training'
      BY <2>1 DEF Training, ExportedInOrder
    <3>3. Acknowledged => Acknowledged'
      BY <2>1 DEF Acknowledged, TurnsOf
    <3> QED BY <2>1, <3>1, <3>2, <3>3 DEF OrderInv
  <2> QED BY <2>1, <2>2, <2>3, <2>4, <2>5 DEF AloneInv
<1> QED BY <1>1, <1>2, <1>3, <1>4, <1>5, <1>6 DEF Next

(* The tables, the requests in progress and the archive fit together at     *)
(* every moment; while no request overlaps a restore, turns are in order    *)
(* and the restore has brought back what it has come to.                    *)
THEOREM BackupInvariant == Spec => []BackupInv
<1> QED BY InitBackupInv, NextBackupInv, PTL DEF Spec

(* Sessions have one row each, and no row of a session is without it while  *)
(* no request overlaps a restore (sessions_sqlite.go, import.go).           *)
THEOREM BackupTyped == Spec => []TypeOK
<1>1. BackupInv => TypeOK
  <2> SUFFICES ASSUME BackupInv PROVE TypeOK
    OBVIOUS
  <2> DEFINE rows == db["ft_sessions"]  ids == {r.id : r \in rows}
  <2>1. TablesOK(db)
    BY DEF BackupInv, TypeInv
  <2>2. Cardinality(ids) = Cardinality(rows)
    <3> DEFINE f == [r \in rows |-> r.id]
    <3>1. f \in Surjection(rows, ids) /\ f \in Injection(rows, ids)
      BY <2>1 DEF TablesOK, Surjection, Injection, IsInjective
    <3> QED BY <2>1, <3>1, FS_Surjection DEF TablesOK
  <2>3. ~overlap => /\ \A t \in Children : \A r \in db[t] : Has(r.session)
                    /\ db["entry_embeddings"] \subseteq db["entries"]
    BY DEF BackupInv, AloneInv, Whole, Among, Has
  <2>4. dim \in [mem : Dims, col : Dims] /\ ex.dim \in Dims
    BY DEF BackupInv, TypeInv, Places
  <2> QED BY <2>1, <2>2, <2>3, <2>4 DEF TypeOK, TablesOK, SessionRows, VectorTables
<1> QED BY <1>1, BackupInvariant, PTL

(* The turns of a session are numbered without a gap in the order in which  *)
(* they were said, in the tables and in what is exported for training       *)
(* (sessions.go:63).                                                        *)
THEOREM BackupTurnsInOrder == Spec => []TurnsInOrder
<1>1. BackupInv => TurnsInOrder
  BY DEF BackupInv, AloneInv, OrderInv, Training, TurnsInOrder
<1> QED BY <1>1, BackupInvariant, PTL

(* A restore that nobody overlaps ends with exactly the tables of the       *)
(* archive and a chunk for every entry, or it fails because the store or    *)
(* the process did, the archive was taken while others wrote, a row of it   *)
(* is too long for a line, or its vectors have another dimension than the   *)
(* store or its columns (import.go:18).                                     *)
THEOREM BackupRestoreIsExact == Spec => RestoreIsExact
<1> DEFINE Ends == rs.pc # rs'.pc /\ rs'.pc \in {"done", "failed"} /\ ~overlap'
           Exact == /\ rs'.pc = "done"
                    /\ \A t \in Covered \cup {"entry_embeddings"} : db'[t] = ex.rows[t]
                    /\ db'["entry_chunks"] = db'["entries"]
                    /\ ~OtherDimension
           Long == \E t \in Covered \cup {"entry_embeddings"} : Overlong(t)
           Excused == rs'.pc = "failed" /\ (rs'.fault \/ ~ex.quiet \/ OtherDimension \/ Long)
<1>3. ASSUME BackupInv, Restart, Ends PROVE Exact \/ Excused
  BY <1>3, RestartWrites DEF BackupInv
<1>1. ASSUME BackupInv, [Next]_vars, ~Restart, Ends PROVE Exact \/ Excused
  <2>1. ImportStep /\ Watch(Restoring' /\ Busy)
    <3>1. ASSUME UNCHANGED rs PROVE FALSE
      BY <1>1, <3>1
    <3>2. \/ CallerStep \/ ReaderStep \/ OtherStep \/ BackupStep \/ UNCHANGED vars
      BY <1>1 DEF Next
    <3>3. BackupStep
      BY <3>1, <3>2 DEF CallerStep, ReaderStep, OtherStep, ChangeEntry, ReembedAll, bvars, vars
    <3>4. ~(BeginExport \/ DumpTable \/ DumpEmbeddings \/ ExportFails)
      BY <3>1 DEF BeginExport, DumpTable, DumpEmbeddings, ExportFails
    <3>5. ~BeginImport
      BY <1>1, <3>1 DEF BeginImport, BackupInv, TypeInv, Places
    <3> QED BY <3>3, <3>4, <3>5 DEF BackupStep
  <2>2. ~overlap
    BY <1>1, <2>1 DEF Watch
  <2>3. /\ Whole(db) /\ RestoreInv /\ TypeInv /\ ExportInv
        /\ rs = [pc |-> rs.pc, i |-> rs.i, fault |-> rs.fault] /\ db = [t \in AllTables |-> db[t]]
        /\ (rs.pc = "load" => rs.i \in 1..6)
    BY <1>1, <2>2, TheTables DEF BackupInv, AloneInv, TypeInv, Places, TablesOK
  <2>4. ex.pc = "archive" /\ (ex.quiet => Whole(ex.rows))
    <3>1. rs.pc # "idle"
      BY <2>1 DEF ImportStep, TruncateVectors, TruncateTable, LoadTable, LoadEmbeddings, backfillChunks,
                  StoreFails, Restoring
    <3> QED BY <2>3, <3>1 DEF TypeInv, Places, ExportInv
  <2>5. CASE TruncateVectors \/ TruncateTable
    <3>1. rs'.pc \in {"truncate", "load"}
      BY <2>3, <2>5 DEF TruncateVectors, TruncateTable
    <3> QED BY <1>1, <3>1
  <2>6. CASE StoreFails
    BY <2>3, <2>6 DEF StoreFails
  <2>7. CASE LoadTable
    <3> DEFINE t == CoveredTables[rs.i]  rows == ex.rows[t]
    <3>1. rs.i \in 1..6 /\ NoVectors /\ \A j \in 1..6 : IF j < rs.i THEN Loaded(j) ELSE Emptied(j)
      BY <2>3, <2>7, TheTables DEF LoadTable, RestoreInv
    <3>2. rs'.pc = "failed" /\ (Overlong(t) \/ Collides(t, rows) \/ Orphaned(t, rows))
      BY <1>1, <2>3, <2>7 DEF LoadTable, Fail
    <3>3. db[t] = {}
      BY <3>1 DEF Emptied
    <3>4. ~Collides(t, rows)
      BY <3>3 DEF Collides
    <3>5. Orphaned(t, rows) => ~Whole(ex.rows)
      <4> SUFFICES ASSUME Orphaned(t, rows), Whole(ex.rows) PROVE FALSE
        OBVIOUS
      <4>1. t \in Children /\ \E r \in rows : ~Has(r.session)
        BY DEF Orphaned
      <4>2. rs.i > 3
        <5>1. t # "teams" /\ t # "entries" /\ t # "ft_sessions"
          BY <4>1 DEF Children
        <5> QED BY <3>1, <5>1, TheTables
      <4>3. db["ft_sessions"] = ex.rows["ft_sessions"]
        BY <3>1, <4>2, TheTables DEF Loaded
      <4> QED BY <4>1, <4>3 DEF Whole, Among, Has
    <3>6. t \in Covered
      BY <3>1, TheTables DEF Covered
    <3> QED BY <2>4, <3>2, <3>4, <3>5, <3>6
  <2>8. CASE LoadEmbeddings
    <3>1. NoVectors /\ \A j \in 1..6 : Loaded(j)
      BY <2>3, <2>8, TheTables DEF LoadEmbeddings, RestoreInv
    <3>2. db["entries"] = ex.rows["entries"] /\ db["entry_embeddings"] = {}
      BY <3>1, TheTables DEF Loaded, NoVectors, VectorTables
    <3>3. rs'.pc = "failed" /\ (\/ ~(ex.rows["entry_embeddings"] \subseteq db["entries"])
                               \/ Overlong("entry_embeddings") \/ OtherDimension)
      BY <1>1, <2>3, <2>8, <3>2 DEF LoadEmbeddings, Fail
    <3> QED BY <2>4, <3>2, <3>3 DEF Whole
  <2>9. CASE backfillChunks
    <3>1. /\ (\A j \in 1..6 : Loaded(j)) /\ db["entry_embeddings"] = ex.rows["entry_embeddings"]
          /\ db["entry_chunks"] = {} /\ ~OtherDimension
      BY <2>3, <2>9, TheTables DEF backfillChunks, RestoreInv
    <3>2. /\ db' = [db EXCEPT !["entry_chunks"] = db["entry_chunks"] \cup db["entries"]] /\ rs'.pc = "done"
      BY <2>3, <2>9 DEF backfillChunks
    <3>3. /\ db'["entry_chunks"] = db["entries"] /\ \A u \in AllTables \ {"entry_chunks"} : db'[u] = db[u]
      BY <2>3, <3>1, <3>2, TheTables
    <3>4. \A u \in Covered : db[u] = ex.rows[u]
      BY <3>1, TheTables DEF Loaded
    <3> QED BY <3>1, <3>2, <3>3, <3>4, TheTables
  <2> QED BY <2>1, <2>5, <2>6, <2>7, <2>8, <2>9 DEF ImportStep
<1>2. BackupInv /\ [Next]_vars =>
        [rs.pc # rs'.pc /\ rs'.pc \in {"done", "failed"} /\ ~overlap' =>
           \/ /\ rs'.pc = "done"
              /\ \A t \in Covered \cup {"entry_embeddings"} : db'[t] = ex.rows[t]
              /\ db'["entry_chunks"] = db'["entries"]
              /\ ~OtherDimension
           \/ /\ rs'.pc = "failed"
              /\ rs'.fault \/ ~ex.quiet \/ OtherDimension \/ \E t \in Covered \cup {"entry_embeddings"} : Overlong(t)]_vars
  BY <1>1, <1>3
<1> QED BY <1>2, BackupInvariant, PTL DEF Spec, RestoreIsExact
=============================================================================
