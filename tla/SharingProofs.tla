---------------------------- MODULE SharingProofs ----------------------------
(***************************************************************************)
(* TLAPS proofs about Knowledge and Sharing, for any sets of entries,      *)
(* callers, teams, texts and tokens.                                       *)
(*                                                                         *)
(* Knowledge: the chunks that search reads belong to entries that exist    *)
(* and carry texts the entry had, and a curator's decision stands.         *)
(* Sharing, whose steps are those of Knowledge and its own: single use of  *)
(* share tokens, the ledger of tokens that the code implements, and        *)
(* imports that wait for a curator.                                        *)
(***************************************************************************)
EXTENDS Sharing, TLAPS

(***************************************************************************)
(* Inductive invariant of Knowledge.  IndexWasText is not inductive: the   *)
(* text of a re-embedding comes from a request, so it must be known to     *)
(* have been written to the row of that entry, and the backfill takes the  *)
(* text of the row, which must be one of the texts the row has had.        *)
(***************************************************************************)
Tables ==
  /\ row \in [Ids -> Rows \cup {Unborn, Gone}]
  /\ index \in [Ids -> Chunks \cup {None}]
  /\ was \in [Ids -> SUBSET Texts]
  /\ stops \in 0..MaxStops
  /\ \A i \in Live : row[i].text \in was[i]
  /\ \A i \in Ids : index[i] # None => i \in Live /\ index[i].text \in was[i]

\* What a handler holds is about an entry that was stored, and a re-embedding
\* carries a text that was written.
Fits(q) ==
  /\ q.op \in EntryOps => q.entry \in Ids /\ row[q.entry] # Unborn
  /\ q.op \in {"learn", "known", "write", "replace"} => q.text \in Texts
  /\ q.op \in {"judge", "write"} => q.status \in Statuses
  /\ q.op = "write" => q.team \in Teams
  /\ q.op = "replace" => q.text \in was[q.entry]

KnowledgeInv ==
  /\ Tables
  /\ req = [c \in Callers |-> req[c]]
  /\ \A c \in Callers : Fits(req[c])

\* What every step does to the stored entries: none becomes unborn again, and
\* the texts an entry has had are kept.
Grows ==
  \A i \in Ids : row[i] # Unborn => row'[i] # Unborn /\ was[i] \subseteq was'[i]

LEMMA RowsAreBorn == Unborn \notin Rows /\ Gone \notin Rows /\ Unborn # Gone
<1>1. \A r \in Rows : DOMAIN r = {"team", "text", "hash", "status"}
  BY DEF Rows
<1>2. DOMAIN Unborn = {"state"} /\ DOMAIN Gone = {"state"}
  BY DEF Unborn, Gone
<1>3. Unborn # Gone
  BY DEF Unborn, Gone
<1> QED BY <1>1, <1>2, <1>3

LEMMA InitKnowledgeInv == Init => KnowledgeInv
<1> SUFFICES ASSUME Init PROVE KnowledgeInv
  OBVIOUS
<1>1. Live = {}
  BY RowsAreBorn DEF Init, Live
<1>2. Tables
  BY <1>1, StopsAssumption DEF Init, Tables
<1>3. req = [c \in Callers |-> req[c]] /\ \A c \in Callers : Fits(req[c])
  BY DEF Init, Idle, Fits, EntryOps
<1> QED BY <1>2, <1>3 DEF KnowledgeInv

\* A request that fits goes on fitting while the entries grow.
LEMMA FitsGrows ==
  ASSUME Grows, NEW q, Fits(q)
  PROVE  Fits(q)'
BY DEF Fits, Grows, EntryOps

LEMMA IdleFits == Fits(Idle)'
BY DEF Fits, Idle, EntryOps

\* A caller puts one request in the place of another.
LEMMA KeepsFitting ==
  ASSUME KnowledgeInv, Grows, Tables', NEW c \in Callers, NEW q, Fits(q)', Keeps(c, q)
  PROVE  KnowledgeInv'
<1>1. req' = [d \in Callers |-> req'[d]]
  BY DEF KnowledgeInv, Keeps
<1>2. ASSUME NEW d \in Callers PROVE Fits(req[d])'
  <2>1. CASE d = c
    BY <2>1 DEF KnowledgeInv, Keeps
  <2>2. CASE d # c
    <3>1. req'[d] = req[d]
      BY <2>2 DEF KnowledgeInv, Keeps
    <3>2. Fits(req[d])
      BY DEF KnowledgeInv
    <3> QED BY <3>1, <3>2, FitsGrows DEF Fits, Grows, EntryOps
  <2> QED BY <2>1, <2>2
<1> QED BY <1>1, <1>2 DEF KnowledgeInv

LEMMA AnswersFitting ==
  ASSUME KnowledgeInv, Grows, Tables', NEW c \in Callers, Answers(c)
  PROVE  KnowledgeInv'
BY IdleFits, KeepsFitting DEF Answers

LEMMA SameFitting ==
  ASSUME KnowledgeInv, Grows, Tables', UNCHANGED req
  PROVE  KnowledgeInv'
<1>1. ASSUME NEW d \in Callers PROVE Fits(req[d])'
  <2>1. Fits(req[d])
    BY DEF KnowledgeInv
  <2> QED BY <2>1 DEF Fits, Grows, EntryOps
<1> QED BY <1>1 DEF KnowledgeInv

\* Reads leave the tables alone.
LEMMA ReadsKeepTables ==
  ASSUME Tables, UNCHANGED <<row, index, was, stops>>
  PROVE  Tables' /\ Grows
BY DEF Tables, Grows, Live

\* Every insert, of Knowledge and of Sharing, puts a row where none was.
LEMMA InsertTables ==
  ASSUME Tables, NEW i \in Ids, NEW r \in Rows, NEW k \in Chunks \cup {None}, Insert(i, r, k),
         k # None => k.text = r.text
  PROVE  Tables' /\ Grows /\ row'[i] = r /\ was'[i] = {r.text}
<1>1. row'[i] = r /\ index'[i] = k /\ was'[i] = {r.text} /\ r.text \in Texts
  BY DEF Tables, Insert, Rows
<1>2. \A j \in Ids \ {i} : row'[j] = row[j] /\ index'[j] = index[j] /\ was'[j] = was[j]
  BY DEF Tables, Insert
<1>3. row' \in [Ids -> Rows \cup {Unborn, Gone}] /\ index' \in [Ids -> Chunks \cup {None}]
      /\ was' \in [Ids -> SUBSET Texts] /\ stops' \in 0..MaxStops
  BY <1>1 DEF Tables, Insert
<1>4. i \in Live' /\ \A j \in Ids \ {i} : j \in Live' <=> j \in Live
  BY <1>1, <1>2 DEF Live
<1>5. Tables'
  BY <1>1, <1>2, <1>3, <1>4 DEF Tables, Live
<1>6. Grows
  BY <1>2 DEF Grows, Insert
<1> QED BY <1>1, <1>5, <1>6

LEMMA StoreEntryTables ==
  ASSUME Tables, NEW i \in Ids, NEW t \in Teams, NEW x \in Texts, NEW s \in Statuses,
         NEW v \in BOOLEAN, StoreEntryChunked(i, t, x, s, v)
  PROVE  Tables' /\ Grows /\ was'[i] = {x}
<1> DEFINE r == [team |-> t, text |-> x, hash |-> x, status |-> s]
           k == [text |-> x, vec |-> v]
<1>1. r \in Rows /\ k \in Chunks /\ k.text = r.text /\ r.text = x
  BY DEF Rows, Chunks
<1>2. Insert(i, r, k)
  BY DEF StoreEntryChunked
<1> HIDE DEF r, k
<1> QED BY <1>1, <1>2, InsertTables

-----------------------------------------------------------------------------
(* The steps of Knowledge. *)

\* The handlers that read: each keeps a request that fits what it read.
LEMMA ReadStep ==
  ASSUME KnowledgeInv, NEW c \in Callers, UNCHANGED <<row, index, was, stops>>,
         NEW q, Keeps(c, q), Fits(q)
  PROVE  KnowledgeInv'
<1>1. Tables' /\ Grows
  BY ReadsKeepTables DEF KnowledgeInv
<1>2. Fits(q)'
  BY <1>1, FitsGrows
<1> QED BY <1>1, <1>2, KeepsFitting

LEMMA AnswerStep ==
  ASSUME KnowledgeInv, NEW c \in Callers, UNCHANGED <<row, index, was, stops>>, Answers(c)
  PROVE  KnowledgeInv'
BY ReadsKeepTables, AnswersFitting DEF KnowledgeInv

LEMMA StoreStep ==
  ASSUME KnowledgeInv, NEW c \in Callers, NEW i \in Ids, NEW x \in Texts,
         Store(c, i, x) \/ BulkImport(c, i, x)
  PROVE  KnowledgeInv'
<1>1. Tables /\ Home[c] \in Teams /\ "pending" \in Statuses /\ UNCHANGED req
  BY CallersAssumption DEF KnowledgeInv, Statuses, Store, BulkImport
<1>2. CASE Store(c, i, x)
  <2>1. StoreEntryChunked(i, Home[c], x, "pending", FALSE)
    BY <1>2 DEF Store
  <2>2. Tables' /\ Grows
    BY <1>1, <2>1, StoreEntryTables
  <2> QED BY <1>1, <2>2, SameFitting
<1>3. CASE BulkImport(c, i, x)
  <2> DEFINE r == [team |-> Home[c], text |-> x, hash |-> None, status |-> "approved"]
  <2>1. r \in Rows
    BY <1>1 DEF Rows, Statuses
  <2>2. Insert(i, r, None)
    BY <1>3 DEF BulkImport
  <2> HIDE DEF r
  <2>3. Tables' /\ Grows
    BY <1>1, <2>1, <2>2, InsertTables
  <2> QED BY <1>1, <2>3, SameFitting
<1> QED BY <1>2, <1>3

LEMMA LookupHashStep ==
  ASSUME KnowledgeInv, NEW c \in Callers, NEW x \in Texts, LookupHash(c, x)
  PROVE  KnowledgeInv'
<1>1. UNCHANGED <<row, index, was, stops>>
  BY DEF LookupHash
<1>2. CASE Keeps(c, [op |-> "learn", text |-> x])
  <2> DEFINE q == [op |-> "learn", text |-> x]
  <2>1. Fits(q)
    BY DEF Fits, EntryOps
  <2> QED BY <1>1, <1>2, <2>1, ReadStep
<1>3. ASSUME NEW i \in Live, Keeps(c, [op |-> "known", entry |-> i, text |-> x])
      PROVE  KnowledgeInv'
  <2> DEFINE q == [op |-> "known", entry |-> i, text |-> x]
  <2>1. Fits(q)
    BY RowsAreBorn DEF Fits, EntryOps, Live
  <2> QED BY <1>1, <1>3, <2>1, ReadStep
<1> QED BY <1>2, <1>3 DEF LookupHash

LEMMA StoreLearntStep ==
  ASSUME KnowledgeInv, NEW c \in Callers, NEW i \in Ids, StoreLearnt(c, i)
  PROVE  KnowledgeInv'
<1>1. Tables /\ Home[c] \in Teams /\ "approved" \in Statuses
  BY CallersAssumption DEF KnowledgeInv, Statuses
<1>2. Answers(c) /\ req[c].text \in Texts
  BY DEF StoreLearnt, Holds, KnowledgeInv, Fits
<1>3. PICK vec \in Embeds : StoreEntryChunked(i, Home[c], req[c].text, "approved", vec)
  BY DEF StoreLearnt
<1>4. vec \in BOOLEAN
  BY DEF Embeds
<1>5. Tables' /\ Grows
  BY <1>1, <1>2, <1>3, <1>4, StoreEntryTables
<1> QED BY <1>2, <1>5, AnswersFitting

LEMMA ReadToEditStep ==
  ASSUME KnowledgeInv, NEW c \in Callers, NEW i \in Ids, NEW x \in Texts, ReadToEdit(c, i, x)
  PROVE  KnowledgeInv'
<1> DEFINE q == [op |-> "write", entry |-> i, text |-> x, changed |-> x # row[i].text,
                 status |-> row[i].status, team |-> row[i].team]
<1>1. UNCHANGED <<row, index, was, stops>> /\ Keeps(c, q) /\ row[i] \in Rows
  BY DEF ReadToEdit, CanAccess, Live
<1>2. Fits(q)
  BY <1>1, RowsAreBorn DEF Fits, EntryOps, Rows
<1> QED BY <1>1, <1>2, ReadStep

LEMMA ReadToDeleteStep ==
  ASSUME KnowledgeInv, NEW c \in Callers, NEW i \in Ids, ReadToDelete(c, i)
  PROVE  KnowledgeInv'
<1> DEFINE q == [op |-> "delete", entry |-> i]
<1>1. UNCHANGED <<row, index, was, stops>> /\ Keeps(c, q) /\ row[i] \in Rows
  BY DEF ReadToDelete, CanAccess, Live
<1>2. Fits(q)
  BY <1>1, RowsAreBorn DEF Fits, EntryOps
<1> QED BY <1>1, <1>2, ReadStep

LEMMA ReadToJudgeStep ==
  ASSUME KnowledgeInv, NEW c \in Callers, NEW i \in Ids, NEW v \in {"approved", "rejected"},
         ReadToJudge(c, i, v)
  PROVE  KnowledgeInv'
<1> DEFINE q == [op |-> "judge", entry |-> i, status |-> v]
<1>1. UNCHANGED <<row, index, was, stops>> /\ Keeps(c, q) /\ row[i] \in Rows
  BY DEF ReadToJudge, CanAccess, Live
<1>2. Fits(q)
  BY <1>1, RowsAreBorn DEF Fits, EntryOps, Statuses
<1> QED BY <1>1, <1>2, ReadStep

\* A step that changes columns of rows that exist, and at most adds to their
\* texts, keeps the tables.
LEMMA ColumnsKeepTables ==
  ASSUME Tables, UNCHANGED <<index, stops>>,
         row' \in [Ids -> Rows \cup {Unborn, Gone}], was' \in [Ids -> SUBSET Texts],
         \A j \in Ids : was[j] \subseteq was'[j],
         \A j \in Ids : row'[j] = row[j] \/ (j \in Live /\ row'[j] \in Rows),
         \A j \in Live : row'[j].text \in was'[j]
  PROVE  Tables' /\ Grows
<1>1. \A j \in Ids : j \in Live' <=> j \in Live
  BY DEF Live
<1>2. Tables'
  BY <1>1 DEF Tables, Live
<1>3. Grows
  BY RowsAreBorn DEF Grows
<1> QED BY <1>2, <1>3

LEMMA UpdateEntryStep ==
  ASSUME KnowledgeInv, NEW c \in Callers, UpdateEntry(c)
  PROVE  KnowledgeInv'
<1> DEFINE i == req[c].entry
           x == req[c].text
<1>1. i \in Ids /\ x \in Texts /\ row[i] # Unborn /\ Tables
  BY DEF UpdateEntry, Holds, KnowledgeInv, Fits, EntryOps
<1>2. CASE i \notin Live
  BY <1>2, AnswerStep DEF UpdateEntry
<1>3. CASE i \in Live
  <2>1. row' = [row EXCEPT ![i].text = x] /\ was' = [was EXCEPT ![i] = @ \cup {x}]
        /\ UNCHANGED <<index, stops>> /\ Continue(c)
    BY <1>3 DEF UpdateEntry
  <2>2. row'[i] = [row[i] EXCEPT !.text = x] /\ was'[i] = was[i] \cup {x}
    BY <1>1, <2>1 DEF Tables
  <2>3. \A j \in Ids \ {i} : row'[j] = row[j] /\ was'[j] = was[j]
    BY <1>1, <2>1 DEF Tables
  <2>4. row'[i] \in Rows /\ row'[i].text = x
    BY <1>1, <1>3, <2>2 DEF Live, Rows
  <2>5. row' \in [Ids -> Rows \cup {Unborn, Gone}] /\ was' \in [Ids -> SUBSET Texts]
    BY <1>1, <2>1, <2>4 DEF Tables
  <2>6. Tables' /\ Grows
    <3>1. \A j \in Ids : row'[j] = row[j] \/ (j \in Live /\ row'[j] \in Rows)
      BY <1>3, <2>3, <2>4
    <3>2. \A j \in Live : row'[j].text \in was'[j]
      BY <1>1, <2>2, <2>3, <2>4 DEF Tables, Live
    <3>3. \A j \in Ids : was[j] \subseteq was'[j]
      BY <2>2, <2>3
    <3> QED BY <1>1, <2>1, <2>5, <3>1, <3>2, <3>3, ColumnsKeepTables
  <2>7. CASE Answers(c)
    BY <2>6, <2>7, AnswersFitting
  <2>8. CASE Keeps(c, [op |-> "replace", entry |-> i, text |-> x])
    <3>1. PICK q : q = [op |-> "replace", entry |-> i, text |-> x]
      OBVIOUS
    <3>2. Fits(q)'
      BY <1>1, <2>2, <2>4, <3>1, RowsAreBorn DEF Fits, EntryOps
    <3> QED BY <2>6, <2>8, <3>1, <3>2, KeepsFitting
  <2> QED BY <2>1, <2>7, <2>8 DEF Continue
<1> QED BY <1>2, <1>3

LEMMA ReplaceEntryChunksStep ==
  ASSUME KnowledgeInv, NEW c \in Callers, ReplaceEntryChunks(c)
  PROVE  KnowledgeInv'
<1> DEFINE i == req[c].entry
           k == [text |-> req[c].text, vec |-> TRUE]
<1>1. i \in Ids /\ k \in Chunks /\ k.text \in was[i] /\ Tables
  BY DEF ReplaceEntryChunks, Holds, KnowledgeInv, Fits, EntryOps, Chunks
<1>2. UNCHANGED <<row, was, stops>> /\ Answers(c)
  BY DEF ReplaceEntryChunks
<1>3. CASE i \notin Live
  BY <1>2, <1>3, AnswerStep DEF ReplaceEntryChunks
<1>4. CASE i \in Live
  <2>1. index' = [index EXCEPT ![i] = k]
    BY <1>4 DEF ReplaceEntryChunks
  <2> HIDE DEF k
  <2>2. index' \in [Ids -> Chunks \cup {None}] /\ index'[i] = k
        /\ \A j \in Ids \ {i} : index'[j] = index[j]
    BY <1>1, <2>1 DEF Tables
  <2>3. Live' = Live
    BY <1>2 DEF Live
  <2>4. Tables'
    BY <1>1, <1>2, <1>4, <2>2, <2>3 DEF Tables
  <2>5. Grows
    BY <1>2 DEF Grows
  <2> QED BY <1>2, <2>4, <2>5, AnswersFitting
<1> QED BY <1>3, <1>4

LEMMA DeleteEntryStep ==
  ASSUME KnowledgeInv, NEW c \in Callers, DeleteEntry(c)
  PROVE  KnowledgeInv'
<1> DEFINE i == req[c].entry
<1>1. i \in Ids /\ row[i] # Unborn /\ Tables
  BY DEF DeleteEntry, Holds, KnowledgeInv, Fits, EntryOps
<1>2. row'[i] = Gone /\ index'[i] = None /\ UNCHANGED <<was, stops>> /\ Answers(c)
  BY <1>1 DEF DeleteEntry, Tables
<1>3. \A j \in Ids \ {i} : row'[j] = row[j] /\ index'[j] = index[j]
  BY <1>1 DEF DeleteEntry, Tables
<1>4. row' \in [Ids -> Rows \cup {Unborn, Gone}] /\ index' \in [Ids -> Chunks \cup {None}]
  BY <1>1 DEF DeleteEntry, Tables
<1>5. i \notin Live' /\ \A j \in Ids \ {i} : j \in Live' <=> j \in Live
  BY <1>2, <1>3, RowsAreBorn DEF Live
<1>6. Tables'
  BY <1>1, <1>2, <1>3, <1>4, <1>5 DEF Tables, Live
<1>7. Grows
  BY <1>1, <1>2, <1>3, RowsAreBorn DEF Grows
<1> QED BY <1>2, <1>6, <1>7, AnswersFitting

LEMMA SetStatusStep ==
  ASSUME KnowledgeInv, NEW c \in Callers, SetStatus(c)
  PROVE  KnowledgeInv'
<1> DEFINE i == req[c].entry
<1>1. i \in Ids /\ req[c].status \in Statuses /\ Tables
  BY DEF SetStatus, Holds, KnowledgeInv, Fits, EntryOps
<1>2. UNCHANGED <<index, was, stops>> /\ Answers(c)
  BY DEF SetStatus
<1>3. CASE i \notin Live
  BY <1>2, <1>3, AnswerStep DEF SetStatus
<1>4. CASE i \in Live
  <2>1. row' = [row EXCEPT ![i].status = req[c].status]
    BY <1>4 DEF SetStatus
  <2>2. row'[i] \in Rows /\ row'[i].text = row[i].text
        /\ \A j \in Ids \ {i} : row'[j] = row[j]
    BY <1>1, <1>4, <2>1 DEF Tables, Live, Rows
  <2>3. row' \in [Ids -> Rows \cup {Unborn, Gone}]
    BY <1>1, <2>1, <2>2 DEF Tables
  <2>4. Tables' /\ Grows
    <3>1. \A j \in Ids : row'[j] = row[j] \/ (j \in Live /\ row'[j] \in Rows)
      BY <1>4, <2>2
    <3>2. \A j \in Live : row'[j].text \in was'[j]
      BY <1>1, <1>2, <2>2 DEF Tables, Live
    <3> QED BY <1>1, <1>2, <2>3, <3>1, <3>2, ColumnsKeepTables DEF Tables
  <2> QED BY <1>2, <2>4, AnswersFitting
<1> QED BY <1>3, <1>4

LEMMA MoveEntriesStep ==
  ASSUME KnowledgeInv, NEW c \in Callers, NEW S \in SUBSET Ids, NEW t \in Teams,
         MoveEntries(c, S, t)
  PROVE  KnowledgeInv'
<1>1. UNCHANGED <<index, req, was, stops>> /\ Tables
  BY DEF MoveEntries, KnowledgeInv
<1>2. \A j \in Ids : row'[j] = IF j \in S \cap Live THEN [row[j] EXCEPT !.team = t] ELSE row[j]
  BY DEF MoveEntries
<1>3. \A j \in Live : [row[j] EXCEPT !.team = t] \in Rows
                      /\ [row[j] EXCEPT !.team = t].text = row[j].text
  BY DEF Live, Rows
<1>4. row' \in [Ids -> Rows \cup {Unborn, Gone}]
  BY <1>1, <1>2, <1>3 DEF MoveEntries, Tables
<1>5. Tables' /\ Grows
  <2>1. \A j \in Ids : row'[j] = row[j] \/ (j \in Live /\ row'[j] \in Rows)
    BY <1>2, <1>3
  <2>2. \A j \in Live : row'[j].text \in was'[j]
    BY <1>1, <1>2, <1>3 DEF Tables, Live
  <2> QED BY <1>1, <1>4, <2>1, <2>2, ColumnsKeepTables DEF Tables
<1> QED BY <1>1, <1>5, SameFitting

\* The backfill gives entries without chunks one of the text of their row.
LEMMA RestartStep ==
  ASSUME KnowledgeInv, Restart
  PROVE  KnowledgeInv'
<1>1. Tables /\ UNCHANGED <<row, was>> /\ stops' \in 0..MaxStops
  BY StopsAssumption DEF Restart, KnowledgeInv, Tables
<1>2. \A i \in Ids : index'[i] = IF i \in Live /\ index[i] = None
                                 THEN [text |-> row[i].text, vec |-> FALSE] ELSE index[i]
  BY DEF Restart
<1>3. \A i \in Live : [text |-> row[i].text, vec |-> FALSE] \in Chunks
                      /\ [text |-> row[i].text, vec |-> FALSE].text \in was[i]
  BY <1>1 DEF Live, Rows, Chunks, Tables
<1>4. index' \in [Ids -> Chunks \cup {None}]
  BY <1>1, <1>2, <1>3 DEF Restart, Tables
<1>5. \A i \in Ids : index'[i] # None => i \in Live /\ index'[i].text \in was[i]
  BY <1>1, <1>2, <1>3 DEF Tables
<1>6. Tables'
  BY <1>1, <1>4, <1>5 DEF Tables, Live
<1>7. req' = [c \in Callers |-> Idle]
  BY DEF Restart
<1> QED BY <1>6, <1>7, IdleFits DEF KnowledgeInv

LEMMA NextKnowledgeInv == KnowledgeInv /\ [Next]_vars => KnowledgeInv'
<1> SUFFICES ASSUME KnowledgeInv, [Next]_vars PROVE KnowledgeInv'
  OBVIOUS
<1>1. CASE UNCHANGED vars
  BY <1>1, ReadsKeepTables, SameFitting DEF vars, KnowledgeInv
<1>2. ASSUME NEW c \in Callers, NEW i \in Ids, NEW x \in Texts,
             Store(c, i, x) \/ BulkImport(c, i, x) \/ ReadToEdit(c, i, x)
      PROVE  KnowledgeInv'
  BY <1>2, StoreStep, ReadToEditStep
<1>3. ASSUME NEW c \in Callers, NEW x \in Texts, LookupHash(c, x) PROVE KnowledgeInv'
  BY <1>3, LookupHashStep
<1>4. ASSUME NEW c \in Callers, NEW i \in Ids, StoreLearnt(c, i) \/ ReadToDelete(c, i)
      PROVE  KnowledgeInv'
  BY <1>4, StoreLearntStep, ReadToDeleteStep
<1>5. ASSUME NEW c \in Callers, NEW i \in Ids, NEW v \in {"approved", "rejected"},
             ReadToJudge(c, i, v)
      PROVE  KnowledgeInv'
  BY <1>5, ReadToJudgeStep
<1>6. ASSUME NEW c \in Callers, NEW S \in SUBSET Ids, NEW t \in Teams, MoveEntries(c, S, t)
      PROVE  KnowledgeInv'
  BY <1>6, MoveEntriesStep
<1>7. ASSUME NEW c \in Callers, AnswerKnown(c) \/ EmbedSkipped(c) PROVE KnowledgeInv'
  BY <1>7, AnswerStep DEF AnswerKnown, EmbedSkipped
<1>8. ASSUME NEW c \in Callers, UpdateEntry(c) \/ ReplaceEntryChunks(c) PROVE KnowledgeInv'
  BY <1>8, UpdateEntryStep, ReplaceEntryChunksStep
<1>9. ASSUME NEW c \in Callers, DeleteEntry(c) \/ SetStatus(c) PROVE KnowledgeInv'
  BY <1>9, DeleteEntryStep, SetStatusStep
<1>10. CASE Restart
  BY <1>10, RestartStep
<1> QED BY <1>1, <1>2, <1>3, <1>4, <1>5, <1>6, <1>7, <1>8, <1>9, <1>10 DEF Next

\* Who changes the status of an entry that stays is a caller that judges it,
\* gives it the status of its verdict and is done.
Decided ==
  \A i \in Live : i \in Live' /\ row'[i].status # row[i].status =>
    \E c \in Callers : /\ Holds(c, "judge") /\ req[c].entry = i /\ req'[c] = Idle
                      /\ row'[i].status = req[c].status

LEMMA SameStatusDecided ==
  ASSUME \A i \in Live : i \in Live' => row'[i].status = row[i].status
  PROVE  Decided
BY DEF Decided

LEMMA InsertDecided ==
  ASSUME Tables, NEW i \in Ids, NEW r, NEW k, Insert(i, r, k)
  PROVE  Decided
<1>1. i \notin Live
  BY RowsAreBorn DEF Insert, Live
<1>2. \A j \in Live : row'[j] = row[j]
  BY <1>1 DEF Tables, Insert, Live
<1> QED BY <1>2, SameStatusDecided

LEMMA SetStatusDecided ==
  ASSUME KnowledgeInv, NEW c \in Callers, SetStatus(c)
  PROVE  Decided
<1> DEFINE i == req[c].entry
<1>1. Holds(c, "judge") /\ req'[c] = Idle
  BY DEF SetStatus, Answers, Keeps, KnowledgeInv
<1>2. \A j \in Ids \ {i} : row'[j] = row[j]
  BY DEF SetStatus, KnowledgeInv, Tables
<1>3. ASSUME NEW j \in Live, j # i PROVE row'[j].status = row[j].status
  BY <1>2, <1>3 DEF Live
<1>4. i \in Live => row'[i].status = req[c].status
  BY DEF SetStatus, KnowledgeInv, Tables, Live, Rows
<1> QED BY <1>1, <1>3, <1>4 DEF Decided

LEMMA NextDecided == KnowledgeInv /\ Next => Decided
<1> SUFFICES ASSUME KnowledgeInv, Next PROVE Decided
  OBVIOUS
<1>1. Tables
  BY DEF KnowledgeInv
<1>2. CASE UNCHANGED row
  BY <1>2, SameStatusDecided
<1>3. ASSUME NEW c \in Callers, NEW i \in Ids, NEW x \in Texts,
             Store(c, i, x) \/ BulkImport(c, i, x)
      PROVE  Decided
  BY <1>1, <1>3, InsertDecided DEF Store, BulkImport, StoreEntryChunked
<1>4. ASSUME NEW c \in Callers, NEW i \in Ids, StoreLearnt(c, i) PROVE Decided
  BY <1>1, <1>4, InsertDecided DEF StoreLearnt, StoreEntryChunked
<1>5. ASSUME NEW c \in Callers, UpdateEntry(c) PROVE Decided
  <2>1. \A j \in Live : row'[j].status = row[j].status
    BY <1>1, <1>5 DEF UpdateEntry, Tables, Live, Rows
  <2> QED BY <2>1, SameStatusDecided
<1>6. ASSUME NEW c \in Callers, DeleteEntry(c) PROVE Decided
  <2>1. ASSUME NEW j \in Live, j \in Live' PROVE row'[j] = row[j]
    BY <1>1, <1>6, <2>1, RowsAreBorn DEF DeleteEntry, Tables, Live
  <2> QED BY <2>1, SameStatusDecided
<1>7. ASSUME NEW c \in Callers, SetStatus(c) PROVE Decided
  BY <1>7, SetStatusDecided
<1>8. ASSUME NEW c \in Callers, NEW S \in SUBSET Ids, NEW t \in Teams, MoveEntries(c, S, t)
      PROVE  Decided
  <2>1. \A j \in Live : row'[j].status = row[j].status
    BY <1>8 DEF MoveEntries, Live, Rows
  <2> QED BY <2>1, SameStatusDecided
<1> QED BY <1>2, <1>3, <1>4, <1>5, <1>6, <1>7, <1>8
        DEF Next, LookupHash, ReadToEdit, ReadToDelete, ReadToJudge, AnswerKnown, EmbedSkipped,
            ReplaceEntryChunks, Restart

\* Who changes the team of an entry that stays is a superadmin's move.
ByMove ==
  \A i \in Live : i \in Live' /\ row'[i].team # row[i].team =>
    UNCHANGED req /\ \E c \in Super : Asks(c, "move")

LEMMA NextByMove == KnowledgeInv /\ Next => ByMove
<1> SUFFICES ASSUME KnowledgeInv, Next PROVE ByMove
  OBVIOUS
<1>1. Tables
  BY DEF KnowledgeInv
<1>2. CASE UNCHANGED row
  BY <1>2 DEF ByMove
<1>3. ASSUME NEW i \in Ids, NEW r, NEW k, Insert(i, r, k) PROVE ByMove
  <2>1. i \notin Live
    BY <1>3, RowsAreBorn DEF Insert, Live
  <2>2. \A j \in Live : row'[j] = row[j]
    BY <1>1, <1>3, <2>1 DEF Tables, Insert, Live
  <2> QED BY <2>2 DEF ByMove
<1>4. ASSUME NEW c \in Callers, NEW i \in Ids, NEW x \in Texts,
             Store(c, i, x) \/ BulkImport(c, i, x)
      PROVE  ByMove
  BY <1>3, <1>4 DEF Store, BulkImport, StoreEntryChunked
<1>5. ASSUME NEW c \in Callers, UpdateEntry(c) \/ SetStatus(c) PROVE ByMove
  <2>1. \A j \in Live : row'[j].team = row[j].team
    BY <1>1, <1>5 DEF UpdateEntry, SetStatus, Tables, Live, Rows
  <2> QED BY <2>1 DEF ByMove
<1>6. ASSUME NEW c \in Callers, DeleteEntry(c) PROVE ByMove
  <2>1. ASSUME NEW j \in Live, j \in Live' PROVE row'[j] = row[j]
    BY <1>1, <1>6, <2>1, RowsAreBorn DEF DeleteEntry, Tables, Live
  <2> QED BY <2>1 DEF ByMove
<1>7. ASSUME NEW c \in Callers, NEW S \in SUBSET Ids, NEW t \in Teams, MoveEntries(c, S, t)
      PROVE  ByMove
  BY <1>7 DEF MoveEntries, ByMove
<1>8. ASSUME NEW c \in Callers, NEW i \in Ids, StoreLearnt(c, i) PROVE ByMove
  BY <1>3, <1>8 DEF StoreLearnt, StoreEntryChunked
<1> QED BY <1>2, <1>4, <1>5, <1>6, <1>7, <1>8
        DEF Next, LookupHash, ReadToEdit, ReadToDelete, ReadToJudge, AnswerKnown, EmbedSkipped,
            ReplaceEntryChunks, Restart

\* Entries are only ever stored under IDs that were not used before, and no step
\* makes an ID unused again.
LEMMA NextGrows ==
  KnowledgeInv /\ Next => Grows /\ \A i \in Ids \ Live : i \in Live' => row[i] = Unborn
<1> SUFFICES ASSUME KnowledgeInv, Next
             PROVE  Grows /\ \A i \in Ids \ Live : i \in Live' => row[i] = Unborn
  OBVIOUS
<1>1. Tables
  BY DEF KnowledgeInv
<1>2. CASE UNCHANGED <<row, was>>
  BY <1>2 DEF Grows, Live
<1>3. ASSUME NEW i \in Ids, NEW r \in Rows, NEW k, Insert(i, r, k)
      PROVE  Grows /\ \A j \in Ids \ Live : j \in Live' => row[j] = Unborn
  BY <1>1, <1>3 DEF Grows, Insert, Tables, Live
<1>4. ASSUME NEW c \in Callers, NEW i \in Ids, NEW x \in Texts,
             Store(c, i, x) \/ BulkImport(c, i, x)
      PROVE  \E r \in Rows : \E k : Insert(i, r, k)
  <2> DEFINE r1 == [team |-> Home[c], text |-> x, hash |-> x, status |-> "pending"]
             r2 == [team |-> Home[c], text |-> x, hash |-> None, status |-> "approved"]
  <2>1. r1 \in Rows /\ r2 \in Rows
    BY CallersAssumption DEF Rows, Statuses
  <2>2. Store(c, i, x) => \E k : Insert(i, r1, k)
    BY DEF Store, StoreEntryChunked
  <2>3. BulkImport(c, i, x) => \E k : Insert(i, r2, k)
    BY DEF BulkImport
  <2> QED BY <1>4, <2>1, <2>2, <2>3
<1>5. ASSUME NEW c \in Callers, NEW i \in Ids, StoreLearnt(c, i)
      PROVE  \E r \in Rows : \E k : Insert(i, r, k)
  <2> DEFINE r == [team |-> Home[c], text |-> req[c].text, hash |-> req[c].text,
                   status |-> "approved"]
  <2>1. req[c].text \in Texts
    BY <1>5 DEF StoreLearnt, Holds, KnowledgeInv, Fits
  <2>2. r \in Rows
    BY <2>1, CallersAssumption DEF Rows, Statuses
  <2>3. \E k : Insert(i, r, k)
    BY <1>5 DEF StoreLearnt, StoreEntryChunked
  <2> QED BY <2>2, <2>3
<1>6. ASSUME NEW c \in Callers, UpdateEntry(c)
      PROVE  Grows /\ \A j \in Ids \ Live : j \in Live' => row[j] = Unborn
  <2> DEFINE i == req[c].entry
  <2>1. CASE i \notin Live
    BY <1>2, <1>6, <2>1 DEF UpdateEntry
  <2>2. CASE i \in Live
    <3>1. i \in Ids /\ row[i] \in Rows /\ req[c].text \in Texts
      BY <1>6, <2>2 DEF UpdateEntry, Holds, KnowledgeInv, Fits, Live
    <3>2. row'[i] \in Rows /\ was[i] \subseteq was'[i]
      BY <1>1, <1>6, <2>2, <3>1 DEF UpdateEntry, Tables, Rows
    <3>3. \A j \in Ids \ {i} : row'[j] = row[j] /\ was'[j] = was[j]
      BY <1>1, <1>6, <2>2 DEF UpdateEntry, Tables
    <3> QED BY <2>2, <3>2, <3>3, RowsAreBorn DEF Grows, Live
  <2> QED BY <2>1, <2>2
<1>7. ASSUME NEW c \in Callers, DeleteEntry(c)
      PROVE  Grows /\ \A j \in Ids \ Live : j \in Live' => row[j] = Unborn
  BY <1>1, <1>7, RowsAreBorn DEF DeleteEntry, Tables, Live, Grows
<1>8. ASSUME NEW c \in Callers, SetStatus(c)
      PROVE  Grows /\ \A j \in Ids \ Live : j \in Live' => row[j] = Unborn
  <2> DEFINE i == req[c].entry
  <2>1. i \in Live => req[c].status \in Statuses /\ row'[i] \in Rows
    BY <1>1, <1>8 DEF SetStatus, Holds, KnowledgeInv, Fits, Tables, Live, Rows
  <2>2. \A j \in Ids \ {i} : row'[j] = row[j]
    BY <1>1, <1>8 DEF SetStatus, Tables
  <2>3. i \notin Live => row' = row
    BY <1>8 DEF SetStatus
  <2>4. UNCHANGED was
    BY <1>8 DEF SetStatus
  <2> QED BY <2>1, <2>2, <2>3, <2>4, RowsAreBorn DEF Grows, Live
<1>9. ASSUME NEW c \in Callers, NEW S \in SUBSET Ids, NEW t \in Teams, MoveEntries(c, S, t)
      PROVE  Grows /\ \A j \in Ids \ Live : j \in Live' => row[j] = Unborn
  <2>1. \A j \in Live : row'[j] \in Rows
    BY <1>9 DEF MoveEntries, Live, Rows
  <2>2. (\A j \in Ids \ Live : row'[j] = row[j]) /\ UNCHANGED was
    BY <1>9 DEF MoveEntries
  <2> QED BY <2>1, <2>2, RowsAreBorn DEF Grows, Live
<1> QED BY <1>2, <1>3, <1>4, <1>5, <1>6, <1>7, <1>8, <1>9
        DEF Next, LookupHash, ReadToEdit, ReadToDelete, ReadToJudge, AnswerKnown, EmbedSkipped,
            ReplaceEntryChunks, Restart

-----------------------------------------------------------------------------
(* The theorems. *)

\* The inductive invariant holds of every behaviour of the entry handlers.
THEOREM KnowledgeInvariant == Spec => []KnowledgeInv
BY InitKnowledgeInv, NextKnowledgeInv, PTL DEF Spec

\* Requests in flight refer to entries that were stored, and the tables hold
\* what their columns may hold, whatever is deleted or restarted meanwhile.
THEOREM KnowledgeTyped == Spec => []TypeOK
<1>1. KnowledgeInv => TypeOK
  BY DEF KnowledgeInv, Tables, Fits, TypeOK
<1> QED BY <1>1, KnowledgeInvariant, PTL

\* Search knows an entry only by a text its row has had (handlers.go:710-765):
\* an edit stores the row before it embeds, and the backfill reads the row.
THEOREM KnowledgeIndex == Spec => []IndexWasText
<1>1. KnowledgeInv => IndexWasText
  BY DEF KnowledgeInv, Tables, IndexWasText
<1> QED BY <1>1, KnowledgeInvariant, PTL

\* A deleted entry leaves no chunks behind, also when an edit of it was still
\* embedding (sqlite.go:718-775, 1090-1125).
THEOREM KnowledgeNoOrphans == Spec => []NoOrphanChunks
<1>1. KnowledgeInv => NoOrphanChunks
  BY DEF KnowledgeInv, Tables, NoOrphanChunks
<1> QED BY <1>1, KnowledgeInvariant, PTL

\* No write-back takes a curator's decision, or a superadmin's move, back
\* (sqlite.go:963-976).
THEOREM KnowledgeDecisions == Spec => DecisionsStand
<1>1. KnowledgeInv /\ [Next]_vars =>
        [\A i \in Live : i \in Live' =>
           /\ row'[i].status # row[i].status =>
                \E c \in Callers : Holds(c, "judge") /\ req[c].entry = i /\ req'[c] = Idle
           /\ row'[i].team # row[i].team =>
                UNCHANGED req /\ \E c \in Super : Asks(c, "move")]_vars
  BY NextDecided, NextByMove DEF Decided, ByMove
<1> QED BY <1>1, KnowledgeInvariant, PTL DEF Spec, DecisionsStand
-----------------------------------------------------------------------------
(***************************************************************************)
(* Inductive invariant of Sharing.  OneCopyPerToken alone is not           *)
(* inductive: what keeps a second copy away is that a caller past the      *)
(* claim is the only one with its token, that the token is marked used,    *)
(* and that no copy of it exists yet.                                      *)
(***************************************************************************)
ShareTypes ==
  /\ req = [c \in Callers |-> req[c]]
  /\ share \in [Tokens -> Shares \cup {None}]
  /\ from \in [Ids -> Tokens \cup {None}]

Minting(c) == req[c].op = "mint" => req[c].entry \in Ids /\ req[c].team \in Teams

Claiming(c) == req[c].op = "claim" => req[c].token \in Minted

Copying(c) == req[c].op \in {"load", "copy"} => req[c].token \in Tokens \cup {None}

\* Caller c is past the claim of token s.
Owns(c, s) == req[c].op \in {"load", "copy"} /\ req[c].token = s

Spent(s) == share[s] # None /\ share[s].used

SharingInv ==
  /\ ShareTypes
  /\ \A c \in Callers : Minting(c) /\ Claiming(c) /\ Copying(c)
  /\ \A c \in Callers, s \in Tokens : Owns(c, s) => Spent(s) /\ \A i \in Ids : from[i] # s
  /\ \A c, d \in Callers, s \in Tokens : Owns(c, s) /\ Owns(d, s) => c = d
  /\ \A i \in Ids, s \in Tokens : from[i] = s => Spent(s)
  /\ OneCopyPerToken

ShareOps == {"mint", "claim", "load", "copy"}

\* What a step may do to the callers without touching a share: finish requests
\* and begin others, but begin none of sharing's.
Releases ==
  /\ req' = [c \in Callers |-> req'[c]]
  /\ \A d \in Callers : req'[d] = req[d] \/ req'[d].op \notin ShareOps

LEMMA InitSharingInv == ShareInit => SharingInv
BY TokensAssumption
   DEF ShareInit, Init, Idle, SharingInv, ShareTypes, Minting, Claiming, Copying, Owns,
       OneCopyPerToken

Locals == \A c \in Callers : Minting(c) /\ Claiming(c) /\ Copying(c)

\* Steps that make no copy, let nobody get past a claim, and keep spent tokens
\* spent.
LEMMA QuietStep ==
  ASSUME SharingInv, ShareTypes', Locals', UNCHANGED from,
         \A c \in Callers, s \in Tokens : Owns(c, s)' => Owns(c, s),
         \A s \in Tokens : Spent(s) => Spent(s)'
  PROVE  SharingInv'
<1>1. ASSUME NEW c \in Callers, NEW s \in Tokens, Owns(c, s)'
      PROVE  Spent(s)' /\ \A i \in Ids : from'[i] # s
  BY <1>1 DEF SharingInv
<1>2. ASSUME NEW c \in Callers, NEW d \in Callers, NEW s \in Tokens, Owns(c, s)', Owns(d, s)'
      PROVE  c = d
  BY <1>2 DEF SharingInv
<1>3. ASSUME NEW i \in Ids, NEW s \in Tokens, from'[i] = s
      PROVE  Spent(s)'
  BY <1>3 DEF SharingInv
<1>4. OneCopyPerToken'
  BY DEF SharingInv, OneCopyPerToken
<1> QED BY <1>1, <1>2, <1>3, <1>4 DEF SharingInv, Locals

\* Steps that leave the shares alone and begin nothing of sharing's.
LEMMA ReleaseStep ==
  ASSUME SharingInv, Releases, UNCHANGED shareVars
  PROVE  SharingInv'
<1>1. ShareTypes'
  BY DEF SharingInv, ShareTypes, Releases, shareVars
<1>2. Locals'
  BY DEF Locals, SharingInv, Minting, Claiming, Copying, Minted, Releases, ShareOps, shareVars
<1>3. ASSUME NEW c \in Callers, NEW s \in Tokens, Owns(c, s)' PROVE Owns(c, s)
  BY <1>3 DEF Owns, Releases, ShareOps
<1>4. UNCHANGED from /\ \A s \in Tokens : Spent(s) => Spent(s)'
  BY DEF Spent, shareVars
<1> QED BY <1>1, <1>2, <1>3, <1>4, QuietStep

LEMMA SameRequests == ShareTypes /\ UNCHANGED req => Releases
BY DEF Releases, ShareTypes

LEMMA KeepsReleases ==
  ASSUME ShareTypes, NEW c, NEW q, q.op \notin ShareOps, Keeps(c, q)
  PROVE  Releases
BY DEF Releases, ShareTypes, Keeps

LEMMA AnswersReleases ==
  ASSUME ShareTypes, NEW c, Answers(c)
  PROVE  Releases
<1>1. Idle.op \notin ShareOps
  BY DEF Idle, ShareOps
<1> QED BY <1>1, KeepsReleases DEF Answers

\* Every step of Knowledge releases: none of its handlers shares or imports.
LEMMA KnowledgeReleases ==
  ASSUME ShareTypes, Next
  PROVE  Releases
<1>1. ASSUME Restart PROVE Releases
  BY <1>1 DEF Restart, Idle, Releases, ShareTypes, ShareOps
<1>2. ASSUME NEW c \in Callers, NEW i \in Ids, NEW x \in Texts,
             Store(c, i, x) \/ BulkImport(c, i, x)
      PROVE  Releases
  BY <1>2, SameRequests DEF Store, BulkImport
<1>3. ASSUME NEW c \in Callers, NEW i \in Ids, NEW x \in Texts, ReadToEdit(c, i, x)
      PROVE  Releases
  <2> DEFINE q == [op |-> "write", entry |-> i, text |-> x, changed |-> x # row[i].text,
                   status |-> row[i].status, team |-> row[i].team]
  <2>1. q.op \notin ShareOps
    BY DEF ShareOps
  <2>2. Keeps(c, q)
    BY <1>3 DEF ReadToEdit
  <2> QED BY <2>1, <2>2, KeepsReleases
<1>4. ASSUME NEW c \in Callers, NEW x \in Texts, LookupHash(c, x)
      PROVE  Releases
  <2>1. CASE Keeps(c, [op |-> "learn", text |-> x])
    BY <2>1, KeepsReleases DEF ShareOps
  <2>2. ASSUME NEW i, Keeps(c, [op |-> "known", entry |-> i, text |-> x])
        PROVE  Releases
    BY <2>2, KeepsReleases DEF ShareOps
  <2> QED BY <1>4, <2>1, <2>2 DEF LookupHash
<1>5. ASSUME NEW c \in Callers, NEW i \in Ids, ReadToDelete(c, i)
      PROVE  Releases
  BY <1>5, KeepsReleases DEF ReadToDelete, ShareOps
<1>6. ASSUME NEW c \in Callers, NEW i \in Ids, NEW v \in {"approved", "rejected"},
             ReadToJudge(c, i, v)
      PROVE  Releases
  BY <1>6, KeepsReleases DEF ReadToJudge, ShareOps
<1>7. ASSUME NEW c \in Callers, NEW S \in SUBSET Ids, NEW t \in Teams, MoveEntries(c, S, t)
      PROVE  Releases
  BY <1>7, SameRequests DEF MoveEntries
<1>8. ASSUME NEW c \in Callers,
             \/ \E i \in Ids : StoreLearnt(c, i)
             \/ AnswerKnown(c) \/ EmbedSkipped(c) \/ ReplaceEntryChunks(c)
             \/ DeleteEntry(c) \/ SetStatus(c)
      PROVE  Releases
  BY <1>8, AnswersReleases
     DEF StoreLearnt, AnswerKnown, EmbedSkipped, ReplaceEntryChunks, DeleteEntry, SetStatus
<1>9. ASSUME NEW c \in Callers, UpdateEntry(c)
      PROVE  Releases
  <2>1. CASE Keeps(c, [op |-> "replace", entry |-> req[c].entry, text |-> req[c].text])
    BY <2>1, KeepsReleases DEF ShareOps
  <2> QED BY <1>9, <2>1, AnswersReleases DEF UpdateEntry, Continue
<1> QED BY <1>1, <1>2, <1>3, <1>4, <1>5, <1>6, <1>7, <1>8, <1>9 DEF Next

-----------------------------------------------------------------------------
(* The steps of Sharing. *)

\* A caller begins to mint or to claim: nobody becomes the owner of a token.
LEMMA BeginStep ==
  ASSUME SharingInv, NEW c \in Callers, NEW q, Keeps(c, q), UNCHANGED shareVars,
         \/ q.op = "mint" /\ q.entry \in Ids /\ q.team \in Teams
         \/ q.op = "claim" /\ q.token \in Minted
         \/ q.op = "load" /\ q.token = None
  PROVE  SharingInv'
<1>1. req' = [req EXCEPT ![c] = q] /\ req'[c] = q /\ \A d \in Callers \ {c} : req'[d] = req[d]
  BY DEF SharingInv, ShareTypes, Keeps
<1>2. ShareTypes'
  BY <1>1 DEF SharingInv, ShareTypes, shareVars
<1>3. Locals'
  BY <1>1 DEF Locals, SharingInv, Minting, Claiming, Copying, Minted, shareVars
<1>4. ASSUME NEW d \in Callers, NEW s \in Tokens, Owns(d, s)' PROVE Owns(d, s)
  BY <1>1, <1>4, TokensAssumption DEF Owns
<1>5. UNCHANGED from /\ \A s \in Tokens : Spent(s) => Spent(s)'
  BY DEF Spent, shareVars
<1> QED BY <1>2, <1>3, <1>4, <1>5, QuietStep

LEMMA CreateShareStep ==
  ASSUME SharingInv, NEW c \in Callers, NEW s \in Tokens, CreateShare(c, s)
  PROVE  SharingInv'
<1> DEFINE new == [entry |-> req[c].entry, team |-> req[c].team, used |-> FALSE]
<1>1. Releases
  BY AnswersReleases DEF CreateShare, SharingInv
<1>2. new \in Shares /\ new # None
  <2>1. req[c].entry \in Ids /\ req[c].team \in Teams
    BY DEF CreateShare, Holds, SharingInv, Minting
  <2>2. new \in Shares
    BY <2>1 DEF Shares
  <2> QED BY <2>2, TokensAssumption
<1>3. share' = [share EXCEPT ![s] = new] /\ share[s] = None /\ UNCHANGED from
  BY DEF CreateShare
<1>4. ShareTypes'
  BY <1>1, <1>2, <1>3 DEF SharingInv, ShareTypes, Releases
<1>5. \A k \in Tokens : k # s => share'[k] = share[k]
  BY <1>3 DEF SharingInv, ShareTypes
<1>6. ASSUME NEW k \in Tokens, Spent(k) PROVE Spent(k)'
  BY <1>3, <1>5, <1>6 DEF Spent
<1>7. Locals'
  BY <1>1, <1>3, <1>5 DEF Locals, SharingInv, Minting, Claiming, Copying, Minted, Releases, ShareOps
<1>8. ASSUME NEW d \in Callers, NEW k \in Tokens, Owns(d, k)' PROVE Owns(d, k)
  BY <1>1, <1>8 DEF Owns, Releases, ShareOps
<1> QED BY <1>3, <1>4, <1>6, <1>7, <1>8, QuietStep

\* The claim.  The token was open: nobody was past its claim and no copy existed.
LEMMA MarkShareUsedStep ==
  ASSUME SharingInv, NEW c \in Callers, MarkShareUsed(c)
  PROVE  SharingInv'
<1> DEFINE t == req[c].token
<1>1. CASE share[t].used
  <2>1. Answers(c) /\ UNCHANGED shareVars
    BY <1>1 DEF MarkShareUsed, shareVars
  <2> QED BY <2>1, AnswersReleases, ReleaseStep DEF SharingInv
<1>2. CASE ~share[t].used
  <2> DEFINE q == [op |-> "load", token |-> t, entry |-> req[c].entry, team |-> Home[c]]
  <2>1. share' = [share EXCEPT ![t].used = TRUE] /\ UNCHANGED from /\ Keeps(c, q)
    BY <1>2 DEF MarkShareUsed, Claimed
  <2>2. t \in Tokens /\ share[t] \in Shares
    BY DEF MarkShareUsed, Holds, SharingInv, ShareTypes, Claiming, Minted
  <2>3. req' = [req EXCEPT ![c] = q] /\ req'[c] = q /\ \A d \in Callers \ {c} : req'[d] = req[d]
    BY <2>1 DEF SharingInv, ShareTypes, Keeps
  <2>4. share'[t] = [share[t] EXCEPT !.used = TRUE] /\ share'[t] \in Shares
    BY <2>1, <2>2 DEF SharingInv, ShareTypes, Shares
  <2>5. \A s \in Tokens : s # t => share'[s] = share[s]
    BY <2>1, <2>2 DEF SharingInv, ShareTypes
  <2>6. share'[t].used /\ share'[t] # None
    BY <2>2, <2>4, TokensAssumption DEF Shares
  <2>7. \A s \in Tokens : Spent(s)' <=> Spent(s) \/ s = t
    BY <2>5, <2>6 DEF Spent
  <2>8. ShareTypes'
    BY <2>1, <2>2, <2>3, <2>4, <2>5 DEF SharingInv, ShareTypes
  <2>9. Locals'
    BY <2>2, <2>3, <2>5, <2>6
       DEF Locals, SharingInv, Minting, Claiming, Copying, Minted
  <2>10. ~Spent(t)
    BY <1>2 DEF Spent
  <2>11. (\A i \in Ids : from[i] # t) /\ \A d \in Callers : ~Owns(d, t)
    BY <2>2, <2>10, TokensAssumption DEF SharingInv
  <2>12. \A d \in Callers, s \in Tokens : Owns(d, s)' <=> Owns(d, s) \/ (d = c /\ s = t)
    BY <2>2, <2>3, <2>11 DEF Owns, MarkShareUsed, Holds
  <2>13. ASSUME NEW d \in Callers, NEW s \in Tokens, Owns(d, s)'
         PROVE  Spent(s)' /\ \A i \in Ids : from'[i] # s
    BY <2>1, <2>7, <2>11, <2>12, <2>13 DEF SharingInv
  <2>14. ASSUME NEW d \in Callers, NEW e \in Callers, NEW s \in Tokens, Owns(d, s)', Owns(e, s)'
         PROVE  d = e
    BY <2>11, <2>12, <2>14 DEF SharingInv
  <2>15. ASSUME NEW i \in Ids, NEW s \in Tokens, from'[i] = s PROVE Spent(s)'
    BY <2>1, <2>7, <2>15 DEF SharingInv
  <2>16. OneCopyPerToken'
    BY <2>1 DEF SharingInv, OneCopyPerToken
  <2> QED BY <2>8, <2>9, <2>13, <2>14, <2>15, <2>16 DEF SharingInv, Locals
<1> QED BY <1>1, <1>2

LEMMA ReadToShareStep ==
  ASSUME SharingInv, NEW c \in Callers, NEW i \in Ids, ReadToShare(c, i)
  PROVE  SharingInv'
<1> DEFINE q == [op |-> "mint", entry |-> i, team |-> row[i].team]
<1>1. row[i].team \in Teams
  BY DEF ReadToShare, CanAccess, Live, Rows
<1>2. Keeps(c, q) /\ UNCHANGED shareVars
  BY DEF ReadToShare
<1> QED BY <1>1, <1>2, BeginStep

LEMMA ReadShareStep ==
  ASSUME SharingInv, NEW c \in Callers, NEW s \in Tokens, ReadShare(c, s)
  PROVE  SharingInv'
<1> DEFINE q == [op |-> "claim", token |-> s, entry |-> share[s].entry]
<1>1. Keeps(c, q) /\ UNCHANGED shareVars /\ s \in Minted
  BY DEF ReadShare, Importable
<1> QED BY <1>1, BeginStep

LEMMA AskCopyStep ==
  ASSUME SharingInv, NEW c \in Callers, NEW i \in Ids, NEW t \in Teams, AskCopy(c, i, t)
  PROVE  SharingInv'
<1> DEFINE q == [op |-> "load", token |-> None, entry |-> i, team |-> t]
<1>1. Keeps(c, q) /\ UNCHANGED shareVars
  BY DEF AskCopy
<1> QED BY <1>1, BeginStep

\* The owner of a token stays its owner, or gives up.
LEMMA LoadSourceStep ==
  ASSUME SharingInv, NEW c \in Callers, LoadSource(c)
  PROVE  SharingInv'
<1> DEFINE q == [op |-> "copy", token |-> req[c].token, entry |-> req[c].entry,
                 team |-> req[c].team, text |-> row[req[c].entry].text]
<1>1. UNCHANGED shareVars
  BY DEF LoadSource
<1>2. CASE Answers(c)
  BY <1>1, <1>2, AnswersReleases, ReleaseStep DEF SharingInv
<1>3. CASE Keeps(c, q)
  <2>1. req' = [req EXCEPT ![c] = q] /\ req'[c] = q /\ \A d \in Callers \ {c} : req'[d] = req[d]
    BY <1>3 DEF SharingInv, ShareTypes, Keeps
  <2>2. ShareTypes'
    BY <1>1, <2>1 DEF SharingInv, ShareTypes, shareVars
  <2>3. req[c].op = "load" /\ req[c].token \in Tokens \cup {None}
    BY DEF LoadSource, Holds, SharingInv, Copying
  <2>4. Locals'
    BY <1>1, <2>1, <2>3 DEF Locals, SharingInv, Minting, Claiming, Copying, Minted, shareVars
  <2>5. ASSUME NEW d \in Callers, NEW s \in Tokens, Owns(d, s)' PROVE Owns(d, s)
    BY <2>1, <2>3, <2>5 DEF Owns
  <2>6. UNCHANGED from /\ \A s \in Tokens : Spent(s) => Spent(s)'
    BY <1>1 DEF Spent, shareVars
  <2> QED BY <2>2, <2>4, <2>5, <2>6, QuietStep
<1> QED BY <1>2, <1>3 DEF LoadSource

\* The copy.  Its maker was the only owner of the token, and is no more.
LEMMA StoreCopyStep ==
  ASSUME SharingInv, NEW c \in Callers, NEW i \in Ids, StoreCopy(c, i)
  PROVE  SharingInv'
<1> DEFINE t == req[c].token
<1>1. Releases
  BY AnswersReleases DEF StoreCopy, SharingInv
<1>2. from' = [from EXCEPT ![i] = t] /\ UNCHANGED share
  BY DEF StoreCopy
<1>3. t \in Tokens \cup {None} /\ \A s \in Tokens : t = s => Owns(c, s)
  BY DEF StoreCopy, Holds, SharingInv, Copying, Owns
<1>4. from'[i] = t /\ \A j \in Ids : j # i => from'[j] = from[j]
  BY <1>2 DEF SharingInv, ShareTypes
<1>5. ShareTypes'
  BY <1>1, <1>2, <1>3 DEF SharingInv, ShareTypes, Releases
<1>6. Locals'
  BY <1>1, <1>2 DEF Locals, SharingInv, Minting, Claiming, Copying, Minted, Releases, ShareOps
<1>7. \A s \in Tokens : Spent(s)' <=> Spent(s)
  BY <1>2 DEF Spent
<1>8. ASSUME NEW d \in Callers, NEW s \in Tokens, Owns(d, s)' PROVE Owns(d, s) /\ d # c
  <2>1. req'[c] = Idle
    BY DEF StoreCopy, Answers, Keeps, SharingInv, ShareTypes
  <2> QED BY <1>1, <1>8, <2>1 DEF Owns, Releases, ShareOps, Idle
<1>9. ASSUME NEW d \in Callers, NEW s \in Tokens, Owns(d, s)'
      PROVE  Spent(s)' /\ \A j \in Ids : from'[j] # s
  <2>1. Owns(d, s) /\ d # c
    BY <1>8, <1>9
  <2>2. t # s
    BY <1>3, <2>1 DEF SharingInv
  <2> QED BY <1>4, <1>7, <2>1, <2>2 DEF SharingInv
<1>10. ASSUME NEW d \in Callers, NEW e \in Callers, NEW s \in Tokens, Owns(d, s)', Owns(e, s)'
       PROVE  d = e
  BY <1>8, <1>10 DEF SharingInv
<1>11. ASSUME NEW j \in Ids, NEW s \in Tokens, from'[j] = s PROVE Spent(s)'
  BY <1>3, <1>4, <1>7, <1>11 DEF SharingInv
<1>12. ASSUME NEW j \in Ids, NEW k \in Ids, from'[j] # None, from'[j] = from'[k]
       PROVE  j = k
  <2>1. t \in Tokens => \A l \in Ids : from[l] # t
    BY <1>3 DEF SharingInv
  <2> QED BY <1>3, <1>4, <1>12, <2>1 DEF SharingInv, OneCopyPerToken
<1>13. OneCopyPerToken'
  BY <1>12 DEF OneCopyPerToken
<1> QED BY <1>5, <1>6, <1>9, <1>10, <1>11, <1>13 DEF SharingInv, Locals

LEMMA NextSharingInv == SharingInv /\ [ShareNext]_allVars => SharingInv'
<1> SUFFICES ASSUME SharingInv, [ShareNext]_allVars PROVE SharingInv'
  OBVIOUS
<1>1. CASE Next /\ UNCHANGED shareVars
  BY <1>1, KnowledgeReleases, ReleaseStep DEF SharingInv
<1>2. ASSUME NEW c \in Callers, NEW i \in Ids, ReadToShare(c, i) \/ StoreCopy(c, i)
      PROVE  SharingInv'
  BY <1>2, ReadToShareStep, StoreCopyStep
<1>3. ASSUME NEW c \in Callers, NEW s \in Tokens, CreateShare(c, s) \/ ReadShare(c, s)
      PROVE  SharingInv'
  BY <1>3, CreateShareStep, ReadShareStep
<1>4. ASSUME NEW c \in Callers, NEW i \in Ids, NEW t \in Teams, AskCopy(c, i, t)
      PROVE  SharingInv'
  BY <1>4, AskCopyStep
<1>5. ASSUME NEW c \in Callers, CopyFails(c)
      PROVE  SharingInv'
  <2>1. Releases /\ UNCHANGED shareVars
    BY <1>5, AnswersReleases DEF CopyFails, SharingInv
  <2> QED BY <2>1, ReleaseStep
<1>6. ASSUME NEW c \in Callers, MarkShareUsed(c) \/ LoadSource(c)
      PROVE  SharingInv'
  BY <1>6, MarkShareUsedStep, LoadSourceStep
<1>7. CASE UNCHANGED allVars
  BY <1>7, SameRequests, ReleaseStep DEF allVars, vars, SharingInv
<1> QED BY <1>1, <1>2, <1>3, <1>4, <1>5, <1>6, <1>7 DEF ShareNext

-----------------------------------------------------------------------------
(***************************************************************************)
(* Sharing and the entries together.  A request of sharing names an entry  *)
(* it found, a copy carries a text that entry had, and an ID that was never*)
(* stored under was never imported: without the last, a second copy could  *)
(* take the place of the first and the ledger would lose one.              *)
(***************************************************************************)
Carries(q) ==
  /\ q.op = "claim" => q.token \in Minted
  /\ q.op \in {"load", "copy"} => q.token \in Minted \cup {None}
  /\ q.op \in ShareOps => q.entry \in Ids
  /\ q.op \in {"mint", "load", "copy"} => q.team \in Teams
  /\ q.op = "copy" => row[q.entry] # Unborn /\ q.text \in was[q.entry]

ImportInv ==
  /\ KnowledgeInv
  /\ SharingInv
  /\ \A c \in Callers : Carries(req[c])
  /\ \A i \in Ids : row[i] = Unborn => from[i] = None

\* Tokens that were minted stay minted.
Mints == \A s \in Tokens : share[s] # None => share'[s] # None

LEMMA InitImportInv == ShareInit => ImportInv
<1> SUFFICES ASSUME ShareInit PROVE ImportInv
  OBVIOUS
<1>1. KnowledgeInv /\ SharingInv
  BY InitKnowledgeInv, InitSharingInv DEF ShareInit
<1>2. \A c \in Callers : Carries(req[c])
  BY DEF ShareInit, Init, Idle, Carries, ShareOps
<1>3. \A i \in Ids : from[i] = None
  BY DEF ShareInit
<1> QED BY <1>1, <1>2, <1>3 DEF ImportInv

LEMMA CarriesOn ==
  ASSUME Grows, Mints, NEW q, Carries(q)
  PROVE  Carries(q)'
BY DEF Carries, Grows, Mints, Minted, ShareOps

LEMMA OthersCarry ==
  ASSUME NEW q, q.op \notin ShareOps
  PROVE  Carries(q)'
BY DEF Carries, ShareOps

\* Steps of the entry handlers, which begin nothing of sharing's.
LEMMA ReleasedCarry ==
  ASSUME ImportInv, Grows, Mints, Releases
  PROVE  \A c \in Callers : Carries(req[c])'
<1> SUFFICES ASSUME NEW c \in Callers PROVE Carries(req[c])'
  OBVIOUS
<1>1. CASE req'[c] = req[c]
  <2>1. PICK q : q = req[c]
    OBVIOUS
  <2>2. Carries(q)'
    BY <2>1, CarriesOn DEF ImportInv
  <2> QED BY <1>1, <2>1, <2>2 DEF Carries
<1>2. CASE req'[c].op \notin ShareOps
  BY <1>2, OthersCarry DEF Carries, ShareOps
<1> QED BY <1>1, <1>2 DEF Releases

\* A caller puts a request of sharing in the place of another.
LEMMA KeepsCarrying ==
  ASSUME ImportInv, Grows, Mints, NEW c \in Callers, NEW q, Keeps(c, q), Carries(q)'
  PROVE  \A d \in Callers : Carries(req[d])'
<1> SUFFICES ASSUME NEW d \in Callers PROVE Carries(req[d])'
  OBVIOUS
<1>1. CASE d = c
  <2>1. req'[d] = q
    BY <1>1 DEF ImportInv, KnowledgeInv, Keeps
  <2> QED BY <2>1 DEF Carries
<1>2. CASE d # c
  <2>1. req'[d] = req[d]
    BY <1>2 DEF ImportInv, KnowledgeInv, Keeps
  <2>2. PICK p : p = req[d]
    OBVIOUS
  <2>3. Carries(p)'
    BY <2>2, CarriesOn DEF ImportInv
  <2> QED BY <2>1, <2>2, <2>3 DEF Carries
<1> QED BY <1>1, <1>2

LEMMA UnbornNotImported ==
  ASSUME ImportInv, Grows, UNCHANGED from
  PROVE  \A i \in Ids : row'[i] = Unborn => from'[i] = None
BY DEF ImportInv, Grows

\* The handlers of sharing that only read, or write only the token.
LEMMA ShareReadStep ==
  ASSUME ImportInv, SharingInv', Mints, NEW c \in Callers, NEW q, Keeps(c, q), q.op \in ShareOps,
         UNCHANGED <<row, index, was, stops, from>>, Carries(q)
  PROVE  ImportInv'
<1>1. Grows
  BY DEF Grows
<1>2. Fits(q)
  BY DEF Fits, EntryOps, ShareOps
<1>3. KnowledgeInv'
  BY <1>2, ReadStep DEF ImportInv
<1>4. Carries(q)'
  BY <1>1, CarriesOn
<1> QED BY <1>1, <1>3, <1>4, KeepsCarrying, UnbornNotImported DEF ImportInv

LEMMA ShareAnswerStep ==
  ASSUME ImportInv, SharingInv', Mints, NEW c \in Callers, Answers(c),
         UNCHANGED <<row, index, was, stops, from>>
  PROVE  ImportInv'
<1>1. Grows
  BY DEF Grows
<1>2. KnowledgeInv'
  BY AnswerStep DEF ImportInv
<1>3. Releases
  BY AnswersReleases DEF ImportInv, SharingInv
<1> QED BY <1>1, <1>2, <1>3, ReleasedCarry, UnbornNotImported DEF ImportInv

LEMMA SharesMint == UNCHANGED share => Mints
BY DEF Mints

LEMMA KnowledgeImportStep ==
  ASSUME ImportInv, SharingInv', Next, UNCHANGED shareVars
  PROVE  ImportInv'
<1>1. KnowledgeInv' /\ Grows
  BY NextKnowledgeInv, NextGrows DEF ImportInv
<1>2. Releases
  BY KnowledgeReleases DEF ImportInv, SharingInv
<1>3. Mints /\ UNCHANGED from
  BY SharesMint DEF shareVars
<1> QED BY <1>1, <1>2, <1>3, ReleasedCarry, UnbornNotImported DEF ImportInv

LEMMA CreateShareImport ==
  ASSUME ImportInv, SharingInv', NEW c \in Callers, NEW s \in Tokens, CreateShare(c, s)
  PROVE  ImportInv'
<1>1. share' = [share EXCEPT ![s] = [entry |-> req[c].entry, team |-> req[c].team, used |-> FALSE]]
      /\ share[s] = None
  BY DEF CreateShare
<1>2. Mints
  BY <1>1 DEF Mints, ImportInv, SharingInv, ShareTypes
<1> QED BY <1>2, ShareAnswerStep DEF CreateShare

LEMMA MarkShareUsedImport ==
  ASSUME ImportInv, SharingInv', NEW c \in Callers, MarkShareUsed(c)
  PROVE  ImportInv'
<1> DEFINE t == req[c].token
<1>1. UNCHANGED <<row, index, was, stops, from>>
  BY DEF MarkShareUsed
<1>2. CASE share[t].used
  <2>1. Answers(c) /\ UNCHANGED share
    BY <1>2 DEF MarkShareUsed
  <2> QED BY <1>1, <2>1, SharesMint, ShareAnswerStep
<1>3. CASE ~share[t].used
  <2> DEFINE q == [op |-> "load", token |-> t, entry |-> req[c].entry, team |-> Home[c]]
  <2>1. share' = [share EXCEPT ![t].used = TRUE] /\ Keeps(c, q)
    BY <1>3 DEF MarkShareUsed, Claimed
  <2>2. t \in Minted /\ req[c].entry \in Ids
    BY DEF MarkShareUsed, Holds, ImportInv, Carries, ShareOps
  <2>3. Carries(q) /\ q.op \in ShareOps
    BY <2>2, CallersAssumption DEF Carries, ShareOps
  <2>4. share'[t] \in Shares
    <3>1. t \in Tokens /\ share[t] \in Shares /\ share \in [Tokens -> Shares \cup {None}]
      BY <2>2 DEF ImportInv, SharingInv, ShareTypes, Minted
    <3>2. share'[t] = [share[t] EXCEPT !.used = TRUE]
      BY <2>1, <3>1
    <3> QED BY <3>1, <3>2 DEF Shares
  <2>5. Mints
    BY <2>1, <2>2, <2>4, TokensAssumption DEF Mints, ImportInv, SharingInv, ShareTypes, Minted
  <2> HIDE DEF q
  <2> QED BY <1>1, <2>1, <2>3, <2>5, ShareReadStep
<1> QED BY <1>2, <1>3

LEMMA ShareReadsImport ==
  ASSUME ImportInv, SharingInv', NEW c \in Callers,
         \/ \E i \in Ids : ReadToShare(c, i)
         \/ \E s \in Tokens : ReadShare(c, s)
         \/ \E i \in Ids, t \in Teams : AskCopy(c, i, t)
         \/ CopyFails(c)
  PROVE  ImportInv'
<1>1. UNCHANGED <<row, index, was, stops, from>> /\ Mints
  BY SharesMint DEF ReadToShare, ReadShare, AskCopy, CopyFails, shareVars
<1>2. ASSUME NEW i \in Ids, ReadToShare(c, i) PROVE ImportInv'
  <2> DEFINE q == [op |-> "mint", entry |-> i, team |-> row[i].team]
  <2>1. row[i].team \in Teams /\ Keeps(c, q)
    BY <1>2 DEF ReadToShare, CanAccess, Live, Rows
  <2>2. Carries(q) /\ q.op \in ShareOps
    BY <2>1 DEF Carries, ShareOps
  <2> HIDE DEF q
  <2> QED BY <1>1, <2>1, <2>2, ShareReadStep
<1>3. ASSUME NEW s \in Tokens, ReadShare(c, s) PROVE ImportInv'
  <2> DEFINE q == [op |-> "claim", token |-> s, entry |-> share[s].entry]
  <2>1. s \in Minted /\ Keeps(c, q) /\ share[s].entry \in Ids
    BY <1>3 DEF ReadShare, Importable, Minted, ImportInv, SharingInv, ShareTypes, Shares
  <2>2. Carries(q) /\ q.op \in ShareOps
    BY <2>1 DEF Carries, ShareOps
  <2> HIDE DEF q
  <2> QED BY <1>1, <2>1, <2>2, ShareReadStep
<1>4. ASSUME NEW i \in Ids, NEW t \in Teams, AskCopy(c, i, t) PROVE ImportInv'
  <2> DEFINE q == [op |-> "load", token |-> None, entry |-> i, team |-> t]
  <2>1. Keeps(c, q)
    BY <1>4 DEF AskCopy
  <2>2. Carries(q) /\ q.op \in ShareOps
    BY DEF Carries, ShareOps
  <2> HIDE DEF q
  <2> QED BY <1>1, <2>1, <2>2, ShareReadStep
<1>5. CASE CopyFails(c)
  BY <1>1, <1>5, ShareAnswerStep DEF CopyFails
<1> QED BY <1>2, <1>3, <1>4, <1>5

LEMMA LoadSourceImport ==
  ASSUME ImportInv, SharingInv', NEW c \in Callers, LoadSource(c)
  PROVE  ImportInv'
<1> DEFINE i == req[c].entry
           q == [op |-> "copy", token |-> req[c].token, entry |-> i, team |-> req[c].team,
                 text |-> row[i].text]
<1>1. UNCHANGED <<row, index, was, stops, from>> /\ Mints
  BY SharesMint DEF LoadSource, shareVars
<1>2. CASE i \notin Live
  BY <1>1, <1>2, ShareAnswerStep DEF LoadSource
<1>3. CASE i \in Live
  <2>1. Keeps(c, q)
    BY <1>3 DEF LoadSource
  <2>2. req[c].token \in Minted \cup {None} /\ i \in Ids /\ req[c].team \in Teams
    BY DEF LoadSource, Holds, ImportInv, Carries, ShareOps
  <2>3. row[i] # Unborn /\ row[i].text \in was[i]
    BY <1>3, RowsAreBorn DEF ImportInv, KnowledgeInv, Tables, Live
  <2>4. Carries(q) /\ q.op \in ShareOps
    BY <2>2, <2>3 DEF Carries, ShareOps
  <2> HIDE DEF q
  <2> QED BY <1>1, <2>1, <2>4, ShareReadStep
<1> QED BY <1>2, <1>3

LEMMA StoreCopyImport ==
  ASSUME ImportInv, SharingInv', NEW c \in Callers, NEW i \in Ids, StoreCopy(c, i)
  PROVE  ImportInv'
<1> DEFINE x == req[c].text
           t == req[c].team
<1>1. req[c].op = "copy" /\ Tables
  BY DEF StoreCopy, Holds, ImportInv, KnowledgeInv
<1>2. t \in Teams /\ x \in Texts /\ "pending" \in Statuses
  <2>1. Carries(req[c])
    BY DEF ImportInv
  <2> QED BY <1>1, <2>1 DEF Carries, ShareOps, Tables, Statuses
<1>3. StoreEntryChunked(i, t, x, "pending", TRUE) /\ Answers(c) /\ UNCHANGED share
  BY DEF StoreCopy
<1>4. Tables' /\ Grows
  BY <1>1, <1>2, <1>3, StoreEntryTables
<1>5. KnowledgeInv'
  BY <1>3, <1>4, AnswersFitting DEF ImportInv
<1>6. Releases
  BY <1>3, AnswersReleases DEF ImportInv, SharingInv
<1>7. \A j \in Ids : row'[j] = Unborn => from'[j] = None
  <2>1. row'[i] # Unborn
    <3>1. row'[i] = [team |-> t, text |-> x, hash |-> x, status |-> "pending"]
      BY <1>1, <1>3 DEF StoreEntryChunked, Insert, Tables
    <3>2. row'[i] \in Rows
      BY <1>2, <3>1 DEF Rows
    <3> QED BY <3>2, RowsAreBorn
  <2>2. \A j \in Ids \ {i} : from'[j] = from[j]
    BY DEF StoreCopy, ImportInv, SharingInv, ShareTypes
  <2> QED BY <1>4, <2>1, <2>2 DEF ImportInv, Grows
<1> QED BY <1>3, <1>4, <1>5, <1>6, <1>7, SharesMint, ReleasedCarry DEF ImportInv

LEMMA NextImportInv == ImportInv /\ [ShareNext]_allVars => ImportInv'
<1> SUFFICES ASSUME ImportInv, [ShareNext]_allVars PROVE ImportInv'
  OBVIOUS
<1>1. SharingInv'
  BY NextSharingInv DEF ImportInv
<1>2. CASE UNCHANGED allVars
  <2>1. Grows /\ Mints /\ Releases /\ UNCHANGED from
    BY <1>2, SharesMint, SameRequests DEF allVars, vars, shareVars, Grows, ImportInv, SharingInv
  <2>2. KnowledgeInv'
    BY <1>2, NextKnowledgeInv DEF allVars, ImportInv
  <2> QED BY <1>1, <2>1, <2>2, ReleasedCarry, UnbornNotImported DEF ImportInv
<1>3. CASE Next /\ UNCHANGED shareVars
  BY <1>1, <1>3, KnowledgeImportStep
<1>4. ASSUME NEW c \in Callers,
             \/ \E i \in Ids : ReadToShare(c, i)
             \/ \E s \in Tokens : ReadShare(c, s)
             \/ \E i \in Ids, t \in Teams : AskCopy(c, i, t)
             \/ CopyFails(c)
      PROVE  ImportInv'
  BY <1>1, <1>4, ShareReadsImport
<1>5. ASSUME NEW c \in Callers, NEW s \in Tokens, CreateShare(c, s) PROVE ImportInv'
  BY <1>1, <1>5, CreateShareImport
<1>6. ASSUME NEW c \in Callers, MarkShareUsed(c) \/ LoadSource(c) PROVE ImportInv'
  BY <1>1, <1>6, MarkShareUsedImport, LoadSourceImport
<1>7. ASSUME NEW c \in Callers, NEW i \in Ids, StoreCopy(c, i) PROVE ImportInv'
  BY <1>1, <1>7, StoreCopyImport
<1> QED BY <1>2, <1>3, <1>4, <1>5, <1>6, <1>7 DEF ShareNext

-----------------------------------------------------------------------------
(* The sharing code implements the ledger of single-use tokens. *)

\* The ledger's view of a token, as Sharing maps it.
StateOf(s) == IF share[s] = None THEN "none" ELSE IF share[s].used THEN "spent" ELSE "open"
CopiesOf(s) == {i \in Ids : from[i] = s}

LEMMA LedgerInitMapped == ShareInit => Ledger!LedgerInit
BY TokensAssumption DEF ShareInit, Ledger!LedgerInit

LEMMA LedgerStutters ==
  ASSUME UNCHANGED shareVars
  PROVE  UNCHANGED Ledger!ledger
BY DEF shareVars, Ledger!ledger

LEMMA MintMapped ==
  ASSUME ImportInv, NEW c \in Callers, NEW s \in Tokens, CreateShare(c, s)
  PROVE  Ledger!Mint(s)
<1> DEFINE new == [entry |-> req[c].entry, team |-> req[c].team, used |-> FALSE]
<1>1. share \in [Tokens -> Shares \cup {None}] /\ share[s] = None /\ UNCHANGED from
      /\ share' = [share EXCEPT ![s] = new]
  BY DEF CreateShare, ImportInv, SharingInv, ShareTypes
<1>2. new \in Shares
  BY DEF CreateShare, Holds, ImportInv, SharingInv, Minting, Shares
<1>3. new # None /\ new.used = FALSE
  BY <1>2, TokensAssumption
<1> HIDE DEF new
<1>4. StateOf(s) = "none" /\ StateOf(s)' = "open"
  BY <1>1, <1>3 DEF StateOf
<1>5. \A k \in Tokens \ {s} : StateOf(k)' = StateOf(k)
  BY <1>1 DEF StateOf
<1>6. [k \in Tokens |-> StateOf(k)'] = [[k \in Tokens |-> StateOf(k)] EXCEPT ![s] = "open"]
  BY <1>4, <1>5
<1> QED BY <1>1, <1>4, <1>6 DEF Ledger!Mint, StateOf

LEMMA SpendMapped ==
  ASSUME ImportInv, NEW c \in Callers, MarkShareUsed(c)
  PROVE  \/ UNCHANGED Ledger!ledger
         \/ \E s \in Tokens : Ledger!Spend(s)
<1>0. PICK t : t = req[c].token
  OBVIOUS
<1>1. CASE share[t].used
  BY <1>0, <1>1, LedgerStutters DEF MarkShareUsed, shareVars
<1>2. CASE ~share[t].used
  <2>1. share' = [share EXCEPT ![t].used = TRUE] /\ UNCHANGED from
    BY <1>0, <1>2 DEF MarkShareUsed
  <2>2. t \in Tokens /\ share[t] \in Shares /\ share \in [Tokens -> Shares \cup {None}]
    BY <1>0 DEF MarkShareUsed, Holds, ImportInv, SharingInv, ShareTypes, Claiming, Minted
  <2>3. share'[t] = [share[t] EXCEPT !.used = TRUE]
    BY <2>1, <2>2
  <2>4. share'[t] \in Shares /\ share'[t].used
    BY <2>2, <2>3 DEF Shares
  <2>5. StateOf(t) = "open" /\ StateOf(t)' = "spent"
    BY <1>2, <2>2, <2>4, TokensAssumption DEF StateOf
  <2>6. \A k \in Tokens \ {t} : StateOf(k)' = StateOf(k)
    BY <2>1, <2>2 DEF StateOf
  <2>7. [k \in Tokens |-> StateOf(k)'] = [[k \in Tokens |-> StateOf(k)] EXCEPT ![t] = "spent"]
    BY <2>5, <2>6
  <2>8. Ledger!Spend(t)
    BY <2>1, <2>2, <2>5, <2>7 DEF Ledger!Spend, StateOf
  <2> QED BY <2>2, <2>8
<1> QED BY <1>1, <1>2

\* A copy without a token changes no token's copies; one with a token is the
\* first and only copy of a token that was spent.
LEMMA DeliverMapped ==
  ASSUME ImportInv, NEW c \in Callers, NEW i \in Ids, StoreCopy(c, i)
  PROVE  \/ UNCHANGED Ledger!ledger
         \/ \E s \in Tokens : Ledger!Deliver(s, i)
<1>0. PICK t : t = req[c].token
  OBVIOUS
<1>1. UNCHANGED share /\ from' = [from EXCEPT ![i] = t] /\ from \in [Ids -> Tokens \cup {None}]
  BY <1>0 DEF StoreCopy, ImportInv, SharingInv, ShareTypes
<1>2. from[i] = None
  BY DEF StoreCopy, StoreEntryChunked, Insert, ImportInv
<1>3. t \in Tokens \cup {None} /\ \A s \in Tokens : t = s => Owns(c, s)
  BY <1>0 DEF StoreCopy, Holds, ImportInv, SharingInv, Copying, Owns
<1>4. from'[i] = t /\ \A j \in Ids \ {i} : from'[j] = from[j]
  BY <1>1
<1>5. CASE t = None
  <2>1. from' = from
    BY <1>1, <1>2, <1>4, <1>5
  <2> QED BY <1>1, <2>1, LedgerStutters DEF shareVars
<1>6. CASE t \in Tokens
  <2>1. Spent(t) /\ \A j \in Ids : from[j] # t
    BY <1>3, <1>6 DEF ImportInv, SharingInv
  <2>2. StateOf(t) = "spent" /\ CopiesOf(t) = {} /\ CopiesOf(t)' = {i}
    BY <1>4, <2>1 DEF StateOf, Spent, CopiesOf
  <2>3. \A k \in Tokens \ {t} : CopiesOf(k)' = CopiesOf(k)
    BY <1>2, <1>4, TokensAssumption DEF CopiesOf
  <2>4. [k \in Tokens |-> CopiesOf(k)'] = [[k \in Tokens |-> CopiesOf(k)] EXCEPT ![t] = {i}]
    BY <1>6, <2>2, <2>3
  <2>5. Ledger!Deliver(t, i)
    BY <1>1, <1>6, <2>2, <2>4 DEF Ledger!Deliver, StateOf, CopiesOf
  <2> QED BY <1>6, <2>5
<1> QED BY <1>3, <1>5, <1>6

LEMMA StepMapped == ImportInv /\ [ShareNext]_allVars => [Ledger!LedgerNext]_Ledger!ledger
<1> SUFFICES ASSUME ImportInv, [ShareNext]_allVars PROVE [Ledger!LedgerNext]_Ledger!ledger
  OBVIOUS
<1>1. CASE UNCHANGED shareVars
  BY <1>1, LedgerStutters
<1>2. ASSUME NEW c \in Callers, NEW s \in Tokens, CreateShare(c, s)
      PROVE  Ledger!LedgerNext
  BY <1>2, MintMapped DEF Ledger!LedgerNext
<1>3. ASSUME NEW c \in Callers, MarkShareUsed(c)
      PROVE  [Ledger!LedgerNext]_Ledger!ledger
  BY <1>3, SpendMapped DEF Ledger!LedgerNext
<1>4. ASSUME NEW c \in Callers, NEW i \in Ids, StoreCopy(c, i)
      PROVE  [Ledger!LedgerNext]_Ledger!ledger
  BY <1>4, DeliverMapped DEF Ledger!LedgerNext
<1> QED BY <1>1, <1>2, <1>3, <1>4
        DEF ShareNext, ReadToShare, ReadShare, AskCopy, LoadSource, CopyFails, allVars

-----------------------------------------------------------------------------
(* Imports wait for a curator. *)

\* Who approves an imported entry judged it after the import.
Awaited ==
  \A i \in Ids : from'[i] # None /\ i \in Live' /\ row'[i].status = "approved" =>
    \/ i \in Live /\ row[i].status = "approved"
    \/ \E c \in Callers : Holds(c, "judge") /\ req[c].entry = i /\ req[c].status = "approved"

LEMMA SameRowsAwaited ==
  ASSUME UNCHANGED row
  PROVE  Awaited
BY DEF Awaited, Live

LEMMA KnowledgeAwaited ==
  ASSUME ImportInv, Next, UNCHANGED shareVars
  PROVE  Awaited
<1> SUFFICES ASSUME NEW i \in Ids, from'[i] # None, i \in Live', row'[i].status = "approved"
             PROVE  \/ i \in Live /\ row[i].status = "approved"
                    \/ \E c \in Callers : /\ Holds(c, "judge") /\ req[c].entry = i
                                          /\ req[c].status = "approved"
  BY DEF Awaited
<1>1. row[i] # Unborn
  BY DEF ImportInv, shareVars
<1>2. i \in Live
  BY <1>1, NextGrows DEF ImportInv
<1> QED BY <1>2, NextDecided DEF ImportInv, Decided

LEMMA StoreCopyAwaited ==
  ASSUME ImportInv, NEW c \in Callers, NEW i \in Ids, StoreCopy(c, i)
  PROVE  Awaited
<1>1. row'[i].status = "pending"
  BY DEF StoreCopy, StoreEntryChunked, Insert, ImportInv, KnowledgeInv, Tables
<1>2. \A j \in Ids \ {i} : row'[j] = row[j]
  BY DEF StoreCopy, StoreEntryChunked, Insert, ImportInv, KnowledgeInv, Tables
<1> QED BY <1>1, <1>2 DEF Awaited, Live

LEMMA NextAwaited == ImportInv /\ ShareNext => Awaited
<1> SUFFICES ASSUME ImportInv, ShareNext PROVE Awaited
  OBVIOUS
<1>1. CASE UNCHANGED row
  BY <1>1, SameRowsAwaited
<1>2. CASE Next /\ UNCHANGED shareVars
  BY <1>2, KnowledgeAwaited
<1>3. ASSUME NEW c \in Callers, NEW i \in Ids, StoreCopy(c, i) PROVE Awaited
  BY <1>3, StoreCopyAwaited
<1> QED BY <1>1, <1>2, <1>3
        DEF ShareNext, ReadToShare, CreateShare, ReadShare, AskCopy, MarkShareUsed, LoadSource,
            CopyFails

-----------------------------------------------------------------------------
(* The theorems. *)

\* The inductive invariant holds of every behaviour of the sharing code.
THEOREM SharingInvariant == ShareSpec => []SharingInv
BY InitSharingInv, NextSharingInv, PTL DEF ShareSpec

\* A share token makes at most one copy (sharing.go:49-71, sqlite_shares.go:78-99),
\* for any number of callers, tokens, entries and teams, whatever fails or stops.
THEOREM ShareOneCopy == ShareSpec => []OneCopyPerToken
<1>1. SharingInv => OneCopyPerToken
  BY DEF SharingInv
<1> QED BY <1>1, SharingInvariant, PTL

\* The inductive invariant of sharing together with the entries it shares.
THEOREM ImportInvariant == ShareSpec => []ImportInv
BY InitImportInv, NextImportInv, PTL DEF ShareSpec

\* The token and entry tables and every request of sharing hold what they may:
\* a copy in flight carries a text its source entry had.
THEOREM SharingTyped == ShareSpec => []ShareTypeOK
<1>1. ImportInv => TypeOK
  BY DEF ImportInv, KnowledgeInv, Tables, Fits, TypeOK
<1>2. ImportInv => ShareTypeOK
  BY <1>1 DEF ImportInv, SharingInv, ShareTypes, Carries, ShareOps, ShareTypeOK
<1> QED BY <1>2, ImportInvariant, PTL

\* Minting, claiming and copying implement the ledger of storage.go:153-156: a
\* token is minted once, spent once, and brings forth at most one copy, after
\* it was spent.
THEOREM SharingImplementsLedger == ShareSpec => ImplementsLedger
BY LedgerInitMapped, StepMapped, ImportInvariant, PTL
   DEF ShareSpec, ImplementsLedger, Ledger!LedgerSpec

\* An imported entry stays pending until a curator judges it
\* (share_tools.go:101), whatever edits and moves come first.
THEOREM SharingAwaitsApproval == ShareSpec => ImportsAwaitApproval
<1>1. ImportInv /\ [ShareNext]_allVars =>
        [\A i \in Ids : from'[i] # None /\ i \in Live' /\ row'[i].status = "approved" =>
           \/ i \in Live /\ row[i].status = "approved"
           \/ \E c \in Callers : Holds(c, "judge") /\ req[c].entry = i /\ req[c].status = "approved"]_allVars
  BY NextAwaited DEF Awaited
<1> QED BY <1>1, ImportInvariant, PTL DEF ShareSpec, ImportsAwaitApproval
=============================================================================
