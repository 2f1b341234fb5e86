------------------------------ MODULE Embedding ------------------------------
(***************************************************************************)
(* The embedding configuration and the re-embed run: handlePut- and        *)
(* handleReembedAll of internal/web/embedding_handlers.go, the team's      *)
(* chunking settings (settings.go, ai_settings.go, internal/aiconfig), and *)
(* the vector columns of internal/storage/sqlite.go, whose dimension the   *)
(* process also keeps in memory (embeddingDim).                            *)
(*                                                                         *)
(* Embedding calls take long, so whatever is read before them is held      *)
(* while other requests run: the configuration by the run, the pages of    *)
(* entries it goes through, the vectors by callers who store and edit.     *)
(* Every action is one statement, one transaction or one read; a caller's   *)
(* reads of the configuration go with the step before its embedding calls. *)
(*                                                                         *)
(* A choice of provider and model is what it knows of its dimension (0:    *)
(* nothing, ModelDimension) and what its vectors have (0: no embedder).    *)
(* API keys, addresses and the other settings are carried along unseen.    *)
(***************************************************************************)
EXTENDS Chunking

CONSTANTS EntryIds, Texts,
          Providers,    \* [openai : BOOLEAN, known : Nat, gives : Nat]
          EnvDim,       \* EMBEDDING_DIM
          EnvChunking,  \* the chunking defaults of the environment
          Chunkings,    \* what a team's settings may say: [max, overlap, chunks : Nat], 0 unset
          PageSize,     \* reembedPageSize
          MaxChanges,   \* bound: the requests of administrators and callers
          None

Configurations == [max : Nat, overlap : Nat, chunks : Nat]
ASSUME EmbeddingAssumption ==
  /\ PageSize \in Nat \ {0} /\ EnvDim \in Nat \ {0} /\ MaxChanges \in Nat
  /\ Providers \subseteq [openai : BOOLEAN, known : Nat, gives : Nat]
  /\ Chunkings \cup {EnvChunking} \subseteq Configurations
  /\ None \notin EntryIds \cup Texts \cup Providers
  /\ IsFiniteSet(EntryIds)

Unsplit == [max |-> 0, overlap |-> 0, chunks |-> 0]

\* resolveInt: a team's value when it is set, else the environment's.
Resolved(s) == [f \in {"max", "overlap", "chunks"} |-> IF s[f] > 0 THEN s[f] ELSE EnvChunking[f]]
Used == {Unsplit} \cup {Resolved(s) : s \in Chunkings \cup {Unsplit}}

\* The chunker keeps its promise on these texts, and the dimensions that
\* ModelDimension knows are those of the models' vectors.
ASSUME ChunkerAssumption == \A text \in Texts, cfg \in Used : Tiles(Chunk(text, cfg), text, cfg)
ASSUME KnownAssumption == \A c \in Providers : c.known > 0 /\ c.gives > 0 => c.known = c.gives

VARIABLES
  config,   \* the embedding_config row: the choice and the dimension
  saved,    \* the chunking part of the team_settings row
  dimMem,   \* SQLiteStore.embeddingDim
  dimCol,   \* the dimension of the vector columns
  listing,  \* the entries, newest first
  rows,     \* per entry: its text, its chunks and its vectors
  had,      \* history, per entry: the texts it has had
  job,      \* the re-embed run
  admin,    \* the settings request in progress
  caller,   \* the store or edit in progress
  changes   \* requests made so far

vars == <<config, saved, dimMem, dimCol, listing, rows, had, job, admin, caller, changes>>
tableVars == <<config, saved, dimMem, dimCol, listing, rows, had>>

Stored == Range(listing)

NoVector == [by |-> None, dim |-> 0]
\* An entry's chunks with the configuration they were cut by, and its vectors.
Indexed(text, cfg, vector) == [chunks |-> Chunk(text, cfg), cut |-> cfg, vector |-> vector]
\* An entry with its text and its chunks.
Row(text, index) == [text |-> text, chunks |-> index.chunks, cut |-> index.cut, vector |-> index.vector]
NoRow == [text |-> None, chunks |-> <<>>, cut |-> Unsplit, vector |-> NoVector]

NoJob == [pc |-> "idle", read |-> None, by |-> None, dim |-> 0, offset |-> 0, page |-> <<>>,
          full |-> FALSE, index |-> None, skipped |-> {}, start |-> {}, quiet |-> TRUE]
NoAdmin == [pc |-> "idle", choice |-> None, read |-> None]
NoCaller == [pc |-> "idle", id |-> None, text |-> None, index |-> None]

Init ==
  /\ \E c \in Providers : config = [choice |-> c, dim |-> EnvDim]
  /\ saved = Unsplit /\ dimMem = EnvDim /\ dimCol = EnvDim
  /\ listing = <<>> /\ rows = [id \in EntryIds |-> NoRow] /\ had = [id \in EntryIds |-> {}]
  /\ job = NoJob /\ admin = NoAdmin /\ caller = NoCaller /\ changes = 0

ChunkConfig == Resolved(saved)

\* The checks a vector passes on its way in: the store's, and the column's own.
Accepted(vector) == vector.by = None \/ (vector.dim = dimMem /\ vector.dim = dimCol)

Vector(choice) == IF choice.gives = 0 THEN NoVector ELSE [by |-> choice, dim |-> choice.gives]

Request == changes < MaxChanges /\ changes' = changes + 1
Disturb == job' = IF job.pc = "idle" THEN job ELSE [job EXCEPT !.quiet = FALSE]
-----------------------------------------------------------------------------
(* Settings. *)

\* handlePutEmbeddingConfig reads the row first, for the key and the dimension.
ReadConfig ==
  /\ admin.pc = "idle" /\ Request
  /\ \E c \in Providers : admin' = [pc |-> "config", choice |-> c, read |-> config]
  /\ UNCHANGED <<tableVars, job, caller>>

WriteConfig ==
  /\ admin.pc = "config"
  /\ config' = [choice |-> admin.choice, dim |-> admin.read.dim]
  /\ admin' = NoAdmin /\ Disturb
  /\ UNCHANGED <<saved, dimMem, dimCol, listing, rows, had, caller, changes>>

\* handlePutSettings writes the body's numbers.
PutSettings ==
  /\ admin.pc = "idle" /\ Request
  /\ \E s \in Chunkings : saved' = s
  /\ UNCHANGED <<config, dimMem, dimCol, listing, rows, had, job, admin, caller>>

\* handleImportEnv writes back the whole row it read.
ReadSettings ==
  /\ admin.pc = "idle" /\ Request
  /\ admin' = [pc |-> "settings", choice |-> None, read |-> saved]
  /\ UNCHANGED <<tableVars, job, caller>>

ImportEnv ==
  /\ admin.pc = "settings"
  /\ saved' = admin.read /\ admin' = NoAdmin
  /\ UNCHANGED <<config, dimMem, dimCol, listing, rows, had, job, caller, changes>>
-----------------------------------------------------------------------------
(* Callers who store, edit and delete. *)

\* The text is cut and embedded by the configuration of the moment (the MCP
\* tool; without vectors when a call fails), or kept whole (the web form).
BeginStore ==
  /\ caller.pc = "idle" /\ Request
  /\ \E id \in {x \in EntryIds : had[x] = {}}, text \in Texts :
     \E index \in {Indexed(text, ChunkConfig, Vector(config.choice)),
                  Indexed(text, ChunkConfig, NoVector), Indexed(text, Unsplit, NoVector)} :
       caller' = [pc |-> "store", id |-> id, text |-> text, index |-> index]
  /\ UNCHANGED <<tableVars, job, admin>>

\* StoreEntryChunked
StoreEntryChunked ==
  /\ caller.pc = "store" /\ caller' = NoCaller
  /\ IF Accepted(caller.index.vector)
     THEN /\ listing' = <<caller.id>> \o listing
          /\ rows' = [rows EXCEPT ![caller.id] = Row(caller.text, caller.index)]
          /\ had' = [had EXCEPT ![caller.id] = {caller.text}]
     ELSE UNCHANGED <<listing, rows, had>>
  /\ UNCHANGED <<config, saved, dimMem, dimCol, job, admin, changes>>

\* An edit writes the text, and embeds it afterwards if it can.
UpdateEntry ==
  /\ caller.pc = "idle" /\ Request
  /\ \E id \in Stored, text \in Texts :
       /\ rows' = [rows EXCEPT ![id].text = text]
       /\ had' = [had EXCEPT ![id] = @ \cup {text}]
       /\ \/ caller' = NoCaller
          \/ /\ config.choice.gives > 0
             /\ caller' = [pc |-> "replace", id |-> id, text |-> text,
                          index |-> Indexed(text, ChunkConfig, Vector(config.choice))]
  /\ Disturb
  /\ UNCHANGED <<config, saved, dimMem, dimCol, listing, admin>>

\* ReplaceEntryChunks, or an error that changes nothing.
Replaces(id, index) == id \in Stored /\ Accepted(index.vector)
\* Mutant: the chunks are inserted after those of the last time.
ReplaceEntryChunksAdds(id, index) ==
  rows' = IF Replaces(id, index)
          THEN [rows EXCEPT ![id] = [Row(@.text, index) EXCEPT !.chunks = rows[id].chunks \o @]]
          ELSE rows

ReplaceEntryChunks(id, index) ==
  rows' = IF Replaces(id, index)
          THEN [rows EXCEPT ![id] = Row(@.text, index)] ELSE rows

EditChunks ==
  /\ caller.pc = "replace" /\ caller' = NoCaller
  /\ ReplaceEntryChunks(caller.id, caller.index) /\ Disturb
  /\ UNCHANGED <<config, saved, dimMem, dimCol, listing, had, admin, changes>>

DeleteEntry ==
  /\ Request
  /\ \E i \in DOMAIN listing : /\ listing' = RemoveAt(listing, i)
                              /\ rows' = [rows EXCEPT ![listing[i]] = NoRow]
  /\ Disturb
  /\ UNCHANGED <<config, saved, dimMem, dimCol, had, admin, caller>>
-----------------------------------------------------------------------------
(* handleReembedAll. *)

Step(pc) == job' = [job EXCEPT !.pc = pc]
JobStep == UNCHANGED <<admin, caller, changes>>

LoadConfig ==
  /\ job.pc = "idle" /\ Request
  /\ job' = [NoJob EXCEPT !.pc = "resolve", !.read = config, !.start = Stored]
  /\ UNCHANGED <<tableVars, admin, caller>>

\* The dimension to embed at: the model's known one, or that of a probe.
Target(read, by) == IF read.choice.known > 0 THEN read.choice.known
                    ELSE IF read.choice.openai THEN 0 ELSE by.gives

\* Sources.Embedder reads the configuration again.
ResolveEmbedder ==
  /\ job.pc = "resolve"
  /\ LET by  == config.choice
         dim == Target(job.read, by)
     IN job' = IF by.gives = 0 \/ dim = 0 THEN NoJob
               ELSE [job EXCEPT !.by = by, !.dim = dim,
                                !.pc = IF dim = job.read.dim THEN "list" ELSE "rebuild"]
  /\ UNCHANGED tableVars /\ JobStep

\* Mutant: the untyped table keeps its vectors.
RebuildOnlyTypedColumns ==
  /\ job.pc = "rebuild" /\ dimCol' = job.dim /\ Step("remember")
  /\ UNCHANGED <<config, saved, dimMem, listing, rows, had>> /\ JobStep

\* RebuildEmbeddingColumns: the tables in one transaction, then the field.
RebuildEmbeddingColumns ==
  /\ job.pc = "rebuild" /\ dimCol' = job.dim /\ Step("remember")
  /\ rows' = [id \in EntryIds |-> [rows[id] EXCEPT !.vector = NoVector]]
  /\ UNCHANGED <<config, saved, dimMem, listing, had>> /\ JobStep

RememberDimension ==
  /\ job.pc = "remember" /\ dimMem' = job.dim /\ Step("persist")
  /\ UNCHANGED <<config, saved, dimCol, listing, rows, had>> /\ JobStep

\* The row as it was read, at the new dimension.
PutEmbeddingConfig ==
  /\ job.pc = "persist"
  /\ config' = [job.read EXCEPT !.dim = job.dim] /\ Step("list")
  /\ UNCHANGED <<saved, dimMem, dimCol, listing, rows, had>> /\ JobStep

\* ListEntries with LIMIT and OFFSET, over every team.
ListEntries ==
  /\ job.pc = "list"
  /\ LET ids == SubSeq(listing, job.offset + 1,
                       IF job.offset + PageSize > Len(listing) THEN Len(listing)
                       ELSE job.offset + PageSize)
     IN job' = IF ids = <<>> THEN [job EXCEPT !.pc = "report"]
               ELSE [job EXCEPT !.pc = "embed", !.full = Len(ids) = PageSize,
                                !.page = [i \in DOMAIN ids |-> [id |-> ids[i],
                                                                text |-> rows[ids[i]].text]],
                                !.offset = @ + Len(ids)]
  /\ UNCHANGED tableVars /\ JobStep

\* Mutant: one page is taken for everything.
NextPageNever == job.page = <<>> /\ job.pc = "embed" /\ Step("report") /\ UNCHANGED tableVars /\ JobStep

\* A short page was the last.
NextPage == /\ job.page = <<>> /\ job.pc = "embed" /\ Step(IF job.full THEN "list" ELSE "report")
            /\ UNCHANGED tableVars /\ JobStep

\* reembedEntry: the text of the page is cut and embedded; it may fail.
EmbedEntry ==
  /\ job.pc = "embed" /\ job.page # <<>>
  /\ \/ job' = [job EXCEPT !.pc = "replace",
                           !.index = Indexed(Head(job.page).text, ChunkConfig, Vector(job.by))]
     \/ job' = [job EXCEPT !.skipped = @ \cup {Head(job.page).id}, !.page = Tail(@)]
  /\ UNCHANGED tableVars /\ JobStep

ReplaceChunks ==
  /\ job.pc = "replace"
  /\ LET id == Head(job.page).id
     IN /\ ReplaceEntryChunks(id, job.index)
        /\ job' = [job EXCEPT !.pc = "embed", !.page = Tail(@), !.index = None,
                              !.skipped = IF Replaces(id, job.index) THEN @ ELSE @ \cup {id}]
  /\ UNCHANGED <<config, saved, dimMem, dimCol, listing, had>> /\ JobStep

Report ==
  /\ job.pc = "report" /\ job' = NoJob
  /\ UNCHANGED tableVars /\ JobStep

\* A database error ends the run with a 500; what it has done stays.
Abandon ==
  /\ job.pc \in {"rebuild", "persist", "list"} /\ job' = NoJob
  /\ UNCHANGED tableVars /\ JobStep

\* The process stops; the next one has the environment's dimension in memory.
Restart ==
  /\ Request
  /\ dimMem' = EnvDim /\ job' = NoJob /\ admin' = NoAdmin /\ caller' = NoCaller
  /\ UNCHANGED <<config, saved, dimCol, listing, rows, had>>

Next == \/ ReadConfig \/ WriteConfig \/ PutSettings \/ ReadSettings \/ ImportEnv
        \/ BeginStore \/ StoreEntryChunked \/ UpdateEntry \/ EditChunks \/ DeleteEntry
        \/ LoadConfig \/ ResolveEmbedder \/ RebuildEmbeddingColumns \/ RememberDimension
        \/ PutEmbeddingConfig \/ ListEntries \/ NextPage \/ EmbedEntry \/ ReplaceChunks
        \/ Report \/ Abandon \/ Restart

Spec == Init /\ [][Next]_vars
-----------------------------------------------------------------------------
Dims == {0, EnvDim} \cup {c.known : c \in Providers} \cup {c.gives : c \in Providers}

\* Every stored vector, those of the untyped table too, has the columns' dimension.
TypeOK ==
  /\ config \in [choice : Providers, dim : Dims] /\ {dimMem, dimCol} \subseteq Dims \ {0}
  /\ saved \in Chunkings \cup {Unsplit}
  /\ Stored \subseteq EntryIds /\ Len(listing) = Cardinality(Stored)
  /\ \A id \in EntryIds :
       IF id \in Stored
       THEN /\ rows[id].text \in had[id]
            /\ rows[id].vector = NoVector \/ (rows[id].vector.by \in Providers
                                              /\ rows[id].vector.dim = dimCol)
       ELSE rows[id] = NoRow
  /\ job.offset \in 0..Cardinality(EntryIds) /\ job.skipped \subseteq EntryIds
  /\ changes \in 0..MaxChanges

(* Nothing of a text is lost on its way into the index: the chunks of an    *)
(* entry are those of one text it has had, in order and complete, no more  *)
(* of them than the settings allow and nothing twice unless overlap is     *)
(* asked for (Chunk, ReplaceEntryChunks).                                  *)
ChunksTile ==
  \A id \in Stored : \E text \in had[id] : Tiles(rows[id].chunks, text, rows[id].cut)

(* What a finished run reports is true: when nobody but callers storing new *)
(* entries has interfered, each entry that was there at its start either   *)
(* counts as skipped or is indexed by the run's embedder at its dimension, *)
(* over chunks of its text (handleReembedAll).                             *)
Current(id) == /\ rows[id].vector = [by |-> job.by, dim |-> job.dim]
               /\ Tiles(rows[id].chunks, rows[id].text, rows[id].cut)
ReportTrue ==
  [][Report /\ job.quiet => \A id \in job.start : id \in job.skipped \/ Current(id)]_vars
=============================================================================
