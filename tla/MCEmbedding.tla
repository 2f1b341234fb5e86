---------------------------- MODULE MCEmbedding ----------------------------
(* An instance of Embedding: two texts, a known model of the columns'       *)
(* dimension, one of another dimension, one that is probed and a provider   *)
(* without an address.                                                      *)
EXTENDS Embedding

CONSTANTS e1, e2, e3

Note == [len |-> 13, paras |-> {4}, sentences |-> {8}]
Word == [len |-> 3, paras |-> {}, sentences |-> {}]
TwoTexts == {Note, Word}

Small == [openai |-> TRUE, known |-> 1, gives |-> 1]
Large == [openai |-> TRUE, known |-> 2, gives |-> 2]
Local == [openai |-> FALSE, known |-> 0, gives |-> 2]
Absent == [openai |-> FALSE, known |-> 0, gives |-> 0]
Novel == [openai |-> TRUE, known |-> 0, gives |-> 2]
AllProviders == {Small, Large, Local, Absent, Novel}

OneChunk == [max |-> 4, overlap |-> 0, chunks |-> 0]
Overlapping == [max |-> 2, overlap |-> 1, chunks |-> 2]
TeamChunkings == {Overlapping}

\* A database that holds a note, stored with vectors, and a word, without.
Deployed ==
  /\ \E c \in Providers : config = [choice |-> c, dim |-> EnvDim]
  /\ saved \in {Unsplit, Overlapping} /\ dimMem = EnvDim /\ dimCol = EnvDim
  /\ listing = <<e2, e1>>
  /\ rows = [id \in EntryIds |->
               IF id = e1 THEN Row(Note, Indexed(Note, OneChunk, Vector(Small)))
               ELSE IF id = e2 THEN Row(Word, Indexed(Word, OneChunk, NoVector))
               ELSE NoRow]
  /\ had = [id \in EntryIds |-> IF id = e1 THEN {Note} ELSE IF id = e2 THEN {Word} ELSE {}]
  /\ job = NoJob /\ admin = NoAdmin /\ caller = NoCaller /\ changes = 0

MCSpec == Deployed /\ [][Next]_vars

(* The chunker against its reference, over texts of three lengths with every *)
(* set of cuts, and every small configuration.                              *)
SomeTexts == {t \in [len : {6, 13, 22}, paras : SUBSET {4, 9, 14}, sentences : SUBSET {3, 8, 11, 17}] :
                t.paras \cup t.sentences \subseteq 1..(t.len - 1)}
SomeChunkings == [max : {0, 2, 3, 4}, overlap : 0..2, chunks : 0..3]
ASSUME ChunkerTiles ==
  \A text \in SomeTexts, cfg \in SomeChunkings : Tiles(Chunk(text, cfg), text, cfg)
=============================================================================
