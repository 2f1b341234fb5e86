------------------------------ MODULE Chunking ------------------------------
(***************************************************************************)
(* Cutting a text into the pieces that are embedded:                       *)
(* src/internal/embedding/chunk.go.  A text is its length in runes and the *)
(* positions at which a paragraph (or a heading's lines) and a sentence    *)
(* end; a chunk's content is the sequence of the positions of its runes,   *)
(* so that what is repeated, dropped or moved can be seen.                 *)
(***************************************************************************)
EXTENDS Integers, Sequences, FiniteSets, SequencesExt

RunesPerToken == 4
CountTokens(content) == Len(content) \div RunesPerToken
TokensOf(from, to) == (to - from) \div RunesPerToken

\* safetyFraction leaves a tenth of the configured window free.
Budget(cfg) == IF cfg.max * 9 < 10 THEN 1 ELSE (cfg.max * 9) \div 10

Positions(from, to) == [i \in 1..(to - from) |-> from + i]
Whole(text) == Positions(0, text.len)

\* The start of the piece that ends at cut p, and the end of the piece p lies in.
Before(cuts, p) == CHOOSE q \in {0} \cup cuts : q < p /\ \A r \in cuts : r >= p \/ r <= q
EndOf(cuts, p)  == CHOOSE q \in cuts : p <= q /\ \A r \in cuts : r < p \/ q <= r
TooLong(cuts, p, budget) == LET q == EndOf(cuts, p) IN TokensOf(Before(cuts, q), q) > budget

\* splitAtoms: paragraphs, the sentences of those that are too long, and
\* windows of the sentences that are too long.
AtomCuts(text, budget) ==
  LET paras     == text.paras \cup {text.len}
      sentences == paras \cup {p \in text.sentences : TooLong(paras, p, budget)}
      window    == 3 * budget
  IN sentences \cup {p \in 1..text.len :
                       /\ TooLong(sentences, p, budget)
                       /\ (p - Before(sentences, EndOf(sentences, p))) % window = 0}

splitAtoms(text, budget) ==
  LET cuts == AtomCuts(text, budget)
      ends == [i \in 1..Cardinality(cuts) |->
                 CHOOSE q \in cuts : Cardinality({r \in cuts : r < q}) = i - 1]
  IN [i \in DOMAIN ends |-> Positions(Before(cuts, ends[i]), ends[i])]

Lasts(s, n) == IF Len(s) > n THEN SubSeq(s, Len(s) - n + 1, Len(s)) ELSE s

\* startNewChunk: the tail of the previous chunk, when there is overlap.
OverlapTail(chunks, cfg) ==
  IF cfg.overlap = 0 \/ chunks = <<>> THEN <<>>
  ELSE Lasts(chunks[Len(chunks)], RunesPerToken * cfg.overlap)

\* The state of the loop: the chunks cut so far, the builder and its token
\* count, and whether the rest of the text is being dumped into the last chunk.
Cut == [chunks |-> <<>>, cur |-> <<>>, tokens |-> 0, dumping |-> FALSE]

Flush(b) == IF b.cur = <<>> THEN b
            ELSE [b EXCEPT !.chunks = Append(@, b.cur), !.cur = <<>>, !.tokens = 0]
Seed(b, cfg) == [b EXCEPT !.cur = @ \o OverlapTail(b.chunks, cfg),
                          !.tokens = @ + CountTokens(OverlapTail(b.chunks, cfg))]

\* The last chunk allowed takes everything that is left; it is seeded here,
\* also when the builder has been seeded already.
DumpRest(b, atom, cfg) == [Seed(b, cfg) EXCEPT !.cur = @ \o atom, !.dumping = TRUE]

AddAtom(b, atom, cfg) ==
  IF b.dumping THEN [b EXCEPT !.cur = @ \o atom]
  ELSE IF cfg.chunks > 0 /\ Len(b.chunks) = cfg.chunks - 1 THEN DumpRest(b, atom, cfg)
  ELSE LET full == b.tokens > 0 /\ b.tokens + CountTokens(atom) > Budget(cfg)
           next == IF full THEN Flush(b) ELSE b
           open == IF next.cur = <<>> THEN Seed(next, cfg) ELSE next
       IN [open EXCEPT !.cur = @ \o atom, !.tokens = @ + CountTokens(atom)]

Chunk(text, cfg) ==
  IF cfg.max = 0 \/ CountTokens(Whole(text)) <= Budget(cfg) THEN <<Whole(text)>>
  ELSE LET loop == FoldLeft(LAMBDA b, atom : AddAtom(b, atom, cfg), Cut,
                            splitAtoms(text, Budget(cfg)))
       IN Flush(loop).chunks
-----------------------------------------------------------------------------
\* The reference: the runes of a text, each the first time it is met, are the
\* text; there are no more chunks than allowed; without overlap, nothing twice.
FirstMet(runes) == SelectSeq([i \in DOMAIN runes |->
                     IF \E j \in 1..(i - 1) : runes[j] = runes[i] THEN 0 ELSE runes[i]],
                     LAMBDA r : r # 0)
Tiles(chunks, text, cfg) ==
  LET runes == FlattenSeq(chunks)
  IN /\ FirstMet(runes) = Whole(text)
     /\ cfg.overlap = 0 \/ cfg.max = 0 => runes = Whole(text)
     /\ cfg.max > 0 /\ cfg.chunks > 0 => Len(chunks) <= cfg.chunks
=============================================================================
