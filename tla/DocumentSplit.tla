---------------------------- MODULE DocumentSplit ---------------------------
(***************************************************************************)
(* How IngestDocumentUseCase of apps/ai-service splits a text into parent  *)
(* chunks, and where it then takes them to be in the text, when an LLM is  *)
(* to describe each by what stands around it.  A break is of one character *)
(* or of two, as in the code.                                              *)
(***************************************************************************)
EXTENDS Integers, Sequences, FiniteSets, SequencesExt, FiniteSetsExt

CONSTANTS
  Paragraphs,     \* what may stand between two breaks
  MaxParagraphs,  \* bound: the paragraphs of a text
  ParentSize,     \* chunkSize of parentSplitter
  ChunkOverlap,   \* chunkOverlap of parentSplitter
  ProbeSize       \* the characters by which a chunk is looked for

ASSUME SplitAssumption ==
  /\ \A p \in Paragraphs : p \in Seq(STRING) /\ p # <<>>
  /\ MaxParagraphs \in Nat
  /\ {ParentSize, ProbeSize} \subseteq Nat \ {0} /\ ChunkOverlap \in 0..(ParentSize - 1)

VARIABLE split   \* the document: its text, and what has been made of it

splitVars == <<split>>

PageBreak == <<"f">>
LineBreaks == <<"n", "n">>

\* A text is its paragraphs with a break after each but the last.
Texts ==
  UNION {[paragraphs : [1..n -> Paragraphs], breaks : [1..(n - 1) -> {PageBreak, LineBreaks}]] :
           n \in 1..MaxParagraphs}

Lines(t) ==
  [i \in DOMAIN t.paragraphs |->
     t.paragraphs[i] \o (IF i \in DOMAIN t.breaks THEN t.breaks[i] ELSE <<>>)]

RawText(t) == FlattenSeq(Lines(t))

\* The number of characters before paragraph i.
Place(t, i) == Len(FlattenSeq(SubSeq(Lines(t), 1, i - 1)))

\* Paragraphs are joined by line breaks, whatever stood between them.
JoinParagraphs(t, chunk) ==
  FlattenSeq([i \in DOMAIN chunk |->
                (IF i = 1 THEN <<>> ELSE LineBreaks) \o t.paragraphs[chunk[i]]])

Fits(t, chunk, i) == Len(JoinParagraphs(t, Append(chunk, i))) <= ParentSize

\* splitByParagraphFirst: a paragraph goes into the current chunk if it fits.
TakeParagraph(t, chunks, i) ==
  IF chunks # <<>> /\ Fits(t, Last(chunks), i)
  THEN Append(Front(chunks), Append(Last(chunks), i))
  ELSE Append(chunks, <<i>>)

CoarseChunks(t) ==
  LET after[i \in 0..Len(t.paragraphs)] ==
        IF i = 0 THEN <<>> ELSE TakeParagraph(t, after[i - 1], i)
  IN  after[Len(t.paragraphs)]

ParentChunk(text, place, whole) == [text |-> text, place |-> place, whole |-> whole]

\* parentSplitter cuts what is too long, with an overlap of at most ChunkOverlap.
Pieces(text, place, stride) ==
  [k \in 1..((Len(text) - ParentSize + stride - 1) \div stride + 1) |->
     LET skip == (k - 1) * stride IN
     ParentChunk(SubSeq(text, skip + 1, Min({skip + ParentSize, Len(text)})), place + skip, TRUE)]

\* whole: as it stands in the text, or changed by a page break that was replaced.
ParentsOf(t, chunks, stride) ==
  FlattenSeq([k \in DOMAIN chunks |->
    LET text == JoinParagraphs(t, chunks[k])
        place == Place(t, chunks[k][1])
    IN  IF Len(text) > ParentSize THEN Pieces(text, place, stride)
        ELSE <<ParentChunk(text, place,
                          IsPrefix(text, SubSeq(RawText(t), place + 1, Len(RawText(t)))))>>])

\* String.indexOf
IndexOf(text, probe, from) ==
  LET found == {i \in from..(Len(text) - Len(probe)) :
                  SubSeq(text, i + 1, i + Len(probe)) = probe}
  IN  IF found = {} THEN -1 ELSE Min(found)

Probe(text) == SubSeq(text, 1, Min({ProbeSize, Len(text)}))

\* computeChunkOffsets: the next search starts where the chunk just found ends.
NextOffset(text, found, chunk) ==
  LET idx == IndexOf(text, Probe(chunk), found.searchStart) IN
  IF idx = -1 THEN [found EXCEPT !.offsets = Append(@, found.searchStart)]
  ELSE [searchStart |-> idx + Len(chunk), offsets |-> Append(found.offsets, idx)]

ChunkOffsets(text, chunks) ==
  LET after[k \in 0..Len(chunks)] ==
        IF k = 0 THEN [searchStart |-> 0, offsets |-> <<>>]
        ELSE NextOffset(text, after[k - 1], chunks[k])
  IN  after[Len(chunks)].offsets

-----------------------------------------------------------------------------
Split(pc, text, chunks, parents, offsets) ==
  [pc |-> pc, text |-> text, chunks |-> chunks, parents |-> parents, offsets |-> offsets]

NoText == [paragraphs |-> <<>>, breaks |-> <<>>]

SplitInit == \E t \in Texts : split = Split("read", t, <<>>, <<>>, <<>>)

SplitByParagraphFirst ==
  /\ split.pc = "read"
  /\ \E stride \in (ParentSize - ChunkOverlap)..ParentSize :
       LET chunks == CoarseChunks(split.text) IN
       split' = Split("split", split.text, chunks, ParentsOf(split.text, chunks, stride), <<>>)

ComputeChunkOffsets ==
  /\ split.pc = "split"
  /\ split' = Split("placed", split.text, split.chunks, split.parents,
       ChunkOffsets(RawText(split.text), [k \in DOMAIN split.parents |-> split.parents[k].text]))

SplitNext == SplitByParagraphFirst \/ ComputeChunkOffsets

SplitSpec == SplitInit /\ [][SplitNext]_splitVars

-----------------------------------------------------------------------------
\* Every parent has an offset; that of one not found may lie past the end of the text.
SplitTypeOK ==
  /\ split.pc \in {"read", "split", "placed"}
  /\ split.pc = "placed" =>
       /\ DOMAIN split.offsets = DOMAIN split.parents
       /\ ToSet(split.offsets) \subseteq 0..(Len(RawText(split.text)) + ParentSize)

\* Every paragraph is in one chunk, in the order of the text; no parent is longer than
\* ParentSize; and a chunk is left only for a paragraph that does not fit into it.
SplitIsWhole ==
  split.pc = "split" =>
    /\ FlattenSeq(split.chunks) = [i \in DOMAIN split.text.paragraphs |-> i]
    /\ \A k \in DOMAIN split.parents : Len(split.parents[k].text) <= ParentSize
    /\ \A k \in DOMAIN split.chunks \ {1} :
         Len(JoinParagraphs(split.text, Append(split.chunks[k - 1], split.chunks[k][1]))) > ParentSize

\* A chunk is found at its place or before it, unless it or one before it overlaps the
\* next or had a page break replaced.
OffsetsNotLate ==
  split.pc = "placed" =>
    \A k \in DOMAIN split.parents :
      \/ split.offsets[k] <= split.parents[k].place
      \/ \E j \in 1..k :
           \/ ~split.parents[j].whole
           \/ j < k /\ split.parents[j].place + Len(split.parents[j].text) > split.parents[j + 1].place

=============================================================================
