------------------------------ MODULE Chunking ------------------------------
(***************************************************************************)
(* chunkDocument: a parsed document, a sequence of headings and body       *)
(* blocks, is cut into chunks that stay inside a section and below a token *)
(* limit and carry exact anchors.  One action is one turn of its loops.    *)
(*                                                                         *)
(* A body block is its token count and the counts of its sentences, which  *)
(* need not add up.  Text is not modelled: a piece names the sentences it  *)
(* spans, and so its character offsets.  Blank blocks never arrive here    *)
(* (assemble drops them).                                                  *)
(***************************************************************************)
EXTENDS Integers, Sequences, FiniteSetsExt, SequencesExt

CONSTANT MaxTokens  \* token limit of a chunk's body

ASSUME ChunkingAssumption == MaxTokens \in Nat

(* A heading has a level and no sentences, a body block sentences and level 0. *)
Block ==
  {b \in [level : Nat, tokens : Nat, sentences : Seq(Nat)] : b.level # 0 => b.sentences = <<>>}

VARIABLES
  doc,         \* parsed.blocks, once there are any
  next,        \* the block the loop is at
  headings,    \* stack of the open headings, by block
  body,        \* pieces accumulated for the next chunk
  bodyTokens,  \* their token counts, summed
  overlap,     \* the chunk whose tail the next one repeats, or 0
  chunks,      \* chunks emitted
  split        \* sentence loop of an oversized block

chunkVars == <<doc, next, headings, body, bodyTokens, overlap, chunks, split>>

(* `at` is 0 when no block is being split, `start` 0 when no part is open. *)
NoSplit == [at |-> 0, start |-> 0, tokens |-> 0]

IsBody(b) == doc[b].level = 0
Whole(b) == [block |-> b, from |-> 1, to |-> Len(doc[b].sentences)]

ChunkFrom(parsed) ==
  /\ doc = parsed /\ next = 1 /\ headings = <<>>
  /\ body = <<>> /\ bodyTokens = 0 /\ overlap = 0 /\ chunks = <<>>
  /\ split = NoSplit

(* Nothing is parsed yet.                                                  *)
ChunkInit == ChunkFrom(<<>>)

(* flush() of the pieces `text`: a chunk unless there are none.  Its       *)
(* section is the path of open headings, and its tail becomes the overlap. *)
Flushed(text, tail) ==
  IF text = <<>> THEN chunks
  ELSE Append(chunks, [text |-> text, section |-> headings, overlap |-> tail])

FlushedOverlap == IF body = <<>> THEN overlap ELSE Len(chunks) + 1

(* Variant: pops only the headings that are deeper.                        *)
KeptSiblings(level) ==
  Max({n \in 0..Len(headings) : n = 0 \/ doc[headings[n]].level <= level})

(* updateHeadings: how many headings stay after popping the levels at or   *)
(* below the new one.                                                      *)
Kept(level) ==
  Max({n \in 0..Len(headings) : n = 0 \/ doc[headings[n]].level < level})

Reading == split = NoSplit /\ next <= Len(doc)

TakeHeading ==
  /\ Reading /\ ~IsBody(next)
  /\ chunks' = Flushed(body, overlap)
  /\ body' = <<>> /\ bodyTokens' = 0 /\ overlap' = 0
  /\ headings' = Append(SubSeq(headings, 1, Kept(doc[next].level)), next)
  /\ next' = next + 1
  /\ UNCHANGED <<doc, split>>

(* Variant: the block that overflows the limit still goes into the chunk.  *)
TakeParagraphLate ==
  /\ Reading /\ IsBody(next) /\ doc[next].tokens <= MaxTokens
  /\ IF bodyTokens > MaxTokens
       THEN /\ chunks' = Flushed(body, overlap)
            /\ overlap' = FlushedOverlap
            /\ body' = <<Whole(next)>> /\ bodyTokens' = doc[next].tokens
       ELSE /\ body' = Append(body, Whole(next))
            /\ bodyTokens' = bodyTokens + doc[next].tokens
            /\ UNCHANGED <<chunks, overlap>>
  /\ next' = next + 1
  /\ UNCHANGED <<doc, headings, split>>

TakeParagraph ==
  /\ Reading /\ IsBody(next) /\ doc[next].tokens <= MaxTokens
  /\ IF bodyTokens + doc[next].tokens > MaxTokens
       THEN /\ chunks' = Flushed(body, overlap)
            /\ overlap' = FlushedOverlap
            /\ body' = <<Whole(next)>> /\ bodyTokens' = doc[next].tokens
       ELSE /\ body' = Append(body, Whole(next))
            /\ bodyTokens' = bodyTokens + doc[next].tokens
            /\ UNCHANGED <<chunks, overlap>>
  /\ next' = next + 1
  /\ UNCHANGED <<doc, headings, split>>

StartSplit ==
  /\ Reading /\ IsBody(next) /\ doc[next].tokens > MaxTokens
  /\ chunks' = Flushed(body, overlap)
  /\ body' = <<>> /\ bodyTokens' = 0 /\ overlap' = 0
  /\ split' = [at |-> 1, start |-> 0, tokens |-> 0]
  /\ UNCHANGED <<doc, next, headings>>

(* The part of the block from split.start up to, not including, `end`.     *)
Part(end) == <<[block |-> next, from |-> split.start, to |-> end - 1]>>

(* Variant: a pushed part is not followed by a fresh one.                  *)
TakeSentenceDropped ==
  LET t == doc[next].sentences[split.at]
      push == split.start # 0 /\ split.tokens + t > MaxTokens
  IN /\ split # NoSplit /\ split.at <= Len(doc[next].sentences)
     /\ IF push
          THEN /\ chunks' = Flushed(Part(split.at), overlap)
               /\ overlap' = Len(chunks) + 1
               /\ split' = [at |-> split.at + 1, start |-> 0, tokens |-> 0]
          ELSE /\ split' = [at |-> split.at + 1,
                            start |-> IF split.start = 0 THEN split.at ELSE split.start,
                            tokens |-> split.tokens + t]
               /\ UNCHANGED <<chunks, overlap>>
     /\ UNCHANGED <<doc, next, headings, body, bodyTokens>>

TakeSentence ==
  LET t == doc[next].sentences[split.at]
      push == split.start # 0 /\ split.tokens + t > MaxTokens
  IN /\ split # NoSplit /\ split.at <= Len(doc[next].sentences)
     /\ IF push
          THEN /\ chunks' = Flushed(Part(split.at), overlap)
               /\ overlap' = Len(chunks) + 1
               /\ split' = [at |-> split.at + 1, start |-> split.at, tokens |-> t]
          ELSE /\ split' = [at |-> split.at + 1,
                            start |-> IF split.start = 0 THEN split.at ELSE split.start,
                            tokens |-> split.tokens + t]
               /\ UNCHANGED <<chunks, overlap>>
     /\ UNCHANGED <<doc, next, headings, body, bodyTokens>>

EndSplit ==
  /\ split # NoSplit /\ split.at > Len(doc[next].sentences)
  /\ chunks' = Flushed(Part(split.at), overlap)
  /\ overlap' = Len(chunks) + 1
  /\ split' = NoSplit /\ next' = next + 1
  /\ UNCHANGED <<doc, headings, body, bodyTokens>>

(* The flush after the loop.                                               *)
Finish ==
  /\ split = NoSplit /\ next = Len(doc) + 1
  /\ chunks' = Flushed(body, overlap)
  /\ overlap' = FlushedOverlap
  /\ body' = <<>> /\ bodyTokens' = 0
  /\ next' = next + 1
  /\ UNCHANGED <<doc, headings, split>>

Chunked == next > Len(doc) + 1

ChunkNext ==
  \/ TakeHeading \/ TakeParagraph
  \/ StartSplit \/ TakeSentence \/ EndSplit
  \/ Finish

(* chunkDocument, given any parsed document.                               *)
ChunkSpec == (\E parsed \in Seq(Block) : ChunkFrom(parsed)) /\ [][ChunkNext]_chunkVars

-----------------------------------------------------------------------------
(* Sentences, in the order of the document.                                *)
Sentences == UNION {{b} \X (1..Len(doc[b].sentences)) : b \in 1..Len(doc)}

Covers(c, b, s) ==
  \E p \in 1..Len(chunks[c].text) :
    LET piece == chunks[c].text[p]
    IN piece.block = b /\ s \in piece.from..piece.to

Before(b, s, c, t) == b < c \/ (b = c /\ s < t)

(* What charStart and charEnd of a chunk span: from its first piece to the *)
(* end of its last.                                                        *)
Spans(c, b, s) ==
  LET first == chunks[c].text[1]
      last == chunks[c].text[Len(chunks[c].text)]
  IN ~Before(b, s, first.block, first.from) /\ ~Before(last.block, last.to, b, s)

(* Slicing the document at a chunk's anchors gives the chunk's own text,   *)
(* headings apart, no two chunks share a sentence, they are in document    *)
(* order, and once the document is chunked no sentence is missing.         *)
AnchorsAreExact ==
  /\ \A c \in 1..Len(chunks) :
       /\ \A x \in Sentences : Covers(c, x[1], x[2]) <=> Spans(c, x[1], x[2])
       /\ \A b \in 1..Len(doc) :
            ~IsBody(b) => ~(chunks[c].text[1].block < b
                            /\ b < chunks[c].text[Len(chunks[c].text)].block)
  /\ \A c, d \in 1..Len(chunks) : c < d =>
       \A x, y \in Sentences :
         Covers(c, x[1], x[2]) /\ Covers(d, y[1], y[2]) => Before(x[1], x[2], y[1], y[2])
  /\ Chunked => \A x \in Sentences : \E c \in 1..Len(chunks) : Covers(c, x[1], x[2])

(* The headings a block is under: no later heading before it is at the     *)
(* same level or above.                                                    *)
Enclosing(b) ==
  {h \in 1..(b - 1) :
     /\ ~IsBody(h)
     /\ \A k \in (h + 1)..(b - 1) : ~IsBody(k) => doc[k].level > doc[h].level}

(* Every piece of a chunk is under exactly the headings the chunk names,   *)
(* outermost first, and the tail a chunk repeats is that of the chunk just *)
(* before it, in the same section.                                         *)
SectionsDoNotBleed ==
  \A c \in 1..Len(chunks) :
    /\ \A p \in 1..Len(chunks[c].text) :
         ToSet(chunks[c].section) = Enclosing(chunks[c].text[p].block)
    /\ \A i, j \in 1..Len(chunks[c].section) :
         i < j => chunks[c].section[i] < chunks[c].section[j]
    /\ chunks[c].overlap # 0 =>
         /\ chunks[c].overlap = c - 1
         /\ chunks[c - 1].section = chunks[c].section

TokensOf(piece) ==
  IF piece = Whole(piece.block) /\ doc[piece.block].tokens <= MaxTokens
    THEN doc[piece.block].tokens
    ELSE SumFunctionOnSet(doc[piece.block].sentences, piece.from..piece.to)

TextTokens(text) == SumFunctionOnSet([p \in 1..Len(text) |-> TokensOf(text[p])], 1..Len(text))

(* A chunk's body stays below the limit, a lone sentence above it apart.   *)
ChunksFit ==
  \A c \in 1..Len(chunks) :
    LET text == chunks[c].text
    IN \/ TextTokens(text) <= MaxTokens
       \/ Len(text) = 1 /\ text[1].from = text[1].to
=============================================================================
