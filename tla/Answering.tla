----------------------------- MODULE Answering ------------------------------
(***************************************************************************)
(* From a file to a cited answer: the file is parsed (module Parsing) and  *)
(* chunked (module Chunking), its chunks are embedded, and then a question *)
(* (module Embedding), retrieval ranks the chunks, the threshold gate      *)
(* refuses or lets pass, assembleContext numbers the sources that fit the  *)
(* token budget, and the answer's markers become citations: what is cited  *)
(* is what was cut.  Similarities and answers are arbitrary.               *)
(***************************************************************************)
EXTENDS Parsing, Chunking, Embedding

CONSTANTS
  K,           \* chunks that retrieval returns at most
  MaxSources,  \* sources in the prompt at most
  Budget,      \* token budget of the sources block
  Scores,      \* similarities, and thresholds
  MaxCorpus    \* bound: chunks of a document that is asked about

ASSUME AnsweringAssumption ==
  /\ {K, MaxSources, Budget} \subseteq Nat \ {0} /\ MaxCorpus \in Nat
  /\ Scores \subseteq Int

VARIABLES
  phase,      \* "parse", "index" and "embed", then what the chat handler is at
  score,      \* similarity of each chunk to the question
  threshold,  \* assistant.refusalThreshold
  hits,       \* chunks retrieved, best first
  sources,    \* numbered sources: chunk and content tokens
  used,       \* usedTokens
  reply       \* the `done` frame: grounded and the markers cited

answerVars == <<score, threshold, hits, sources, used, reply>>
allVars == <<parseVars, chunkVars, embedVars, phase, answerVars>>

NoFile == [type |-> "TXT", head |-> "text", sound |-> TRUE, lines |-> <<>>]
NoReply == [grounded |-> FALSE, citations |-> {}, cited |-> {}, refused |-> FALSE]

(* What retrieval sees: chunks with a vector, whatever became of their run. *)
Corpus == DOMAIN vec

TypeOK ==
  /\ next \in 1..(Len(doc) + 2)
  /\ split.at \in Nat /\ split.start \in 0..split.at
  /\ overlap \in 0..Len(chunks)
  /\ bodyTokens \in 0..MaxTokens
  /\ phase \in {"parse", "index", "embed", "question", "retrieved", "assembling", "generating",
               "answered", "failed"}
  /\ DOMAIN score \subseteq Corpus /\ ToSet(score) \subseteq Scores
  /\ threshold \in Scores \cup {0}
  /\ hits \in Seq(Corpus) /\ Len(hits) <= K
  /\ sources \in Seq([chunk : Corpus, content : Nat \ {0}]) /\ Len(sources) <= MaxSources
  /\ used \in Nat
  /\ reply.citations \subseteq 1..MaxSources

Init ==
  /\ ParseInit /\ ChunkInit /\ EmbedInit
  /\ phase = "parse"
  /\ score = <<>> /\ threshold = 0
  /\ hits = <<>> /\ sources = <<>> /\ used = 0 /\ reply = NoReply

Parse == phase = "parse" /\ ParseNext /\ UNCHANGED <<chunkVars, embedVars, phase, answerVars>>

(* What the chunker sees of a block: how many tokens, in which sentences.  *)
Parsed(block) ==
  LET lines == [i \in 1..Len(block.lines) |-> file.lines[block.lines[i]]]
  IN [level |-> block.level,
      tokens |-> SumFunctionOnSet([i \in 1..Len(lines) |-> lines[i].tokens], 1..Len(lines)),
      sentences |-> IF block.level # 0 THEN <<>>
                    ELSE FlattenSeq([i \in 1..Len(lines) |-> lines[i].sentences])]

(* A file with text goes on to the chunker, and is needed no more; one     *)
(* without any fails its document here.                                    *)
StartChunking ==
  /\ phase = "parse" /\ outcome = "parsed" /\ blocks # <<>>
  /\ phase' = "index" /\ outcome' = "chunking"
  /\ doc' = [b \in 1..Len(blocks) |-> Parsed(blocks[b])]
  /\ file' = NoFile /\ at' = 1 /\ fenced' = FALSE /\ blocks' = <<>> /\ warnings' = {}
  /\ UNCHANGED <<buffer, next, headings, body, bodyTokens, overlap, chunks, split, embedVars, answerVars>>

Index == phase = "index" /\ ChunkNext /\ UNCHANGED <<parseVars, embedVars, phase, answerVars>>

(* saveChunks, in a corpus without any of them.                            *)
StartEmbedding ==
  /\ phase = "index" /\ Chunked /\ Len(chunks) <= MaxCorpus
  /\ phase' = "embed"
  /\ UNCHANGED <<parseVars, chunkVars, embedVars, answerVars>>

Embed == phase = "embed" /\ EmbedNext(Len(chunks)) /\ UNCHANGED <<parseVars, chunkVars, phase, answerVars>>

(* A question comes when the document is READY, or FAILED on the way.      *)
AskQuestion ==
  /\ phase = "embed" /\ Settled(Len(chunks)) /\ StartQuestion
  /\ phase' = "question"
  /\ UNCHANGED <<parseVars, chunkVars, answerVars>>

EmbedQuestion ==
  phase = "question" /\ QuestionNext /\ UNCHANGED <<parseVars, chunkVars, phase, answerVars>>

(* Retrieval throws, and the chat ends in an error frame.                  *)
QuestionFails ==
  /\ phase = "question" /\ task = "none" /\ query = NoVector
  /\ phase' = "failed"
  /\ UNCHANGED <<parseVars, chunkVars, embedVars, answerVars>>

(* Variant: LIMIT k without ORDER BY.                                      *)
UnrankedRows(s, h) ==
  /\ Cardinality(ToSet(h)) = Len(h)
  /\ Len(h) = Min({Cardinality(Corpus), K})

(* ORDER BY distance LIMIT k: ties come in any order.                      *)
RankedRows(s, h) ==
  /\ Cardinality(ToSet(h)) = Len(h)
  /\ Len(h) = Min({Cardinality(Corpus), K})
  /\ \A i \in 1..Len(h) :
       \A c \in Corpus : s[c] > s[h[i]] => \E j \in 1..(i - 1) : h[j] = c

Retrieve ==
  /\ phase = "question" /\ query # NoVector /\ phase' = "retrieved"
  /\ threshold' \in Scores
  /\ \E s \in [Corpus -> Scores], m \in 0..K : \E h \in [1..m -> Corpus] :
       RankedRows(s, h) /\ score' = s /\ hits' = h
  /\ UNCHANGED <<parseVars, chunkVars, embedVars, sources, used, reply>>

(* Variant: the best hit must be above the threshold.                      *)
RefusesAtThreshold == hits = <<>> \/ score[hits[1]] <= threshold

(* evaluateThreshold                                                       *)
Refuses == hits = <<>> \/ score[hits[1]] < threshold

Gate ==
  /\ phase = "retrieved"
  /\ IF Refuses
       THEN phase' = "answered" /\ reply' = [NoReply EXCEPT !.refused = TRUE]
       ELSE phase' = "assembling" /\ UNCHANGED reply
  /\ UNCHANGED <<parseVars, chunkVars, embedVars, score, threshold, hits, sources, used>>

(* assembleContext's own order: by score, then by position.                *)
Ordered ==
  Sorted(ToSet(hits), LAMBDA a, b : score[a] > score[b] \/ (score[a] = score[b] /\ a < b))

(* Token counts of a header line and of a chunk's content.                 *)
SectionTokens(c) ==
  LET path == chunks[c].section
  IN SumFunctionOnSet([i \in 1..Len(path) |-> doc[path[i]].tokens], 1..Len(path))
HeaderTokens(c) == 1 + SectionTokens(c)
ContentTokens(c) ==
  SectionTokens(c) + (IF chunks[c].overlap # 0 THEN 1 ELSE 0) + TextTokens(chunks[c].text)

Upcoming == Ordered[Len(sources) + 1]
Entry(c) == HeaderTokens(c) + ContentTokens(c)

RoomLeft == Len(sources) < MaxSources /\ Len(sources) < Len(hits)

AddSource ==
  /\ phase = "assembling" /\ RoomLeft /\ used + Entry(Upcoming) <= Budget
  /\ sources' = Append(sources, [chunk |-> Upcoming, content |-> ContentTokens(Upcoming)])
  /\ used' = used + Entry(Upcoming)
  /\ UNCHANGED <<parseVars, chunkVars, embedVars, phase, score, threshold, hits, reply>>

Truncates == sources = <<>>

(* The first source alone exceeds the budget: it is cut to fit.            *)
AddTruncatedSource ==
  LET content == Max({Budget - HeaderTokens(Upcoming), 1})
  IN /\ phase = "assembling" /\ RoomLeft /\ used + Entry(Upcoming) > Budget
     /\ Truncates
     /\ sources' = Append(sources,
                     [chunk |-> Upcoming, content |-> Min({content, ContentTokens(Upcoming)})])
     /\ used' = used + HeaderTokens(Upcoming) + Min({content, ContentTokens(Upcoming)})
     /\ UNCHANGED <<parseVars, chunkVars, embedVars, phase, score, threshold, hits, reply>>

Assembled ==
  /\ phase = "assembling"
  /\ RoomLeft => used + Entry(Upcoming) > Budget /\ ~Truncates
  /\ phase' = "generating"
  /\ UNCHANGED <<parseVars, chunkVars, embedVars, answerVars>>

(* Variant: every marker of the answer becomes a citation.                 *)
AllMarkers(cited) == cited

(* buildCitations                                                          *)
Citations(cited) == {m \in 1..Len(sources) : m \in cited}

(* The model answers with some bracketed numbers, or refuses in-prompt.    *)
Generate ==
  /\ phase = "generating"
  /\ \E cited \in SUBSET (1..(MaxSources + 1)), refused \in BOOLEAN :
       LET citations == IF refused THEN {} ELSE Citations(cited)
       IN reply' = [grounded |-> ~refused /\ citations # {}, citations |-> citations,
                    cited |-> cited, refused |-> refused]
  /\ phase' = "answered"
  /\ UNCHANGED <<parseVars, chunkVars, embedVars, score, threshold, hits, sources, used>>

(* The provider breaks off, and what was streamed is not judged.           *)
GenerationFails ==
  /\ phase = "generating"
  /\ phase' = "failed"
  /\ UNCHANGED <<parseVars, chunkVars, embedVars, answerVars>>

Next ==
  \/ Parse \/ StartChunking \/ Index
  \/ StartEmbedding \/ Embed \/ AskQuestion \/ EmbedQuestion \/ QuestionFails
  \/ Retrieve \/ Gate
  \/ AddSource \/ AddTruncatedSource \/ Assembled
  \/ Generate \/ GenerationFails

Spec == Init /\ [][Next]_allVars

-----------------------------------------------------------------------------
(* The model is asked exactly when some chunk of the corpus, retrieved or  *)
(* not, reaches the assistant's threshold, and then the first source does. *)
AnswerIsGated ==
  /\ phase \in {"assembling", "generating"} => \E c \in Corpus : score[c] >= threshold
  /\ phase = "answered" /\ sources = <<>> => \A c \in Corpus : score[c] < threshold
  /\ sources # <<>> => score[sources[1].chunk] >= threshold

(* The sources are a best part of the whole corpus: no chunk left out is   *)
(* closer to the question than one let in.  They keep to the token budget, *)
(* unless the header of the first alone is over it.                        *)
BestSourcesFit ==
  /\ \A i \in 1..Len(sources) : \A c \in Corpus :
       score[c] > score[sources[i].chunk] => \E j \in 1..(i - 1) : sources[j].chunk = c
  /\ used <= Budget \/ (Len(sources) = 1 /\ sources[1].content = 1)

(* An answer counts as grounded only if it names a source that it was      *)
(* shown, and what its citations anchor lies in one section of the         *)
(* document, the one the source's header names.                            *)
GroundedMeansCited ==
  phase = "answered" =>
    /\ reply.grounded => reply.cited \cap (1..Len(sources)) # {} /\ ~reply.refused
    /\ \A m \in reply.citations :
         /\ m \in 1..Len(sources)
         /\ LET chunk == chunks[sources[m].chunk]
            IN \A x \in Sentences :
                 Spans(sources[m].chunk, x[1], x[2]) => Enclosing(x[1]) = ToSet(chunk.section)
=============================================================================
