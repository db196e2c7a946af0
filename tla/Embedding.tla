----------------------------- MODULE Embedding ------------------------------
(***************************************************************************)
(* How texts become vectors: the embed stage hands its remaining chunks to *)
(* the embedder in batches, the embedder asks the provider for a few texts *)
(* at a time, withRetry repeats a batch that failed for a passing reason,  *)
(* and each batch is stored before the next one is begun.  A question is   *)
(* embedded by the same calls.  A vector is the text it was computed from. *)
(***************************************************************************)
EXTENDS Integers, Sequences, FiniteSetsExt, SequencesExt

CONSTANTS
  EmbedBatchSize,     \* chunks that are embedded and stored together
  ProviderBatchSize,  \* texts in one provider call
  CorpusAttempts,     \* attempts of withRetry, in the embed stage
  QuestionAttempts,   \* and for a question
  MaxRuns             \* bound: runs of the embed stage

ASSUME EmbeddingAssumption ==
  {EmbedBatchSize, ProviderBatchSize, CorpusAttempts, QuestionAttempts, MaxRuns} \subseteq Nat \ {0}

VARIABLES
  vec,      \* the vector of each chunk that has one
  query,    \* the question's vector, or NoVector
  task,     \* "none", "corpus" or "question"
  run,      \* runs begun
  pending,  \* texts this run still has to embed
  asked,    \* texts of the batch that the provider was asked about
  got,      \* vectors it returned
  attempt   \* withRetry's loop

embedVars == <<vec, query, task, run, pending, asked, got, attempt>>

(* Chunks are the texts 1, 2, ...                                          *)
Question == 0
NoVector == -1

EmbedInit ==
  /\ vec = <<>> /\ query = NoVector
  /\ task = "none" /\ run = 0 /\ pending = <<>>
  /\ asked = 0 /\ got = <<>> /\ attempt = 1

Attempts == IF task = "corpus" THEN CorpusAttempts ELSE QuestionAttempts
Batch == SubSeq(pending, 1, Min({EmbedBatchSize, Len(pending)}))
Request == SubSeq(Batch, asked + 1, Min({asked + ProviderBatchSize, Len(Batch)}))

Afresh == asked' = 0 /\ got' = <<>>
Begin(t, texts) == task' = t /\ pending' = texts /\ attempt' = 1 /\ Afresh
End == Begin("none", <<>>)

(* Variant of getUnembeddedChunks: all of the document's chunks.           *)
EveryChunk(n) == [c \in 1..n |-> c]

(* The elements of a finite set, each before those it precedes.            *)
Sorted(S, Precedes(_, _)) ==
  CHOOSE s \in SetToSeqs(S) : \A i, j \in 1..Len(s) : i < j => Precedes(s[i], s[j])

(* getUnembeddedChunks, in the order of the text.                          *)
Unembedded(n) == Sorted((1..n) \ DOMAIN vec, <)

(* A run of the embed stage over n chunks: the first, or a retry's.        *)
StartCorpus(n) ==
  /\ task = "none" /\ (1..n) \ DOMAIN vec # {} /\ run < MaxRuns
  /\ run' = run + 1 /\ Begin("corpus", Unembedded(n))
  /\ UNCHANGED <<vec, query>>

(* All embedded, or no run left.                                           *)
Settled(n) == task = "none" /\ (1..n \subseteq DOMAIN vec \/ run = MaxRuns)

StartQuestion ==
  /\ Begin("question", <<Question>>) /\ run' = 0
  /\ UNCHANGED <<vec, query>>

Asking == task # "none" /\ asked < Len(Batch)

(* What the provider may return: vectors with the index of their text, in  *)
(* any order, and perhaps not for every text.                              *)
Replies == SetToAllKPermutations({[index |-> i, text |-> Request[i]] : i \in 1..Len(Request)})

(* Variant: vectors are taken in the order they come.                      *)
AsReturned(data) == [i \in 1..Len(data) |-> data[i].text]

(* Sorted by index, then the vectors alone.                                *)
InOrder(data) ==
  LET ordered == Sorted(ToSet(data), LAMBDA a, b : a.index < b.index)
  IN [i \in 1..Len(ordered) |-> ordered[i].text]

ProviderAnswers ==
  /\ Asking
  /\ \E data \in Replies : got' = got \o InOrder(data)
  /\ asked' = asked + Len(Request)
  /\ UNCHANGED <<vec, query, task, run, pending, attempt>>

(* What a call may fail of; a client error would fail again.               *)
Errors == {"network", "429", "5xx", "4xx"}
IsRetryable(e) == e # "4xx"

(* The whole batch is tried again after a pause, or the error is thrown.   *)
ProviderFails(e) ==
  /\ Asking
  /\ IF IsRetryable(e) /\ attempt < Attempts
       THEN attempt' = attempt + 1 /\ Afresh /\ UNCHANGED <<task, pending>>
       ELSE End
  /\ UNCHANGED <<vec, query, run>>

Answered(t) == task = t /\ asked = Len(Batch)

(* As many vectors as texts: they are stored, and the next batch begins.   *)
StoreBatch ==
  LET rest == SubSeq(pending, Len(Batch) + 1, Len(pending))
  IN /\ Answered("corpus") /\ Len(got) = Len(Batch)
     /\ vec' = [c \in DOMAIN vec \cup ToSet(Batch) |->
                  IF c \in ToSet(Batch) THEN got[CHOOSE i \in 1..Len(Batch) : Batch[i] = c] ELSE vec[c]]
     /\ IF rest = <<>> THEN End ELSE Begin("corpus", rest)
     /\ UNCHANGED <<query, run>>

(* The run ends in an error: too few vectors, or a store, lock or process  *)
(* that fails.                                                             *)
RunDies == task = "corpus" /\ End /\ UNCHANGED <<vec, query, run>>

(* A question without a vector is thrown as well, and not asked again.     *)
QuestionEmbedded ==
  /\ Answered("question")
  /\ query' = IF got = <<>> THEN NoVector ELSE got[1]
  /\ End
  /\ UNCHANGED <<vec, run>>

EmbedNext(n) ==
  \/ StartCorpus(n)
  \/ ProviderAnswers \/ \E e \in Errors : ProviderFails(e)
  \/ StoreBatch \/ RunDies

QuestionNext ==
  ProviderAnswers \/ (\E e \in Errors : ProviderFails(e)) \/ QuestionEmbedded

-----------------------------------------------------------------------------
(* Every stored vector is its own chunk's, and a question's is the         *)
(* question's: "vectors get misattributed to the wrong text"               *)
(* (openai-embedder.ts) never happens, whichever replies were out of       *)
(* order, short or failed, in whichever attempt and run.                   *)
VectorsAreOwn ==
  /\ \A c \in DOMAIN vec : vec[c] = c
  /\ query \in {Question, NoVector}

(* The provider is asked only for chunks that have no vector, in the order *)
(* of the text, and for no chunk of a later batch before this one is       *)
(* stored: a retry, of a call or of the run, "embeds just the remainder"   *)
(* (pipeline.ts).                                                          *)
OnlyRemainderIsAsked ==
  task = "corpus" =>
    /\ \A i \in 1..Len(Request) : Request[i] \notin DOMAIN vec
    /\ \A i \in 1..Len(pending), j \in 1..Len(pending) : i < j => pending[i] < pending[j]
    /\ \A c \in DOMAIN vec, i \in 1..Len(pending) : c < pending[i]
=============================================================================
