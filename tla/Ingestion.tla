----------------------------- MODULE Ingestion -----------------------------
(***************************************************************************)
(* The life of the documents of one assistant: the upload and delete       *)
(* handlers of the API, the BullMQ job that carries each document, the     *)
(* worker slots that run the ingestion pipeline, and the reconciler.       *)
(*                                                                         *)
(* Every awaited call of the code (one transaction, one storage call, one  *)
(* queue call) is one action, so every interleaving the code allows        *)
(* between two awaits is a behaviour here.  Chunks are deduplicated per    *)
(* assistant, so documents of other assistants never meet these.           *)
(***************************************************************************)
EXTENDS Integers, FiniteSets

CONSTANTS
  Docs,         \* document ids (fresh UUIDs: each is uploaded at most once)
  Hashes,       \* content hashes of chunks
  ContentOf,    \* ContentOf[d]: the chunks chunkDocument yields for d's bytes
  Unparsable,   \* documents whose bytes parseDocument rejects or finds empty
  Workers,      \* job slots (processes times the BullMQ concurrency)
  Models,       \* embedding models
  ModelOf,      \* ModelOf[w]: the model the process of slot w is configured with
  MaxAttempts,  \* BullMQ attempts per job (3 in the code)
  MaxStalls,    \* BullMQ maxStalledCount (1)
  BatchSize,    \* EMBED_BATCH_SIZE (128)
  LongRunning,  \* documents a stage of which may block past lockDuration
  None          \* the SQL NULL

ASSUME ContentAssumption == ContentOf \in [Docs -> SUBSET Hashes]
ASSUME ModelAssumption == ModelOf \in [Workers -> Models]
ASSUME NoneAssumption == /\ None \notin Models
                         /\ None \notin Docs
                         /\ None \notin Workers
ASSUME BoundsAssumption == /\ MaxAttempts \in Nat \ {0}
                           /\ MaxStalls \in Nat
                           /\ BatchSize \in Nat \ {0}

VARIABLES
  status,    \* the document row: its status, or "gone" when there is no row
  outdated,  \* rows whose updated_at is older than STUCK_AGE_SECONDS
  objects,   \* documents whose bytes are in the object store
  owner,     \* owner[h]: document_id of the chunk row with hash h, or None
  vec,       \* vec[h]: the model that row's embedding came from, or None
  embModel,  \* assistant.embedding_model
  upload,    \* next step of the upload handler of each document
  cleaning,  \* delete handlers that still owe the object store a delete
  job,       \* state of the job with jobId = document id
  attempts,  \* attemptsMade of that job
  stalls,    \* its stalled counter
  lock,      \* the slot that holds the job lock
  marking,   \* markFailed writes issued by the 'failed' listener, not yet done
  pc,        \* the awaited call each slot is at
  doc,       \* the document each slot works on
  pending,   \* embedStage's `pending`, read once
  everReady  \* history: documents whose row has been READY

rowVars == <<status, outdated, everReady>>
chunkVars == <<owner, vec>>
apiVars == <<upload, cleaning>>
jobVars == <<job, attempts, stalls, lock, marking>>
slotVars == <<pc, doc, pending>>
vars == <<rowVars, chunkVars, objects, embModel, apiVars, jobVars, slotVars>>

NonTerminal == {"QUEUED", "UPLOADED", "PARSING", "EMBEDDING"}
Statuses == NonTerminal \cup {"READY", "FAILED"}
UploadSteps == {"put", "create", "enqueue", "done"}
JobStates == {"none", "waiting", "active", "completed", "failed"}
Steps == {"idle", "getStatus", "setParsing", "getRef", "fetch", "setParseResult",
          "saveChunks", "setEmbedding", "getUnembedded", "ensureModel",
          "embedBatch", "setReady", "complete", "fail"}

TypeOK ==
  /\ status \in [Docs -> Statuses \cup {"gone"}]
  /\ outdated \subseteq Docs
  /\ objects \subseteq Docs
  /\ owner \in [Hashes -> Docs \cup {None}]
  /\ vec \in [Hashes -> Models \cup {None}]
  /\ embModel \in Models \cup {None}
  /\ upload \in [Docs -> UploadSteps]
  /\ cleaning \subseteq Docs
  /\ job \in [Docs -> JobStates]
  /\ attempts \in [Docs -> 0..MaxAttempts]
  /\ stalls \in [Docs -> 0..MaxStalls]
  /\ lock \in [Docs -> Workers \cup {None}]
  /\ marking \subseteq Docs
  /\ pc \in [Workers -> Steps]
  /\ doc \in [Workers -> Docs \cup {None}]
  /\ pending \in [Workers -> SUBSET Hashes]
  /\ everReady \subseteq Docs

Init ==
  /\ status = [d \in Docs |-> "gone"]
  /\ outdated = {}
  /\ objects = {}
  /\ owner = [h \in Hashes |-> None]
  /\ vec = [h \in Hashes |-> None]
  /\ embModel = None
  /\ upload = [d \in Docs |-> "put"]
  /\ cleaning = {}
  /\ job = [d \in Docs |-> "none"]
  /\ attempts = [d \in Docs |-> 0]
  /\ stalls = [d \in Docs |-> 0]
  /\ lock = [d \in Docs |-> None]
  /\ marking = {}
  /\ pc = [w \in Workers |-> "idle"]
  /\ doc = [w \in Workers |-> None]
  /\ pending = [w \in Workers |-> {}]
  /\ everReady = {}

Exists(d) == status[d] # "gone"
Created(d) == upload[d] \in {"enqueue", "done"}
Deleted(d) == Created(d) /\ ~Exists(d)

(***************************************************************************)
(* The upload handler: store the bytes, create the row, enqueue the job.   *)
(* A handler that throws answers 500 and takes no further step, as does    *)
(* one whose process dies; nothing is undone.                              *)
(***************************************************************************)
PutObject(d) ==
  /\ upload[d] = "put"
  /\ objects' = objects \cup {d}
  /\ upload' = [upload EXCEPT ![d] = "create"]
  /\ UNCHANGED <<rowVars, chunkVars, embModel, cleaning, jobVars, slotVars>>

CreateDocument(d) ==
  /\ upload[d] = "create"
  /\ status' = [status EXCEPT ![d] = "UPLOADED"]
  /\ upload' = [upload EXCEPT ![d] = "enqueue"]
  /\ UNCHANGED <<outdated, everReady, chunkVars, objects, embModel, cleaning,
                 jobVars, slotVars>>

Enqueue(d) ==
  /\ upload[d] = "enqueue"
  /\ job' = [job EXCEPT ![d] = "waiting"]
  /\ upload' = [upload EXCEPT ![d] = "done"]
  /\ UNCHANGED <<rowVars, chunkVars, objects, embModel, cleaning,
                 attempts, stalls, lock, marking, slotVars>>

(***************************************************************************)
(* The delete handler: one transaction drops the row and, by the foreign   *)
(* key's cascade, its chunks; then a best-effort delete of the object,     *)
(* which may fail and so is never obliged to happen.                       *)
(***************************************************************************)
DeleteDocument(d) ==
  /\ Exists(d)
  /\ status' = [status EXCEPT ![d] = "gone"]
  /\ outdated' = outdated \ {d}
  /\ owner' = [h \in Hashes |-> IF owner[h] = d THEN None ELSE owner[h]]
  /\ vec' = [h \in Hashes |-> IF owner[h] = d THEN None ELSE vec[h]]
  /\ cleaning' = cleaning \cup {d}
  /\ UNCHANGED <<everReady, objects, embModel, upload, jobVars, slotVars>>

(* Variant: the object goes before the row.                                *)
DeleteObjectEarly(d) ==
  /\ d \in objects /\ Created(d)
  /\ objects' = objects \ {d}
  /\ cleaning' = cleaning \ {d}
  /\ UNCHANGED <<rowVars, chunkVars, embModel, upload, jobVars, slotVars>>

DeleteObject(d) ==
  /\ d \in cleaning
  /\ objects' = objects \ {d}
  /\ cleaning' = cleaning \ {d}
  /\ UNCHANGED <<rowVars, chunkVars, embModel, upload, jobVars, slotVars>>

(***************************************************************************)
(* The queue (BullMQ, external).  A slot that takes a job holds its lock;  *)
(* when the lock expires the job is stalled and delivered again, up to     *)
(* MaxStalls times, and is failed after that without a 'failed' event that *)
(* has used up the attempts.  The expired slot may still be running.       *)
(***************************************************************************)
Holds(w, d) == doc[w] = d /\ lock[d] = w

TakeJob(w, d) ==
  /\ pc[w] = "idle"
  /\ job[d] = "waiting"
  /\ job' = [job EXCEPT ![d] = "active"]
  /\ lock' = [lock EXCEPT ![d] = w]
  /\ pc' = [pc EXCEPT ![w] = "getStatus"]
  /\ doc' = [doc EXCEPT ![w] = d]
  /\ UNCHANGED <<rowVars, chunkVars, objects, embModel, apiVars, attempts,
                 stalls, marking, pending>>

(* Variant: a job that stalls once too often is left active.               *)
JobStalledOnce(d) ==
  /\ job[d] = "active" /\ \A w \in Workers : ~Holds(w, d)
  /\ stalls[d] < MaxStalls
  /\ lock' = [lock EXCEPT ![d] = None]
  /\ stalls' = [stalls EXCEPT ![d] = @ + 1]
  /\ job' = [job EXCEPT ![d] = "waiting"]
  /\ UNCHANGED <<rowVars, chunkVars, objects, embModel, apiVars, attempts,
                 marking, slotVars>>

JobStalled(d) ==
  /\ job[d] = "active"
  /\ d \in LongRunning \/ \A w \in Workers : ~Holds(w, d)
  /\ lock' = [lock EXCEPT ![d] = None]
  /\ \/ /\ stalls[d] < MaxStalls
        /\ stalls' = [stalls EXCEPT ![d] = @ + 1]
        /\ job' = [job EXCEPT ![d] = "waiting"]
     \/ /\ stalls[d] >= MaxStalls
        /\ job' = [job EXCEPT ![d] = "failed"]
        /\ UNCHANGED stalls
  /\ UNCHANGED <<rowVars, chunkVars, objects, embModel, apiVars, attempts,
                 marking, slotVars>>

Release(w) ==
  /\ pc' = [pc EXCEPT ![w] = "idle"]
  /\ doc' = [doc EXCEPT ![w] = None]
  /\ pending' = [pending EXCEPT ![w] = {}]

(* The processor returned.  Without the lock BullMQ cannot move the job:   *)
(* the worker logs an 'error' event and the slot is free.                  *)
CompleteJob(w) ==
  LET d == doc[w] IN
  /\ pc[w] = "complete"
  /\ Release(w)
  /\ \/ /\ lock[d] = w
        /\ job' = [job EXCEPT ![d] = "completed"]
        /\ lock' = [lock EXCEPT ![d] = None]
     \/ /\ lock[d] # w
        /\ UNCHANGED <<job, lock>>
  /\ UNCHANGED <<rowVars, chunkVars, objects, embModel, apiVars, attempts,
                 stalls, marking>>

(* The processor threw: retry with backoff, or fail the job and let the    *)
(* 'failed' listener issue markFailed.                                     *)
FailJob(w) ==
  LET d == doc[w] IN
  /\ pc[w] = "fail"
  /\ Release(w)
  /\ \/ /\ lock[d] = w
        /\ lock' = [lock EXCEPT ![d] = None]
        /\ attempts' = [attempts EXCEPT ![d] = @ + 1]
        /\ \/ /\ attempts[d] + 1 < MaxAttempts
              /\ job' = [job EXCEPT ![d] = "waiting"]
              /\ UNCHANGED marking
           \/ /\ attempts[d] + 1 >= MaxAttempts
              /\ job' = [job EXCEPT ![d] = "failed"]
              /\ marking' = marking \cup {d}
     \/ /\ lock[d] # w
        /\ UNCHANGED <<job, lock, attempts, marking>>
  /\ UNCHANGED <<rowVars, chunkVars, objects, embModel, apiVars, stalls>>

(* markFailed, fire-and-forget: a lost write is one that never happens.    *)
MarkFailed(d) ==
  /\ d \in marking
  /\ marking' = marking \ {d}
  /\ \/ /\ status[d] \notin {"READY", "gone"}
        /\ status' = [status EXCEPT ![d] = "FAILED"]
        /\ outdated' = outdated \ {d}
     \/ /\ status[d] \in {"READY", "gone"}
        /\ UNCHANGED <<status, outdated>>
  /\ UNCHANGED <<everReady, chunkVars, objects, embModel, apiVars, job,
                 attempts, stalls, lock, slotVars>>

(***************************************************************************)
(* runIngestion on slot w.  Goto moves the slot; Throw rejects the         *)
(* processor's promise, which BullMQ sees in FailJob.                      *)
(***************************************************************************)
Running(w) == pc[w] \notin {"idle", "complete", "fail"}

Goto(w, step) == pc' = [pc EXCEPT ![w] = step] /\ UNCHANGED <<doc, pending>>
Throw(w) == Goto(w, "fail")

Order == <<"UPLOADED", "PARSING", "EMBEDDING", "READY">>

(* Position in ORDER, counted from 0; QUEUED and FAILED count as 0.        *)
Rank(s) == IF \E i \in 1..4 : Order[i] = s
           THEN (CHOOSE i \in 1..4 : Order[i] = s) - 1
           ELSE 0

(* Variants: PARSING counts as parsed; EMBEDDING restarts the pipeline.    *)
ResumeStepSkipping(s) == CASE Rank(s) = 0 -> "setParsing"
                           [] Rank(s) \in {1, 2} -> "getUnembedded"
                           [] OTHER -> "complete"
ResumeStepRestarting(s) == IF Rank(s) = 3 THEN "complete" ELSE "setParsing"

(* Where a run resumes: the status read here is the only checkpoint.       *)
ResumeStep(s) == CASE Rank(s) = 0 -> "setParsing"
                   [] Rank(s) = 1 -> "getRef"
                   [] Rank(s) = 2 -> "getUnembedded"
                   [] OTHER -> "complete"

GetStatus(w) ==
  LET d == doc[w] IN
  /\ pc[w] = "getStatus"
  /\ \/ Exists(d) /\ Goto(w, ResumeStep(status[d]))
     \/ ~Exists(d) /\ Throw(w)
  /\ UNCHANGED <<rowVars, chunkVars, objects, embModel, apiVars, jobVars>>

(* Variant: an upsert instead of an update.                                *)
UpsertStatus(w, s, next) ==
  LET d == doc[w] IN
  /\ status' = [status EXCEPT ![d] = s]
  /\ outdated' = outdated \ {d}
  /\ everReady' = IF s = "READY" THEN everReady \cup {d} ELSE everReady
  /\ Goto(w, next)

(* setStatus: update by id.  It throws when the row is gone and looks at   *)
(* nothing else; @updatedAt makes the row fresh.                           *)
WriteStatus(w, s, next) ==
  LET d == doc[w] IN
  \/ /\ Exists(d)
     /\ status' = [status EXCEPT ![d] = s]
     /\ outdated' = outdated \ {d}
     /\ everReady' = IF s = "READY" THEN everReady \cup {d} ELSE everReady
     /\ Goto(w, next)
  \/ /\ ~Exists(d)
     /\ Throw(w)
     /\ UNCHANGED rowVars

SetStatus(w, s, next) ==
  /\ WriteStatus(w, s, next)
  /\ UNCHANGED <<chunkVars, objects, embModel, apiVars, jobVars>>

SetParsing(w) == pc[w] = "setParsing" /\ SetStatus(w, "PARSING", "getRef")
SetEmbedding(w) == pc[w] = "setEmbedding" /\ SetStatus(w, "EMBEDDING", "getUnembedded")
SetReady(w) == pc[w] = "setReady" /\ SetStatus(w, "READY", "complete")

(* parseStage: locate the row, download and parse, record the result,      *)
(* chunk and save.                                                         *)
GetRef(w) ==
  /\ pc[w] = "getRef"
  /\ \/ Exists(doc[w]) /\ Goto(w, "fetch")
     \/ ~Exists(doc[w]) /\ Throw(w)
  /\ UNCHANGED <<rowVars, chunkVars, objects, embModel, apiVars, jobVars>>

Fetch(w) ==
  LET parses == doc[w] \in objects \ Unparsable IN
  /\ pc[w] = "fetch"
  /\ \/ parses /\ Goto(w, "setParseResult")
     \/ ~parses /\ Throw(w)
  /\ UNCHANGED <<rowVars, chunkVars, objects, embModel, apiVars, jobVars>>

SetParseResult(w) ==
  LET d == doc[w] IN
  /\ pc[w] = "setParseResult"
  /\ outdated' = outdated \ {d}
  /\ \/ Exists(d) /\ ContentOf[d] # {} /\ Goto(w, "saveChunks")
     \/ (~Exists(d) \/ ContentOf[d] = {}) /\ Throw(w)
  /\ UNCHANGED <<status, everReady, chunkVars, objects, embModel, apiVars, jobVars>>

(* Variant: no foreign key from chunk to document.                         *)
SaveChunksUnchecked(w) ==
  /\ pc[w] = "saveChunks"
  /\ owner' = [h \in Hashes |-> IF h \in ContentOf[doc[w]] /\ owner[h] = None
                               THEN doc[w] ELSE owner[h]]
  /\ Goto(w, "setEmbedding")
  /\ UNCHANGED <<rowVars, vec, objects, embModel, apiVars, jobVars>>

(* createMany with ON CONFLICT DO NOTHING on (tenant, assistant,           *)
(* content_hash): hashes some document already holds are skipped.  The     *)
(* foreign key rejects new rows of a document that is gone.                *)
SaveChunks(w) ==
  LET d == doc[w]
      new == {h \in ContentOf[d] : owner[h] = None}
  IN
  /\ pc[w] = "saveChunks"
  /\ \/ /\ Exists(d) \/ new = {}
        /\ owner' = [h \in Hashes |-> IF h \in new THEN d ELSE owner[h]]
        /\ Goto(w, "setEmbedding")
     \/ /\ ~Exists(d) /\ new # {}
        /\ Throw(w)
        /\ UNCHANGED owner
  /\ UNCHANGED <<rowVars, vec, objects, embModel, apiVars, jobVars>>

(* embedStage: what is left to embed, the claim of the corpus model, then  *)
(* one batch after another.                                                *)
GetUnembedded(w) ==
  LET todo == {h \in Hashes : owner[h] = doc[w] /\ vec[h] = None} IN
  /\ pc[w] = "getUnembedded"
  /\ pending' = [pending EXCEPT ![w] = todo]
  /\ pc' = [pc EXCEPT ![w] = IF todo = {} THEN "setReady" ELSE "ensureModel"]
  /\ UNCHANGED <<doc, rowVars, chunkVars, objects, embModel, apiVars, jobVars>>

(* Variant: the claim is not read back.                                    *)
EnsureEmbeddingModelBlind(w) ==
  /\ pc[w] = "ensureModel"
  /\ embModel' = IF embModel = None THEN ModelOf[w] ELSE embModel
  /\ Goto(w, "embedBatch")
  /\ UNCHANGED <<rowVars, chunkVars, objects, apiVars, jobVars>>

EnsureEmbeddingModel(w) ==
  LET claimed == IF embModel = None THEN ModelOf[w] ELSE embModel IN
  /\ pc[w] = "ensureModel"
  /\ embModel' = claimed
  /\ \/ claimed = ModelOf[w] /\ Goto(w, "embedBatch")
     \/ claimed # ModelOf[w] /\ Throw(w)
  /\ UNCHANGED <<rowVars, chunkVars, objects, apiVars, jobVars>>

(* Variant: the loop stops after its first batch.                          *)
EmbedFirstBatch(w) ==
  /\ pc[w] = "embedBatch"
  /\ \E batch \in SUBSET pending[w] :
       /\ Cardinality(batch) = 1
       /\ vec' = [h \in Hashes |-> IF h \in batch /\ owner[h] = doc[w]
                                   THEN ModelOf[w] ELSE vec[h]]
  /\ pending' = [pending EXCEPT ![w] = {}]
  /\ pc' = [pc EXCEPT ![w] = "setReady"]
  /\ outdated' = outdated \ {doc[w]}
  /\ UNCHANGED <<doc, status, everReady, owner, objects, embModel, apiVars, jobVars>>

(* The provider call with its retries changes no shared state and is the   *)
(* time that passes before this step.  The UPDATE is by chunk id: it finds *)
(* no row for a chunk that was deleted since `pending` was read.           *)
EmbedBatch(w) ==
  /\ pc[w] = "embedBatch"
  /\ \E batch \in SUBSET pending[w] :
       /\ \/ Cardinality(batch) = BatchSize
          \/ batch = pending[w] /\ Cardinality(batch) < BatchSize
       /\ vec' = [h \in Hashes |-> IF h \in batch /\ owner[h] = doc[w]
                                   THEN ModelOf[w] ELSE vec[h]]
       /\ pending' = [pending EXCEPT ![w] = @ \ batch]
       /\ pc' = [pc EXCEPT ![w] = IF batch = pending[w] THEN "setReady" ELSE @]
  /\ outdated' = outdated \ {doc[w]}
  /\ UNCHANGED <<doc, status, everReady, owner, objects, embModel, apiVars, jobVars>>

(* Any awaited call may reject: a database or storage blip, a deadlock     *)
(* victim, an embedding provider that fails for good.                      *)
StepFails(w) ==
  /\ Running(w)
  /\ Throw(w)
  /\ UNCHANGED <<rowVars, chunkVars, objects, embModel, apiVars, jobVars>>

(* The process dies: the slot forgets its run, the lock is left behind.    *)
Crash(w) ==
  /\ pc[w] # "idle"
  /\ Release(w)
  /\ UNCHANGED <<rowVars, chunkVars, objects, embModel, apiVars, jobVars>>

(***************************************************************************)
(* The reconciler.  RowAges is STUCK_AGE_SECONDS passing without a write;  *)
(* only rows the sweep looks at need it.  The sweep is one UPDATE.         *)
(***************************************************************************)
RowAges(d) ==
  /\ status[d] \in NonTerminal
  /\ d \notin outdated
  /\ outdated' = outdated \cup {d}
  /\ UNCHANGED <<status, everReady, chunkVars, objects, embModel, apiVars,
                 jobVars, slotVars>>

(* Variant: the sweep forgets rows no worker ever touched.                 *)
SweptStarted == {d \in outdated : status[d] \in NonTerminal \ {"UPLOADED"}}

Swept == {d \in outdated : status[d] \in NonTerminal}

Reconcile ==
  /\ Swept # {}
  /\ status' = [d \in Docs |-> IF d \in Swept THEN "FAILED" ELSE status[d]]
  /\ UNCHANGED <<outdated, everReady, chunkVars, objects, embModel, apiVars,
                 jobVars, slotVars>>

Slot(w) ==
  \/ GetStatus(w) \/ SetParsing(w) \/ GetRef(w) \/ Fetch(w) \/ SetParseResult(w)
  \/ SaveChunks(w) \/ SetEmbedding(w) \/ GetUnembedded(w)
  \/ EnsureEmbeddingModel(w) \/ EmbedBatch(w) \/ SetReady(w)
  \/ CompleteJob(w) \/ FailJob(w) \/ \E d \in Docs : TakeJob(w, d)

Document(d) ==
  \/ PutObject(d) \/ CreateDocument(d) \/ Enqueue(d)
  \/ DeleteDocument(d) \/ DeleteObject(d)
  \/ JobStalled(d) \/ MarkFailed(d) \/ RowAges(d)

Next ==
  \/ \E d \in Docs : Document(d)
  \/ \E w \in Workers : Slot(w) \/ StepFails(w) \/ Crash(w)
  \/ Reconcile

Spec == Init /\ [][Next]_vars

(***************************************************************************)
(* Fairness.  The sweep runs on a timer and time passes; slots are driven  *)
(* by an event loop and every awaited call settles; BullMQ's stalled check *)
(* runs on a timer.  Nothing obliges a user to upload or delete, and no    *)
(* best-effort write (MarkFailed, DeleteObject) is obliged to happen.      *)
(***************************************************************************)
SweepSpec ==
  /\ Spec
  /\ WF_vars(Reconcile)
  /\ \A d \in Docs : WF_vars(RowAges(d))

LiveSpec ==
  /\ SweepSpec
  /\ \A w \in Workers : WF_vars(Slot(w))
  /\ \A d \in Docs : WF_vars(JobStalled(d))

-----------------------------------------------------------------------------
(* Safety.                                                                 *)

(* A run that is still going when its document is deleted leaves no chunk  *)
(* behind: every chunk row belongs to a document row ("the worker          *)
(* tolerates a vanished doc", documents.ts).                               *)
ChunksHaveDocuments == \A h \in Hashes : owner[h] # None => Exists(owner[h])

(* One corpus, one vector space: whatever slots, configured with whatever  *)
(* models, race to embed, every vector of the assistant comes from the     *)
(* model recorded on it, and only chunk rows have vectors.                 *)
SingleVectorSpace ==
  \A h \in Hashes : vec[h] # None => vec[h] = embModel /\ owner[h] # None

(* The row never points at bytes that are not there: upload stores before  *)
(* it records, delete removes the row before the object.                   *)
RowsHaveObjects == \A d \in Docs : Exists(d) => d \in objects

(* A chunk hash of d that is held by no row at all was held by another     *)
(* document that shared it and has been deleted.                           *)
LostWithSharer(d, h) ==
  /\ owner[h] = None
  /\ \E e \in Docs \ {d} : h \in ContentOf[e] /\ Deleted(e)

(* The status is an honest checkpoint: once a row says EMBEDDING or READY, *)
(* resuming past the parse stage loses none of the document's chunks,      *)
(* except those a deleted sharer took with it.                             *)
CheckpointIsHonest ==
  \A d \in Docs : status[d] \in {"EMBEDDING", "READY"} =>
    \A h \in ContentOf[d] : owner[h] # None \/ LostWithSharer(d, h)

(* A document that is READY has a vector on every chunk row of its own, if *)
(* no two runs of it ever overlap: crashes, retries, resumes and late      *)
(* recoveries included.                                                    *)
ReadyIsEmbedded ==
  \A d \in Docs \ LongRunning : status[d] = "READY" =>
    \A h \in Hashes : owner[h] = d => vec[h] # None

(* No write of a run, a listener or the sweep brings a deleted row back.   *)
DeletedStaysDeleted ==
  [][\A d \in Docs : Deleted(d) => ~Exists(d)']_vars

(* Without overlapping runs the rows implement the promised lifecycle.     *)
Lifecycle == INSTANCE DocumentLifecycle WITH
  stage <- [d \in Docs |-> IF Exists(d) THEN status[d]
                           ELSE IF Created(d) THEN "deleted" ELSE "new"]

RowsFollowLifecycle == Lifecycle!Spec

(* Liveness.                                                               *)

(* Whatever was lost on the way (an enqueue after the row was written, a   *)
(* run, a markFailed), no row sits in a non-terminal status for ever.      *)
EveryRowSettles ==
  \A d \in Docs : <>[](status[d] \in {"READY", "FAILED", "gone"})

(* Every job that was enqueued ends, however its runs crash or throw.      *)
EveryJobEnds ==
  \A d \in Docs : job[d] = "waiting" ~> job[d] \in {"completed", "failed"}

-----------------------------------------------------------------------------
(* What comments of the code say, and the runs show to be otherwise.       *)

(* "nothing to retrieve -- fail it rather than let it reach READY empty"   *)
(* (pipeline.ts): a document that becomes READY has a chunk to retrieve,   *)
(* its own or a shared one.                                                *)
NeverReachesReadyEmpty ==
  [][\A d \in Docs : status[d] # "READY" /\ status'[d] = "READY" =>
       \E h \in ContentOf[d] : owner[h] # None]_vars

(* "a completed document is never flipped back to FAILED"                  *)
(* (document-store.ts).                                                    *)
CompletedNeverFailed == \A d \in everReady : status[d] # "FAILED"
=============================================================================
