-------------------------- MODULE IngestionProofs --------------------------
(***************************************************************************)
(* The safety invariants of Ingestion, proved for every number of          *)
(* documents, chunks, slots and models and every retry and stall limit.    *)
(* Last, what holds of the documents whose runs never overlap: they are    *)
(* READY only with every chunk embedded, and, if they are all the          *)
(* documents, the rows implement DocumentLifecycle.                        *)
(***************************************************************************)
EXTENDS Ingestion, Sequences, TLAPS

(* A busy slot works on a document whose upload handler has enqueued it.   *)
SlotsHaveJobs ==
  \A w \in Workers :
    /\ pc[w] # "idle" => doc[w] # None
    /\ doc[w] # None => upload[doc[w]] = "done"

(* A job exists once it is enqueued, is locked only while active, and has  *)
(* attempts left until it has ended.                                       *)
JobsHaveAttempts ==
  \A d \in Docs :
    /\ upload[d] # "done" => job[d] = "none"
    /\ lock[d] # None => job[d] = "active"
    /\ job[d] \in {"none", "waiting", "active"} => attempts[d] < MaxAttempts

TypeInv == TypeOK /\ SlotsHaveJobs /\ JobsHaveAttempts

USE DEF rowVars, chunkVars, apiVars, jobVars, slotVars

LEMMA ResumeStepType ==
  ASSUME NEW s
  PROVE  ResumeStep(s) \in {"setParsing", "getRef", "getUnembedded", "complete"}
BY DEF ResumeStep

LEMMA TypeInit == Init => TypeInv
BY NoneAssumption, BoundsAssumption
   DEF Init, TypeInv, TypeOK, SlotsHaveJobs, JobsHaveAttempts, UploadSteps,
       JobStates, Steps, Statuses, NonTerminal

LEMMA TypeDocument ==
  ASSUME TypeInv, NEW d \in Docs, Document(d)
  PROVE  TypeInv'
<1> USE NoneAssumption, BoundsAssumption
    DEF TypeInv, TypeOK, SlotsHaveJobs, JobsHaveAttempts, UploadSteps,
        JobStates, Steps, Statuses, NonTerminal, Exists
<1>1. CASE PutObject(d)
  BY <1>1 DEF PutObject
<1>2. CASE CreateDocument(d)
  BY <1>2 DEF CreateDocument
<1>3. CASE Enqueue(d)
  BY <1>3 DEF Enqueue
<1>4. CASE DeleteDocument(d)
  BY <1>4 DEF DeleteDocument
<1>5. CASE DeleteObject(d)
  BY <1>5 DEF DeleteObject
<1>6. CASE JobStalled(d)
  BY <1>6 DEF JobStalled
<1>7. CASE MarkFailed(d)
  BY <1>7 DEF MarkFailed
<1>8. CASE RowAges(d)
  BY <1>8 DEF RowAges
<1> QED
  BY <1>1, <1>2, <1>3, <1>4, <1>5, <1>6, <1>7, <1>8 DEF Document

LEMMA TypeSlot ==
  ASSUME TypeInv, NEW w \in Workers, Slot(w) \/ StepFails(w) \/ Crash(w)
  PROVE  TypeInv'
<1> USE NoneAssumption, BoundsAssumption
    DEF TypeInv, TypeOK, SlotsHaveJobs, JobsHaveAttempts, Steps, Statuses,
        NonTerminal, JobStates, Exists, Goto, Throw, Release
<1> doc[w] # None => doc[w] \in Docs
  OBVIOUS
<1>1. CASE GetStatus(w)
  BY <1>1, ResumeStepType DEF GetStatus
<1>2. CASE SetParsing(w) \/ SetEmbedding(w) \/ SetReady(w)
  BY <1>2 DEF SetParsing, SetEmbedding, SetReady, SetStatus, WriteStatus
<1>3. CASE GetRef(w)
  BY <1>3 DEF GetRef
<1>4. CASE Fetch(w)
  BY <1>4 DEF Fetch
<1>5. CASE SetParseResult(w)
  BY <1>5 DEF SetParseResult
<1>6. CASE SaveChunks(w)
  BY <1>6 DEF SaveChunks
<1>7. CASE GetUnembedded(w)
  BY <1>7 DEF GetUnembedded
<1>8. CASE EnsureEmbeddingModel(w)
  BY <1>8, ModelAssumption DEF EnsureEmbeddingModel
<1>9. CASE EmbedBatch(w)
  <2>1. PICK batch \in SUBSET pending[w] :
          /\ vec' = [h \in Hashes |-> IF h \in batch /\ owner[h] = doc[w]
                                      THEN ModelOf[w] ELSE vec[h]]
          /\ pending' = [pending EXCEPT ![w] = @ \ batch]
          /\ pc' = [pc EXCEPT ![w] = IF batch = pending[w] THEN "setReady" ELSE @]
    BY <1>9 DEF EmbedBatch
  <2>2. vec' \in [Hashes -> Models \cup {None}]
    BY <2>1, ModelAssumption
  <2>3. pending' \in [Workers -> SUBSET Hashes]
    BY <2>1
  <2>4. /\ pc' \in [Workers -> Steps]
        /\ \A v \in Workers : pc'[v] # "idle" => doc'[v] # None
    BY <1>9, <2>1 DEF EmbedBatch
  <2> QED
    BY <1>9, <2>2, <2>3, <2>4 DEF EmbedBatch
<1>10. CASE CompleteJob(w)
  BY <1>10 DEF CompleteJob
<1>11. CASE FailJob(w)
  BY <1>11 DEF FailJob
<1>12. CASE \E d \in Docs : TakeJob(w, d)
  BY <1>12 DEF TakeJob
<1>13. CASE StepFails(w)
  BY <1>13 DEF StepFails, Running
<1>14. CASE Crash(w)
  BY <1>14 DEF Crash
<1> QED
  BY <1>1, <1>2, <1>3, <1>4, <1>5, <1>6, <1>7, <1>8, <1>9, <1>10, <1>11,
     <1>12, <1>13, <1>14 DEF Slot

LEMMA TypeReconcile == TypeInv /\ Reconcile => TypeInv'
BY DEF Reconcile, Swept, TypeInv, TypeOK, SlotsHaveJobs, JobsHaveAttempts,
       Statuses, NonTerminal

LEMMA TypeStutter == TypeInv /\ UNCHANGED vars => TypeInv'
BY DEF vars, TypeInv, TypeOK, SlotsHaveJobs, JobsHaveAttempts

LEMMA TypeNext == TypeInv /\ [Next]_vars => TypeInv'
BY TypeDocument, TypeSlot, TypeReconcile, TypeStutter DEF Next

LEMMA TypeInvariant == Spec => []TypeInv
BY TypeInit, TypeNext, PTL DEF Spec

(* Every state of the service is well typed; in particular a job never     *)
(* uses more attempts than BullMQ allows it.                               *)
THEOREM TypeCorrect == Spec => []TypeOK
BY TypeInvariant, PTL DEF TypeInv

-----------------------------------------------------------------------------
(* RowsHaveObjects.  Only a delete handler that removed the row ever       *)
(* removes the object, and an upload that has yet to create its row has    *)
(* stored the object.                                                      *)
ObjectInv ==
  \A d \in Docs :
    /\ Exists(d) => d \in objects /\ Created(d)
    /\ upload[d] = "create" => d \in objects
    /\ d \in cleaning => Deleted(d)

LEMMA ObjectDocument ==
  ASSUME TypeInv, ObjectInv, NEW d \in Docs, Document(d)
  PROVE  ObjectInv'
<1> USE DEF TypeInv, TypeOK, ObjectInv, Exists, Created, Deleted
<1>1. CASE PutObject(d)
  BY <1>1 DEF PutObject
<1>2. CASE CreateDocument(d)
  BY <1>2 DEF CreateDocument
<1>3. CASE Enqueue(d)
  BY <1>3 DEF Enqueue
<1>4. CASE DeleteDocument(d)
  BY <1>4 DEF DeleteDocument
<1>5. CASE DeleteObject(d)
  BY <1>5 DEF DeleteObject
<1>6. CASE JobStalled(d)
  BY <1>6 DEF JobStalled
<1>7. CASE MarkFailed(d)
  BY <1>7 DEF MarkFailed
<1>8. CASE RowAges(d)
  BY <1>8 DEF RowAges
<1> QED
  BY <1>1, <1>2, <1>3, <1>4, <1>5, <1>6, <1>7, <1>8 DEF Document

(* A slot writes no row but its document's status, and only when the row   *)
(* is there.                                                               *)
LEMMA SlotRows ==
  ASSUME TypeInv, NEW w \in Workers, Slot(w) \/ StepFails(w) \/ Crash(w)
  PROVE  /\ UNCHANGED <<objects, upload, cleaning>>
         /\ \/ UNCHANGED status
            \/ /\ doc[w] \in Docs /\ Exists(doc[w])
               /\ \E s \in {"PARSING", "EMBEDDING", "READY"} :
                    status' = [status EXCEPT ![doc[w]] = s]
<1> USE DEF TypeInv, TypeOK, SlotsHaveJobs
<1>1. CASE SetParsing(w) \/ SetEmbedding(w) \/ SetReady(w)
  BY <1>1 DEF SetParsing, SetEmbedding, SetReady, SetStatus, WriteStatus
<1>2. CASE \/ GetStatus(w) \/ GetRef(w) \/ Fetch(w) \/ SetParseResult(w)
           \/ SaveChunks(w) \/ GetUnembedded(w) \/ EnsureEmbeddingModel(w)
           \/ EmbedBatch(w) \/ CompleteJob(w) \/ FailJob(w)
           \/ (\E d \in Docs : TakeJob(w, d)) \/ StepFails(w) \/ Crash(w)
  BY <1>2 DEF GetStatus, GetRef, Fetch, SetParseResult, SaveChunks,
     GetUnembedded, EnsureEmbeddingModel, EmbedBatch, CompleteJob, FailJob,
     TakeJob, StepFails, Crash
<1> QED
  BY <1>1, <1>2 DEF Slot

LEMMA ObjectNext == TypeInv /\ ObjectInv /\ [Next]_vars => ObjectInv'
<1> SUFFICES ASSUME TypeInv, ObjectInv, [Next]_vars
             PROVE  ObjectInv'
  OBVIOUS
<1>1. ASSUME NEW w \in Workers, Slot(w) \/ StepFails(w) \/ Crash(w)
      PROVE  ObjectInv'
  BY <1>1, SlotRows DEF ObjectInv, Exists, Created, Deleted, TypeInv, TypeOK
<1>2. CASE Reconcile
  BY <1>2 DEF Reconcile, Swept, NonTerminal, ObjectInv, Exists, Created, Deleted
<1>3. CASE UNCHANGED vars
  BY <1>3 DEF vars, ObjectInv, Exists, Created, Deleted
<1> QED
  BY <1>1, <1>2, <1>3, ObjectDocument DEF Next

(* A row never points at bytes that are not in the object store.           *)
THEOREM RowsAlwaysHaveObjects == Spec => []RowsHaveObjects
<1>1. Init => ObjectInv
  BY DEF Init, ObjectInv, Exists, Created, Deleted
<1>2. ObjectInv => RowsHaveObjects
  BY DEF ObjectInv, RowsHaveObjects
<1> QED
  BY <1>1, <1>2, ObjectNext, TypeInvariant, PTL DEF Spec

LEMMA DeletedStep ==
  ASSUME TypeInv, ObjectInv, [Next]_vars, NEW e \in Docs, Deleted(e)
  PROVE  ~Exists(e)'
<1> USE DEF TypeInv, TypeOK, Deleted, Created, Exists
<1>1. ASSUME NEW d \in Docs, Document(d)
      PROVE  ~Exists(e)'
  BY <1>1 DEF Document, PutObject, CreateDocument, Enqueue, DeleteDocument,
     DeleteObject, JobStalled, MarkFailed, RowAges
<1>2. ASSUME NEW w \in Workers, Slot(w) \/ StepFails(w) \/ Crash(w)
      PROVE  ~Exists(e)'
  BY <1>2, SlotRows
<1>3. CASE Reconcile \/ UNCHANGED vars
  BY <1>3 DEF Reconcile, Swept, NonTerminal, vars
<1> QED
  BY <1>1, <1>2, <1>3 DEF Next

(* No step of anyone brings a deleted document back.                       *)
THEOREM DeletesAreFinal == Spec => DeletedStaysDeleted
<1>1. TypeInv /\ ObjectInv /\ [Next]_vars
        => [\A d \in Docs : Deleted(d) => ~Exists(d)']_vars
  BY DeletedStep
<1>2. Init => ObjectInv
  BY DEF Init, ObjectInv, Exists, Created, Deleted
<1> QED
  BY <1>1, <1>2, ObjectNext, TypeInvariant, PTL DEF Spec, DeletedStaysDeleted

-----------------------------------------------------------------------------
(* ChunksHaveDocuments and SingleVectorSpace.  What protects the vector    *)
(* space is that a slot embeds only after the claim succeeded and that the *)
(* claim is never undone.                                                  *)
ChunkInv ==
  \A h \in Hashes : owner[h] # None =>
    /\ Exists(owner[h])
    /\ h \in ContentOf[owner[h]]
    /\ Created(owner[h])

VectorInv ==
  /\ \A h \in Hashes : vec[h] # None => vec[h] = embModel /\ owner[h] # None
  /\ \A w \in Workers : pc[w] = "embedBatch" => embModel = ModelOf[w]

(* The steps that leave every chunk row and the assistant alone.           *)
LEMMA ChunkFrame ==
  ASSUME TypeInv, [Next]_vars,
         ~\E d \in Docs : DeleteDocument(d),
         ~\E w \in Workers : SaveChunks(w) \/ EmbedBatch(w)
  PROVE  UNCHANGED <<owner, vec>>
<1>1. ASSUME NEW d \in Docs, Document(d)
      PROVE  UNCHANGED <<owner, vec>>
  BY <1>1 DEF Document, PutObject, CreateDocument, Enqueue, DeleteObject,
     JobStalled, MarkFailed, RowAges
<1>2. ASSUME NEW w \in Workers, Slot(w) \/ StepFails(w) \/ Crash(w)
      PROVE  UNCHANGED <<owner, vec>>
  BY <1>2 DEF Slot, GetStatus, SetParsing, SetEmbedding, SetReady, SetStatus,
     GetRef, Fetch, SetParseResult, GetUnembedded, EnsureEmbeddingModel,
     CompleteJob, FailJob, TakeJob, StepFails, Crash
<1> QED
  BY <1>1, <1>2 DEF Next, Reconcile, vars

(* A row that exists still exists after any step but its own delete, and   *)
(* an upload that created its row has created it for good.                 *)
LEMMA RowsStay ==
  ASSUME TypeInv, ObjectInv, [Next]_vars, NEW d \in Docs
  PROVE  /\ Created(d) => Created(d)'
         /\ Exists(d) /\ ~DeleteDocument(d) => Exists(d)'
<1> USE DEF TypeInv, TypeOK, Created, Exists
<1>1. ASSUME NEW e \in Docs, Document(e)
      PROVE  /\ Created(d) => Created(d)'
             /\ Exists(d) /\ ~DeleteDocument(d) => Exists(d)'
  BY <1>1 DEF Document, PutObject, CreateDocument, Enqueue, DeleteDocument,
     DeleteObject, JobStalled, MarkFailed, RowAges
<1>2. ASSUME NEW w \in Workers, Slot(w) \/ StepFails(w) \/ Crash(w)
      PROVE  /\ Created(d) => Created(d)'
             /\ Exists(d) /\ ~DeleteDocument(d) => Exists(d)'
  BY <1>2, SlotRows
<1>3. CASE Reconcile
  BY <1>3 DEF Reconcile
<1>4. CASE UNCHANGED vars
  BY <1>4 DEF vars
<1> QED
  BY <1>1, <1>2, <1>3, <1>4 DEF Next

LEMMA ChunkNext ==
  ASSUME TypeInv, ObjectInv, ChunkInv, [Next]_vars
  PROVE  ChunkInv'
<1> SUFFICES ASSUME NEW h \in Hashes, owner'[h] # None
             PROVE  /\ Exists(owner[h])'
                    /\ h \in ContentOf[owner'[h]]
                    /\ Created(owner[h])'
  BY DEF ChunkInv
<1> USE DEF TypeInv, TypeOK
<1>1. CASE \E d \in Docs : DeleteDocument(d)
  BY <1>1 DEF DeleteDocument, ChunkInv, Exists, Created
<1>2. CASE \E w \in Workers : SaveChunks(w)
  BY <1>2, NoneAssumption
     DEF SaveChunks, ChunkInv, Exists, Created, SlotsHaveJobs, Goto, Throw, ObjectInv
<1>3. CASE \E w \in Workers : EmbedBatch(w)
  BY <1>3 DEF EmbedBatch, ChunkInv, Exists, Created
<1>4. CASE /\ ~\E d \in Docs : DeleteDocument(d)
           /\ ~\E w \in Workers : SaveChunks(w) \/ EmbedBatch(w)
  <2>1. owner'[h] = owner[h] /\ owner[h] \in Docs
    BY <1>4, ChunkFrame
  <2> QED
    BY <1>4, <2>1, RowsStay DEF ChunkInv, Exists, Created
<1> QED
  BY <1>1, <1>2, <1>3, <1>4

(* The claim on the assistant is never undone.                             *)
LEMMA ClaimStays ==
  ASSUME TypeInv, [Next]_vars
  PROVE  embModel # None => embModel' = embModel
<1>1. ASSUME NEW d \in Docs, Document(d)
      PROVE  embModel' = embModel
  BY <1>1 DEF Document, PutObject, CreateDocument, Enqueue, DeleteDocument,
     DeleteObject, JobStalled, MarkFailed, RowAges
<1>2. ASSUME NEW w \in Workers, Slot(w) \/ StepFails(w) \/ Crash(w)
      PROVE  embModel # None => embModel' = embModel
  BY <1>2 DEF Slot, GetStatus, SetParsing, SetEmbedding, SetReady, SetStatus,
     GetRef, Fetch, SetParseResult, SaveChunks, GetUnembedded,
     EnsureEmbeddingModel, EmbedBatch, CompleteJob, FailJob, TakeJob,
     StepFails, Crash
<1> QED
  BY <1>1, <1>2 DEF Next, Reconcile, vars

(* Only the claim moves a slot to the embedding loop.                      *)
LEMMA ClaimBeforeEmbedding ==
  ASSUME TypeInv, VectorInv, [Next]_vars, NEW w \in Workers,
         pc'[w] = "embedBatch"
  PROVE  embModel' = ModelOf[w]
<1> USE DEF TypeInv, TypeOK
<1> ModelOf[w] # None
  BY ModelAssumption, NoneAssumption
<1>1. CASE pc[w] = "embedBatch"
  BY <1>1, ClaimStays DEF VectorInv
<1>2. CASE pc[w] # "embedBatch"
  <2>1. ASSUME NEW v \in Workers, Slot(v) \/ StepFails(v) \/ Crash(v)
        PROVE  EnsureEmbeddingModel(w)
    BY <1>2, <2>1, ResumeStepType DEF Slot, GetStatus, SetParsing, SetEmbedding,
       SetReady, SetStatus, WriteStatus, GetRef, Fetch, SetParseResult, SaveChunks,
       GetUnembedded, EnsureEmbeddingModel, EmbedBatch, CompleteJob, FailJob,
       TakeJob, StepFails, Crash, Goto, Throw, Release
  <2>2. ASSUME NEW d \in Docs, Document(d)
        PROVE  pc' = pc
    BY <2>2 DEF Document, PutObject, CreateDocument, Enqueue, DeleteDocument,
       DeleteObject, JobStalled, MarkFailed, RowAges
  <2>3. EnsureEmbeddingModel(w)
    BY <1>2, <2>1, <2>2 DEF Next, Reconcile, vars
  <2> QED
    BY <2>3 DEF EnsureEmbeddingModel, Goto, Throw
<1> QED
  BY <1>1, <1>2

LEMMA VectorNext ==
  ASSUME TypeInv, VectorInv, [Next]_vars
  PROVE  VectorInv'
<1> USE DEF TypeInv, TypeOK
<1>1. ASSUME NEW h \in Hashes, vec'[h] # None
      PROVE  vec'[h] = embModel' /\ owner'[h] # None
  <2>1. CASE \E d \in Docs : DeleteDocument(d)
    BY <1>1, <2>1 DEF DeleteDocument, VectorInv
  <2>2. CASE \E w \in Workers : SaveChunks(w)
    BY <1>1, <2>2, NoneAssumption DEF SaveChunks, VectorInv
  <2>3. CASE \E w \in Workers : EmbedBatch(w)
    BY <1>1, <2>3, NoneAssumption, ModelAssumption
       DEF EmbedBatch, VectorInv, SlotsHaveJobs
  <2>4. CASE /\ ~\E d \in Docs : DeleteDocument(d)
             /\ ~\E w \in Workers : SaveChunks(w) \/ EmbedBatch(w)
    BY <1>1, <2>4, ChunkFrame, ClaimStays, NoneAssumption DEF VectorInv
  <2> QED
    BY <2>1, <2>2, <2>3, <2>4
<1> QED
  BY <1>1, ClaimBeforeEmbedding DEF VectorInv

LEMMA ChunkAndVectorInvariant == Spec => [](ObjectInv /\ ChunkInv /\ VectorInv)
<1>1. Init => ObjectInv /\ ChunkInv /\ VectorInv
  BY DEF Init, ObjectInv, ChunkInv, VectorInv, Exists, Created, Deleted
<1>2. TypeInv /\ ObjectInv /\ ChunkInv /\ VectorInv /\ [Next]_vars
        => (ObjectInv /\ ChunkInv /\ VectorInv)'
  BY ObjectNext, ChunkNext, VectorNext
<1> QED
  BY <1>1, <1>2, TypeInvariant, PTL DEF Spec

(* A run that outlives its document leaves no chunk behind.                *)
THEOREM NoOrphanChunks == Spec => []ChunksHaveDocuments
<1>1. ChunkInv => ChunksHaveDocuments
  BY DEF ChunkInv, ChunksHaveDocuments
<1> QED
  BY <1>1, ChunkAndVectorInvariant, PTL

(* Whatever slots with whatever models race, the corpus of an assistant    *)
(* is one vector space, the one recorded on the assistant.                 *)
THEOREM OneVectorSpace == Spec => []SingleVectorSpace
<1>1. VectorInv => SingleVectorSpace
  BY DEF VectorInv, SingleVectorSpace
<1> QED
  BY <1>1, ChunkAndVectorInvariant, PTL

-----------------------------------------------------------------------------
(* CheckpointIsHonest.  Past the save, the chunks of a document are held by *)
(* rows, except those a deleted sharer took; the row says EMBEDDING or     *)
(* READY only past the save, and a slot that resumes there trusts the row. *)
ContentHeld(d) ==
  \A h \in ContentOf[d] : owner[h] # None \/ LostWithSharer(d, h)

PastSave == {"setEmbedding", "getUnembedded", "ensureModel", "embedBatch", "setReady"}

CheckpointInv ==
  /\ \A d \in Docs : status[d] \in {"EMBEDDING", "READY"} => ContentHeld(d)
  /\ \A w \in Workers :
       pc[w] \in PastSave /\ Exists(doc[w]) => ContentHeld(doc[w])

(* Once held, the content stays held as long as the row is there.          *)
LEMMA HeldStays ==
  ASSUME TypeInv, ObjectInv, ChunkInv, [Next]_vars,
         NEW d \in Docs, ContentHeld(d), Exists(d)'
  PROVE  ContentHeld(d)'
<1> SUFFICES ASSUME NEW h \in ContentOf[d], owner'[h] = None
             PROVE  LostWithSharer(d, h)'
  BY DEF ContentHeld
<1> h \in Hashes
  BY ContentAssumption
<1> USE DEF TypeInv, TypeOK
<1>1. CASE owner[h] = None
  <2>1. PICK e \in Docs \ {d} : h \in ContentOf[e] /\ Deleted(e)
    BY <1>1 DEF ContentHeld, LostWithSharer
  <2>2. Deleted(e)'
    BY <2>1, RowsStay, DeletedStep DEF Deleted
  <2> QED
    BY <2>1, <2>2 DEF LostWithSharer
<1>2. CASE owner[h] # None
  <2>1. PICK e \in Docs : DeleteDocument(e)
    <3>1. CASE \E w \in Workers : SaveChunks(w)
      BY <1>2, <3>1, NoneAssumption DEF SaveChunks
    <3>2. CASE \E w \in Workers : EmbedBatch(w)
      BY <1>2, <3>2 DEF EmbedBatch
    <3> QED
      BY <1>2, <3>1, <3>2, ChunkFrame
  <2>2. owner[h] = e /\ e # d
    BY <1>2, <2>1 DEF DeleteDocument, Exists
  <2>3. h \in ContentOf[e] /\ Created(e)'
    BY <1>2, <2>2, RowsStay DEF ChunkInv
  <2>4. ~Exists(e)'
    BY <2>1 DEF DeleteDocument, Exists
  <2> QED
    BY <2>2, <2>3, <2>4 DEF LostWithSharer, Deleted
<1> QED
  BY <1>1, <1>2

(* After a save that did not throw the content is held.                    *)
LEMMA SaveHolds ==
  ASSUME TypeInv, NEW w \in Workers, SaveChunks(w), pc'[w] = "setEmbedding"
  PROVE  ContentHeld(doc[w])'
<1> DEFINE new == {h \in ContentOf[doc[w]] : owner[h] = None}
<1> USE DEF TypeInv, TypeOK, SlotsHaveJobs
<1>1. doc[w] \in Docs /\ doc' = doc
  BY DEF SaveChunks, Goto, Throw
<1>2. owner' = [h \in Hashes |-> IF h \in new THEN doc[w] ELSE owner[h]]
  BY DEF SaveChunks, Goto, Throw
<1>3. ASSUME NEW h \in ContentOf[doc[w]]
      PROVE  owner'[h] # None
  BY <1>1, <1>2, <1>3, ContentAssumption, NoneAssumption
<1> QED
  BY <1>1, <1>3 DEF ContentHeld

(* Only a slot past the save moves a row to EMBEDDING or READY.            *)
LEMMA AdvancePastSave ==
  ASSUME TypeInv, [Next]_vars, NEW d \in Docs,
         status'[d] \in {"EMBEDDING", "READY"}, status'[d] # status[d]
  PROVE  \E w \in Workers : pc[w] \in PastSave /\ doc[w] = d /\ Exists(d)
<1> USE DEF TypeInv, TypeOK, SlotsHaveJobs
<1>1. ASSUME NEW e \in Docs, Document(e)
      PROVE  FALSE
  BY <1>1 DEF Document, PutObject, CreateDocument, Enqueue, DeleteDocument,
     DeleteObject, JobStalled, MarkFailed, RowAges
<1>2. ASSUME NEW w \in Workers, Slot(w) \/ StepFails(w) \/ Crash(w)
      PROVE  pc[w] \in PastSave /\ doc[w] = d /\ Exists(d)
  <2>1. CASE SetParsing(w)
    BY <2>1 DEF SetParsing, SetStatus, WriteStatus, Exists
  <2>2. CASE SetEmbedding(w) \/ SetReady(w)
    BY <2>2 DEF SetEmbedding, SetReady, SetStatus, WriteStatus, PastSave, Exists
  <2>3. CASE ~(SetParsing(w) \/ SetEmbedding(w) \/ SetReady(w))
    BY <1>2, <2>3 DEF Slot, GetStatus, GetRef, Fetch, SetParseResult, SaveChunks,
       GetUnembedded, EnsureEmbeddingModel, EmbedBatch, CompleteJob, FailJob,
       TakeJob, StepFails, Crash
  <2> QED
    BY <2>1, <2>2, <2>3
<1>3. ~Reconcile /\ ~UNCHANGED vars
  BY DEF Reconcile, vars
<1> QED
  BY <1>1, <1>2, <1>3 DEF Next

(* A slot enters the steps past the save by saving or by resuming.         *)
LEMMA EnterPastSave ==
  ASSUME TypeInv, [Next]_vars, NEW w \in Workers, pc'[w] \in PastSave
  PROVE  /\ doc'[w] = doc[w] /\ doc[w] \in Docs
         /\ \/ pc[w] \in PastSave
            \/ SaveChunks(w) /\ pc'[w] = "setEmbedding"
            \/ GetStatus(w) /\ status[doc[w]] = "EMBEDDING"
<1> USE DEF TypeInv, TypeOK, SlotsHaveJobs, PastSave
<1>1. ASSUME NEW d \in Docs, Document(d)
      PROVE  pc' = pc /\ doc' = doc
  BY <1>1 DEF Document, PutObject, CreateDocument, Enqueue, DeleteDocument,
     DeleteObject, JobStalled, MarkFailed, RowAges
<1>2. ASSUME NEW v \in Workers, Slot(v) \/ StepFails(v) \/ Crash(v), v # w
      PROVE  pc'[w] = pc[w] /\ doc'[w] = doc[w]
  BY <1>2 DEF Slot, GetStatus, SetParsing, SetEmbedding, SetReady, SetStatus,
     WriteStatus, GetRef, Fetch, SetParseResult, SaveChunks, GetUnembedded,
     EnsureEmbeddingModel, EmbedBatch, CompleteJob, FailJob, TakeJob,
     StepFails, Crash, Goto, Throw, Release
<1>3. ASSUME Slot(w) \/ StepFails(w) \/ Crash(w)
      PROVE  /\ doc'[w] = doc[w] /\ doc[w] \in Docs
             /\ \/ pc[w] \in PastSave
                \/ SaveChunks(w) /\ pc'[w] = "setEmbedding"
                \/ GetStatus(w) /\ status[doc[w]] = "EMBEDDING"
  <2>1. CASE GetStatus(w)
    <3>1. doc' = doc /\ doc[w] \in Docs
      BY <2>1 DEF GetStatus, Goto, Throw
    <3>2. pc'[w] = ResumeStep(status[doc[w]])
      BY <2>1 DEF GetStatus, Goto, Throw
    <3>3. Rank(status[doc[w]]) = 2
      BY <3>2 DEF ResumeStep
    <3>4. status[doc[w]] = "EMBEDDING"
      BY <3>3 DEF Rank, Order
    <3> QED
      BY <2>1, <3>1, <3>4
  <2>2. CASE SaveChunks(w)
    BY <2>2 DEF SaveChunks, Goto, Throw
  <2>3. CASE ~GetStatus(w) /\ ~SaveChunks(w)
    BY <1>3, <2>3 DEF Slot, SetParsing, SetEmbedding, SetReady, SetStatus,
       WriteStatus, GetRef, Fetch, SetParseResult, GetUnembedded,
       EnsureEmbeddingModel, EmbedBatch, CompleteJob, FailJob, TakeJob,
       StepFails, Crash, Goto, Throw, Release
  <2> QED
    BY <2>1, <2>2, <2>3
<1>4. ASSUME Reconcile \/ UNCHANGED vars
      PROVE  pc' = pc /\ doc' = doc
  BY <1>4 DEF Reconcile, vars
<1> QED
  BY <1>1, <1>2, <1>3, <1>4 DEF Next

LEMMA CheckpointNext ==
  ASSUME TypeInv, ObjectInv, ChunkInv, CheckpointInv, [Next]_vars
  PROVE  CheckpointInv'
<1> USE DEF TypeInv, TypeOK
<1>1. ASSUME NEW d \in Docs, status'[d] \in {"EMBEDDING", "READY"}
      PROVE  ContentHeld(d)'
  <2>1. Exists(d)'
    BY <1>1 DEF Exists
  <2>2. ContentHeld(d)
    BY <1>1, AdvancePastSave DEF CheckpointInv
  <2> QED
    BY <2>1, <2>2, HeldStays
<1>2. ASSUME NEW w \in Workers, pc'[w] \in PastSave, Exists(doc[w])'
      PROVE  ContentHeld(doc[w])'
  <2>1. doc'[w] = doc[w] /\ doc[w] \in Docs
    BY <1>2, EnterPastSave
  <2>2. Exists(doc[w])
    <3>1. Created(doc[w])
      BY <2>1, NoneAssumption DEF SlotsHaveJobs, Created
    <3>2. CASE Deleted(doc[w])
      BY <1>2, <2>1, <3>2, DeletedStep DEF Exists
    <3> QED
      BY <3>1, <3>2 DEF Deleted
  <2>3. CASE ContentHeld(doc[w])
    BY <1>2, <2>1, <2>3, HeldStays DEF Exists, ContentHeld, LostWithSharer
  <2>4. CASE SaveChunks(w) /\ pc'[w] = "setEmbedding"
    BY <2>1, <2>4, SaveHolds DEF ContentHeld, LostWithSharer
  <2> QED
    BY <1>2, <2>2, <2>3, <2>4, EnterPastSave DEF CheckpointInv
<1> QED
  BY <1>1, <1>2 DEF CheckpointInv

(* The status of a row is an honest checkpoint, overlapping runs included. *)
THEOREM HonestCheckpoint == Spec => []CheckpointIsHonest
<1>1. Init => CheckpointInv
  BY DEF Init, CheckpointInv, PastSave
<1>2. TypeInv /\ (ObjectInv /\ ChunkInv /\ VectorInv) /\ CheckpointInv /\ [Next]_vars
        => CheckpointInv'
  BY CheckpointNext
<1>3. CheckpointInv => CheckpointIsHonest
  BY DEF CheckpointInv, CheckpointIsHonest, ContentHeld
<1> QED
  BY <1>1, <1>2, <1>3, TypeInvariant, ChunkAndVectorInvariant, PTL DEF Spec

-----------------------------------------------------------------------------
(* Where the run of a slot is, in the parse half and in the embed half.    *)
ParseSteps == {"getRef", "fetch", "setParseResult", "saveChunks", "setEmbedding"}
EmbedSteps == {"getUnembedded", "ensureModel", "embedBatch", "setReady"}

Unembedded(d) == {h \in Hashes : owner[h] = d /\ vec[h] = None}

(* The run of a slot finds the row where its own checkpoint left it, or    *)
(* failed by the sweep, or gone; what it still has to embed it has in      *)
(* `pending`.                                                              *)
RunOnTrack(w, d) ==
  /\ lock[d] = w
  /\ pc[w] # "idle"
  /\ pc[w] = "setParsing" => status[d] \in {"UPLOADED", "FAILED", "gone"}
  /\ pc[w] \in ParseSteps => status[d] \in {"PARSING", "FAILED", "gone"}
  /\ pc[w] \in EmbedSteps => status[d] \in {"EMBEDDING", "FAILED", "gone"}
  /\ pc[w] \in {"ensureModel", "embedBatch"} => Unembedded(d) \subseteq pending[w]
  /\ pc[w] = "setReady" => Unembedded(d) = {}

RunInv(d) ==
  /\ \A w \in Workers : doc[w] = d => RunOnTrack(w, d)
  /\ status[d] # "QUEUED"
  /\ status[d] = "READY" => Unembedded(d) = {}

(* A step that leaves the runs of d alone, and d's row and chunks, or that *)
(* fails the row or deletes it with its chunks, or creates it.             *)
LEMMA RunFrame ==
  ASSUME NEW d \in Docs, RunInv(d),
         \A w \in Workers : doc'[w] = d =>
           /\ doc[w] = d /\ pc'[w] = pc[w] /\ pending'[w] = pending[w]
           /\ lock'[d] = lock[d],
         \/ status'[d] = status[d]
         \/ status'[d] \in {"FAILED", "gone"}
         \/ status'[d] = "UPLOADED" /\ \A w \in Workers : doc[w] # d,
         Unembedded(d)' \subseteq Unembedded(d)
  PROVE  RunInv(d)'
<1>1. ASSUME NEW w \in Workers, doc'[w] = d
      PROVE  RunOnTrack(w, d)'
  BY <1>1 DEF RunInv, RunOnTrack
<1>2. status'[d] # "QUEUED" /\ (status'[d] = "READY" => Unembedded(d)' = {})
  BY DEF RunInv
<1> QED
  BY <1>1, <1>2 DEF RunInv

LEMMA RunDocument ==
  ASSUME TypeInv, ObjectInv, NEW d \in Docs \ LongRunning, RunInv(d),
         NEW e \in Docs, Document(e)
  PROVE  RunInv(d)'
<1> USE DEF TypeInv, TypeOK
<1>1. CASE PutObject(e)
  BY <1>1, RunFrame DEF PutObject, Unembedded
<1>2. CASE CreateDocument(e)
  <2>1. e = d => \A w \in Workers : doc[w] # d
    BY <1>2, NoneAssumption DEF CreateDocument, SlotsHaveJobs
  <2>2. /\ status'[d] = IF e = d THEN "UPLOADED" ELSE status[d]
        /\ UNCHANGED <<owner, vec, lock, pc, doc, pending>>
    BY <1>2 DEF CreateDocument
  <2> QED
    BY <2>1, <2>2, RunFrame DEF Unembedded
<1>3. CASE Enqueue(e)
  BY <1>3, RunFrame DEF Enqueue, Unembedded
<1>4. CASE DeleteDocument(e)
  <2>1. Unembedded(d)' \subseteq Unembedded(d)
    BY <1>4, NoneAssumption DEF DeleteDocument, Unembedded
  <2> QED
    BY <1>4, <2>1, RunFrame DEF DeleteDocument
<1>5. CASE DeleteObject(e)
  BY <1>5, RunFrame DEF DeleteObject, Unembedded
<1>6. CASE JobStalled(e)
  <2>1. e = d => \A w \in Workers : doc[w] # d
    BY <1>6 DEF JobStalled, Holds, RunInv, RunOnTrack
  <2> QED
    BY <1>6, <2>1, RunFrame DEF JobStalled, Unembedded
<1>7. CASE MarkFailed(e)
  BY <1>7, RunFrame DEF MarkFailed, Unembedded
<1>8. CASE RowAges(e)
  BY <1>8, RunFrame DEF RowAges, Unembedded
<1> QED
  BY <1>1, <1>2, <1>3, <1>4, <1>5, <1>6, <1>7, <1>8 DEF Document

(* What a slot's step leaves alone when it is not about d.                 *)
LEMMA OtherSlot ==
  ASSUME TypeInv, NEW d \in Docs, NEW w \in Workers, doc[w] # d,
         Slot(w) \/ StepFails(w) \/ Crash(w),
         ~TakeJob(w, d)
  PROVE  /\ status'[d] = status[d] /\ lock'[d] = lock[d]
         /\ \A v \in Workers \ {w} :
              pc'[v] = pc[v] /\ doc'[v] = doc[v] /\ pending'[v] = pending[v]
         /\ doc'[w] # d
         /\ Unembedded(d)' = Unembedded(d)
<1> USE NoneAssumption DEF TypeInv, TypeOK, SlotsHaveJobs, Goto, Throw, Release
<1>1. CASE SetParsing(w) \/ SetEmbedding(w) \/ SetReady(w)
  BY <1>1 DEF SetParsing, SetEmbedding, SetReady, SetStatus, WriteStatus, Unembedded
<1>2. CASE GetStatus(w) \/ GetRef(w) \/ Fetch(w) \/ SetParseResult(w)
  BY <1>2 DEF GetStatus, GetRef, Fetch, SetParseResult, Unembedded
<1>3. CASE SaveChunks(w)
  <2>1. Unembedded(d)' = Unembedded(d)
    BY <1>3 DEF SaveChunks, Unembedded
  <2> QED
    BY <1>3, <2>1 DEF SaveChunks
<1>4. CASE GetUnembedded(w)
  BY <1>4 DEF GetUnembedded, Unembedded
<1>9. CASE EnsureEmbeddingModel(w)
  BY <1>9 DEF EnsureEmbeddingModel, Unembedded
<1>5. CASE EmbedBatch(w)
  <2>1. Unembedded(d)' = Unembedded(d)
    BY <1>5 DEF EmbedBatch, Unembedded
  <2> QED
    BY <1>5, <2>1 DEF EmbedBatch
<1>6. CASE CompleteJob(w) \/ FailJob(w)
  BY <1>6 DEF CompleteJob, FailJob, Unembedded
<1>7. CASE \E e \in Docs : TakeJob(w, e)
  <2>1. PICK e \in Docs \ {d} : TakeJob(w, e)
    BY <1>7
  <2> QED
    BY <2>1 DEF TakeJob, Unembedded
<1>8. CASE StepFails(w) \/ Crash(w)
  BY <1>8 DEF StepFails, Crash, Unembedded
<1> QED
  BY <1>1, <1>2, <1>3, <1>4, <1>5, <1>6, <1>7, <1>8, <1>9 DEF Slot

(* A step of d's own slot.                                                 *)
LEMMA OwnSlot ==
  ASSUME TypeInv, NEW d \in Docs \ LongRunning, RunInv(d),
         NEW w \in Workers, doc[w] = d,
         Slot(w) \/ StepFails(w) \/ Crash(w)
  PROVE  RunInv(d)'
<1> USE NoneAssumption DEF TypeInv, TypeOK, SlotsHaveJobs, Goto, Throw, Release
<1> RunOnTrack(w, d) /\ \A v \in Workers \ {w} : doc[v] # d
  BY DEF RunInv, RunOnTrack
<1>1. ASSUME /\ \A v \in Workers \ {w} : doc'[v] = doc[v]
             /\ doc'[w] = d => RunOnTrack(w, d)'
             /\ status'[d] # "QUEUED"
             /\ status'[d] = "READY" => Unembedded(d)' = {}
      PROVE  RunInv(d)'
  BY <1>1 DEF RunInv
<1> USE DEF RunOnTrack, ParseSteps, EmbedSteps
<1>2. CASE GetStatus(w)
  <2>1. /\ UNCHANGED <<status, lock, doc, pending, owner, vec>>
        /\ pc'[w] \in {"setParsing", "getRef", "getUnembedded", "complete", "fail"}
        /\ pc'[w] = "setParsing" => Exists(d) /\ Rank(status[d]) = 0
        /\ pc'[w] = "getRef" => Exists(d) /\ Rank(status[d]) = 1
        /\ pc'[w] = "getUnembedded" => Exists(d) /\ Rank(status[d]) = 2
    BY <1>2 DEF GetStatus, ResumeStep
  <2>2. /\ Rank(status[d]) = 0 => status[d] \notin {"PARSING", "EMBEDDING", "READY"}
        /\ Rank(status[d]) = 1 => status[d] = "PARSING"
        /\ Rank(status[d]) = 2 => status[d] = "EMBEDDING"
    BY DEF Rank, Order
  <2> QED
    BY <1>1, <2>1, <2>2 DEF RunInv, Unembedded, Statuses, NonTerminal, Exists
<1>3. CASE SetParsing(w)
  BY <1>1, <1>3 DEF SetParsing, SetStatus, WriteStatus, Unembedded, RunInv
<1>4. CASE SetEmbedding(w)
  BY <1>1, <1>4 DEF SetEmbedding, SetStatus, WriteStatus, Unembedded, RunInv
<1>5. CASE SetReady(w)
  BY <1>1, <1>5 DEF SetReady, SetStatus, WriteStatus, Unembedded, RunInv
<1>6. CASE GetRef(w) \/ Fetch(w) \/ SetParseResult(w)
  BY <1>1, <1>6 DEF GetRef, Fetch, SetParseResult, Unembedded, RunInv
<1>7. CASE SaveChunks(w)
  BY <1>1, <1>7 DEF SaveChunks, RunInv
<1>8. CASE GetUnembedded(w)
  BY <1>1, <1>8 DEF GetUnembedded, Unembedded, RunInv
<1>9. CASE EnsureEmbeddingModel(w)
  BY <1>1, <1>9 DEF EnsureEmbeddingModel, Unembedded, RunInv
<1>10. CASE EmbedBatch(w)
  <2>0. PICK batch \in SUBSET pending[w] :
          /\ vec' = [h \in Hashes |-> IF h \in batch /\ owner[h] = doc[w]
                                      THEN ModelOf[w] ELSE vec[h]]
          /\ pending' = [pending EXCEPT ![w] = @ \ batch]
          /\ pc' = [pc EXCEPT ![w] = IF batch = pending[w] THEN "setReady" ELSE @]
    BY <1>10, Zenon DEF EmbedBatch
  <2>1. /\ vec' = [h \in Hashes |-> IF h \in batch /\ owner[h] = d
                                     THEN ModelOf[w] ELSE vec[h]]
        /\ pending'[w] = pending[w] \ batch
        /\ pc'[w] = IF batch = pending[w] THEN "setReady" ELSE "embedBatch"
    <3>1. vec' = [h \in Hashes |-> IF h \in batch /\ owner[h] = d
                                   THEN ModelOf[w] ELSE vec[h]]
      BY <2>0, Zenon
    <3>2. pending'[w] = pending[w] \ batch
      BY <2>0
    <3>3. pc'[w] = IF batch = pending[w] THEN "setReady" ELSE "embedBatch"
      BY <1>10, <2>0 DEF EmbedBatch
    <3> QED
      BY <3>1, <3>2, <3>3
  <2>2. UNCHANGED <<status, doc, owner, lock>>
    BY <1>10 DEF EmbedBatch
  <2>3. Unembedded(d)' = Unembedded(d) \ batch
    BY <2>1, <2>2, ModelAssumption DEF Unembedded
  <2>4. Unembedded(d) \subseteq pending[w] /\ status[d] \in {"EMBEDDING", "FAILED", "gone"}
    BY <1>10 DEF EmbedBatch
  <2> QED
    BY <1>1, <2>1, <2>2, <2>3, <2>4
<1>11. CASE CompleteJob(w) \/ FailJob(w)
  BY <1>1, <1>11 DEF CompleteJob, FailJob, Unembedded, RunInv
<1>12. CASE StepFails(w)
  BY <1>1, <1>12 DEF StepFails, Unembedded, RunInv
<1>13. CASE Crash(w)
  BY <1>1, <1>13 DEF Crash, Unembedded, RunInv
<1>14. CASE \E e \in Docs : TakeJob(w, e)
  BY <1>14 DEF TakeJob
<1> QED
  BY <1>2, <1>3, <1>4, <1>5, <1>6, <1>7, <1>8, <1>9, <1>10, <1>11, <1>12, <1>13,
     <1>14 DEF Slot

(* A slot takes d's job.                                                   *)
LEMMA TakeOwn ==
  ASSUME TypeInv, NEW d \in Docs, RunInv(d), NEW w \in Workers, TakeJob(w, d)
  PROVE  RunInv(d)'
<1> USE NoneAssumption DEF TypeInv, TypeOK, JobsHaveAttempts
<1>1. \A v \in Workers : doc[v] # d
  BY DEF TakeJob, RunInv, RunOnTrack
<1>2. \A v \in Workers \ {w} : doc'[v] # d
  BY <1>1 DEF TakeJob
<1>3. RunOnTrack(w, d)'
  BY DEF TakeJob, RunOnTrack, ParseSteps, EmbedSteps
<1>4. UNCHANGED <<status, owner, vec>>
  BY DEF TakeJob
<1> QED
  BY <1>2, <1>3, <1>4 DEF RunInv, Unembedded

LEMMA RunNext ==
  ASSUME TypeInv, ObjectInv, [Next]_vars, NEW d \in Docs \ LongRunning, RunInv(d)
  PROVE  RunInv(d)'
<1>1. ASSUME NEW e \in Docs, Document(e) PROVE RunInv(d)'
  BY <1>1, RunDocument
<1>2. ASSUME NEW w \in Workers, Slot(w) \/ StepFails(w) \/ Crash(w) PROVE RunInv(d)'
  <2>1. CASE doc[w] = d
    BY <1>2, <2>1, OwnSlot
  <2>2. CASE TakeJob(w, d)
    BY <2>2, TakeOwn
  <2>3. CASE doc[w] # d /\ ~TakeJob(w, d)
    <3> DEFINE Rest == /\ status'[d] = status[d] /\ lock'[d] = lock[d]
                       /\ \A v \in Workers \ {w} :
                            /\ pc'[v] = pc[v] /\ doc'[v] = doc[v]
                            /\ pending'[v] = pending[v]
                       /\ doc'[w] # d
                       /\ Unembedded(d)' = Unembedded(d)
    <3>1. Rest
      BY <1>2, <2>3, OtherSlot
    <3> QED
      BY <3>1, RunFrame
  <2> QED
    BY <2>1, <2>2, <2>3
<1>3. CASE Reconcile
  <2>1. /\ status'[d] = status[d] \/ status'[d] = "FAILED"
        /\ UNCHANGED <<lock, pc, doc, pending, owner, vec>>
    BY <1>3 DEF Reconcile, TypeInv, TypeOK
  <2> QED
    BY <2>1, RunFrame DEF Unembedded
<1>4. CASE UNCHANGED vars
  BY <1>4, RunFrame DEF vars, Unembedded
<1> QED
  BY <1>1, <1>2, <1>3, <1>4 DEF Next

RunsInv == \A d \in Docs \ LongRunning : RunInv(d)

LEMMA RunsInvariant == Spec => [](TypeInv /\ ObjectInv /\ RunsInv)
<1>1. Init => ObjectInv /\ RunsInv
  BY NoneAssumption
     DEF Init, ObjectInv, Exists, Created, Deleted, RunsInv, RunInv, RunOnTrack
<1>2. TypeInv /\ ObjectInv /\ RunsInv /\ [Next]_vars => RunsInv'
  BY RunNext DEF RunsInv
<1> QED
  BY <1>1, <1>2, ObjectNext, TypeInvariant, PTL DEF Spec

(* A document no two runs of which overlap is READY only when each of its  *)
(* own chunks has a vector, whatever crashed, threw, was retried, resumed, *)
(* swept or deleted on the way.                                            *)
THEOREM ReadyMeansEmbedded == Spec => []ReadyIsEmbedded
<1>1. RunsInv => ReadyIsEmbedded
  BY DEF RunsInv, RunInv, ReadyIsEmbedded, Unembedded
<1> QED
  BY <1>1, RunsInvariant, PTL

-----------------------------------------------------------------------------
(* The refinement.  Stage is what Ingestion shows of a document.           *)
Stage == [d \in Docs |-> IF Exists(d) THEN status[d]
                         ELSE IF Created(d) THEN "deleted" ELSE "new"]

(* A change of one document's row that the lifecycle allows.               *)
LEMMA StageStep ==
  ASSUME TypeInv, NEW d \in Docs, NEW s,
         Stage' = [Stage EXCEPT ![d] = s],
         \/ Stage[d] = "new" /\ s = "UPLOADED"
         \/ Stage[d] \in {"UPLOADED", "FAILED"} /\ s = "PARSING"
         \/ Stage[d] \in {"PARSING", "FAILED"} /\ s = "EMBEDDING"
         \/ Stage[d] \in {"EMBEDDING", "FAILED"} /\ s = "READY"
         \/ Stage[d] \notin {"new", "deleted"} /\ s = "deleted"
  PROVE  Lifecycle!Next
<1>1. CASE Stage[d] = "new" /\ s = "UPLOADED"
  <2>1. Lifecycle!Upload(d)
    BY <1>1 DEF Lifecycle!Upload, Lifecycle!Move, Stage
  <2> QED
    BY <2>1 DEF Lifecycle!Next
<1>2. CASE Stage[d] = "FAILED" /\ s \in {"PARSING", "EMBEDDING", "READY"}
  <2>1. Lifecycle!Recover(d)
    BY <1>2 DEF Lifecycle!Recover, Lifecycle!Move, Stage
  <2> QED
    BY <2>1 DEF Lifecycle!Next
<1>3. CASE Stage[d] \notin {"new", "deleted"} /\ s = "deleted"
  <2>1. Lifecycle!Delete(d)
    BY <1>3 DEF Lifecycle!Delete, Lifecycle!Move, Stage
  <2> QED
    BY <2>1 DEF Lifecycle!Next
<1>4. CASE \/ Stage[d] = "UPLOADED" /\ s = "PARSING"
           \/ Stage[d] = "PARSING" /\ s = "EMBEDDING"
           \/ Stage[d] = "EMBEDDING" /\ s = "READY"
  <2>1. \E i, j \in 1..Len(Lifecycle!Pipeline) :
          i < j /\ Stage[d] = Lifecycle!Pipeline[i] /\ s = Lifecycle!Pipeline[j]
    BY <1>4 DEF Lifecycle!Pipeline
  <2>2. Lifecycle!Advance(d)
    BY <2>1 DEF Lifecycle!Advance, Lifecycle!Move, Stage
  <2> QED
    BY <2>2 DEF Lifecycle!Next
<1> QED
  BY <1>1, <1>2, <1>3, <1>4

LEMMA StageDocument ==
  ASSUME TypeInv, ObjectInv, NEW d \in Docs, Document(d)
  PROVE  Lifecycle!Next \/ Stage' = Stage
<1> USE DEF TypeInv, TypeOK, Exists, Created, UploadSteps
<1>1. CASE PutObject(d)
  BY <1>1 DEF PutObject, Stage
<1>2. CASE CreateDocument(d)
  <2>1. Stage[d] = "new" /\ Stage' = [Stage EXCEPT ![d] = "UPLOADED"]
    BY <1>2 DEF CreateDocument, Stage, ObjectInv
  <2> QED
    BY <2>1, StageStep
<1>3. CASE Enqueue(d)
  BY <1>3 DEF Enqueue, Stage
<1>4. CASE DeleteDocument(d)
  <2>1. Stage[d] = status[d] /\ Stage' = [Stage EXCEPT ![d] = "deleted"]
    BY <1>4 DEF DeleteDocument, Stage, ObjectInv
  <2>2. Stage[d] \notin {"new", "deleted"}
    BY <1>4, <2>1 DEF DeleteDocument, Statuses, NonTerminal
  <2> QED
    BY <2>1, <2>2, StageStep
<1>5. CASE MarkFailed(d)
  <2>1. CASE UNCHANGED status
    BY <1>5, <2>1 DEF MarkFailed, Stage
  <2>2. CASE status[d] \notin {"READY", "gone"} /\ status' = [status EXCEPT ![d] = "FAILED"]
    <3>1. /\ Stage[d] \notin {"new", "READY", "deleted"}
          /\ Stage' = [e \in Docs |-> IF e \in {d} THEN "FAILED" ELSE Stage[e]]
      BY <1>5, <2>2 DEF MarkFailed, Stage, Statuses, NonTerminal
    <3>2. Lifecycle!Fail({d})
      BY <3>1 DEF Lifecycle!Fail, Stage
    <3> QED
      BY <3>2 DEF Lifecycle!Next
  <2> QED
    BY <1>5, <2>1, <2>2 DEF MarkFailed
<1>6. CASE DeleteObject(d) \/ JobStalled(d) \/ RowAges(d)
  BY <1>6 DEF DeleteObject, JobStalled, RowAges, Stage
<1> QED
  BY <1>1, <1>2, <1>3, <1>4, <1>5, <1>6 DEF Document

LEMMA StageSlot ==
  ASSUME TypeInv, RunsInv, LongRunning = {}, NEW w \in Workers,
         Slot(w) \/ StepFails(w) \/ Crash(w)
  PROVE  Lifecycle!Next \/ Stage' = Stage
<1> USE DEF TypeInv, TypeOK, SlotsHaveJobs, Exists, Created
<1>1. ASSUME NEW s, NEW next, WriteStatus(w, s, next), UNCHANGED upload,
             doc[w] \in Docs, s \in {"PARSING", "EMBEDDING", "READY"},
             \/ status[doc[w]] \in {"UPLOADED", "FAILED", "gone"} /\ s = "PARSING"
             \/ status[doc[w]] \in {"PARSING", "FAILED", "gone"} /\ s = "EMBEDDING"
             \/ status[doc[w]] \in {"EMBEDDING", "FAILED", "gone"} /\ s = "READY"
      PROVE  Lifecycle!Next \/ Stage' = Stage
  <2>1. CASE Exists(doc[w])
    <3> PICK d \in Docs : d = doc[w]
      BY <1>1
    <3>3. status' = [status EXCEPT ![d] = s] /\ UNCHANGED upload
      BY <1>1, <2>1 DEF WriteStatus
    <3>1. Stage[d] = status[d] /\ Stage' = [Stage EXCEPT ![d] = s]
      BY <1>1, <2>1, <3>3 DEF Stage
    <3>2. \/ Stage[d] \in {"UPLOADED", "FAILED"} /\ s = "PARSING"
          \/ Stage[d] \in {"PARSING", "FAILED"} /\ s = "EMBEDDING"
          \/ Stage[d] \in {"EMBEDDING", "FAILED"} /\ s = "READY"
      BY <1>1, <2>1, <3>1
    <3> QED
      BY <1>1, <3>1, <3>2, StageStep
  <2>2. CASE ~Exists(doc[w])
    BY <1>1, <2>2 DEF WriteStatus, Stage
  <2> QED
    BY <2>1, <2>2
<1>2. pc[w] # "idle" => doc[w] \in Docs /\ RunOnTrack(w, doc[w])
  BY DEF RunsInv, RunInv
<1>3. CASE SetParsing(w)
  BY <1>1, <1>2, <1>3 DEF SetParsing, SetStatus, RunOnTrack
<1>4. CASE SetEmbedding(w)
  BY <1>1, <1>2, <1>4 DEF SetEmbedding, SetStatus, RunOnTrack, ParseSteps
<1>5. CASE SetReady(w)
  BY <1>1, <1>2, <1>5 DEF SetReady, SetStatus, RunOnTrack, EmbedSteps
<1>6. CASE UNCHANGED <<status, upload>>
  BY <1>6 DEF Stage
<1>7. CASE \/ GetStatus(w) \/ GetRef(w) \/ Fetch(w) \/ SetParseResult(w)
           \/ SaveChunks(w) \/ GetUnembedded(w) \/ EnsureEmbeddingModel(w)
           \/ EmbedBatch(w) \/ CompleteJob(w) \/ FailJob(w)
           \/ (\E d \in Docs : TakeJob(w, d)) \/ StepFails(w) \/ Crash(w)
  BY <1>6, <1>7
     DEF GetStatus, GetRef, Fetch, SetParseResult, SaveChunks, GetUnembedded,
         EnsureEmbeddingModel, EmbedBatch, CompleteJob, FailJob, TakeJob, StepFails, Crash
<1> QED
  BY <1>3, <1>4, <1>5, <1>7 DEF Slot

LEMMA StageReconcile ==
  ASSUME TypeInv, Reconcile
  PROVE  Lifecycle!Next
<1>1. PICK S \in SUBSET Docs : S = Swept
  BY DEF Swept, TypeInv, TypeOK
<1>2. \A d \in S : Stage[d] \notin {"new", "READY", "deleted"}
  BY <1>1 DEF Swept, Stage, Exists, NonTerminal, TypeInv, TypeOK
<1>3. Stage' = [d \in Docs |-> IF d \in S THEN "FAILED" ELSE Stage[d]]
  BY <1>1 DEF Reconcile, Swept, Stage, Exists, Created, NonTerminal, TypeInv, TypeOK
<1>4. Lifecycle!Fail(S)
  BY <1>2, <1>3 DEF Lifecycle!Fail, Stage
<1> QED
  BY <1>4 DEF Lifecycle!Next

(* When no two runs of a document overlap, the rows that upload, pipeline, *)
(* listener, sweep and delete write implement the promised lifecycle.      *)
THEOREM LifecycleImplemented ==
  ASSUME LongRunning = {}
  PROVE  Spec => RowsFollowLifecycle
<1>1. Init => Lifecycle!Init
  BY DEF Init, Lifecycle!Init, Exists, Created
<1>2. TypeInv /\ ObjectInv /\ RunsInv /\ [Next]_vars => [Lifecycle!Next]_Stage
  <2> SUFFICES ASSUME TypeInv, ObjectInv, RunsInv, [Next]_vars
               PROVE  Lifecycle!Next \/ Stage' = Stage
    OBVIOUS
  <2>1. CASE UNCHANGED vars
    BY <2>1 DEF vars, Stage, Exists, Created
  <2> QED
    BY <2>1, StageDocument, StageSlot, StageReconcile DEF Next
<1> QED
  BY <1>1, <1>2, RunsInvariant, PTL DEF Spec, RowsFollowLifecycle, Lifecycle!Spec, Stage
=============================================================================
