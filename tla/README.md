# Formal model of the AI support agent builder

TLA+ modules, TLC configurations and TLAPS proofs about the code of this
repository. The references below are to files under `src/`; the models are
translated from the code, with its comments and tests read as statements of
what the code is meant to do.

`PROJECT.json` lists the components, the TLC runs, the source lines behind
every definition (`map`), the hazards the properties are aimed at, the proved
theorems, and for every property of a run a *mutant*: a plausible bug in a
modelled definition with which the property is violated. A definition marked
`Variant` in a module is such a bug; no specification uses it.

    tlc -workers 2 -config Chat.cfg ChatConversation.tla    # one run
    tlapm IngestionProofs.tla                               # one proof module

## 1. The system

A tenant signs up in the admin console and gets one assistant. It uploads
documents, which a queue worker parses, chunks and embeds. It publishes the
assistant and creates API keys. A mobile app exchanges a key for a token and
asks questions, which the API answers from the tenant's chunks, streaming the
model's text and its citations.

    admin (Next.js) ── HTTP/SSE ──┐
                                  ├── API (Express) ── Postgres (row-level security, pgvector)
    mobile (Flutter) ─ HTTP/SSE ──┘       │ │ │
                                          │ │ └── Redis: token bucket per tenant
                                          │ └──── object storage: original files
                                          └────── Redis: BullMQ queue ── worker ── Postgres, storage,
                                                                                   embedding provider

### Inventory

| Component | Source | State it keeps | Operations | Modelled in |
|---|---|---|---|---|
| Upload and deletion | `api/src/routes/documents.ts` | document row, object, job | upload, delete, list, get | `Ingestion` (upload, delete) |
| Pipeline, document store | `api/src/worker/pipeline.ts`, `document-store.ts` | status, chunk rows, vectors, the assistant's embedding model | one job run, resumed from the row's status | `Ingestion` |
| Queue and worker | `api/src/queue/`, `api/src/worker/` | job state, attempts, lock, stall count | take, retry, stall, complete, fail, `failed` listener | `Ingestion` (BullMQ external) |
| Reconciler | `api/src/worker/reconciler.ts`, its SQL function | none (reads `updated_at`) | sweep of stuck rows | `Ingestion` |
| Progress stream | `documents.ts`, `GET /:id/events` | last status told, timers | poll, report, time out, close | `UploadProgress` |
| Documents page | `admin/app/documents/page.tsx` | upload rows, event sources, list | upload, follow, retry, fetch, delete | `UploadProgress` (one row and its stream), `DocumentsPage` (list and rows) |
| Settings page | `admin/app/settings/page.tsx` | assistant, keys shown, busy buttons | publish, create key, revoke key | `SettingsPage` |
| Playground | `admin/app/playground/page.tsx`, `api/src/routes/playground.ts` | threshold, slider, verdict, answer | test, tune, save | `PlaygroundPage` |
| Sign-in pages, middleware, route handlers | `admin/app/login`, `signup`, `api/`, `admin/middleware.ts` | the session cookie | log in, sign up, sign out, pass a call on | `Browser` |
| Chat endpoint | `api/src/routes/chat.ts` | `closed`, timers, abort signal, `answer` | one streamed answer | `ChatStream` |
| Mobile chat | `mobile/lib/features/chat/` | messages, status, buffer, cancel token | send, stop, receive, leave | `ChatConversation` |
| Rate limiter | `api/src/ratelimit/`, `middleware/rate-limit.ts` | a bucket per tenant in Redis | one atomic script; fail open | `RateLimiter` |
| Accounts, sessions, keys | `api/src/auth/`, `middleware/tenant-context.ts` | users, tenants, keys; tokens | sign up, log in, exchange, expire | `Access` |
| Assistant administration | `api/src/routes/assistants.ts` | assistant status, keys | publish, create key, revoke key | `Access` |
| Tenant isolation | `api/src/db.ts`, migrations | a transaction's tenant setting | policies, cascades, unique indexes | `Access`, `Ingestion` (effects) |
| Parsing | `api/src/ingestion/parsing/` | open paragraph, fence, blocks, warnings | parseDocument | `Parsing` |
| Chunking | `api/src/ingestion/chunking/chunker.ts` | heading stack, pieces, overlap | chunkDocument | `Chunking` |
| Embedding, providers and retry | `pipeline.ts` (embed stage), `api/src/providers/`, `util/retry.ts` | vectors, the batch under way, attempts | embed chunks, embed a question | `Embedding` |
| Retrieval, gate, assembly, citations | `api/src/retrieval/`, `api/src/chat/` | none | rank, refuse, budget, cite | `Answering` |
| Tokenizer, hash, prompt text, signed URLs, mobile sign-in, configuration, verification scripts | see `PROJECT.json` | | | not modelled, section 7 |

### How the components interact, and what is hard about it

* **A status column is the only checkpoint of a run.** BullMQ delivers a job
  again after a throw, a crash or a lost lock, so a run resumes from whatever
  status it reads, possibly while an older run of the same document is still
  writing. The reconciler and the `failed` listener write that column too. The
  delete handler removes the row under a running job. Every write is an
  update by id; only `markFailed` and the sweep look at the status first.
* **Chunk rows are shared.** A content hash is unique per assistant, so a
  document may own only some of its chunks, and deleting one document takes
  away chunks that another contains as well.
* **A chat stream has one coroutine and three callbacks**: the stream timer,
  the closing of the connection, and the drain of the response buffer. Each
  may end the stream between any two awaits, and the coroutine must find out.
  The client on the other side may read slowly, stop reading, cancel, ask
  again or be lost.
* **Progress is polled.** Statuses that come and go between two polls are
  never seen; the stream, its cap, the browser's error event and the user's
  Retry race for what a row of the page shows last.
* **Clock readings travel.** The script of the rate limiter is atomic, but it
  runs with a time that its caller read earlier, on another machine, and as
  much earlier as Redis was out of reach.
* **A page of the console has many calls in flight.** Each button waits for
  its own call only, replies replace or amend one list in the order they
  arrive, a page that is left still has writes under way, and the session may
  end, or another session of the tenant write, in between.
* **Providers answer in part.** An embedding call may fail for a passing or a
  lasting reason, answer for fewer texts than it was asked, or out of order;
  it is repeated inside a batch, the batch inside a run, the run by the queue.
* **Checks and effects of requests are different transactions.** The
  exchange of a key resolves it in one and checks the assistant in another; a
  token outlives what it was minted from.

### What makes each component correct

* Ingestion: no chunk without a document; one vector space per assistant; no
  row without bytes; a status never promises work that is missing; deleted
  means deleted; every row and job ends; READY means embedded.
* Chat: a stream is tokens and one terminal frame; nothing outlives its
  handler; memory stays bounded; every handler returns and every client gets
  an answer or an error; answers belong to their question and are whole.
* Progress: the stream tells the row's history forward and ends; the page
  never spins with nothing to drive it.
* Rate limiter: grants are bounded; Retry-After is true.
* Access: accounts are whole; revoking and unpublishing take effect; only a
  tenant's own admin session administers.
* Console: what a page shows when it comes to rest is what is stored, as long as
  nothing it read was overtaken by a write (section 6 says what is shown else);
  the playground's verdict is that of the question asked, and no generated answer
  stands beside one that refuses.
* Parsing: every readable line of a file is in one block, under its own
  heading, on its own page.
* Embedding: a vector belongs to its own text, and nothing is asked for twice
  once it is stored.
* Chunking and answering: anchors are exact, sections do not mix, limits hold;
  a question is refused exactly when nothing is close enough; sources are the
  best ones and fit; grounded means cited.

## 2. Modules

| Module | Lines it stands for | What it is |
|---|---|---|
| `Ingestion` | upload and delete handlers, queue, worker, pipeline, document store, reconciler | the component most of the system depends on |
| `DocumentLifecycle` | the order of statuses the API promises | abstract specification: `Ingestion` implements it, `UploadProgress` builds on it |
| `UploadProgress` | the events handler and the upload rows of the documents page | page, one handler per document, and `DocumentLifecycle` for the row |
| `ChatStream` | the chat handler | server side, one coroutine per request |
| `ChatConversation` | `ChatBloc` and the frame loop of `ChatRepository` | extends `ChatStream` with its client |
| `RateLimiter` | the Lua script and the middleware | one tenant's bucket |
| `Access` | auth service, tenant middleware, assistants routes, the chat endpoint's access check | requests in flight over shared tables |
| `Browser` | the sign-in pages, the middleware, the console's route handlers, the cookie | one tab: session, page shown, calls in flight |
| `SettingsPage`, `PlaygroundPage`, `DocumentsPage` | one page of the console each, with the API's answers to its calls | extend `Browser` |
| `Console` | | composes `Browser` and the three pages |
| `Parsing` | `parseDocument`: sniffing, decoding, the four parsers | one action per turn of a parser's loop |
| `Chunking` | `chunkDocument`, `splitOversizedBlock` | one action per turn of a loop |
| `Embedding` | the embed stage's batches, `embed`, `withRetry`, the question's embedding | one action per provider call or store |
| `Answering` | `retrieve`, `evaluateThreshold`, `assembleContext`, `buildCitations`, the end of the chat handler | extends `Parsing`, `Chunking` and `Embedding`: what is cited is what was read, cut and embedded |
| `MCIngestion`, `MCRateLimiter`, `MCAccess`, `MCAnswering`, `MCConsole` | | instances for TLC: content maps, symmetry, inputs |
| `IngestionProofs`, `ProgressProofs`, `ChatProofs`, `AccessProofs`, `RateLimiterProofs`, `ChunkingProofs`, `AnsweringProofs`, `ConsoleProofs` | | TLAPS proofs |

### Ingestion

One action is one awaited call: a database transaction, a storage call or a
queue call. Between two of them any other action may happen, which is what the
event loop and several processes allow. `pc[w]` names the call slot `w` is at;
a *slot* is one unit of BullMQ concurrency in one process. `status[d]` is the
row, with `"gone"` for no row; `owner[h]` and `vec[h]` are the chunk row with
hash `h` and the model its embedding came from.

* `WriteStatus` is `setStatus`: an update by id that throws for a missing row
  and checks nothing else. `ResumeStep` is the pipeline's comparison of the
  status with `ORDER`, where FAILED and QUEUED count as the start.
* `SaveChunks` inserts with ON CONFLICT DO NOTHING: hashes that are taken are
  skipped, and only a row that is really inserted meets the foreign key.
* `EnsureEmbeddingModel` claims the assistant's model if it has none, reads it
  back and throws if it is another one. `EmbedBatch` takes any batch of the
  pending chunks, because the query has no meaningful order.
* `StepFails` lets any awaited call reject, `Crash` lets a process die
  anywhere: the slot forgets its run, and the lock stays until `JobStalled`.
* `JobStalled` on a job whose slot is still running needs `d \in LongRunning`:
  the lock is renewed by a timer of the same event loop, so it expires under a
  live run only when something blocks that loop or cuts it from Redis longer
  than `lockDuration`. Runs of one document overlap in that case only.
* Time appears once: `RowAges` is a row left alone for `STUCK_AGE_SECONDS`.

Bounds: `MaxAttempts` and `MaxStalls` are the configuration's own (3 and 1 in
the code, smaller in the runs); each document id is uploaded at most once, as
ids are fresh. `everReady` is a history variable for one property.

### ChatStream and ChatConversation

`pc[r]` is the await the handler of request `r` is at. A step runs from one
await to the next; `Timeout`, `DisconnectHeard`, `DisconnectUnheard` and
`Drained` are the callbacks. `End` is the handler's `end()`, a no-op once
`closed`. `sent` holds the frames written and `got` how many of them the reader
took; their difference is the response buffer. A connection that is cut drops
what is written later; frames in flight still arrive.

The disconnect is split in two because of a property of the platform: the
handler listens to the *request's* `close`, and Node emits that event once the
body has been read, before this handler runs. Whether the listener is still in
time depends on the version, so it may or may not be told.

On the client, `current` is the handler of the latest question. `restartable`
cancels the emitter of the one before, so only that handler writes state.
`Cut` is a stream that breaks off, with an exception or as a normal end:
both happen in the HTTP client, and the code treats them differently.

Bounds: `MaxRequests` questions, `MaxTokens` text events per answer,
`HighWater` frames in the buffer before `write()` returns false.

### UploadProgress

`stage` is the document's row and moves only as `DocumentLifecycle` allows:
this is where the module relies on `RowsFollowLifecycle`. `writes` counts its changes, so
a frame can carry the age of what it tells. `Tick` reads the row, `Answer` acts
on what was read, later; `deaf` are handlers whose reader left before they
listened. `item` is the page's row, `watching` the event source it holds.

Bounds: `MaxUploads` (the first upload and its retries), `MaxWrites` status
changes per document.

### RateLimiter

Tokens are measured in the time it takes to refill them, so the script's
arithmetic stays in integers. `Request` reads a clock, which may run ahead of
Redis's by up to `MaxAhead`; `Grant` or `Deny` is the script, run with that
reading up to `MaxLag` later and in any order among requests. The key expires
`Ttl` after each run. `FailOpen` is the middleware's catch.

`spent`, `rewound`, `lent`, `origin` and `promises` are history variables of the
properties. A missing key counts as a full bucket, which gives nothing away as
long as a bucket left alone for that long would be full in any case. It would
not be by a clock reading that is old: a command that waited for Redis can find
the key expired and yet carry a time at which little was refilled. `lent` adds
up what such a reading may gain, `Overdue`: its lateness beyond the slack of the
key, and a full bucket at most.

### Access

A request in flight is a record in `call`; one action is one awaited database
step, and a transaction of `withTenant` sees only the rows that
`Visible` admits, which is the policy's effect. Tokens are their claims:
`sessions` holds those issued and not expired. A tenant has exactly the
assistant that signup provisions, because no route creates another, so an
assistant is named by its tenant. Keys are generated before they are stored
(`minted`), so an id is never reused.

### Console

A call in flight is a record in `calls`: the operation, whether it left with a
token that is good (`valid`), whether it was answered and how, and whether its page still listens
(`heard`). The API's side (`Serve...`) and the page's side (the handler behind
the `await`) are different actions, so calls overlap in every way and replies
arrive in any order. A button is off exactly while the code says so:
`revoking` and `deleting` name the *last* row, so a second one can be revoked
meanwhile. Until a call is answered, `body` is what its handler has read so far.
A page that is left forgets its state; its writes that are not
served yet go on (`Abandoned`), and what the sign-in forms wait for is heard
anywhere, because `router.push` in their handlers runs regardless.

The cookie and its token expire one after the other (`Expire`, `CookieGone`);
the middleware decides by the cookie's presence (`Admit`), the API by the
token. `SettingsElsewhere`, `PlaygroundElsewhere` and `DocumentsElsewhere` are
another session of the same tenant, or the worker.

`quiet` and `current` are history: a read is quiet if no write was in flight
when it was sent or until its reply is taken, and the page is current if what
it shows rests on a quiet read. The code orders nothing here, so a settings or
documents page that is not current may show anything (section 6); what the
properties say is that nothing *else* can go wrong, and that a Refresh, or a
reload, mends it.

A test of the playground is two calls, and each handler takes two steps:
`ReadThreshold` loads the assistant, and `ServeRetrieve` or `ServeChat` searches
later, so that a save (`ServeSaveThreshold`) or an ingestion
(`PlaygroundElsewhere`) may come between any two of the four. `top` is the score
of the best chunk for the question asked; any score at `Ask`, as neither the
page nor its properties know the scores of other questions. The chat ends with
the refusal of the gate, with generated text, or with the same refusal text from
the model itself, which the page cannot tell from the gate's: so a refusal may
stand beside "Passed the gate", and `VerdictMatchesAnswer` says only the other
direction. The preview next to the slider is computed from what is shown and
has no state. The history variables of this page are finer than `current`:

* `asked` is the question of the last test; `torn` that a save or an ingestion
  came when one of its calls had read what it changes and the other had not;
* `old` are the calls that carry a threshold from before the last save;
  `overtaken` that the page took such a value, lost the answer of a save, or
  that a save of an earlier visit landed. The next threshold that is read or
  saved ends it.

A behaviour visits one of the data pages, beside dashboard and sign-in: pages
share no state but the session, so the others would only multiply the states.

Bounds: `MaxLists` fetches of one list and `MaxCalls` calls in flight,
`PageLimit` documents in a list reply (50 in the code), `LastDoc` documents
over all time.

### Parsing

A file is its lines (TXT, MD), its elements (DOCX) or its pages (PDF); a line
has a kind, the token counts of its sentences, and no text. `Open` is the
content check on the first bytes and, for text, the strict decoding. The
libraries that turn PDF and DOCX into pages and HTML are external: a damaged
file is read or rejected. A block names the lines it was made of, which is what
`BlocksFollowFile` compares with the file.

`FilesAssumption` says what a file is: its lines are of the kinds its parser
tells apart, exactly the headings have a level, a blank line has no sentences,
a line with sentences has tokens and so has each sentence, and a PDF has a
page. It gives the proofs what the instance `MCAnswering` has by its choice of
lines.

### Embedding

`pending` is what a run of the embed stage has left, `Batch` what is embedded
and stored together, `Request` one call of the provider for a part of a batch.
`ProviderAnswers` takes any sequence of distinct entries of the request, each
with the index it belongs to: replies in any order and too short ones.
`ProviderFails` is a passing or a lasting error under `withRetry`, which starts
the batch over; a batch that got fewer vectors than texts is not stored and its
run ends. `RunDies` is any other end of a run. Pauses between attempts take no
time. The chunks of the document are distinct here; duplicates are the subject
of `Ingestion`.

Bound: `MaxRuns` runs of the stage.

### Chunking and Answering

A document is a sequence of blocks. A heading has a level and is not split; a
body block has a token count and the counts of its sentences, which need not
add up, as token counts of parts do not. A piece of a chunk names the sentences
it spans, which stands for its character offsets. `ChunkSpec` chunks any
document at all, and is what the proofs are about; in `Answering` the document
is what `Parsing` made of a file.

In `Answering` a question comes when the embed stage has ended, with all
vectors or with some (a FAILED document keeps the vectors it got, and they are
retrieved). Similarities, thresholds and the numbers an answer cites are
arbitrary.

## 3. Runs

Deadlock is checked in `access` and `console`: the other systems come to rest,
as uploads, conversations, requests and files are bounded. `TypeOK` is an
invariant of `chat` only; for ingestion, progress, rate limiter, access,
chat and for the path from file to answer a type invariant is proved for every
value of the constants (section 5).

| Run | Instance | What it shows |
|---|---|---|
| `ingestion_overlap` | 2 copies of one document, 2 slots with different models, 1 attempt, 1 stall, overlapping runs of `d1` | `ChunksHaveDocuments`, `SingleVectorSpace`, `RowsHaveObjects`, `CheckpointIsHonest`, `DeletedStaysDeleted` with deletes, crashes, throws and sweeps anywhere |
| `ingestion_live` | 2 documents sharing one of two chunks, 1 slot, 2 attempts, 1 stall, no overlap | `ReadyIsEmbedded`; `RowsFollowLifecycle`: the rows implement `DocumentLifecycle`; `EveryRowSettles`, `EveryJobEnds` |
| `chat` | 2 questions, 2 text events, a mark of 1 | six invariants of stream and transcript, `HandlerReturns`, `ClientSettles` (470 000 states) |
| `upload_progress` | 1 upload and 1 retry, 3 status changes each | `StreamTellsHistory`, `ProgressIsDriven`, `RowSettles`, `StreamEnds` (1.5 million states) |
| `rate_limit` | 4 requests, cost 2, capacity 4, slack 1, lag 6, 13 units of time, symmetric | `RateHolds`, `RetryAfterIsEnough` (1.7 million states) |
| `access` | 2 requests, 2 emails, 2 tenants, 2 keys, symmetric | `AccountsAreWhole`, `RevocationIsHonoured`, `UnpublishIsHonoured`, `OnlyOwnersAdminister` (205 000 states) |
| `answering` | every file of up to 4 lines of 3 to 5 kinds (DOCX: 3), 2 PDF pages read, chunks of 2 tokens, batches of 3, provider calls of 2, 2 attempts, 2 runs, 3 hits, 2 sources, budget 10 | blocks, anchors, sections, limits, vectors, gate, budget and citations (395 000 states) |
| `console` | 2 keys, 1 file, 3 documents of which a list reply holds 2, 2 questions, 2 thresholds, 2 calls in flight (a test adds 2 to 1), keys and questions symmetric | `SettingsAreCurrent`, `ThresholdIsPersisted`, `VerdictMatchesAnswer`, `DocumentsAreShown` (2 million states) |
| `ingestion_ready_empty` | 2 copies, 2 slots | violation, section 6 |
| `ingestion_flipped_back` | overlapping runs of one document | violation, section 6 |
| `chat_disconnect` | as `chat` | violation, section 6 |
| `failed_row_retry` | 1 upload and 1 retry | violation, section 6 |

### Why these bounds are enough to be interesting

* Two slots are the least for overlapping runs and for two models racing for
  one claim, and two copies of one document the least for one of them to own
  nothing. Overlap doubles the state space, so the run with overlap has one
  hash and one attempt.
* The run under fairness has content `{h1, h2}` and `{h2}`, so one document
  owns and the other borrows, and `BatchSize = 1` makes two batches, so that a
  failure between them happens. Two attempts and one stall reach the retry, the
  re-delivery and the failure by the stall limit. It has one slot; that runs in
  different slots do not disturb one another is what `ReadyMeansEmbedded` and
  `LifecycleImplemented` prove for any number of slots.
* Two questions are the least for one to supersede another; two text events
  against a mark of one make a write that is refused and one after it.
* Three changes of a row are enough for it to fail, recover and settle between
  polls, or to be deleted at any of these points.
* The life of an idle key is `Capacity + Slack = 5`. Time runs from 6 to 13, and
  a reading may be 6 old: older than the slack, than the life of a key, and
  than the slack and a full refill together, so that both bounds of `Overdue`
  are reached. Four requests empty a bucket of two, are refused, and come back.
* Two tenants are the least for one to name the other's rows; two requests
  for a check and the change that outdates it. Two emails let one be taken.
* Four lines hold a code block with a line in it between two others, and two
  paragraphs around a heading or a blank line. Three elements hold two headings
  of either level around a paragraph, or an oversized paragraph between two
  others; it has three sentences, of which one exceeds the limit itself. Three
  pages against `MaxPages = 2` cut a PDF off. A document gives up to four
  chunks: more than a batch of 3, which is itself more than one provider call.
  The budget of 10 is spent by two sources, and exceeded by one with long
  headings.
* Two calls in flight are the least for one to overtake the other; the run
  refills the slots as often as it likes, so longer chains of calls happen one
  after another. Three documents against a page of two are the least for a
  reply that leaves one out. Two questions let a verdict be of the wrong one; two
  thresholds around one score decide it either way, and a search may find
  nothing.

## 4. Fairness

Only what the code or its platform schedules is assumed.

* `ingestion_live` (`LiveSpec`): the sweep runs on an interval and time
  passes (`Reconcile`, `RowAges`); a slot's next step happens, as every
  awaited call settles and the event loop goes on (`Slot`); BullMQ's stalled
  check runs on an interval (`JobStalled`). Nothing obliges a user to upload or
  delete. Nothing obliges the enqueue after the row was written,
  `markFailed`, which nobody awaits, or the delete of the object: these may be
  lost. Crashes and throws are never obliged and may occur at any time.
* `chat`: the awaited load and retrieval settle; a generation ends *if it was
  aborted* (a hanging provider is allowed); the stream timer fires; the client
  takes frames that arrived and is told of a connection that is closed. No
  reader is obliged to read on the server's behalf, and no user presses a button.
* `upload_progress`: the first lookup settles, the five-minute timer fires, a
  POST is answered or fails, the browser hands over frames and the end of a
  stream. Polls are not assumed to be answered, and rows are not assumed to
  move, so `StreamEnds` rests on the timer alone.

## 5. Proofs

The proofs hold for every value of the constants: any number of documents,
hashes, slots, models, attempts and stalls, any content, any set of long runs.
They use only the assumptions the modules name, all of which TLC evaluates.

**IngestionProofs** (from `ContentAssumption`, `ModelAssumption`,
`NoneAssumption`, `BoundsAssumption`)

| Theorem | Argument |
|---|---|
| `TypeCorrect` | `TypeInv` adds to `TypeOK` that a slot at work has a document and that a job that may still run has attempts left; without the first, an update by `doc[w]` leaves the type, without the second, the counter does. |
| `RowsAlwaysHaveObjects` | `ObjectInv`: also an upload between its two steps has its bytes, and a pending object delete belongs to a deleted row. `RowsHaveObjects` alone is not inductive: the row is created one step after the object. |
| `DeletesAreFinal` | from `ObjectInv`: the only step that creates a row is the upload's, and a deleted document's upload is past it. Every other write requires the row. |
| `NoOrphanChunks` | `ChunkInv`: owners also exist, are created, and own only their own content; the foreign key guards the insert, the cascade the delete. |
| `OneVectorSpace` | `VectorInv`: also a slot that is embedding has its own model claimed. The claim is read back before the first batch and no step ever changes a claim. |
| `HonestCheckpoint` | `CheckpointInv`: also a slot past `SaveChunks` whose row exists has its document's content held. It holds through deletes because a hash that is freed was the deleted document's own (`ChunkInv`), which is what `LostWithSharer` says. |
| `ReadyMeansEmbedded` | `RunInv`, for each document outside `LongRunning`: a slot that works on it holds its lock, so it does so alone; it finds the row at its own checkpoint, or FAILED by the sweep, or gone; what is still to be embedded is in its `pending`, and nothing is once it is about to write READY. `ReadyIsEmbedded` says nothing of the steps before READY. |
| `LifecycleImplemented` | by `RunInv` each write of a status starts from a status that `DocumentLifecycle` allows, every other step leaves the row alone, so every step maps to a step or a stutter. It assumes `LongRunning = {}`: with overlapping runs it is false, which is the second finding of section 6. |

**ChatProofs** (from `StreamBounds`). All six follow from one invariant,
`ChatInv`: `StreamInv` of each request, and `TalkInv` of the client.

| Theorem | What of the invariant it needs |
|---|---|
| `TypeCorrect` | the transcript's text is bounded because a stream longer than `MaxTokens` ends in a frame that is no token. |
| `StreamsWellFormed` | `FramesInv`, with `StageInv`: a coroutine that finds `closed` unset may write, because nothing else has ended the response (`closed` implies `ended`, and a running coroutine that is not closed has not ended). |
| `TimersAlwaysStop` | `StageInv`: timers are off whenever `closed` is set, and no exit leaves without `end()` once they are on. |
| `BufferStaysBounded` | `LengthInv`: a coroutine that generates on an open connection is below the mark, one that waits in `drain()` is at it, so what the timer or the end adds is one frame. |
| `TranscriptStaysPaired` | `TalkInv`: while a handler runs its question is the last message. |
| `GroundedAnswersWhole` | `LengthInv`: on a connection that is not cut as many tokens were written as are in `answer`, and behind a grounded frame the coroutine is over; `TalkInv`: the client's buffer holds every frame it took. |

**AccessProofs** (from `NoneAssumption`)

| Theorem | Argument |
|---|---|
| `TypeCorrect` | each kind of request in flight keeps its own fields, and a claim that is an admin session's is `Admin(c.tenant)`. |
| `AccountsStayWhole` | `AccountInv`: a tenant exists exactly if it has an owner and exactly if its assistant has a status, and two owners share neither email nor tenant. The count in `AccountsAreWhole` follows. |
| `RevocationHolds` | `KeyInv`: a revoked key is absent from the table and no request is about to insert it (ids are minted once, by one request), so an exchange that began after it cannot resolve it. |
| `UnpublishHolds` | `ShownInv`: a chat in flight with an assistant that is published now has seen it published; the answer rests on the status read when the assistant is loaded. |
| `OwnersAdminister` | `AdminInv` (an administration in flight carries an admin session's claims) with `KeyInv`, which tells that creating a key overwrites no other. |

**RateLimiterProofs** (from `BucketAssumption`), for readings of any age, skew
and order

| Theorem | Argument |
|---|---|
| `TypeCorrect`, `GrantsAreBounded` | `RateInv`: readings in flight are as recent as `MaxLag` says, a key outlives the refill of what it holds by any clock (`KeyOutlivesRefill`), and spent plus what is left is within burst, refill, rewound time and `lent` (`Budget`). `RateHolds` alone says nothing of the tokens that are left. `ExpiredIsRefilled`: what an expired key gives beyond the refill is at most `Overdue`. |
| `SlackSuffices` | `SlackCovers`: if age and skew stay within the slack, `Overdue` is zero, so `lent` stays zero. The theorem has this condition in its statement: it is one on the deployment, and nothing in the code enforces it. |
| `PromisesAreKept` | every run of the script that refuses leaves `Refilled` at a promised time as high as it was (`DenyKeepsPromises`); an expired key counts as full, which is never less. |

**ProgressProofs** (from `ProgressBounds`), for any number of uploads and of
status changes

| Theorem | Argument |
|---|---|
| `TypeCorrect` | `TypeInv`, with frames and readings that are statuses of some age. |
| `ToldForward` | `Told`: each frame is followed by a later reading of the row or by the stream's end. It rests on `OpenInv`: a poll in flight `Fits` the row (a reading of its present age says what it says now), and is no older than the last frame, because only one poll is in flight at a time. |
| `DrivenProgress` | `OrderInv`: row, POST and stream of a document come about in that order, so a page row that follows a document has an open stream, or frames still to hear. |

**ChunkingProofs** (from `ChunkingAssumption`), for every document in
`Seq(Block)` and every limit

| Theorem | Argument |
|---|---|
| `ExactAnchors` | `Laid`: the text of a chunk is contiguous, later chunks begin behind it, and an overlap names the chunk before it in the same section. `FrontInv` and `CoverInv`: what is cut ends before what is still open, and every sentence passed is in a chunk or waits for one. |
| `NoBleeding` | `HeadingsInv` (the open headings are those that enclose the block the loop is at) and `BodyInv` (what is accumulated lies under them), so that a chunk is cut under the headings of each of its pieces. |
| `FittingChunks` | `FitInv`: each loop's counter is the sum of what it has accumulated, and that sum is below the limit or a single sentence's. `ChunksFit` says nothing of what no chunk has yet. |

**AnsweringProofs** (extends `ChunkingProofs`; from `FilesAssumption`,
`ChunkingAssumption`, `EmbeddingAssumption` and `AnsweringAssumption`), for
files of any length, any batch sizes and attempts, any budget and any
similarities. The invariant follows a file along its way and has one part for
each station:

| Theorem | What of the invariant it needs |
|---|---|
| `BlocksOfFiles` | `ParseInv`: after `n` lines the blocks, and then the paragraph that is open, hold the readable ones of these lines in order (`Follows`), nothing in that paragraph is a break (`Unbroken`), and `fenced` is the parity of the marks passed. A heading in a paragraph is therefore one in code. |
| `AnchorsOfFiles`, `SectionsOfFiles`, `ChunksOfFilesFit` | `CutInv`: what the parser hands on is a document in `Seq(Block)` (`ParsedDocument`, for which `MadeInv` says that a block names lines of its file, and text among them), so what is proved of `ChunkSpec` applies. The three properties above, for whole files. |
| `OwnVectors`, `RemainderOnly` | `VectorsInv`: the chunks with a vector are the first `k` and have their own, `pending` is the others in order, and what was received of a batch is, if it is as long as what was asked, what was asked (`AskedInv`). That a reply of full length, sorted, is the request is `AnswersAsked`: `n` distinct indexes up to `n`, ascending, are `1..n`. |
| `GatedAnswers` | `AnswerInv`: phases past the gate have `~Refuses`; `BestHits`, nothing in the corpus is above the first hit; `OrderedOf`, the first of `assembleContext`'s own order has the first hit's score. The database may order equals in any way. |
| `BestSources` | `Numbered`: sources are the first of `Ordered`, so what beats one of them is a hit (`BestHits`) and came before it. |
| `GroundedAnswers` | `AnswerInv` for the citations, `CutInv` for what they anchor: sources are chunks of the document, a chunk's anchors span its own pieces, and its pieces lie under the headings it names. It is the one theorem that needs every station but the vectors' own values. |
| `TypeCorrect` | `CutInv`, `VectorsInv` and `AnswerInv` together. |

Sums, joined sequences and sorted lists come from library operators whose
definitions are recursive functions or choices. What these proofs need of them
is proved at the head of `ChunkingProofs` and of `AnsweringProofs`: that the
function exists, is unique, and that a sum does not depend on the order
(`SumExists`, `SumUnique`, `SumWithout`), that joining sequences over a set
gives one (`FlattenOf`), that a finite ordered set can be listed in order
(`Sortable`, `SortedSeq`). Induction is by a least counterexample: the library
proves that `<` on the naturals and inclusion in a finite set are well-founded,
and `Least` and `LeastSubset` turn this into facts about sets, which need no
operator parameter. For this, lists are sorted by `Sorted` (a choice among the
orderings of a set) and sums taken by `SumFunctionOnSet`.

**ConsoleProofs** (from `DocumentsAssumption`), for any number of keys,
thresholds, files, documents and calls in flight. All four follow from
`ConsoleInv`: `BrowserInv` of the calls, and one part for each page that the
steps of the tab and of that page preserve. `BrowserInv` says that a quiet read
has no write beside it, that a page that is `current` hears of every write in
flight, and that it waits for one `load`, `patch` or `createKey` at a time.

| Theorem | What of the invariant it needs |
|---|---|
| `SettingsPageIsCurrent` | `KeysInv`: a key is shown as it is, or the answer that settles it is in flight; an answered creation names a live key that is not shown and that no revocation in flight names, which is what keeps a late answer from undoing another. `PatchInv` is the same for the publish state. |
| `PlaygroundHoldsThreshold` | `ThresholdInv`: every call on its way to the page with a threshold that is not `old` carries the stored one (`Carries`), and the page holds the stored one unless it is `overtaken` or such an answer is `Due`. |
| `DebugMirrorsChat` | `TestInv`: the verdict on its way, or shown after its call ended, is of the question asked (`Told`). `MirrorInv`, of tests that are not torn: two halves that have yet to search work with one threshold (`Uses`), and what one of them has found is what the other will find, or found. |
| `DocumentsPageShowsAll` | `ListInv`: a listed document is stored or its delete is answered, a stored one is listed, in a row, or in an upload's answer; `RowsInv`: ids are handed out in order, so a delete that was answered names no later document; `AllListed`: a reply holds everything if there is no more than a page of it. |

None of the four mentions the bounds on calls, which only TLC needs.

**Model-checked only**: what is claimed under fairness (`EveryRowSettles`,
`EveryJobEnds`, `HandlerReturns`, `ClientSettles`, `RowSettles`, `StreamEnds`),
which is out of the prover's reach. Every safety property of the passing runs
is a theorem. The strengthened invariants were checked by TLC on the instances
of the runs before they were proved.

## 6. Where the code does not do what it says

* `pipeline.ts:118-119` says of a document without chunks "fail it rather than
  let it reach READY empty". The test is on what the chunker produced. If all
  chunks are duplicates of another document's, none is inserted, and deleting
  that other document during the run takes them away: the document becomes
  READY with nothing to retrieve (`ingestion_ready_empty`).
* `document-store.ts:31-32` says "a completed document is never flipped back to
  FAILED". `markFailed` guards on the status, `setStatus` does not: a run that
  lost its lock writes PARSING over READY, and then the sweep or `markFailed`
  fails the completed document (`ingestion_flipped_back`).
* `chat.ts:45-46` says "Client disconnect aborts the upstream Claude call". The
  listener is on the request's `close`, which has been emitted by then
  (`chat_disconnect`). The call goes on until it ends or the timer fires;
  `HandlerReturns` shows that the timer suffices to end the handler.
* `page.tsx:107` says "Carry the failure reason so a FAILED row can show it
  (and offer Retry)". The server sends `done` right after a FAILED status, and
  the page drops the row on `done` (`failed_row_retry`).

### Observations

Things the models show, or keep as they are, that no text of the repository
contradicts. The properties state what remains true beside them.

* *Settings.* A list reply replaces what is shown: one that was read before a
  key was created, and arrives after it, drops that key; one that already has
  it, arriving before the reply of the creation, lets it be listed twice. A
  revoked key comes back the same way. `SettingsAreCurrent` holds for pages
  whose last list was overtaken by no write.
* *Playground.* What `playground/page.tsx` calls the persisted value is stale
  when a save overlaps a test whose verdict was read before it and arrives after
  its answer: the verdict puts the old threshold back, until the next test.
  `ThresholdIsPersisted` names this case by `overtaken`. A verdict that passed
  may stand beside the refusal text, when it is the model that refused. A failed
  document's vectors are retrieved, in the playground and in the chat alike.
* *Documents page.* Between a FAILED status and the `done` after it, Retry
  starts a new upload on the row; the old stream's `done` then drops the row
  while the upload runs. A row that timed out keeps its document's id, and the
  list hides that document until it is retried or the page reloaded.
* *Session.* A token that expired leaves a cookie for a while; until it goes,
  the middleware sends `/login` back to the dashboard, whose calls are refused.
* *Parsing.* The content check decodes the first 8192 bytes strictly, so a
  sound file with a character across that mark is rejected as binary. A tilde
  line closes a code block opened by backticks.

### Hazards without a property

* `retrieve.ts:83`: a corpus without a model gets one between two statements of
  the same question. It needs two deployments with different models.
* `ratelimit/index.ts:12`: whether a command fails or waits while Redis is down
  is ioredis' doing; the model lets a call fail or succeed.
* `settings/page.tsx:105`: a token carries no key, so it outlives a revoked one
  until it expires. `RevocationIsHonoured` is about the exchange.
* `sniff.ts:5`: the sample above; no later step could put it right.

## 7. What is not modelled, and why

* Tokenizing, hashing, prompt text, the text inside a line: functions on text
  without state. Counts of tokens and names of hashes stand for them.
* The libraries that read PDF and DOCX, and Markdown beyond headings, fences
  and blank lines.
* Adapters to the chat model and to storage: a call succeeds, fails or never
  answers in the models that make it. Signed URLs and bucket set-up have no step.
* Back-off delays and the removal of completed jobs: delay changes no order
  that the models do not already allow. The worker's shutdown is covered by
  what it can leave behind: a crash, or a run that completes.
* The transaction setting of `withTenant`: `Access` and `Ingestion` use its
  effect. Password hashing and the encoding of tokens: a password verifies or
  not, a token is its claims.
* The vector index is approximate: an HNSW scan may miss a row. `RankedRows`
  is the ORDER BY that the query states.
* Heartbeats are comments no reader acts on; only their timer is kept.
* In the console every sign-in is of one tenant (tenants are told apart in
  `Access`). A read fails only while the API has not answered it, as one whose
  answer is lost shows the page nothing either; for writes the lost answer is a
  step of its own. Another session saves no threshold there.
* Mobile sign-in is one exchange at start-up; nothing renews the token, so an
  app that runs on is refused after an hour, and there is no step to model.
* Configuration, wiring and types have no behaviour over time; verification
  scripts are tests.

## 8. Plan

The modules were written in this order: the ingestion first, because documents,
progress and retrieval rest on its rows; then the chat stream, the progress
stream and the rate limiter, which are concurrent; then access; then the path
from file to answer; then the console. What is left:

1. *Retrieval during a first ingestion* in `Ingestion`: the query reads the
   corpus' model and scans in another statement.
2. *Tokens after revocation* in `Access`, which needs keys in the claims that
   the code does not put there.
3. *An unreachable Redis*: `FailOpen` against a client that waits.
4. *The tenant setting of a transaction*, over pooled connections.

Of the proofs, what is left beside liveness: what `DocumentLifecycle` itself
entails (a document that is READY stays so until it is deleted, and one that is
deleted stays that way) as theorems of the abstract specification, and
`LifecycleImplemented` without `LongRunning = {}`, for the documents that no
long run works on.
