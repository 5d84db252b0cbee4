# Verification of public-nest-server

TLA+ models of the parts of this repository where interleaving, failure and
recovery decide whether it is correct, TLC runs that check them on small
instances, and TLAPS proofs for every size. `PROJECT.json` maps each definition
to the lines of code it models.

## 1. The system

A NestJS monorepo: services that talk gRPC, Kafka and Redis, and a browser-facing
gateway. Every handler is asynchronous and single-threaded JavaScript: between
two `await`s it runs alone, at an `await` any other handler may run, and each
awaited call may fail, or take effect and then fail.

| Component | State it keeps | Operations | Talks to |
|---|---|---|---|
| payment: creation, webhooks | `payment` and `payment_outbox` tables (MySQL), idempotency keys (Redis db 4), the mock PG's transactions and ledger (Redis db 5) | CreatePayment (gRPC, HTTP), PG webhook | gateway (gRPC), PG (HTTP webhook) |
| payment: outbox relay | `payment_outbox`, the `polling` flag | poll, publish, mark, count a failure | MySQL, Kafka `payment.events` |
| payment: queries | none of its own | GetPayment, ListPayments | gateway (gRPC, `longs: String`) |
| payment: reconciliation | a timer (reports to the log) | reconcileOnce | PG ledger, payment table |
| gateway: AI jobs | job hash, idempotency claim, staged file, cancel flag (Redis, TTL 1 h) | create, publish, cancel, progress | Kafka (external Python worker) |
| gateway: AI job streams | one handler per SSE connection, one shared Redis connection | subscribe, relay, replay, disconnect | Redis Streams (written by the worker), job hash |
| gateway: AI proxies | none | HTTP forwarding | AI services |
| gateway/chat-service: realtime chat | `roomLastFlushed`, `roomQueue` per gateway; ZSET per room; message table | join, leave, send, notification, pull | Redis pub/sub shards, chat-service (gRPC) |
| ai-service: LLM gateway | circuit breaker hash per model (Redis, TTL 1 h), cost log (MongoDB) | stream with fallback; canCall, recordSuccess, recordFailure | LLM providers |
| ai-service: prompts | versions with owner and active flag (MongoDB) | create, activate, deactivate, delete, get active | gateway's prompt proxies (HTTP) |
| ai-service: knowledge | documents, chunks with embeddings (MongoDB), Bull jobs (Redis) | upload, ingest, remove | embedding provider |
| ai-service: QA | sessions with turns (MongoDB), exact and semantic answer cache (Redis) | ask (simple, agentic), hybrid search, delete session | LLM gateway, knowledge, reranker (HTTP) |
| identity, libs/auth | accounts (MySQL), sessions (Redis) | register, login | gateway (signs the tokens) |
| admin-server | users (MySQL), Bull jobs (Redis) | signup, activation, login, change of password, removal, mail of welcome | gateway (guard, tokens), identity (gRPC SendMail) |
| libs/common | helpers for transactions, locks, Redis | used by all | - |

What is hard, and what makes each component correct:

* **Payment creation.** Retries and concurrent calls with one key; a crash between
  the claim, the PG call and the two writes; lost PG answers; webhooks that race
  the request. *Correct:* one payment per key, a row and its events agree, money
  taken and status correspond, a status reached is final, nothing stuck for ever.
* **Outbox relay.** Crash between publish and mark, outages, overlapping ticks.
  *Correct:* at least once, no duplicate without a fault, nothing stuck.
* **AI jobs.** Claim and hash are two writes, publish comes after both, cancel races
  completion. *Correct:* one published job per key, a terminal status is final,
  every SSE reader sees every event once and in order.
* **Chat.** The flush mark is shared by all sockets of a room, pulls are limited and
  race joins and leaves. *Correct:* a joined socket gets every message sent after the
  join, from each pod once.
* **Circuit breaker, fallback.** Load-modify-save on Redis, mid-stream failures.
  *Correct:* a breaker opens only after enough failures; an answer ends with a whole
  one, and the cost log names its model.
* **Prompts, knowledge, sessions, signup.** Check-then-write over several awaits, jobs
  that are repeated. *Correct:* one active version and one number per version, all
  chunks of a processed document and none of a removed one, no lost turn, one mail per
  signup, passwords and tokens in the hands of their owners; each but for the races that the code does not exclude, and those are named.
* **Splitting and hybrid search.** Fusion and widening of ranked lists, the sources of a prompt, the
  chunks of a text. *Correct:* the order is that of the summed reciprocal ranks, what is added is a
  neighbour of a hit, no source is repeated, no paragraph is lost.
* **Accounts.** Check-then-insert of a first login under a unique index. *Correct:* whoever was told an
  account is led to it by every later login.
* **Reconciliation.** Windows of a timer against a ledger whose entries come late.
  *Correct:* no unsettled transaction goes unreported for another reason.

`hazards` in `PROJECT.json` lists the dangerous lines one by one. Five that no property
covers, since the code promises nothing about them, are kept here: the saved answer of an
idempotency key is not refreshed by a later webhook (`payment-idempotency.repository-impl.ts:68`);
after a failed event the relay goes on with the next, perhaps of the same payment
(`payment-outbox-relay.service.ts:48`); `cancelJob` and a progress update overwrite each other's
status (`job.controller.ts:87`); the SSE stream of a cancelled job ends only if the external
worker writes an end (`job-stream.controller.ts:66`); over gRPC the owner check of a payment
compares a string with a number (`payment.grpc-controller.ts:41`), a matter of one expression. A sixth is a by-product of the answer
caches: an empty answer is stored, found again as similar and sent, and `appendTurn` then
throws, so that such an ask never gets its `[DONE]` (`ask.use-case.ts:172`,
`conversation-turn.vo.ts:11`; `FindSimilar` and `UpdateSession` have it).

## 2. Structure and plan

1. `PaymentLifecycle` (with `PaymentPromise` above it) and its proofs.
2. `PaymentOutboxRelay` (with `OutboxPromise` above it), fed by the events that
   `PaymentLifecycle` writes, and its proofs.
3. `AiJob` (create, publish, cancel, progress, expiry) and `AiJobStream` (the SSE
   endpoint with replay, with `EventDelivery` above it).
4. `ChatRealtime`: a room, the pods that serve it, and chat-service.
5. The request-response services, each a module on top of `ServiceCalls`: `LlmGateway`,
   `PromptTemplates`, `KnowledgeIngest`, `QuestionAnswering`, `PaymentReconciliation`,
   `AdminSignup`, `AdminAccess`, `Accounts`; `HybridSearch` is the algorithm that `QuestionAnswering`
   takes as any set of documents, `DocumentSplit` the one behind the chunks of `KnowledgeIngest`.
   `Services` puts them side by side for one run.
6. Proofs of the safety properties that the runs check, for every size. A component with a run of
   its own has a module named after it with `Proofs`; `RetrievalProofs` has those of
   the algorithms `HybridSearch` and `DocumentSplit`, `AiServiceProofs` those of `LlmGateway`,
   `PromptTemplates`, `KnowledgeIngest` and `QuestionAnswering`, and `ServicesProofs` those of
   `AdminSignup`, `AdminAccess`, `PaymentReconciliation` and `Accounts`; it carries all of them
   over to `Services`.

What would come next: an abstract log of messages that `ChatRealtime` implements where
`Overtaken` and faults are excluded.

## 3. Modules

### PaymentLifecycle

`pc[r]` is the await at which CreatePayment call `r` stands:

| pc | about to happen | action(s) |
|---|---|---|
| lookup | `findByKey` | FindByKey |
| claim | `tryClaim` (SET NX EX) | TryClaim |
| relookup | second `findByKey` | FindInFlight |
| create | `Payment.create`, `persist` | PersistPending |
| approve | PG: SET transaction | RequestApproval, ApprovalThrows |
| list | PG: ZADD ledger, answer | ListTransaction, ApprovalThrows |
| settle | `persistWithEvents`: `manager.save` reads the row | LoadOutcome |
| write, insert | its UPDATE, unless the row was equal, and the event | PersistOutcome |
| save | `idempotency.save`, answer | SaveResult |
| replied, conflict, error, lost | - | - |

Each of these awaits may reject (`RequestThrows`); where a call that took effect
and then rejects makes a difference, there is an action for it
(`PersistPendingThrows`, `SaveResultThrows`). `ApprovalThrows` covers an attempt
that did not reach the PG, reached it half, or lost its answer; `AttemptFails` is
`retryWithBackoff`'s decision between another attempt and the `catch` that fails the
payment. A webhook delivery `w` reads the row (`WebhookFinds`), and `persistWithEvents` of the copy
is two steps here too (`WebhookLoads`, `WebhookPersists`): TypeORM's `save` reads the row again, and
what it finds decides (`Plan`) whether there will be an UPDATE; the event is inserted in any case. `ExpireKey` is the TTL, `Crash` ends every
handler and keeps the stores.

Data are abstracted to what matters: an amount is plain, negative or the mock PG's
decline sentinel; the channel tells whether an amount arrives as a number (HTTP)
or as a decimal string (gRPC with `longs: String`, never `===` the sentinel). A
payment is named by the request that creates it, which the code's auto-increment
id amounts to. `born` and `expired` are history variables: which expiry of a key
a claim follows.

Assumptions of the model: a claim does not outlive its TTL of 24 h while its request
still runs (three attempts with back-off take seconds); in the transaction of `persistWithEvents` the
read is a snapshot, and UPDATE, INSERT and commit are one step; the webhook sender is the PG and tells its decision truly (forged deliveries
are refused by the signature, `PgWebhookController`, and change nothing); the table
is not written by anyone else.

### PaymentPromise

What the aggregate `Payment` promises: created PENDING, settled once from PENDING,
one event per settlement. `PaymentLifecycle` implements it with `status <- row`,
`events <- outbox`, as long as there are no webhooks.

### PaymentOutboxRelay

`poll[t]` is an invocation of `pollOnce` (several may overlap: the `polling` flag,
not the model, excludes it), with its remaining batch, the event the loop stands at
and the attempts that `markFailedAttempt` has read. `topic[e]` counts the copies of event `e` in Kafka.
`Commit` inserts events in any order of ids. Publishing may be refused (broker
down), lost, or acknowledged and the acknowledgement lost; `markPublished` may
reject before or after its effect and is then treated like a failed publish, as
the code's one `catch` does. A database error outside that `catch` rejects the dropped
promise of `pollOnce` and ends the process on Node 20, so it is the action `Crash`;
`Restart` is an operator's. One process runs the relay (the compose file starts one).

### OutboxPromise

What the relay promises of an event, whatever fails: only a PENDING event is published, it is
marked only after it has been, and given up is final. `PaymentOutboxRelay` implements it with
`status <- status`, `topic <- topic`. `Fall` takes back a mark as well: `markPublished` may reject
after its effect, and then `markFailedAttempt` writes PENDING or FAILED over it. This is how the
code delivers at least once and not exactly once.

### AiJob

`pc[r]` is the await at which the call `r` of createAskJob or createIngestJob stands;
a job is named by the request that drew its random id.

| pc | Redis or Kafka call | action |
|---|---|---|
| claim | SET NX EX `job:idem:*` | TryClaim |
| get | GET of it | GetClaim |
| load | HGETALL of the job found | LoadExisting |
| write, expire | HSET, EXPIRE `job:*` | WriteJob, ExpireJob |
| stage, stageTtl | SET, EXPIRE `ai:job:*:file` (ingest only) | StageFile, ExpireFile |
| publish | Kafka | Publish |

`cancel[c]` runs through cancelJob: HGETALL, HSET, HSET, EXPIRE, SET. Every one of these
calls may reject before or after its effect (`RequestThrows`, `CancelThrows`), and the
gateway may die (`Crash`); each costs one of `MaxFaults`. A hash keeps its status,
whether it names its owner and whether it has a TTL: HSET on an expired key makes a new
one without the other two. The worker is external: `Consume` and `Finish` follow the use of its
topics and statuses in `src`, `UpdateProgress` and `RefreshProgress` are
JobStoreService.updateProgress, which nothing in `src` calls but which has the worker's
write; "done" stands for "error" as well.

Abstractions and assumptions: a key of `Keys` is a user with an idempotency key, and calls of
foreign users are refused without effect; TTLs (one hour each) do not end while the
request that set them runs, and a hash outlives its claim, as it gets the same TTL
later; the TTL of a staged file is set, its end is not modelled, since nothing in `src`
reads the file.

### AiJobStream

A handler `h` is one call of JobStreamController.stream: `load` (getJob), then `read`, in
which one XREAD of `h` is always pending on the Redis connection that all handlers share
(`xread`, first come first served). `Relay` answers the command at its head, with events
or with none after `BLOCK_MS`, and runs the loop body: it writes events up to a terminal
one, and issues the next XREAD unless the loop has stopped. What is written reaches the
client up to some event, after which the connection is lost (`left`), or wholly.
`CloseEvent` is Node's event; it stops only a handler that has registered its listener,
which it does after getJob. Clients come back with the id of the last event they have.
A connection is opened by a client without an open one; `ExpireJob` is the TTL of the
job's hash (404 from then on), the worker that adds events is external.

### EventDelivery

What the endpoint promises its readers: a client receives the next events of its job's stream,
nothing twice, nothing skipped, nothing taken back, whatever connections it took. `AiJobStream`
implements it with its own `stream` and `got`; handlers, the shared Redis connection, lost
connections and crashes are stutters.

### ChatRealtime

`send[m]` is the call of saveMessage for message `m` in chat-service (stamp, ZADD, trim and
publish, each an await); chat-service may be several processes, so that a message may be
stored after a newer one. There is one clock: the gateway stamps its marks with its own `Date.now()`
(`chat-gateway.gateway.ts:198`) and chat-service the messages with its own
(`chat.grpc-controller.ts:19`), which agree on the one host of the compose file; with skew between hosts a mark
could lie in the future, and the chat properties would not hold. `pod[p]` is a gateway process: its `roomLastFlushed` mark and the
notification at the head of `roomQueue`, which it pulls and emits; `remote[p]` are the emits
that the socket.io Redis adapter carries to `p`. `sock[s]` is a client: joining, in the room,
its history, gone; `got[s][p][m]` counts the copies it received. A tick of the clock
is a millisecond in which something is stamped: messages get the tick in which they are sent, and
ticks without a stamp are left out. `NoticeLost`, `PullThrows`, `LoadHistoryThrows`,
`PersistThrows` and `PodCrash` are the faults. A message stamped in the very millisecond of a
join is in neither the history (strictly before) nor a pull (strictly after); `NoGap` states
the code's guarantee without it. `Overtaken` are the messages that the mark may pass: one with the
timestamp of another message that was stored, even if that one has been trimmed since, or one stored
after a newer one. A disconnect leaves the mark behind; `fresh` says that the members of a pod found
none. `AllDeliveredAtRest` promises nothing about overtaken messages, messages that the trim has removed,
members of a pod that is not `fresh` (the limited pulls of the next members lag behind), or runs with a fault. It
speaks of a chat in which no message is between its ZADD and its notification: the limited pull of
another message may have been spent on it, and its own is still to come. The trimmed message and
the one about to be notified matter only from three messages on, with `MaxPull` below
`MaxStored`, which the run is too small for; the proofs in section 5 brought them out.

### The services

`ServiceCalls` has the calls in flight and the faults. In each module a record per call says
at which await it stands, as `pc` does above; what other calls do in between is free. A
fault is a rejected call or a crash, wherever the code has no handler for it or a handler
that changes state.

* **LlmGateway.** `CheckBreaker` is the loop over the chain with `canCall`; a breaker is changed
  in two steps, `LoadState` and a save; a rejected load gives a new breaker to count on (`LoadStateThrows`). `answers` is what the caller of the generator has
  received from which model: all, some or an empty answer. `failures` is a history of the
  failures per model since its breaker was last reset with no failure on its way.
* **PromptTemplates.** The versions of one name. `AdminRequests` and `MyRequests` are the requests
  of the gateway's proxies; saveMine sends a creation and then an activation. The service
  behind these proxies is a Python port that is not in the repository; its routes are those of
  `apps/ai-service`, which is what is modelled. `overlapped` and `crossed` record the races that
  the two properties except, so that every other way to a duplicate is refuted.
* **KnowledgeIngest.** A document, its chunks, its Bull job and the runs of
  IngestDocumentUseCase, of which two overlap after a stall. Bull hands a stalled job out once and fails it the
  second time (`MaxStalledCount`, the default, as no settings are given). `Keys` has "undefined", the
  documentId of the new document that a run makes up when its own has been removed.
* **QuestionAnswering.** A question is known by the class of questions with the same embedding. The
  semantic cache goes by the embedding that the search returned (`Embeddings`): the query's own, or like
  that of any question if HyDE averaged it with a hypothetical answer, or, for a compound query, that of the
  first part that the model made of it. An answer is known by what it was made for, the documents it was made from and whether it is full, blank or
  empty. A simple ask goes history, rewriting, search, two caches, generation, two stores; a complex one in
  rounds of search, generation and critique, until the critique is confident enough or the budget is spent. `peers` are the asks that had the session
  open at the same time.
* **HybridSearch.** No concurrency: fusion, reranking (any order, the reranker is external), the cut
  to topK, the siblings, the sub-queries, and the sources of the prompt, one per parent. The two
  searches return any lists of what is stored. Scores are integers over the common
  `Denominator`, a constant that every RRF_K + rank divides. The loops of the code are functions
  of the number of rounds, about which one can prove (of a fold one cannot). The parallel
  sub-searches share nothing and are taken one after the other.
* **DocumentSplit.** A text is paragraphs with breaks, of one character (a page) or two. Paragraphs are
  collected while they fit; what is too long for a chunk is cut by the external splitter, whose
  overlap is any up to the configured one. `place` is where a chunk really begins, to compare
  with the offset that computeChunkOffsets finds. The offsets are used only with
  contextual embeddings enabled.
* **Accounts.** A login looks for the uuid and perhaps inserts a row (`MayInsert` is the unique
  index), sets the session and answers; a registration draws a fresh uuid, which its client
  knows only from the answer. `told` are these answers, `refused` the logins that the index rejected.
  The reader of the sessions, the basic strategy, compares an id that no answer gives to a
  client (the JWT is verified instead), so that no property is about them.
* **PaymentReconciliation.** Time in ticks; `gaps` are the times whose window was lost by a
  restart or never opened because the timer fired late (mismatches are reported at the end of a run, where the
  code logs them), `late` the entries that reached the
  ledger after a window past their score was read.
* **AdminSignup.** Requests, rows, mail jobs and the mails that identity has stored. Adding the job and
  answering are two steps, so that an add may take effect and the signup fail all the same. A job ends
  after its attempts or at its second stall, as Bull's defaults have it.
* **AdminAccess.** What follows a signup, which is one action here. A password is known by the person who
  chose it, so that its value is the row they signed up for; `activatedAt` tells "never" from "off",
  both null in the code. A login decides on the copy of the row it has read, a change of
  password on the row of its email at the time of the check and writes to that of the time after the
  hash. A token lives on after its row has changed or gone. The guard (any live token, an
  API key, a session, the token of a game account) reads nothing that handlers write and
  is part of their first step; only changePassword asks who the executor is.
* **Services.** The choice of one of them. They share no state in the code either: the documents that
  a search finds are any set, which is what ingestion and removal amount to.

### MC modules

The commands and the symmetry of the payment runs; the clients and jobs of the stream runs; pods,
sockets and their symmetry for chat; chain, parents and symmetry for the services.

## 4. Runs

| Run | Instance | Shows |
|---|---|---|
| payment_lifecycle | 2 requests, 1 key, 2 webhooks, 2 attempts, 1 expiry (1.9 M states) | type invariant and five safety properties |
| payment_exclusive | 2 requests, 1 key, no webhook, 2 attempts, 1 expiry | refinement of PaymentPromise; payments leave PENDING unless interrupted; blocked keys are freed |
| payment_webhook (violation) | 1 request, 1 webhook, 3 attempts | a settled status is overwritten |
| outbox_relay | 3 events, batch 2, 2 attempts, 2 ticks at once, 2 faults | refinement of OutboxPromise; no event given up early, duplicated without a fault, or stuck |
| outbox_outage (violation) | 1 event, 5 attempts, no faults after the outage ends | an outage of five polls loses the event |
| ai_job | 2 requests, 1 key, 1 cancellation, 1 fault (0.25 M states) | a retry gets the job that was answered; a published job is complete; no hash stays for ever; an accepted job is published |
| ai_job_duplicate (violation) | 2 requests, 1 key, no faults | two jobs for one key |
| ai_stream | 2 connections, 2 clients, 2 jobs, 2 events each, 1 fault (0.1 M states) | refinement of EventDelivery: events in order and once over reconnections; the end of a job reaches its subscribers; stopped handlers free the connection |
| ai_stream_disconnect (violation) | 1 connection, 1 event, no faults | an early disconnect is missed |
| chat | 2 messages, 2 clients of one of 2 pods, 3 ticks, pulls of 1, history of 1, 1 fault | once per pod, no gap below the mark, nothing missing at rest |
| chat_duplicate (violation) | 1 message, 1 member on each of 2 pods, no faults | every member gets the message from both pods |
| services | 2 calls, 1 fault (3 where there are jobs); 2 models, threshold 2; 3 prompt versions; 1 document of 2 chunks; 2 questions, one complex and compound; 4 chunks; 1 transaction, 6 ticks; 1 email and 2 rows; 3 administrators, two with one email; texts of 4 paragraphs; 1 device and 1 registration (1.6 M states) | the properties of each service, see below |

Why the bounds are enough. Requests interact through one key, one row and the
outbox only; two requests on one key show every conflict of claims, with one
expiry a later claim of the same key as well, and distinct keys do not interact.
Two webhooks give two writers beside the request. Two attempts tell the first, the
last and the retry apart (the violation run uses the code's three). In the relay,
batch 2 of 3 events has a full batch, a partial batch and an event that waits; two
faults allow a lost answer followed by a crash. Two job requests on one key are the
claimant and the one that finds the claim, or a call and its retry, and either may upload
instead; the cancellation and the worker meet on either job. Two
connections are either one client that comes back or two clients behind each other on
the shared Redis connection; the second event tells a batch from its terminal event. (The
safety properties of the stream also hold with three connections and no faults, which is
too slow to keep as a run.) The theorems below remove the bounds
for safety.

In chat, pulls of one message and a history of one make every limit bite with two messages; three
ticks give a message before, in and after the tick of a join. In the services two calls are the
reader and the writer of each lost update and one fault is enough for each excused exception to
occur; jobs need two, for the last attempt or the second stall, and have a third beside them
(`MaxJobFaults`); one document and one email are enough, as no step concerns two of them, and removed documents
have only the id "undefined" in common; three prompt versions are create, delete and create again; the agentic loop has a
first and a later round, and a confidence threshold in tenths; four chunks are a hit, its two
neighbours, each of which may be another hit, and a chunk without parent; three administrators are a row, its
successor with the same email and a stranger; four paragraphs of length 1, 2 or 5 with chunks of 4
give chunks of one and of several paragraphs, cut ones and all their neighbours, with probes that occur more
than once; two calls of one device are its two first logins, or a registration and the login
after it. `MaxCallFaults`, `MaxJobFaults`, `MaxTemplates`, `MaxUsers`, `MaxLlmTime`, `MaxLlmFailures`,
`MaxPgTime`, `MaxParagraphs`, `Documents` and `Transactions` bound what is otherwise without end. Other limits are
smaller than in the code (failure threshold 2, attempts 2), which only brings them nearer. A session
exists in this run only once an ask has created it. No request of it has `useHyde`: an averaged
embedding is to the model what that of a part is, like that of any question, and the compound query has those; the
proof is for any `UseHyde`.

`MaxExpiry` and `MaxFaults` only bound counters; `Requests`, `Webhooks` and `Events` are
the finitely many calls of a behaviour. `AllAnswered` lets the finite life of a payment
model end without a deadlock; the relay never stops.

Fairness. `RequestStep`, `PollStep` and `WebhookPersists` are weakly fair: Node runs a
continuation whose promise is settled, and no call is modelled as hanging for
ever. `ExpireKey` is weakly fair (Redis expires keys), the interval keeps firing, and an
outage of Kafka ends. Errors, crashes, calls, webhooks and an operator's restart are
never forced. In the AI modules the gateway's handlers, `Relay` (each XREAD is answered,
after `BLOCK_MS` at the latest), the close event and the TTL of a hash are weakly fair;
nobody has to call, and the worker has to do nothing. Hence the liveness properties have
"unless interrupted" in them where the code has no recovery.

What the services run shows, service by service. Some properties except the races that the code does
not exclude; they say that nothing else leads to the bad outcome, and do not say that the code is free of it
(the notes of `hazards` name each case):

* `BreakerOpensAfterFailures`: however stale copies overwrite each other, a breaker is open only
  after `FAILURE_THRESHOLD` failures of its model. (It may open too late.)
* `AnswerEndsWhole`: a stream that ends normally ended with the whole answer of a model, perhaps after
  fragments of others; the cost log names that model unless it sent no token.
* `VersionsUnique`, `OneActivePerOwner`: deletions, slots and switching are safe but for overlapping
  requests and for a user who activates the shared version of a number.
* `ProcessedHasAllChunks`, `OrphansOnlyByRace`: repeated, stalled and dying runs leave a processed
  document complete; chunks without a document need a removal during ingestion.
* `AnswersKept` (`TurnsKept` and `AnswerFitsSources`): only overlapping asks lose a turn; only the semantic cache and
  later agentic rounds answer from other documents than those announced; an answer of the semantic cache
  is for this query if both searches had the embeddings of their own queries, and else for one with a like embedding.
* `RetrievalIsAsDefined`: algorithms against their definitions. `FusedByReciprocalRanks` and
  `NeighboursFollowHits`: a neighbour is missed only if a later hit has the same parent
  (`hitIndices` keeps one per parent). `SourcesOfPrompt`: one source per parent, in the order of
  the hits. (The sources announced to the client are listed by chunk, so that their
  places agree with the prompt's numbers only up to the first repeated parent.) `SplitIsWhole`: no
  paragraph is lost or out of order. `OffsetsNotLate`: a chunk is sought too late in the text only after an
  overlap or a replaced page break; an offset may then even lie past the end.
* `UnsettledIsReported`: what reconciliation misses came late or lies in a lost window.
* `SignupMailed`: a mail for every signup answered, unless its job ended after as many rejected calls as
  attempts or at a second stall; a second one, and a row whose signup was not answered (mailed or not), only after a fault.
* `CredentialsAreOwners`: a row's password and tokens are its owner's, or those of the former owner of
  its email, whose token or pending change outlives the removed row; and no token without an activation.
* `AccountsAreReached`: every answer keeps leading to its account, a login rejected by the index can be
  repeated, and an account that nobody was told of is left by a fault only.

### Findings

* **A settled payment can be overwritten** (`payment_webhook`). The webhook handler and
  the request each check PENDING on the copy they hold, then write unconditionally. Example:
  the webhook reads PENDING; the request exhausts its attempts and writes FAILED with its
  event; the webhook writes COMPLETED with another event. Consumers see both. A conditional
  update (`WHERE status = 'PENDING'`) would make the comment in
  `handle-pg-webhook.use-case.ts:24` true.
* **An outage of Kafka of more than five polls loses events** (`outbox_outage`), although
  the comment of `payment-kafka-producer.service.ts:28` counts on later polls. FAILED rows
  have no way back in the code.

* **Chat messages twice** (`chat_duplicate`). Every pod with members of a room emits with
  `server.to(roomId)`, and the Redis adapter hands each emit to all pods. `docs/chat.md:425` and
  `:461` take the emit for local. (`server.local.to` would be.)
* **One key, two jobs** (`ai_job_duplicate`). The claim is visible before the hash. A duplicate
  request that loses SET NX in between finds the claim and no hash, takes the job for expired
  (`job-store.service.ts:66`) and publishes a second one. `RetryGetsSameJob` holds all the same:
  once a call has been answered, its retries get its job.
* **An early disconnect is missed** (`ai_stream_disconnect`). `req.on('close')` is registered
  after `await getJob`. If the client goes away before, the loop keeps its place on the shared
  connection, 10 s of each round, until the job ends, or for ever if it never does
  (a cancelled job whose worker writes no terminal event).

Four more, which the models contain and no run is kept for:

* **The newest event can contradict its row.** `manager.save` (`payment.repository-impl.ts:28`) reads the row and
  skips the UPDATE if nothing differs. A second delivery reads COMPLETED, the request then writes FAILED with its
  event, and the delivery adds a COMPLETED event to a row that stays FAILED. What holds is `OutboxTellsRow`: the
  event of the row's status is there, and what follows it only repeats earlier ones.
* **The sentinel amount is approved over gRPC.** `longs: String` makes the amount a string, and `!==` with a
  number is true (`mock-pg.adapter.ts:47`, against its own comment at :21); `Approves` has it so.
* **A disconnect leaves the mark.** `handleDisconnect` only logs; `docs/chat.md:549`, `:460` and `:467` have it
  call `cleanupRoom()`. The next member of the room on that pod starts from the old mark; `AllDeliveredAtRest`
  promises such a pod nothing.
* **A part answers for the whole.** For a compound question the search returns the embedding of its first part
  (`hybrid-search.use-case.ts:173`), which keys the semantic cache for the whole (`ask.use-case.ts:140`, `:173`).

## 5. Proofs

`PaymentLifecycleProofs` proves, for any sets of requests, keys and webhooks and any
number of attempts and expiries:

* `TypeCorrect`: `Spec => []TypeOK`.
* `Invariance`: `Spec => []IInv`, the inductive invariant.
* `ExactlyOnceClaim`, `SavedResultCorrect`, `OutboxCorrect`, `CompletedCorrect`,
  `FailedCorrect`: each safety property of the run payment_lifecycle.
* `PromiseImplemented`: the refinement of PaymentPromise when `Webhooks = {}`.

They rest on the assumptions named in `PaymentLifecycle` (`CommandsAssumption`,
`NullAssumption`, `BoundsAssumption`). No property is inductive alone. `OnePaymentPerKey`
needs `ClaimInv`: while a key has not expired since a request claimed it, the key is
taken, so the next successful claim comes after another expiry. `CompletedWasApproved` and
`ApprovedButFailedIsExhausted` need `DecisionInv`: what a request or a webhook is about to
write is the PG's decision or the end of the attempts, and a payment written FAILED has
left the retry loop. `SavedResultIsSettled` and `DecisionInv` need `RowInv`: which steps
have a row. `OutboxTellsRow` needs `TellInv`: the event of the row's status is in the outbox, and
so is, not after it, one like each that a transaction is about to insert without an UPDATE (its status was the row's when
it read it); what is inserted after the telling event by such a transaction therefore only repeats. Lemmas `RowStep`, `Writer`, `CommandKept` and `ClaimFrame` say once which steps
touch what. For the refinement, `UnsettledInv` adds that nobody but its request writes
a row that is not settled.

`PaymentOutboxRelayProofs` proves, from `RelayAssumption` alone (any set of event ids,
any number of overlapping polls, any batch size, attempt limit and number of faults):

* `TypeCorrect`: `Spec => []TypeOK`, which includes `attempts <= MAX_ATTEMPTS`.
* `Invariance`: `Spec => []IInv`.
* `OutboxPromiseImplemented`: the refinement of OutboxPromise (`OutboxPromiseKept`).
* `GivenUpLate`, `BoundedDuplicates`: the other safety properties of the run outbox_relay, and
  `PublishedOnlyDelivered`, which the run checks as part of the refinement: what is
  marked is in the topic.
* `OnePollAtATime`: one invocation of `pollOnce` at most is under way.

The three properties rest on each other through `IInv`. `ExclusiveInv` (the flag admits
one poll) makes the row that a poll reads and then writes its own. `BatchInv`: what is left
of a batch is PENDING, save the event whose marking was rejected. `DeliveryInv`: between
publish and mark the event is in the topic. `AttemptsInv`: the column never runs ahead of
the errors that happened. `CopiesInv`: an event that may be published again has no more
copies than faults. One lemma per action shows that it keeps them (`TickSafe` to
`CrashSafe`); `IInvStep` combines these. For the refinement, `CurrentStatus` says that the event
that a poll publishes or marks is PENDING at that moment, not only when its batch was read, and
that what it marks is in the topic; with that each step of a poll is `Deliver`, `Mark`, `Fall` or
nothing (`PollPromise`).

`AiJobProofs` proves, from `NoneAssumption` and `FaultsAssumption` (any jobs, keys, cancellations
and faults), the type invariant and the three safety properties of the run ai_job.
`RetryGetsSameJob` needs `PromiseInv`: a request that came for an answered job is on its way to
it, and the claim of its key and the hash stay as they were until it is answered. That rests
on `AnsweredInv` (a claim that names an answered job has its hash) and on `BegunInv` (nobody is
answered with a job, or finds it in a claim, before its own request has claimed its key).
`PublishedIsReady` needs `WrittenInv` and `TopicInv`: what is written and staged before the
message. The step lemmas are grouped by what they preserve (`Shape`, `Ready`, `Promise`,
`Unlimited`) and by who acts.

`AiJobStreamProofs` proves, for any connections, clients, jobs and events, the type invariant and
`EventsInOrder` (`InOrderOnce`): over any number of disconnects, rejected commands and crashes a
client has the first events of its job's stream, each once. `QueueInv`: the handlers that read have
one command each on the shared connection, and nobody else has one. `GotInv`: a client has one
open connection at most, and the `lastId` of its handler is the last event the client has; a client that
comes back presents that event. Events are told by their positions in the stream
(`WrittenTo`), so that no induction over sequences is needed.
`DeliveryImplemented` is the refinement of EventDelivery (`DeliveryKept`, which the run checks and
which says more than `EventsInOrder`): an answered command gives its client the next events or none
(`RelayDelivers`, `NextEvents`), and nothing else changes what clients have. `LastInv`: a
terminal event is the last of its stream, so that the loop, which stops at the first one, leaves
nothing out.

`ChatRealtimeProofs` proves, for any pods, sockets, messages and limits, the type invariant and the
three properties of the run chat:

* `EmittedOnce` (`OncePerPod`). `SendInv`: a message is stored once, with timestamps that stay. `MarkInv`:
  what a pod has emitted is not above its mark, and not above the mark with which the pull under
  way began, while all that this pull found is above it; that also covers marks that are deleted
  and set again during the pull. `WayInv`: what the adapter carries to another pod's members is
  on its way once and has not reached them.
* `NothingSkipped` (`NoGap`). `RoomInv`: a pod with members has a mark. `BatchInv`: what is stored below
  a pulled message and not in the batch was stored after it. `PassedInv`: what the mark has passed
  since a member joined that member has, unless it was `Overtaken`, and a mark above the join is
  the timestamp of a message. `HistoryInv`: what a history left out has `HistoryLimit` newer ones.
  The maximum of a batch and its oldest message need well-founded induction on numbers.
* `DeliveredAtRest` (`AllDeliveredAtRest`). `DebtInv` counts, as long as there was no fault: the messages
  above a fresh mark are no more than the notifications in the queue, those about to be published
  and the pull under way together, as each notification pulls one message at least. So when none
  is left, none is behind.

`RetrievalProofs` proves that the algorithms compute what their definitions say, for any chunks,
parents, texts and sizes. `SearchAssumption` and `SplitAssumption` ask that the limits are positive, that
a chunk's overlap is smaller than the chunk, that paragraphs are not empty (the code drops empty ones), and that
`Denominator` is a common one.

* `SearchIsDefined`: `FusedByReciprocalRanks`, `NeighboursFollowHits` and `SourcesOfPrompt`, with the
  types. `SearchIInv` adds that `search` is one of `Searches`, whose lists name no chunk twice.
* `SplitIsDefined`: `SplitIsWhole` and `OffsetsNotLate`, with the types. `SplitIInv` says of what is
  split that it is split as the loop does (`SplitAs`) and of what is placed where (`Placed`).

The library's induction theorems take an operator and are of no use here, so `CountUp` proves
induction for a *set* of numbers from well-foundedness. `Rounds` builds on it: a loop that can go
on from each state has a history, a function from the number of rounds to the state, so that the recursive
functions of the model are what their equations say. It remains to say what the loop has done
after `n` rounds, and that one more round keeps that: `HasAdded` and `HasFused` (a score is the sum
over the lists that name the chunk, the order of insertion is that of the first mention),
`HasSeen` (the parents cited), `HasTaken` (the paragraphs collected in order, a chunk closed only
when the next does not fit), `HasPlaced` (the offsets). Sorting is `OrderExists` and `OrderedIs`: a
total order of a finite set has exactly one listing. What `FlattenSeq` of the community modules
gives is a lemma each for the last part, an appended one and the place of a part
(`FlattenPlaces`). For the offsets, `Stands` says that a probe occurs in the text at its chunk's place;
`IndexOfIs` that the search finds the first occurrence from where it starts; so the offset
is not late as long as the search does not start late, which only the `Excused` chunks before it can make it do.

`AiServiceProofs`, for any numbers of calls, models, users, documents and questions:

* `LlmTypeCorrect`. The gate of a call is a loop over the rest of the chain, which must not be
  empty at the points that take its head (`CallTyped`), and no breaker and no copy of one
  was opened ahead of the clock. The chain that the preferred model is moved to the front of is
  again built by a loop (`Without`, by `Rounds`).
* `PromptTypeCorrect`. `PromptTyped`: a request carries an owner and what it refers to was inserted,
  together with the invariant of the two theorems below.
* `BreakerIsDeserved`: `BreakerOpensAfterFailures` for any models, chains, threshold and (finitely
  many, `CallsAssumption`) calls. A breaker in Redis and each copy of it that is about to be saved
  count no more failures than have happened, less those that are on their way (`CountInv`): a stale
  copy that comes back can only undercount. `CopyInv` says that whatever is open has reached the
  threshold.
* `AnswersEndWhole` (`AnswerEndsWhole`). `CallRight`: before the last answer there are fragments
  only, or whole ones once a fault has happened; and from the recording of the success to the end
  of the call the last answer is whole (`Complete`). `LogRight`: a line of the cost log is written at
  the end of its call and names the model of its last answer (`UsedModel`), if that was not empty.
* `NumbersStayUnique` and `ActivationIsExclusive`. Between its read and its insert a creation has the
  next number, unless another creation of its owner has inserted meanwhile (`NextInv`, with the
  maximum of a finite set by well-founded induction, since deletions leave gaps); between its two
  updates an activation is the only one of its owner and finds every version off, unless its
  owner is in `crossed` (`SwitchInv`).
* `IngestTypeCorrect`, `RemovalLeavesNoChunks` and `ProcessedIsWhole`. While Bull has not handed the job
  out a second time, one run has it (`SoleInv`), and what that run marks it has written;
  afterwards the budget of faults matters (`FreshInv`, `WholeInv`; `StallFacts` says what Bull does at a stall): if
  a stall was the only fault, a run that deletes chunks also writes them again. `KeyInv`, `LifeInv` and `RemovalInv` tie the id
  under which a run writes to uploads and removals. Each step concerns one document; `StepOn`
  leaves the others alone once and for all.
* `AnswersAreKept` (`AnswersKept`, with the types). A session is loaded and saved whole, so `KeptInv`
  speaks of the copies too: the turn of an answered request is in the session and in every copy under
  way, unless the request that holds the copy is its peer. `PeersInv` (two requests under way
  in one session know of each other) makes whoever can overwrite a turn such a peer, and `CreatedInv`
  gives a new session's id to its creator alone. `CacheInv`: what is cached under a question and
  documents was made for them, and an embedding that is a query's own is like that query; `AskRight`: from where an answer is at each point.

`ServicesProofs`, for any numbers of calls, emails, administrators, transactions and devices:

* `SignupTypeCorrect`, `SignupIsMailed`. `HeldInv` and `UnansweredInv` say who is still responsible for a
  row without a job or an answer; `MailInv` counts mails against the rejected calls and stalls of the job (`Hits`).
* `AccessTypeCorrect`, `CredentialsStay`. `RequestInv` says that what a call is about to write was right when it read the
  row, and rows only ever go on (`Grows`), so that what was right stays so (`GenuineKept`,
  `Kept`); that one email has one row (`RowsInv`) makes a person whose row is gone the only other
  one who can have a row's password.
* `ReconcileTypeCorrect`, `ReconcileReports`, for any interval up to the look-back. `Reachable`: a
  transaction that a window has passed is reported, or a run will still list or compare it, or it
  is one of the named exceptions.
* `ToldAccountsAreReached` (`AccountsAreReached`, with the types). Rows are only added, and one
  uuid has one row (`UuidsUnique`, the unique index), so that what was once told stays true
  (`ToldInv`); `LoginInv`: a call that goes on with an id goes on with the row of its uuid. An
  account becomes `Unreachable` only when the call that inserted it stops, each time at the price of a
  fault, which is the bound on their number.

The rest of `ServicesProofs` is about the composition. Each service's actions leave the variables of the others
alone (`LlmAlone` to `AccountsAlone`), so that a behaviour of `Services` is one of the service chosen
(`ServicesBehave`); a service that is not chosen stays as it began. Hence three theorems of
`ServicesSpec`, the specification that the run services checks: `ServicesKeep` (the
invariants of the eight services with state), `RetrievalStays` (`RetrievalIsAsDefined`) and
`ServicesTypeCorrect` (`ServicesTypeOK`, all ten).

Every invariant and every action property of the passing runs is thus a theorem. Only model-checked
are the liveness properties (`PendingEndsUnlessInterrupted`, `BlockedKeyIsFreed`,
`PendingIsDecided`, `AcceptedIsPublished`, `EndIsRelayed`, `StoppedHandlerEnds`): fairness is
beyond the prover. Section 4 argues their bounds. No proof takes a type or an invariant on trust: the assumptions are
those on constants that the modules declare.

## 6. Not modelled

* **Payment queries.** They read and change nothing; the owner check compares a string with a
  number over gRPC (section 1), which is a matter of one expression.
* **AI proxies** beyond the prompts: single forwards. Lists and exports of administrators: reads.
* **Database helpers.** No application uses them.
* **Observability and RAGAS scores of ai-service.** Nothing in `src` enqueues a scoring job; traces
  change nothing that another part reads.
* In the services: child chunks, the cleaning of PDF text, embedding, prompts, masking, the text of a HyDE answer, tracing and the providers themselves; in
  chat: the JWT of a connection, and malformed packets.

Everywhere: HTTP and gRPC framing, DTO validation, Swagger, logging, prompt texts,
retrieval quality, CSV export, configuration, and the unused transaction and lock
decorators of libs/common. The isolation of MySQL beyond what `persistWithEvents` meets
(a snapshot read, then a locked write) is left out, and clocks do not differ between processes.
