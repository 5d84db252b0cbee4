-------------------------------- MODULE AiJob --------------------------------
(***************************************************************************)
(* The AI jobs of apps/gateway: a request claims its idempotency key,      *)
(* writes the job's hash and publishes the job to Kafka; a cancellation    *)
(* reads the hash and then writes it.  Each is a chain of Redis commands   *)
(* with the other handlers, the TTLs and the worker in between.            *)
(***************************************************************************)
EXTENDS Naturals, FiniteSets

CONSTANTS
  Requests,   \* the calls of createAskJob and createIngestJob
  Keys,       \* pairs of a user and an idempotency key
  Cancels,    \* the calls of cancelJob
  None,       \* no key, no job
  MaxFaults   \* bound: rejected commands and crashes in a behaviour

ASSUME NoneAssumption == None \notin Keys \cup Requests
ASSUME FaultsAssumption == MaxFaults \in Nat

VARIABLES
  pc,        \* pc[r]: the await at which request r stands
  input,     \* input[r]: what r asks for
  existing,  \* existing[r]: the job that r found behind its key
  answer,    \* answer[r]: the job that r was answered with
  claim,     \* Redis job:idem:*, by key
  hash,      \* Redis job:*, by job
  file,      \* Redis ai:job:*:file, by job
  topic,     \* copies of a job's message in Kafka
  cancel,    \* cancel[c]: the state of a cancellation
  flag,      \* Redis job:*:cancelled: the jobs with a cancel flag
  work,      \* the worker: what it does for a job
  promised,  \* history: the answered job behind r's key when r arrived
  lapsed,    \* history: the jobs whose hash has expired
  faults     \* history: the faults so far

creating == <<pc, input, existing, answer, promised>>
redis == <<claim, hash, file, flag, lapsed>>
vars == <<creating, redis, topic, cancel, work, faults>>

\* A job is named by the request that drew its random id.
Jobs == Requests

Inputs == [kind : {"ask"}, key : Keys \cup {None}] \cup [kind : {"ingest"}, key : {None}]

Finished == {"done", "cancelled"}
Statuses == {"queued", "processing"} \cup Finished

\* A hash has a status, an owner (userId) and a TTL; a write to a key that is
\* absent sets its own field only.
Hash == [status : Statuses \cup {"unset"}, owner : BOOLEAN, ttl : BOOLEAN]
Absent == [status |-> "absent", owner |-> FALSE, ttl |-> FALSE]
Queued == [status |-> "queued", owner |-> TRUE, ttl |-> FALSE]
Bare(s) == [status |-> s, owner |-> FALSE, ttl |-> FALSE]
Present(j) == hash[j] # Absent

RequestPcs == {"idle", "claim", "get", "load", "write", "expire", "stage",
               "stageTtl", "publish", "replied", "error"}
Running(r) == pc[r] \notin {"idle", "replied", "error"}

CancelPcs == {"idle", "load", "status", "mark", "expire", "flag", "done"}
NotCancelling == [pc |-> "idle", job |-> None]

Fault == faults < MaxFaults /\ faults' = faults + 1

\* HSET status: a key that is absent comes back with that field alone.
SetStatus(j, s) ==
  hash' = [hash EXCEPT ![j] = IF Present(j) THEN [@ EXCEPT !.status = s] ELSE Bare(s)]

\* HSET cancelled: a field that nothing reads, but that brings an absent key back.
MarkCancelled(j) ==
  hash' = IF Present(j) THEN hash ELSE [hash EXCEPT ![j] = Bare("unset")]

\* EXPIRE of the hash, which an absent key ignores.
Refresh(j) ==
  hash' = IF Present(j) THEN [hash EXCEPT ![j].ttl = TRUE] ELSE hash

Goto(r, to) == pc' = [pc EXCEPT ![r] = to]

Init ==
  /\ pc = [r \in Requests |-> "idle"]
  /\ input = [r \in Requests |-> [kind |-> "ask", key |-> None]]
  /\ existing = [r \in Requests |-> None]
  /\ answer = [r \in Requests |-> None]
  /\ claim = [k \in Keys |-> None]
  /\ hash = [j \in Jobs |-> Absent]
  /\ file = [j \in Jobs |-> "none"]
  /\ topic = [j \in Jobs |-> 0]
  /\ cancel = [c \in Cancels |-> NotCancelling]
  /\ flag = {}
  /\ lapsed = {}
  /\ work = [j \in Jobs |-> "waiting"]
  /\ promised = [r \in Requests |-> None]
  /\ faults = 0

-----------------------------------------------------------------------------
(* createAskJob, createIngestJob                                           *)

\* A call arrives; the history notes the answered job its key stands for.
Receive(r) ==
  /\ pc[r] = "idle"
  /\ \E i \in Inputs :
       /\ input' = [input EXCEPT ![r] = i]
       /\ Goto(r, IF i.key = None THEN "write" ELSE "claim")
       /\ promised' = [promised EXCEPT ![r] =
            IF i.key # None /\ \E q \in Requests : pc[q] = "replied" /\ answer[q] = claim[i.key]
            THEN claim[i.key] ELSE None]
  /\ UNCHANGED <<existing, answer, redis, topic, cancel, work, faults>>

\* Mutant: the claim is a plain SET.
TryClaimAlways(r) ==
  /\ pc[r] = "claim"
  /\ claim' = [claim EXCEPT ![input[r].key] = r]
  /\ Goto(r, "write")
  /\ UNCHANGED <<input, existing, answer, promised, hash, file, flag, lapsed, topic, cancel, work, faults>>

\* SET NX EX.
TryClaim(r) ==
  /\ pc[r] = "claim"
  /\ IF claim[input[r].key] = None
     THEN /\ claim' = [claim EXCEPT ![input[r].key] = r]
          /\ Goto(r, "write")
     ELSE /\ Goto(r, "get")
          /\ UNCHANGED claim
  /\ UNCHANGED <<input, existing, answer, promised, hash, file, flag, lapsed, topic, cancel, work, faults>>

\* GET of the claim, which may have expired.
GetClaim(r) ==
  /\ pc[r] = "get"
  /\ existing' = [existing EXCEPT ![r] = claim[input[r].key]]
  /\ Goto(r, IF claim[input[r].key] = None THEN "write" ELSE "load")
  /\ UNCHANGED <<input, answer, promised, redis, topic, cancel, work, faults>>

\* Mutant: a job that is claimed but not written yet is answered with the id
\* drawn for it, and not created.
LoadExistingAnyway(r) ==
  /\ pc[r] = "load"
  /\ answer' = [answer EXCEPT ![r] = IF Present(existing[r]) THEN existing[r] ELSE r]
  /\ Goto(r, "replied")
  /\ UNCHANGED <<input, existing, promised, redis, topic, cancel, work, faults>>

\* getJob of the job behind the key: it is the answer, or else r goes on with
\* a job of its own.
LoadExisting(r) ==
  /\ pc[r] = "load"
  /\ IF Present(existing[r])
     THEN /\ answer' = [answer EXCEPT ![r] = existing[r]]
          /\ Goto(r, "replied")
     ELSE /\ Goto(r, "write")
          /\ UNCHANGED answer
  /\ UNCHANGED <<input, existing, promised, redis, topic, cancel, work, faults>>

\* HSET of the job.
WriteJob(r) ==
  /\ pc[r] = "write"
  /\ hash' = [hash EXCEPT ![r] = Queued]
  /\ Goto(r, "expire")
  /\ UNCHANGED <<input, existing, answer, promised, claim, file, flag, lapsed, topic, cancel, work, faults>>

\* Mutant: the upload is not awaited before the message.
ExpireJobNoStage(r) ==
  /\ pc[r] = "expire"
  /\ Refresh(r)
  /\ Goto(r, "publish")
  /\ UNCHANGED <<input, existing, answer, promised, claim, file, flag, lapsed, topic, cancel, work, faults>>

\* EXPIRE of the job; an upload is staged next.
ExpireJob(r) ==
  /\ pc[r] = "expire"
  /\ Refresh(r)
  /\ Goto(r, IF input[r].kind = "ingest" THEN "stage" ELSE "publish")
  /\ UNCHANGED <<input, existing, answer, promised, claim, file, flag, lapsed, topic, cancel, work, faults>>

\* KnowledgeFileStagingService.stage: SET, then EXPIRE.
StageFile(r) ==
  /\ pc[r] = "stage"
  /\ file' = [file EXCEPT ![r] = "stored"]
  /\ Goto(r, "stageTtl")
  /\ UNCHANGED <<input, existing, answer, promised, claim, hash, flag, lapsed, topic, cancel, work, faults>>

ExpireFile(r) ==
  /\ pc[r] = "stageTtl"
  /\ file' = [file EXCEPT ![r] = "expiring"]
  /\ Goto(r, "publish")
  /\ UNCHANGED <<input, existing, answer, promised, claim, hash, flag, lapsed, topic, cancel, work, faults>>

\* The message is acknowledged, the caller answered.
Publish(r) ==
  /\ pc[r] = "publish"
  /\ topic' = [topic EXCEPT ![r] = @ + 1]
  /\ answer' = [answer EXCEPT ![r] = r]
  /\ Goto(r, "replied")
  /\ UNCHANGED <<input, existing, promised, redis, cancel, work, faults>>

\* Mutant: a publish that rejects is tried again.
RequestThrowsRetries(r) ==
  /\ Running(r)
  /\ Fault
  /\ IF pc[r] = "publish"
     THEN topic' = [topic EXCEPT ![r] = @ + 1] /\ UNCHANGED pc
     ELSE Goto(r, "error") /\ UNCHANGED topic
  /\ UNCHANGED <<input, existing, answer, promised, redis, cancel, work>>

\* An await rejects, without its effect or after it: the caller gets a 500 and
\* nothing is undone.
RequestThrows(r) ==
  /\ Running(r)
  /\ Fault
  /\ Goto(r, "error")
  /\ \/ UNCHANGED <<claim, hash, file, topic>>
     \/ /\ pc[r] = "claim" /\ claim[input[r].key] = None
        /\ claim' = [claim EXCEPT ![input[r].key] = r]
        /\ UNCHANGED <<hash, file, topic>>
     \/ /\ \/ pc[r] = "write" /\ hash' = [hash EXCEPT ![r] = Queued]
           \/ pc[r] = "expire" /\ Refresh(r)
        /\ UNCHANGED <<claim, file, topic>>
     \/ /\ \/ pc[r] = "stage" /\ file' = [file EXCEPT ![r] = "stored"]
           \/ pc[r] = "stageTtl" /\ file' = [file EXCEPT ![r] = "expiring"]
        /\ UNCHANGED <<claim, hash, topic>>
     \/ /\ pc[r] = "publish"
        /\ topic' = [topic EXCEPT ![r] = @ + 1]
        /\ UNCHANGED <<claim, hash, file>>
  /\ UNCHANGED <<input, existing, answer, promised, flag, lapsed, cancel, work>>

-----------------------------------------------------------------------------
(* cancelJob                                                               *)

\* The user cancels a job that a request was answered with.
AskCancel(c, j) ==
  /\ cancel[c].pc = "idle"
  /\ \E r \in Requests : answer[r] = j
  /\ cancel' = [cancel EXCEPT ![c] = [pc |-> "load", job |-> j]]
  /\ UNCHANGED <<creating, redis, topic, work, faults>>

CancelStep(c, from, to) ==
  /\ cancel[c].pc = from
  /\ cancel' = [cancel EXCEPT ![c].pc = to]
  /\ UNCHANGED <<creating, topic, work, faults>>

\* getJob: an absent or a finished job is left alone; a hash without its owner
\* is refused.
LoadForCancel(c) ==
  LET j == cancel[c].job IN
  /\ CancelStep(c, "load",
       IF Present(j) /\ hash[j].owner /\ hash[j].status \notin Finished
       THEN "status" ELSE "done")
  /\ UNCHANGED redis

\* JobStoreService.cancelJob: HSET, HSET, EXPIRE, SET EX.
CancelStatus(c) ==
  /\ CancelStep(c, "status", "mark")
  /\ SetStatus(cancel[c].job, "cancelled")
  /\ UNCHANGED <<claim, file, flag, lapsed>>

CancelMark(c) ==
  /\ CancelStep(c, "mark", "expire")
  /\ MarkCancelled(cancel[c].job)
  /\ UNCHANGED <<claim, file, flag, lapsed>>

\* Mutant: no EXPIRE after the two HSETs.
CancelExpireSkipped(c) ==
  /\ CancelStep(c, "expire", "flag")
  /\ UNCHANGED redis

CancelExpire(c) ==
  /\ CancelStep(c, "expire", "flag")
  /\ Refresh(cancel[c].job)
  /\ UNCHANGED <<claim, file, flag, lapsed>>

CancelFlag(c) ==
  /\ CancelStep(c, "flag", "done")
  /\ flag' = flag \cup {cancel[c].job}
  /\ UNCHANGED <<claim, hash, file, lapsed>>

\* A command of a cancellation rejects, before or after its effect.
CancelThrows(c) ==
  LET j == cancel[c].job IN
  /\ cancel[c].pc \notin {"idle", "done"}
  /\ Fault
  /\ cancel' = [cancel EXCEPT ![c].pc = "done"]
  /\ \/ UNCHANGED <<hash, flag>>
     \/ /\ \/ cancel[c].pc = "status" /\ SetStatus(j, "cancelled")
           \/ cancel[c].pc = "mark" /\ MarkCancelled(j)
           \/ cancel[c].pc = "expire" /\ Refresh(j)
        /\ UNCHANGED flag
     \/ /\ cancel[c].pc = "flag"
        /\ flag' = flag \cup {j}
        /\ UNCHANGED hash
  /\ UNCHANGED <<creating, claim, file, lapsed, topic, work>>

-----------------------------------------------------------------------------
(* The worker, the TTLs and the gateway process                            *)

\* The worker (external) takes a message and reports progress.
Consume(j) ==
  /\ topic[j] > 0
  /\ work[j] = "waiting"
  /\ work' = [work EXCEPT ![j] = "progress"]
  /\ UNCHANGED <<creating, redis, topic, cancel, faults>>

\* updateProgress: HSET, whatever the status is, then EXPIRE.
UpdateProgress(j) ==
  /\ work[j] = "progress"
  /\ SetStatus(j, "processing")
  /\ work' = [work EXCEPT ![j] = "refresh"]
  /\ UNCHANGED <<creating, claim, file, flag, lapsed, topic, cancel, faults>>

RefreshProgress(j) ==
  /\ work[j] = "refresh"
  /\ Refresh(j)
  /\ work' = [work EXCEPT ![j] = "running"]
  /\ UNCHANGED <<creating, claim, file, flag, lapsed, topic, cancel, faults>>

\* The worker (external) records the end of a job whose hash is there; "done"
\* stands for "error" too, which every reader treats alike.
Finish(j) ==
  /\ work[j] = "running"
  /\ IF Present(j)
     THEN SetStatus(j, "done")
     ELSE UNCHANGED hash
  /\ work' = [work EXCEPT ![j] = "finished"]
  /\ UNCHANGED <<creating, claim, file, flag, lapsed, topic, cancel, faults>>

\* The TTL of a claim runs out; the calls of its request are long over.
ExpireClaim(k) ==
  /\ claim[k] # None
  /\ ~Running(claim[k])
  /\ claim' = [claim EXCEPT ![k] = None]
  /\ promised' = [r \in Requests |-> IF input[r].key = k THEN None ELSE promised[r]]
  /\ UNCHANGED <<pc, input, existing, answer, hash, file, flag, lapsed, topic, cancel, work, faults>>

\* The TTL of a hash, as long as the claim's and set after it, runs out.
ExpireHash(j) ==
  /\ hash[j].ttl
  /\ ~Running(j)
  /\ \A k \in Keys : claim[k] # j
  /\ hash' = [hash EXCEPT ![j] = Absent]
  /\ lapsed' = lapsed \cup {j}
  /\ UNCHANGED <<creating, claim, file, flag, topic, cancel, work, faults>>

\* The gateway dies: its handlers are gone, Redis and Kafka stay.
Crash ==
  /\ Fault
  /\ pc' = [r \in Requests |-> IF Running(r) THEN "error" ELSE pc[r]]
  /\ cancel' = [c \in Cancels |-> IF cancel[c].pc = "idle" THEN cancel[c]
                                  ELSE [cancel[c] EXCEPT !.pc = "done"]]
  /\ UNCHANGED <<input, existing, answer, promised, redis, topic, work>>

-----------------------------------------------------------------------------
RequestStep(r) ==
  \/ TryClaim(r)
  \/ GetClaim(r)
  \/ LoadExisting(r)
  \/ WriteJob(r)
  \/ ExpireJob(r)
  \/ StageFile(r)
  \/ ExpireFile(r)
  \/ Publish(r)

CancelJob(c) ==
  \/ LoadForCancel(c)
  \/ CancelStatus(c)
  \/ CancelMark(c)
  \/ CancelExpire(c)
  \/ CancelFlag(c)

Worker(j) ==
  \/ Consume(j)
  \/ UpdateProgress(j)
  \/ RefreshProgress(j)
  \/ Finish(j)

\* Every call that arrived is over.
Terminating ==
  /\ \A r \in Requests : pc[r] \in {"replied", "error"}
  /\ \A c \in Cancels : cancel[c].pc \in {"idle", "done"}
  /\ UNCHANGED vars

Next ==
  \/ \E r \in Requests : Receive(r) \/ RequestStep(r) \/ RequestThrows(r)
  \/ \E c \in Cancels, j \in Jobs : AskCancel(c, j)
  \/ \E c \in Cancels : CancelJob(c) \/ CancelThrows(c)
  \/ \E j \in Jobs : Worker(j) \/ ExpireHash(j)
  \/ \E k \in Keys : ExpireClaim(k)
  \/ Crash
  \/ Terminating

Spec == Init /\ [][Next]_vars

\* Node runs every continuation, the TTLs run out; nothing makes a call
\* arrive, a fault happen or the worker take a message.
FairSpec ==
  /\ Spec
  /\ \A r \in Requests : WF_vars(RequestStep(r))
  /\ \A c \in Cancels : WF_vars(CancelJob(c))
  /\ \A j \in Jobs : WF_vars(ExpireHash(j))

-----------------------------------------------------------------------------
(* Properties                                                              *)

\* The shape of the handlers and of the stores; a job has one message at most.
TypeOK ==
  /\ pc \in [Requests -> RequestPcs]
  /\ input \in [Requests -> Inputs]
  /\ existing \in [Requests -> Jobs \cup {None}]
  /\ answer \in [Requests -> Jobs \cup {None}]
  /\ claim \in [Keys -> Jobs \cup {None}]
  /\ hash \in [Jobs -> Hash \cup {Absent}]
  /\ file \in [Jobs -> {"none", "stored", "expiring"}]
  /\ topic \in [Jobs -> 0..1]
  /\ cancel \in [Cancels -> [pc : CancelPcs, job : Jobs \cup {None}]]
  /\ flag \subseteq Jobs
  /\ work \in [Jobs -> {"waiting", "progress", "refresh", "running", "finished"}]
  /\ promised \in [Requests -> Jobs \cup {None}]
  /\ lapsed \subseteq Jobs
  /\ faults \in 0..MaxFaults

\* A retry with the key of an answered job gets that job and creates none, as
\* long as the key has not expired: not even requests that race it on the same
\* key, cancellations or faults move the key to another job.
RetryGetsSameJob ==
  \A r \in Requests :
    promised[r] # None =>
      /\ pc[r] = "replied" => answer[r] = promised[r]
      /\ topic[r] = 0

\* What the worker can take is complete: until its TTL runs out a published
\* job has a hash that names its owner, and an upload is staged.
PublishedIsReady ==
  \A j \in Jobs : topic[j] > 0 =>
    /\ j \notin lapsed => Present(j) /\ hash[j].owner
    /\ input[j].kind = "ingest" => file[j] = "expiring"

\* No hash stays in Redis for ever without a fault: one that has no TTL yet is
\* in the hands of a request, a cancellation or the worker, even if it has come
\* back after it expired under a cancellation.
UnlimitedOnlyByFault ==
  \A j \in Jobs : Present(j) /\ ~hash[j].ttl =>
    \/ pc[j] = "expire"
    \/ \E c \in Cancels : cancel[c].job = j /\ cancel[c].pc \in {"mark", "expire"}
    \/ work[j] = "refresh"
    \/ faults > 0

\* Whoever was answered with a job gets it published, unless the request that
\* created it failed.
AcceptedIsPublished ==
  \A r, j \in Requests :
    answer[r] = j ~> topic[j] > 0 \/ pc[j] = "error"

\* Of concurrent requests with one key only one creates its job, and a request
\* that found the key taken goes on with a job of its own only if the job that
\* took it has expired (the comments in JobStoreService.createJob).
OneJobPerKey ==
  \A r, q \in Requests :
    r # q /\ existing[r] = q /\ topic[r] > 0 /\ topic[q] > 0
      => q \in lapsed \/ faults > 0

=============================================================================
