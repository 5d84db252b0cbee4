----------------------------- MODULE AiJobProofs ----------------------------
(***************************************************************************)
(* Proofs of the safety properties of AiJob for any number of requests,    *)
(* keys, cancellations and faults.                                         *)
(***************************************************************************)
EXTENDS AiJob, TLAPS

\* A request past the look-up of its key.
Begun(r) == pc[r] \notin {"idle", "claim", "get", "load"}

\* Only a request with a key looks one up, and a cancellation under way has a job.
HandlerInv ==
  /\ \A r \in Requests :
       /\ pc[r] \in {"claim", "get", "load"} => input[r].key \in Keys
       /\ pc[r] = "load" => existing[r] \in Jobs
  /\ \A c \in Cancels : cancel[c].pc # "idle" => cancel[c].job \in Jobs

\* A job is published last.
TopicInv == \A r \in Requests : topic[r] > 0 => pc[r] \in {"replied", "error"}

\* A request that has written its job finds it until it is over, and its upload
\* is staged before the message.
WrittenInv ==
  \A r \in Requests :
    /\ pc[r] \in {"expire", "stage", "stageTtl", "publish"} => Present(r) /\ hash[r].owner
    /\ pc[r] = "publish" /\ input[r].kind = "ingest" => file[r] = "expiring"

\* A job is named by a claim, by a request that has read the claim or by an
\* answer only after its own request has claimed its key or done without.
BegunInv ==
  /\ \A k \in Keys, j \in Jobs : claim[k] = j => Begun(j)
  /\ \A r \in Requests, j \in Jobs : existing[r] = j \/ answer[r] = j => Begun(j)

\* A job that someone was answered with is in Redis as long as a key stands for it.
AnsweredInv ==
  \A r \in Requests, j \in Jobs, k \in Keys : answer[r] = j /\ claim[k] = j => Present(j)

\* A request that came for an answered job is on its way to that job, which its
\* key still stands for.
PromiseInv ==
  \A r \in Requests : promised[r] # None =>
    /\ input[r].key \in Keys /\ claim[input[r].key] = promised[r]
    /\ Present(promised[r])
    /\ pc[r] \in {"claim", "get", "load", "replied", "error"}
    /\ pc[r] = "load" => existing[r] = promised[r]
    /\ pc[r] = "replied" => answer[r] = promised[r]
    /\ topic[r] = 0

IInv ==
  /\ TypeOK
  /\ HandlerInv
  /\ TopicInv
  /\ WrittenInv
  /\ PublishedIsReady
  /\ BegunInv
  /\ AnsweredInv
  /\ PromiseInv
  /\ UnlimitedOnlyByFault

-----------------------------------------------------------------------------
(* What the Redis commands do to the hashes                                *)

\* No hash is lost, nor its owner nor its TTL.
Kept ==
  /\ hash' \in [Jobs -> Hash \cup {Absent}]
  /\ \A i \in Jobs : Present(i) =>
       /\ hash'[i] # Absent
       /\ hash[i].owner => hash'[i].owner
       /\ hash[i].ttl => hash'[i].ttl

OnlyAt(j) == \A i \in Jobs \ {j} : hash'[i] = hash[i]

LEMMA HashIsPresent == \A h \in Hash : h # Absent
  BY DEF Hash, Absent, Statuses, Finished

LEMMA SetStatusKeeps ==
  ASSUME hash \in [Jobs -> Hash \cup {Absent}], NEW j \in Jobs, NEW s \in Statuses,
         SetStatus(j, s)
  PROVE  Kept /\ OnlyAt(j) /\ (Present(j) => hash'[j].ttl = hash[j].ttl)
<1>1. Bare(s) \in Hash
  BY DEF Bare, Hash
<1>2. CASE Present(j)
  <2>1. hash' = [hash EXCEPT ![j] = [hash[j] EXCEPT !.status = s]]
    BY <1>2 DEF SetStatus
  <2>2. hash[j] \in Hash
    BY <1>2 DEF Present
  <2>3. /\ [hash[j] EXCEPT !.status = s] \in Hash
        /\ [hash[j] EXCEPT !.status = s].owner = hash[j].owner
        /\ [hash[j] EXCEPT !.status = s].ttl = hash[j].ttl
    BY <2>2 DEF Hash
  <2> QED
    BY <2>1, <2>3, HashIsPresent DEF Kept, OnlyAt, Present
<1>3. CASE ~Present(j)
  <2>1. hash' = [hash EXCEPT ![j] = Bare(s)]
    BY <1>3 DEF SetStatus
  <2> QED
    BY <2>1, <1>1, <1>3, HashIsPresent DEF Kept, OnlyAt, Present
<1> QED
  BY <1>2, <1>3

LEMMA MarkCancelledKeeps ==
  ASSUME hash \in [Jobs -> Hash \cup {Absent}], NEW j \in Jobs, MarkCancelled(j)
  PROVE  Kept /\ OnlyAt(j)
<1>1. Bare("unset") \in Hash
  BY DEF Bare, Hash
<1> QED
  BY <1>1, HashIsPresent DEF MarkCancelled, Kept, OnlyAt, Present

LEMMA RefreshKeeps ==
  ASSUME hash \in [Jobs -> Hash \cup {Absent}], NEW j \in Jobs, Refresh(j)
  PROVE  Kept /\ OnlyAt(j) /\ (hash'[j] # Absent => hash'[j].ttl)
<1>1. CASE Present(j)
  <2>1. hash' = [hash EXCEPT ![j] = [hash[j] EXCEPT !.ttl = TRUE]]
    BY <1>1 DEF Refresh
  <2>2. hash[j] \in Hash
    BY <1>1 DEF Present
  <2>3. /\ [hash[j] EXCEPT !.ttl = TRUE] \in Hash
        /\ [hash[j] EXCEPT !.ttl = TRUE].owner = hash[j].owner
        /\ [hash[j] EXCEPT !.ttl = TRUE].ttl = TRUE
    BY <2>2 DEF Hash
  <2> QED
    BY <2>1, <2>3, HashIsPresent DEF Kept, OnlyAt, Present
<1>2. CASE ~Present(j)
  BY <1>2 DEF Refresh, Kept, OnlyAt, Present
<1> QED
  BY <1>1, <1>2

LEMMA UnchangedKeeps ==
  ASSUME hash \in [Jobs -> Hash \cup {Absent}], UNCHANGED hash
  PROVE  Kept
  BY DEF Kept, Present

LEMMA QueuedIsHash == Queued \in Hash /\ Queued.owner
  BY DEF Queued, Hash, Statuses

-----------------------------------------------------------------------------
(* The initial state                                                       *)

LEMMA InitInv == Init => IInv
<1> SUFFICES ASSUME Init PROVE IInv
  OBVIOUS
<1>1. TypeOK
  BY NoneAssumption, FaultsAssumption
     DEF Init, TypeOK, RequestPcs, Inputs, NotCancelling, CancelPcs, Jobs
<1>2. HandlerInv /\ TopicInv /\ WrittenInv
  BY DEF Init, HandlerInv, TopicInv, WrittenInv, NotCancelling, Jobs
<1>3. PublishedIsReady /\ UnlimitedOnlyByFault
  BY DEF Init, PublishedIsReady, UnlimitedOnlyByFault, Present, Jobs
<1>4. BegunInv /\ AnsweredInv /\ PromiseInv
  BY NoneAssumption DEF Init, BegunInv, AnsweredInv, PromiseInv, Jobs
<1> QED
  BY <1>1, <1>2, <1>3, <1>4 DEF IInv

-----------------------------------------------------------------------------
(* Type correctness, the handlers' data, and the place of the message      *)

Shape == TypeOK /\ HandlerInv /\ TopicInv

LEMMA RequestShape ==
  ASSUME IInv, NEW r \in Requests, Receive(r) \/ RequestStep(r)
  PROVE  Shape'
<1> USE DEF IInv, Jobs
<1>1. CASE Receive(r)
  BY <1>1 DEF Receive, Goto, Shape, TypeOK, HandlerInv, TopicInv, RequestPcs, Inputs, redis
<1>2. CASE TryClaim(r)
  BY <1>2 DEF TryClaim, Goto, Shape, TypeOK, HandlerInv, TopicInv, RequestPcs
<1>3. CASE GetClaim(r)
  BY <1>3 DEF GetClaim, Goto, Shape, TypeOK, HandlerInv, TopicInv, RequestPcs, redis
<1>4. CASE LoadExisting(r)
  BY <1>4 DEF LoadExisting, Goto, Shape, TypeOK, HandlerInv, TopicInv, RequestPcs, redis
<1>5. CASE WriteJob(r)
  BY <1>5, QueuedIsHash DEF WriteJob, Goto, Shape, TypeOK, HandlerInv, TopicInv, RequestPcs
<1>6. CASE ExpireJob(r)
  <2>1. Kept
    BY <1>6, RefreshKeeps DEF ExpireJob, TypeOK
  <2> QED
    BY <1>6, <2>1 DEF ExpireJob, Goto, Shape, TypeOK, HandlerInv, TopicInv, RequestPcs, Kept
<1>7. CASE StageFile(r)
  BY <1>7 DEF StageFile, Goto, Shape, TypeOK, HandlerInv, TopicInv, RequestPcs
<1>8. CASE ExpireFile(r)
  BY <1>8 DEF ExpireFile, Goto, Shape, TypeOK, HandlerInv, TopicInv, RequestPcs
<1>9. CASE Publish(r)
  <2>1. topic[r] = 0
    BY <1>9 DEF Publish, TopicInv, TypeOK
  <2> QED
    BY <1>9, <2>1 DEF Publish, Goto, Shape, TypeOK, HandlerInv, TopicInv, RequestPcs, redis
<1> QED
  BY <1>1, <1>2, <1>3, <1>4, <1>5, <1>6, <1>7, <1>8, <1>9 DEF RequestStep

LEMMA ThrowsShape ==
  ASSUME IInv, NEW r \in Requests, RequestThrows(r)
  PROVE  Shape'
<1> USE DEF IInv, Jobs
<1>1. hash' \in [Jobs -> Hash \cup {Absent}]
  <2>1. CASE Refresh(r)
    BY <2>1, RefreshKeeps DEF TypeOK, Kept
  <2> QED
    BY <2>1, QueuedIsHash DEF RequestThrows, TypeOK
<1>2. pc[r] = "publish" => topic[r] = 0
  BY DEF TopicInv, TypeOK
<1>3. /\ claim' \in [Keys -> Jobs \cup {None}]
      /\ file' \in [Jobs -> {"none", "stored", "expiring"}]
      /\ topic' \in [Jobs -> 0..1]
      /\ \A i \in Requests \ {r} : topic'[i] = topic[i]
  BY <1>2 DEF RequestThrows, TypeOK, HandlerInv
<1>4. faults' \in 0..MaxFaults
  BY FaultsAssumption DEF RequestThrows, Fault, TypeOK
<1>5. /\ pc' = [pc EXCEPT ![r] = "error"]
      /\ UNCHANGED <<input, existing, answer, cancel, flag, work, promised, lapsed>>
  BY DEF RequestThrows, Goto
<1>6. TypeOK'
  BY <1>1, <1>3, <1>4, <1>5 DEF TypeOK, RequestPcs
<1>7. HandlerInv'
  BY <1>5 DEF HandlerInv, TypeOK
<1>8. TopicInv'
  BY <1>3, <1>5 DEF TopicInv, TypeOK
<1> QED
  BY <1>6, <1>7, <1>8 DEF Shape

LEMMA CancelKeeps ==
  ASSUME IInv, NEW c \in Cancels, CancelJob(c) \/ CancelThrows(c)
  PROVE  /\ cancel[c].pc # "idle" /\ cancel[c].job \in Jobs
         /\ Kept /\ OnlyAt(cancel[c].job)
<1> DEFINE j == cancel[c].job
<1>1. cancel[c].pc # "idle"
  BY DEF CancelJob, CancelThrows, CancelStep, LoadForCancel, CancelStatus, CancelMark,
         CancelExpire, CancelFlag
<1>2. j \in Jobs
  BY <1>1 DEF IInv, HandlerInv
<1>3. hash \in [Jobs -> Hash \cup {Absent}]
  BY DEF IInv, TypeOK
<1>4. \/ UNCHANGED hash \/ SetStatus(j, "cancelled") \/ MarkCancelled(j) \/ Refresh(j)
  BY DEF CancelJob, CancelThrows, LoadForCancel, CancelStatus, CancelMark,
         CancelExpire, CancelFlag, redis
<1>5. "cancelled" \in Statuses
  BY DEF Statuses, Finished
<1> QED
  BY <1>1, <1>2, <1>3, <1>4, <1>5, SetStatusKeeps, MarkCancelledKeeps, RefreshKeeps,
     UnchangedKeeps DEF OnlyAt

LEMMA WorkerKeeps ==
  ASSUME IInv, NEW j \in Jobs, Worker(j)
  PROVE  Kept /\ OnlyAt(j)
<1>1. hash \in [Jobs -> Hash \cup {Absent}]
  BY DEF IInv, TypeOK
<1>2. \/ UNCHANGED hash \/ SetStatus(j, "processing") \/ SetStatus(j, "done") \/ Refresh(j)
  BY DEF Worker, Consume, UpdateProgress, RefreshProgress, Finish, redis
<1>3. {"processing", "done"} \subseteq Statuses
  BY DEF Statuses, Finished
<1> QED
  BY <1>1, <1>2, <1>3, SetStatusKeeps, RefreshKeeps, UnchangedKeeps DEF OnlyAt

LEMMA CancelShape ==
  ASSUME IInv, NEW c \in Cancels, CancelJob(c) \/ CancelThrows(c)
  PROVE  Shape'
<1> USE DEF IInv
<1>1. cancel[c].pc # "idle" /\ cancel[c].job \in Jobs /\ Kept
  BY CancelKeeps
<1>2. /\ UNCHANGED <<creating, claim, file, lapsed, topic, work>>
      /\ flag' \subseteq Jobs
      /\ faults' \in 0..MaxFaults
  BY <1>1, FaultsAssumption DEF CancelJob, CancelThrows, CancelStep, LoadForCancel, CancelStatus,
     CancelMark, CancelExpire, CancelFlag, TypeOK, redis, Fault
<1>3. \E p \in CancelPcs \ {"idle"} : cancel' = [cancel EXCEPT ![c].pc = p]
  BY DEF CancelJob, CancelThrows, CancelStep, LoadForCancel, CancelStatus,
     CancelMark, CancelExpire, CancelFlag, CancelPcs
<1> QED
  BY <1>1, <1>2, <1>3 DEF Shape, TypeOK, HandlerInv, TopicInv, Kept, creating

LEMMA OtherShape ==
  ASSUME IInv,
         \/ \E c \in Cancels, j \in Jobs : AskCancel(c, j)
         \/ \E j \in Jobs : Worker(j) \/ ExpireHash(j)
         \/ \E k \in Keys : ExpireClaim(k)
         \/ Crash \/ UNCHANGED vars
  PROVE  Shape'
<1> USE DEF IInv
<1>1. CASE \E c \in Cancels, j \in Jobs : AskCancel(c, j)
  BY <1>1 DEF AskCancel, Shape, TypeOK, HandlerInv, TopicInv, CancelPcs, creating, redis
<1>2. ASSUME NEW j \in Jobs, Worker(j) PROVE Shape'
  <2>1. Kept
    BY <1>2, WorkerKeeps
  <2> QED
    BY <1>2, <2>1 DEF Worker, Consume, UpdateProgress, RefreshProgress, Finish, creating, redis,
       Shape, TypeOK, HandlerInv, TopicInv, Kept
<1>3. ASSUME NEW j \in Jobs, ExpireHash(j) PROVE Shape'
  BY <1>3 DEF ExpireHash, creating, Shape, TypeOK, HandlerInv, TopicInv
<1>4. ASSUME NEW k \in Keys, ExpireClaim(k) PROVE Shape'
  BY <1>4 DEF ExpireClaim, Shape, TypeOK, HandlerInv, TopicInv, Jobs
<1>5. CASE Crash
  <2>1. faults' \in 0..MaxFaults
    BY <1>5, FaultsAssumption DEF Crash, Fault, TypeOK
  <2>2. cancel' \in [Cancels -> [pc : CancelPcs, job : Jobs \cup {None}]]
    BY <1>5 DEF Crash, TypeOK, CancelPcs
  <2>3. \A c \in Cancels : cancel'[c].job = cancel[c].job /\ (cancel'[c].pc = "idle" <=> cancel[c].pc = "idle")
    BY <1>5 DEF Crash, TypeOK
  <2>4. \A r \in Requests : pc'[r] = pc[r] \/ pc'[r] = "error"
    BY <1>5 DEF Crash
  <2>5. pc' \in [Requests -> RequestPcs]
    BY <1>5 DEF Crash, TypeOK, RequestPcs
  <2> QED
    BY <1>5, <2>1, <2>2, <2>3, <2>4, <2>5 DEF Crash, redis, Shape, TypeOK, HandlerInv, TopicInv
<1>6. CASE UNCHANGED vars
  BY <1>6 DEF vars, creating, redis, Shape, TypeOK, HandlerInv, TopicInv
<1> QED
  BY <1>1, <1>2, <1>3, <1>4, <1>5, <1>6

-----------------------------------------------------------------------------
(* A published job is ready                                                *)

Ready == WrittenInv /\ PublishedIsReady

\* A step that loses no hash and leaves the handlers, files and messages alone.
LEMMA KeptReady ==
  ASSUME IInv, Kept, UNCHANGED <<input, file, topic, lapsed>>,
         \A r \in Requests : pc'[r] = pc[r] \/ pc'[r] = "error"
  PROVE  Ready'
  BY DEF IInv, Ready, WrittenInv, PublishedIsReady, Kept, Present, Jobs

LEMMA RequestReady ==
  ASSUME IInv, NEW r \in Requests, Receive(r) \/ RequestStep(r)
  PROVE  Ready'
<1> USE DEF IInv, Jobs
<1>1. CASE Receive(r)
  BY <1>1 DEF Receive, Goto, redis, Ready, WrittenInv, PublishedIsReady, Present, TypeOK, TopicInv
<1>2. CASE TryClaim(r)
  BY <1>2 DEF TryClaim, Goto, Ready, WrittenInv, PublishedIsReady, Present, TypeOK
<1>3. CASE GetClaim(r)
  BY <1>3 DEF GetClaim, Goto, redis, Ready, WrittenInv, PublishedIsReady, Present, TypeOK
<1>4. CASE LoadExisting(r)
  BY <1>4 DEF LoadExisting, Goto, redis, Ready, WrittenInv, PublishedIsReady, Present, TypeOK
<1>5. CASE WriteJob(r)
  BY <1>5, QueuedIsHash, HashIsPresent
     DEF WriteJob, Goto, Ready, WrittenInv, PublishedIsReady, Present, TypeOK
<1>6. CASE ExpireJob(r)
  <2>1. Kept
    BY <1>6, RefreshKeeps DEF ExpireJob, TypeOK
  <2>2. input[r].kind \in {"ask", "ingest"}
    BY DEF TypeOK, Inputs
  <2>3. topic[r] = 0
    BY <1>6 DEF ExpireJob, TopicInv, TypeOK
  <2> QED
    BY <1>6, <2>1, <2>2, <2>3
       DEF ExpireJob, Goto, Ready, WrittenInv, PublishedIsReady, Present, TypeOK, Kept
<1>7. CASE StageFile(r)
  <2>1. topic[r] = 0
    BY <1>7 DEF StageFile, TopicInv, TypeOK
  <2> QED
    BY <1>7, <2>1 DEF StageFile, Goto, Ready, WrittenInv, PublishedIsReady, Present, TypeOK
<1>8. CASE ExpireFile(r)
  BY <1>8 DEF ExpireFile, Goto, Ready, WrittenInv, PublishedIsReady, Present, TypeOK
<1>9. CASE Publish(r)
  BY <1>9 DEF Publish, Goto, redis, Ready, WrittenInv, PublishedIsReady, Present, TypeOK
<1> QED
  BY <1>1, <1>2, <1>3, <1>4, <1>5, <1>6, <1>7, <1>8, <1>9 DEF RequestStep

LEMMA ThrowsReady ==
  ASSUME IInv, NEW r \in Requests, RequestThrows(r)
  PROVE  Ready'
<1> USE DEF IInv, Jobs
<1>1. /\ pc' = [pc EXCEPT ![r] = "error"] /\ UNCHANGED <<input, lapsed>>
      /\ Running(r)
  BY DEF RequestThrows, Goto
<1>2. topic[r] > 0 => FALSE
  BY <1>1 DEF Running, TopicInv
<1>3. /\ hash' \in [Jobs -> Hash \cup {Absent}]
      /\ \A i \in Jobs : Present(i) /\ hash[i].owner => hash'[i] # Absent /\ hash'[i].owner
  <2>1. CASE Refresh(r)
    BY <2>1, RefreshKeeps DEF TypeOK, Kept
  <2> QED
    BY <2>1, QueuedIsHash, HashIsPresent DEF RequestThrows, TypeOK, Present
<1>4. \A i \in Requests \ {r} : file'[i] = file[i] /\ topic'[i] = topic[i]
  BY DEF RequestThrows, TypeOK
<1>5. topic'[r] > 0 => pc[r] = "publish" /\ file'[r] = file[r]
  BY <1>2 DEF RequestThrows, TypeOK
<1> QED
  BY <1>1, <1>3, <1>4, <1>5
     DEF Ready, WrittenInv, PublishedIsReady, Present, TypeOK

LEMMA OtherReady ==
  ASSUME IInv, Next \/ UNCHANGED vars,
         ~\E r \in Requests : Receive(r) \/ RequestStep(r) \/ RequestThrows(r)
  PROVE  Ready'
<1> USE DEF IInv
<1>0. hash \in [Jobs -> Hash \cup {Absent}]
  BY DEF TypeOK
<1>1. ASSUME NEW c \in Cancels, NEW j \in Jobs, AskCancel(c, j) PROVE Ready'
  BY <1>0, <1>1, UnchangedKeeps, KeptReady DEF AskCancel, creating, redis
<1>2. ASSUME NEW c \in Cancels, CancelJob(c) \/ CancelThrows(c) PROVE Ready'
  <2>1. UNCHANGED <<pc, input, file, topic, lapsed>>
    BY <1>2 DEF CancelJob, CancelThrows, CancelStep, LoadForCancel, CancelStatus,
       CancelMark, CancelExpire, CancelFlag, creating, redis
  <2> QED
    BY <1>2, <2>1, CancelKeeps, KeptReady
<1>3. ASSUME NEW j \in Jobs, Worker(j) PROVE Ready'
  <2>1. UNCHANGED <<pc, input, file, topic, lapsed>>
    BY <1>3 DEF Worker, Consume, UpdateProgress, RefreshProgress, Finish, creating, redis
  <2> QED
    BY <1>3, <2>1, WorkerKeeps, KeptReady
<1>4. ASSUME NEW j \in Jobs, ExpireHash(j) PROVE Ready'
  BY <1>4 DEF ExpireHash, creating, Running, Ready, WrittenInv, PublishedIsReady, Present,
     TypeOK, Jobs
<1>5. ASSUME NEW k \in Keys, ExpireClaim(k) PROVE Ready'
  BY <1>0, <1>5, UnchangedKeeps, KeptReady DEF ExpireClaim
<1>6. CASE Crash
  BY <1>0, <1>6, UnchangedKeeps, KeptReady DEF Crash, redis
<1>7. CASE UNCHANGED vars
  BY <1>0, <1>7, UnchangedKeeps, KeptReady DEF vars, creating, redis
<1> QED
  BY <1>1, <1>2, <1>3, <1>4, <1>5, <1>6, <1>7 DEF Next, Terminating

-----------------------------------------------------------------------------
(* A retry gets the job of its key                                         *)

Promise == BegunInv /\ AnsweredInv /\ PromiseInv

\* A step of a cancellation, of the worker or of the process.
LEMMA KeptPromise ==
  ASSUME IInv, Kept, UNCHANGED <<input, existing, answer, claim, promised, topic>>,
         \A r \in Requests : pc'[r] = pc[r] \/ (Running(r) /\ pc'[r] = "error")
  PROVE  Promise'
  BY NoneAssumption DEF IInv, Promise, BegunInv, AnsweredInv, PromiseInv, Begun, Running,
     Kept, Present, Jobs, TypeOK

LEMMA RequestPromise ==
  ASSUME IInv, NEW r \in Requests, Receive(r) \/ RequestStep(r)
  PROVE  Promise'
<1> USE NoneAssumption DEF IInv, Jobs
<1>1. CASE Receive(r)
  <2>1. PICK i \in Inputs :
          /\ input' = [input EXCEPT ![r] = i]
          /\ pc' = [pc EXCEPT ![r] = IF i.key = None THEN "write" ELSE "claim"]
          /\ promised' = [promised EXCEPT ![r] =
               IF i.key # None /\ \E q \in Requests : pc[q] = "replied" /\ answer[q] = claim[i.key]
               THEN claim[i.key] ELSE None]
    BY <1>1 DEF Receive, Goto
  <2>2. pc[r] = "idle" /\ UNCHANGED <<existing, answer, redis, topic>>
    BY <1>1 DEF Receive
  <2>3. topic[r] = 0
    BY <2>2 DEF TopicInv, TypeOK
  <2>4. BegunInv'
    BY <2>1, <2>2 DEF BegunInv, Begun, TypeOK, redis
  <2>5. AnsweredInv'
    BY <2>2 DEF AnsweredInv, Present, redis
  <2>6. i.key \in Keys \cup {None}
    BY DEF Inputs
  <2>7. promised'[r] # None =>
          /\ i.key \in Keys /\ claim[i.key] = promised'[r]
          /\ Present(promised'[r])
    BY <2>1, <2>6 DEF AnsweredInv, TypeOK
  <2> QED
    BY <2>1, <2>2, <2>3, <2>4, <2>5, <2>7 DEF Promise, PromiseInv, Present, TypeOK, redis
<1>2. CASE TryClaim(r)
  <2>1. input[r].key \in Keys
    BY <1>2 DEF TryClaim, HandlerInv
  <2>2. claim[input[r].key] # None => UNCHANGED claim
    BY <1>2 DEF TryClaim
  <2>3. claim[input[r].key] = None => claim' = [claim EXCEPT ![input[r].key] = r]
    BY <1>2 DEF TryClaim
  <2>4. /\ pc[r] = "claim" /\ UNCHANGED <<input, existing, answer, promised, hash, topic>>
        /\ pc' = [pc EXCEPT ![r] = IF claim[input[r].key] = None THEN "write" ELSE "get"]
    BY <1>2 DEF TryClaim, Goto
  <2>5. BegunInv'
    BY <2>1, <2>2, <2>3, <2>4 DEF BegunInv, Begun, TypeOK
  <2>6. \A q \in Requests : answer[q] # r
    BY <2>4 DEF BegunInv, Begun
  <2>7. AnsweredInv'
    BY <2>1, <2>2, <2>3, <2>4, <2>6 DEF AnsweredInv, Present, TypeOK
  <2> QED
    BY <2>1, <2>2, <2>3, <2>4, <2>5, <2>7 DEF Promise, PromiseInv, Present, TypeOK
<1>3. CASE GetClaim(r)
  <2>1. input[r].key \in Keys
    BY <1>3 DEF GetClaim, HandlerInv
  <2>2. /\ pc[r] = "get" /\ UNCHANGED <<input, answer, promised, claim, hash, topic>>
        /\ existing' = [existing EXCEPT ![r] = claim[input[r].key]]
        /\ pc' = [pc EXCEPT ![r] = IF claim[input[r].key] = None THEN "write" ELSE "load"]
    BY <1>3 DEF GetClaim, Goto, redis
  <2>3. BegunInv'
    BY <2>1, <2>2 DEF BegunInv, Begun, TypeOK
  <2> QED
    BY <2>1, <2>2, <2>3 DEF Promise, AnsweredInv, PromiseInv, Present, TypeOK
<1>4. CASE LoadExisting(r)
  <2>1. existing[r] \in Jobs
    BY <1>4 DEF LoadExisting, HandlerInv
  <2>2. pc[r] = "load" /\ UNCHANGED <<input, existing, promised, claim, hash, topic>>
    BY <1>4 DEF LoadExisting, redis
  <2>3. CASE Present(existing[r])
    <3>1. /\ answer' = [answer EXCEPT ![r] = existing[r]]
          /\ pc' = [pc EXCEPT ![r] = "replied"]
      BY <1>4, <2>3 DEF LoadExisting, Goto
    <3>2. BegunInv'
      BY <2>1, <2>2, <3>1 DEF BegunInv, Begun, TypeOK
    <3>3. AnsweredInv'
      BY <2>2, <2>3, <3>1 DEF AnsweredInv, Present, TypeOK
    <3> QED
      BY <2>2, <3>1, <3>2, <3>3 DEF Promise, PromiseInv, Present, TypeOK
  <2>4. CASE ~Present(existing[r])
    <3>1. answer' = answer /\ pc' = [pc EXCEPT ![r] = "write"]
      BY <1>4, <2>4 DEF LoadExisting, Goto
    <3>2. promised[r] = None
      BY <2>2, <2>4 DEF PromiseInv
    <3> QED
      BY <2>2, <3>1, <3>2
         DEF Promise, BegunInv, Begun, AnsweredInv, PromiseInv, Present, TypeOK
  <2> QED
    BY <2>3, <2>4
<1>5. ASSUME pc[r] \in {"write", "expire", "stage", "stageTtl", "publish"},
             pc'[r] \in {"expire", "stage", "stageTtl", "publish", "replied"},
             \A q \in Requests \ {r} : pc'[q] = pc[q] /\ topic'[q] = topic[q],
             UNCHANGED <<input, existing, claim, promised>>,
             answer' = answer \/ (answer' = [answer EXCEPT ![r] = r] /\ Present(r)),
             \A i \in Jobs : Present(i) => hash'[i] # Absent
      PROVE  Promise'
  <2>1. promised[r] = None
    BY <1>5 DEF PromiseInv
  <2>2. BegunInv'
    BY <1>5 DEF BegunInv, Begun, TypeOK
  <2>3. AnsweredInv'
    BY <1>5 DEF AnsweredInv, Present, TypeOK
  <2> QED
    BY <1>5, <2>1, <2>2, <2>3 DEF Promise, PromiseInv, Present, TypeOK
<1>6. CASE WriteJob(r)
  BY <1>5, <1>6, QueuedIsHash, HashIsPresent DEF WriteJob, Goto, Present, TypeOK
<1>7. CASE ExpireJob(r)
  <2>1. Kept
    BY <1>7, RefreshKeeps DEF ExpireJob, TypeOK
  <2> QED
    BY <1>5, <1>7, <2>1 DEF ExpireJob, Goto, Kept, TypeOK
<1>8. CASE StageFile(r)
  BY <1>5, <1>8 DEF StageFile, Goto, Present, TypeOK
<1>9. CASE ExpireFile(r)
  BY <1>5, <1>9 DEF ExpireFile, Goto, Present, TypeOK
<1>10. CASE Publish(r)
  <2>1. Present(r)
    BY <1>10 DEF Publish, WrittenInv
  <2> QED
    BY <1>5, <1>10, <2>1 DEF Publish, Goto, Present, TypeOK, redis
<1> QED
  BY <1>1, <1>2, <1>3, <1>4, <1>6, <1>7, <1>8, <1>9, <1>10 DEF RequestStep

LEMMA ThrowsPromise ==
  ASSUME IInv, NEW r \in Requests, RequestThrows(r)
  PROVE  Promise'
<1> USE NoneAssumption DEF IInv, Jobs
<1>1. /\ pc' = [pc EXCEPT ![r] = "error"] /\ Running(r)
      /\ UNCHANGED <<input, existing, answer, promised>>
  BY DEF RequestThrows, Goto
<1>2. \A i \in Jobs : Present(i) => hash'[i] # Absent
  <2>1. CASE Refresh(r)
    BY <2>1, RefreshKeeps DEF TypeOK, Kept
  <2> QED
    BY <2>1, QueuedIsHash, HashIsPresent DEF RequestThrows, TypeOK, Present
<1>3. \/ UNCHANGED claim
      \/ /\ pc[r] = "claim" /\ input[r].key \in Keys /\ claim[input[r].key] = None
         /\ claim' = [claim EXCEPT ![input[r].key] = r]
  BY DEF RequestThrows, HandlerInv
<1>4. /\ \A q \in Requests \ {r} : topic'[q] = topic[q]
      /\ pc[r] # "publish" => topic'[r] = topic[r]
  BY DEF RequestThrows, TypeOK
<1>5. BegunInv'
  BY <1>1, <1>3 DEF BegunInv, Begun, TypeOK
<1>6. AnsweredInv'
  BY <1>1, <1>2, <1>3 DEF AnsweredInv, BegunInv, Begun, Present, TypeOK
<1>7. PromiseInv'
  BY <1>1, <1>2, <1>3, <1>4 DEF PromiseInv, Present, TypeOK
<1> QED
  BY <1>5, <1>6, <1>7 DEF Promise

LEMMA OtherPromise ==
  ASSUME IInv, Next \/ UNCHANGED vars,
         ~\E r \in Requests : Receive(r) \/ RequestStep(r) \/ RequestThrows(r)
  PROVE  Promise'
<1> USE DEF IInv
<1>0. hash \in [Jobs -> Hash \cup {Absent}]
  BY DEF TypeOK
<1>1. ASSUME NEW c \in Cancels, NEW j \in Jobs, AskCancel(c, j) PROVE Promise'
  BY <1>0, <1>1, UnchangedKeeps, KeptPromise DEF AskCancel, creating, redis
<1>2. ASSUME NEW c \in Cancels, CancelJob(c) \/ CancelThrows(c) PROVE Promise'
  <2>1. UNCHANGED <<creating, claim, topic>>
    BY <1>2 DEF CancelJob, CancelThrows, CancelStep, LoadForCancel, CancelStatus,
       CancelMark, CancelExpire, CancelFlag, redis
  <2> QED
    BY <1>2, <2>1, CancelKeeps, KeptPromise DEF creating
<1>3. ASSUME NEW j \in Jobs, Worker(j) PROVE Promise'
  <2>1. UNCHANGED <<creating, claim, topic>>
    BY <1>3 DEF Worker, Consume, UpdateProgress, RefreshProgress, Finish, redis
  <2> QED
    BY <1>3, <2>1, WorkerKeeps, KeptPromise DEF creating
<1>4. ASSUME NEW j \in Jobs, ExpireHash(j) PROVE Promise'
  <2>1. /\ \A k \in Keys : claim[k] # j
        /\ \A i \in Jobs \ {j} : hash'[i] = hash[i]
        /\ UNCHANGED <<creating, claim, topic>>
    BY <1>4 DEF ExpireHash, TypeOK
  <2> QED
    BY <2>1, NoneAssumption DEF creating, Promise, BegunInv, Begun, AnsweredInv, PromiseInv, Present, TypeOK
<1>5. ASSUME NEW k \in Keys, ExpireClaim(k) PROVE Promise'
  <2>1. /\ claim' = [claim EXCEPT ![k] = None]
        /\ promised' = [r \in Requests |-> IF input[r].key = k THEN None ELSE promised[r]]
        /\ UNCHANGED <<pc, input, existing, answer, hash, topic>>
    BY <1>5 DEF ExpireClaim
  <2>2. BegunInv' /\ AnsweredInv'
    BY <2>1, NoneAssumption DEF BegunInv, Begun, AnsweredInv, Present, TypeOK, Jobs
  <2>3. PromiseInv'
    BY <2>1 DEF PromiseInv, Present, TypeOK
  <2> QED
    BY <2>2, <2>3 DEF Promise
<1>6. CASE Crash
  BY <1>0, <1>6, UnchangedKeeps, KeptPromise DEF Crash, redis
<1>7. CASE UNCHANGED vars
  BY <1>0, <1>7, UnchangedKeeps, KeptPromise DEF vars, creating, redis
<1> QED
  BY <1>1, <1>2, <1>3, <1>4, <1>5, <1>6, <1>7 DEF Next, Terminating

-----------------------------------------------------------------------------
(* No hash without a TTL                                                   *)

\* Who will set the TTL of the hash of job j.
InHands(j) ==
  \/ pc[j] = "expire"
  \/ \E c \in Cancels : cancel[c].job = j /\ cancel[c].pc \in {"mark", "expire"}
  \/ work[j] = "refresh"

LEMMA FaultUnlimited ==
  ASSUME IInv, Fault
  PROVE  UnlimitedOnlyByFault'
  BY FaultsAssumption DEF IInv, TypeOK, Fault, UnlimitedOnlyByFault

\* A step that loses no TTL and leaves each hash in the hands it was in.
LEMMA KeptUnlimited ==
  ASSUME IInv, Kept, UNCHANGED faults, NEW j \in Jobs,
         \A i \in Jobs \ {j} : hash'[i] = hash[i] /\ (InHands(i) => InHands(i)'),
         hash'[j] # Absent /\ ~hash'[j].ttl /\ faults = 0 => InHands(j)'
  PROVE  UnlimitedOnlyByFault'
  BY FaultsAssumption DEF IInv, TypeOK, Kept, UnlimitedOnlyByFault, InHands, Present

LEMMA RequestUnlimited ==
  ASSUME IInv, NEW r \in Requests, Receive(r) \/ RequestStep(r)
  PROVE  UnlimitedOnlyByFault'
<1> USE DEF IInv, Jobs
<1>1. /\ UNCHANGED <<cancel, work, faults>>
      /\ \A q \in Requests \ {r} : pc'[q] = pc[q]
  BY DEF Receive, RequestStep, TryClaim, GetClaim, LoadExisting, WriteJob, ExpireJob,
     StageFile, ExpireFile, Publish, Goto, TypeOK
<1>2. CASE pc[r] # "expire" /\ UNCHANGED hash
  BY <1>1, <1>2 DEF UnlimitedOnlyByFault, Present
<1>3. CASE WriteJob(r)
  BY <1>1, <1>3 DEF WriteJob, Goto, UnlimitedOnlyByFault, Present, TypeOK
<1>4. CASE ExpireJob(r)
  <2>1. Refresh(r)
    BY <1>4 DEF ExpireJob
  <2>2. OnlyAt(r) /\ (hash'[r] # Absent => hash'[r].ttl)
    BY <2>1, RefreshKeeps DEF TypeOK
  <2> QED
    BY <1>1, <2>2 DEF UnlimitedOnlyByFault, Present, OnlyAt
<1> QED
  BY <1>2, <1>3, <1>4 DEF Receive, RequestStep, TryClaim, GetClaim, LoadExisting,
     StageFile, ExpireFile, Publish, redis

LEMMA CancelUnlimited ==
  ASSUME IInv, NEW c \in Cancels, CancelJob(c)
  PROVE  UnlimitedOnlyByFault'
<1> USE DEF IInv
<1> DEFINE j == cancel[c].job
<1>1. j \in Jobs /\ Kept /\ OnlyAt(j)
  BY CancelKeeps
<1>2. /\ UNCHANGED <<pc, work, faults>>
      /\ \A d \in Cancels \ {c} : cancel'[d] = cancel[d]
      /\ cancel'[c].job = j
  BY DEF CancelJob, CancelStep, LoadForCancel, CancelStatus, CancelMark, CancelExpire,
     CancelFlag, creating, TypeOK
<1>3. \A i \in Jobs \ {j} : hash'[i] = hash[i] /\ (InHands(i) => InHands(i)')
  BY <1>1, <1>2 DEF OnlyAt, InHands
<1>4. ASSUME hash'[j] # Absent, ~hash'[j].ttl, faults = 0
      PROVE  InHands(j)'
  <2>1. CASE CancelStatus(c) \/ CancelMark(c)
    BY <1>1, <1>2, <2>1 DEF CancelStatus, CancelMark, CancelStep, InHands, TypeOK
  <2>2. CASE CancelExpire(c)
    BY <1>1, <1>4, <2>2, RefreshKeeps DEF CancelExpire, TypeOK
  <2>3. CASE LoadForCancel(c) \/ CancelFlag(c)
    <3>1. UNCHANGED hash /\ cancel[c].pc \in {"load", "flag"}
      BY <2>3 DEF LoadForCancel, CancelFlag, CancelStep, redis
    <3>2. InHands(j)
      BY <1>1, <1>4, <3>1 DEF UnlimitedOnlyByFault, InHands, Present
    <3> QED
      BY <1>2, <3>1, <3>2 DEF InHands
  <2> QED
    BY <2>1, <2>2, <2>3 DEF CancelJob
<1> QED
  BY <1>1, <1>2, <1>3, <1>4, KeptUnlimited

LEMMA WorkerUnlimited ==
  ASSUME IInv, NEW j \in Jobs, Worker(j)
  PROVE  UnlimitedOnlyByFault'
<1> USE DEF IInv
<1>1. Kept /\ OnlyAt(j)
  BY WorkerKeeps
<1>2. UNCHANGED <<pc, cancel, faults>> /\ \A i \in Jobs \ {j} : work'[i] = work[i]
  BY DEF Worker, Consume, UpdateProgress, RefreshProgress, Finish, creating, TypeOK
<1>3. \A i \in Jobs \ {j} : hash'[i] = hash[i] /\ (InHands(i) => InHands(i)')
  BY <1>1, <1>2 DEF OnlyAt, InHands
<1>4. ASSUME hash'[j] # Absent, ~hash'[j].ttl, faults = 0
      PROVE  InHands(j)'
  <2>1. CASE UpdateProgress(j)
    BY <2>1 DEF UpdateProgress, InHands, TypeOK
  <2>2. CASE RefreshProgress(j)
    BY <1>4, <2>2, RefreshKeeps DEF RefreshProgress, TypeOK
  <2>3. CASE Consume(j) \/ Finish(j)
    <3>1. work[j] # "refresh"
      BY <2>3 DEF Consume, Finish
    <3>2. Present(j) /\ hash'[j].ttl = hash[j].ttl
      <4>1. CASE UNCHANGED hash
        BY <1>4, <4>1 DEF Present
      <4>2. CASE Present(j) /\ SetStatus(j, "done")
        BY <4>2, SetStatusKeeps DEF TypeOK, Statuses, Finished
      <4> QED
        BY <2>3, <4>1, <4>2 DEF Consume, Finish, redis
    <3>3. InHands(j)
      BY <1>4, <3>2 DEF UnlimitedOnlyByFault, InHands
    <3> QED
      BY <1>2, <3>1, <3>3 DEF InHands
  <2> QED
    BY <2>1, <2>2, <2>3 DEF Worker
<1> QED
  BY <1>1, <1>2, <1>3, <1>4, KeptUnlimited

LEMMA OtherUnlimited ==
  ASSUME IInv,
         \/ \E c \in Cancels, j \in Jobs : AskCancel(c, j)
         \/ \E j \in Jobs : ExpireHash(j)
         \/ \E k \in Keys : ExpireClaim(k)
         \/ UNCHANGED vars
  PROVE  UnlimitedOnlyByFault'
<1> USE DEF IInv
<1>1. ASSUME NEW c \in Cancels, NEW j \in Jobs, AskCancel(c, j)
      PROVE  UnlimitedOnlyByFault'
  BY <1>1 DEF AskCancel, creating, redis, UnlimitedOnlyByFault, Present, TypeOK
<1>2. ASSUME NEW j \in Jobs, ExpireHash(j) PROVE UnlimitedOnlyByFault'
  BY <1>2 DEF ExpireHash, creating, UnlimitedOnlyByFault, Present, TypeOK
<1>3. ASSUME NEW k \in Keys, ExpireClaim(k) PROVE UnlimitedOnlyByFault'
  BY <1>3 DEF ExpireClaim, UnlimitedOnlyByFault, Present
<1>4. CASE UNCHANGED vars
  BY <1>4 DEF vars, creating, redis, UnlimitedOnlyByFault, Present
<1> QED
  BY <1>1, <1>2, <1>3, <1>4

-----------------------------------------------------------------------------
(* The theorems                                                            *)

LEMMA NextInv == IInv /\ [Next]_vars => IInv'
<1> SUFFICES ASSUME IInv, Next \/ UNCHANGED vars PROVE IInv'
  OBVIOUS
<1>1. Shape'
  BY RequestShape, ThrowsShape, CancelShape, OtherShape DEF Next, Terminating
<1>2. Ready'
  BY RequestReady, ThrowsReady, OtherReady
<1>3. Promise'
  BY RequestPromise, ThrowsPromise, OtherPromise
<1>4. UnlimitedOnlyByFault'
  <2>1. CASE \/ \E r \in Requests : RequestThrows(r)
             \/ \E c \in Cancels : CancelThrows(c)
             \/ Crash
    BY <2>1, FaultUnlimited DEF RequestThrows, CancelThrows, Crash
  <2> QED
    BY <2>1, RequestUnlimited, CancelUnlimited, WorkerUnlimited, OtherUnlimited
       DEF Next, Terminating
<1> QED
  BY <1>1, <1>2, <1>3, <1>4 DEF IInv, Shape, Ready, Promise

LEMMA SpecInv == Spec => []IInv
  BY InitInv, NextInv, PTL DEF Spec

\* The handlers and stores keep their shape, and no job has two messages.
THEOREM AiJobTypeOK == Spec => []TypeOK
<1>1. IInv => TypeOK
  BY DEF IInv
<1> QED
  BY SpecInv, <1>1, PTL

\* A retry gets the job of its key and creates none (claimIdempotencyKey and
\* createJob of JobStoreService).
THEOREM AiJobRetry == Spec => []RetryGetsSameJob
<1>1. IInv => RetryGetsSameJob
  BY DEF IInv, PromiseInv, RetryGetsSameJob
<1> QED
  BY SpecInv, <1>1, PTL

\* A job that a worker can take has its owner and its file (createJob before
\* stage before publish).
THEOREM AiJobReady == Spec => []PublishedIsReady
<1>1. IInv => PublishedIsReady
  BY DEF IInv
<1> QED
  BY SpecInv, <1>1, PTL

\* Only a fault leaves a hash in Redis for ever (each HSET has its EXPIRE).
THEOREM AiJobUnlimited == Spec => []UnlimitedOnlyByFault
<1>1. IInv => UnlimitedOnlyByFault
  BY DEF IInv
<1> QED
  BY SpecInv, <1>1, PTL

=============================================================================
