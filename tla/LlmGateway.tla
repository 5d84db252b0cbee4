----------------------------- MODULE LlmGateway -----------------------------
(***************************************************************************)
(* The LLM gateway of apps/ai-service: a call streams from the models of   *)
(* its chain in turn until one completes.  A circuit breaker per model,    *)
(* kept in Redis, is loaded, changed and saved without a lock.             *)
(***************************************************************************)
EXTENDS ServiceCalls, FiniteSetsExt

CONSTANTS
  Models,            \* the models of the providers
  Chain,             \* LLM_FALLBACK_CHAIN, the provider's model first
  FailureThreshold,  \* FAILURE_THRESHOLD
  ResetTimeout,      \* RESET_TIMEOUT_MS, in ticks
  MaxLlmTime,        \* bound: the last tick
  MaxLlmFailures     \* bound: the failures of a model

ASSUME LlmAssumption ==
  /\ Chain \in Seq(Models)
  /\ FailureThreshold \in Nat \ {0} /\ ResetTimeout \in Nat
  /\ MaxLlmTime \in Nat \ {0} /\ MaxLlmFailures \in Nat

VARIABLES
  now,      \* the clock
  breaker,  \* Redis cb:*: the breaker of each model (Create() if there is none)
  stream,   \* stream[c]: the call of LlmGatewayService.stream
  costLog,  \* the table of the cost log
  failures  \* history: the failures of a model since its breaker was last Create()

llmVars == <<now, breaker, stream, costLog, failures, callFaults>>

Create == [status |-> "closed", failureCount |-> 0, openedAt |-> 0]

\* half-open lives in canCall's copy only and is never saved.
CanCall(b) == b.status = "open" => (b.openedAt # 0 /\ now - b.openedAt >= ResetTimeout)

\* Mutant: one failure too early.
RecordFailureEarly(b) ==
  IF b.failureCount + 1 >= FailureThreshold - 1 \/ b.status = "half-open"
  THEN [status |-> "open", failureCount |-> b.failureCount + 1, openedAt |-> now]
  ELSE [b EXCEPT !.failureCount = @ + 1]

RecordFailure(b) ==
  IF b.failureCount + 1 >= FailureThreshold \/ b.status = "half-open"
  THEN [status |-> "open", failureCount |-> b.failureCount + 1, openedAt |-> now]
  ELSE [b EXCEPT !.failureCount = @ + 1]

RecordSuccess == Create

\* The filter of resolveChain.
Without(chain, model) ==
  LET kept[i \in 0..Len(chain)] ==
        IF i = 0 THEN <<>>
        ELSE IF chain[i] = model THEN kept[i - 1] ELSE Append(kept[i - 1], chain[i])
  IN  kept[Len(chain)]

ResolveChain(preferred) ==
  IF preferred \notin Models THEN Chain ELSE <<preferred>> \o Without(Chain, preferred)

\* answers: the models whose answer is complete or in part with the caller;
\* an answer may be complete without a token.
Call(pc, rest) ==
  [pc |-> pc, rest |-> rest, first |-> IF rest = <<>> THEN "none" ELSE Head(rest),
   answers |-> <<>>, copy |-> Create]
Model(c) == Head(stream[c].rest)
LlmStep(c, from, to) == stream[c].pc = from /\ stream' = [stream EXCEPT ![c].pc = to]

LlmInit ==
  /\ now = 1
  /\ breaker = [m \in Models |-> Create]
  /\ stream = [c \in Calls |-> Call("idle", <<>>)]
  /\ costLog = {}
  /\ failures = [m \in Models |-> 0]
  /\ callFaults = 0

LlmTick ==
  /\ now < MaxLlmTime
  /\ now' = now + 1
  /\ UNCHANGED <<breaker, stream, costLog, failures, callFaults>>

StartStream(c, preferred) ==
  /\ stream[c].pc = "idle"
  /\ stream' = [stream EXCEPT ![c] = Call("check", ResolveChain(preferred))]
  /\ UNCHANGED <<now, breaker, costLog, failures, callFaults>>

\* The loop over the chain: an open breaker skips the model, the end of the
\* chain throws.
CheckBreaker(c) ==
  /\ stream[c].pc = "check"
  /\ stream' = IF stream[c].rest = <<>> THEN [stream EXCEPT ![c].pc = "thrown"]
               ELSE IF CanCall(breaker[Model(c)]) THEN [stream EXCEPT ![c].pc = "stream"]
               ELSE [stream EXCEPT ![c].rest = Tail(@)]
  /\ UNCHANGED <<now, breaker, costLog, failures, callFaults>>

\* loadState rejects: a fresh breaker, which lets the call through.
CheckBreakerThrows(c) ==
  /\ LlmStep(c, "check", "stream")
  /\ stream[c].rest # <<>>
  /\ CallFault
  /\ UNCHANGED <<now, breaker, costLog, failures>>

Yield(c, part, pc) ==
  stream' = [stream EXCEPT ![c].pc = pc,
               ![c].answers = Append(@, [model |-> Model(c), part |-> part])]

ModelCompletes(c) ==
  /\ stream[c].pc = "stream"
  /\ \E part \in {"all", "empty"} : Yield(c, part, "success")
  /\ UNCHANGED <<now, breaker, costLog, failures, callFaults>>

\* The model fails before its first token, or after some that the caller of the
\* generator already has.
ModelFails(c) ==
  /\ stream[c].pc = "stream"
  /\ failures[Model(c)] < MaxLlmFailures
  /\ failures' = [failures EXCEPT ![Model(c)] = @ + 1]
  /\ \/ LlmStep(c, "stream", "failure")
     \/ Yield(c, "some", "failure")
  /\ UNCHANGED <<now, breaker, costLog, callFaults>>

\* recordSuccess and recordFailure: load and change a copy.
LoadState(c) ==
  /\ stream[c].pc \in {"success", "failure"}
  /\ stream' = IF stream[c].pc = "success"
               THEN [stream EXCEPT ![c].pc = "saveSuccess", ![c].copy = RecordSuccess]
               ELSE [stream EXCEPT ![c].pc = "saveFailure",
                       ![c].copy = RecordFailure(breaker[Model(c)])]
  /\ UNCHANGED <<now, breaker, costLog, failures, callFaults>>

\* loadState rejects in recordFailure: the failure is the first of a fresh breaker.
\* (In recordSuccess it changes nothing: what is saved is fresh in any case.)
LoadStateThrows(c) ==
  /\ stream[c].pc = "failure"
  /\ CallFault
  /\ stream' = [stream EXCEPT ![c].pc = "saveFailure", ![c].copy = RecordFailure(Create)]
  /\ UNCHANGED <<now, breaker, costLog, failures>>

\* No recorded failure is on its way into the breaker of m.
NoneRecording(m) ==
  \A c \in Calls : stream[c].pc \in {"failure", "saveFailure"} => Model(c) # m

SaveState(c) ==
  /\ breaker' = [breaker EXCEPT ![Model(c)] = stream[c].copy]
  /\ failures' = IF stream[c].copy = Create /\ NoneRecording(Model(c))
                 THEN [failures EXCEPT ![Model(c)] = 0] ELSE failures
  /\ UNCHANGED <<now, costLog, callFaults>>

\* The copy is dropped after a save.  After a success the generator returns.
SaveSuccess(c) ==
  /\ stream[c].pc = "saveSuccess"
  /\ stream' = [stream EXCEPT ![c].pc = "track", ![c].copy = Create]
  /\ SaveState(c)

\* Mutant: the generator returns after a failure that has sent tokens.
SaveFailureReturns(c) ==
  /\ stream[c].pc = "saveFailure"
  /\ stream' = IF stream[c].answers # <<>> THEN [stream EXCEPT ![c].pc = "track", ![c].copy = Create]
               ELSE [stream EXCEPT ![c].pc = "check", ![c].rest = Tail(@), ![c].copy = Create]
  /\ SaveState(c)

\* After a failure it goes on with the next model.
SaveFailure(c) ==
  /\ stream[c].pc = "saveFailure"
  /\ stream' = [stream EXCEPT ![c].pc = "check", ![c].rest = Tail(@), ![c].copy = Create]
  /\ SaveState(c)

\* saveState rejects, in hset or in expire: in the try it counts as a failure of
\* the model, whose answer is complete; in the catch it leaves the generator.
SaveThrows(c) ==
  /\ stream[c].pc \in {"saveSuccess", "saveFailure"}
  /\ CallFault
  /\ breaker' \in {breaker, [breaker EXCEPT ![Model(c)] = stream[c].copy]}
  /\ stream' = [stream EXCEPT ![c].pc = IF @ = "saveSuccess" THEN "failure" ELSE "thrown", ![c].copy = Create]
  /\ failures' = IF stream[c].pc = "saveSuccess"
                 THEN [failures EXCEPT ![Model(c)] = @ + 1] ELSE failures
  /\ UNCHANGED <<now, costLog>>

\* usedModel: the last that sent a token, or the first of the chain.
UsedModel(s) ==
  LET sent == {i \in DOMAIN s.answers : s.answers[i].part # "empty"} IN
  IF sent = {} THEN s.first ELSE s.answers[Max(sent)].model

\* CostTrackingService.track.
Track(c) ==
  LET used == UsedModel(stream[c]) IN
  /\ LlmStep(c, "track", "done")
  /\ costLog' = costLog \cup {[call |-> c, model |-> used,
                               fallbackUsed |-> used # stream[c].first]}
  /\ UNCHANGED <<now, breaker, failures, callFaults>>

TrackThrows(c) ==
  /\ LlmStep(c, "track", "done")
  /\ CallFault
  /\ UNCHANGED <<now, breaker, costLog, failures>>

\* The key expires an hour after the last save.
ExpireBreaker(m) ==
  /\ breaker[m] # Create
  /\ breaker' = [breaker EXCEPT ![m] = Create]
  /\ failures' = IF NoneRecording(m) THEN [failures EXCEPT ![m] = 0] ELSE failures
  /\ UNCHANGED <<now, stream, costLog, callFaults>>

LlmNext ==
  \/ LlmTick
  \/ \E c \in Calls :
       \/ \E preferred \in Models \cup {"none"} : StartStream(c, preferred)
       \/ CheckBreaker(c) \/ CheckBreakerThrows(c)
       \/ ModelCompletes(c) \/ ModelFails(c)
       \/ LoadState(c) \/ LoadStateThrows(c)
       \/ SaveSuccess(c) \/ SaveFailure(c) \/ SaveThrows(c)
       \/ Track(c) \/ TrackThrows(c)
  \/ \E m \in Models : ExpireBreaker(m)

LlmSpec == LlmInit /\ [][LlmNext]_llmVars

-----------------------------------------------------------------------------
LlmTypeOK ==
  /\ now \in 1..MaxLlmTime
  /\ breaker \in [Models -> [status : {"closed", "open"}, failureCount : Nat, openedAt : 0..now]]
  /\ failures \in [Models -> Nat]
  /\ \A c \in Calls :
       /\ stream[c].pc \in {"idle", "check", "stream", "success", "failure", "saveSuccess",
                            "saveFailure", "track", "done", "thrown"}
       /\ ToSet(stream[c].rest) \subseteq Models

\* A breaker is open only after FAILURE_THRESHOLD failures of its model, however
\* the copies of concurrent calls overwrite each other.
BreakerOpensAfterFailures ==
  \A m \in Models : breaker[m].status = "open" => failures[m] >= FailureThreshold

\* A call that ends normally has delivered the complete answer of a model last,
\* after fragments of other models' answers only, or complete ones if a save was
\* rejected.  The cost log names that model, unless its answer was empty.
AnswerEndsWhole ==
  \A c \in Calls :
    LET a == stream[c].answers IN
    stream[c].pc = "done" =>
      /\ a # <<>> /\ Last(a).part # "some"
      /\ \A i \in 1..(Len(a) - 1) : a[i].part # "some" => callFaults > 0
      /\ \A e \in costLog :
           (e.call = c /\ Last(a).part = "all") =>
             e.model = Last(a).model /\ (e.fallbackUsed <=> e.model # stream[c].first)

=============================================================================
