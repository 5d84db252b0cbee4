-------------------------- MODULE AiServiceProofs -----------------------------
(*****************************************************************************)
(* What holds of the parts of apps/ai-service, for any numbers of calls,     *)
(* models, owners, documents and questions, and any number of faults.        *)
(*****************************************************************************)
EXTENDS LlmGateway, PromptTemplates, KnowledgeIngest, QuestionAnswering, RetrievalProofs

-----------------------------------------------------------------------------
(***************************************************************************)
(* A breaker opens after FAILURE_THRESHOLD failures of its model only, for *)
(* any models, chains and numbers of concurrent calls.                     *)
(***************************************************************************)

States == [status : {"closed", "open"}, failureCount : Nat, openedAt : Nat]

\* The fields of a call; what rest, first and answers hold does not matter here.
IsCall(s) ==
  s = [f \in {"pc", "rest", "first", "answers", "copy"} |-> s[f]]

LlmShapeInv ==
  /\ now \in Nat
  /\ breaker \in [Models -> States]
  /\ failures \in [Models -> Nat]
  /\ stream = [c \in Calls |-> stream[c]]
  /\ \A c \in Calls : IsCall(stream[c])

\* Calls whose failure is counted and not yet in a copy of the breaker.
Failing(m) == {c \in Calls : stream[c].pc = "failure" /\ Model(c) = m}

\* Whatever is open, in Redis or as a copy, has reached the threshold.
Tripped(b) == b.status = "open" => b.failureCount >= FailureThreshold

Saving(c) == stream[c].pc \in {"saveSuccess", "saveFailure"}

CopyInv ==
  /\ \A m \in Models : Tripped(breaker[m])
  /\ \A c \in Calls :
       /\ stream[c].pc = "saveSuccess" => stream[c].copy = Create
       /\ (Saving(c) /\ Model(c) \in Models) =>
            /\ stream[c].copy \in States /\ Tripped(stream[c].copy)
            /\ stream[c].pc = "saveFailure" => stream[c].copy.failureCount > 0

\* The failures of a model cover those counted by its breaker, or by a copy that
\* is about to be written, and those still to be counted.
Covered(m, b) == failures[m] >= b.failureCount + Cardinality(Failing(m))

CountInv ==
  \A m \in Models :
    /\ Covered(m, breaker[m])
    /\ \A c \in Calls : (stream[c].pc = "saveFailure" /\ Model(c) = m) => Covered(m, stream[c].copy)

\* The invariant that the steps keep.
LlmIInv == LlmShapeInv /\ CopyInv /\ CountInv

-----------------------------------------------------------------------------
LEMMA CreateIsState == Create \in States /\ Tripped(Create) /\ Create.failureCount = 0
BY DEF Create, States, Tripped

\* A failure adds one to a breaker; if it opens, the threshold is reached.
LEMMA RecordFailureCounts ==
  ASSUME NEW b \in States, Tripped(b), now \in Nat
  PROVE  /\ RecordFailure(b) \in States /\ Tripped(RecordFailure(b))
         /\ RecordFailure(b).failureCount = b.failureCount + 1
<1>1. b.failureCount \in Nat /\ b.status \in {"closed", "open"}
  BY DEF States
<1>2. CASE b.failureCount + 1 >= FailureThreshold
  BY <1>1, <1>2, LlmAssumption DEF RecordFailure, States, Tripped
<1>3. CASE ~(b.failureCount + 1 >= FailureThreshold)
  <2>1. RecordFailure(b) = [b EXCEPT !.failureCount = b.failureCount + 1]
    BY <1>1, <1>3 DEF RecordFailure
  <2>2. b.status # "open"
    BY <1>1, <1>3, LlmAssumption DEF Tripped
  <2> QED
    BY <1>1, <2>1, <2>2 DEF States, Tripped
<1> QED
  BY <1>2, <1>3

\* A step of one call moves it into Failing(m), out of it or neither.
LEMMA FailingChanges ==
  ASSUME NEW c \in Calls, NEW m, \A d \in Calls \ {c} : stream'[d] = stream[d]
  PROVE  /\ Cardinality(Failing(m)) \in Nat /\ Cardinality(Failing(m)') \in Nat
         /\ (c \in Failing(m) <=> c \in Failing(m)') =>
              Cardinality(Failing(m)') = Cardinality(Failing(m))
         /\ (c \notin Failing(m) /\ c \in Failing(m)') =>
              Cardinality(Failing(m)') = Cardinality(Failing(m)) + 1
         /\ (c \in Failing(m) /\ c \notin Failing(m)') =>
              Cardinality(Failing(m)') = Cardinality(Failing(m)) - 1
<1>1. IsFiniteSet(Failing(m)) /\ IsFiniteSet(Failing(m)')
  BY CallsAssumption, FS_Subset DEF Failing
<1>2. Cardinality(Failing(m)) \in Nat /\ Cardinality(Failing(m)') \in Nat
  BY <1>1, FS_CardinalityType
<1>3. Failing(m)' \ {c} = Failing(m) \ {c}
  BY DEF Failing, Model
<1>4. CASE c \in Failing(m) <=> c \in Failing(m)'
  BY <1>2, <1>3, <1>4
<1>5. CASE c \notin Failing(m) /\ c \in Failing(m)'
  <2>1. Failing(m)' = Failing(m) \cup {c}
    BY <1>3, <1>5
  <2> QED
    BY <1>1, <1>2, <1>5, <2>1, FS_AddElement
<1>6. CASE c \in Failing(m) /\ c \notin Failing(m)'
  <2>1. Failing(m)' = Failing(m) \ {c}
    BY <1>3, <1>6
  <2> QED
    BY <1>1, <1>2, <1>6, <2>1, FS_RemoveElement
<1> QED
  BY <1>2, <1>4, <1>5, <1>6

LEMMA LlmInitIInv == LlmInit => LlmIInv
<1> SUFFICES ASSUME LlmInit PROVE LlmIInv
  OBVIOUS
<1>1. LlmShapeInv
  BY DEF LlmInit, LlmShapeInv, IsCall, Call, Create, States
<1>2. CopyInv
  BY CreateIsState DEF LlmInit, CopyInv, Saving, Call
<1>3. \A m \in Models : Cardinality(Failing(m)) = 0
  <2>1. \A m \in Models : Failing(m) = {}
    BY DEF LlmInit, Failing, Call
  <2> QED
    BY <2>1, FS_EmptySet
<1>4. CountInv
  BY <1>3, CreateIsState DEF LlmInit, CountInv, Covered, Call
<1> QED
  BY <1>1, <1>2, <1>4 DEF LlmIInv

-----------------------------------------------------------------------------
\* A call with other fields is a call.
LEMMA CallFields ==
  ASSUME NEW s, IsCall(s), NEW v, NEW w
  PROVE  /\ LET t == [s EXCEPT !.pc = v] IN IsCall(t) /\ t.pc = v /\ t.rest = s.rest
         /\ LET t == [s EXCEPT !.rest = w] IN IsCall(t) /\ t.pc = s.pc
         /\ LET t == [s EXCEPT !.pc = v, !.rest = w] IN IsCall(t) /\ t.pc = v
         /\ LET t == [s EXCEPT !.pc = v, !.answers = w] IN IsCall(t) /\ t.pc = v /\ t.rest = s.rest
         /\ LET t == [s EXCEPT !.pc = v, !.copy = w] IN
              IsCall(t) /\ t.pc = v /\ t.rest = s.rest /\ t.copy = w
<1>1. LET t == [s EXCEPT !.pc = v] IN IsCall(t) /\ t.pc = v /\ t.rest = s.rest
  BY DEF IsCall
<1>2. LET t == [s EXCEPT !.rest = w] IN IsCall(t) /\ t.pc = s.pc
  BY DEF IsCall
<1>3. LET t == [s EXCEPT !.pc = v, !.rest = w] IN IsCall(t) /\ t.pc = v
  BY DEF IsCall
<1>4. LET t == [s EXCEPT !.pc = v, !.answers = w] IN IsCall(t) /\ t.pc = v /\ t.rest = s.rest
  BY DEF IsCall
<1>5. LET t == [s EXCEPT !.pc = v, !.copy = w] IN
              IsCall(t) /\ t.pc = v /\ t.rest = s.rest /\ t.copy = w
  BY DEF IsCall
<1> QED
  BY <1>1, <1>2, <1>3, <1>4, <1>5

LEMMA CallChanges ==
  ASSUME LlmShapeInv, NEW c \in Calls, NEW s, IsCall(s), stream' = [stream EXCEPT ![c] = s]
  PROVE  /\ stream'[c] = s
         /\ \A d \in Calls \ {c} : stream'[d] = stream[d]
         /\ stream' = [d \in Calls |-> stream'[d]]
         /\ \A d \in Calls : IsCall(stream'[d])
BY DEF LlmShapeInv

\* A call in a state that is fit to save, if it is about to.
SavesWell(s) ==
  /\ s.pc = "saveSuccess" => s.copy = Create
  /\ (s.pc \in {"saveSuccess", "saveFailure"} /\ Head(s.rest) \in Models) =>
       /\ s.copy \in States /\ Tripped(s.copy)
       /\ s.pc = "saveFailure" => s.copy.failureCount > 0

\* The calls whose state is the same keep their part of the invariant, unless
\* failures are forgotten or a further one is counted and not covered.
LEMMA OthersKeep ==
  ASSUME LlmIInv, NEW c \in Calls, NEW s, IsCall(s), stream' = [stream EXCEPT ![c] = s],
         SavesWell(s),
         \A m \in Models : Tripped(breaker[m])',
         \A m \in Models : Covered(m, breaker[m])',
         \A m \in Models : (s.pc = "saveFailure" /\ Head(s.rest) = m) => Covered(m, s.copy)',
         \A m \in Models : failures[m] + Cardinality(Failing(m)') =< failures'[m] + Cardinality(Failing(m))
                          \/ NoneRecording(m),
         now' \in Nat, breaker' \in [Models -> States], failures' \in [Models -> Nat]
  PROVE  LlmIInv'
<1> USE DEF LlmIInv
<1>1. /\ stream'[c] = s
      /\ \A d \in Calls \ {c} : stream'[d] = stream[d]
      /\ stream' = [d \in Calls |-> stream'[d]]
      /\ \A d \in Calls : IsCall(stream'[d])
  BY CallChanges
<1>2. LlmShapeInv'
  BY <1>1 DEF LlmShapeInv
<1>3. \A d \in Calls : SavesWell(stream[d])
  BY DEF CopyInv, SavesWell, Saving, Model
<1>4. CopyInv'
  <2>1. \A d \in Calls : SavesWell(stream'[d])
    BY <1>1, <1>3
  <2>2. ASSUME NEW d \in Calls
        PROVE  /\ stream'[d].pc = "saveSuccess" => stream'[d].copy = Create
               /\ (Saving(d)' /\ Model(d)' \in Models) =>
                    /\ stream'[d].copy \in States /\ Tripped(stream'[d].copy)
                    /\ stream'[d].pc = "saveFailure" => stream'[d].copy.failureCount > 0
    BY <2>1 DEF SavesWell, Saving, Model
  <2> QED
    BY <2>2 DEF CopyInv, Tripped
<1>5. ASSUME NEW m \in Models, NEW d \in Calls, stream'[d].pc = "saveFailure", Model(d)' = m
      PROVE  Covered(m, stream[d].copy)'
  <2>1. CASE d = c
    BY <1>1, <1>5, <2>1 DEF Model, Covered
  <2>2. CASE d # c
    <3>1. /\ Model(d) = m /\ stream[d].pc = "saveFailure"
          /\ stream'[d].copy = stream[d].copy /\ stream[d].copy \in States
      BY <1>1, <1>3, <1>5, <2>2 DEF SavesWell, Model
    <3>2. Covered(m, stream[d].copy)
      BY <3>1 DEF CountInv
    <3>3. failures[m] + Cardinality(Failing(m)') =< failures'[m] + Cardinality(Failing(m))
      BY <3>1 DEF NoneRecording
    <3>4. Cardinality(Failing(m)) \in Nat /\ Cardinality(Failing(m)') \in Nat
      BY <1>1, FailingChanges
    <3>5. failures[m] \in Nat /\ failures'[m] \in Nat /\ stream[d].copy.failureCount \in Nat
      BY <3>1 DEF LlmShapeInv, States
    <3> QED
      BY <3>1, <3>2, <3>3, <3>4, <3>5 DEF Covered
  <2> QED
    BY <2>1, <2>2
<1>6. CountInv'
  BY <1>5 DEF CountInv
<1> QED
  BY <1>2, <1>4, <1>6

\* A model's count of calls in failure, as a number that changes by one at most.
LEMMA FailingIsNat == ASSUME NEW m PROVE Cardinality(Failing(m)) \in Nat
<1>1. IsFiniteSet(Failing(m))
  BY CallsAssumption, FS_Subset DEF Failing
<1> QED
  BY <1>1, FS_CardinalityType

\* Steps that change the call only, which neither fails nor saves after them.
LEMMA PlainStep ==
  ASSUME LlmIInv, NEW c \in Calls, NEW s, IsCall(s), stream' = [stream EXCEPT ![c] = s],
         s.pc \notin {"failure", "saveSuccess", "saveFailure"},
         now' = now, breaker' = breaker, failures' = failures
  PROVE  LlmIInv'
<1> USE DEF LlmIInv
<1>1. stream'[c] = s /\ \A d \in Calls \ {c} : stream'[d] = stream[d]
  BY CallChanges
<1>2. ASSUME NEW m \in Models
      PROVE  Cardinality(Failing(m)') =< Cardinality(Failing(m))
  <2>1. c \notin Failing(m)'
    BY <1>1 DEF Failing
  <2> QED
    BY <1>1, <2>1, FailingChanges
<1>3. \A m \in Models : Tripped(breaker[m])' /\ Covered(m, breaker[m])'
  <2> SUFFICES ASSUME NEW m \in Models PROVE Tripped(breaker[m])' /\ Covered(m, breaker[m])'
    OBVIOUS
  <2>1. breaker[m].failureCount \in Nat /\ failures[m] \in Nat
    BY DEF LlmShapeInv, States
  <2>2. Cardinality(Failing(m)) \in Nat /\ Cardinality(Failing(m)') \in Nat
    BY <1>1, FailingChanges
  <2>3. Tripped(breaker[m]) /\ Covered(m, breaker[m])
    BY DEF CopyInv, CountInv
  <2> QED
    BY <1>2, <2>1, <2>2, <2>3 DEF Covered, Tripped
<1>4. \A m \in Models : failures[m] + Cardinality(Failing(m)') =< failures'[m] + Cardinality(Failing(m))
  <2> SUFFICES ASSUME NEW m \in Models
               PROVE  failures[m] + Cardinality(Failing(m)') =< failures[m] + Cardinality(Failing(m))
    OBVIOUS
  <2>1. Cardinality(Failing(m)) \in Nat /\ Cardinality(Failing(m)') \in Nat /\ failures[m] \in Nat
    BY <1>1, FailingChanges DEF LlmShapeInv
  <2> QED
    BY <1>2, <2>1
<1> QED
  BY <1>3, <1>4, OthersKeep DEF LlmShapeInv, SavesWell

\* StartStream, CheckBreaker, CheckBreakerThrows, ModelCompletes, Track, TrackThrows.
LEMMA QuietSafe ==
  ASSUME LlmIInv, NEW c \in Calls,
         \/ \E preferred \in Models \cup {"none"} : StartStream(c, preferred)
         \/ CheckBreaker(c) \/ CheckBreakerThrows(c) \/ ModelCompletes(c)
         \/ Track(c) \/ TrackThrows(c)
  PROVE  LlmIInv'
<1>0. IsCall(stream[c]) /\ now' = now /\ breaker' = breaker /\ failures' = failures
  BY DEF LlmIInv, LlmShapeInv, StartStream, CheckBreaker, CheckBreakerThrows, ModelCompletes, Track, TrackThrows
<1>1. ASSUME NEW s, IsCall(s), s.pc \notin {"failure", "saveSuccess", "saveFailure"},
             stream' = [stream EXCEPT ![c] = s]
      PROVE  LlmIInv'
  BY <1>0, <1>1, PlainStep
<1>2. ASSUME NEW p \in {"stream", "thrown", "done"}, stream' = [stream EXCEPT ![c].pc = p]
      PROVE  LlmIInv'
  BY <1>0, <1>1, <1>2, CallFields
<1>3. ASSUME NEW preferred, StartStream(c, preferred) PROVE LlmIInv'
  <2>1. \A q : IsCall(Call("check", q)) /\ Call("check", q).pc = "check"
    BY DEF Call, IsCall
  <2> QED
    BY <1>1, <1>3, <2>1 DEF StartStream
<1>4. CASE CheckBreaker(c)
  <2>1. CASE stream' = [stream EXCEPT ![c].rest = Tail(stream[c].rest)]
    <3> DEFINE s == [stream[c] EXCEPT !.rest = Tail(stream[c].rest)]
    <3>1. IsCall(s) /\ s.pc = "check"
      BY <1>0, <1>4, CallFields DEF CheckBreaker
    <3>2. stream' = [stream EXCEPT ![c] = s]
      BY <2>1
    <3> HIDE DEF s
    <3> QED
      BY <1>1, <3>1, <3>2
  <2> QED
    BY <1>2, <1>4, <2>1 DEF CheckBreaker
<1>5. CASE CheckBreakerThrows(c) \/ Track(c) \/ TrackThrows(c)
  BY <1>2, <1>5 DEF CheckBreakerThrows, Track, TrackThrows, LlmStep
<1>6. CASE ModelCompletes(c)
  <2>1. PICK part : Yield(c, part, "success")
    BY <1>6 DEF ModelCompletes
  <2> DEFINE answers == Append(stream[c].answers, [model |-> Model(c), part |-> part])
  <2>2. stream' = [stream EXCEPT ![c].pc = "success", ![c].answers = answers]
    BY <2>1 DEF Yield
  <2> HIDE DEF answers
  <2> DEFINE s == [stream[c] EXCEPT !.pc = "success", !.answers = answers]
  <2>3. IsCall(s) /\ s.pc = "success"
    BY <1>0 DEF IsCall
  <2>4. stream' = [stream EXCEPT ![c] = s]
    BY <2>2
  <2> HIDE DEF s
  <2> QED
    BY <1>1, <2>3, <2>4
<1> QED
  BY <1>3, <1>4, <1>5, <1>6

\* The call that fails adds one to the failures and to those still to be counted.
LEMMA ModelFailsSafe == ASSUME LlmIInv, NEW c \in Calls, ModelFails(c) PROVE LlmIInv'
<1> USE DEF LlmIInv
<1> DEFINE tried == Model(c)
<1>1. PICK s : /\ IsCall(s) /\ s.pc = "failure" /\ s.rest = stream[c].rest
               /\ stream' = [stream EXCEPT ![c] = s]
  <2>1. IsCall(stream[c])
    BY DEF LlmShapeInv
  <2>2. CASE LlmStep(c, "stream", "failure")
    <3> DEFINE s == [stream[c] EXCEPT !.pc = "failure"]
    <3>1. IsCall(s) /\ s.pc = "failure" /\ s.rest = stream[c].rest
      BY <2>1 DEF IsCall
    <3>2. stream' = [stream EXCEPT ![c] = s]
      BY <2>2 DEF LlmStep
    <3> QED
      BY <3>1, <3>2
  <2>3. CASE Yield(c, "some", "failure")
    <3> DEFINE answers == Append(stream[c].answers, [model |-> Model(c), part |-> "some"])
    <3>1. stream' = [stream EXCEPT ![c].pc = "failure", ![c].answers = answers]
      BY <2>3 DEF Yield
    <3> HIDE DEF answers
    <3> DEFINE s == [stream[c] EXCEPT !.pc = "failure", !.answers = answers]
    <3>2. IsCall(s) /\ s.pc = "failure" /\ s.rest = stream[c].rest
      BY <2>1 DEF IsCall
    <3>3. stream' = [stream EXCEPT ![c] = s]
      BY <3>1
    <3> QED
      BY <3>2, <3>3
  <2> QED
    BY <2>2, <2>3 DEF ModelFails
<1>2. /\ now' = now /\ breaker' = breaker /\ stream[c].pc = "stream"
      /\ failures' = [failures EXCEPT ![tried] = @ + 1]
  BY DEF ModelFails
<1>3. stream'[c] = s /\ \A d \in Calls \ {c} : stream'[d] = stream[d]
  BY <1>1, CallChanges
<1>4. ASSUME NEW m \in Models
      PROVE  /\ failures[m] \in Nat /\ failures'[m] \in Nat
             /\ Cardinality(Failing(m)) \in Nat /\ Cardinality(Failing(m)') \in Nat
             /\ failures[m] + Cardinality(Failing(m)') = failures'[m] + Cardinality(Failing(m))
  <2>1. failures[m] \in Nat /\ failures'[m] = IF m = tried THEN failures[m] + 1 ELSE failures[m]
    BY <1>2 DEF LlmShapeInv
  <2>2. Cardinality(Failing(m)) \in Nat /\ Cardinality(Failing(m)') \in Nat
    BY <1>3, FailingChanges
  <2>3. c \notin Failing(m) /\ (c \in Failing(m)' <=> m = tried)
    BY <1>1, <1>2, <1>3 DEF Failing, Model
  <2>4. Cardinality(Failing(m)') = IF m = tried THEN Cardinality(Failing(m)) + 1 ELSE Cardinality(Failing(m))
    BY <1>3, <2>3, FailingChanges
  <2> QED
    BY <2>1, <2>2, <2>4
<1>5. ASSUME NEW m \in Models PROVE Tripped(breaker[m])' /\ Covered(m, breaker[m])'
  <2>1. breaker[m].failureCount \in Nat /\ Tripped(breaker[m]) /\ Covered(m, breaker[m])
    BY DEF LlmShapeInv, States, CopyInv, CountInv
  <2> QED
    BY <1>2, <1>4, <2>1 DEF Covered, Tripped
<1>6. failures' \in [Models -> Nat]
  <2>1. DOMAIN failures' = Models /\ failures' = [m \in Models |-> failures'[m]]
    BY <1>2 DEF LlmShapeInv
  <2> QED
    BY <1>4, <2>1
<1> HIDE DEF tried
<1>7. \A m \in Models : failures[m] + Cardinality(Failing(m)') =< failures'[m] + Cardinality(Failing(m))
  BY <1>4
<1> QED
  BY <1>1, <1>2, <1>5, <1>6, <1>7, OthersKeep DEF LlmShapeInv, SavesWell

\* The copy of a failing call counts its failure.
LEMMA LoadStateSafe ==
  ASSUME LlmIInv, NEW c \in Calls, LoadState(c) \/ LoadStateThrows(c) PROVE LlmIInv'
<1> USE DEF LlmIInv
<1> DEFINE used == Model(c)
<1>0. IsCall(stream[c]) /\ now' = now /\ breaker' = breaker /\ failures' = failures
  BY DEF LlmShapeInv, LoadState, LoadStateThrows
<1>1. PICK s :
        /\ IsCall(s) /\ s.rest = stream[c].rest /\ stream' = [stream EXCEPT ![c] = s]
        /\ stream[c].pc = "success" => s.pc = "saveSuccess" /\ s.copy = Create
        /\ stream[c].pc = "failure" =>
             s.pc = "saveFailure" /\ s.copy \in {RecordFailure(breaker[used]), RecordFailure(Create)}
  <2>2. CASE stream[c].pc = "success"
    <3> DEFINE copy == Create
    <3>1. stream' = [stream EXCEPT ![c].pc = "saveSuccess", ![c].copy = copy]
      BY <2>2 DEF LoadState, LoadStateThrows, RecordSuccess
    <3> HIDE DEF copy
    <3> DEFINE s == [stream[c] EXCEPT !.pc = "saveSuccess", !.copy = copy]
    <3>2. IsCall(s) /\ s.rest = stream[c].rest /\ s.pc = "saveSuccess" /\ s.copy = copy
      BY <1>0 DEF IsCall
    <3>3. stream' = [stream EXCEPT ![c] = s]
      BY <3>1
    <3> HIDE DEF s
    <3> QED
      BY <2>2, <3>2, <3>3 DEF copy
  <2>3. CASE stream[c].pc = "failure"
    <3>1. PICK copy \in {RecordFailure(breaker[used]), RecordFailure(Create)} :
            stream' = [stream EXCEPT ![c].pc = "saveFailure", ![c].copy = copy]
      BY <2>3 DEF LoadState, LoadStateThrows
    <3> DEFINE s == [stream[c] EXCEPT !.pc = "saveFailure", !.copy = copy]
    <3>2. IsCall(s) /\ s.rest = stream[c].rest /\ s.pc = "saveFailure" /\ s.copy = copy
      BY <1>0 DEF IsCall
    <3>3. stream' = [stream EXCEPT ![c] = s]
      BY <3>1
    <3> HIDE DEF s
    <3> QED
      BY <2>3, <3>2, <3>3
  <2> QED
    BY <2>2, <2>3 DEF LoadState, LoadStateThrows
<1>2. stream' = [stream EXCEPT ![c] = s] /\ stream[c].pc \in {"success", "failure"}
  BY <1>1 DEF LoadState, LoadStateThrows
<1>3. stream'[c] = s /\ \A d \in Calls \ {c} : stream'[d] = stream[d]
  BY <1>1, <1>2, CallChanges
<1>4. ASSUME NEW m \in Models
      PROVE  /\ failures[m] \in Nat /\ breaker[m] \in States /\ breaker[m].failureCount \in Nat
             /\ Cardinality(Failing(m)) \in Nat /\ Cardinality(Failing(m)') \in Nat
             /\ Tripped(breaker[m]) /\ Covered(m, breaker[m])
             /\ Cardinality(Failing(m)') =< Cardinality(Failing(m))
             /\ (stream[c].pc = "failure" /\ used = m) =>
                  Cardinality(Failing(m)') = Cardinality(Failing(m)) - 1
  <2>1. failures[m] \in Nat /\ breaker[m] \in States /\ breaker[m].failureCount \in Nat
    BY DEF LlmShapeInv, States
  <2>2. c \notin Failing(m)' /\ (stream[c].pc = "failure" /\ used = m => c \in Failing(m))
    BY <1>1, <1>2, <1>3 DEF Failing
  <2>3. Cardinality(Failing(m)) \in Nat /\ Cardinality(Failing(m)') \in Nat
    BY <1>3, FailingChanges
  <2>4. Cardinality(Failing(m)') =< Cardinality(Failing(m))
    BY <1>3, <2>2, <2>3, FailingChanges
  <2>5. (stream[c].pc = "failure" /\ used = m) => Cardinality(Failing(m)') = Cardinality(Failing(m)) - 1
    BY <1>3, <2>2, FailingChanges
  <2> QED
    BY <2>1, <2>3, <2>4, <2>5 DEF CopyInv, CountInv
<1>5. SavesWell(s)
  <2>1. CASE stream[c].pc = "success"
    BY <1>1, <2>1, CreateIsState DEF SavesWell
  <2>2. CASE stream[c].pc = "failure" /\ used \in Models
    <3>1. PICK b \in States : s.copy = RecordFailure(b) /\ Tripped(b)
      BY <1>1, <1>4, <2>2, CreateIsState
    <3>2. RecordFailure(b) \in States /\ Tripped(RecordFailure(b)) /\ RecordFailure(b).failureCount > 0
      <4>1. now \in Nat /\ b.failureCount \in Nat
        BY DEF LlmShapeInv, States
      <4> QED
        BY <3>1, <4>1, RecordFailureCounts
    <3> QED
      BY <1>1, <2>2, <3>1, <3>2 DEF SavesWell
  <2>3. CASE stream[c].pc = "failure" /\ used \notin Models
    BY <1>1, <2>3 DEF SavesWell, Model
  <2> QED
    BY <1>2, <2>1, <2>2, <2>3
<1>6. ASSUME NEW m \in Models PROVE Tripped(breaker[m])' /\ Covered(m, breaker[m])'
  BY <1>0, <1>4 DEF Covered, Tripped
<1>7. ASSUME NEW m \in Models, s.pc = "saveFailure", Head(s.rest) = m PROVE Covered(m, s.copy)'
  <2>1. stream[c].pc = "failure" /\ used = m
    BY <1>1, <1>2, <1>7 DEF Model
  <2>2. s.copy.failureCount \in Nat /\ s.copy.failureCount =< breaker[m].failureCount + 1
    <3>1. /\ RecordFailure(breaker[m]).failureCount = breaker[m].failureCount + 1
          /\ RecordFailure(Create).failureCount = 1
      BY <1>4, CreateIsState, RecordFailureCounts DEF LlmShapeInv
    <3> QED
      BY <1>1, <1>4, <2>1, <3>1
  <2>3. /\ failures[m] \in Nat /\ breaker[m].failureCount \in Nat
        /\ Cardinality(Failing(m)) \in Nat /\ Cardinality(Failing(m)') = Cardinality(Failing(m)) - 1
        /\ failures[m] >= breaker[m].failureCount + Cardinality(Failing(m))
    BY <1>4, <2>1 DEF Covered
  <2>4. failures[m] >= s.copy.failureCount + Cardinality(Failing(m)')
    BY <2>2, <2>3
  <2> QED
    BY <1>0, <2>4 DEF Covered
<1>8. ASSUME NEW m \in Models
      PROVE  failures[m] + Cardinality(Failing(m)') =< failures'[m] + Cardinality(Failing(m))
  BY <1>0, <1>4
<1> QED
  BY <1>0, <1>1, <1>2, <1>5, <1>6, <1>7, <1>8, OthersKeep DEF LlmShapeInv

\* A save replaces the breaker by a covered copy, and forgets the failures only
\* where none is on its way.
LEMMA SaveSafe ==
  ASSUME LlmIInv, NEW c \in Calls, NEW s, IsCall(s), stream' = [stream EXCEPT ![c] = s],
         Saving(c), s.pc \in {"check", "track", "thrown"},
         breaker' \in {breaker, [breaker EXCEPT ![Model(c)] = stream[c].copy]},
         \/ failures' = failures
         \/ /\ NoneRecording(Model(c)) /\ failures' = [failures EXCEPT ![Model(c)] = 0]
            /\ breaker' = [breaker EXCEPT ![Model(c)] = Create],
         now' = now
  PROVE  LlmIInv'
<1> USE DEF LlmIInv
<1> DEFINE used == Model(c)
<1>1. stream'[c] = s /\ \A d \in Calls \ {c} : stream'[d] = stream[d]
  BY CallChanges
<1>2. ASSUME NEW m \in Models
      PROVE  /\ failures[m] \in Nat /\ breaker[m] \in States /\ breaker[m].failureCount \in Nat
             /\ Cardinality(Failing(m)) \in Nat /\ Cardinality(Failing(m)') = Cardinality(Failing(m))
             /\ Tripped(breaker[m]) /\ Covered(m, breaker[m])
  <2>1. failures[m] \in Nat /\ breaker[m] \in States /\ breaker[m].failureCount \in Nat
    BY DEF LlmShapeInv, States
  <2>2. c \notin Failing(m)' /\ c \notin Failing(m)
    BY <1>1 DEF Failing, Saving
  <2> QED
    BY <1>1, <2>1, <2>2, FailingChanges DEF CopyInv, CountInv
<1>3. used \in Models => /\ stream[c].copy \in States /\ stream[c].copy.failureCount \in Nat
                         /\ Tripped(stream[c].copy) /\ Covered(used, stream[c].copy)
  <2>1. CASE stream[c].pc = "saveFailure"
    BY <2>1 DEF CopyInv, CountInv, Saving, States
  <2>2. CASE stream[c].pc = "saveSuccess"
    BY <1>2, <2>2, CreateIsState DEF CopyInv, Saving, States, Covered
  <2> QED
    BY <2>1, <2>2 DEF Saving
<1>4. ASSUME NEW m \in Models
      PROVE  /\ breaker'[m] \in States /\ Tripped(breaker'[m])
             /\ failures[m] >= breaker'[m].failureCount + Cardinality(Failing(m))
  <2>1. breaker'[m] = breaker[m] \/ (m = used /\ breaker'[m] = stream[c].copy)
    BY DEF LlmShapeInv
  <2> QED
    BY <1>2, <1>3, <2>1 DEF Covered
<1>5. ASSUME NEW m \in Models
      PROVE  \/ failures'[m] = failures[m]
             \/ m = used /\ NoneRecording(m) /\ failures'[m] = 0 /\ breaker'[m] = Create
  <2>1. CASE /\ NoneRecording(used) /\ failures' = [failures EXCEPT ![used] = 0]
             /\ breaker' = [breaker EXCEPT ![used] = Create]
    <3>1. m = used => failures'[m] = 0 /\ breaker'[m] = Create
      BY <2>1 DEF LlmShapeInv
    <3>2. m # used => failures'[m] = failures[m]
      BY <2>1 DEF LlmShapeInv
    <3> QED
      BY <2>1, <3>1, <3>2
  <2> QED
    BY <2>1
<1>6. ASSUME NEW m \in Models, NoneRecording(m) PROVE Cardinality(Failing(m)) = 0
  <2>1. Failing(m) = {}
    BY <1>6 DEF Failing, NoneRecording
  <2> QED
    BY <2>1, FS_EmptySet
<1>7. ASSUME NEW m \in Models PROVE Tripped(breaker[m])' /\ Covered(m, breaker[m])'
  BY <1>2, <1>4, <1>5, <1>6, CreateIsState DEF Covered, Tripped
<1>8. ASSUME NEW m \in Models
      PROVE  \/ failures[m] + Cardinality(Failing(m)') =< failures'[m] + Cardinality(Failing(m))
             \/ NoneRecording(m)
  BY <1>2, <1>5
<1>9. breaker' \in [Models -> States] /\ failures' \in [Models -> Nat]
  <2>1. /\ breaker' = [m \in Models |-> breaker'[m]] /\ failures' = [m \in Models |-> failures'[m]]
    BY DEF LlmShapeInv
  <2>2. \A m \in Models : breaker'[m] \in States /\ failures'[m] \in Nat
    BY <1>2, <1>4, <1>5
  <2> QED
    BY <2>1, <2>2
<1> QED
  BY <1>7, <1>8, <1>9, OthersKeep DEF LlmShapeInv, SavesWell

LEMMA SaveEndsSafe ==
  ASSUME LlmIInv, NEW c \in Calls,
         \/ SaveSuccess(c) \/ SaveFailure(c)
         \/ SaveThrows(c) /\ stream[c].pc = "saveFailure"
  PROVE  LlmIInv'
<1> USE DEF LlmIInv
<1>1. IsCall(stream[c]) /\ Saving(c) /\ now' = now
  BY DEF LlmShapeInv, Saving, SaveSuccess, SaveFailure, SaveThrows, LlmStep, SaveState
<1>2. PICK s : /\ IsCall(s) /\ stream' = [stream EXCEPT ![c] = s]
               /\ s.pc \in {"check", "track", "thrown"}
  <2>1. CASE SaveFailure(c)
    <3> DEFINE s == [stream[c] EXCEPT !.pc = "check", !.rest = Tail(stream[c].rest), !.copy = Create]
    <3>1. IsCall(s) /\ s.pc = "check"
      BY <1>1 DEF IsCall
    <3>2. stream' = [stream EXCEPT ![c] = s]
      BY <2>1 DEF SaveFailure
    <3> HIDE DEF s
    <3> QED
      BY <3>1, <3>2
  <2>2. ASSUME NEW p \in {"track", "thrown"}, stream' = [stream EXCEPT ![c].pc = p, ![c].copy = Create]
        PROVE  \E s : /\ IsCall(s) /\ stream' = [stream EXCEPT ![c] = s]
                      /\ s.pc \in {"check", "track", "thrown"}
    <3> DEFINE s == [stream[c] EXCEPT !.pc = p, !.copy = Create]
    <3>1. IsCall(s) /\ s.pc = p
      BY <1>1 DEF IsCall
    <3>2. stream' = [stream EXCEPT ![c] = s]
      BY <2>2
    <3> HIDE DEF s
    <3> QED
      BY <3>1, <3>2
  <2>3. CASE SaveSuccess(c)
    BY <2>2, <2>3 DEF SaveSuccess, LlmStep
  <2>4. CASE SaveThrows(c) /\ stream[c].pc = "saveFailure"
    <3>1. stream' = [stream EXCEPT ![c].pc = "thrown", ![c].copy = Create]
      BY <2>4 DEF SaveThrows
    <3> QED
      BY <2>2, <3>1
  <2> QED
    BY <2>1, <2>3, <2>4
<1>3. breaker' \in {breaker, [breaker EXCEPT ![Model(c)] = stream[c].copy]}
  BY DEF SaveSuccess, SaveFailure, SaveThrows, SaveState
<1>4. \/ failures' = failures
      \/ /\ NoneRecording(Model(c)) /\ failures' = [failures EXCEPT ![Model(c)] = 0]
         /\ breaker' = [breaker EXCEPT ![Model(c)] = Create]
  BY DEF SaveSuccess, SaveFailure, SaveThrows, SaveState
<1> QED
  BY <1>1, <1>2, <1>3, <1>4, SaveSafe

\* A rejected save of a success is one more failure of the model.
LEMMA SaveSuccessThrowsSafe ==
  ASSUME LlmIInv, NEW c \in Calls, SaveThrows(c), stream[c].pc = "saveSuccess"
  PROVE  LlmIInv'
<1> USE DEF LlmIInv
<1> DEFINE used == Model(c)
<1>1. PICK s : /\ IsCall(s) /\ s.pc = "failure" /\ s.rest = stream[c].rest
               /\ stream' = [stream EXCEPT ![c] = s]
  <2> DEFINE s == [stream[c] EXCEPT !.pc = "failure", !.copy = Create]
  <2>1. IsCall(s) /\ s.pc = "failure" /\ s.rest = stream[c].rest
    BY DEF IsCall, LlmShapeInv
  <2>2. stream' = [stream EXCEPT ![c] = s]
    BY DEF SaveThrows
  <2> QED
    BY <2>1, <2>2
<1>2. /\ now' = now /\ stream[c].copy = Create
      /\ breaker' \in {breaker, [breaker EXCEPT ![used] = Create]}
      /\ failures' = [failures EXCEPT ![used] = @ + 1]
  BY DEF SaveThrows, CopyInv
<1>3. stream'[c] = s /\ \A d \in Calls \ {c} : stream'[d] = stream[d]
  BY <1>1, CallChanges
<1>4. ASSUME NEW m \in Models
      PROVE  /\ failures[m] \in Nat /\ failures'[m] \in Nat
             /\ Cardinality(Failing(m)) \in Nat /\ Cardinality(Failing(m)') \in Nat
             /\ failures[m] + Cardinality(Failing(m)') = failures'[m] + Cardinality(Failing(m))
  <2>1. failures[m] \in Nat /\ failures'[m] = IF m = used THEN failures[m] + 1 ELSE failures[m]
    BY <1>2 DEF LlmShapeInv
  <2>2. Cardinality(Failing(m)) \in Nat /\ Cardinality(Failing(m)') \in Nat
    BY <1>3, FailingChanges
  <2>3. c \notin Failing(m) /\ (c \in Failing(m)' <=> m = used)
    BY <1>1, <1>3 DEF Failing, Model
  <2>4. Cardinality(Failing(m)') = IF m = used THEN Cardinality(Failing(m)) + 1 ELSE Cardinality(Failing(m))
    BY <1>3, <2>3, FailingChanges
  <2> QED
    BY <2>1, <2>2, <2>4
<1>5. ASSUME NEW m \in Models
      PROVE  /\ breaker'[m] \in States /\ Tripped(breaker'[m])
             /\ failures[m] >= breaker'[m].failureCount + Cardinality(Failing(m))
             /\ breaker'[m].failureCount \in Nat
  <2>1. /\ breaker[m] \in States /\ breaker[m].failureCount \in Nat /\ Tripped(breaker[m])
        /\ failures[m] >= breaker[m].failureCount + Cardinality(Failing(m))
    BY DEF LlmShapeInv, States, CopyInv, CountInv, Covered
  <2>2. breaker'[m] = breaker[m] \/ breaker'[m] = Create
    BY <1>2 DEF LlmShapeInv
  <2> QED
    BY <1>4, <2>1, <2>2, CreateIsState
<1>6. ASSUME NEW m \in Models PROVE Tripped(breaker[m])' /\ Covered(m, breaker[m])'
  BY <1>4, <1>5 DEF Covered, Tripped
<1>7. breaker' \in [Models -> States] /\ failures' \in [Models -> Nat]
  <2>1. /\ breaker' = [m \in Models |-> breaker'[m]] /\ failures' = [m \in Models |-> failures'[m]]
    BY <1>2 DEF LlmShapeInv
  <2> QED
    BY <1>4, <1>5, <2>1
<1> HIDE DEF used
<1>8. \A m \in Models : failures[m] + Cardinality(Failing(m)') =< failures'[m] + Cardinality(Failing(m))
  BY <1>4
<1> QED
  BY <1>1, <1>2, <1>6, <1>7, <1>8, OthersKeep DEF LlmShapeInv, SavesWell

LEMMA ExpireSafe == ASSUME LlmIInv, NEW k \in Models, ExpireBreaker(k) PROVE LlmIInv'
<1> USE DEF LlmIInv
<1>1. now' = now /\ stream' = stream /\ breaker' = [breaker EXCEPT ![k] = Create]
  BY DEF ExpireBreaker
<1>2. /\ failures' = [m \in Models |-> failures'[m]]
      /\ \A m \in Models :
           failures'[m] = failures[m] \/ (m = k /\ NoneRecording(m) /\ failures'[m] = 0)
  BY DEF ExpireBreaker, LlmShapeInv
<1>3. ASSUME NEW m \in Models PROVE breaker'[m] = breaker[m] \/ breaker'[m] = Create
  BY <1>1 DEF LlmShapeInv
<1>4. ASSUME NEW m \in Models
      PROVE  /\ failures[m] \in Nat /\ breaker[m].failureCount \in Nat
             /\ Cardinality(Failing(m)) \in Nat /\ Cardinality(Failing(m)') = Cardinality(Failing(m))
             /\ NoneRecording(m) => Cardinality(Failing(m)) = 0
  <2>1. NoneRecording(m) => Failing(m) = {}
    BY DEF NoneRecording, Failing
  <2>2. Failing(m)' = Failing(m)
    BY <1>1 DEF Failing, Model
  <2> QED
    BY <2>1, <2>2, FailingIsNat, FS_EmptySet DEF LlmShapeInv, States
<1>5. LlmShapeInv'
  <2>1. breaker' \in [Models -> States]
    BY <1>1, CreateIsState DEF LlmShapeInv
  <2>2. \A m \in Models : failures'[m] \in Nat
    BY <1>2, <1>4
  <2> QED
    BY <1>1, <1>2, <2>1, <2>2 DEF LlmShapeInv
<1>6. CopyInv'
  <2>1. \A m \in Models : Tripped(breaker'[m])
    BY <1>3, CreateIsState DEF CopyInv
  <2> QED
    BY <1>1, <2>1 DEF CopyInv, Tripped, Saving, Model
<1>7. ASSUME NEW m \in Models PROVE Covered(m, breaker[m])'
  <2>1. Covered(m, breaker[m]) /\ breaker'[k] = Create
    BY <1>1 DEF CountInv, LlmShapeInv
  <2> QED
    BY <1>2, <1>3, <1>4, <2>1, CreateIsState DEF Covered
<1>8. ASSUME NEW m \in Models, NEW c \in Calls, stream[c].pc = "saveFailure", Model(c) = m
      PROVE  Covered(m, stream[c].copy)'
  <2>1. ~NoneRecording(m) /\ Covered(m, stream[c].copy)
    BY <1>8 DEF NoneRecording, CountInv
  <2> QED
    BY <1>1, <1>2, <1>4, <2>1 DEF Covered
<1>9. CountInv'
  BY <1>1, <1>7, <1>8 DEF CountInv, Model
<1> QED
  BY <1>5, <1>6, <1>9

\* The clock and a stutter change nothing that the invariant speaks of.
LEMMA ClockSafe == ASSUME LlmIInv, LlmTick \/ UNCHANGED llmVars PROVE LlmIInv'
<1>1. /\ stream' = stream /\ breaker' = breaker /\ failures' = failures
      /\ now' = now \/ now' = now + 1
  BY DEF LlmTick, llmVars
<1>2. LlmShapeInv'
  BY <1>1 DEF LlmIInv, LlmShapeInv
<1>3. CopyInv'
  BY <1>1 DEF LlmIInv, CopyInv, Tripped, Saving, Model
<1>4. CountInv'
  BY <1>1 DEF LlmIInv, CountInv, Covered, Failing, Model
<1> QED
  BY <1>2, <1>3, <1>4 DEF LlmIInv

-----------------------------------------------------------------------------
LEMMA LlmIInvStep == LlmIInv /\ [LlmNext]_llmVars => LlmIInv'
<1> SUFFICES ASSUME LlmIInv, [LlmNext]_llmVars PROVE LlmIInv'
  OBVIOUS
<1>1. CASE LlmTick \/ UNCHANGED llmVars
  BY <1>1, ClockSafe
<1>2. ASSUME NEW c \in Calls,
             \/ \E preferred \in Models \cup {"none"} : StartStream(c, preferred)
             \/ CheckBreaker(c) \/ CheckBreakerThrows(c) \/ ModelCompletes(c)
             \/ Track(c) \/ TrackThrows(c)
      PROVE  LlmIInv'
  BY <1>2, QuietSafe
<1>3. ASSUME NEW c \in Calls, ModelFails(c) PROVE LlmIInv'
  BY <1>3, ModelFailsSafe
<1>4. ASSUME NEW c \in Calls, LoadState(c) \/ LoadStateThrows(c) PROVE LlmIInv'
  BY <1>4, LoadStateSafe
<1>5. ASSUME NEW c \in Calls, SaveSuccess(c) \/ SaveFailure(c) PROVE LlmIInv'
  BY <1>5, SaveEndsSafe
<1>6. ASSUME NEW c \in Calls, SaveThrows(c) PROVE LlmIInv'
  <2>1. stream[c].pc \in {"saveSuccess", "saveFailure"}
    BY <1>6 DEF SaveThrows
  <2> QED
    BY <1>6, <2>1, SaveEndsSafe, SaveSuccessThrowsSafe
<1>7. ASSUME NEW m \in Models, ExpireBreaker(m) PROVE LlmIInv'
  BY <1>7, ExpireSafe
<1> QED
  BY <1>1, <1>2, <1>3, <1>4, <1>5, <1>6, <1>7 DEF LlmNext

LEMMA IInvGivesBreaker == LlmIInv => BreakerOpensAfterFailures
<1> SUFFICES ASSUME LlmIInv, NEW m \in Models, breaker[m].status = "open"
             PROVE  failures[m] >= FailureThreshold
  BY DEF BreakerOpensAfterFailures
<1>1. /\ failures[m] \in Nat /\ breaker[m].failureCount \in Nat /\ FailureThreshold \in Nat
      /\ Cardinality(Failing(m)) \in Nat
  BY FailingIsNat, LlmAssumption DEF LlmIInv, LlmShapeInv, States
<1>2. /\ breaker[m].failureCount >= FailureThreshold
      /\ failures[m] >= breaker[m].failureCount + Cardinality(Failing(m))
  BY DEF LlmIInv, CopyInv, CountInv, Tripped, Covered
<1> QED
  BY <1>1, <1>2

\* However the copies of concurrent calls overwrite each other, whatever fails,
\* is rejected or expires: a breaker of CircuitBreaker is open only after
\* FAILURE_THRESHOLD failures of its model.
THEOREM BreakerIsDeserved == LlmSpec => []BreakerOpensAfterFailures
<1>1. LlmInit => LlmIInv
  BY LlmInitIInv
<1>2. LlmIInv /\ [LlmNext]_llmVars => LlmIInv'
  BY LlmIInvStep
<1> QED
  BY <1>1, <1>2, IInvGivesBreaker, PTL DEF LlmSpec

-----------------------------------------------------------------------------
(***************************************************************************)
(* What the caller of the generator has when it returns.                   *)
(***************************************************************************)
\* The answer of the model that the call is at is complete.
Complete(s) == s.pc \in {"success", "saveSuccess", "track", "done"}

\* Up to the n-th, answers are fragments, unless a save was rejected.
Fragments(a, n, faults) == \A i \in 1..n : a[i].part # "some" => faults > 0

IsAnswers(a) == \E S : a \in Seq(S)

CallRight(s, faults) ==
  /\ IsCall(s) /\ IsAnswers(s.answers)
  /\ Fragments(s.answers, Len(s.answers) - 1, faults)
  /\ IF Complete(s) THEN s.answers # <<>> /\ Last(s.answers).part # "some"
                    ELSE Fragments(s.answers, Len(s.answers), faults)

\* A call is logged at its end, with the model of its last answer.
LogRight ==
  \A e \in costLog, c \in Calls :
    e.call = c =>
      /\ stream[c].pc = "done"
      /\ Last(stream[c].answers).part = "all" =>
           /\ e.model = Last(stream[c].answers).model
           /\ e.fallbackUsed <=> e.model # stream[c].first

\* The invariant that the steps keep.
AnswerInv ==
  /\ callFaults \in Nat /\ stream = [c \in Calls |-> stream[c]]
  /\ \A c \in Calls : CallRight(stream[c], callFaults)
  /\ LogRight

LEMMA InitAnswerInv == LlmInit => AnswerInv
<1> SUFFICES ASSUME LlmInit PROVE AnswerInv
  OBVIOUS
<1> USE DEF LlmInit, Call
<1>1. \A c \in Calls : stream[c].pc = "idle" /\ stream[c].answers = <<>> /\ IsCall(stream[c])
  BY DEF IsCall
<1>2. IsAnswers(<<>>) /\ Len(<<>>) = 0
  <2>1. <<>> \in Seq({}) /\ Len(<<>>) = 0
    OBVIOUS
  <2> QED
    BY <2>1, Zenon DEF IsAnswers
<1>3. \A c \in Calls : CallRight(stream[c], callFaults)
  BY <1>1, <1>2 DEF CallRight, Complete, Fragments
<1> QED
  BY <1>3 DEF AnswerInv, LogRight

\* A step of one call, which has not ended, that leaves the log.
LEMMA CallAnswers ==
  ASSUME AnswerInv, NEW c \in Calls, NEW s, stream' = [stream EXCEPT ![c] = s],
         CallRight(s, callFaults'), callFaults' \in Nat, callFaults' >= callFaults,
         stream[c].pc # "done", costLog' = costLog
  PROVE  AnswerInv'
<1>1. /\ stream' = [d \in Calls |-> stream'[d]] /\ stream'[c] = s
      /\ \A d \in Calls \ {c} : stream'[d] = stream[d]
  BY DEF AnswerInv
<1>2. ASSUME NEW d \in Calls PROVE CallRight(stream'[d], callFaults')
  <2>1. CASE d = c
    BY <1>1, <2>1
  <2>2. CASE d # c
    <3>1. CallRight(stream[d], callFaults) /\ stream'[d] = stream[d] /\ callFaults \in Nat
      BY <1>1, <2>2 DEF AnswerInv
    <3> QED
      BY <3>1 DEF CallRight, Fragments, Complete
  <2> QED
    BY <2>1, <2>2
<1>3. LogRight'
  BY <1>1 DEF AnswerInv, LogRight
<1> QED
  BY <1>1, <1>2, <1>3 DEF AnswerInv

\* A call keeps its answers and changes whether the last is its model's complete one
\* or, as each of them, a fragment.
LEMMA AnswersStay ==
  ASSUME AnswerInv, NEW c \in Calls, NEW s, stream' = [stream EXCEPT ![c] = s],
         IsCall(s), s.answers = stream[c].answers,
         \/ Complete(s) = Complete(stream[c]) \/ callFaults' > 0,
         Complete(s) => Complete(stream[c]),
         callFaults' \in {callFaults, callFaults + 1},
         stream[c].pc # "done", costLog' = costLog
  PROVE  AnswerInv'
<1>1. CallRight(stream[c], callFaults) /\ callFaults \in Nat
  BY DEF AnswerInv
<1>2. CallRight(s, callFaults')
  BY <1>1 DEF CallRight, Fragments, Complete
<1>3. callFaults' \in Nat /\ callFaults' >= callFaults
  BY <1>1
<1> QED
  BY <1>2, <1>3, CallAnswers, Zenon

\* The model sends an answer, whole or in part.
LEMMA YieldAnswers ==
  ASSUME AnswerInv, NEW c \in Calls, stream[c].pc = "stream", UNCHANGED <<costLog, callFaults>>,
         \/ \E part \in {"all", "empty"} : Yield(c, part, "success")
         \/ Yield(c, "some", "failure")
  PROVE  AnswerInv'
<1>1. PICK part \in {"all", "empty", "some"}, pc \in {"success", "failure"} :
        Yield(c, part, pc) /\ (pc = "success" <=> part # "some")
  OBVIOUS
<1> DEFINE a == stream[c].answers
           answer == [model |-> Model(c), part |-> part]
           s == [stream[c] EXCEPT !.pc = pc, !.answers = Append(a, answer)]
<1>2. IsCall(stream[c]) /\ ~Complete(stream[c]) /\ Fragments(a, Len(a), callFaults) /\ callFaults \in Nat
  BY DEF AnswerInv, CallRight, Complete
<1>3. PICK S : a \in Seq(S)
  BY DEF AnswerInv, CallRight, IsAnswers
<1>4. answer.part = part
  OBVIOUS
<1> HIDE DEF answer, a
<1>5. /\ Append(a, answer) \in Seq(S \cup {answer}) /\ Len(Append(a, answer)) = Len(a) + 1
      /\ \A i \in 1..Len(a) : Append(a, answer)[i] = a[i]
      /\ Append(a, answer)[Len(a) + 1] = answer /\ Len(a) \in Nat
  <2>1. a \in Seq(S \cup {answer}) /\ answer \in S \cup {answer}
    BY <1>3
  <2> QED
    BY <2>1
<1>6. stream' = [stream EXCEPT ![c] = s]
  BY <1>1 DEF Yield, AnswerInv, answer, a
<1>7. IsCall(s) /\ s.pc = pc /\ s.answers = Append(a, answer)
  BY <1>2 DEF IsCall
<1>8. /\ Fragments(s.answers, Len(a), callFaults')
      /\ part = "some" => Fragments(s.answers, Len(a) + 1, callFaults')
  BY <1>2, <1>4, <1>5, <1>7 DEF Fragments
<1>9. Append(a, answer) # <<>> /\ Last(Append(a, answer)) = answer
  BY <1>5 DEF Last
<1>10. CallRight(s, callFaults')
  <2>1. Complete(s) <=> part # "some"
    BY <1>1, <1>7 DEF Complete
  <2>2. IsAnswers(s.answers)
    BY <1>5, <1>7, Zenon DEF IsAnswers
  <2>3. Len(s.answers) = Len(a) + 1 /\ Len(s.answers) - 1 = Len(a)
    BY <1>5, <1>7
  <2> HIDE DEF s
  <2> QED
    BY <1>4, <1>7, <1>8, <1>9, <2>1, <2>2, <2>3 DEF CallRight, Complete
<1>11. callFaults' \in Nat /\ callFaults' >= callFaults /\ stream[c].pc # "done"
  BY <1>2
<1> HIDE DEF s
<1> QED
  BY <1>6, <1>10, <1>11, CallAnswers, Zenon

\* The end of the chain, the breaker and its saves touch no answer; a complete answer
\* is abandoned after a fault only.
LEMMA QuietAnswers ==
  ASSUME AnswerInv, NEW c \in Calls,
         CheckBreaker(c) \/ CheckBreakerThrows(c) \/ LoadState(c) \/ LoadStateThrows(c) \/ SaveSuccess(c)
         \/ SaveFailure(c) \/ SaveThrows(c) \/ TrackThrows(c)
         \/ (ModelFails(c) /\ LlmStep(c, "stream", "failure"))
  PROVE  AnswerInv'
<1> DEFINE Moves(s, pc) == /\ stream' = [stream EXCEPT ![c] = s] /\ IsCall(s)
                           /\ s.answers = stream[c].answers /\ s.pc = pc
<1>1. IsCall(stream[c]) /\ callFaults \in Nat
  BY DEF AnswerInv, CallRight
<1>2. ASSUME NEW pc, stream' = [stream EXCEPT ![c].pc = pc] PROVE \E s : Moves(s, pc)
  <2> DEFINE s == [stream[c] EXCEPT !.pc = pc]
  <2>1. stream' = [stream EXCEPT ![c] = s] /\ IsCall(s) /\ s.answers = stream[c].answers /\ s.pc = pc
    BY <1>1, <1>2 DEF IsCall
  <2> QED
    BY <2>1, Zenon
<1>3. ASSUME NEW pc, NEW copy, stream' = [stream EXCEPT ![c].pc = pc, ![c].copy = copy]
      PROVE  \E s : Moves(s, pc)
  <2> DEFINE s == [stream[c] EXCEPT !.pc = pc, !.copy = copy]
  <2>1. stream' = [stream EXCEPT ![c] = s] /\ IsCall(s) /\ s.answers = stream[c].answers /\ s.pc = pc
    BY <1>1, <1>3 DEF IsCall
  <2> QED
    BY <2>1, Zenon
<1>4. ASSUME CheckBreaker(c) PROVE \E to \in {"check", "stream", "thrown"} : \E s : Moves(s, to)
  <2>1. CASE stream' = [stream EXCEPT ![c].rest = Tail(stream[c].rest)]
    <3> DEFINE s == [stream[c] EXCEPT !.rest = Tail(stream[c].rest)]
    <3>1. stream' = [stream EXCEPT ![c] = s]
      BY <2>1
    <3>2. IsCall(s) /\ s.answers = stream[c].answers /\ s.pc = "check"
      BY <1>1, <1>4 DEF IsCall, CheckBreaker
    <3> QED
      BY <3>1, <3>2, Zenon
  <2> QED
    BY <1>2, <1>4, <2>1 DEF CheckBreaker
<1>5. CASE CheckBreaker(c)
  <2>1. PICK to \in {"check", "stream", "thrown"} : \E s : Moves(s, to)
    BY <1>4, <1>5
  <2>2. PICK s : Moves(s, to)
    BY <2>1
  <2>3. Complete(s) = Complete(stream[c]) /\ stream[c].pc # "done" /\ UNCHANGED <<costLog, callFaults>>
    BY <1>5, <2>2 DEF Complete, CheckBreaker
  <2> QED
    BY <2>2, <2>3, AnswersStay
<1>6. CASE CheckBreakerThrows(c) \/ TrackThrows(c) \/ (ModelFails(c) /\ LlmStep(c, "stream", "failure"))
  <2>1. PICK from \in {"check", "track", "stream"}, to \in {"stream", "done", "failure"} :
          LlmStep(c, from, to) /\ (from = "track" <=> to = "done")
    BY <1>6 DEF CheckBreakerThrows, TrackThrows
  <2>2. PICK s : Moves(s, to)
    BY <1>2, <2>1 DEF LlmStep
  <2>3. /\ Complete(s) = Complete(stream[c]) /\ stream[c].pc # "done" /\ costLog' = costLog
        /\ callFaults' \in {callFaults, callFaults + 1}
    BY <1>6, <2>1, <2>2 DEF Complete, LlmStep, CheckBreakerThrows, TrackThrows, CallFault, ModelFails
  <2> QED
    BY <2>2, <2>3, AnswersStay
<1>7. CASE LoadState(c) \/ LoadStateThrows(c)
  <2>1. /\ stream[c].pc \in {"success", "failure"} /\ costLog' = costLog
        /\ callFaults' \in {callFaults, callFaults + 1}
        /\ stream[c].pc = "success" =>
             stream' = [stream EXCEPT ![c].pc = "saveSuccess", ![c].copy = RecordSuccess]
        /\ stream[c].pc # "success" =>
             \E copy : stream' = [stream EXCEPT ![c].pc = "saveFailure", ![c].copy = copy]
    BY <1>7 DEF LoadState, LoadStateThrows, CallFault
  <2>2. CASE stream[c].pc = "success"
    <3>1. PICK s : Moves(s, "saveSuccess")
      BY <1>3, <2>1, <2>2
    <3>2. Complete(s) /\ Complete(stream[c])
      BY <2>2, <3>1 DEF Complete
    <3> QED
      BY <2>1, <2>2, <3>1, <3>2, AnswersStay
  <2>3. CASE stream[c].pc = "failure"
    <3>1. PICK s : Moves(s, "saveFailure")
      BY <1>3, <2>1, <2>3
    <3>2. ~Complete(s) /\ Complete(s) = Complete(stream[c])
      BY <2>3, <3>1 DEF Complete
    <3> QED
      BY <2>1, <2>3, <3>1, <3>2, AnswersStay
  <2> QED
    BY <2>1, <2>2, <2>3
<1>8. CASE SaveSuccess(c)
  <2>1. /\ stream' = [stream EXCEPT ![c].pc = "track", ![c].copy = Create]
        /\ stream[c].pc = "saveSuccess" /\ UNCHANGED <<costLog, callFaults>>
    BY <1>8 DEF SaveSuccess, SaveState
  <2>2. PICK s : Moves(s, "track")
    BY <1>3, <2>1
  <2>3. Complete(s) /\ Complete(stream[c])
    BY <2>1, <2>2 DEF Complete
  <2> QED
    BY <2>1, <2>2, <2>3, AnswersStay
<1>9. CASE SaveFailure(c)
  <2> DEFINE s == [stream[c] EXCEPT !.pc = "check", !.rest = Tail(stream[c].rest), !.copy = Create]
  <2>1. stream' = [stream EXCEPT ![c] = s] /\ stream[c].pc = "saveFailure"
        /\ UNCHANGED <<costLog, callFaults>>
    BY <1>9 DEF SaveFailure, SaveState
  <2>2. IsCall(s) /\ s.answers = stream[c].answers /\ s.pc = "check"
    BY <1>1 DEF IsCall
  <2> HIDE DEF s
  <2>3. ~Complete(s) /\ Complete(s) = Complete(stream[c])
    BY <2>1, <2>2 DEF Complete
  <2> QED
    BY <2>1, <2>2, <2>3, AnswersStay
<1>10. CASE SaveThrows(c)
  <2>1. PICK pc \in {"failure", "thrown"} :
          stream' = [stream EXCEPT ![c].pc = pc, ![c].copy = Create]
    BY <1>10 DEF SaveThrows
  <2>2. PICK s : Moves(s, pc)
    BY <1>3, <2>1
  <2>3. /\ stream[c].pc # "done" /\ callFaults' = callFaults + 1 /\ callFaults' > 0
        /\ costLog' = costLog /\ ~Complete(s)
    BY <1>1, <1>10, <2>2 DEF SaveThrows, CallFault, Complete
  <2> QED
    BY <2>2, <2>3, AnswersStay
<1> QED
  BY <1>5, <1>6, <1>7, <1>8, <1>9, <1>10

\* The last answer that is not empty is the last one, if that is all of a model's.
LEMMA UsedIsLast ==
  ASSUME NEW s, NEW S, s.answers \in Seq(S), s.answers # <<>>, Last(s.answers).part = "all"
  PROVE  UsedModel(s) = Last(s.answers).model
<1> DEFINE a == s.answers  sent == {i \in DOMAIN a : a[i].part # "empty"}
<1>1. Len(a) \in Nat \ {0} /\ DOMAIN a = 1..Len(a) /\ a[Len(a)].part = "all"
  BY DEF Last
<1>2. Len(a) \in sent /\ \A i \in sent : i \in Nat /\ Len(a) >= i
  BY <1>1
<1>3. Max(sent) = Len(a)
  BY <1>2 DEF Max
<1> QED
  BY <1>2, <1>3 DEF UsedModel, Last

LEMMA TrackAnswers == ASSUME AnswerInv, NEW c \in Calls, Track(c) PROVE AnswerInv'
<1> DEFINE call == stream[c]  used == UsedModel(call)
           entry == [call |-> c, model |-> used, fallbackUsed |-> used # call.first]
           s == [call EXCEPT !.pc = "done"]
<1>1. /\ stream' = [stream EXCEPT ![c] = s] /\ call.pc = "track"
      /\ costLog' = costLog \cup {entry} /\ callFaults' = callFaults
  BY DEF Track, LlmStep, AnswerInv
<1>2. CallRight(call, callFaults) /\ call.answers # <<>> /\ IsCall(call)
  BY <1>1 DEF AnswerInv, CallRight, Complete
<1>3. IsCall(s) /\ s.pc = "done" /\ s.answers = call.answers /\ s.first = call.first
  BY <1>2 DEF IsCall
<1>4. /\ stream' = [d \in Calls |-> stream'[d]] /\ stream'[c] = s
      /\ \A d \in Calls \ {c} : stream'[d] = stream[d]
  BY <1>1 DEF AnswerInv
<1> HIDE DEF s
<1>5. ASSUME NEW d \in Calls PROVE CallRight(stream'[d], callFaults')
  <2>1. CASE d = c
    BY <1>1, <1>2, <1>3, <1>4, <2>1 DEF CallRight, Fragments, Complete
  <2>2. CASE d # c
    <3>1. CallRight(stream[d], callFaults) /\ stream'[d] = stream[d]
      BY <1>4, <2>2 DEF AnswerInv
    <3> QED
      BY <1>1, <3>1 DEF CallRight, Fragments, Complete
  <2> QED
    BY <2>1, <2>2
<1>6. Last(call.answers).part = "all" => used = Last(call.answers).model
  BY <1>2, UsedIsLast DEF CallRight, IsAnswers
<1>7. LogRight'
  <2> SUFFICES ASSUME NEW e \in costLog', NEW d \in Calls, e.call = d
               PROVE  /\ stream'[d].pc = "done"
                      /\ Last(stream'[d].answers).part = "all" =>
                           /\ e.model = Last(stream'[d].answers).model
                           /\ e.fallbackUsed <=> e.model # stream'[d].first
    BY DEF LogRight
  <2>1. CASE e \in costLog
    <3>1. stream[d].pc = "done" /\ d # c
      BY <1>1, <2>1 DEF AnswerInv, LogRight
    <3> QED
      BY <1>4, <2>1, <3>1 DEF AnswerInv, LogRight
  <2>2. CASE e = entry
    <3> HIDE DEF used
    <3>1. d = c /\ e.model = used /\ (e.fallbackUsed <=> used # call.first)
      BY <2>2
    <3> QED
      BY <1>3, <1>4, <1>6, <3>1
  <2> QED
    BY <1>1, <2>1, <2>2
<1> QED
  BY <1>1, <1>4, <1>5, <1>7 DEF AnswerInv

LEMMA AnswerStep == AnswerInv /\ [LlmNext]_llmVars => AnswerInv'
<1> SUFFICES ASSUME AnswerInv, [LlmNext]_llmVars PROVE AnswerInv'
  OBVIOUS
<1>1. CASE LlmTick \/ (\E m \in Models : ExpireBreaker(m)) \/ UNCHANGED llmVars
  <2>1. UNCHANGED <<stream, costLog, callFaults>>
    BY <1>1 DEF LlmTick, ExpireBreaker, llmVars
  <2> QED
    BY <2>1 DEF AnswerInv, LogRight, CallRight, Fragments, Complete, IsCall
<1>2. ASSUME NEW c \in Calls, NEW preferred \in Models \cup {"none"}, StartStream(c, preferred)
      PROVE  AnswerInv'
  <2> DEFINE rest == ResolveChain(preferred)  s == Call("check", rest)
  <2>1. stream' = [stream EXCEPT ![c] = s] /\ UNCHANGED <<costLog, callFaults>> /\ stream[c].pc = "idle"
    BY <1>2 DEF StartStream
  <2> HIDE DEF rest
  <2>2. s.pc = "check" /\ s.answers = <<>> /\ IsCall(s)
    BY DEF Call, IsCall
  <2>3. <<>> \in Seq({}) /\ Len(<<>>) = 0
    OBVIOUS
  <2>4. IsAnswers(<<>>)
    BY <2>3, Zenon DEF IsAnswers
  <2>5. CallRight(s, callFaults')
    BY <2>2, <2>3, <2>4 DEF CallRight, Complete, Fragments
  <2> HIDE DEF s
  <2> QED
    BY <2>1, <2>5, CallAnswers DEF AnswerInv
<1>3. ASSUME NEW c \in Calls, ModelCompletes(c) PROVE AnswerInv'
  BY <1>3, YieldAnswers DEF ModelCompletes
<1>4. ASSUME NEW c \in Calls, ModelFails(c) PROVE AnswerInv'
  BY <1>4, YieldAnswers, QuietAnswers DEF ModelFails
<1>5. ASSUME NEW c \in Calls,
             CheckBreaker(c) \/ CheckBreakerThrows(c) \/ LoadState(c) \/ LoadStateThrows(c)
             \/ SaveSuccess(c) \/ SaveFailure(c) \/ SaveThrows(c) \/ TrackThrows(c)
      PROVE  AnswerInv'
  BY <1>5, QuietAnswers
<1>6. ASSUME NEW c \in Calls, Track(c) PROVE AnswerInv'
  BY <1>6, TrackAnswers
<1> QED
  BY <1>1, <1>2, <1>3, <1>4, <1>5, <1>6, Zenon DEF LlmNext

\* A call of LlmGatewayService.stream that ends normally has delivered a model's
\* complete answer last, after fragments only unless a save was rejected, and the
\* cost log names that model.
THEOREM AnswersEndWhole == LlmSpec => []AnswerEndsWhole
<1>1. AnswerInv => AnswerEndsWhole
  BY DEF AnswerInv, CallRight, Complete, Fragments, LogRight, AnswerEndsWhole
<1> QED
  BY <1>1, InitAnswerInv, AnswerStep, PTL DEF LlmSpec

-----------------------------------------------------------------------------
(***************************************************************************)
(* The types of the gateway: a call that streams or records is at a model, *)
(* and no breaker is opened ahead of the clock.                            *)
(***************************************************************************)
LlmPoints ==
  {"idle", "check", "stream", "success", "failure", "saveSuccess", "saveFailure",
   "track", "done", "thrown"}

AtModel == {"stream", "success", "failure", "saveSuccess", "saveFailure"}

CallTyped(s, time) ==
  /\ s.pc \in LlmPoints /\ s.rest \in Seq(Models)
  /\ s.pc \in AtModel => s.rest # <<>>
  /\ s.copy.openedAt \in 0..time

LlmTyped ==
  /\ now \in 1..MaxLlmTime
  /\ \A m \in Models : breaker[m].openedAt \in 0..now
  /\ \A c \in Calls : CallTyped(stream[c], now)

LEMMA LlmInitTyped == LlmInit => LlmTyped
<1> SUFFICES ASSUME LlmInit PROVE LlmTyped
  OBVIOUS
<1>1. Create.openedAt = 0
  BY DEF Create
<1> DEFINE s == Call("idle", <<>>)
<1>2. s.pc = "idle" /\ s.rest = <<>> /\ s.copy = Create
  BY DEF Call
<1>3. s.rest \in Seq(Models)
  <2>1. <<>> \in Seq(Models)
    OBVIOUS
  <2> QED
    BY <1>2, <2>1, Zenon
<1>4. "idle" \in LlmPoints /\ "idle" \notin AtModel
  BY DEF LlmPoints, AtModel
<1>5. stream = [c \in Calls |-> s] /\ breaker = [m \in Models |-> Create] /\ now = 1
  BY DEF LlmInit
<1> HIDE DEF s
<1>6. CallTyped(s, 1)
  BY <1>1, <1>2, <1>3, <1>4 DEF CallTyped
<1> QED
  BY <1>1, <1>5, <1>6, LlmAssumption DEF LlmTyped

\* A round of the filter.
Sieve(list, x, m) == IF x = m THEN list ELSE Append(list, x)

\* What the filter keeps is a chain of models.
LEMMA WithoutIsChain == ASSUME NEW chain \in Seq(Models), NEW m PROVE Without(chain, m) \in Seq(Models)
<1> DEFINE n == Len(chain)
           Lst == Seq(Models)
           step == [i \in 1..n |-> [t \in Lst |-> Sieve(t, chain[i], m)]]
<1>1. n \in Nat /\ <<>> \in Lst /\ \A i \in 1..n : chain[i] \in Models
  OBVIOUS
<1>2. step \in [1..n -> [Lst -> Lst]]
  <2>1. \A i \in 1..n : \A t \in Lst : Sieve(t, chain[i], m) \in Lst
    BY <1>1 DEF Sieve
  <2> QED
    BY <2>1
<1>3. PICK f \in [0..n -> Lst] : f[0] = <<>> /\ \A i \in 1..n : f[i] = step[i][f[i - 1]]
  <2>1. IsLoop(Lst, <<>>, n, step)
    BY <1>1, <1>2 DEF IsLoop
  <2> HIDE DEF step, Lst, n
  <2> QED
    BY <2>1, Rounds DEF HasHistory
<1>4. ASSUME NEW i \in 0..(n - 1) PROVE f[i + 1] = Sieve(f[i], chain[i + 1], m)
  <2>1. i + 1 \in 1..n /\ i + 1 - 1 = i /\ i \in 0..n
    BY <1>1
  <2>2. f[i] \in Lst
    BY <1>3, <2>1
  <2>3. f[i + 1] = step[i + 1][f[i]]
    <3> HIDE DEF step
    <3> QED
      BY <1>3, <2>1
  <2>4. step[i + 1] = [t \in Lst |-> Sieve(t, chain[i + 1], m)]
    BY <2>1
  <2> QED
    BY <2>2, <2>3, <2>4
<1> HIDE DEF step
<1>5. ASSUME NEW i \in 0..n PROVE f[i] = IF i = 0 THEN <<>> ELSE Sieve(f[i - 1], chain[i], m)
  <2>1. CASE i = 0
    BY <1>3, <2>1
  <2>2. CASE i # 0
    <3>1. i - 1 \in 0..(n - 1) /\ i - 1 + 1 = i
      BY <1>1, <2>2
    <3> QED
      BY <1>4, <2>2, <3>1
  <2> QED
    BY <2>1, <2>2
<1>6. f = [i \in 0..n |->
             IF i = 0 THEN <<>> ELSE IF chain[i] = m THEN f[i - 1] ELSE Append(f[i - 1], chain[i])]
  BY <1>3, <1>5 DEF Sieve
<1>7. PICK kept :
        /\ kept = [i \in 0..n |->
             IF i = 0 THEN <<>> ELSE IF chain[i] = m THEN kept[i - 1] ELSE Append(kept[i - 1], chain[i])]
        /\ Without(chain, m) = kept[n]
  BY <1>6 DEF Without
<1>8. \A i \in 0..n : kept[i] = IF i = 0 THEN <<>> ELSE Sieve(kept[i - 1], chain[i], m)
  BY <1>7, Zenon DEF Sieve
<1> DEFINE S == {i \in 0..n : kept[i] = f[i]}
<1>9. ASSUME NEW i \in 0..(n - 1), i \in S PROVE i + 1 \in S
  <2>1. i + 1 \in 0..n /\ i + 1 # 0 /\ i + 1 - 1 = i
    BY <1>1
  <2> QED
    BY <1>4, <1>8, <1>9, <2>1
<1>10. 0 \in S
  BY <1>1, <1>3, <1>8
<1> HIDE DEF S
<1>11. n \in S
  <2>1. \A k \in 0..n : k \in S
    BY <1>1, <1>9, <1>10, CountUp
  <2> QED
    BY <1>1, <2>1
<1>12. f[n] \in Lst
  BY <1>1, <1>3
<1> QED
  BY <1>7, <1>11, <1>12 DEF S

LEMMA ResolvesToChain ==
  ASSUME NEW preferred PROVE ResolveChain(preferred) \in Seq(Models)
<1>1. Chain \in Seq(Models)
  BY LlmAssumption
<1>2. CASE preferred \in Models
  <2>1. Without(Chain, preferred) \in Seq(Models)
    BY <1>1, WithoutIsChain
  <2>2. <<preferred>> \in Seq(Models)
    BY <1>2
  <2> QED
    BY <1>2, <2>1, <2>2 DEF ResolveChain
<1> QED
  BY <1>1, <1>2 DEF ResolveChain

LEMMA TypedStep ==
  ASSUME LlmIInv, LlmTyped, NEW c \in Calls, NEW s, IsCall(s), CallTyped(s, now),
         stream' = [stream EXCEPT ![c] = s], now' = now,
         \A m \in Models : breaker'[m].openedAt \in 0..now
  PROVE  LlmTyped'
<1>1. \A d \in Calls : CallTyped(stream'[d], now)
  BY CallChanges DEF LlmIInv, LlmTyped
<1> QED
  BY <1>1 DEF LlmTyped

\* A step that changes the point of a call only.
LEMMA PointTyped ==
  ASSUME LlmIInv, LlmTyped, NEW c \in Calls, NEW v \in LlmPoints,
         v \in AtModel => stream[c].rest # <<>>,
         stream' = [stream EXCEPT ![c].pc = v], now' = now, breaker' = breaker
  PROVE  LlmTyped'
<1> DEFINE s == [stream[c] EXCEPT !.pc = v]
<1>1. IsCall(stream[c]) /\ CallTyped(stream[c], now) /\ \A m \in Models : breaker[m].openedAt \in 0..now
  BY DEF LlmIInv, LlmShapeInv, LlmTyped
<1>2. IsCall(s) /\ s.pc = v /\ s.rest = stream[c].rest /\ s.copy = stream[c].copy
  BY <1>1 DEF IsCall
<1>3. stream' = [stream EXCEPT ![c] = s]
  OBVIOUS
<1> HIDE DEF s
<1>4. CallTyped(s, now)
  BY <1>1, <1>2 DEF CallTyped
<1> QED
  BY <1>1, <1>2, <1>3, <1>4, TypedStep

LEMMA CopyTyped ==
  ASSUME NEW b \in States, b.openedAt \in 0..now, now \in Nat
  PROVE  RecordFailure(b).openedAt \in 0..now
BY DEF RecordFailure, States

\* The steps of a call up to its answer.
LEMMA CallsTyped ==
  ASSUME LlmIInv, LlmTyped, NEW c \in Calls,
         \/ \E preferred \in Models \cup {"none"} : StartStream(c, preferred)
         \/ CheckBreaker(c) \/ CheckBreakerThrows(c) \/ ModelCompletes(c) \/ ModelFails(c)
         \/ Track(c) \/ TrackThrows(c)
  PROVE  LlmTyped'
<1>0. /\ IsCall(stream[c]) /\ CallTyped(stream[c], now) /\ now' = now /\ breaker' = breaker
      /\ \A m \in Models : breaker[m].openedAt \in 0..now
  BY DEF LlmIInv, LlmShapeInv, LlmTyped, StartStream, CheckBreaker, CheckBreakerThrows, ModelCompletes,
         ModelFails, Track, TrackThrows
<1>1. CASE \E preferred \in Models \cup {"none"} : StartStream(c, preferred)
  <2>1. PICK preferred : StartStream(c, preferred)
    BY <1>1
  <2> DEFINE s == Call("check", ResolveChain(preferred))
  <2>2. s.pc = "check" /\ s.rest = ResolveChain(preferred) /\ s.copy = Create /\ IsCall(s)
    BY DEF Call, IsCall
  <2>3. stream' = [stream EXCEPT ![c] = s]
    BY <2>1 DEF StartStream
  <2> HIDE DEF s
  <2>4. Create.openedAt \in 0..now
    BY DEF Create, LlmTyped
  <2>5. CallTyped(s, now)
    BY <2>2, <2>4, ResolvesToChain DEF CallTyped, LlmPoints, AtModel
  <2> QED
    BY <1>0, <2>2, <2>3, <2>5, TypedStep
<1>2. CASE CheckBreaker(c)
  <2>1. CASE stream[c].rest = <<>>
    <3>1. stream' = [stream EXCEPT ![c].pc = "thrown"]
      BY <1>2, <2>1 DEF CheckBreaker
    <3> QED
      BY <1>0, <3>1, PointTyped DEF LlmPoints, AtModel
  <2>2. CASE stream[c].rest # <<>> /\ CanCall(breaker[Model(c)])
    <3>1. stream' = [stream EXCEPT ![c].pc = "stream"]
      BY <1>2, <2>2 DEF CheckBreaker
    <3> QED
      BY <1>0, <2>2, <3>1, PointTyped DEF LlmPoints
  <2>3. CASE stream[c].rest # <<>> /\ ~CanCall(breaker[Model(c)])
    <3> DEFINE rest == Tail(stream[c].rest)
    <3>1. stream' = [stream EXCEPT ![c].rest = rest] /\ stream[c].pc = "check"
      BY <1>2, <2>3 DEF CheckBreaker
    <3>2. rest \in Seq(Models)
      BY <1>0, <2>3 DEF CallTyped
    <3> HIDE DEF rest
    <3> DEFINE s == [stream[c] EXCEPT !.rest = rest]
    <3>3. IsCall(s) /\ s.pc = "check" /\ s.rest = rest /\ s.copy = stream[c].copy
      BY <1>0, <3>1 DEF IsCall
    <3>4. stream' = [stream EXCEPT ![c] = s]
      BY <3>1
    <3> HIDE DEF s
    <3>5. CallTyped(s, now)
      BY <1>0, <3>2, <3>3 DEF CallTyped, LlmPoints, AtModel
    <3> QED
      BY <1>0, <3>3, <3>4, <3>5, TypedStep
  <2> QED
    BY <2>1, <2>2, <2>3
<1>3. CASE CheckBreakerThrows(c)
  <2>1. stream' = [stream EXCEPT ![c].pc = "stream"] /\ stream[c].rest # <<>>
    BY <1>3 DEF CheckBreakerThrows, LlmStep
  <2> QED
    BY <1>0, <2>1, PointTyped DEF LlmPoints
<1>4. CASE Track(c) \/ TrackThrows(c)
  <2>1. stream' = [stream EXCEPT ![c].pc = "done"]
    BY <1>4 DEF Track, TrackThrows, LlmStep
  <2> QED
    BY <1>0, <2>1, PointTyped DEF LlmPoints, AtModel
<1>5. ASSUME NEW part, NEW v \in {"success", "failure"}, Yield(c, part, v), stream[c].pc = "stream"
      PROVE  LlmTyped'
  <2> DEFINE answers == Append(stream[c].answers, [model |-> Model(c), part |-> part])
  <2>1. stream' = [stream EXCEPT ![c].pc = v, ![c].answers = answers]
    BY <1>5 DEF Yield
  <2> HIDE DEF answers
  <2> DEFINE s == [stream[c] EXCEPT !.pc = v, !.answers = answers]
  <2>2. IsCall(s) /\ s.pc = v /\ s.rest = stream[c].rest /\ s.copy = stream[c].copy
    BY <1>0 DEF IsCall
  <2>3. stream' = [stream EXCEPT ![c] = s]
    BY <2>1
  <2> HIDE DEF s
  <2>4. CallTyped(s, now)
    BY <1>0, <1>5, <2>2 DEF CallTyped, LlmPoints, AtModel
  <2> QED
    BY <1>0, <2>2, <2>3, <2>4, TypedStep
<1>6. CASE ModelCompletes(c)
  BY <1>5, <1>6 DEF ModelCompletes
<1>7. CASE ModelFails(c)
  <2>1. CASE LlmStep(c, "stream", "failure")
    <3>1. stream' = [stream EXCEPT ![c].pc = "failure"] /\ stream[c].pc = "stream"
      BY <2>1 DEF LlmStep
    <3>2. stream[c].rest # <<>>
      BY <1>0, <3>1 DEF CallTyped, AtModel
    <3> QED
      BY <1>0, <3>1, <3>2, PointTyped DEF LlmPoints
  <2> QED
    BY <1>5, <1>7, <2>1 DEF ModelFails
<1> QED
  BY <1>1, <1>2, <1>3, <1>4, <1>6, <1>7

\* The steps that load and save the breaker of a model.
LEMMA StatesTyped ==
  ASSUME LlmIInv, LlmTyped, NEW c \in Calls,
         LoadState(c) \/ LoadStateThrows(c) \/ SaveSuccess(c) \/ SaveFailure(c) \/ SaveThrows(c)
  PROVE  LlmTyped'
<1> DEFINE used == Model(c)
<1>0. /\ IsCall(stream[c]) /\ CallTyped(stream[c], now) /\ now' = now /\ now \in Nat
      /\ \A m \in Models : breaker[m] \in States /\ breaker[m].openedAt \in 0..now
      /\ breaker \in [Models -> States]
  BY DEF LlmIInv, LlmShapeInv, LlmTyped, LoadState, LoadStateThrows, SaveSuccess, SaveFailure, SaveThrows, SaveState
<1>1. stream[c].pc \in AtModel
  BY DEF LoadState, LoadStateThrows, SaveSuccess, SaveFailure, SaveThrows, AtModel
<1>2. stream[c].rest \in Seq(Models) /\ stream[c].rest # <<>>
  BY <1>0, <1>1 DEF CallTyped
<1>3. used \in Models /\ Tail(stream[c].rest) \in Seq(Models)
  BY <1>2 DEF Model
<1>4. Create.openedAt \in 0..now /\ stream[c].copy.openedAt \in 0..now
  BY <1>0 DEF Create, CallTyped
<1> HIDE DEF used
<1>5. ASSUME NEW v \in LlmPoints, NEW rest \in Seq(Models), v \in AtModel => rest # <<>>,
             NEW copy, copy.openedAt \in 0..now,
             NEW s, IsCall(s), s.pc = v, s.rest = rest, s.copy = copy, stream' = [stream EXCEPT ![c] = s]
      PROVE  LlmTyped'
  <2>1. CallTyped(s, now)
    BY <1>5 DEF CallTyped
  <2>2. ASSUME NEW m \in Models PROVE breaker'[m].openedAt \in 0..now
    <3>1. breaker' = breaker \/ breaker' = [breaker EXCEPT ![used] = stream[c].copy]
      BY DEF LoadState, LoadStateThrows, SaveSuccess, SaveFailure, SaveThrows, SaveState, used
    <3> QED
      BY <1>0, <1>3, <1>4, <3>1
  <2> QED
    BY <1>0, <1>5, <2>1, <2>2, TypedStep
<1>6. ASSUME NEW v \in LlmPoints, NEW copy, copy.openedAt \in 0..now,
             stream' = [stream EXCEPT ![c].pc = v, ![c].copy = copy]
      PROVE  LlmTyped'
  <2> DEFINE s == [stream[c] EXCEPT !.pc = v, !.copy = copy]
  <2>1. IsCall(s) /\ s.pc = v /\ s.rest = stream[c].rest /\ s.copy = copy
    BY <1>0 DEF IsCall
  <2>2. stream' = [stream EXCEPT ![c] = s]
    BY <1>6
  <2> HIDE DEF s
  <2> QED
    BY <1>2, <1>5, <1>6, <2>1, <2>2
<1>7. CASE LoadState(c) \/ LoadStateThrows(c)
  <2>1. PICK copy \in {RecordSuccess, RecordFailure(breaker[used]), RecordFailure(Create)} :
          \E v \in LlmPoints : stream' = [stream EXCEPT ![c].pc = v, ![c].copy = copy]
    BY <1>7 DEF LoadState, LoadStateThrows, LlmPoints, used
  <2>2. copy.openedAt \in 0..now
    BY <1>0, <1>3, <1>4, CopyTyped, CreateIsState DEF RecordSuccess
  <2> QED
    BY <1>6, <2>1, <2>2
<1>8. CASE SaveSuccess(c)
  <2> DEFINE copy == Create
  <2>1. stream' = [stream EXCEPT ![c].pc = "track", ![c].copy = copy] /\ copy.openedAt \in 0..now
    BY <1>4, <1>8 DEF SaveSuccess
  <2> HIDE DEF copy
  <2> QED
    BY <1>6, <2>1 DEF LlmPoints
<1>9. CASE SaveThrows(c)
  <2> DEFINE copy == Create
             v == IF stream[c].pc = "saveSuccess" THEN "failure" ELSE "thrown"
  <2>1. stream' = [stream EXCEPT ![c].pc = v, ![c].copy = copy] /\ copy.openedAt \in 0..now
    BY <1>4, <1>9 DEF SaveThrows
  <2>2. v \in LlmPoints
    BY DEF LlmPoints
  <2> HIDE DEF copy, v
  <2> QED
    BY <1>6, <2>1, <2>2
<1>10. CASE SaveFailure(c)
  <2> DEFINE copy == Create
             rest == Tail(stream[c].rest)
  <2>1. stream' = [stream EXCEPT ![c].pc = "check", ![c].rest = rest, ![c].copy = copy]
    BY <1>10 DEF SaveFailure
  <2>2. copy.openedAt \in 0..now /\ rest \in Seq(Models)
    BY <1>3, <1>4
  <2> HIDE DEF copy, rest
  <2> DEFINE s == [stream[c] EXCEPT !.pc = "check", !.rest = rest, !.copy = copy]
  <2>3. IsCall(s) /\ s.pc = "check" /\ s.rest = rest /\ s.copy = copy
    BY <1>0 DEF IsCall
  <2>4. stream' = [stream EXCEPT ![c] = s]
    BY <2>1
  <2>5. "check" \in LlmPoints /\ "check" \notin AtModel
    BY DEF LlmPoints, AtModel
  <2> HIDE DEF s
  <2> QED
    BY <1>5, <2>2, <2>3, <2>4, <2>5
<1> QED
  BY <1>7, <1>8, <1>9, <1>10

LEMMA LlmTypedStep == LlmIInv /\ LlmTyped /\ [LlmNext]_llmVars => LlmTyped'
<1> SUFFICES ASSUME LlmIInv, LlmTyped, [LlmNext]_llmVars PROVE LlmTyped'
  OBVIOUS
<1>1. CASE LlmTick
  <2>1. now \in 1..MaxLlmTime /\ MaxLlmTime \in Nat /\ now' = now + 1 /\ now < MaxLlmTime
    BY <1>1, LlmAssumption DEF LlmTick, LlmTyped
  <2>2. now' \in 1..MaxLlmTime /\ \A n \in 0..now : n \in 0..now'
    BY <2>1
  <2>3. breaker' = breaker /\ stream' = stream
    BY <1>1 DEF LlmTick
  <2>4. \A m \in Models : breaker'[m].openedAt \in 0..now'
    BY <2>2, <2>3 DEF LlmTyped
  <2>5. \A c \in Calls : CallTyped(stream'[c], now')
    BY <2>2, <2>3 DEF LlmTyped, CallTyped
  <2> QED
    BY <2>2, <2>4, <2>5 DEF LlmTyped
<1>2. CASE UNCHANGED llmVars
  BY <1>2 DEF llmVars, LlmTyped
<1>3. ASSUME NEW k \in Models, ExpireBreaker(k) PROVE LlmTyped'
  <2>1. /\ stream' = stream /\ now' = now /\ breaker' = [breaker EXCEPT ![k] = Create]
        /\ breaker \in [Models -> States] /\ now \in Nat
    BY <1>3 DEF ExpireBreaker, LlmIInv, LlmShapeInv
  <2>2. Create.openedAt \in 0..now
    BY <2>1 DEF Create
  <2>3. \A m \in Models : breaker'[m].openedAt \in 0..now
    BY <2>1, <2>2 DEF LlmTyped
  <2> QED
    BY <2>1, <2>3 DEF LlmTyped
<1> QED
  BY <1>1, <1>2, <1>3, CallsTyped, StatesTyped DEF LlmNext

\* Whatever fails, is rejected or expires: the breakers, the counts of failures
\* and the calls of LlmGatewayService.stream stay in their types, and no breaker
\* is opened ahead of the clock.
THEOREM LlmTypeCorrect == LlmSpec => []LlmTypeOK
<1>1. LlmInit => LlmIInv /\ LlmTyped
  BY LlmInitIInv, LlmInitTyped
<1>2. LlmIInv /\ LlmTyped /\ [LlmNext]_llmVars => (LlmIInv /\ LlmTyped)'
  BY LlmIInvStep, LlmTypedStep
<1>3. LlmIInv /\ LlmTyped => LlmTypeOK
  <2> SUFFICES ASSUME LlmIInv, LlmTyped PROVE LlmTypeOK
    OBVIOUS
  <2>1. \A m \in Models : breaker[m] \in [status : {"closed", "open"}, failureCount : Nat, openedAt : 0..now]
    BY DEF LlmIInv, LlmShapeInv, LlmTyped, States
  <2>2. breaker \in [Models -> [status : {"closed", "open"}, failureCount : Nat, openedAt : 0..now]]
    BY <2>1 DEF LlmIInv, LlmShapeInv
  <2>3. \A c \in Calls : ToSet(stream[c].rest) \subseteq Models
    BY DEF LlmTyped, CallTyped, ToSet
  <2> QED
    BY <2>2, <2>3 DEF LlmIInv, LlmShapeInv, LlmTyped, LlmTypeOK, CallTyped, LlmPoints
<1> QED
  BY <1>1, <1>2, <1>3, PTL DEF LlmSpec

-----------------------------------------------------------------------------
(***************************************************************************)
(* An owner's prompt has one active version, and one version per number,   *)
(* except where requests of the owner overlapped: for any users, limits    *)
(* and numbers of concurrent calls.                                        *)
(***************************************************************************)

IsTemplate(t) ==
  /\ t = [f \in {"id", "owner", "version", "active", "overlapped"} |-> t[f]]
  /\ t.id \in 1..inserted /\ t.version \in 1..inserted

\* The fields of a call's state; which request it carries does not matter here.
IsState(p) ==
  /\ p = [f \in {"pc", "req", "next", "target", "overlapped"} |-> p[f]]
  /\ p.pc = "persist" => p.next \in 1..(inserted + 1)

PromptShapeInv ==
  /\ inserted \in Nat
  /\ \A t \in templates : IsTemplate(t)
  /\ \A s, t \in templates : s.id = t.id => s = t
  /\ prompt = [c \in Calls |-> prompt[c]]
  /\ \A c \in Calls : IsState(prompt[c])

SwitchesOn(c, o) == prompt[c].pc = "switchOn" /\ prompt[c].req.owner = o

\* Between its two switches an activation is the only one of its owner, and no
\* version of the owner is active.
SwitchInv ==
  \A c \in Calls :
    LET o == prompt[c].req.owner IN
    (SwitchesOn(c, o) /\ o \notin crossed) =>
      /\ \A t \in templates : t.owner = o => ~t.active
      /\ \A d \in Calls : SwitchesOn(d, o) => d = c

\* The number that a creation is about to insert is still the next one, unless a
\* creation of the same owner has inserted in between.
NextInv ==
  \A c \in Calls, t \in templates :
    (prompt[c].pc = "persist" /\ ~prompt[c].overlapped /\ t.owner = prompt[c].req.owner) =>
      t.version < prompt[c].next

\* The invariant that the steps keep.
PromptIInv == PromptShapeInv /\ SwitchInv /\ NextInv /\ OneActivePerOwner /\ VersionsUnique

-----------------------------------------------------------------------------
\* The next version is above all that were found, and within reach.
LEMMA NextIsAbove ==
  ASSUME PromptShapeInv, NEW o
  PROVE  /\ NextVersion(FindAllByName(o)) \in 1..(inserted + 1)
         /\ \A t \in templates : t.owner = o => t.version < NextVersion(FindAllByName(o))
<1> DEFINE S == {t.version : t \in FindAllByName(o)}
<1>1. S \subseteq 1..inserted /\ inserted \in Nat
  BY DEF PromptShapeInv, IsTemplate, FindAllByName
<1>2. CASE FindAllByName(o) = {}
  BY <1>1, <1>2 DEF NextVersion, FindAllByName
<1>3. CASE FindAllByName(o) # {}
  <2>1. Max(S) \in S /\ \A y \in S : y =< Max(S)
    BY <1>1, <1>3, MaxOfBounded
  <2>2. NextVersion(FindAllByName(o)) = Max(S) + 1
    BY <1>3 DEF NextVersion
  <2>3. ASSUME NEW t \in templates, t.owner = o PROVE t.version \in S
    BY <2>3 DEF FindAllByName
  <2>4. Max(S) \in 1..inserted
    BY <1>1, <2>1
  <2>5. NextVersion(FindAllByName(o)) \in 1..(inserted + 1)
    BY <1>1, <2>2, <2>4
  <2>6. ASSUME NEW t \in templates, t.owner = o PROVE t.version < NextVersion(FindAllByName(o))
    <3>1. t.version \in 1..inserted /\ t.version =< Max(S)
      BY <1>1, <2>1, <2>3, <2>6
    <3> QED
      BY <1>1, <2>2, <2>4, <3>1
  <2> QED
    BY <2>5, <2>6
<1> QED
  BY <1>2, <1>3

LEMMA PromptInitIInv == PromptInit => PromptIInv
<1> SUFFICES ASSUME PromptInit PROVE PromptIInv
  OBVIOUS
<1>1. IsState(Idle) /\ Idle.pc = "idle"
  BY DEF IsState, Idle, At
<1>2. \A c \in Calls : prompt[c] = Idle
  BY DEF PromptInit
<1>3. PromptShapeInv
  BY <1>1, <1>2 DEF PromptInit, PromptShapeInv
<1>4. SwitchInv /\ NextInv /\ OneActivePerOwner /\ VersionsUnique
  BY <1>1, <1>2 DEF PromptInit, SwitchInv, NextInv, SwitchesOn, OneActivePerOwner, VersionsUnique
<1> QED
  BY <1>3, <1>4 DEF PromptIInv

\* Steps that change the state of one call, to one that is not between its switches.
LEMMA CallStep ==
  ASSUME PromptIInv, NEW c \in Calls, NEW p, IsState(p), p.pc # "switchOn",
         prompt' = [prompt EXCEPT ![c] = p],
         p.pc = "persist" => \A t \in templates : t.owner = p.req.owner => t.version < p.next,
         templates' = templates, inserted' = inserted, crossed' = crossed
  PROVE  PromptIInv'
<1> USE DEF PromptIInv
<1>1. /\ prompt'[c] = p /\ prompt' = [d \in Calls |-> prompt'[d]]
      /\ \A d \in Calls : d # c => prompt'[d] = prompt[d]
  BY DEF PromptShapeInv
<1>2. PromptShapeInv'
  BY <1>1 DEF PromptShapeInv, IsTemplate, IsState
<1>3. SwitchInv'
  BY <1>1 DEF SwitchInv, SwitchesOn
<1>4. NextInv'
  BY <1>1 DEF NextInv
<1>5. OneActivePerOwner' /\ VersionsUnique'
  BY DEF OneActivePerOwner, VersionsUnique
<1> QED
  BY <1>2, <1>3, <1>4, <1>5

\* The steps that read or end: ListVersions, FindTarget, PromptStops.
LEMMA ReadSafe ==
  ASSUME PromptIInv, NEW c \in Calls, NEW r,
         ListVersions(c, r) \/ FindTarget(c, r) \/ PromptStops(c)
  PROVE  PromptIInv'
<1>0. PromptShapeInv
  BY DEF PromptIInv
<1>1. CASE ListVersions(c, r)
  <2> DEFINE next == NextVersion(FindAllByName(r.owner))
             p == [At("persist", r) EXCEPT !.next = next]
  <2>1. p.pc = "persist" /\ p.req = r /\ p.next = next /\ ~p.overlapped
    BY DEF At
  <2>2. IsState(p)
    BY <1>0, <2>1, NextIsAbove DEF At, IsState
  <2>3. prompt' = [prompt EXCEPT ![c] = p] /\ templates' = templates /\ inserted' = inserted /\ crossed' = crossed
    BY <1>1 DEF ListVersions
  <2>4. \A t \in templates : t.owner = p.req.owner => t.version < p.next
    BY <1>0, <2>1, NextIsAbove
  <2> HIDE DEF p
  <2> QED
    BY <2>1, <2>2, <2>3, <2>4, CallStep
<1>2. CASE prompt' = [prompt EXCEPT ![c] = Idle] /\ UNCHANGED <<templates, inserted, crossed>>
  <2>1. IsState(Idle) /\ Idle.pc = "idle"
    BY DEF IsState, Idle, At
  <2> QED
    BY <1>2, <2>1, CallStep
<1>3. CASE FindTarget(c, r)
  <2>1. \/ prompt' = [prompt EXCEPT ![c] = Idle]
        \/ \E t \in templates : prompt' = [prompt EXCEPT ![c] =
             [At("switchOff", [r EXCEPT !.version = 0]) EXCEPT !.target = t.id]]
    BY <1>3 DEF FindTarget, Ends, FindByNameAndVersion
  <2>2. templates' = templates /\ inserted' = inserted /\ crossed' = crossed
    BY <1>3 DEF FindTarget
  <2>3. ASSUME NEW t \in templates, prompt' = [prompt EXCEPT ![c] =
                 [At("switchOff", [r EXCEPT !.version = 0]) EXCEPT !.target = t.id]]
        PROVE  PromptIInv'
    <3> DEFINE p == [At("switchOff", [r EXCEPT !.version = 0]) EXCEPT !.target = t.id]
    <3>1. IsState(p) /\ p.pc = "switchOff"
      BY DEF IsState, At
    <3>2. prompt' = [prompt EXCEPT ![c] = p]
      BY <2>3
    <3> HIDE DEF p
    <3> QED
      BY <2>2, <3>1, <3>2, CallStep
  <2> QED
    BY <1>2, <2>1, <2>2, <2>3
<1> QED
  BY <1>1, <1>2, <1>3 DEF PromptStops, Ends

\* t has become u: only active may differ.
Becomes(t, u) ==
  t.id = u.id /\ t.owner = u.owner /\ t.version = u.version /\ t.overlapped = u.overlapped

\* Steps that delete versions or switch them keep the numbers.
LEMMA NumbersKept ==
  ASSUME PromptIInv, \A u \in templates' : \E t \in templates : Becomes(t, u),
         \A s, u \in templates' : s.id = u.id => s = u,
         \A c \in Calls : prompt'[c].pc = "persist" => prompt'[c] = prompt[c]
  PROVE  VersionsUnique' /\ NextInv'
<1> USE DEF PromptIInv
<1>1. ASSUME NEW s \in templates', NEW u \in templates', s # u, s.owner = u.owner,
             s.version = u.version
      PROVE  s.overlapped \/ u.overlapped
  <2>1. PICK t \in templates : Becomes(t, s)
    OBVIOUS
  <2>2. PICK v \in templates : Becomes(v, u)
    OBVIOUS
  <2> QED
    BY <1>1, <2>1, <2>2 DEF Becomes, VersionsUnique
<1>2. VersionsUnique'
  BY <1>1 DEF VersionsUnique
<1>3. ASSUME NEW c \in Calls, NEW u \in templates', prompt'[c].pc = "persist",
             ~prompt'[c].overlapped, u.owner = prompt'[c].req.owner
      PROVE  u.version < prompt'[c].next
  <2>1. PICK t \in templates : Becomes(t, u)
    OBVIOUS
  <2> QED
    BY <1>3, <2>1 DEF Becomes, NextInv
<1> QED
  BY <1>2, <1>3 DEF NextInv

\* Where none becomes active, one stays active.
LEMMA NoneActivated ==
  ASSUME PromptIInv, \A u \in templates' : \E t \in templates : Becomes(t, u) /\ (u.active => t.active),
         \A s, u \in templates' : s.id = u.id => s = u, crossed \subseteq crossed'
  PROVE  OneActivePerOwner'
<1> USE DEF PromptIInv
<1>1. ASSUME NEW s \in templates', NEW u \in templates', s # u, s.owner = u.owner, s.active, u.active
      PROVE  s.owner \in crossed'
  <2>1. PICK t \in templates : Becomes(t, s) /\ (s.active => t.active)
    OBVIOUS
  <2>2. PICK v \in templates : Becomes(v, u) /\ (u.active => v.active)
    OBVIOUS
  <2> QED
    BY <1>1, <2>1, <2>2 DEF Becomes, OneActivePerOwner
<1> QED
  BY <1>1 DEF OneActivePerOwner

LEMMA DeactivateKeeps ==
  ASSUME PromptShapeInv, NEW o, templates' = DeactivateAll(o), inserted' = inserted
  PROVE  /\ \A u \in templates' : \E t \in templates : Becomes(t, u) /\ (u.active => t.active)
         /\ \A u \in templates' : u.owner = o => ~u.active
         /\ \A u \in templates' : IsTemplate(u)'
         /\ \A s, u \in templates' : s.id = u.id => s = u
<1> DEFINE off(t) == IF t.owner = o THEN [t EXCEPT !.active = FALSE] ELSE t
<1>1. ASSUME NEW t \in templates
      PROVE  /\ Becomes(t, off(t)) /\ (off(t).active => t.active) /\ IsTemplate(off(t))'
             /\ off(t).owner = o => ~off(t).active
  <2>1. IsTemplate(t)
    BY DEF PromptShapeInv
  <2>2. CASE t.owner # o
    BY <2>1, <2>2 DEF IsTemplate, Becomes
  <2>3. CASE t.owner = o
    BY <2>1, <2>3 DEF IsTemplate, Becomes
  <2> QED
    BY <2>2, <2>3
<1>2. templates' = {off(t) : t \in templates}
  BY DEF DeactivateAll
<1>3. ASSUME NEW s \in templates, NEW t \in templates, off(s).id = off(t).id PROVE off(s) = off(t)
  <2>1. s.id = off(s).id /\ t.id = off(t).id
    BY <1>1 DEF Becomes
  <2>2. s = t
    BY <1>3, <2>1 DEF PromptShapeInv
  <2> QED
    BY <2>2
<1> HIDE DEF off
<1>4. ASSUME NEW u \in templates'
      PROVE  /\ \E t \in templates : Becomes(t, u) /\ (u.active => t.active)
             /\ u.owner = o => ~u.active
             /\ IsTemplate(u)'
  <2>1. PICK t \in templates : u = off(t)
    BY <1>2
  <2> QED
    BY <1>1, <2>1
<1>5. ASSUME NEW s \in templates', NEW u \in templates', s.id = u.id PROVE s = u
  BY <1>2, <1>3, <1>5
<1> QED
  BY <1>4, <1>5

LEMMA SwitchOffSafe == ASSUME PromptIInv, NEW c \in Calls, SwitchOff(c) PROVE PromptIInv'
<1> USE DEF PromptIInv
<1> DEFINE o == prompt[c].req.owner
<1>1. /\ templates' = DeactivateAll(o) /\ inserted' = inserted /\ crossed \subseteq crossed'
      /\ prompt' = [prompt EXCEPT ![c].pc = "switchOn"]
  BY DEF SwitchOff
<1>2. /\ \A u \in templates' : \E t \in templates : Becomes(t, u) /\ (u.active => t.active)
      /\ \A u \in templates' : u.owner = o => ~u.active
      /\ \A u \in templates' : IsTemplate(u)'
      /\ \A s, u \in templates' : s.id = u.id => s = u
  BY <1>1, DeactivateKeeps
<1>3. /\ prompt'[c].pc = "switchOn" /\ prompt'[c].req = prompt[c].req
      /\ \A d \in Calls : d # c => prompt'[d] = prompt[d]
      /\ prompt' = [d \in Calls |-> prompt'[d]] /\ IsState(prompt'[c])
  BY <1>1 DEF PromptShapeInv, IsState
<1>4. PromptShapeInv'
  BY <1>1, <1>2, <1>3 DEF PromptShapeInv, IsState
<1>5. VersionsUnique' /\ NextInv'
  BY <1>2, <1>3, NumbersKept
<1>6. OneActivePerOwner'
  BY <1>1, <1>2, NoneActivated
<1>7. ASSUME NEW d \in Calls, NEW p, SwitchesOn(d, p)', p = prompt'[d].req.owner, p \notin crossed'
      PROVE  /\ \A u \in templates' : u.owner = p => ~u.active
             /\ \A e \in Calls : SwitchesOn(e, p)' => e = d
  <2>1. CASE p = o
    <3>0. (\E e \in Calls : SwitchesOn(e, o)) => o \in crossed'
      BY DEF SwitchOff, SwitchesOn
    <3>1. \A e \in Calls : ~SwitchesOn(e, o)
      BY <1>7, <2>1, <3>0
    <3>2. \A e \in Calls : SwitchesOn(e, p)' => e = c
      BY <1>3, <2>1, <3>1 DEF SwitchesOn
    <3> QED
      BY <1>2, <1>7, <2>1, <3>2
  <2>2. CASE p # o
    <3>1. d # c /\ SwitchesOn(d, p) /\ p \notin crossed /\ p = prompt[d].req.owner
      BY <1>1, <1>3, <1>7, <2>2 DEF SwitchesOn
    <3>2. /\ \A t \in templates : t.owner = p => ~t.active
          /\ \A e \in Calls : SwitchesOn(e, p) => e = d
      BY <3>1 DEF SwitchInv
    <3>3. \A e \in Calls : SwitchesOn(e, p)' => SwitchesOn(e, p)
      BY <1>3, <2>2 DEF SwitchesOn
    <3> QED
      BY <1>2, <3>2, <3>3 DEF Becomes
  <2> QED
    BY <2>1, <2>2
<1>8. SwitchInv'
  BY <1>7 DEF SwitchInv
<1> QED
  BY <1>4, <1>5, <1>6, <1>8

LEMMA SwitchOnSafe == ASSUME PromptIInv, NEW c \in Calls, SwitchOn(c) PROVE PromptIInv'
<1> USE DEF PromptIInv
<1> DEFINE o == prompt[c].req.owner
           hit == {t \in templates : t.id = prompt[c].target}
           on(t) == [t EXCEPT !.active = TRUE]
<1>1. /\ templates' = (templates \ hit) \cup {on(t) : t \in hit}
      /\ crossed' = crossed \cup {t.owner : t \in {t \in hit : t.owner # o}}
      /\ inserted' = inserted /\ SwitchesOn(c, o) /\ prompt' = [prompt EXCEPT ![c] = Idle]
  BY DEF SwitchOn, Ends, SwitchesOn
<1>2. /\ prompt'[c] = Idle /\ Idle.pc = "idle" /\ IsState(Idle)'
      /\ \A d \in Calls : d # c => prompt'[d] = prompt[d]
      /\ prompt' = [d \in Calls |-> prompt'[d]]
  BY <1>1 DEF PromptShapeInv, IsState, Idle, At
<1>3. ASSUME NEW t \in hit
      PROVE  Becomes(t, on(t)) /\ IsTemplate(on(t))' /\ on(t).id = prompt[c].target
  <2>1. IsTemplate(t)
    BY DEF PromptShapeInv
  <2> QED
    BY <1>1, <2>1 DEF Becomes, IsTemplate
<1>4. \A s, t \in hit : s = t
  BY DEF PromptShapeInv
<1> HIDE DEF on
<1>5. ASSUME NEW u \in templates'
      PROVE  \/ u \in templates /\ u.id # prompt[c].target
             \/ \E t \in hit : u = on(t)
  BY <1>1
<1>6. \A u \in templates' : \E t \in templates : Becomes(t, u) /\ (u.active => t.active \/ t \in hit)
  BY <1>3, <1>5 DEF Becomes
<1>7. \A s, u \in templates' : s.id = u.id => s = u
  BY <1>3, <1>4, <1>5 DEF PromptShapeInv
<1>8. PromptShapeInv'
  <2>1. \A u \in templates' : IsTemplate(u)'
    BY <1>1, <1>3, <1>5 DEF PromptShapeInv, IsTemplate
  <2> QED
    BY <1>1, <1>2, <1>7, <2>1 DEF PromptShapeInv, IsState
<1>9. VersionsUnique' /\ NextInv'
  BY <1>2, <1>6, <1>7, NumbersKept
<1>10. ASSUME NEW u \in templates', u.active, u.owner \notin crossed', u.id # prompt[c].target
       PROVE  u \in templates /\ u.owner \notin crossed /\ (o \notin crossed => u.owner # o)
  BY <1>1, <1>3, <1>5, <1>10 DEF SwitchInv
<1>11. ASSUME NEW t \in hit, t.owner \notin crossed' PROVE t.owner = o /\ o \notin crossed
  BY <1>1, <1>11
<1>12. OneActivePerOwner'
  <2>1. ASSUME NEW s \in templates', NEW u \in templates', s # u, s.owner = u.owner,
               s.active, u.active, s.owner \notin crossed'
        PROVE  FALSE
    <3>1. CASE s.id # prompt[c].target /\ u.id # prompt[c].target
      BY <1>10, <2>1, <3>1 DEF OneActivePerOwner
    <3>2. CASE s.id = prompt[c].target
      BY <1>3, <1>5, <1>7, <1>10, <1>11, <2>1, <3>2 DEF Becomes
    <3>3. CASE u.id = prompt[c].target
      BY <1>3, <1>5, <1>7, <1>10, <1>11, <2>1, <3>3 DEF Becomes
    <3> QED
      BY <3>1, <3>2, <3>3
  <2> QED
    BY <2>1 DEF OneActivePerOwner
<1>13. ASSUME NEW d \in Calls, NEW p, SwitchesOn(d, p)', p = prompt'[d].req.owner, p \notin crossed'
       PROVE  /\ \A u \in templates' : u.owner = p => ~u.active
              /\ \A e \in Calls : SwitchesOn(e, p)' => e = d
  <2>1. d # c /\ SwitchesOn(d, p) /\ p \notin crossed /\ p = prompt[d].req.owner
    BY <1>1, <1>2, <1>13 DEF SwitchesOn
  <2>2. /\ \A t \in templates : t.owner = p => ~t.active
        /\ \A e \in Calls : SwitchesOn(e, p) => e = d
    BY <2>1 DEF SwitchInv
  <2>3. p # o
    BY <1>1, <2>1, <2>2
  <2>4. \A e \in Calls : SwitchesOn(e, p)' => SwitchesOn(e, p)
    BY <1>2 DEF SwitchesOn
  <2>5. ASSUME NEW u \in templates', u.owner = p PROVE ~u.active
    BY <1>1, <1>3, <1>5, <1>13, <2>2, <2>3, <2>5 DEF Becomes
  <2> QED
    BY <2>2, <2>4, <2>5
<1>14. SwitchInv'
  BY <1>13 DEF SwitchInv
<1> QED
  BY <1>8, <1>9, <1>12, <1>14

LEMMA DeactivateSafe == ASSUME PromptIInv, NEW r, DeactivateActive(r) PROVE PromptIInv'
<1> USE DEF PromptIInv
<1>1. templates' = DeactivateAll(r.owner) /\ inserted' = inserted /\ prompt' = prompt /\ crossed' = crossed
  BY DEF DeactivateActive
<1>2. /\ \A u \in templates' : \E t \in templates : Becomes(t, u) /\ (u.active => t.active)
      /\ \A u \in templates' : IsTemplate(u)'
      /\ \A s, u \in templates' : s.id = u.id => s = u
  BY <1>1, DeactivateKeeps
<1>3. PromptShapeInv'
  BY <1>1, <1>2 DEF PromptShapeInv, IsState
<1>4. VersionsUnique' /\ NextInv' /\ OneActivePerOwner'
  BY <1>1, <1>2, NumbersKept, NoneActivated
<1>5. SwitchInv'
  BY <1>1, <1>2 DEF SwitchInv, SwitchesOn, Becomes
<1> QED
  BY <1>3, <1>4, <1>5

LEMMA PromptDeleteSafe == ASSUME PromptIInv, NEW r, DeleteVersion(r) PROVE PromptIInv'
<1> USE DEF PromptIInv
<1>1. templates' \subseteq templates /\ inserted' = inserted /\ prompt' = prompt /\ crossed' = crossed
  BY DEF DeleteVersion
<1>2. /\ \A u \in templates' : \E t \in templates : Becomes(t, u) /\ (u.active => t.active)
      /\ \A s, u \in templates' : s.id = u.id => s = u
  BY <1>1 DEF Becomes, PromptShapeInv
<1>3. PromptShapeInv'
  BY <1>1, <1>2 DEF PromptShapeInv, IsState, IsTemplate
<1>4. VersionsUnique' /\ NextInv' /\ OneActivePerOwner'
  BY <1>1, <1>2, NumbersKept, NoneActivated
<1>5. SwitchInv'
  BY <1>1 DEF SwitchInv, SwitchesOn
<1> QED
  BY <1>3, <1>4, <1>5

\* The new version is inactive; its number is free, or it is marked.
LEMMA PersistSafe == ASSUME PromptIInv, NEW c \in Calls, PersistTemplate(c) PROVE PromptIInv'
<1> USE DEF PromptIInv
<1> DEFINE o == prompt[c].req.owner
           marked(d) == d \in Calls \ {c} /\ Creates(d, o)
           peers == {d \in Calls \ {c} : Creates(d, o)}
<1>1. PICK new : /\ templates' = templates \cup {new}
                 /\ new = Template(inserted + 1, o, prompt[c].next, peers # {} \/ prompt[c].overlapped)
  BY DEF PersistTemplate
<1>2. /\ prompt[c].pc = "persist" /\ inserted' = inserted + 1 /\ crossed' = crossed
      /\ new.id = inserted + 1 /\ new.owner = o /\ new.version = prompt[c].next
      /\ new.active = FALSE /\ IsTemplate(new)'
  <2>1. prompt[c].next \in 1..(inserted + 1) /\ inserted' = inserted + 1 /\ inserted \in Nat
    BY DEF PromptShapeInv, IsState, PersistTemplate
  <2> QED
    BY <1>1, <2>1 DEF PersistTemplate, Template, IsTemplate
<1>3. ~new.overlapped => \A d \in Calls : ~marked(d) /\ ~prompt[c].overlapped
  BY <1>1 DEF Template
<1>4. prompt' = [d \in Calls |-> prompt'[d]] /\ IsState(prompt[c])' /\ prompt'[c].pc \in {"idle", "find"}
  <2>1. /\ prompt' = [d \in Calls |-> prompt'[d]]
        /\ \/ prompt'[c] = Idle
           \/ prompt'[c] = At("find", Request("activate", o, prompt[c].next))
    BY DEF PersistTemplate
  <2> QED
    BY <2>1 DEF IsState, Idle, At
<1>5. ASSUME NEW d \in Calls, d # c
      PROVE  /\ prompt'[d].pc = prompt[d].pc /\ prompt'[d].req = prompt[d].req
             /\ prompt'[d].next = prompt[d].next /\ IsState(prompt[d])'
             /\ ~prompt'[d].overlapped => ~marked(d) /\ ~prompt[d].overlapped
  <2>1. IsState(prompt[d]) /\ inserted \in Nat /\ inserted' = inserted + 1
    BY <1>2 DEF PromptShapeInv
  <2>2. CASE marked(d)
    <3>1. prompt'[d] = [prompt[d] EXCEPT !.overlapped = TRUE]
      BY <1>5, <2>2 DEF PersistTemplate
    <3>2. /\ prompt'[d].pc = prompt[d].pc /\ prompt'[d].req = prompt[d].req
          /\ prompt'[d].next = prompt[d].next /\ prompt'[d].overlapped = TRUE
          /\ prompt'[d] = [f \in {"pc", "req", "next", "target", "overlapped"} |-> prompt'[d][f]]
      BY <2>1, <3>1 DEF IsState
    <3>3. IsState(prompt[d])'
      BY <2>1, <3>2 DEF IsState
    <3> QED
      BY <3>2, <3>3
  <2>3. CASE ~marked(d)
    <3>1. prompt'[d] = prompt[d]
      BY <1>5, <2>3 DEF PersistTemplate
    <3> QED
      BY <2>1, <2>3, <3>1 DEF IsState
  <2> QED
    BY <2>2, <2>3
<1>6. \A t \in templates : t.id # new.id /\ IsTemplate(t)'
  BY <1>2 DEF PromptShapeInv, IsTemplate
<1>7. PromptShapeInv'
  <2>1. /\ inserted' \in Nat /\ (\A t \in templates' : IsTemplate(t)')
        /\ \A s, t \in templates' : s.id = t.id => s = t
    BY <1>1, <1>2, <1>6 DEF PromptShapeInv
  <2>2. \A d \in Calls : IsState(prompt[d])'
    BY <1>4, <1>5
  <2> QED
    BY <1>4, <2>1, <2>2 DEF PromptShapeInv
<1>8. ~new.overlapped => \A t \in templates : t.owner = o => t.version < prompt[c].next
  BY <1>2, <1>3 DEF NextInv
<1>9. VersionsUnique'
  <2>1. ASSUME NEW t \in templates, t.owner = o, t.version = prompt[c].next PROVE new.overlapped
    <3>1. t.version \in Nat
      BY DEF PromptShapeInv, IsTemplate
    <3> QED
      BY <1>8, <2>1, <3>1
  <2> QED
    BY <1>1, <1>2, <2>1 DEF VersionsUnique
<1>10. NextInv'
  <2>1. ASSUME NEW d \in Calls, NEW t \in templates', prompt'[d].pc = "persist",
               ~prompt'[d].overlapped, t.owner = prompt'[d].req.owner
        PROVE  t.version < prompt'[d].next
    <3>1. d # c
      BY <1>4, <2>1
    <3>2. /\ prompt[d].pc = "persist" /\ ~prompt[d].overlapped /\ ~marked(d)
          /\ t.owner = prompt[d].req.owner /\ prompt'[d].next = prompt[d].next
      BY <1>5, <2>1, <3>1
    <3>3. t # new
      BY <1>2, <3>1, <3>2 DEF Creates
    <3> QED
      BY <1>1, <3>2, <3>3 DEF NextInv
  <2> QED
    BY <2>1 DEF NextInv
<1>11. OneActivePerOwner'
  BY <1>1, <1>2 DEF OneActivePerOwner
<1>12. ASSUME NEW d \in Calls, NEW p PROVE SwitchesOn(d, p)' <=> SwitchesOn(d, p)
  BY <1>2, <1>4, <1>5 DEF SwitchesOn
<1>13. SwitchInv'
  <2>1. ASSUME NEW d \in Calls, NEW p, SwitchesOn(d, p)', p = prompt'[d].req.owner, p \notin crossed'
        PROVE  /\ \A t \in templates' : t.owner = p => ~t.active
               /\ \A e \in Calls : SwitchesOn(e, p)' => e = d
    <3>1. SwitchesOn(d, p) /\ p = prompt[d].req.owner /\ p \notin crossed
      BY <1>2, <1>12, <2>1 DEF SwitchesOn
    <3> QED
      BY <1>1, <1>2, <1>12, <3>1 DEF SwitchInv
  <2> QED
    BY <2>1 DEF SwitchInv
<1> QED
  BY <1>7, <1>9, <1>10, <1>11, <1>13

-----------------------------------------------------------------------------
LEMMA PromptIInvStep == PromptIInv /\ [PromptNext]_promptVars => PromptIInv'
<1> SUFFICES ASSUME PromptIInv, [PromptNext]_promptVars PROVE PromptIInv'
  OBVIOUS
<1>1. ASSUME NEW c \in Calls, NEW r, ListVersions(c, r) \/ FindTarget(c, r) PROVE PromptIInv'
  BY <1>1, ReadSafe
<1>2. ASSUME NEW c \in Calls, PromptStops(c) PROVE PromptIInv'
  BY <1>2, ReadSafe
<1>3. ASSUME NEW r, DeactivateActive(r) \/ DeleteVersion(r) PROVE PromptIInv'
  BY <1>3, DeactivateSafe, PromptDeleteSafe
<1>4. ASSUME NEW c \in Calls, PersistTemplate(c) \/ SwitchOff(c) \/ SwitchOn(c) PROVE PromptIInv'
  BY <1>4, PersistSafe, SwitchOffSafe, SwitchOnSafe
<1>5. CASE UNCHANGED promptVars
  <2>1. UNCHANGED <<templates, inserted, prompt, crossed>>
    BY <1>5 DEF promptVars
  <2> QED
    BY <2>1 DEF PromptIInv, PromptShapeInv, IsTemplate, IsState, SwitchInv, SwitchesOn, NextInv,
                OneActivePerOwner, VersionsUnique
<1> QED
  BY <1>1, <1>2, <1>3, <1>4, <1>5 DEF PromptNext

LEMMA PromptInvariance == PromptSpec => []PromptIInv
<1>1. PromptInit => PromptIInv
  BY PromptInitIInv
<1>2. PromptIInv /\ [PromptNext]_promptVars => PromptIInv'
  BY PromptIInvStep
<1> QED
  BY <1>1, <1>2, PTL DEF PromptSpec

\* CreatePromptUseCase: two versions of an owner with one number come from
\* creations that overlapped, whatever was deleted or failed in between.
THEOREM NumbersStayUnique == PromptSpec => []VersionsUnique
<1>1. PromptIInv => VersionsUnique
  BY DEF PromptIInv
<1> QED
  BY <1>1, PromptInvariance, PTL

\* ActivatePromptUseCase: two active versions of an owner come from activations
\* that overlapped, or from one that took the version of another owner.
THEOREM ActivationIsExclusive == PromptSpec => []OneActivePerOwner
<1>1. PromptIInv => OneActivePerOwner
  BY DEF PromptIInv
<1> QED
  BY <1>1, PromptInvariance, PTL

-----------------------------------------------------------------------------
(***************************************************************************)
(* The types of the templates: a request carries an owner, and what it has *)
(* found was inserted.                                                     *)
(***************************************************************************)
PromptPoints == {"idle", "persist", "find", "switchOff", "switchOn"}

RequestTyped(r) ==
  r = [f \in {"op", "owner", "version", "then"} |-> r[f]] /\ r.owner \in Owners

TemplateTyped(t) == t.owner \in Owners /\ t.active \in BOOLEAN /\ t.overlapped \in BOOLEAN

StateTyped(p, n) ==
  p.pc \in PromptPoints /\ p.target \in 0..n /\ p.overlapped \in BOOLEAN /\ RequestTyped(p.req)

PromptTyped ==
  /\ inserted \in 0..MaxTemplates
  /\ crossed \subseteq Owners
  /\ \A t \in templates : TemplateTyped(t)
  /\ \A c \in Calls : StateTyped(prompt[c], inserted)

LEMMA RequestIs ==
  ASSUME NEW op, NEW o \in Owners, NEW v
  PROVE  /\ RequestTyped(Request(op, o, v))
         /\ \A b : RequestTyped([Request(op, o, v) EXCEPT !.then = b])
<1> DEFINE r == Request(op, o, v)
<1>1. r = [f \in {"op", "owner", "version", "then"} |-> r[f]] /\ r.owner = o
  BY DEF Request
<1> HIDE DEF r
<1>2. \A b : RequestTyped([r EXCEPT !.then = b])
  BY <1>1 DEF RequestTyped
<1> QED
  BY <1>1, <1>2 DEF RequestTyped, r

LEMMA ReceivedIs == ASSUME NEW c, NEW op, NEW r \in Receives(c, op) PROVE RequestTyped(r)
<1>1. r \in AdminRequests(op) \cup MyRequests(op)
  BY DEF Receives
<1>2. CASE r \in AdminRequests(op)
  <2> DEFINE N == Named(op)
  <2>1. r \in {Request(op, o, v) : o \in Owners, v \in N}
    BY <1>2 DEF AdminRequests
  <2> HIDE DEF N
  <2>2. PICK o \in Owners, v \in N : r = Request(op, o, v)
    BY <2>1
  <2> QED
    BY <2>2, RequestIs
<1>3. CASE r \in MyRequests(op)
  <2>1. \E u \in Users : \E v, b : r = [Request(op, u, v) EXCEPT !.then = b]
    BY <1>3 DEF MyRequests
  <2>2. PICK u \in Users : \E v, b : r = [Request(op, u, v) EXCEPT !.then = b]
    BY <2>1
  <2>3. PICK v, b : r = [Request(op, u, v) EXCEPT !.then = b]
    BY <2>2
  <2>4. RequestTyped([Request(op, u, v) EXCEPT !.then = b])
    BY RequestIs DEF Owners
  <2> QED
    BY <2>3, <2>4
<1> QED
  BY <1>1, <1>2, <1>3

LEMMA AtIs ==
  ASSUME NEW pc \in PromptPoints, NEW r, RequestTyped(r), NEW n \in Nat
  PROVE  /\ StateTyped(At(pc, r), n)
         /\ \A k : StateTyped([At(pc, r) EXCEPT !.next = k], n)
         /\ \A k \in 0..n : StateTyped([At(pc, r) EXCEPT !.target = k], n)
<1> DEFINE p == At(pc, r)
<1>1. /\ p = [f \in {"pc", "req", "next", "target", "overlapped"} |-> p[f]]
      /\ p.pc = pc /\ p.req = r /\ p.target = 0 /\ p.overlapped = FALSE
  BY DEF At
<1>0. 0 \in 0..n
  OBVIOUS
<1> HIDE DEF p
<1>2. StateTyped(p, n)
  BY <1>0, <1>1 DEF StateTyped
<1>3. ASSUME NEW k PROVE StateTyped([p EXCEPT !.next = k], n)
  <2>1. /\ [p EXCEPT !.next = k].pc = pc /\ [p EXCEPT !.next = k].req = r
        /\ [p EXCEPT !.next = k].target = 0 /\ [p EXCEPT !.next = k].overlapped = FALSE
    BY <1>1
  <2> QED
    BY <1>0, <2>1 DEF StateTyped
<1>4. ASSUME NEW k \in 0..n PROVE StateTyped([p EXCEPT !.target = k], n)
  <2>1. /\ [p EXCEPT !.target = k].pc = pc /\ [p EXCEPT !.target = k].req = r
        /\ [p EXCEPT !.target = k].target = k /\ [p EXCEPT !.target = k].overlapped = FALSE
    BY <1>1
  <2> QED
    BY <2>1 DEF StateTyped
<1> QED
  BY <1>2, <1>3, <1>4 DEF p

LEMMA IdleIs == ASSUME NEW n \in Nat PROVE StateTyped(Idle, n)
<1>1. RequestTyped(Request("none", "shared", 0))
  BY RequestIs DEF Owners
<1>2. "idle" \in PromptPoints
  BY DEF PromptPoints
<1> QED
  BY <1>1, <1>2, AtIs DEF Idle

LEMMA PromptInitTyped == PromptInit => PromptTyped
<1> SUFFICES ASSUME PromptInit PROVE PromptTyped
  OBVIOUS
<1>1. StateTyped(Idle, 0) /\ 0 \in 0..MaxTemplates
  BY IdleIs, PromptAssumption
<1> QED
  BY <1>1 DEF PromptInit, PromptTyped

\* A step that inserts nothing.
LEMMA KeepsTyped ==
  ASSUME PromptIInv, PromptTyped, NEW c \in Calls, NEW p, StateTyped(p, inserted),
         prompt' = [prompt EXCEPT ![c] = p], inserted' = inserted, crossed' \subseteq Owners,
         \A t \in templates' : TemplateTyped(t)
  PROVE  PromptTyped'
<1>1. \A d \in Calls : prompt'[d] = IF d = c THEN p ELSE prompt[d]
  BY DEF PromptIInv, PromptShapeInv
<1>2. \A d \in Calls : StateTyped(prompt'[d], inserted)
  BY <1>1 DEF PromptTyped
<1> QED
  BY <1>2 DEF PromptTyped

\* ListVersions, FindTarget and PromptStops.
LEMMA ReadTyped ==
  ASSUME PromptIInv, PromptTyped, NEW c \in Calls, NEW r,
         ((ListVersions(c, r) \/ FindTarget(c, r)) /\ RequestTyped(r)) \/ PromptStops(c)
  PROVE  PromptTyped'
<1>1. /\ inserted \in Nat /\ inserted' = inserted /\ crossed' \subseteq Owners
      /\ \A t \in templates' : TemplateTyped(t)
  BY DEF PromptIInv, PromptShapeInv, PromptTyped, ListVersions, FindTarget, PromptStops
<1>2. ASSUME NEW p, StateTyped(p, inserted), prompt' = [prompt EXCEPT ![c] = p] PROVE PromptTyped'
  BY <1>1, <1>2, KeepsTyped
<1>3. CASE ListVersions(c, r) /\ RequestTyped(r)
  <2>1. prompt' = [prompt EXCEPT ![c] = [At("persist", r) EXCEPT !.next = NextVersion(FindAllByName(r.owner))]]
    BY <1>3 DEF ListVersions
  <2>2. StateTyped([At("persist", r) EXCEPT !.next = NextVersion(FindAllByName(r.owner))], inserted)
    BY <1>1, <1>3, AtIs DEF PromptPoints
  <2> QED
    BY <1>2, <2>1, <2>2
<1>4. CASE Ends(c)
  BY <1>1, <1>2, <1>4, IdleIs DEF Ends
<1>5. CASE FindTarget(c, r) /\ RequestTyped(r) /\ ~Ends(c)
  <2>1. PICK t \in templates :
          prompt' = [prompt EXCEPT ![c] = [At("switchOff", [r EXCEPT !.version = 0]) EXCEPT !.target = t.id]]
    BY <1>5 DEF FindTarget, FindByNameAndVersion
  <2>2. t.id \in 0..inserted
    BY <1>1 DEF PromptIInv, PromptShapeInv, IsTemplate
  <2>3. RequestTyped([r EXCEPT !.version = 0])
    BY <1>5 DEF RequestTyped
  <2>4. StateTyped([At("switchOff", [r EXCEPT !.version = 0]) EXCEPT !.target = t.id], inserted)
    BY <1>1, <2>2, <2>3, AtIs DEF PromptPoints
  <2> QED
    BY <1>2, <2>1, <2>4
<1> QED
  BY <1>3, <1>4, <1>5 DEF PromptStops

LEMMA DeactivatedTyped ==
  ASSUME PromptIInv, PromptTyped, NEW o PROVE \A u \in DeactivateAll(o) : TemplateTyped(u)
<1> SUFFICES ASSUME NEW t \in templates
             PROVE  TemplateTyped(IF t.owner = o THEN [t EXCEPT !.active = FALSE] ELSE t)
  BY DEF DeactivateAll
<1>1. TemplateTyped(t) /\ IsTemplate(t)
  BY DEF PromptIInv, PromptShapeInv, PromptTyped
<1>2. TemplateTyped([t EXCEPT !.active = FALSE])
  BY <1>1 DEF TemplateTyped, IsTemplate
<1> QED
  BY <1>1, <1>2

\* A call goes on with the request it has.
LEMMA PointIs ==
  ASSUME PromptIInv, PromptTyped, NEW c \in Calls, NEW pc \in PromptPoints
  PROVE  StateTyped([prompt[c] EXCEPT !.pc = pc], inserted)
<1>1. StateTyped(prompt[c], inserted) /\ IsState(prompt[c])
  BY DEF PromptIInv, PromptShapeInv, PromptTyped
<1> DEFINE p == [prompt[c] EXCEPT !.pc = pc]
<1>2. p.pc = pc /\ p.target = prompt[c].target /\ p.overlapped = prompt[c].overlapped /\ p.req = prompt[c].req
  BY <1>1 DEF IsState
<1> HIDE DEF p
<1>3. StateTyped(p, inserted)
  BY <1>1, <1>2 DEF StateTyped
<1> QED
  BY <1>3 DEF p

LEMMA SwitchTyped ==
  ASSUME PromptIInv, PromptTyped, NEW c \in Calls, SwitchOff(c) \/ SwitchOn(c) PROVE PromptTyped'
<1>1. inserted \in Nat /\ inserted' = inserted /\ prompt[c].req.owner \in Owners
  BY DEF PromptIInv, PromptShapeInv, PromptTyped, StateTyped, RequestTyped, SwitchOff, SwitchOn
<1>2. CASE SwitchOff(c)
  <2>1. prompt' = [prompt EXCEPT ![c] = [prompt[c] EXCEPT !.pc = "switchOn"]]
    BY <1>2 DEF SwitchOff
  <2>2. \A t \in templates' : TemplateTyped(t)
    BY <1>2, DeactivatedTyped DEF SwitchOff
  <2>3. crossed' \subseteq Owners
    BY <1>1, <1>2 DEF SwitchOff, PromptTyped
  <2>4. StateTyped([prompt[c] EXCEPT !.pc = "switchOn"], inserted)
    BY PointIs DEF PromptPoints
  <2> QED
    BY <1>1, <2>1, <2>2, <2>3, <2>4, KeepsTyped
<1>3. CASE SwitchOn(c)
  <2> DEFINE hit == {t \in templates : t.id = prompt[c].target}
  <2>1. /\ templates' = (templates \ hit) \cup {[t EXCEPT !.active = TRUE] : t \in hit}
        /\ crossed' = crossed \cup {t.owner : t \in {t \in hit : t.owner # prompt[c].req.owner}}
        /\ prompt' = [prompt EXCEPT ![c] = Idle]
    BY <1>3 DEF SwitchOn, Ends
  <2>2. ASSUME NEW t \in templates PROVE TemplateTyped(t) /\ TemplateTyped([t EXCEPT !.active = TRUE])
    <3>1. TemplateTyped(t) /\ IsTemplate(t)
      BY DEF PromptIInv, PromptShapeInv, PromptTyped
    <3> QED
      BY <3>1 DEF TemplateTyped, IsTemplate
  <2>3. \A t \in templates' : TemplateTyped(t)
    BY <2>1, <2>2
  <2>4. crossed' \subseteq Owners
    BY <2>1, <2>2 DEF TemplateTyped, PromptTyped
  <2> QED
    BY <1>1, <2>1, <2>3, <2>4, IdleIs, KeepsTyped
<1> QED
  BY <1>2, <1>3

LEMMA PersistTyped ==
  ASSUME PromptIInv, PromptTyped, NEW c \in Calls, PersistTemplate(c) PROVE PromptTyped'
<1> DEFINE r == prompt[c].req
           peers == {d \in Calls \ {c} : Creates(d, r.owner)}
           next == Request("activate", r.owner, prompt[c].next)
           t == Template(inserted + 1, r.owner, prompt[c].next, peers # {} \/ prompt[c].overlapped)
<1>1. /\ inserted \in Nat /\ inserted < MaxTemplates /\ inserted' = inserted + 1
      /\ templates' = templates \cup {t} /\ crossed' = crossed
      /\ prompt' = [d \in Calls |->
           IF d \in peers THEN [prompt[d] EXCEPT !.overlapped = TRUE]
           ELSE IF d # c THEN prompt[d]
           ELSE IF r.then THEN At("find", next) ELSE Idle]
  BY DEF PersistTemplate, PromptIInv, PromptShapeInv
<1>2. /\ inserted' \in 0..MaxTemplates /\ inserted + 1 \in Nat
      /\ \A k \in 0..inserted : k \in 0..inserted + 1
  BY <1>1, PromptAssumption
<1>3. ASSUME NEW d \in Calls
      PROVE  /\ StateTyped(prompt[d], inserted + 1)
             /\ StateTyped([prompt[d] EXCEPT !.overlapped = TRUE], inserted + 1)
  <2>1. StateTyped(prompt[d], inserted) /\ IsState(prompt[d])
    BY DEF PromptIInv, PromptShapeInv, PromptTyped
  <2> DEFINE p == [prompt[d] EXCEPT !.overlapped = TRUE]
  <2>2. p.pc = prompt[d].pc /\ p.target = prompt[d].target /\ p.overlapped = TRUE /\ p.req = prompt[d].req
    BY <2>1 DEF IsState
  <2> HIDE DEF p
  <2>3. StateTyped(p, inserted + 1) /\ StateTyped(prompt[d], inserted + 1)
    BY <1>2, <2>1, <2>2 DEF StateTyped
  <2> QED
    BY <2>3 DEF p
<1>4. r.owner \in Owners /\ prompt[c].overlapped \in BOOLEAN
  BY DEF PromptTyped, StateTyped, RequestTyped
<1>5. StateTyped(At("find", next), inserted + 1) /\ StateTyped(Idle, inserted + 1)
  <2>1. RequestTyped(next)
    BY <1>4, RequestIs
  <2> HIDE DEF next
  <2> QED
    BY <1>2, <2>1, AtIs, IdleIs DEF PromptPoints
<1>6. TemplateTyped(t)
  BY <1>4 DEF TemplateTyped, Template
<1> HIDE DEF next, peers, t
<1>7. \A d \in Calls : StateTyped(prompt'[d], inserted + 1)
  BY <1>1, <1>3, <1>5
<1>8. \A u \in templates' : TemplateTyped(u)
  BY <1>1, <1>6 DEF PromptTyped
<1> QED
  BY <1>1, <1>2, <1>7, <1>8 DEF PromptTyped

LEMMA PromptTypedStep == PromptIInv /\ PromptTyped /\ [PromptNext]_promptVars => PromptTyped'
<1> SUFFICES ASSUME PromptIInv, PromptTyped, [PromptNext]_promptVars PROVE PromptTyped'
  OBVIOUS
<1>1. CASE UNCHANGED promptVars
  BY <1>1 DEF promptVars, PromptTyped
<1>2. ASSUME NEW c \in Calls, NEW op, NEW r \in Receives(c, op), ListVersions(c, r) \/ FindTarget(c, r)
      PROVE  PromptTyped'
  BY <1>2, ReceivedIs, ReadTyped
<1>3. ASSUME NEW c \in Calls, FindTarget(c, prompt[c].req) PROVE PromptTyped'
  <2>1. RequestTyped(prompt[c].req)
    BY DEF PromptTyped, StateTyped
  <2> QED
    BY <1>3, <2>1, ReadTyped
<1>4. ASSUME NEW c \in Calls, PromptStops(c) PROVE PromptTyped'
  BY <1>4, ReadTyped
<1>5. ASSUME NEW r, DeactivateActive(r) \/ DeleteVersion(r) PROVE PromptTyped'
  <2>1. \A t \in templates' : TemplateTyped(t)
    BY <1>5, DeactivatedTyped DEF DeactivateActive, DeleteVersion, PromptTyped
  <2> QED
    BY <1>5, <2>1 DEF DeactivateActive, DeleteVersion, PromptTyped
<1> QED
  BY <1>1, <1>2, <1>3, <1>4, <1>5, SwitchTyped, PersistTyped DEF PromptNext

\* Whatever the requests of a prompt's owners do at the same time, and wherever
\* one stops: the templates, the owners and what CreatePromptUseCase and
\* ActivatePromptUseCase have read stay in their types; no number is out of reach.
THEOREM PromptTypeCorrect == PromptSpec => []PromptTypeOK
<1>1. PromptInit => PromptIInv /\ PromptTyped
  BY PromptInitIInv, PromptInitTyped
<1>2. PromptIInv /\ PromptTyped /\ [PromptNext]_promptVars => (PromptIInv /\ PromptTyped)'
  BY PromptIInvStep, PromptTypedStep
<1>3. PromptIInv /\ PromptTyped => PromptTypeOK
  <2> SUFFICES ASSUME PromptIInv, PromptTyped PROVE PromptTypeOK
    OBVIOUS
  <2>1. ASSUME NEW t \in templates
        PROVE  t \in [id : 1..inserted, owner : Owners, version : Versions,
                      active : BOOLEAN, overlapped : BOOLEAN]
    <3>1. IsTemplate(t) /\ TemplateTyped(t) /\ inserted \in 0..MaxTemplates /\ MaxTemplates \in Nat
      BY PromptAssumption DEF PromptIInv, PromptShapeInv, PromptTyped
    <3>2. t.version \in Versions
      BY <3>1 DEF IsTemplate, Versions
    <3> QED
      BY <3>1, <3>2 DEF IsTemplate, TemplateTyped
  <2> QED
    BY <2>1 DEF PromptTyped, PromptTypeOK, StateTyped, PromptPoints
<1> QED
  BY <1>1, <1>2, <1>3, PTL DEF PromptSpec

-----------------------------------------------------------------------------
(***************************************************************************)
(* What a processed document and the search index promise, for any number  *)
(* of documents, chunks, workers, attempts and faults.                     *)
(***************************************************************************)

Runs(c, d) == ingest[c].pc # "idle" /\ ingest[c].doc = d
RunsAt(c, d, pc) == Runs(c, d) /\ ingest[c].pc = pc

\* A run writes under its document's id, or under none if the document was gone.
KeyInv(c) ==
  ingest[c].pc # "idle" =>
    /\ ingest[c].doc \in Documents /\ ingest[c].key \in {ingest[c].doc, "undefined"}
    /\ ingest[c].key = "undefined" =>
         removal[ingest[c].doc] # "none" /\ "undefined" \in removedAmid

\* A document has a job from its upload on, and is gone only if it was removed.
LifeInv(d) ==
  /\ job[d].state = "none" => document[d] = "none"
  /\ (document[d] = "none" /\ removal[d] = "none") => job[d].state = "none"
  /\ \A c \in Calls : Runs(c, d) => job[d].state # "none"

\* A removal amid the ingestion is known, and without one nothing is written.
RemovalInv(d) ==
  /\ (removal[d] # "none" /\ Unfinished(d)) => d \in removedAmid /\ "undefined" \in removedAmid
  /\ (job[d].state = "none" \/ (removal[d] # "none" /\ d \notin removedAmid)) => chunks[d] = {}

\* As long as Bull has not handed the job out again, one run has it.
SoleInv(d) ==
  d \notin stalled =>
    \A c \in Calls : Runs(c, d) =>
      ingest[c].locked /\ job[d].state = "active" /\ \A e \in Calls : Runs(e, d) => e = c

\* Without a fault, the job of a processed document is over.
FreshInv(d) ==
  /\ (d \in stalled \/ job[d].stalls > 0) => callFaults > 0
  /\ (callFaults = 0 /\ Unfinished(d)) => document[d] # "processed"

\* What is or is about to be marked as processed has all its chunks, or a run is
\* about to write them.
WholeInv(d) ==
  removal[d] = "none" =>
    /\ d \notin stalled =>
         /\ \A c \in Calls : RunsAt(c, d, "markProcessed") => chunks[d] = ChunksOf
         /\ (job[d].state = "completed" /\ document[d] = "processed") => chunks[d] = ChunksOf
         /\ (job[d].state = "failed" /\ callFaults < 2) => document[d] # "processed"
    /\ (d \in stalled /\ callFaults < 2) =>
         \/ document[d] # "processed" /\ \A c \in Calls : ~RunsAt(c, d, "markProcessed")
         \/ chunks[d] = ChunksOf
         \/ \E c \in Calls : RunsAt(c, d, "upsert")

DocInv(d) == LifeInv(d) /\ RemovalInv(d) /\ SoleInv(d) /\ FreshInv(d) /\ WholeInv(d)

\* The invariant that the steps keep.
IngestIInv ==
  /\ IngestTypeOK /\ callFaults \in Nat
  /\ \A c \in Calls : KeyInv(c)
  /\ \A d \in Documents : DocInv(d)
  /\ chunks["undefined"] # {} => "undefined" \in removedAmid

-----------------------------------------------------------------------------
LEMMA UnfinishedRuns ==
  ASSUME NEW d
  PROVE  Unfinished(d) <=> \/ job[d].state \in {"enqueue", "waiting", "active"}
                           \/ \E c \in Calls : Runs(c, d)
BY DEF Unfinished, InFlight, Runs

LEMMA IngestInitIInv == IngestInit => IngestIInv
<1> SUFFICES ASSUME IngestInit PROVE IngestIInv
  OBVIOUS
<1>1. IngestTypeOK /\ callFaults \in Nat
  BY DEF IngestInit, IngestTypeOK, NoRun, Keys
<1>2. \A c \in Calls : KeyInv(c)
  BY DEF IngestInit, KeyInv, NoRun
<1>3. ASSUME NEW d \in Documents PROVE DocInv(d)
  <2>1. \A c \in Calls : ~Runs(c, d)
    BY DEF IngestInit, Runs, NoRun
  <2>2. ~Unfinished(d)
    BY <2>1, UnfinishedRuns DEF IngestInit
  <2>3. chunks[d] = {}
    BY DEF IngestInit, Keys
  <2> QED
    BY <2>1, <2>2, <2>3 DEF IngestInit, DocInv, LifeInv, RemovalInv, SoleInv, FreshInv, WholeInv, RunsAt
<1>4. chunks["undefined"] = {}
  BY DEF IngestInit, Keys
<1> QED
  BY <1>1, <1>2, <1>3, <1>4 DEF IngestIInv

\* The documents that a step does not touch keep their part of the invariant.
LEMMA OtherDocument ==
  ASSUME NEW d \in Documents, DocInv(d), callFaults \in Nat, callFaults' \in Nat,
         callFaults =< callFaults', removedAmid \subseteq removedAmid',
         d \in stalled' <=> d \in stalled, d \in removedAmid' <=> d \in removedAmid,
         job'[d] = job[d], document'[d] = document[d], chunks'[d] = chunks[d], removal'[d] = removal[d],
         \A c \in Calls : Runs(c, d)' <=> Runs(c, d),
         \A c \in Calls : Runs(c, d) => ingest'[c] = ingest[c]
  PROVE  DocInv(d)'
<1> USE DEF DocInv
<1>1. \A c \in Calls : \A pc : RunsAt(c, d, pc)' <=> RunsAt(c, d, pc)
  BY DEF RunsAt
<1>2. Unfinished(d)' <=> Unfinished(d)
  BY DEF Unfinished, InFlight, Runs
<1>3. LifeInv(d)'
  BY DEF LifeInv
<1>4. RemovalInv(d)'
  BY <1>2 DEF RemovalInv
<1>5. SoleInv(d)'
  BY DEF SoleInv
<1>6. FreshInv(d)'
  BY <1>2 DEF FreshInv
<1>7. WholeInv(d)'
  BY <1>1 DEF WholeInv, ChunksOf
<1> QED
  BY <1>3, <1>4, <1>5, <1>6, <1>7

\* A step on document k, and on runs of it, keeps the invariant if it keeps the
\* parts about k and its runs.
LEMMA StepOn ==
  ASSUME IngestIInv, NEW k \in Documents, IngestTypeOK', callFaults' \in Nat, callFaults =< callFaults',
         \A d \in Documents \ {k} :
           /\ job'[d] = job[d] /\ document'[d] = document[d] /\ chunks'[d] = chunks[d]
           /\ removal'[d] = removal[d],
         removedAmid' \in {removedAmid, removedAmid \cup {k, "undefined"}},
         stalled' \in {stalled, stalled \cup {k}},
         \A c \in Calls : \/ ingest'[c] = ingest[c]
                          \/ /\ ingest[c].pc # "idle" => ingest[c].doc = k
                             /\ ingest'[c].pc # "idle" => ingest'[c].doc = k,
         \A c \in Calls : KeyInv(c)', DocInv(k)',
         (chunks["undefined"] # {} => "undefined" \in removedAmid)'
  PROVE  IngestIInv'
<1> USE DEF IngestIInv
<1>1. ASSUME NEW d \in Documents, d # k PROVE DocInv(d)'
  <2>1. /\ d \in stalled' <=> d \in stalled
        /\ d \in removedAmid' <=> d \in removedAmid
        /\ removedAmid \subseteq removedAmid'
    BY <1>1, IngestAssumption
  <2>2. /\ \A c \in Calls : Runs(c, d)' <=> Runs(c, d)
        /\ \A c \in Calls : Runs(c, d) => ingest'[c] = ingest[c]
    BY <1>1 DEF Runs
  <2> QED
    BY <1>1, <2>1, <2>2, OtherDocument
<1> QED
  BY <1>1

-----------------------------------------------------------------------------
JobStates == {"none", "enqueue", "waiting", "active", "completed", "failed"}
Jobs == [state : JobStates, attempts : Nat, stalls : Nat]
Runnings == [pc : {"idle", "find", "delete", "upsert", "markProcessed", "markFailed"},
             doc : Keys, key : Keys, locked : BOOLEAN]

LEMMA JobStateTypes ==
  ASSUME job \in [Documents -> Jobs], NEW d, NEW s \in JobStates
  PROVE  [job EXCEPT ![d].state = s] \in [Documents -> Jobs]
<1>1. CASE d \in Documents
  BY <1>1 DEF Jobs
<1>2. CASE d \notin Documents
  BY <1>2
<1> QED
  BY <1>1, <1>2

LEMMA JobTypes ==
  ASSUME job \in [Documents -> Jobs], NEW d \in Documents, NEW j \in Jobs, job' = [job EXCEPT ![d] = j]
  PROVE  /\ job' \in [Documents -> Jobs] /\ job'[d] = j
         /\ \A k \in Documents : k # d => job'[k] = job[k]
OBVIOUS

LEMMA FinishTypes ==
  ASSUME IngestTypeOK, NEW c \in Calls, NEW ok, Finish(c, ok)
  PROVE  job' \in [Documents -> Jobs] /\ ingest' \in [Calls -> Runnings]
<1>1. NoRun \in Runnings
  BY DEF NoRun, Keys, Runnings
<1> DEFINE state == IF ok THEN "completed"
                    ELSE IF job[ingest[c].doc].attempts < MaxAttempts THEN "waiting" ELSE "failed"
<1>2. state \in JobStates /\ job \in [Documents -> Jobs]
  BY DEF JobStates, Jobs, IngestTypeOK
<1>3. job' = job \/ job' = [job EXCEPT ![ingest[c].doc].state = state]
  BY DEF Finish
<1> HIDE DEF state
<1>4. job' \in [Documents -> Jobs]
  BY <1>2, <1>3, JobStateTypes
<1> QED
  BY <1>1, <1>4 DEF Finish, IngestTypeOK, Runnings

\* What Bull does to a job that it finds without a lock.
LEMMA StallFacts ==
  ASSUME job \in [Documents -> Jobs], NEW d \in Documents, StallJob(d)
  PROVE  /\ job' \in [Documents -> Jobs]
         /\ \A k \in Documents : k # d => job'[k] = job[k]
         /\ job'[d].state \in {"waiting", "failed"}
         /\ job'[d].state = "failed" => job[d].stalls > 0
<1> DEFINE to == IF job[d].stalls < MaxStalledCount THEN "waiting" ELSE "failed"
       stalls == job[d].stalls + 1
<1>1. /\ to \in {"waiting", "failed"} /\ to \in JobStates
      /\ stalls \in Nat
      /\ to = "failed" => job[d].stalls > 0
  BY DEF JobStates, Jobs, MaxStalledCount
<1>2. job' = [job EXCEPT ![d].stalls = stalls, ![d].state = to]
  BY DEF StallJob
<1> HIDE DEF to, stalls
<1> DEFINE j == [job[d] EXCEPT !.stalls = stalls, !.state = to]
<1>3. job[d] \in [state : JobStates, attempts : Nat, stalls : Nat]
  BY DEF Jobs
<1>4. j \in [state : JobStates, attempts : Nat, stalls : Nat] /\ j.state = to
  BY <1>1, <1>3
<1>5. job' = [job EXCEPT ![d] = j] /\ j \in Jobs
  BY <1>2, <1>4 DEF Jobs
<1> HIDE DEF j
<1>6. /\ job' \in [Documents -> Jobs] /\ job'[d] = j
      /\ \A k \in Documents : k # d => job'[k] = job[k]
  BY <1>5, JobTypes
<1> QED
  BY <1>1, <1>4, <1>6

LEMMA StepTypes ==
  ASSUME IngestTypeOK, NEW c \in Calls, NEW from, IngestStep(c, from, "delete") \/ IngestStep(c, from, "upsert")
           \/ IngestStep(c, from, "markProcessed") \/ IngestStep(c, from, "markFailed")
  PROVE  ingest' \in [Calls -> Runnings]
<1>1. ingest \in [Calls -> Runnings]
  BY DEF IngestTypeOK, Runnings
<1>2. PICK to \in {"delete", "upsert", "markProcessed", "markFailed"} :
        ingest' = [ingest EXCEPT ![c].pc = to]
  BY DEF IngestStep
<1>3. [ingest[c] EXCEPT !.pc = to] \in Runnings
  BY <1>1, <1>2 DEF Runnings
<1>4. ingest' = [ingest EXCEPT ![c] = [ingest[c] EXCEPT !.pc = to]]
  BY <1>2
<1> QED
  BY <1>1, <1>3, <1>4

\* Each step keeps the types.
LEMMA TypeStep ==
  ASSUME IngestIInv, [IngestNext]_ingestVars
  PROVE  IngestTypeOK' /\ callFaults' \in Nat /\ callFaults =< callFaults'
<1>0. IngestTypeOK /\ callFaults \in Nat /\ \A c \in Calls : KeyInv(c)
  BY DEF IngestIInv
<1>a. job \in [Documents -> Jobs] /\ {"waiting", "failed"} \subseteq JobStates
  BY <1>0 DEF IngestTypeOK, Jobs, JobStates
<1>b. ASSUME NEW d \in Documents, NEW s \in JobStates, job' = [job EXCEPT ![d].state = s]
      PROVE  job' \in [Documents -> Jobs]
  BY <1>a, <1>b DEF Jobs
<1>c. ASSUME NEW d \in Documents, StallJob(d) PROVE job' \in [Documents -> Jobs]
  BY <1>a, <1>c, StallFacts
<1> USE <1>0 DEF IngestTypeOK
<1>1. ASSUME NEW d \in Documents, Upload(d) PROVE IngestTypeOK'
  BY <1>1 DEF Upload
<1>2. ASSUME NEW d \in Documents, Enqueue(d) \/ EnqueueThrows(d) PROVE IngestTypeOK'
  <2>1. job' \in [Documents -> Jobs]
    BY <1>a, <1>b, <1>2 DEF Enqueue, EnqueueThrows
  <2> QED
    BY <1>2, <2>1 DEF Enqueue, EnqueueThrows, JobStates, Jobs
<1>3. ASSUME NEW d \in Documents, RemoveChunks(d) PROVE IngestTypeOK'
  <2>1. removedAmid' \subseteq Keys
    BY <1>3 DEF RemoveChunks, Keys
  <2> QED
    BY <1>3, <2>1 DEF RemoveChunks
<1>4. ASSUME NEW d \in Documents, RemoveDocument(d) \/ RemoveThrows(d) PROVE IngestTypeOK'
  BY <1>4 DEF RemoveDocument, RemoveThrows
<1>5. ASSUME NEW c \in Calls, NEW d \in Documents, TakeJob(c, d) PROVE IngestTypeOK'
  <2>1. d \in Keys
    BY DEF Keys
  <2>2. job' \in [Documents -> Jobs]
    <3> DEFINE attempts == job[d].attempts + 1
    <3>1. job' = [job EXCEPT ![d].state = "active", ![d].attempts = attempts]
      BY <1>5 DEF TakeJob
    <3>2. attempts \in Nat /\ "active" \in JobStates
      BY <1>a DEF Jobs, JobStates
    <3> HIDE DEF attempts
    <3> DEFINE j == [job[d] EXCEPT !.state = "active", !.attempts = attempts]
    <3>3. j \in Jobs
      BY <1>a, <3>2 DEF Jobs
    <3>4. job' = [job EXCEPT ![d] = j]
      BY <1>a, <3>1 DEF Jobs
    <3> HIDE DEF j
    <3> QED
      BY <1>a, <3>3, <3>4, JobTypes
  <2> QED
    BY <1>5, <2>1, <2>2 DEF TakeJob, Jobs, JobStates
<1>6. ASSUME NEW c \in Calls, FindById(c) PROVE IngestTypeOK'
  <2> DEFINE key == IF document[ingest[c].doc] = "none" THEN "undefined" ELSE ingest[c].key
  <2>1. key \in Keys
    BY DEF Keys
  <2>2. ingest' = [ingest EXCEPT ![c].pc = "delete", ![c].key = key]
    BY <1>6 DEF FindById
  <2> HIDE DEF key
  <2>3. ingest' \in [Calls -> Runnings]
    BY <2>1, <2>2 DEF Runnings
  <2> QED
    BY <1>6, <2>3 DEF FindById, Runnings
<1>7. ASSUME NEW c \in Calls, PrepareThrows(c) \/ DeleteByDocumentId(c) \/ Upsert(c) \/ UpsertThrows(c)
      PROVE  IngestTypeOK'
  <2>1. ingest' \in [Calls -> Runnings]
    BY <1>7, StepTypes DEF PrepareThrows, DeleteByDocumentId, Upsert, UpsertThrows
  <2>2. chunks' \in [Keys -> SUBSET ChunksOf]
    <3>1. \A n \in 0..(LastChunk - 1) : 1..n \subseteq ChunksOf
      BY IngestAssumption DEF ChunksOf
    <3> QED
      BY <1>7, <3>1 DEF PrepareThrows, DeleteByDocumentId, Upsert, UpsertThrows
  <2> QED
    BY <1>7, <2>1, <2>2 DEF PrepareThrows, DeleteByDocumentId, Upsert, UpsertThrows, ChunksOf, Runnings
<1>8. ASSUME NEW k PROVE /\ Update(k, "processed") \in [Documents -> {"none", "pending", "processed", "failed"}]
                        /\ Update(k, "failed") \in [Documents -> {"none", "pending", "processed", "failed"}]
  BY DEF Update
<1>9. ASSUME NEW c \in Calls, MarkProcessed(c) \/ MarkFailed(c) \/ RunThrows(c) PROVE IngestTypeOK'
  <2>1. \E ok \in BOOLEAN : Finish(c, ok)
    BY <1>9 DEF MarkProcessed, MarkFailed, RunThrows
  <2>2. job' \in [Documents -> Jobs] /\ ingest' \in [Calls -> Runnings]
    BY <2>1, FinishTypes
  <2>3. document' \in [Documents -> {"none", "pending", "processed", "failed"}]
    <3>1. document' \in {document, Update(ingest[c].key, "processed"), Update(ingest[c].key, "failed")}
      BY <1>9 DEF MarkProcessed, MarkFailed, RunThrows
    <3> QED
      BY <1>8, <3>1
  <2> QED
    BY <1>9, <2>2, <2>3 DEF MarkProcessed, MarkFailed, RunThrows, ChunksOf, Jobs, JobStates, Runnings
<1>10. ASSUME NEW c \in Calls, Stall(c) PROVE IngestTypeOK'
  <2>1. stalled' \subseteq Documents
    BY <1>10 DEF Stall, KeyInv
  <2>2. job' \in [Documents -> Jobs]
    BY <1>10, <1>c DEF Stall, KeyInv
  <2>3. ingest' \in [Calls -> Runnings]
    BY <1>10 DEF Stall, Runnings
  <2> QED
    BY <1>10, <2>1, <2>2, <2>3 DEF Stall, JobStates, Jobs, Runnings
<1>11. NoRun \in Runnings
  BY DEF NoRun, Keys, Runnings
<1>12. ASSUME NEW c \in Calls, WorkerDies(c) PROVE IngestTypeOK'
  <2>1. document' \in [Documents -> {"none", "pending", "processed", "failed"}]
    BY <1>8, <1>12 DEF WorkerDies
  <2>2. job' \in [Documents -> Jobs]
    BY <1>12, <1>a, <1>c DEF WorkerDies, KeyInv
  <2> QED
    BY <1>11, <1>12, <2>1, <2>2 DEF WorkerDies, JobStates, Jobs, Runnings
<1>13. CASE UNCHANGED ingestVars
  BY <1>13 DEF ingestVars, ChunksOf
<1>14. callFaults' = callFaults \/ callFaults' = callFaults + 1
  BY DEF IngestNext, ingestVars, Upload, Enqueue, EnqueueThrows, RemoveChunks, RemoveDocument, RemoveThrows,
         TakeJob, FindById, PrepareThrows, DeleteByDocumentId, Upsert, UpsertThrows, MarkProcessed,
         MarkFailed, RunThrows, Stall, WorkerDies, JobFault
<1> QED
  BY <1>1, <1>2, <1>3, <1>4, <1>5, <1>6, <1>7, <1>9, <1>10, <1>12, <1>13, <1>14 DEF IngestNext

-----------------------------------------------------------------------------
\* What is known of the document of a run.
LEMMA RunFacts ==
  ASSUME IngestIInv, NEW c \in Calls, ingest[c].pc # "idle", NEW d, d = ingest[c].doc
  PROVE  /\ d \in Documents /\ d # "undefined" /\ DocInv(d) /\ Runs(c, d) /\ Unfinished(d)
         /\ job[d].state # "none" /\ ingest[c].key \in {d, "undefined"}
         /\ removal[d] = "none" => ingest[c].key = d /\ document[d] # "none"
         /\ removal[d] # "none" => d \in removedAmid /\ "undefined" \in removedAmid
         /\ ingest[c].key = "undefined" => "undefined" \in removedAmid
         /\ d \notin stalled => /\ ingest[c].locked /\ job[d].state = "active"
                               /\ \A e \in Calls : Runs(e, d) => e = c
<1>1. KeyInv(c) /\ d \in Documents /\ DocInv(d) /\ Runs(c, d)
  BY DEF IngestIInv, KeyInv, Runs
<1>2. Unfinished(d)
  BY <1>1, UnfinishedRuns
<1> QED
  BY <1>1, <1>2, IngestAssumption DEF KeyInv, DocInv, LifeInv, RemovalInv, SoleInv

LEMMA KeyFrame ==
  ASSUME NEW e, KeyInv(e), ingest'[e] = ingest[e], removedAmid \subseteq removedAmid',
         \A d \in Documents : removal[d] # "none" => removal'[d] # "none"
  PROVE  KeyInv(e)'
BY DEF KeyInv

\* Steps that move a run of document d on and may write under its key.
LEMMA MoveSafe ==
  ASSUME IngestIInv, IngestTypeOK', callFaults' \in Nat, callFaults =< callFaults',
         NEW c \in Calls, ingest[c].pc # "idle", NEW d, d = ingest[c].doc,
         ingest'[c].pc # "idle", ingest'[c].doc = d, ingest'[c].locked = ingest[c].locked, KeyInv(c)',
         \A e \in Calls : e # c => ingest'[e] = ingest[e],
         \A k \in Keys : k # ingest[c].key => chunks'[k] = chunks[k],
         UNCHANGED <<document, job, removal, removedAmid, stalled>>,
         WholeInv(d)'
  PROVE  IngestIInv'
<1>1. /\ d \in Documents /\ d # "undefined" /\ DocInv(d) /\ Runs(c, d) /\ Unfinished(d)
      /\ job[d].state # "none" /\ ingest[c].key \in {d, "undefined"}
      /\ removal[d] # "none" => d \in removedAmid /\ "undefined" \in removedAmid
      /\ ingest[c].key = "undefined" => "undefined" \in removedAmid
  BY RunFacts
<1>2. \A e \in Calls : Runs(e, d)' <=> Runs(e, d)
  BY DEF Runs
<1>3. LifeInv(d)'
  BY <1>1, <1>2 DEF DocInv, LifeInv
<1>4. RemovalInv(d)'
  BY <1>1 DEF RemovalInv
<1>5. SoleInv(d)'
  BY <1>1, <1>2 DEF DocInv, SoleInv
<1>6. FreshInv(d)'
  BY <1>1 DEF DocInv, FreshInv, IngestIInv
<1>7. DocInv(d)'
  BY <1>3, <1>4, <1>5, <1>6 DEF DocInv
<1>8. \A e \in Calls : KeyInv(e)'
  BY KeyFrame DEF IngestIInv
<1>9. (chunks["undefined"] # {} => "undefined" \in removedAmid)'
  BY <1>1 DEF IngestIInv, Keys
<1>10. \A k \in Documents \ {d} : chunks'[k] = chunks[k]
  BY <1>1, IngestAssumption DEF Keys
<1> QED
  BY <1>1, <1>7, <1>8, <1>9, <1>10, StepOn DEF Runs

LEMMA StepMoves ==
  ASSUME IngestTypeOK, NEW c \in Calls, NEW from, NEW to, IngestStep(c, from, to)
  PROVE  /\ ingest[c].pc = from /\ ingest'[c].pc = to /\ ingest'[c].doc = ingest[c].doc
         /\ ingest'[c].key = ingest[c].key /\ ingest'[c].locked = ingest[c].locked
         /\ \A e \in Calls : e # c => ingest'[e] = ingest[e]
BY DEF IngestStep, IngestTypeOK

LEMMA FindSafe ==
  ASSUME IngestIInv, IngestTypeOK', NEW c \in Calls, FindById(c)
  PROVE  IngestIInv'
<1>0. PICK d : d = ingest[c].doc
  OBVIOUS
<1>1. /\ ingest[c].pc = "find" /\ ingest'[c].pc = "delete" /\ ingest'[c].doc = d
      /\ ingest'[c].locked = ingest[c].locked
      /\ ingest'[c].key = IF document[d] = "none" THEN "undefined" ELSE ingest[c].key
      /\ \A e \in Calls : e # c => ingest'[e] = ingest[e]
      /\ UNCHANGED <<document, chunks, job, removal, removedAmid, stalled, callFaults>>
  BY <1>0 DEF IngestIInv, IngestTypeOK, FindById
<1>2. /\ d \in Documents /\ DocInv(d) /\ ingest[c].key \in {d, "undefined"}
      /\ removal[d] = "none" => ingest[c].key = d /\ document[d] # "none"
      /\ removal[d] # "none" => d \in removedAmid /\ "undefined" \in removedAmid
  BY <1>0, <1>1, RunFacts
<1>3. KeyInv(c)'
  BY <1>1, <1>2, IngestAssumption DEF KeyInv
<1>4. \A e \in Calls : /\ RunsAt(e, d, "markProcessed")' <=> RunsAt(e, d, "markProcessed")
                       /\ RunsAt(e, d, "upsert")' <=> RunsAt(e, d, "upsert")
  BY <1>1 DEF RunsAt, Runs
<1>5. WholeInv(d)'
  BY <1>1, <1>2, <1>4 DEF DocInv, WholeInv, ChunksOf
<1>6. callFaults \in Nat
  BY DEF IngestIInv
<1> QED
  BY <1>0, <1>1, <1>3, <1>5, <1>6, MoveSafe

\* Steps of a run between its reads and its marks keep KeyInv(c), as do faults.
LEMMA WriteFacts ==
  ASSUME IngestIInv, NEW c \in Calls, NEW from, NEW to, IngestStep(c, from, to),
         from # "idle", to # "idle", NEW d, d = ingest[c].doc,
         UNCHANGED <<document, job, removal, removedAmid, stalled>>,
         callFaults' = callFaults \/ JobFault
  PROVE  /\ RunsAt(c, d, from) /\ ingest'[c].pc = to /\ ingest'[c].doc = d
         /\ ingest'[c].locked = ingest[c].locked /\ KeyInv(c)'
         /\ \A e \in Calls : e # c => ingest'[e] = ingest[e]
         /\ d \in Documents /\ DocInv(d) /\ (removal[d] = "none" => ingest[c].key = d)
         /\ d \notin stalled => job[d].state = "active" /\ \A e \in Calls : Runs(e, d) => e = c
         /\ callFaults \in Nat /\ callFaults' \in Nat /\ callFaults =< callFaults'
         /\ (JobFault /\ d \in stalled) => ~(callFaults' < 2)
<1>1. /\ ingest[c].pc = from /\ ingest'[c].pc = to /\ ingest'[c].doc = ingest[c].doc
      /\ ingest'[c].key = ingest[c].key /\ ingest'[c].locked = ingest[c].locked
      /\ \A e \in Calls : e # c => ingest'[e] = ingest[e]
  BY StepMoves DEF IngestIInv
<1>2. /\ d \in Documents /\ DocInv(d) /\ Runs(c, d) /\ (removal[d] = "none" => ingest[c].key = d)
      /\ d \notin stalled => job[d].state = "active" /\ \A e \in Calls : Runs(e, d) => e = c
  BY <1>1, RunFacts
<1>3. KeyInv(c)'
  BY <1>1 DEF IngestIInv, KeyInv
<1>4. callFaults \in Nat /\ callFaults' \in Nat /\ callFaults =< callFaults'
  BY DEF IngestIInv, JobFault
<1>5. (JobFault /\ d \in stalled) => ~(callFaults' < 2)
  BY <1>2, <1>4 DEF DocInv, FreshInv, JobFault
<1> QED
  BY <1>1, <1>2, <1>3, <1>4, <1>5 DEF RunsAt

LEMMA PrepareThrowsSafe ==
  ASSUME IngestIInv, IngestTypeOK', NEW c \in Calls, PrepareThrows(c)
  PROVE  IngestIInv'
<1>0. PICK d : d = ingest[c].doc
  OBVIOUS
<1>a. /\ IngestStep(c, "delete", "markFailed") /\ UNCHANGED <<document, job, removal, removedAmid, stalled>>
      /\ JobFault
  BY DEF PrepareThrows
<1>1. /\ RunsAt(c, d, "delete") /\ ingest'[c].pc = "markFailed" /\ ingest'[c].doc = d
      /\ ingest'[c].locked = ingest[c].locked /\ KeyInv(c)'
      /\ \A e \in Calls : e # c => ingest'[e] = ingest[e]
      /\ d \in Documents /\ DocInv(d) /\ (removal[d] = "none" => ingest[c].key = d)
      /\ d \notin stalled => job[d].state = "active" /\ \A e \in Calls : Runs(e, d) => e = c
      /\ callFaults \in Nat /\ callFaults' \in Nat /\ callFaults =< callFaults'
      /\ (JobFault /\ d \in stalled) => ~(callFaults' < 2)
  BY <1>0, <1>a, WriteFacts
<1>2. \A k \in Keys : k # ingest[c].key => chunks'[k] = chunks[k]
  BY DEF PrepareThrows
<1>3. WholeInv(d)'
  <2>1. \A e \in Calls : /\ RunsAt(e, d, "markProcessed")' <=> RunsAt(e, d, "markProcessed")
                         /\ RunsAt(e, d, "upsert")' <=> RunsAt(e, d, "upsert")
    BY <1>1 DEF RunsAt, Runs
  <2>2. chunks' = chunks
    BY DEF PrepareThrows
  <2> QED
    BY <1>a, <1>1, <2>1, <2>2 DEF DocInv, WholeInv, ChunksOf
<1> QED
  BY <1>0, <1>a, <1>1, <1>2, <1>3, MoveSafe DEF RunsAt, Runs

LEMMA IngestDeleteSafe ==
  ASSUME IngestIInv, IngestTypeOK', NEW c \in Calls, DeleteByDocumentId(c)
  PROVE  IngestIInv'
<1>0. PICK d : d = ingest[c].doc
  OBVIOUS
<1>a. /\ IngestStep(c, "delete", "upsert") /\ UNCHANGED <<document, job, removal, removedAmid, stalled>>
      /\ callFaults' = callFaults
  BY DEF DeleteByDocumentId
<1>1. /\ RunsAt(c, d, "delete") /\ ingest'[c].pc = "upsert" /\ ingest'[c].doc = d
      /\ ingest'[c].locked = ingest[c].locked /\ KeyInv(c)'
      /\ \A e \in Calls : e # c => ingest'[e] = ingest[e]
      /\ d \in Documents /\ DocInv(d) /\ (removal[d] = "none" => ingest[c].key = d)
      /\ d \notin stalled => job[d].state = "active" /\ \A e \in Calls : Runs(e, d) => e = c
      /\ callFaults \in Nat /\ callFaults' \in Nat /\ callFaults =< callFaults'
      /\ (JobFault /\ d \in stalled) => ~(callFaults' < 2)
  BY <1>0, <1>a, WriteFacts
<1>2. \A k \in Keys : k # ingest[c].key => chunks'[k] = chunks[k]
  BY DEF DeleteByDocumentId, IngestIInv, IngestTypeOK
<1>3. WholeInv(d)'
  <2>1. RunsAt(c, d, "upsert")'
    BY <1>1 DEF RunsAt, Runs
  <2>2. d \notin stalled => \A e \in Calls : ~RunsAt(e, d, "markProcessed")'
    BY <1>1 DEF RunsAt, Runs
  <2> QED
    BY <1>a, <1>1, <2>1, <2>2 DEF WholeInv
<1> QED
  BY <1>0, <1>a, <1>1, <1>2, <1>3, MoveSafe DEF RunsAt, Runs

LEMMA UpsertSafe ==
  ASSUME IngestIInv, IngestTypeOK', NEW c \in Calls, Upsert(c)
  PROVE  IngestIInv'
<1>0. PICK d : d = ingest[c].doc
  OBVIOUS
<1>a. /\ IngestStep(c, "upsert", "markProcessed") /\ UNCHANGED <<document, job, removal, removedAmid, stalled>>
      /\ callFaults' = callFaults
  BY DEF Upsert
<1>1. /\ RunsAt(c, d, "upsert") /\ ingest'[c].pc = "markProcessed" /\ ingest'[c].doc = d
      /\ ingest'[c].locked = ingest[c].locked /\ KeyInv(c)'
      /\ \A e \in Calls : e # c => ingest'[e] = ingest[e]
      /\ d \in Documents /\ DocInv(d) /\ (removal[d] = "none" => ingest[c].key = d)
      /\ d \notin stalled => job[d].state = "active" /\ \A e \in Calls : Runs(e, d) => e = c
      /\ callFaults \in Nat /\ callFaults' \in Nat /\ callFaults =< callFaults'
      /\ (JobFault /\ d \in stalled) => ~(callFaults' < 2)
  BY <1>0, <1>a, WriteFacts
<1>2. \A k \in Keys : k # ingest[c].key => chunks'[k] = chunks[k]
  BY DEF Upsert, IngestIInv, IngestTypeOK
<1>3. WholeInv(d)'
  <2>1. removal[d] = "none" => chunks'[d] = ChunksOf
    BY <1>1 DEF Upsert, IngestIInv, IngestTypeOK, Keys
  <2> QED
    BY <1>a, <1>1, <2>1 DEF WholeInv, ChunksOf
<1> QED
  BY <1>0, <1>a, <1>1, <1>2, <1>3, MoveSafe DEF RunsAt, Runs

LEMMA UpsertThrowsSafe ==
  ASSUME IngestIInv, IngestTypeOK', NEW c \in Calls, UpsertThrows(c)
  PROVE  IngestIInv'
<1>0. PICK d : d = ingest[c].doc
  OBVIOUS
<1>a. /\ IngestStep(c, "upsert", "markFailed") /\ UNCHANGED <<document, job, removal, removedAmid, stalled>>
      /\ JobFault
  BY DEF UpsertThrows
<1>1. /\ RunsAt(c, d, "upsert") /\ ingest'[c].pc = "markFailed" /\ ingest'[c].doc = d
      /\ ingest'[c].locked = ingest[c].locked /\ KeyInv(c)'
      /\ \A e \in Calls : e # c => ingest'[e] = ingest[e]
      /\ d \in Documents /\ DocInv(d) /\ (removal[d] = "none" => ingest[c].key = d)
      /\ d \notin stalled => job[d].state = "active" /\ \A e \in Calls : Runs(e, d) => e = c
      /\ callFaults \in Nat /\ callFaults' \in Nat /\ callFaults =< callFaults'
      /\ (JobFault /\ d \in stalled) => ~(callFaults' < 2)
  BY <1>0, <1>a, WriteFacts
<1>2. \A k \in Keys : k # ingest[c].key => chunks'[k] = chunks[k]
  BY DEF UpsertThrows, IngestIInv, IngestTypeOK
<1>3. WholeInv(d)'
  <2>1. d \notin stalled => \A e \in Calls : ~RunsAt(e, d, "markProcessed")'
    BY <1>1 DEF RunsAt, Runs
  <2> QED
    BY <1>a, <1>1, <2>1 DEF WholeInv
<1> QED
  BY <1>0, <1>a, <1>1, <1>2, <1>3, MoveSafe DEF RunsAt, Runs

-----------------------------------------------------------------------------
\* Steps that end the run c of document d.
LEMMA EndSafe ==
  ASSUME IngestIInv, IngestTypeOK', callFaults' \in Nat, callFaults =< callFaults',
         NEW c \in Calls, ingest[c].pc # "idle", NEW d, d = ingest[c].doc,
         ingest' = [ingest EXCEPT ![c] = NoRun], UNCHANGED <<chunks, removal, removedAmid, stalled>>,
         \A k \in Documents : k # d => document'[k] = document[k] /\ job'[k] = job[k],
         document'[d] = "none" <=> document[d] = "none", job'[d].state # "none",
         callFaults' = 0 => document'[d] # "processed" \/ job'[d].state = "completed",
         job'[d].stalls = job[d].stalls \/ callFaults' > 0, WholeInv(d)'
  PROVE  IngestIInv'
<1>1. /\ d \in Documents /\ d # "undefined" /\ DocInv(d) /\ Runs(c, d) /\ Unfinished(d)
      /\ job[d].state # "none"
      /\ removal[d] # "none" => d \in removedAmid /\ "undefined" \in removedAmid
      /\ d \notin stalled => \A e \in Calls : Runs(e, d) => e = c
  BY RunFacts
<1>2. ingest'[c] = NoRun /\ \A e \in Calls : e # c => ingest'[e] = ingest[e]
  BY DEF IngestIInv, IngestTypeOK
<1>3. \A e \in Calls : Runs(e, d)' <=> Runs(e, d) /\ e # c
  BY <1>2 DEF Runs, NoRun
<1>4. LifeInv(d)'
  BY <1>1, <1>3 DEF DocInv, LifeInv
<1>5. RemovalInv(d)'
  BY <1>1 DEF RemovalInv, DocInv
<1>6. SoleInv(d)'
  BY <1>1, <1>3 DEF SoleInv
<1>7. FreshInv(d)'
  <2>1. (d \in stalled' \/ job'[d].stalls > 0) => callFaults' > 0
    BY <1>1 DEF DocInv, FreshInv, IngestIInv
  <2>2. ASSUME callFaults' = 0, job'[d].state = "completed" PROVE ~Unfinished(d)'
    <3>1. d \notin stalled
      BY <1>1, <2>1, <2>2
    <3>2. \A e \in Calls : ~Runs(e, d)'
      BY <1>1, <1>3, <3>1
    <3> QED
      BY <2>2, <3>2 DEF Unfinished, InFlight, Runs
  <2> QED
    BY <2>1, <2>2 DEF FreshInv
<1>8. DocInv(d)'
  BY <1>4, <1>5, <1>6, <1>7 DEF DocInv
<1>9. \A e \in Calls : KeyInv(e)'
  <2>1. KeyInv(c)'
    BY <1>2 DEF KeyInv, NoRun
  <2> QED
    BY <1>2, <2>1, KeyFrame DEF IngestIInv
<1>10. (chunks["undefined"] # {} => "undefined" \in removedAmid)'
  BY DEF IngestIInv
<1>11. \A e \in Calls : \/ ingest'[e] = ingest[e]
                        \/ /\ ingest[e].pc # "idle" => ingest[e].doc = d
                           /\ ingest'[e].pc # "idle" => ingest'[e].doc = d
  BY <1>2 DEF NoRun
<1>12. \A k \in Documents \ {d} : /\ job'[k] = job[k] /\ document'[k] = document[k]
                                  /\ chunks'[k] = chunks[k] /\ removal'[k] = removal[k]
  OBVIOUS
<1> QED
  BY <1>1, <1>8, <1>9, <1>10, <1>11, <1>12, StepOn

\* What the last steps of a run c write.
LEMMA EndFacts ==
  ASSUME IngestIInv, NEW c \in Calls, NEW d, d = ingest[c].doc, ingest[c].pc # "idle",
         ingest' = [ingest EXCEPT ![c] = NoRun]
  PROVE  /\ d \in Documents /\ DocInv(d) /\ Runs(c, d) /\ Unfinished(d) /\ job[d].state # "none"
         /\ ingest[c].key \in {d, "undefined"}
         /\ removal[d] = "none" => ingest[c].key = d /\ document[d] # "none"
         /\ d \notin stalled => /\ ingest[c].locked
                               /\ \A e \in Calls : ~Runs(e, d)'
         /\ \A e \in Calls : \A pc : RunsAt(e, d, pc)' <=> RunsAt(e, d, pc) /\ e # c
<1>1. ingest'[c] = NoRun /\ \A e \in Calls : e # c => ingest'[e] = ingest[e]
  BY DEF IngestIInv, IngestTypeOK
<1>2. \A e \in Calls : Runs(e, d)' <=> Runs(e, d) /\ e # c
  BY <1>1 DEF Runs, NoRun
<1>3. \A e \in Calls : \A pc : RunsAt(e, d, pc)' <=> RunsAt(e, d, pc) /\ e # c
  BY <1>1, <1>2 DEF RunsAt
<1> QED
  BY <1>2, <1>3, RunFacts

LEMMA UpdateFacts ==
  ASSUME IngestTypeOK, NEW d \in Documents, NEW k \in {d, "undefined"}, NEW s
  PROVE  /\ \A e \in Documents : e # d => Update(k, s)[e] = document[e]
         /\ Update(k, s)[d] = IF k = d /\ document[d] # "none" THEN s ELSE document[d]
BY IngestAssumption DEF Update, IngestTypeOK

\* What Bull does to the job.
LEMMA FinishFacts ==
  ASSUME IngestTypeOK, NEW c \in Calls, NEW ok \in BOOLEAN, Finish(c, ok), NEW d \in Documents,
         d = ingest[c].doc, job[d].state # "none"
  PROVE  /\ ingest' = [ingest EXCEPT ![c] = NoRun]
         /\ \A k \in Documents : k # d => job'[k] = job[k]
         /\ ~ingest[c].locked => job'[d] = job[d]
         /\ (ingest[c].locked /\ ok) => job'[d].state = "completed"
         /\ (ingest[c].locked /\ ~ok) => job'[d].state \in {"waiting", "failed"}
         /\ job'[d].state # "none" /\ job'[d].stalls = job[d].stalls
<1> DEFINE state == IF ok THEN "completed"
                    ELSE IF job[d].attempts < MaxAttempts THEN "waiting" ELSE "failed"
<1>1. /\ ingest' = [ingest EXCEPT ![c] = NoRun]
      /\ job' = IF ~ingest[c].locked THEN job ELSE [job EXCEPT ![d].state = state]
  BY DEF Finish
<1>2. (ok => state = "completed") /\ (~ok => state \in {"waiting", "failed"})
  OBVIOUS
<1>3. state # "none"
  OBVIOUS
<1> HIDE DEF state
<1>4. (ingest[c].locked => job'[d].state = state) /\ job'[d].stalls = job[d].stalls
  BY <1>1 DEF IngestTypeOK
<1> QED
  BY <1>1, <1>2, <1>3, <1>4 DEF IngestTypeOK

LEMMA MarkProcessedSafe ==
  ASSUME IngestIInv, IngestTypeOK', NEW c \in Calls, MarkProcessed(c)
  PROVE  IngestIInv'
<1>0. PICK d : d = ingest[c].doc
  OBVIOUS
<1>1. /\ ingest[c].pc = "markProcessed" /\ document' = Update(ingest[c].key, "processed")
      /\ Finish(c, TRUE) /\ UNCHANGED <<chunks, removal, removedAmid, stalled, callFaults>>
      /\ ingest' = [ingest EXCEPT ![c] = NoRun] /\ IngestTypeOK /\ callFaults \in Nat
  BY DEF MarkProcessed, Finish, IngestIInv
<1>2. /\ d \in Documents /\ DocInv(d) /\ Runs(c, d) /\ Unfinished(d) /\ job[d].state # "none"
      /\ ingest[c].key \in {d, "undefined"}
      /\ removal[d] = "none" => ingest[c].key = d /\ document[d] # "none"
      /\ d \notin stalled => /\ ingest[c].locked
                            /\ \A e \in Calls : ~Runs(e, d)'
      /\ \A e \in Calls : \A pc : RunsAt(e, d, pc)' <=> RunsAt(e, d, pc) /\ e # c
  BY <1>0, <1>1, EndFacts
<1>3. /\ \A k \in Documents : k # d => document'[k] = document[k]
      /\ document'[d] = IF ingest[c].key = d /\ document[d] # "none" THEN "processed" ELSE document[d]
  BY <1>1, <1>2, UpdateFacts
<1>4. /\ \A k \in Documents : k # d => job'[k] = job[k]
      /\ ingest[c].locked => job'[d].state = "completed"
      /\ job'[d].state # "none" /\ job'[d].stalls = job[d].stalls
  BY <1>0, <1>1, <1>2, FinishFacts
<1>5. callFaults' = 0 => document'[d] # "processed" \/ job'[d].state = "completed"
  BY <1>1, <1>2, <1>4 DEF DocInv, FreshInv
<1>6. RunsAt(c, d, "markProcessed") /\ ~RunsAt(c, d, "upsert")
  BY <1>1, <1>2 DEF RunsAt
<1>7. WholeInv(d)'
  <2> SUFFICES ASSUME removal[d] = "none" PROVE WholeInv(d)'
    BY <1>1 DEF WholeInv
  <2>1. CASE d \notin stalled
    BY <1>1, <1>2, <1>4, <1>6, <2>1 DEF DocInv, WholeInv, ChunksOf, RunsAt
  <2>2. CASE d \in stalled
    BY <1>1, <1>2, <1>6, <2>2 DEF DocInv, WholeInv, ChunksOf
  <2> QED
    BY <2>1, <2>2
<1>8. /\ callFaults' \in Nat /\ callFaults =< callFaults' /\ ingest[c].pc # "idle"
      /\ UNCHANGED <<chunks, removal, removedAmid, stalled>>
      /\ \A k \in Documents : k # d => document'[k] = document[k] /\ job'[k] = job[k]
      /\ document'[d] = "none" <=> document[d] = "none"
      /\ callFaults' = 0 => document'[d] # "processed" \/ job'[d].state = "completed"
  BY <1>1, <1>3, <1>4, <1>5
<1> QED
  BY <1>0, <1>1, <1>4, <1>7, <1>8, EndSafe

LEMMA MarkFailedSafe ==
  ASSUME IngestIInv, IngestTypeOK', NEW c \in Calls, MarkFailed(c)
  PROVE  IngestIInv'
<1>0. PICK d : d = ingest[c].doc
  OBVIOUS
<1>1. /\ ingest[c].pc = "markFailed" /\ document' = Update(ingest[c].key, "failed")
      /\ Finish(c, FALSE) /\ UNCHANGED <<chunks, removal, removedAmid, stalled, callFaults>>
      /\ ingest' = [ingest EXCEPT ![c] = NoRun] /\ IngestTypeOK /\ callFaults \in Nat
  BY DEF MarkFailed, Finish, IngestIInv
<1>2. /\ d \in Documents /\ DocInv(d) /\ Runs(c, d) /\ Unfinished(d) /\ job[d].state # "none"
      /\ ingest[c].key \in {d, "undefined"}
      /\ removal[d] = "none" => ingest[c].key = d /\ document[d] # "none"
      /\ d \notin stalled => /\ ingest[c].locked
                            /\ \A e \in Calls : ~Runs(e, d)'
      /\ \A e \in Calls : \A pc : RunsAt(e, d, pc)' <=> RunsAt(e, d, pc) /\ e # c
  BY <1>0, <1>1, EndFacts
<1>3. /\ \A k \in Documents : k # d => document'[k] = document[k]
      /\ document'[d] = IF ingest[c].key = d /\ document[d] # "none" THEN "failed" ELSE document[d]
  BY <1>1, <1>2, UpdateFacts
<1>4. /\ \A k \in Documents : k # d => job'[k] = job[k]
      /\ ingest[c].locked => job'[d].state \in {"waiting", "failed"}
      /\ job'[d].state # "none" /\ job'[d].stalls = job[d].stalls
  BY <1>0, <1>1, <1>2, FinishFacts
<1>5. callFaults' = 0 => document'[d] # "processed" \/ job'[d].state = "completed"
  BY <1>1, <1>2, <1>3 DEF DocInv, FreshInv
<1>6. ~RunsAt(c, d, "markProcessed") /\ ~RunsAt(c, d, "upsert")
  BY <1>1, <1>2 DEF RunsAt
<1>7. WholeInv(d)'
  <2> SUFFICES ASSUME removal[d] = "none" PROVE WholeInv(d)'
    BY <1>1 DEF WholeInv
  <2>1. document'[d] = "failed"
    BY <1>2, <1>3
  <2>2. CASE d \notin stalled
    BY <1>1, <1>2, <2>1, <2>2 DEF WholeInv, RunsAt
  <2>3. CASE d \in stalled
    BY <1>1, <1>2, <1>6, <2>1, <2>3 DEF DocInv, WholeInv, ChunksOf
  <2> QED
    BY <2>2, <2>3
<1>8. /\ callFaults' \in Nat /\ callFaults =< callFaults' /\ ingest[c].pc # "idle"
      /\ UNCHANGED <<chunks, removal, removedAmid, stalled>>
      /\ \A k \in Documents : k # d => document'[k] = document[k] /\ job'[k] = job[k]
      /\ document'[d] = "none" <=> document[d] = "none"
      /\ callFaults' = 0 => document'[d] # "processed" \/ job'[d].state = "completed"
  BY <1>1, <1>3, <1>4, <1>5
<1> QED
  BY <1>0, <1>1, <1>4, <1>7, <1>8, EndSafe

LEMMA RunThrowsSafe ==
  ASSUME IngestIInv, IngestTypeOK', NEW c \in Calls, RunThrows(c)
  PROVE  IngestIInv'
<1>0. PICK d : d = ingest[c].doc
  OBVIOUS
<1>1. /\ ingest[c].pc # "idle" /\ Finish(c, FALSE)
      /\ UNCHANGED <<document, chunks, removal, removedAmid, stalled>>
      /\ ingest' = [ingest EXCEPT ![c] = NoRun] /\ IngestTypeOK
      /\ callFaults \in Nat /\ callFaults' \in Nat /\ callFaults' = callFaults + 1
  BY DEF RunThrows, Finish, JobFault, IngestIInv
<1>2. /\ d \in Documents /\ DocInv(d) /\ Runs(c, d) /\ Unfinished(d) /\ job[d].state # "none"
      /\ d \notin stalled => /\ ingest[c].locked
                            /\ \A e \in Calls : ~Runs(e, d)'
  BY <1>0, <1>1, EndFacts
<1>3. /\ \A k \in Documents : k # d => job'[k] = job[k]
      /\ ingest[c].locked => job'[d].state \in {"waiting", "failed"}
      /\ job'[d].state # "none" /\ job'[d].stalls = job[d].stalls
  BY <1>0, <1>1, <1>2, FinishFacts
<1>4. /\ d \in stalled => ~(callFaults' < 2)
      /\ callFaults' < 2 => document[d] # "processed"
  BY <1>1, <1>2 DEF DocInv, FreshInv
<1>5. WholeInv(d)'
  BY <1>1, <1>2, <1>3, <1>4 DEF WholeInv, RunsAt
<1>6. /\ callFaults' \in Nat /\ callFaults =< callFaults' /\ ingest[c].pc # "idle"
      /\ UNCHANGED <<chunks, removal, removedAmid, stalled>>
      /\ \A k \in Documents : k # d => document'[k] = document[k] /\ job'[k] = job[k]
      /\ document'[d] = "none" <=> document[d] = "none"
      /\ callFaults' = 0 => document'[d] # "processed" \/ job'[d].state = "completed"
  BY <1>1, <1>3
<1> QED
  BY <1>0, <1>1, <1>3, <1>5, <1>6, EndSafe

LEMMA WorkerDiesSafe ==
  ASSUME IngestIInv, IngestTypeOK', NEW c \in Calls, WorkerDies(c)
  PROVE  IngestIInv'
<1>0. PICK d : d = ingest[c].doc
  OBVIOUS
<1>1. /\ ingest[c].pc # "idle" /\ document' \in {document, Update(ingest[c].key, "processed")}
      /\ UNCHANGED <<chunks, removal, removedAmid, stalled>>
      /\ ingest' = [ingest EXCEPT ![c] = NoRun] /\ IngestTypeOK
      /\ ingest[c].locked => StallJob(d)
      /\ ~ingest[c].locked => job' = job
      /\ callFaults \in Nat /\ callFaults' \in Nat /\ callFaults' = callFaults + 1
  BY <1>0 DEF WorkerDies, JobFault, IngestIInv
<1>2. /\ d \in Documents /\ DocInv(d) /\ Runs(c, d) /\ Unfinished(d) /\ job[d].state # "none"
      /\ ingest[c].key \in {d, "undefined"}
      /\ d \notin stalled => /\ ingest[c].locked
                            /\ \A e \in Calls : ~Runs(e, d)'
  BY <1>0, <1>1, EndFacts
<1>3. /\ \A k \in Documents : k # d => document'[k] = document[k]
      /\ document'[d] = "none" <=> document[d] = "none"
  BY <1>1, <1>2, UpdateFacts
<1>4. /\ \A k \in Documents : k # d => job'[k] = job[k]
      /\ ingest[c].locked => job'[d].state \in {"waiting", "failed"}
      /\ job'[d].state # "none"
      /\ (ingest[c].locked /\ job'[d].state = "failed") => job[d].stalls > 0
  BY <1>1, <1>2, StallFacts DEF IngestTypeOK, Jobs, JobStates
<1>5. (d \in stalled \/ job[d].stalls > 0) => ~(callFaults' < 2)
  BY <1>1, <1>2 DEF DocInv, FreshInv
<1>6. WholeInv(d)'
  BY <1>1, <1>2, <1>4, <1>5 DEF WholeInv, RunsAt
<1>7. /\ callFaults' \in Nat /\ callFaults =< callFaults' /\ callFaults' > 0 /\ ingest[c].pc # "idle"
      /\ UNCHANGED <<chunks, removal, removedAmid, stalled>>
      /\ \A k \in Documents : k # d => document'[k] = document[k] /\ job'[k] = job[k]
      /\ document'[d] = "none" <=> document[d] = "none"
      /\ callFaults' = 0 => document'[d] # "processed" \/ job'[d].state = "completed"
  BY <1>1, <1>3, <1>4
<1> QED
  BY <1>0, <1>1, <1>4, <1>6, <1>7, EndSafe

LEMMA StallSafe ==
  ASSUME IngestIInv, IngestTypeOK', NEW c \in Calls, Stall(c)
  PROVE  IngestIInv'
<1>0. PICK d : d = ingest[c].doc
  OBVIOUS
<1>1. /\ ingest[c].pc # "idle" /\ ingest' = [ingest EXCEPT ![c].locked = FALSE]
      /\ StallJob(d) /\ stalled' = stalled \cup {d}
      /\ UNCHANGED <<document, chunks, removal, removedAmid>> /\ IngestTypeOK
      /\ callFaults \in Nat /\ callFaults' \in Nat /\ callFaults' = callFaults + 1
  BY <1>0 DEF Stall, JobFault, IngestIInv
<1>2. /\ d \in Documents /\ DocInv(d) /\ Unfinished(d) /\ job[d].state # "none"
      /\ removal[d] # "none" => d \in removedAmid /\ "undefined" \in removedAmid
  BY <1>0, <1>1, RunFacts
<1>3. \A e \in Calls : /\ e # c => ingest'[e] = ingest[e]
                       /\ ingest'[e].pc = ingest[e].pc /\ ingest'[e].doc = ingest[e].doc
                       /\ ingest'[e].key = ingest[e].key
  BY <1>1 DEF IngestTypeOK
<1>4. \A e \in Calls : \A pc : RunsAt(e, d, pc)' <=> RunsAt(e, d, pc)
  BY <1>3 DEF RunsAt, Runs
<1>5. job'[d].state \in {"waiting", "failed"} /\ \A k \in Documents : k # d => job'[k] = job[k]
  BY <1>1, <1>2, StallFacts DEF IngestTypeOK, Jobs, JobStates
<1>6. LifeInv(d)'
  BY <1>1, <1>2, <1>5 DEF DocInv, LifeInv
<1>7. RemovalInv(d)'
  BY <1>1, <1>2, <1>5 DEF RemovalInv
<1>8. SoleInv(d)'
  BY <1>1 DEF SoleInv
<1>9. FreshInv(d)'
  BY <1>1 DEF FreshInv
<1>10. WholeInv(d)'
  <2> SUFFICES ASSUME removal[d] = "none", callFaults' < 2 PROVE WholeInv(d)'
    BY <1>1 DEF WholeInv
  <2>1. d \notin stalled /\ document[d] # "processed"
    BY <1>1, <1>2 DEF DocInv, FreshInv
  <2> QED
    BY <1>1, <1>2, <1>4, <2>1 DEF DocInv, WholeInv, ChunksOf
<1>11. DocInv(d)'
  BY <1>6, <1>7, <1>8, <1>9, <1>10 DEF DocInv
<1>12. \A e \in Calls : KeyInv(e)'
  BY <1>1, <1>3 DEF IngestIInv, KeyInv
<1>13. (chunks["undefined"] # {} => "undefined" \in removedAmid)'
  BY <1>1 DEF IngestIInv
<1>14. \A e \in Calls : \/ ingest'[e] = ingest[e]
                        \/ /\ ingest[e].pc # "idle" => ingest[e].doc = d
                           /\ ingest'[e].pc # "idle" => ingest'[e].doc = d
  BY <1>0, <1>3
<1>15. /\ callFaults =< callFaults' /\ removedAmid' = removedAmid
       /\ \A k \in Documents \ {d} : /\ job'[k] = job[k] /\ document'[k] = document[k]
                                     /\ chunks'[k] = chunks[k] /\ removal'[k] = removal[k]
  BY <1>1, <1>5
<1> QED
  BY <1>1, <1>2, <1>11, <1>12, <1>13, <1>14, <1>15, StepOn

LEMMA TakeJobSafe ==
  ASSUME IngestIInv, IngestTypeOK', NEW c \in Calls, NEW d \in Documents, TakeJob(c, d)
  PROVE  IngestIInv'
<1>1. /\ ingest[c] = NoRun /\ job[d].state = "waiting" /\ IngestTypeOK /\ DocInv(d) /\ d # "undefined"
      /\ UNCHANGED <<document, chunks, removal, removedAmid, stalled, callFaults>> /\ callFaults \in Nat
  BY IngestAssumption DEF TakeJob, IngestIInv
<1>2. /\ ingest'[c] = [pc |-> "find", doc |-> d, key |-> d, locked |-> TRUE]
      /\ \A e \in Calls : e # c => ingest'[e] = ingest[e]
      /\ job'[d].state = "active" /\ job'[d].stalls = job[d].stalls
      /\ \A k \in Documents : k # d => job'[k] = job[k]
  BY <1>1 DEF TakeJob, IngestTypeOK
<1>3. \A e \in Calls : Runs(e, d)' <=> Runs(e, d) \/ e = c
  BY <1>1, <1>2 DEF Runs, NoRun
<1>4. \A e \in Calls : /\ RunsAt(e, d, "markProcessed")' <=> RunsAt(e, d, "markProcessed")
                       /\ RunsAt(e, d, "upsert")' <=> RunsAt(e, d, "upsert")
  BY <1>1, <1>2 DEF Runs, RunsAt, NoRun
<1>5. Unfinished(d)
  BY <1>1 DEF Unfinished
<1>6. LifeInv(d)'
  BY <1>1, <1>2 DEF DocInv, LifeInv
<1>7. RemovalInv(d)'
  BY <1>1, <1>2, <1>5 DEF DocInv, RemovalInv
<1>8. SoleInv(d)'
  <2>1. d \notin stalled => \A e \in Calls : ~Runs(e, d)
    BY <1>1 DEF DocInv, SoleInv
  <2> QED
    BY <1>1, <1>2, <1>3, <2>1 DEF SoleInv
<1>9. FreshInv(d)'
  BY <1>1, <1>2, <1>5 DEF DocInv, FreshInv
<1>10. WholeInv(d)'
  BY <1>1, <1>2, <1>4 DEF DocInv, WholeInv, ChunksOf
<1>11. DocInv(d)'
  BY <1>6, <1>7, <1>8, <1>9, <1>10 DEF DocInv
<1>12. \A e \in Calls : KeyInv(e)'
  <2>1. KeyInv(c)'
    BY <1>1, <1>2 DEF KeyInv
  <2>2. ASSUME NEW e \in Calls, e # c PROVE KeyInv(e)'
    BY <1>1, <1>2, <2>2 DEF IngestIInv, KeyInv
  <2> QED
    BY <2>1, <2>2
<1>13. (chunks["undefined"] # {} => "undefined" \in removedAmid)'
  BY <1>1 DEF IngestIInv
<1>14. \A e \in Calls : \/ ingest'[e] = ingest[e]
                        \/ /\ ingest[e].pc # "idle" => ingest[e].doc = d
                           /\ ingest'[e].pc # "idle" => ingest'[e].doc = d
  BY <1>1, <1>2 DEF NoRun
<1>15. /\ callFaults' \in Nat /\ callFaults =< callFaults' /\ removedAmid' = removedAmid /\ stalled' = stalled
       /\ \A k \in Documents \ {d} : /\ job'[k] = job[k] /\ document'[k] = document[k]
                                     /\ chunks'[k] = chunks[k] /\ removal'[k] = removal[k]
  BY <1>1, <1>2
<1> QED
  BY <1>11, <1>12, <1>13, <1>14, <1>15, StepOn

\* Steps of the controller, which touch no run.
LEMMA ControllerSafe ==
  ASSUME IngestIInv, IngestTypeOK', callFaults' \in Nat, callFaults =< callFaults', NEW d \in Documents,
         UNCHANGED <<ingest, stalled>>,
         removedAmid' \in {removedAmid, removedAmid \cup {d, "undefined"}},
         \A k \in Documents : k # d => /\ job'[k] = job[k] /\ document'[k] = document[k]
                                       /\ chunks'[k] = chunks[k] /\ removal'[k] = removal[k],
         removal[d] # "none" => removal'[d] # "none", chunks'["undefined"] = chunks["undefined"],
         LifeInv(d)', RemovalInv(d)', SoleInv(d)', FreshInv(d)', WholeInv(d)'
  PROVE  IngestIInv'
<1>1. DocInv(d)'
  BY DEF DocInv
<1>2. \A e \in Calls : KeyInv(e)'
  BY KeyFrame DEF IngestIInv
<1>3. (chunks["undefined"] # {} => "undefined" \in removedAmid)'
  BY DEF IngestIInv
<1>4. /\ \A k \in Documents \ {d} : /\ job'[k] = job[k] /\ document'[k] = document[k]
                                    /\ chunks'[k] = chunks[k] /\ removal'[k] = removal[k]
      /\ \A e \in Calls : ingest'[e] = ingest[e]
      /\ stalled' \in {stalled, stalled \cup {d}}
  OBVIOUS
<1> QED
  BY <1>1, <1>2, <1>3, <1>4, StepOn

\* Without a change of its runs, only the job of d says whether it is unfinished.
LEMMA SameRuns ==
  ASSUME NEW d, UNCHANGED ingest
  PROVE  /\ \A c \in Calls : Runs(c, d)' <=> Runs(c, d)
         /\ \A c \in Calls : \A pc : RunsAt(c, d, pc)' <=> RunsAt(c, d, pc)
         /\ Unfinished(d)' <=> \/ job'[d].state \in {"enqueue", "waiting", "active"}
                               \/ \E c \in Calls : Runs(c, d)
BY UnfinishedRuns DEF Runs, RunsAt, Unfinished, InFlight

LEMMA UploadSafe ==
  ASSUME IngestIInv, IngestTypeOK', NEW d \in Documents, Upload(d)
  PROVE  IngestIInv'
<1>1. /\ removal[d] = "none" /\ job[d].state = "none" /\ IngestTypeOK /\ DocInv(d) /\ callFaults \in Nat
      /\ UNCHANGED <<chunks, ingest, removal, removedAmid, stalled, callFaults>>
  BY DEF Upload, IngestIInv
<1>2. /\ document'[d] = "pending" /\ job'[d].state = "enqueue" /\ job'[d].stalls = job[d].stalls
      /\ \A k \in Documents : k # d => document'[k] = document[k] /\ job'[k] = job[k]
  BY <1>1 DEF Upload, IngestTypeOK
<1>3. \A c \in Calls : ~Runs(c, d)'
  BY <1>1, SameRuns DEF DocInv, LifeInv
<1>4. LifeInv(d)' /\ RemovalInv(d)' /\ SoleInv(d)'
  BY <1>1, <1>2, <1>3 DEF LifeInv, RemovalInv, SoleInv
<1>5. FreshInv(d)'
  BY <1>1, <1>2 DEF DocInv, FreshInv
<1>6. WholeInv(d)'
  BY <1>1, <1>2, <1>3 DEF WholeInv, RunsAt
<1> QED
  BY <1>1, <1>2, <1>4, <1>5, <1>6, ControllerSafe

LEMMA EnqueueSafe ==
  ASSUME IngestIInv, IngestTypeOK', NEW d \in Documents, Enqueue(d)
  PROVE  IngestIInv'
<1>1. /\ job[d].state = "enqueue" /\ IngestTypeOK /\ DocInv(d) /\ callFaults \in Nat /\ Unfinished(d)
      /\ UNCHANGED <<document, chunks, ingest, removal, removedAmid, stalled, callFaults>>
  BY DEF Enqueue, IngestIInv, Unfinished
<1>2. /\ job'[d].state = "waiting" /\ job'[d].stalls = job[d].stalls
      /\ \A k \in Documents : k # d => job'[k] = job[k]
  BY <1>1 DEF Enqueue, IngestTypeOK
<1>3. /\ \A c \in Calls : Runs(c, d)' <=> Runs(c, d)
      /\ \A c \in Calls : \A pc : RunsAt(c, d, pc)' <=> RunsAt(c, d, pc)
  BY <1>1, SameRuns
<1>4. LifeInv(d)' /\ RemovalInv(d)' /\ SoleInv(d)'
  BY <1>1, <1>2, <1>3 DEF DocInv, LifeInv, RemovalInv, SoleInv
<1>5. FreshInv(d)'
  BY <1>1, <1>2 DEF DocInv, FreshInv
<1>6. WholeInv(d)'
  BY <1>1, <1>2, <1>3 DEF DocInv, WholeInv, ChunksOf
<1> QED
  BY <1>1, <1>2, <1>4, <1>5, <1>6, ControllerSafe

LEMMA EnqueueThrowsSafe ==
  ASSUME IngestIInv, IngestTypeOK', NEW d \in Documents, EnqueueThrows(d)
  PROVE  IngestIInv'
<1>1. /\ job[d].state = "enqueue" /\ IngestTypeOK /\ DocInv(d) /\ Unfinished(d)
      /\ callFaults \in Nat /\ callFaults' \in Nat /\ callFaults' = callFaults + 1
      /\ UNCHANGED <<document, chunks, ingest, removal, removedAmid, stalled>>
  BY DEF EnqueueThrows, IngestIInv, Unfinished, JobFault
<1>2. job'[d].state = "failed" /\ \A k \in Documents : k # d => job'[k] = job[k]
  BY <1>1 DEF EnqueueThrows, IngestTypeOK
<1>3. \A c \in Calls : Runs(c, d)' <=> Runs(c, d)
  BY <1>1, SameRuns
<1>4. d \notin stalled => \A c \in Calls : ~Runs(c, d)'
  BY <1>1, <1>3 DEF DocInv, SoleInv
<1>5. LifeInv(d)' /\ RemovalInv(d)' /\ SoleInv(d)'
  BY <1>1, <1>2, <1>3, <1>4 DEF DocInv, LifeInv, RemovalInv, SoleInv
<1>6. FreshInv(d)'
  BY <1>1 DEF FreshInv
<1>7. /\ d \in stalled => ~(callFaults' < 2)
      /\ callFaults' < 2 => document[d] # "processed"
  BY <1>1 DEF DocInv, FreshInv
<1>8. WholeInv(d)'
  BY <1>1, <1>2, <1>4, <1>7 DEF WholeInv, RunsAt
<1>9. callFaults =< callFaults'
  BY <1>1
<1> QED
  BY <1>1, <1>2, <1>5, <1>6, <1>8, <1>9, ControllerSafe

LEMMA RemoveChunksSafe ==
  ASSUME IngestIInv, IngestTypeOK', NEW d \in Documents, RemoveChunks(d)
  PROVE  IngestIInv'
<1>1. /\ removal[d] = "none" /\ IngestTypeOK /\ DocInv(d) /\ callFaults \in Nat /\ d # "undefined" /\ d \in Keys
      /\ UNCHANGED <<document, job, ingest, stalled, callFaults>>
  BY IngestAssumption DEF RemoveChunks, IngestIInv, Keys
<1>2. /\ removal'[d] = "chunks" /\ \A k \in Documents : k # d => removal'[k] = removal[k]
      /\ chunks'[d] = {} /\ \A k \in Keys : k # d => chunks'[k] = chunks[k]
  BY <1>1 DEF RemoveChunks, IngestTypeOK
<1>3. /\ \A k \in Documents : k # d => chunks'[k] = chunks[k]
      /\ chunks'["undefined"] = chunks["undefined"]
  BY <1>1, <1>2 DEF Keys
<1>4. /\ removedAmid' \in {removedAmid, removedAmid \cup {d, "undefined"}}
      /\ Unfinished(d) => d \in removedAmid' /\ "undefined" \in removedAmid'
  BY DEF RemoveChunks
<1>5. /\ \A c \in Calls : Runs(c, d)' <=> Runs(c, d)
      /\ Unfinished(d)' <=> Unfinished(d)
  BY <1>1, SameRuns, UnfinishedRuns
<1>6. LifeInv(d)'
  BY <1>1, <1>2, <1>5 DEF DocInv, LifeInv
<1>7. RemovalInv(d)'
  BY <1>2, <1>4, <1>5 DEF RemovalInv
<1>8. SoleInv(d)' /\ FreshInv(d)'
  BY <1>1, <1>5 DEF DocInv, SoleInv, FreshInv
<1>9. WholeInv(d)'
  BY <1>2 DEF WholeInv
<1> QED
  BY <1>1, <1>2, <1>3, <1>4, <1>6, <1>7, <1>8, <1>9, ControllerSafe

LEMMA RemoveRestSafe ==
  ASSUME IngestIInv, IngestTypeOK', NEW d \in Documents, RemoveDocument(d) \/ RemoveThrows(d)
  PROVE  IngestIInv'
<1>1. /\ removal[d] # "none" /\ IngestTypeOK /\ DocInv(d)
      /\ callFaults \in Nat /\ callFaults' \in Nat /\ callFaults =< callFaults'
      /\ UNCHANGED <<chunks, job, ingest, removedAmid, stalled>>
  BY DEF RemoveDocument, RemoveThrows, IngestIInv, JobFault
<1>2. /\ removal'[d] # "none" /\ \A k \in Documents : k # d => removal'[k] = removal[k]
      /\ document'[d] \in {document[d], "none"}
      /\ \A k \in Documents : k # d => document'[k] = document[k]
  BY <1>1 DEF RemoveDocument, RemoveThrows, IngestTypeOK
<1>3. /\ \A c \in Calls : Runs(c, d)' <=> Runs(c, d)
      /\ Unfinished(d)' <=> Unfinished(d)
  BY <1>1, SameRuns, UnfinishedRuns
<1>4. LifeInv(d)'
  BY <1>1, <1>2, <1>3 DEF DocInv, LifeInv
<1>5. RemovalInv(d)'
  BY <1>1, <1>3 DEF DocInv, RemovalInv
<1>6. SoleInv(d)'
  BY <1>1, <1>3 DEF DocInv, SoleInv
<1>7. FreshInv(d)'
  BY <1>1, <1>2, <1>3 DEF DocInv, FreshInv
<1>8. WholeInv(d)'
  BY <1>2 DEF WholeInv
<1> QED
  BY <1>1, <1>2, <1>4, <1>5, <1>6, <1>7, <1>8, ControllerSafe

-----------------------------------------------------------------------------
LEMMA IngestIInvStep == IngestIInv /\ [IngestNext]_ingestVars => IngestIInv'
<1> SUFFICES ASSUME IngestIInv, [IngestNext]_ingestVars PROVE IngestIInv'
  OBVIOUS
<1>1. IngestTypeOK'
  BY TypeStep
<1>2. CASE \E d \in Documents : Upload(d) \/ Enqueue(d) \/ EnqueueThrows(d)
  BY <1>1, <1>2, UploadSafe, EnqueueSafe, EnqueueThrowsSafe
<1>3. CASE \E d \in Documents : RemoveChunks(d) \/ RemoveDocument(d) \/ RemoveThrows(d)
  BY <1>1, <1>3, RemoveChunksSafe, RemoveRestSafe
<1>4. CASE \E c \in Calls : (\E d \in Documents : TakeJob(c, d)) \/ FindById(c) \/ PrepareThrows(c)
  BY <1>1, <1>4, TakeJobSafe, FindSafe, PrepareThrowsSafe
<1>5. CASE \E c \in Calls : DeleteByDocumentId(c) \/ Upsert(c) \/ UpsertThrows(c)
  BY <1>1, <1>5, IngestDeleteSafe, UpsertSafe, UpsertThrowsSafe
<1>6. CASE \E c \in Calls : MarkProcessed(c) \/ MarkFailed(c) \/ RunThrows(c)
  BY <1>1, <1>6, MarkProcessedSafe, MarkFailedSafe, RunThrowsSafe
<1>7. CASE \E c \in Calls : Stall(c) \/ WorkerDies(c)
  BY <1>1, <1>7, StallSafe, WorkerDiesSafe
<1>8. CASE UNCHANGED ingestVars
  <2>1. /\ UNCHANGED <<document, chunks, job, ingest, removal, removedAmid, stalled, callFaults>>
        /\ callFaults \in Nat
    BY <1>8 DEF ingestVars, IngestIInv
  <2>2. \A d \in Documents : DocInv(d)'
    BY <2>1, OtherDocument DEF IngestIInv, Runs
  <2>3. \A c \in Calls : KeyInv(c)'
    BY <2>1 DEF IngestIInv, KeyInv
  <2> QED
    BY <1>1, <2>1, <2>2, <2>3 DEF IngestIInv
<1> QED
  BY <1>2, <1>3, <1>4, <1>5, <1>6, <1>7, <1>8 DEF IngestNext

LEMMA IngestInvariance == IngestSpec => []IngestIInv
<1> QED
  BY IngestInitIInv, IngestIInvStep, PTL DEF IngestSpec

\* The records of documents, chunks, jobs, runs and removals stay in their types.
THEOREM IngestTypeCorrect == IngestSpec => []IngestTypeOK
<1>1. IngestIInv => IngestTypeOK
  BY DEF IngestIInv
<1> QED
  BY <1>1, IngestInvariance, PTL

\* remove takes the chunks before the document, so that none can be found without
\* it, unless the document was removed while its job was waiting or running.
THEOREM RemovalLeavesNoChunks == IngestSpec => []OrphansOnlyByRace
<1>1. ASSUME IngestIInv, NEW k \in Keys, chunks[k] # {}, k = "undefined" \/ document[k] = "none"
      PROVE  k \in removedAmid
  <2>1. CASE k = "undefined"
    BY <1>1, <2>1 DEF IngestIInv
  <2>2. CASE k # "undefined"
    <3>1. k \in Documents /\ document[k] = "none" /\ DocInv(k)
      BY <1>1, <2>2 DEF IngestIInv, Keys
    <3> QED
      BY <1>1, <3>1 DEF DocInv, LifeInv, RemovalInv
  <2> QED
    BY <2>1, <2>2
<1>2. IngestIInv => OrphansOnlyByRace
  BY <1>1 DEF OrphansOnlyByRace
<1> QED
  BY <1>2, IngestInvariance, PTL

\* However often Bull repeats the job of a document that ends up processed, and
\* whatever dies meanwhile, all its chunks can be found.
THEOREM ProcessedIsWhole == IngestSpec => []ProcessedHasAllChunks
<1>1. ASSUME IngestIInv, NEW d \in Documents, document[d] = "processed", removal[d] = "none", ~Unfinished(d),
             (d \in stalled \/ job[d].state = "failed") => callFaults < 2
      PROVE  chunks[d] = ChunksOf
  <2>1. DocInv(d) /\ job[d].state \in JobStates
    BY <1>1 DEF IngestIInv, IngestTypeOK, JobStates
  <2>2. job[d].state \in {"completed", "failed"} /\ \A c \in Calls : ~Runs(c, d)
    BY <1>1, <2>1, UnfinishedRuns DEF JobStates, DocInv, LifeInv
  <2> QED
    BY <1>1, <2>1, <2>2 DEF DocInv, WholeInv, RunsAt
<1>2. IngestIInv => ProcessedHasAllChunks
  BY <1>1 DEF ProcessedHasAllChunks
<1> QED
  BY <1>2, IngestInvariance, PTL

-----------------------------------------------------------------------------
(***************************************************************************)
(* Question answering: turns are kept, and answers fit their sources.      *)
(***************************************************************************)
Points == {"history", "search", "llmCache", "semantic", "generate", "storeLlm", "storeSemantic",
           "critique", "save"}

AnyEmbedding == [like : Questions \cup {"none"}, own : BOOLEAN]

Answers == [question : Questions \cup {"none"}, query : Questions \cup {"none"},
            embedding : AnyEmbedding, docs : SUBSET SourceDocs,
            text : {"none", "full", "blank", "empty"}]

AskRecords ==
  [pc : Points \cup Ended, question : Questions \cup {"none"}, query : Questions \cup {"none"},
   embedding : AnyEmbedding, session : SessionIds \cup {"none"}, copy : Seq(Calls), peers : SUBSET Calls,
   sources : SUBSET SourceDocs, docs : SUBSET SourceDocs, rounds : 0..MaxIterations, answer : Answers,
   from : {"none", "llm", "llmCache", "semantic"}]

\* An embedding of the query itself is like that query.
OwnIsLike(a) == a.embedding.own => a.embedding.like = a.query

\* The answer of request a is what AnswerFitsSources says of it.
AskFits(a) ==
  a.answer # NoAnswer =>
    IF a.from = "semantic"
    THEN IF a.answer.embedding.own /\ a.embedding.own THEN a.answer.query = a.query
         ELSE a.answer.embedding.like = a.embedding.like
    ELSE a.answer.question = a.question /\ (a.rounds <= 1 => a.answer.docs = a.sources)

\* A request under way: the documents of its first round are the sources, and it
\* has no answer before the end of that round.  A query is not changed any more once
\* its embedding is that of a search.
AskRight(a) ==
  a.pc \in Points =>
    /\ a.question \in Questions /\ a.query \in Questions
    /\ IF a.question \in ComplexQuestions THEN a.pc \in {"search", "generate", "critique", "save"}
                                          ELSE a.rounds = 0 /\ a.pc # "critique"
    /\ a.pc # "save" => a.rounds < MaxIterations
    /\ (a.rounds = 0 /\ a.pc \notin {"history", "search"}) => a.docs = a.sources
    /\ (a.rounds = 0 /\ a.pc \in {"history", "search", "llmCache", "semantic", "generate"}) =>
         a.answer = NoAnswer
    /\ a.from = "semantic" => a.pc = "save"
    /\ a.pc = "critique" => a.rounds > 0
    /\ a.pc = "storeLlm" => a.answer.question = a.question /\ a.answer.docs = a.docs
    /\ (a.pc \in {"history", "search"} \/ a.question \in ComplexQuestions) => ~a.embedding.own
    /\ OwnIsLike(a) /\ OwnIsLike(a.answer)
    /\ AskFits(a)

\* What is cached under a question and documents was made for them.
CacheInv ==
  /\ \A e \in llmCache : /\ e.answer \in Answers /\ OwnIsLike(e.answer)
                         /\ e.key = <<e.answer.question, e.answer.docs>>
  /\ \A e \in semanticCache : e \in Answers /\ OwnIsLike(e)

\* Requests under way in one session know of each other.
PeersInv ==
  \A c, d \in Calls :
    (/\ c # d /\ ask[c].pc \in Points /\ ask[d].pc \in Points
     /\ ask[c].session = ask[d].session /\ ask[c].session # "none") => d \in ask[c].peers

\* A new session lives, and is used, after the request that creates it has begun.
CreatedInv ==
  \A c, d \in Calls : (sessions[d].live \/ ask[c].session = d) => ask[d].pc # "idle"

\* turns hold the turn of request c, or that of one that was open at the same time.
Keeps(c, turns) == \E d \in ask[c].peers \cup {c} : d \in ToSet(turns)

\* The session of a request that was answered keeps its turn, and so will each
\* request under way, unless it was open at the same time.
KeptInv ==
  \A c \in Calls :
    LET s == ask[c].session IN
    (ask[c].pc = "done" /\ s # "none" /\ ask[c].answer.text = "full" /\ sessions[s].live) =>
      /\ Keeps(c, sessions[s].turns)
      /\ \A d \in Calls : (ask[d].pc \in Points /\ ask[d].session = s) =>
           d \in ask[c].peers \/ Keeps(c, ask[d].copy)

\* The invariant that the steps keep.
AskInv ==
  /\ sessions \in [SessionIds -> [live : BOOLEAN, turns : Seq(Calls)]]
  /\ ask \in [Calls -> AskRecords]
  /\ \A c \in Calls : AskRight(ask[c])
  /\ CacheInv /\ PeersInv /\ CreatedInv /\ KeptInv

LEMMA EndedApart == Points \cap Ended = {} /\ "none" \notin SessionIds /\ Calls \subseteq SessionIds
BY AskAssumption DEF Points, Ended, SessionIds

\* No embedding and no answer are of the type of the others.
LEMMA NoneFits == NoEmbedding \in AnyEmbedding /\ NoAnswer \in Answers
BY DEF NoEmbedding, Embedding, AnyEmbedding, NoAnswer, Answers

\* It has neither an embedding nor an answer.
LEMMA NothingOwned == ~NoEmbedding.own /\ OwnIsLike(NoAnswer)
BY DEF NoEmbedding, Embedding, NoAnswer, OwnIsLike

LEMMA InitAsk == AskInit => AskInv
<1> SUFFICES ASSUME AskInit PROVE AskInv
  OBVIOUS
<1>1. /\ <<>> \in Seq(Calls) /\ {} \in SUBSET Calls /\ "idle" \in Points \cup Ended
      /\ "none" \in Questions \cup {"none"} /\ "none" \in SessionIds \cup {"none"}
  BY DEF Ended
<1>2. sessions \in [SessionIds -> [live : BOOLEAN, turns : Seq(Calls)]]
  BY <1>1 DEF AskInit
<1>3. /\ Ask("idle", "none", "none", <<>>, {}) \in AskRecords
      /\ Ask("idle", "none", "none", <<>>, {}).pc = "idle"
      /\ Ask("idle", "none", "none", <<>>, {}).session = "none"
  BY <1>1, NoneFits, AskAssumption DEF Ask, AskRecords
<1>4. ask \in [Calls -> AskRecords] /\ \A c \in Calls : ask[c].pc = "idle" /\ ask[c].session = "none"
  BY <1>3 DEF AskInit
<1>5. CacheInv /\ \A c \in Calls : AskRight(ask[c])
  BY <1>4 DEF AskInit, CacheInv, AskRight, Points
<1>6. PeersInv /\ CreatedInv /\ KeptInv
  BY <1>4, EndedApart, AskAssumption DEF PeersInv, CreatedInv, KeptInv, Points, AskInit
<1> QED
  BY <1>2, <1>4, <1>5, <1>6 DEF AskInv

\* A step of one request under way that leaves the sessions.
LEMMA AskMoves ==
  ASSUME AskInv, NEW c \in Calls, NEW a \in AskRecords, ask' = [ask EXCEPT ![c] = a],
         sessions' = sessions, CacheInv',
         ask[c].pc \in Points, a.pc \in Points, AskRight(a),
         a.session = ask[c].session, a.copy = ask[c].copy, a.peers = ask[c].peers
  PROVE  AskInv'
<1> USE DEF AskInv
<1>1. /\ ask' \in [Calls -> AskRecords] /\ ask'[c] = a
      /\ \A d \in Calls \ {c} : ask'[d] = ask[d]
  OBVIOUS
<1>2. \A d \in Calls : /\ ask'[d].session = ask[d].session /\ ask'[d].peers = ask[d].peers
                       /\ ask'[d].copy = ask[d].copy
                       /\ ask'[d].pc \in Points <=> ask[d].pc \in Points
                       /\ ask'[d].pc = "idle" <=> ask[d].pc = "idle"
                       /\ ask'[d].pc = "done" => ask'[d] = ask[d]
  BY <1>1 DEF Points
<1>3. \A d \in Calls : AskRight(ask'[d])
  BY <1>1
<1>4. PeersInv' /\ CreatedInv'
  BY <1>2 DEF PeersInv, CreatedInv
<1>5. KeptInv'
  <2> SUFFICES ASSUME NEW e \in Calls, ask'[e].pc = "done", ask'[e].session # "none",
                      ask'[e].answer.text = "full", sessions[ask'[e].session].live
               PROVE  /\ Keeps(e, sessions[ask[e].session].turns)'
                      /\ \A d \in Calls : (ask'[d].pc \in Points /\ ask'[d].session = ask'[e].session) =>
                           d \in ask'[e].peers \/ Keeps(e, ask[d].copy)'
    BY DEF KeptInv
  <2>1. ask'[e] = ask[e]
    BY <1>2
  <2>2. /\ Keeps(e, sessions[ask[e].session].turns)
        /\ \A d \in Calls : (ask[d].pc \in Points /\ ask[d].session = ask[e].session) =>
             d \in ask[e].peers \/ Keeps(e, ask[d].copy)
    BY <2>1 DEF KeptInv
  <2> QED
    BY <1>2, <2>1, <2>2 DEF Keeps
<1> QED
  BY <1>1, <1>3, <1>4, <1>5

\* Each step of a request under way, from its history to its critique.
LEMMA ReadHistorySafe ==
  ASSUME AskInv, NEW c \in Calls, NEW given \in BOOLEAN, ReadHistory(c, given) PROVE AskInv'
<1> DEFINE history == given \/ (ask[c].session # "none" /\ sessions[ask[c].session].live
                                /\ sessions[ask[c].session].turns # <<>>)
<1>1. ask[c] \in AskRecords /\ AskRight(ask[c]) /\ ask[c].pc = "history"
  BY DEF AskInv, ReadHistory
<1>2. PICK query \in SearchQuestions(ask[c].question, history) :
        ask' = [ask EXCEPT ![c] = [ask[c] EXCEPT !.pc = "search", !.query = query]]
  BY DEF ReadHistory
<1>3. query \in Questions
  <2>1. ask[c].question \in Questions
    BY <1>1 DEF AskRight, Points
  <2> HIDE DEF history
  <2>2. \/ query = ask[c].question
        \/ \E output \in Questions \cup {""} : query = Rewrite(ask[c].question, output)
    BY DEF SearchQuestions
  <2> QED
    BY <2>1, <2>2 DEF Rewrite
<1> DEFINE a == [ask[c] EXCEPT !.pc = "search", !.query = query]
<1>4. a \in AskRecords /\ a.pc = "search" /\ a.session = ask[c].session /\ a.copy = ask[c].copy
      /\ a.peers = ask[c].peers
  BY <1>1, <1>3 DEF AskRecords, Points
<1>5. AskRight(a)
  BY <1>1, <1>3 DEF AskRight, AskRecords, Points, AskFits, OwnIsLike
<1>6. ask[c].pc \in Points /\ a.pc \in Points
  BY <1>1, <1>4 DEF Points
<1>7. UNCHANGED <<sessions, llmCache, semanticCache>> /\ CacheInv'
  BY DEF ReadHistory, AskInv, CacheInv
<1> HIDE DEF a
<1> QED
  BY <1>2, <1>4, <1>5, <1>6, <1>7, AskMoves DEF a

LEMMA SearchDocsSafe == ASSUME AskInv, NEW c \in Calls, SearchDocs(c) PROVE AskInv'
<1> DEFINE pc == IF ask[c].question \in ComplexQuestions THEN "generate" ELSE "llmCache"
           found == IF ask[c].question \in ComplexQuestions THEN {NoEmbedding}
                    ELSE Embeddings(ask[c].query)
<1>1. ask[c] \in AskRecords /\ AskRight(ask[c]) /\ ask[c].pc = "search"
  BY DEF AskInv, SearchDocs
<1>2. PICK D \in SUBSET SourceDocs, embedding \in found :
        ask' = [ask EXCEPT ![c] = [ask[c] EXCEPT
                  !.docs = D, !.embedding = embedding,
                  !.sources = IF ask[c].rounds = 0 THEN D ELSE ask[c].sources, !.pc = pc]]
  BY DEF SearchDocs
<1> DEFINE sources == IF ask[c].rounds = 0 THEN D ELSE ask[c].sources
           a == [ask[c] EXCEPT !.docs = D, !.embedding = embedding, !.sources = sources, !.pc = pc]
<1>7. /\ embedding \in AnyEmbedding
      /\ embedding.own => embedding.like = ask[c].query
      /\ ask[c].question \in ComplexQuestions => ~embedding.own
  <2>1. ask[c].query \in Questions
    BY <1>1 DEF AskRight, Points
  <2>3. CASE ask[c].question \in ComplexQuestions
    BY <2>3, NoneFits, NothingOwned DEF found
  <2>4. CASE ask[c].question \notin ComplexQuestions
    <3>1. embedding \in [like : Questions, own : {FALSE}] \/ embedding = Embedding(ask[c].query, TRUE)
      <4>1. PICK hyde \in UseHyde :
              embedding \in IF ask[c].query \in CompoundQuestions \/ hyde
                            THEN [like : Questions, own : {FALSE}]
                            ELSE {Embedding(ask[c].query, TRUE)}
        BY <2>4 DEF Embeddings, found
      <4> QED
        BY <4>1
    <3>2. Embedding(ask[c].query, TRUE).own = TRUE
          /\ Embedding(ask[c].query, TRUE).like = ask[c].query
          /\ Embedding(ask[c].query, TRUE) \in AnyEmbedding
      BY <2>1 DEF Embedding, AnyEmbedding
    <3>3. CASE embedding \in [like : Questions, own : {FALSE}]
      BY <2>4, <3>3 DEF AnyEmbedding
    <3> QED
      BY <2>4, <3>1, <3>2, <3>3
  <2> QED
    BY <2>3, <2>4
<1>8. pc \in {"generate", "llmCache"} /\ (pc = "generate" <=> ask[c].question \in ComplexQuestions)
      /\ pc \in Points
  BY DEF Points
<1>9. sources \in SUBSET SourceDocs /\ (ask[c].rounds = 0 => sources = D)
      /\ (ask[c].rounds # 0 => sources = ask[c].sources)
  BY <1>1 DEF AskRecords
<1> HIDE DEF pc, sources, found
<1>3. a \in AskRecords /\ a.pc = pc /\ a.session = ask[c].session /\ a.copy = ask[c].copy
      /\ a.peers = ask[c].peers
  BY <1>1, <1>7, <1>8, <1>9 DEF AskRecords
<1>10. /\ a.question = ask[c].question /\ a.query = ask[c].query /\ a.rounds = ask[c].rounds
       /\ a.from = ask[c].from /\ a.answer = ask[c].answer /\ a.embedding = embedding
       /\ a.docs = D /\ a.sources = sources
  BY <1>1 DEF AskRecords
<1>4. AskRight(a)
  <2>1. /\ ask[c].answer = NoAnswer \/ ask[c].rounds # 0
        /\ ask[c].from # "semantic" /\ ask[c].rounds < MaxIterations
        /\ ask[c].question \notin ComplexQuestions => ask[c].rounds = 0
    BY <1>1 DEF AskRight, Points
  <2> HIDE DEF a
  <2>2. AskFits(a)
    BY <1>1, <1>9, <1>10, <2>1 DEF AskRight, AskFits, Points
  <2>3. OwnIsLike(a) /\ OwnIsLike(a.answer)
        /\ (a.question \in ComplexQuestions => ~a.embedding.own)
    BY <1>1, <1>7, <1>10 DEF AskRight, Points, OwnIsLike
  <2> QED
    BY <1>1, <1>3, <1>8, <1>9, <1>10, <2>1, <2>2, <2>3 DEF AskRight, Points
<1>5. ask[c].pc \in Points /\ a.pc \in Points
  BY <1>1, <1>3, <1>8 DEF Points
<1>6. UNCHANGED <<sessions, llmCache, semanticCache>> /\ CacheInv'
  BY DEF SearchDocs, AskInv, CacheInv
<1> HIDE DEF a
<1> QED
  BY <1>2, <1>3, <1>4, <1>5, <1>6, AskMoves DEF a, sources

\* A step that changes nothing but the point.
LEMMA AskStepSafe ==
  ASSUME AskInv, NEW c \in Calls, NEW from, NEW to, AskStep(c, from, to),
         sessions' = sessions, CacheInv',
         <<from, to>> \in {<<"llmCache", "semantic">>, <<"semantic", "generate">>,
                          <<"storeLlm", "storeSemantic">>, <<"storeSemantic", "save">>,
                          <<"critique", "save">>}
  PROVE  AskInv'
<1>1. ask[c] \in AskRecords /\ AskRight(ask[c]) /\ ask[c].pc = from
  BY DEF AskInv, AskStep
<1> DEFINE a == [ask[c] EXCEPT !.pc = to]
<1>2. ask' = [ask EXCEPT ![c] = a]
  BY DEF AskStep, AskInv
<1>3. ask[c].pc \in Points /\ to \in Points
  BY <1>1 DEF Points
<1>4. a \in AskRecords /\ a.pc = to /\ a.session = ask[c].session /\ a.copy = ask[c].copy
      /\ a.peers = ask[c].peers
  BY <1>1, <1>3 DEF AskRecords
<1>5. AskRight(a)
  BY <1>1, <1>3 DEF AskRight, AskRecords, Points, AskFits, OwnIsLike
<1> HIDE DEF a
<1> QED
  BY <1>2, <1>3, <1>4, <1>5, AskMoves

\* A simple request gets its answer.
LEMMA DeliverSafe ==
  ASSUME AskInv, NEW c \in Calls, NEW answer \in Answers, NEW from \in {"llm", "llmCache", "semantic"},
         NEW pc \in {"storeLlm", "save"}, Deliver(c, answer, from, pc),
         UNCHANGED <<sessions, llmCache, semanticCache>>,
         ask[c].pc \in {"llmCache", "semantic", "generate"}, ask[c].question \notin ComplexQuestions,
         OwnIsLike(answer),
         IF from = "semantic" THEN pc = "save" /\ answer.embedding.like = ask[c].embedding.like
         ELSE answer.question = ask[c].question /\ answer.docs = ask[c].docs
  PROVE  AskInv'
<1>1. ask[c] \in AskRecords /\ AskRight(ask[c])
  BY DEF AskInv
<1> DEFINE a == [ask[c] EXCEPT !.pc = pc, !.answer = answer, !.from = from]
<1>2. ask' = [ask EXCEPT ![c] = a]
  BY DEF Deliver
<1>3. ask[c].pc \in Points /\ pc \in Points
  BY DEF Points
<1>4. a \in AskRecords /\ a.pc = pc /\ a.session = ask[c].session /\ a.copy = ask[c].copy
      /\ a.peers = ask[c].peers
  BY <1>1, <1>3 DEF AskRecords
<1>5. AskRight(a)
  BY <1>1, <1>3 DEF AskRight, AskRecords, Points, AskFits, OwnIsLike
<1>6. CacheInv'
  BY DEF AskInv, CacheInv
<1> HIDE DEF a
<1> QED
  BY <1>2, <1>3, <1>4, <1>5, <1>6, AskMoves

LEMMA CacheSteps ==
  ASSUME AskInv, NEW c \in Calls,
         LlmCacheGet(c) \/ FindSimilar(c) \/ StreamAnswer(c) \/ SetWithTtl(c) \/ StoreSemantic(c)
  PROVE  AskInv'
<1>1. ask[c] \in AskRecords /\ AskRight(ask[c]) /\ CacheInv /\ sessions' = sessions
  BY DEF AskInv, LlmCacheGet, FindSimilar, StreamAnswer, SetWithTtl, StoreSemantic
<1>2. ask[c].pc \in {"llmCache", "semantic", "storeLlm", "storeSemantic"} =>
        ask[c].question \notin ComplexQuestions
  BY <1>1 DEF AskRight, Points
<1>3. CASE LlmCacheGet(c)
  <2>1. ask[c].pc = "llmCache" /\ UNCHANGED <<sessions, llmCache, semanticCache>> /\ CacheInv'
    BY <1>1, <1>3 DEF LlmCacheGet, CacheInv
  <2>2. CASE AskStep(c, "llmCache", "semantic")
    BY <2>1, <2>2, AskStepSafe
  <2>3. CASE \E e \in llmCache : e.key = BuildCacheKey(ask[c]) /\ Deliver(c, e.answer, "llmCache", "save")
    <3>1. PICK e \in llmCache : e.key = BuildCacheKey(ask[c]) /\ Deliver(c, e.answer, "llmCache", "save")
      BY <2>3
    <3>2. e.answer \in Answers /\ e.answer.question = ask[c].question /\ e.answer.docs = ask[c].docs
          /\ OwnIsLike(e.answer)
      BY <1>1, <3>1 DEF CacheInv, BuildCacheKey
    <3> QED
      BY <1>2, <2>1, <3>1, <3>2, DeliverSafe
  <2> QED
    BY <1>3, <2>2, <2>3 DEF LlmCacheGet
<1>4. CASE FindSimilar(c)
  <2>1. ask[c].pc = "semantic" /\ UNCHANGED <<sessions, llmCache, semanticCache>> /\ CacheInv'
    BY <1>1, <1>4 DEF FindSimilar, CacheInv
  <2>2. CASE AskStep(c, "semantic", "generate")
    BY <2>1, <2>2, AskStepSafe
  <2>3. CASE ~AskStep(c, "semantic", "generate")
    <3> DEFINE Sent(e) == [e EXCEPT !.text = IF e.text = "empty" THEN "blank" ELSE e.text]
    <3>1. PICK e \in semanticCache : /\ e.embedding.like = ask[c].embedding.like
                                     /\ Deliver(c, Sent(e), "semantic", "save")
      BY <1>4, <2>3 DEF FindSimilar
    <3>2. Sent(e) \in Answers /\ Sent(e).embedding.like = ask[c].embedding.like
          /\ OwnIsLike(Sent(e))
      BY <1>1, <3>1 DEF CacheInv, Answers, OwnIsLike
    <3> HIDE DEF Sent
    <3> QED
      BY <1>2, <2>1, <3>1, <3>2, DeliverSafe
  <2> QED
    BY <2>2, <2>3
<1>5. CASE StreamAnswer(c)
  <2>1. PICK text \in {"full", "blank", "empty"} : Deliver(c, Answer(ask[c], text), "llm", "storeLlm")
    BY <1>5 DEF StreamAnswer
  <2>2. /\ Answer(ask[c], text) \in Answers /\ Answer(ask[c], text).question = ask[c].question
        /\ Answer(ask[c], text).docs = ask[c].docs
        /\ OwnIsLike(Answer(ask[c], text))
    BY <1>1, <1>5 DEF Answer, Answers, AskRecords, AskRight, Points, OwnIsLike, StreamAnswer
  <2>3. ask[c].pc = "generate" /\ ask[c].question \notin ComplexQuestions
        /\ UNCHANGED <<sessions, llmCache, semanticCache>>
    BY <1>5 DEF StreamAnswer, Simple
  <2> QED
    BY <2>1, <2>2, <2>3, DeliverSafe
<1>6. CASE SetWithTtl(c)
  <2>1. ask[c].answer \in Answers /\ ask[c].answer.question = ask[c].question
        /\ ask[c].answer.docs = ask[c].docs /\ OwnIsLike(ask[c].answer)
    BY <1>1, <1>6 DEF SetWithTtl, AskStep, AskRight, AskRecords, Points
  <2>2. CacheInv'
    BY <1>1, <1>6, <2>1 DEF SetWithTtl, CacheInv, BuildCacheKey
  <2>3. AskStep(c, "storeLlm", "storeSemantic")
    BY <1>6 DEF SetWithTtl
  <2> QED
    BY <1>1, <2>2, <2>3, AskStepSafe
<1>7. CASE StoreSemantic(c)
  <2>1. ask[c].answer \in Answers /\ OwnIsLike(ask[c].answer)
    BY <1>1, <1>7 DEF StoreSemantic, AskStep, AskRight, AskRecords, Points
  <2>3. CacheInv'
    BY <1>1, <1>7, <2>1 DEF StoreSemantic, CacheInv
  <2>2. AskStep(c, "storeSemantic", "save")
    BY <1>7 DEF StoreSemantic
  <2> QED
    BY <1>1, <2>2, <2>3, AskStepSafe
<1> QED
  BY <1>3, <1>4, <1>5, <1>6, <1>7

LEMMA CollectSafe == ASSUME AskInv, NEW c \in Calls, Collect(c) PROVE AskInv'
<1>1. /\ ask[c] \in AskRecords /\ AskRight(ask[c]) /\ ask[c].pc = "generate"
      /\ ask[c].question \in ComplexQuestions
  BY DEF AskInv, Collect, Simple
<1>2. PICK text \in {"full", "blank"}, spent \in BOOLEAN :
        ask' = [ask EXCEPT ![c] = [ask[c] EXCEPT
                  !.pc = IF IsExhausted(ask[c].rounds + 1, spent) THEN "save" ELSE "critique",
                  !.rounds = ask[c].rounds + 1, !.from = "llm", !.answer = Answer(ask[c], text)]]
  BY DEF Collect
<1> DEFINE pc == IF IsExhausted(ask[c].rounds + 1, spent) THEN "save" ELSE "critique"
           answer == Answer(ask[c], text)
           rounds == ask[c].rounds + 1
           a == [ask[c] EXCEPT !.pc = pc, !.rounds = rounds, !.from = "llm",
                               !.answer = answer]
<1>3. ask' = [ask EXCEPT ![c] = a]
  BY <1>2
<1>4. answer \in Answers /\ answer.question = ask[c].question /\ answer.docs = ask[c].docs
      /\ OwnIsLike(answer)
  BY <1>1 DEF Answer, Answers, AskRecords, AskRight, Points, OwnIsLike
<1>5. pc \in {"save", "critique"} /\ (pc = "critique" => ask[c].rounds + 1 < MaxIterations)
      /\ ask[c].rounds \in Nat /\ ask[c].rounds < MaxIterations
  BY <1>1, AskAssumption DEF IsExhausted, AskRecords, AskRight, Points
<1>55. rounds \in 0..MaxIterations /\ pc \in Points
  BY <1>5, AskAssumption DEF Points
<1> HIDE DEF pc, answer, rounds
<1>6. a \in AskRecords /\ a.pc = pc /\ a.session = ask[c].session /\ a.copy = ask[c].copy
      /\ a.peers = ask[c].peers
  BY <1>1, <1>4, <1>55 DEF AskRecords
<1>7. AskRight(a)
  <2>1. /\ a.question = ask[c].question /\ a.query = ask[c].query /\ a.rounds = ask[c].rounds + 1
        /\ a.from = "llm" /\ a.answer = answer /\ a.sources = ask[c].sources /\ a.docs = ask[c].docs
        /\ a.embedding = ask[c].embedding
    BY <1>1 DEF AskRecords, rounds
  <2>2. a.rounds <= 1 => ask[c].docs = ask[c].sources
    BY <1>1, <1>5, <2>1 DEF AskRight, Points
  <2>3. AskFits(a)
    BY <1>4, <2>1, <2>2 DEF AskFits
  <2>4. a.question \in Questions /\ a.query \in Questions /\ a.rounds <= MaxIterations
        /\ (a.pc # "save" => a.rounds < MaxIterations) /\ a.rounds # 0
    BY <1>1, <1>5, <1>6, <2>1, AskAssumption DEF AskRight, Points
  <2>5. ~a.embedding.own /\ OwnIsLike(a) /\ OwnIsLike(a.answer)
    BY <1>1, <1>4, <2>1 DEF AskRight, Points, OwnIsLike
  <2> HIDE DEF a
  <2> QED
    BY <1>1, <1>5, <1>6, <2>1, <2>3, <2>4, <2>5 DEF AskRight
<1>8. ask[c].pc \in Points /\ a.pc \in Points
  BY <1>1, <1>5, <1>6 DEF Points
<1>9. UNCHANGED <<sessions, llmCache, semanticCache>> /\ CacheInv'
  BY DEF Collect, AskInv, CacheInv
<1> HIDE DEF a
<1> QED
  BY <1>3, <1>6, <1>7, <1>8, <1>9, AskMoves

\* A refined query is a question.
LEMMA RefinedAreQuestions ==
  ASSUME NEW question \in Questions, NEW query \in RefinedQueries[question]
  PROVE  query \in Questions
<1>1. \A critique \in AllCritiques : critique.nextQuery \in Questions \cup {""}
  <2>1. \A critique \in StructuredCritiques : critique.nextQuery \in Questions \cup {""}
    BY DEF StructuredCritiques, Critiques
  <2>2. \A raw \in Critiques(-1..11) : ParseCritique(raw).nextQuery = raw.nextQuery
    BY DEF Critiques, ParseCritique
  <2>3. \A critique \in StreamedCritiques : critique.nextQuery \in Questions \cup {""}
    <3>1. FallbackCritique.nextQuery = ""
      BY DEF FallbackCritique
    <3>2. \A raw \in Critiques(-1..11) : raw.nextQuery \in Questions \cup {""}
      BY DEF Critiques
    <3> QED
      BY <2>2, <3>1, <3>2 DEF StreamedCritiques
  <2> QED
    BY <2>1, <2>3 DEF AllCritiques
<1>2. PICK critique \in AllCritiques : query \in Refine(question, critique)
  BY DEF RefinedQueries
<1> QED
  BY <1>1, <1>2 DEF Refine

LEMMA CritiqueSafe == ASSUME AskInv, NEW c \in Calls, GenerateCritique(c) PROVE AskInv'
<1>1. /\ ask[c] \in AskRecords /\ AskRight(ask[c]) /\ ask[c].pc = "critique"
      /\ UNCHANGED <<sessions, llmCache, semanticCache>> /\ CacheInv'
  BY DEF AskInv, GenerateCritique, AskStep, CacheInv
<1>2. CASE AskStep(c, "critique", "save")
  BY <1>1, <1>2, AskStepSafe
<1>3. ASSUME NEW query \in RefinedQueries[ask[c].question],
             ask' = [ask EXCEPT ![c] = [ask[c] EXCEPT !.pc = "search", !.query = query]]
      PROVE  AskInv'
  <2>1. ask[c].question \in Questions /\ ask[c].pc \in Points
    BY <1>1 DEF AskRight, Points
  <2>2. query \in Questions
    BY <2>1, RefinedAreQuestions
  <2> DEFINE a == [ask[c] EXCEPT !.pc = "search", !.query = query]
  <2>3. a \in AskRecords /\ a.pc = "search" /\ a.session = ask[c].session /\ a.copy = ask[c].copy
        /\ a.peers = ask[c].peers
    BY <1>1, <2>2 DEF AskRecords, Points
  <2>4. AskRight(a)
    BY <1>1, <2>2 DEF AskRight, AskRecords, Points, AskFits, OwnIsLike
  <2>5. a.pc \in Points
    BY <2>3 DEF Points
  <2> HIDE DEF a
  <2> QED
    BY <1>1, <1>3, <2>1, <2>3, <2>4, <2>5, AskMoves DEF a
<1> QED
  BY <1>2, <1>3 DEF GenerateCritique

\* The requests in progress on a session are under way.
LEMMA PeersUnderWay ==
  ASSUME AskInv, NEW s
  PROVE  InProgress(s) = {d \in Calls : ask[d].session = s /\ ask[d].pc \in Points}
BY EndedApart DEF AskInv, AskRecords, InProgress

LEMMA OpenSafe ==
  ASSUME AskInv, NEW c \in Calls, NEW q \in Questions, NEW s \in SessionIds \ {c}, OpenSession(c, q, s)
  PROVE  AskInv'
<1> USE DEF AskInv
<1> DEFINE peers == IF sessions[s].live THEN InProgress(s) ELSE {}
           used == IF sessions[s].live THEN s ELSE "none"
           copy == sessions[s].turns
           new == Ask(Route(q), q, used, copy, peers)
<1>1. /\ ask[c].pc = "idle" /\ UNCHANGED <<sessions, llmCache, semanticCache>>
      /\ ask' = [d \in Calls |-> IF d = c THEN new
                                ELSE IF d \in peers THEN [ask[d] EXCEPT !.peers = @ \cup {c}]
                                ELSE ask[d]]
  BY DEF OpenSession
<1>2. /\ Route(q) \in {"search", "history"} /\ (Route(q) = "search" <=> q \in ComplexQuestions)
      /\ Route(q) \in Points
  BY DEF Route, Points
<1>3. /\ peers \in SUBSET Calls /\ copy \in Seq(Calls) /\ used \in SessionIds \cup {"none"}
      /\ Route(q) \in Points \cup Ended /\ q \in Questions \cup {"none"}
  BY <1>2 DEF InProgress
<1> HIDE DEF peers, copy, used
<1>4. /\ new \in AskRecords /\ new.pc = Route(q) /\ new.question = q /\ new.query = q
      /\ new.session = used /\ new.copy = copy /\ new.peers = peers
      /\ new.rounds = 0 /\ new.answer = NoAnswer /\ new.from = "none"
      /\ new.embedding = NoEmbedding
  BY <1>3, NoneFits, AskAssumption DEF Ask, AskRecords
<1>5. c \notin peers /\ \A d \in peers : ask[d].pc \in Points /\ ask[d].session = s
  <2>1. \A d \in peers : ask[d].pc \in Points /\ ask[d].session = s
    BY PeersUnderWay DEF peers
  <2>2. "idle" \notin Points
    BY DEF Points
  <2> QED
    BY <1>1, <2>1, <2>2
<1> HIDE DEF new
<1>6. ask'[c] = new /\ ask' \in [Calls -> AskRecords]
  <2>1. ASSUME NEW d \in Calls PROVE [ask[d] EXCEPT !.peers = ask[d].peers \cup {c}] \in AskRecords
    <3>1. ask[d] \in AskRecords
      OBVIOUS
    <3> QED
      BY <3>1 DEF AskRecords
  <2> QED
    BY <1>1, <1>4, <2>1
<1>7. \A d \in Calls \ {c} :
        /\ d \notin peers => ask'[d] = ask[d]
        /\ d \in peers => ask'[d] = [ask[d] EXCEPT !.peers = ask[d].peers \cup {c}]
  BY <1>1
<1>8. \A d \in Calls \ {c} :
        /\ ask'[d].pc = ask[d].pc /\ ask'[d].session = ask[d].session /\ ask'[d].copy = ask[d].copy
        /\ ask'[d].peers = IF d \in peers THEN ask[d].peers \cup {c} ELSE ask[d].peers
        /\ ask'[d].answer = ask[d].answer
        /\ AskRight(ask'[d])
  <2> SUFFICES ASSUME NEW d \in Calls \ {c}
               PROVE  /\ ask'[d].pc = ask[d].pc /\ ask'[d].session = ask[d].session
                      /\ ask'[d].copy = ask[d].copy /\ ask'[d].answer = ask[d].answer
                      /\ ask'[d].peers = IF d \in peers THEN ask[d].peers \cup {c} ELSE ask[d].peers
                      /\ AskRight(ask'[d])
    OBVIOUS
  <2>1. CASE d \notin peers
    BY <1>7, <2>1
  <2>2. CASE d \in peers
    <3>1. ask'[d] = [ask[d] EXCEPT !.peers = ask[d].peers \cup {c}] /\ AskRight(ask[d])
      BY <1>7, <2>2
    <3>2. ask[d] \in AskRecords
      OBVIOUS
    <3> QED
      BY <2>2, <3>1, <3>2 DEF AskRecords, AskRight, AskFits, OwnIsLike
  <2> QED
    BY <2>1, <2>2
<1>9. AskRight(new)
  BY <1>2, <1>4, AskAssumption, NothingOwned DEF AskRight, AskFits, OwnIsLike
<1>10. CacheInv'
  BY <1>1 DEF CacheInv
<1>11. PeersInv'
  <2> SUFFICES ASSUME NEW a \in Calls, NEW b \in Calls, a # b,
                      ask'[a].pc \in Points, ask'[b].pc \in Points,
                      ask'[a].session = ask'[b].session, ask'[a].session # "none"
               PROVE  b \in ask'[a].peers
    BY DEF PeersInv
  <2>1. CASE a # c /\ b # c
    BY <1>8, <2>1 DEF PeersInv
  <2>2. CASE a = c
    <3>1. used = s /\ ask[b].session = s /\ ask[b].pc \in Points /\ sessions[s].live
      BY <1>4, <1>6, <1>8, <2>2 DEF used
    <3>2. b \in peers
      BY <3>1, PeersUnderWay DEF peers
    <3> QED
      BY <1>4, <1>6, <2>2, <3>2
  <2>3. CASE b = c
    <3>1. a \in peers
      <4>1. used = s /\ ask[a].session = s /\ ask[a].pc \in Points /\ sessions[s].live
        BY <1>4, <1>6, <1>8, <2>3 DEF used
      <4> QED
        BY <4>1, PeersUnderWay DEF peers
    <3> QED
      BY <1>8, <2>3, <3>1
  <2> QED
    BY <2>1, <2>2, <2>3
<1>13. CreatedInv'
  <2> SUFFICES ASSUME NEW a \in Calls, NEW b \in Calls, sessions[b].live \/ ask'[a].session = b
               PROVE  ask'[b].pc # "idle"
    BY <1>1 DEF CreatedInv
  <2>1. CASE b = c
    BY <1>2, <1>4, <1>6, <2>1
  <2>2. CASE b # c
    <3>1. (a = c /\ ~sessions[b].live) => used = b
      BY <1>4, <1>6, <2>2
    <3>2. sessions[b].live \/ ask[a].session = b \/ (used = s /\ sessions[s].live /\ s = b)
      BY <1>3, <1>6, <1>8, <2>2, <3>1, EndedApart DEF used
    <3>3. ask[b].pc # "idle"
      BY <3>2 DEF CreatedInv
    <3> QED
      BY <1>8, <2>2, <3>3
  <2> QED
    BY <2>1, <2>2
<1>12. KeptInv'
  <2> SUFFICES ASSUME NEW e \in Calls, ask'[e].pc = "done", ask'[e].session # "none",
                      ask'[e].answer.text = "full", sessions[ask'[e].session].live
               PROVE  /\ Keeps(e, sessions[ask[e].session].turns)'
                      /\ \A d \in Calls : (ask'[d].pc \in Points /\ ask'[d].session = ask'[e].session) =>
                           d \in ask'[e].peers \/ Keeps(e, ask[d].copy)'
    BY <1>1 DEF KeptInv
  <2>1. e # c /\ e \notin peers /\ ask'[e] = ask[e]
    BY <1>2, <1>4, <1>5, <1>6, <1>7, <1>8 DEF Points
  <2>2. /\ Keeps(e, sessions[ask[e].session].turns)
        /\ \A d \in Calls : (ask[d].pc \in Points /\ ask[d].session = ask[e].session) =>
             d \in ask[e].peers \/ Keeps(e, ask[d].copy)
    BY <2>1 DEF KeptInv
  <2>3. Keeps(e, sessions[ask[e].session].turns)'
    BY <1>1, <2>1, <2>2 DEF Keeps
  <2>4. ASSUME NEW d \in Calls, ask'[d].pc \in Points, ask'[d].session = ask'[e].session
        PROVE  d \in ask'[e].peers \/ Keeps(e, ask[d].copy)'
    <3>1. CASE d # c
      BY <1>8, <2>1, <2>2, <2>4, <3>1 DEF Keeps
    <3>2. CASE d = c
      <4>1. used = ask[e].session /\ used # "none"
        BY <1>4, <1>6, <2>1, <2>4, <3>2
      <4>2. used = s
        BY <4>1 DEF used
      <4> QED
        BY <1>4, <1>6, <2>1, <2>2, <3>2, <4>1, <4>2 DEF Keeps, copy
    <3> QED
      BY <3>1, <3>2
  <2> QED
    BY <2>3, <2>4
<1> QED
  BY <1>1, <1>6, <1>8, <1>9, <1>10, <1>11, <1>12, <1>13

LEMMA CreateSafe ==
  ASSUME AskInv, NEW c \in Calls, NEW q \in Questions, CreateSession(c, q)
  PROVE  AskInv'
<1> USE DEF AskInv
<1> DEFINE new == Ask(Route(q), q, c, <<>>, {})
<1>1. /\ ask[c].pc = "idle" /\ UNCHANGED <<llmCache, semanticCache>>
      /\ sessions' = [sessions EXCEPT ![c].live = TRUE] /\ ask' = [ask EXCEPT ![c] = new]
  BY DEF CreateSession
<1>2. /\ Route(q) \in {"search", "history"} /\ (Route(q) = "search" <=> q \in ComplexQuestions)
      /\ Route(q) \in Points
  BY DEF Route, Points
<1>3. c \in SessionIds /\ c # "none" /\ <<>> \in Seq(Calls)
  BY EndedApart
<1>4. /\ new \in AskRecords /\ new.pc = Route(q) /\ new.question = q /\ new.query = q
      /\ new.session = c /\ new.rounds = 0 /\ new.answer = NoAnswer /\ new.from = "none"
      /\ new.embedding = NoEmbedding
  <2>1. {} \in SUBSET Calls /\ Route(q) \in Points \cup Ended /\ q \in Questions \cup {"none"}
        /\ c \in SessionIds \cup {"none"}
    BY <1>2, <1>3
  <2> QED
    BY <1>3, <2>1, NoneFits, AskAssumption DEF Ask, AskRecords
<1> HIDE DEF new
<1>5. /\ ask'[c] = new /\ ask' \in [Calls -> AskRecords]
      /\ \A d \in Calls \ {c} : ask'[d] = ask[d] /\ ask[d].session # c
  BY <1>1, <1>4 DEF CreatedInv
<1>6. /\ sessions' \in [SessionIds -> [live : BOOLEAN, turns : Seq(Calls)]]
      /\ \A s \in SessionIds \ {c} : sessions'[s] = sessions[s]
  BY <1>1, <1>3
<1>7. CacheInv' /\ \A d \in Calls : AskRight(ask'[d])
  BY <1>1, <1>2, <1>4, <1>5, AskAssumption, NothingOwned DEF CacheInv, AskRight, AskFits, OwnIsLike
<1>8. PeersInv' /\ CreatedInv'
  <2>1. PeersInv'
    BY <1>2, <1>3, <1>4, <1>5 DEF PeersInv
  <2>2. CreatedInv'
    <3> SUFFICES ASSUME NEW a \in Calls, NEW b \in Calls, sessions'[b].live \/ ask'[a].session = b
                 PROVE  ask'[b].pc # "idle"
      BY DEF CreatedInv
    <3>1. CASE b = c
      BY <1>2, <1>4, <1>5, <3>1
    <3>2. CASE b # c
      <4>1. b \in SessionIds /\ sessions'[b] = sessions[b] /\ ask'[b] = ask[b]
        BY <1>5, <1>6, <3>2, EndedApart
      <4>2. sessions[b].live \/ ask[a].session = b
        BY <1>4, <1>5, <3>2, <4>1
      <4> QED
        BY <4>1, <4>2 DEF CreatedInv
    <3> QED
      BY <3>1, <3>2
  <2> QED
    BY <2>1, <2>2
<1>9. KeptInv'
  <2> SUFFICES ASSUME NEW e \in Calls, ask'[e].pc = "done", ask'[e].session # "none",
                      ask'[e].answer.text = "full", sessions'[ask'[e].session].live
               PROVE  /\ Keeps(e, sessions[ask[e].session].turns)'
                      /\ \A d \in Calls : (ask'[d].pc \in Points /\ ask'[d].session = ask'[e].session) =>
                           d \in ask'[e].peers \/ Keeps(e, ask[d].copy)'
    BY DEF KeptInv
  <2>1. e # c /\ ask'[e] = ask[e] /\ ask[e].session # c
    BY <1>2, <1>4, <1>5
  <2>2. ask[e].session \in SessionIds /\ sessions'[ask[e].session] = sessions[ask[e].session]
    BY <1>6, <2>1 DEF AskRecords
  <2>3. /\ Keeps(e, sessions[ask[e].session].turns)
        /\ \A d \in Calls : (ask[d].pc \in Points /\ ask[d].session = ask[e].session) =>
             d \in ask[e].peers \/ Keeps(e, ask[d].copy)
    BY <2>1, <2>2 DEF KeptInv
  <2> QED
    BY <1>4, <1>5, <2>1, <2>2, <2>3 DEF Keeps
<1> QED
  BY <1>5, <1>6, <1>7, <1>8, <1>9

\* Appending a turn keeps the others.
LEMMA AppendedTurns ==
  ASSUME NEW turns \in Seq(Calls), NEW c \in Calls
  PROVE  /\ AppendTurn(turns, c) \in Seq(Calls)
         /\ ToSet(AppendTurn(turns, c)) = ToSet(turns) \cup {c}
<1>1. /\ Append(turns, c) \in Seq(Calls) /\ Len(Append(turns, c)) = Len(turns) + 1
      /\ \A i \in 1..Len(turns) : Append(turns, c)[i] = turns[i]
      /\ Append(turns, c)[Len(turns) + 1] = c /\ Len(turns) \in Nat
      /\ DOMAIN turns = 1..Len(turns) /\ DOMAIN Append(turns, c) = 1..Len(turns) + 1
  OBVIOUS
<1> DEFINE appended == Append(turns, c)
<1> HIDE DEF appended
<1>2. DOMAIN appended = DOMAIN turns \cup {Len(turns) + 1}
  BY <1>1 DEF appended
<1>3. ToSet(appended) = ToSet(turns) \cup {c}
  BY <1>1, <1>2 DEF ToSet, appended
<1> QED
  BY <1>1, <1>3 DEF AppendTurn, appended

\* What is left of a request that has ended.
LEMMA EndedAsk ==
  ASSUME NEW a \in AskRecords
  PROVE  /\ Done(a) \in AskRecords /\ Done(a).pc = "done" /\ Done(a).session = a.session
         /\ Done(a).peers = a.peers /\ Done(a).answer.text = a.answer.text
         /\ Broken \in AskRecords /\ Broken.pc = "broken" /\ Broken.session = "none"
<1>1. /\ <<>> \in Seq(Calls) /\ {} \in SUBSET Calls /\ a.session \in SessionIds \cup {"none"}
      /\ "none" \in Questions \cup {"none"} /\ "none" \in SessionIds \cup {"none"}
      /\ a.peers \in SUBSET Calls /\ a.answer.text \in {"none", "full", "blank", "empty"}
      /\ "done" \in Points \cup Ended /\ "broken" \in Points \cup Ended
  BY DEF AskRecords, Ended, Answers
<1> DEFINE new == Ask("done", "none", a.session, <<>>, a.peers)
<1>2. /\ new \in AskRecords /\ new.pc = "done" /\ new.session = a.session /\ new.peers = a.peers
      /\ new.answer = NoAnswer
  BY <1>1, NoneFits, AskAssumption DEF Ask, AskRecords
<1>3. Done(a) = [new EXCEPT !.answer = [NoAnswer EXCEPT !.text = a.answer.text]]
  BY <1>2 DEF Done, AskRecords
<1>4. [NoAnswer EXCEPT !.text = a.answer.text] \in Answers
      /\ [NoAnswer EXCEPT !.text = a.answer.text].text = a.answer.text
  BY <1>1, NoneFits DEF NoAnswer, Answers
<1> HIDE DEF new
<1>5. /\ Done(a) \in AskRecords /\ Done(a).pc = "done" /\ Done(a).session = a.session
      /\ Done(a).peers = a.peers /\ Done(a).answer.text = a.answer.text
  BY <1>2, <1>3, <1>4 DEF AskRecords
<1>6. Broken \in AskRecords /\ Broken.pc = "broken" /\ Broken.session = "none"
  BY <1>1, NoneFits, AskAssumption DEF Broken, Ask, AskRecords
<1> QED
  BY <1>5, <1>6

\* A request under way breaks off.
LEMMA BreaksSafe ==
  ASSUME AskInv, NEW c \in Calls, ask' = [ask EXCEPT ![c] = Broken], ask[c].pc \in Points,
         UNCHANGED <<sessions, llmCache, semanticCache>>
  PROVE  AskInv'
<1> USE DEF AskInv
<1>1. /\ ask' \in [Calls -> AskRecords] /\ ask'[c].pc = "broken" /\ ask'[c].session = "none"
      /\ \A d \in Calls \ {c} : ask'[d] = ask[d]
  BY EndedAsk
<1>2. CacheInv' /\ \A d \in Calls : AskRight(ask'[d])
  BY <1>1 DEF CacheInv, AskRight, Points
<1>3. PeersInv' /\ CreatedInv'
  BY <1>1, EndedApart DEF PeersInv, CreatedInv, Points
<1>4. KeptInv'
  BY <1>1 DEF KeptInv, Keeps, Points
<1> QED
  BY <1>1, <1>2, <1>3, <1>4

\* A request is answered; if its turn is not blank, its session's turns become those
\* that it has read, and its own.
LEMMA UpdateSafe == ASSUME AskInv, NEW c \in Calls, UpdateSession(c) PROVE AskInv'
<1> USE DEF AskInv
<1> DEFINE s == ask[c].session  text == ask[c].answer.text
           saves == s # "none" /\ ValidTurn(text) /\ sessions[s].live
           turns == AppendTurn(ask[c].copy, c)
<1>1. /\ ask[c].pc = "save" /\ ask[c].pc \in Points /\ ask[c] \in AskRecords
      /\ UNCHANGED <<llmCache, semanticCache>>
      /\ sessions' = IF saves THEN [sessions EXCEPT ![s].turns = turns] ELSE sessions
      /\ ask' = [ask EXCEPT ![c] = IF s # "none" /\ text # "empty" /\ ~ValidTurn(text)
                                  THEN Broken ELSE Done(ask[c])]
  BY DEF UpdateSession, Points
<1>2. CASE s # "none" /\ text # "empty" /\ ~ValidTurn(text)
  BY <1>1, <1>2, BreaksSafe
<1>3. CASE ~(s # "none" /\ text # "empty" /\ ~ValidTurn(text))
  <2>1. /\ ask' \in [Calls -> AskRecords] /\ ask'[c].pc = "done" /\ ask'[c].session = s
        /\ ask'[c].peers = ask[c].peers /\ ask'[c].answer.text = text
        /\ \A d \in Calls \ {c} : ask'[d] = ask[d]
    BY <1>1, <1>3, EndedAsk
  <2>2. s \in SessionIds \cup {"none"} /\ ask[c].copy \in Seq(Calls)
    BY <1>1 DEF AskRecords
  <2>3. turns \in Seq(Calls) /\ ToSet(turns) = ToSet(ask[c].copy) \cup {c}
    BY <2>2, AppendedTurns
  <2> HIDE DEF turns, text
  <2>4. /\ sessions' \in [SessionIds -> [live : BOOLEAN, turns : Seq(Calls)]]
        /\ \A x \in SessionIds : sessions'[x].live = sessions[x].live
        /\ \A x \in SessionIds : sessions'[x].turns = IF saves /\ x = s THEN turns ELSE sessions[x].turns
    <3>1. CASE saves
      <4>1. s \in SessionIds
        BY <2>2, <3>1
      <4>2. sessions' = [sessions EXCEPT ![s].turns = turns]
        BY <1>1, <3>1
      <4> HIDE DEF s, saves
      <4> QED
        BY <2>3, <3>1, <4>1, <4>2
    <3>2. CASE ~saves
      BY <1>1, <3>2
    <3> QED
      BY <3>1, <3>2
  <2>5. CacheInv' /\ \A d \in Calls : AskRight(ask'[d])
    BY <1>1, <2>1 DEF CacheInv, AskRight, Points
  <2>6. PeersInv' /\ CreatedInv'
    BY <1>1, <2>1, <2>4, EndedApart DEF PeersInv, CreatedInv, Points
  <2>7. KeptInv'
    <3> SUFFICES ASSUME NEW e \in Calls, ask'[e].pc = "done", ask'[e].session # "none",
                        ask'[e].answer.text = "full", sessions'[ask'[e].session].live
                 PROVE  /\ Keeps(e, sessions[ask[e].session].turns)'
                        /\ \A d \in Calls : (ask'[d].pc \in Points /\ ask'[d].session = ask'[e].session) =>
                             d \in ask'[e].peers \/ Keeps(e, ask[d].copy)'
      BY DEF KeptInv
    <3>1. CASE e = c
      <4>1. saves /\ s \in SessionIds
        BY <2>1, <2>2, <2>4, <3>1 DEF ValidTurn
      <4>2. c \in ToSet(sessions'[s].turns)
        BY <2>3, <2>4, <4>1
      <4>3. Keeps(e, sessions[ask[e].session].turns)'
        BY <2>1, <3>1, <4>2 DEF Keeps
      <4>4. ASSUME NEW d \in Calls, ask'[d].pc \in Points, ask'[d].session = ask'[e].session
            PROVE  d \in ask'[e].peers
        <5>1. d # c /\ ask[d].pc \in Points /\ ask[d].session = s /\ s # "none"
          BY <2>1, <3>1, <4>1, <4>4 DEF Points
        <5> QED
          BY <1>1, <2>1, <3>1, <5>1 DEF PeersInv
      <4> QED
        BY <4>3, <4>4
    <3>2. CASE e # c
      <4>1. ask'[e] = ask[e] /\ ask[e].session \in SessionIds
            /\ sessions[ask[e].session].live
        BY <2>1, <2>4, <3>2 DEF AskRecords
      <4>2. /\ Keeps(e, sessions[ask[e].session].turns)
            /\ \A d \in Calls : (ask[d].pc \in Points /\ ask[d].session = ask[e].session) =>
                 d \in ask[e].peers \/ Keeps(e, ask[d].copy)
        BY <4>1 DEF KeptInv
      <4>3. CASE saves /\ ask[e].session = s
        <5>1. c \in ask[e].peers \/ Keeps(e, ask[c].copy)
          BY <1>1, <4>2, <4>3
        <5>2. sessions'[ask'[e].session].turns = turns
          BY <2>4, <4>1, <4>3
        <5> HIDE DEF s, saves
        <5>3. Keeps(e, sessions[ask[e].session].turns)'
          BY <2>3, <4>1, <5>1, <5>2 DEF Keeps
        <5> QED
          BY <2>1, <4>1, <4>2, <5>3 DEF Keeps, Points
      <4>4. CASE ~(saves /\ ask[e].session = s)
        <5>1. sessions'[ask'[e].session].turns = sessions[ask[e].session].turns
          BY <2>4, <4>1, <4>4
        <5> QED
          BY <2>1, <4>1, <4>2, <5>1 DEF Keeps, Points
      <4> QED
        BY <4>3, <4>4
    <3> QED
      BY <3>1, <3>2
  <2> QED
    BY <2>1, <2>4, <2>5, <2>6, <2>7
<1> QED
  BY <1>2, <1>3

\* Sessions and entries of the caches go away.
LEMMA RemovalSafe ==
  ASSUME AskInv, (\E s \in SessionIds : DeleteSession(s)) \/ ExpireCaches \/ UNCHANGED askVars
  PROVE  AskInv'
<1> USE DEF AskInv
<1>1. /\ ask' = ask /\ CacheInv'
      /\ sessions' \in [SessionIds -> [live : BOOLEAN, turns : Seq(Calls)]]
      /\ \A s \in SessionIds : sessions'[s] = sessions[s] \/ sessions'[s].live = FALSE
  <2>1. ASSUME NEW s \in SessionIds, DeleteSession(s)
        PROVE  /\ sessions' \in [SessionIds -> [live : BOOLEAN, turns : Seq(Calls)]]
               /\ \A x \in SessionIds : sessions'[x] = sessions[x] \/ sessions'[x].live = FALSE
    <3>1. <<>> \in Seq(Calls)
      OBVIOUS
    <3> QED
      BY <2>1, <3>1 DEF DeleteSession
  <2>2. ask' = ask /\ llmCache' \subseteq llmCache /\ semanticCache' \subseteq semanticCache
    BY DEF DeleteSession, ExpireCaches, askVars
  <2>3. CacheInv'
    BY <2>2 DEF CacheInv
  <2>4. CASE ExpireCaches \/ UNCHANGED askVars
    BY <2>2, <2>3, <2>4 DEF ExpireCaches, askVars
  <2> QED
    BY <2>1, <2>2, <2>3, <2>4
<1>2. PeersInv' /\ CreatedInv' /\ \A c \in Calls : AskRight(ask'[c])
  BY <1>1, EndedApart DEF PeersInv, CreatedInv
<1>3. KeptInv'
  <2> SUFFICES ASSUME NEW e \in Calls, ask[e].pc = "done", ask[e].session # "none",
                      ask[e].answer.text = "full", sessions'[ask[e].session].live
               PROVE  /\ Keeps(e, sessions[ask[e].session].turns)'
                      /\ \A d \in Calls : (ask[d].pc \in Points /\ ask[d].session = ask[e].session) =>
                           d \in ask[e].peers \/ Keeps(e, ask[d].copy)'
    BY <1>1 DEF KeptInv
  <2>1. ask[e].session \in SessionIds
    BY DEF AskRecords
  <2>2. sessions'[ask[e].session] = sessions[ask[e].session]
    BY <1>1, <2>1
  <2> QED
    BY <1>1, <2>2 DEF KeptInv, Keeps
<1> QED
  BY <1>1, <1>2, <1>3

LEMMA AskInvStep == AskInv /\ [AskNext]_askVars => AskInv'
<1> SUFFICES ASSUME AskInv, [AskNext]_askVars PROVE AskInv'
  OBVIOUS
<1>1. ASSUME NEW c \in Calls, NEW q \in Questions,
             (\E s \in SessionIds \ {c} : OpenSession(c, q, s)) \/ CreateSession(c, q)
      PROVE  AskInv'
  BY <1>1, OpenSafe, CreateSafe
<1>2. ASSUME NEW c \in Calls, NEW given \in BOOLEAN, ReadHistory(c, given) PROVE AskInv'
  BY <1>2, ReadHistorySafe, Zenon
<1>3. ASSUME NEW c \in Calls,
             \/ SearchDocs(c) \/ LlmCacheGet(c) \/ FindSimilar(c) \/ StreamAnswer(c)
             \/ SetWithTtl(c) \/ StoreSemantic(c) \/ Collect(c) \/ GenerateCritique(c)
             \/ UpdateSession(c)
      PROVE  AskInv'
  BY <1>3, SearchDocsSafe, CacheSteps, CollectSafe, CritiqueSafe, UpdateSafe
<1>4. ASSUME NEW c \in Calls, AskBreaks(c) PROVE AskInv'
  <2>1. ask[c].pc \in Points
    BY <1>4 DEF AskBreaks, AskInv, AskRecords
  <2> QED
    BY <1>4, <2>1, BreaksSafe DEF AskBreaks
<1>5. CASE (\E s \in SessionIds : DeleteSession(s)) \/ ExpireCaches \/ UNCHANGED askVars
  BY <1>5, RemovalSafe
<1> QED
  BY <1>1, <1>2, <1>3, <1>4, <1>5, Zenon DEF AskNext

\* Whatever requests, deletions, expiries and crashes interleave: an answered question
\* stays in its session, unless one that was open at the same time overwrote it, and
\* an answer was made for the question and from the sources sent with it, or is one of
\* the semantic cache whose search had an embedding like that of this one: for the same
\* query where neither was split nor averaged.
THEOREM AnswersAreKept == AskSpec => [](AskTypeOK /\ AnswersKept)
<1>1. AskInv => AskTypeOK
  <2> SUFFICES ASSUME AskInv PROVE AskTypeOK
    OBVIOUS
  <2>1. \A s \in SessionIds : sessions[s].live \in BOOLEAN /\ ToSet(sessions[s].turns) \subseteq Calls
    BY DEF AskInv, ToSet
  <2>2. \A c \in Calls : ask[c] \in AskRecords
    BY DEF AskInv
  <2> QED
    BY <2>1, <2>2 DEF AskTypeOK, AskRecords, Points, Ended
<1>2. AskInv => TurnsKept
  BY DEF AskInv, KeptInv, Keeps, TurnsKept
<1>3. AskInv => AnswerFitsSources
  <2> SUFFICES ASSUME AskInv, NEW c \in Calls, ask[c].pc \notin Ended PROVE AskFits(ask[c])
    BY DEF AnswerFitsSources, AskFits
  <2>1. ask[c].pc \in Points /\ AskRight(ask[c])
    BY DEF AskInv, AskRecords
  <2> QED
    BY <2>1 DEF AskRight
<1> QED
  BY <1>1, <1>2, <1>3, InitAsk, AskInvStep, PTL DEF AskSpec, AnswersKept

=============================================================================
