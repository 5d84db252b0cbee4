---------------------- MODULE PaymentOutboxRelayProofs ----------------------
(***************************************************************************)
(* Proofs of the safety properties of PaymentOutboxRelay for any number of *)
(* events, overlapping polls, attempts and faults, and any batch size.     *)
(***************************************************************************)
EXTENDS PaymentOutboxRelay, TLAPS

Active(t) == poll[t].pc # "idle"

\* The flag admits one poll at a time.
ExclusiveInv ==
  \A t \in Polls : Active(t) => up /\ polling /\ \A u \in Polls : Active(u) => u = t

\* A poll stands at an event of its batch, whose events are all PENDING; only
\* the one whose marking was rejected may be PUBLISHED already.
BatchInv ==
  \A t \in Polls : poll[t].pc \notin {"idle", "find"} =>
    /\ Current(t) \in poll[t].batch
    /\ \A e \in poll[t].batch :
         \/ status[e] = "PENDING"
         \/ status[e] = "PUBLISHED" /\ e = Current(t) /\ poll[t].pc \in {"read", "write"}

\* Between publish and mark the event is in the topic.
DeliveryInv ==
  \A t \in Polls : poll[t].pc = "mark" => topic[Current(t)] > 0

\* The column attempts never exceeds the errors that happened; it is one
\* behind while markFailedAttempt runs.
AttemptsInv ==
  /\ \A e \in Events : /\ attempts[e] <= failures[e]
                       /\ status[e] # "FAILED" => attempts[e] < MaxAttempts
  /\ \A t \in Polls :
       /\ poll[t].pc \in {"read", "write"} => attempts[Current(t)] + 1 <= failures[Current(t)]
       /\ poll[t].pc = "write" => poll[t].seen = attempts[Current(t)]

\* An event that may be published again has one copy in the topic for each
\* fault at most.
CopiesInv ==
  \A e \in Events :
    /\ status[e] # "PUBLISHED" /\ (\A t \in Polls : ~(poll[t].pc = "mark" /\ Current(t) = e))
         => topic[e] <= faults
    /\ (\E t \in Polls : poll[t].pc \in {"read", "write"} /\ Current(t) = e)
         => topic[e] <= faults

IInv ==
  /\ TypeOK
  /\ ExclusiveInv
  /\ BatchInv
  /\ DeliveryInv
  /\ AttemptsInv
  /\ CopiesInv
  /\ PublishedWasDelivered
  /\ GivenUpAfterMaxAttempts
  /\ DuplicatesComeFromFaults

-----------------------------------------------------------------------------
(* The steps of a poll                                                     *)

\* An action of an invocation of pollOnce that is under way.
LEMMA RunningPoll ==
  ASSUME NEW t \in Polls, PollStep(t)
  PROVE  up /\ Active(t)
BY DEF PollStep, FindPendingBatch, Publish, PublishThrows, MarkPublished,
       MarkPublishedThrows, ReadAttempts, WriteAttempts, At, Active

\* While one poll is under way, no other is.
LEMMA AlonePoll ==
  ASSUME ExclusiveInv, NEW t \in Polls, Active(t)
  PROVE  /\ up
         /\ polling
         /\ \A u \in Polls \ {t} : poll[u].pc = "idle"
BY DEF ExclusiveInv, Active

\* The loop turns to an event of the batch.
LEMMA HandleStep ==
  ASSUME NEW t \in Polls, NEW batch, Handle(t, batch)
  PROVE  \E e \in batch :
           poll' = [poll EXCEPT ![t] =
                     [pc |-> "publish", batch |-> batch, event |-> e, seen |-> 0]]
BY DEF Handle

\* The loop ends, or turns to another event of the batch.
LEMMA NextEventStep ==
  ASSUME NEW t \in Polls, NextEvent(t)
  PROVE  \/ /\ poll' = [poll EXCEPT ![t] = Idle]
            /\ polling' = FALSE
         \/ /\ polling' = polling
            /\ \E e \in poll[t].batch \ {poll[t].event} :
                 poll' = [poll EXCEPT ![t] =
                   [pc |-> "publish", batch |-> poll[t].batch \ {poll[t].event},
                    event |-> e, seen |-> 0]]
BY DEF NextEvent, Handle, EndPoll, Current

\* The batch a poll starts with holds PENDING events only.
LEMMA FindStep ==
  ASSUME NEW t \in Polls, FindPendingBatch(t)
  PROVE  \/ /\ poll' = [poll EXCEPT ![t] = Idle]
            /\ polling' = FALSE
         \/ /\ polling' = polling
            /\ \E batch \in SUBSET Pending : \E e \in batch :
                 poll' = [poll EXCEPT ![t] =
                   [pc |-> "publish", batch |-> batch, event |-> e, seen |-> 0]]
<1>1. Lowest(Pending, BatchSize) \in SUBSET Pending
  BY DEF Lowest
<1>2. CASE Pending = {}
  BY <1>2 DEF FindPendingBatch, EndPoll
<1>3. CASE Pending # {}
  <2>1. Handle(t, Lowest(Pending, BatchSize)) /\ polling' = polling
    BY <1>3 DEF FindPendingBatch
  <2>2. QED BY <1>1, <2>1, HandleStep
<1>4. QED BY <1>2, <1>3

-----------------------------------------------------------------------------
(* Type correctness                                                        *)

LEMMA IdleType == Idle \in PollStates
  BY RelayAssumption DEF Idle, PollStates, PollPcs

\* Initially no event is committed and no poll runs, which TypeOK allows.
LEMMA InitTypeOK == Init => TypeOK
<1> SUFFICES ASSUME Init PROVE TypeOK
  OBVIOUS
<1>1. poll \in [Polls -> PollStates]
  BY IdleType DEF Init
<1>2. status \in [Events -> OutboxStatus \cup {"ABSENT"}]
  BY DEF Init
<1>3. attempts \in [Events -> 0..MaxAttempts]
  BY RelayAssumption DEF Init
<1>4. topic \in [Events -> Nat] /\ failures \in [Events -> Nat]
  BY DEF Init
<1>5. faults \in 0..MaxFaults
  BY RelayAssumption DEF Init
<1>6. QED
  BY <1>1, <1>2, <1>3, <1>4, <1>5 DEF Init, TypeOK

\* A poll moves on in the body of the loop.
LEMMA GotoType ==
  ASSUME poll \in [Polls -> PollStates], NEW t \in Polls, NEW pc \in PollPcs, Goto(t, pc)
  PROVE  poll' \in [Polls -> PollStates]
<1>1. [poll[t] EXCEPT !.pc = pc] \in PollStates
  BY DEF PollStates
<1>2. poll' = [poll EXCEPT ![t] = [poll[t] EXCEPT !.pc = pc]]
  BY DEF Goto
<1>3. QED BY <1>1, <1>2

\* The loop turns to an event.
LEMMA HandleType ==
  ASSUME NEW batch \in SUBSET Events, NEW e \in batch
  PROVE  [pc |-> "publish", batch |-> batch, event |-> e, seen |-> 0] \in PollStates
BY RelayAssumption DEF PollStates, PollPcs

LEMMA NextEventType ==
  ASSUME TypeOK, NEW t \in Polls, NextEvent(t)
  PROVE  poll' \in [Polls -> PollStates] /\ polling' \in BOOLEAN
<1>1. poll \in [Polls -> PollStates] /\ polling \in BOOLEAN
  BY DEF TypeOK
<1>2. CASE poll' = [poll EXCEPT ![t] = Idle] /\ polling' = FALSE
  BY <1>1, <1>2, IdleType
<1>3. CASE /\ polling' = polling
           /\ \E e \in poll[t].batch \ {poll[t].event} :
                poll' = [poll EXCEPT ![t] =
                  [pc |-> "publish", batch |-> poll[t].batch \ {poll[t].event},
                   event |-> e, seen |-> 0]]
  <2>1. poll[t].batch \ {poll[t].event} \in SUBSET Events
    BY <1>1 DEF PollStates
  <2>2. QED BY <1>1, <1>3, <2>1, HandleType
<1>4. QED BY <1>2, <1>3, NextEventStep

\* A poll in the loop stands at an event.
LEMMA CurrentType ==
  ASSUME TypeOK, BatchInv, NEW t \in Polls, poll[t].pc \notin {"idle", "find"}
  PROVE  poll[t].event \in Events
<1>1. poll[t].batch \in SUBSET Events
  BY DEF TypeOK, PollStates
<1>2. QED BY <1>1 DEF BatchInv, Current

LEMMA CountType ==
  ASSUME NEW f \in [Events -> Nat], NEW e \in Events
  PROVE  [f EXCEPT ![e] = @ + 1] \in [Events -> Nat]
OBVIOUS

\* A step of a poll keeps the types.
LEMMA PollTypeOK ==
  ASSUME TypeOK, AttemptsInv, BatchInv, NEW t \in Polls, Tick(t) \/ PollStep(t)
  PROVE  TypeOK'
<1> USE DEF TypeOK
<1>2. CASE Tick(t)
  BY <1>2, GotoType DEF Tick, PollPcs
<1>3. CASE FindPendingBatch(t)
  <2>1. poll' \in [Polls -> PollStates] /\ polling' \in BOOLEAN
    <3>1. Pending \in SUBSET Events
      BY DEF Pending
    <3>2. CASE poll' = [poll EXCEPT ![t] = Idle] /\ polling' = FALSE
      BY <3>2, IdleType
    <3>3. CASE /\ polling' = polling
               /\ \E batch \in SUBSET Pending : \E e \in batch :
                    poll' = [poll EXCEPT ![t] =
                      [pc |-> "publish", batch |-> batch, event |-> e, seen |-> 0]]
      BY <3>1, <3>3, HandleType
    <3>4. QED BY <1>3, <3>2, <3>3, FindStep
  <2>2. QED BY <1>3, <2>1 DEF FindPendingBatch
<1>4. CASE Publish(t)
  <2>0. Current(t) \in Events
    BY <1>4, CurrentType DEF Publish, At, Current
  <2>1. poll' \in [Polls -> PollStates]
    BY <1>4, GotoType DEF Publish, PollPcs
  <2>2. topic' \in [Events -> Nat]
    <3>1. topic' = [topic EXCEPT ![Current(t)] = @ + 1]
      BY <1>4 DEF Publish
    <3>2. QED BY <2>0, <3>1, CountType
  <2>3. QED BY <1>4, <2>1, <2>2 DEF Publish
<1>5. CASE PublishThrows(t)
  <2>0. Current(t) \in Events
    BY <1>5, CurrentType DEF PublishThrows, At, Current
  <2>1. poll' \in [Polls -> PollStates]
    BY <1>5, GotoType DEF PublishThrows, Catch, PollPcs
  <2>2. topic' \in [Events -> Nat]
    <3>1. topic' = topic \/ topic' = [topic EXCEPT ![Current(t)] = @ + 1]
      BY <1>5 DEF PublishThrows
    <3>2. QED BY <2>0, <3>1, CountType
  <2>3. failures' \in [Events -> Nat]
    <3>1. failures' = [failures EXCEPT ![Current(t)] = @ + 1]
      BY <1>5 DEF PublishThrows, Catch
    <3>2. QED BY <2>0, <3>1, CountType
  <2>4. faults' \in 0..MaxFaults
    BY <1>5, RelayAssumption DEF PublishThrows, Fault
  <2>5. QED BY <1>5, <2>1, <2>2, <2>3, <2>4 DEF PublishThrows
<1>6. CASE MarkPublished(t)
  <2>1. poll' \in [Polls -> PollStates] /\ polling' \in BOOLEAN
    BY <1>6, NextEventType DEF MarkPublished
  <2>2. status' \in [Events -> OutboxStatus \cup {"ABSENT"}]
    BY <1>6 DEF MarkPublished, OutboxStatus
  <2>3. QED BY <1>6, <2>1, <2>2 DEF MarkPublished
<1>7. CASE MarkPublishedThrows(t)
  <2>0. Current(t) \in Events
    BY <1>7, CurrentType DEF MarkPublishedThrows, At, Current
  <2>1. poll' \in [Polls -> PollStates]
    BY <1>7, GotoType DEF MarkPublishedThrows, Catch, PollPcs
  <2>2. failures' \in [Events -> Nat]
    <3>1. failures' = [failures EXCEPT ![Current(t)] = @ + 1]
      BY <1>7 DEF MarkPublishedThrows, Catch
    <3>2. QED BY <2>0, <3>1, CountType
  <2>3. status' \in [Events -> OutboxStatus \cup {"ABSENT"}]
    BY <1>7 DEF MarkPublishedThrows, OutboxStatus
  <2>4. faults' \in 0..MaxFaults
    BY <1>7, RelayAssumption DEF MarkPublishedThrows, Fault
  <2>5. QED BY <1>7, <2>1, <2>2, <2>3, <2>4 DEF MarkPublishedThrows
<1>8. CASE ReadAttempts(t)
  <2>1. poll[t].event \in Events
    BY <1>8, CurrentType DEF ReadAttempts, At
  <2>2. [poll[t] EXCEPT !.pc = "write", !.seen = attempts[Current(t)]] \in PollStates
    BY <2>1 DEF PollStates, PollPcs, Current
  <2>3. poll' = [poll EXCEPT ![t] =
                   [poll[t] EXCEPT !.pc = "write", !.seen = attempts[Current(t)]]]
    BY <1>8 DEF ReadAttempts
  <2>4. QED BY <1>8, <2>2, <2>3 DEF ReadAttempts
<1>9. CASE WriteAttempts(t)
  <2>1. poll' \in [Polls -> PollStates] /\ polling' \in BOOLEAN
    BY <1>9, NextEventType DEF WriteAttempts
  <2>2. status' \in [Events -> OutboxStatus \cup {"ABSENT"}]
    BY <1>9 DEF WriteAttempts, OutboxStatus
  <2>3. attempts' \in [Events -> 0..MaxAttempts]
    <3>1. poll[t].event \in Events
      BY <1>9, CurrentType DEF WriteAttempts, At
    <3>2. status[poll[t].event] # "FAILED"
      BY <1>9 DEF WriteAttempts, At, BatchInv, Current
    <3>3. poll[t].seen = attempts[poll[t].event]
      BY <1>9 DEF WriteAttempts, At, AttemptsInv, Current
    <3>4. attempts[poll[t].event] < MaxAttempts /\ attempts[poll[t].event] \in 0..MaxAttempts
      BY <3>1, <3>2 DEF AttemptsInv
    <3>5. poll[t].seen + 1 \in 0..MaxAttempts
      BY <3>3, <3>4, RelayAssumption
    <3>6. QED BY <1>9, <3>5 DEF WriteAttempts
  <2>4. QED BY <1>9, <2>1, <2>2, <2>3 DEF WriteAttempts
<1>10. QED
  BY <1>2, <1>3, <1>4, <1>5, <1>6, <1>7, <1>8, <1>9 DEF PollStep

\* A step of the environment.
Environment ==
  \/ \E e \in Events : Commit(e)
  \/ Crash
  \/ Restart
  \/ BrokerStops
  \/ BrokerRecovers

\* A step of the environment keeps the types.
LEMMA EnvironmentTypeOK ==
  ASSUME TypeOK, Environment
  PROVE  TypeOK'
<1> USE DEF TypeOK
<1>1. ASSUME NEW e \in Events, Commit(e) PROVE TypeOK'
  BY <1>1 DEF Commit, OutboxStatus
<1>2. CASE Crash
  <2>1. poll' \in [Polls -> PollStates]
    BY <1>2, IdleType DEF Crash
  <2>2. faults' \in 0..MaxFaults
    BY <1>2, RelayAssumption DEF Crash, Fault
  <2>3. QED BY <1>2, <2>1, <2>2 DEF Crash
<1>3. CASE Restart
  BY <1>3 DEF Restart
<1>4. CASE BrokerStops
  BY <1>4, RelayAssumption DEF BrokerStops, Fault
<1>5. CASE BrokerRecovers
  BY <1>5 DEF BrokerRecovers
<1>6. QED
  BY <1>1, <1>2, <1>3, <1>4, <1>5 DEF Environment

-----------------------------------------------------------------------------
(* The inductive step, action by action                                    *)

\* What the actions of a poll disturb; the rest of IInv is TypeOK.
Safe ==
  /\ ExclusiveInv
  /\ BatchInv
  /\ DeliveryInv
  /\ AttemptsInv
  /\ CopiesInv
  /\ PublishedWasDelivered
  /\ GivenUpAfterMaxAttempts
  /\ DuplicatesComeFromFaults

\* Initially nothing is published, given up or under way.
LEMMA InitSafe == Init => Safe
BY RelayAssumption
DEF Init, Safe, ExclusiveInv, BatchInv, DeliveryInv, AttemptsInv, CopiesInv,
    PublishedWasDelivered, GivenUpAfterMaxAttempts, DuplicatesComeFromFaults,
    Active, Idle

\* A poll that stays alone keeps ExclusiveInv.
LEMMA ExclusiveStep ==
  ASSUME TypeOK, ExclusiveInv, NEW t \in Polls, Active(t),
         NEW s, poll' = [poll EXCEPT ![t] = s], up' = up,
         polling' = polling \/ s.pc = "idle"
  PROVE  ExclusiveInv'
<1>1. \A u \in Polls \ {t} : poll'[u].pc = "idle"
  BY AlonePoll
<1>2. poll'[t] = s
  BY DEF TypeOK
<1>3. QED
  BY <1>1, <1>2, AlonePoll DEF ExclusiveInv, Active

\* A tick finds no poll under way.
LEMMA TickSafe ==
  ASSUME TypeOK, Safe, NEW t \in Polls, Tick(t)
  PROVE  Safe'
<1>1. \A u \in Polls : poll[u].pc = "idle"
  BY DEF Tick, Safe, ExclusiveInv, Active
<1>2. poll' = [poll EXCEPT ![t].pc = "find"]
  BY DEF Tick, Goto
<1>3. /\ \A u \in Polls \ {t} : poll'[u].pc = "idle"
      /\ poll'[t].pc = "find"
  BY <1>1, <1>2 DEF TypeOK, PollStates
<1>4. ExclusiveInv'
  BY <1>3 DEF Tick, ExclusiveInv, Active
<1>5. BatchInv' /\ DeliveryInv'
  BY <1>3 DEF BatchInv, DeliveryInv
<1>6. AttemptsInv' /\ CopiesInv'
  BY <1>1, <1>3 DEF Tick, Safe, AttemptsInv, CopiesInv
<1>7. PublishedWasDelivered' /\ GivenUpAfterMaxAttempts' /\ DuplicatesComeFromFaults'
  BY DEF Tick, Safe, PublishedWasDelivered, GivenUpAfterMaxAttempts,
         DuplicatesComeFromFaults
<1>8. QED
  BY <1>4, <1>5, <1>6, <1>7 DEF Safe

\* findPendingBatch takes PENDING events, or ends the poll.
LEMMA FindSafe ==
  ASSUME TypeOK, Safe, NEW t \in Polls, FindPendingBatch(t)
  PROVE  Safe'
<1>1. Active(t) /\ poll[t].pc = "find"
  BY DEF FindPendingBatch, At, Active
<1>2. PICK s : /\ poll' = [poll EXCEPT ![t] = s]
               /\ \/ s = Idle /\ polling' = FALSE
                  \/ /\ polling' = polling
                     /\ s.pc = "publish"
                     /\ s.event \in s.batch
                     /\ s.batch \subseteq Pending
  <2>1. CASE poll' = [poll EXCEPT ![t] = Idle] /\ polling' = FALSE
    BY <2>1
  <2>2. ASSUME NEW batch \in SUBSET Pending, NEW e \in batch, polling' = polling,
               poll' = [poll EXCEPT ![t] =
                 [pc |-> "publish", batch |-> batch, event |-> e, seen |-> 0]]
        PROVE  \E s : /\ poll' = [poll EXCEPT ![t] = s]
                      /\ polling' = polling
                      /\ s.pc = "publish"
                      /\ s.event \in s.batch
                      /\ s.batch \subseteq Pending
    <3>1. WITNESS [pc |-> "publish", batch |-> batch, event |-> e, seen |-> 0]
    <3>2. QED BY <2>2
  <2>3. QED BY <2>1, <2>2, FindStep
<1>3. poll'[t] = s /\ \A u \in Polls \ {t} : poll'[u] = poll[u] /\ poll'[u].pc = "idle"
  BY <1>1, <1>2, AlonePoll DEF TypeOK, Safe
<1>4. s.pc \in {"idle", "publish"}
  BY <1>2 DEF Idle
<1>5. ExclusiveInv'
  <2>1. polling' = polling \/ s.pc = "idle"
    BY <1>2 DEF Idle
  <2>2. QED BY <1>1, <1>2, <2>1, ExclusiveStep DEF FindPendingBatch, Safe
<1>6. BatchInv'
  BY <1>2, <1>3 DEF FindPendingBatch, BatchInv, Current, Pending, Idle
<1>7. DeliveryInv'
  BY <1>3, <1>4 DEF DeliveryInv
<1>8. AttemptsInv' /\ CopiesInv'
  <2>1. \A u \in Polls : poll[u].pc \notin {"mark", "read", "write"} /\ poll'[u].pc \notin {"mark", "read", "write"}
    BY <1>1, <1>3, <1>4
  <2>2. QED BY <2>1 DEF FindPendingBatch, Safe, AttemptsInv, CopiesInv
<1>9. PublishedWasDelivered' /\ GivenUpAfterMaxAttempts' /\ DuplicatesComeFromFaults'
  BY DEF FindPendingBatch, Safe, PublishedWasDelivered, GivenUpAfterMaxAttempts,
         DuplicatesComeFromFaults
<1>10. QED
  BY <1>5, <1>6, <1>7, <1>8, <1>9 DEF Safe

\* Only the poll that acts moves; the others are idle.
LEMMA OthersIdle ==
  ASSUME TypeOK, Safe, NEW t \in Polls, Active(t),
         NEW s, poll' = [poll EXCEPT ![t] = s]
  PROVE  /\ poll'[t] = s
         /\ \A u \in Polls \ {t} : poll[u].pc = "idle" /\ poll'[u].pc = "idle"
BY AlonePoll DEF TypeOK, Safe

\* Within the loop body only pc and seen change.
LEMMA GotoStep ==
  ASSUME TypeOK, NEW t \in Polls, NEW pc, Goto(t, pc)
  PROVE  \E s : /\ poll' = [poll EXCEPT ![t] = s]
                /\ s.pc = pc
                /\ s.batch = poll[t].batch
                /\ s.event = poll[t].event
<1>1. poll' = [poll EXCEPT ![t] = [poll[t] EXCEPT !.pc = pc]]
  BY DEF Goto
<1>2. poll[t] \in PollStates
  BY DEF TypeOK
<1>3. LET s == [poll[t] EXCEPT !.pc = pc]
      IN  s.pc = pc /\ s.batch = poll[t].batch /\ s.event = poll[t].event
  BY <1>2 DEF PollStates
<1>4. QED BY <1>1, <1>3

\* After an event the loop ends, or turns to an event that is left.
LEMMA NextEventMoves ==
  ASSUME NEW t \in Polls, NextEvent(t)
  PROVE  \E s : /\ poll' = [poll EXCEPT ![t] = s]
                /\ \/ s = Idle /\ polling' = FALSE
                   \/ /\ polling' = polling
                      /\ s.pc = "publish"
                      /\ s.event \in s.batch
                      /\ s.batch = poll[t].batch \ {poll[t].event}
<1> DEFINE rest == poll[t].batch \ {poll[t].event}
<1>1. CASE poll' = [poll EXCEPT ![t] = Idle] /\ polling' = FALSE
  BY <1>1
<1>2. ASSUME NEW e \in rest, polling' = polling,
             poll' = [poll EXCEPT ![t] =
               [pc |-> "publish", batch |-> rest, event |-> e, seen |-> 0]]
      PROVE  \E s : /\ poll' = [poll EXCEPT ![t] = s]
                    /\ polling' = polling
                    /\ s.pc = "publish"
                    /\ s.event \in s.batch
                    /\ s.batch = rest
  <2>1. WITNESS [pc |-> "publish", batch |-> rest, event |-> e, seen |-> 0]
  <2>2. QED BY <1>2
<1>3. QED BY <1>1, <1>2, NextEventStep

\* An acknowledged publish: the event was PENDING, its copies within faults.
LEMMA PublishSafe ==
  ASSUME TypeOK, Safe, NEW t \in Polls, Publish(t)
  PROVE  Safe'
<1> DEFINE c == Current(t)
<1>1. Active(t) /\ poll[t].pc = "publish"
  BY DEF Publish, At, Active
<1>2. PICK s : /\ poll' = [poll EXCEPT ![t] = s]
               /\ s.pc = "mark"
               /\ s.batch = poll[t].batch
               /\ s.event = c
  BY GotoStep DEF Publish, Current
<1>3. /\ poll'[t] = s
      /\ \A u \in Polls \ {t} : poll[u].pc = "idle" /\ poll'[u].pc = "idle"
  BY <1>1, <1>2, OthersIdle
<1>4. c \in Events /\ c \in poll[t].batch /\ \A e \in poll[t].batch : status[e] = "PENDING"
  BY <1>1, CurrentType DEF Safe, BatchInv, Current
<1>5. topic' = [topic EXCEPT ![c] = topic[c] + 1] /\ status' = status
  BY DEF Publish
<1>6. /\ topic'[c] = topic[c] + 1
      /\ \A e \in Events \ {c} : topic'[e] = topic[e]
      /\ topic \in [Events -> Nat]
  BY <1>4, <1>5 DEF TypeOK
<1>7. topic[c] <= faults
  BY <1>1, <1>3, <1>4 DEF Safe, CopiesInv
<1>8. ExclusiveInv'
  BY <1>1, <1>2, ExclusiveStep DEF Publish, Safe
<1>9. BatchInv'
  BY <1>2, <1>3, <1>4, <1>5 DEF BatchInv, Current
<1>10. DeliveryInv'
  BY <1>2, <1>3, <1>4, <1>6 DEF DeliveryInv, Current
<1>11. AttemptsInv'
  BY <1>2, <1>3 DEF Publish, Safe, AttemptsInv
<1>12. faults' = faults /\ failures' = failures /\ faults \in Nat
  BY RelayAssumption DEF Publish, TypeOK
<1>13. CopiesInv'
  <2>1. \A e \in Events \ {c} : status'[e] # "PUBLISHED" => topic'[e] <= faults'
    BY <1>1, <1>3, <1>5, <1>6, <1>12 DEF Safe, CopiesInv
  <2>2. poll'[t].pc = "mark" /\ Current(t)' = c
    BY <1>2, <1>3 DEF Current
  <2>3. QED BY <1>3, <2>1, <2>2 DEF CopiesInv
<1>14. PublishedWasDelivered'
  BY <1>5, <1>6 DEF Safe, PublishedWasDelivered
<1>15. GivenUpAfterMaxAttempts'
  BY <1>5, <1>12 DEF Safe, GivenUpAfterMaxAttempts
<1>16. DuplicatesComeFromFaults'
  BY <1>6, <1>7, <1>12 DEF Safe, DuplicatesComeFromFaults
<1>17. QED
  BY <1>8, <1>9, <1>10, <1>11, <1>13, <1>14, <1>15, <1>16 DEF Safe

\* A rejected publish: a copy it left in the topic is paid for by a fault.
LEMMA PublishThrowsSafe ==
  ASSUME TypeOK, Safe, NEW t \in Polls, PublishThrows(t)
  PROVE  Safe'
<1> DEFINE c == Current(t)
<1>1. Active(t) /\ poll[t].pc = "publish"
  BY DEF PublishThrows, At, Active
<1>2. PICK s : /\ poll' = [poll EXCEPT ![t] = s]
               /\ s.pc = "read"
               /\ s.batch = poll[t].batch
               /\ s.event = c
  BY GotoStep DEF PublishThrows, Catch, Current
<1>3. /\ poll'[t] = s
      /\ \A u \in Polls \ {t} : poll[u].pc = "idle" /\ poll'[u].pc = "idle"
  BY <1>1, <1>2, OthersIdle
<1>4. c \in Events /\ c \in poll[t].batch /\ \A e \in poll[t].batch : status[e] = "PENDING"
  BY <1>1, CurrentType DEF Safe, BatchInv, Current
<1>5. status' = status /\ attempts' = attempts
  BY DEF PublishThrows
<1>6. failures' = [failures EXCEPT ![c] = failures[c] + 1] /\ failures \in [Events -> Nat]
  BY DEF PublishThrows, Catch, TypeOK
<1>7. /\ failures'[c] = failures[c] + 1
      /\ \A e \in Events \ {c} : failures'[e] = failures[e]
  BY <1>4, <1>6
<1>8. topic[c] <= faults
  BY <1>1, <1>3, <1>4 DEF Safe, CopiesInv
<1>9. faults \in Nat /\ faults' \in Nat /\ topic \in [Events -> Nat] /\ attempts \in [Events -> Nat]
  BY RelayAssumption DEF PublishThrows, Fault, TypeOK
<1>10. /\ \A e \in Events \ {c} : topic'[e] = topic[e]
       /\ faults <= faults'
       /\ topic'[c] >= topic[c]
       /\ topic'[c] <= faults'
  <2>1. CASE topic' = topic /\ faults' = faults
    BY <1>4, <1>8, <1>9, <2>1
  <2>2. CASE topic' = topic /\ faults' = faults + 1
    BY <1>4, <1>8, <1>9, <2>2
  <2>3. CASE topic' = [topic EXCEPT ![c] = topic[c] + 1] /\ faults' = faults + 1
    BY <1>4, <1>8, <1>9, <2>3
  <2>4. QED BY <2>1, <2>2, <2>3 DEF PublishThrows, Fault
<1>11. ExclusiveInv'
  BY <1>1, <1>2, ExclusiveStep DEF PublishThrows, Safe
<1>12. BatchInv'
  BY <1>2, <1>3, <1>4, <1>5 DEF BatchInv, Current
<1>13. DeliveryInv'
  BY <1>2, <1>3 DEF DeliveryInv
<1>14. AttemptsInv'
  <2>1. \A e \in Events : attempts[e] <= failures[e]
    BY DEF Safe, AttemptsInv
  <2>2. attempts[c] \in Nat /\ failures[c] \in Nat /\ attempts[c] <= failures[c]
    BY <1>4, <1>6, <1>9, <2>1
  <2>3. attempts[c] + 1 <= failures'[c] /\ attempts[c] <= failures'[c]
    BY <1>7, <2>2
  <2>4. \A e \in Events : attempts[e] <= failures'[e]
    BY <1>7, <2>1, <2>3
  <2>5. QED BY <1>2, <1>3, <1>5, <2>3, <2>4 DEF Safe, AttemptsInv, Current
<1>15. CopiesInv'
  <2>1. \A e \in Events \ {c} : status'[e] # "PUBLISHED" => topic'[e] <= faults'
    BY <1>1, <1>3, <1>5, <1>9, <1>10 DEF Safe, CopiesInv
  <2>2. poll'[t].pc = "read" /\ Current(t)' = c
    BY <1>2, <1>3 DEF Current
  <2>3. QED BY <1>3, <1>10, <2>1, <2>2 DEF CopiesInv
<1>16. PublishedWasDelivered'
  BY <1>5, <1>9, <1>10, <1>4 DEF Safe, PublishedWasDelivered
<1>17. GivenUpAfterMaxAttempts'
  <2>1. \A e \in Events : status[e] = "FAILED" => e # c
    BY <1>4
  <2>2. QED BY <1>5, <1>7, <2>1 DEF Safe, GivenUpAfterMaxAttempts
<1>18. DuplicatesComeFromFaults'
  <2>1. TypeOK'
    BY PollTypeOK DEF Safe, PollStep
  <2>2. topic'[c] <= 1 + faults'
    BY <1>4, <1>9, <1>10, <2>1 DEF TypeOK
  <2>3. ASSUME NEW e \in Events \ {c} PROVE topic'[e] <= 1 + faults'
    BY <1>9, <1>10 DEF Safe, DuplicatesComeFromFaults
  <2>4. QED BY <2>2, <2>3 DEF DuplicatesComeFromFaults
<1>19. QED
  BY <1>11, <1>12, <1>13, <1>14, <1>15, <1>16, <1>17, <1>18 DEF Safe

\* markPublished: the event is in the topic and leaves the batch.
LEMMA MarkPublishedSafe ==
  ASSUME TypeOK, Safe, NEW t \in Polls, MarkPublished(t)
  PROVE  Safe'
<1> DEFINE c == Current(t)
<1>1. Active(t) /\ poll[t].pc = "mark"
  BY DEF MarkPublished, At, Active
<1>2. PICK s : /\ poll' = [poll EXCEPT ![t] = s]
               /\ \/ s = Idle /\ polling' = FALSE
                  \/ /\ polling' = polling
                     /\ s.pc = "publish"
                     /\ s.event \in s.batch
                     /\ s.batch = poll[t].batch \ {c}
  BY NextEventMoves DEF MarkPublished, Current
<1>3. /\ poll'[t] = s
      /\ \A u \in Polls \ {t} : poll[u].pc = "idle" /\ poll'[u].pc = "idle"
  BY <1>1, <1>2, OthersIdle
<1>4. s.pc \in {"idle", "publish"}
  BY <1>2 DEF Idle
<1>5. c \in Events /\ topic[c] > 0
  BY <1>1, CurrentType DEF Safe, DeliveryInv, Current
<1>6. /\ status'[c] = "PUBLISHED"
      /\ \A e \in Events \ {c} : status'[e] = status[e]
      /\ topic' = topic /\ attempts' = attempts /\ failures' = failures /\ faults' = faults
  BY <1>5 DEF MarkPublished, TypeOK
<1>7. ExclusiveInv'
  <2>1. polling' = polling \/ s.pc = "idle"
    BY <1>2 DEF Idle
  <2>2. QED BY <1>1, <1>2, <2>1, ExclusiveStep DEF MarkPublished, Safe
<1>8. BatchInv'
  <2>1. poll[t].batch \subseteq Events /\ \A e \in poll[t].batch : status[e] = "PENDING"
    BY <1>1 DEF Safe, BatchInv, TypeOK, PollStates
  <2>2. CASE s.pc = "publish" /\ s.event \in s.batch /\ s.batch = poll[t].batch \ {c}
    BY <1>3, <1>6, <2>1, <2>2 DEF BatchInv, Current
  <2>3. CASE s.pc = "idle"
    BY <1>3, <2>3 DEF BatchInv
  <2>4. QED BY <1>2, <2>2, <2>3 DEF Idle
<1>9. DeliveryInv'
  BY <1>3, <1>4 DEF DeliveryInv
<1>10. \A u \in Polls : poll'[u].pc \notin {"mark", "read", "write"}
  BY <1>3, <1>4
<1>11. AttemptsInv'
  BY <1>5, <1>6, <1>10, <1>1 DEF Safe, AttemptsInv, BatchInv, Current
<1>12. CopiesInv'
  <2>1. ASSUME NEW e \in Events, status'[e] # "PUBLISHED" PROVE topic'[e] <= faults'
    <3>1. e # c /\ \A u \in Polls : ~(poll[u].pc = "mark" /\ Current(u) = e)
      BY <1>3, <1>6, <2>1
    <3>2. QED BY <1>6, <2>1, <3>1 DEF Safe, CopiesInv
  <2>2. QED BY <1>10, <2>1 DEF CopiesInv
<1>13. PublishedWasDelivered'
  BY <1>5, <1>6 DEF Safe, PublishedWasDelivered
<1>14. GivenUpAfterMaxAttempts'
  BY <1>6 DEF Safe, GivenUpAfterMaxAttempts
<1>15. DuplicatesComeFromFaults'
  BY <1>6 DEF Safe, DuplicatesComeFromFaults
<1>16. QED
  BY <1>7, <1>8, <1>9, <1>11, <1>12, <1>13, <1>14, <1>15 DEF Safe

\* A rejected markPublished: its fault pays for the copy in the topic.
LEMMA MarkPublishedThrowsSafe ==
  ASSUME TypeOK, Safe, NEW t \in Polls, MarkPublishedThrows(t)
  PROVE  Safe'
<1> DEFINE c == Current(t)
<1>1. Active(t) /\ poll[t].pc = "mark"
  BY DEF MarkPublishedThrows, At, Active
<1>2. PICK s : /\ poll' = [poll EXCEPT ![t] = s]
               /\ s.pc = "read"
               /\ s.batch = poll[t].batch
               /\ s.event = c
  BY GotoStep DEF MarkPublishedThrows, Catch, Current
<1>3. /\ poll'[t] = s
      /\ \A u \in Polls \ {t} : poll[u].pc = "idle" /\ poll'[u].pc = "idle"
  BY <1>1, <1>2, OthersIdle
<1>4. /\ c \in Events /\ c \in poll[t].batch /\ topic[c] > 0
      /\ poll[t].batch \subseteq Events /\ \A e \in poll[t].batch : status[e] = "PENDING"
  BY <1>1, CurrentType DEF Safe, BatchInv, DeliveryInv, Current, TypeOK, PollStates
<1>5. /\ status'[c] \in {"PENDING", "PUBLISHED"}
      /\ \A e \in Events \ {c} : status'[e] = status[e]
  <2>1. CASE status' = status
    BY <1>4, <2>1
  <2>2. CASE status' = [status EXCEPT ![c] = "PUBLISHED"]
    BY <1>4, <2>2 DEF TypeOK
  <2>3. QED BY <2>1, <2>2 DEF MarkPublishedThrows
<1>6. failures' = [failures EXCEPT ![c] = failures[c] + 1] /\ failures \in [Events -> Nat]
  BY DEF MarkPublishedThrows, Catch, TypeOK
<1>7. /\ failures'[c] = failures[c] + 1
      /\ \A e \in Events \ {c} : failures'[e] = failures[e]
      /\ topic' = topic /\ attempts' = attempts
  BY <1>4, <1>6 DEF MarkPublishedThrows
<1>8. /\ faults \in Nat /\ faults' = faults + 1
      /\ topic \in [Events -> Nat] /\ attempts \in [Events -> Nat]
  BY RelayAssumption DEF MarkPublishedThrows, Fault, TypeOK
<1>9. \A e \in Events : topic'[e] <= faults'
  BY <1>7, <1>8 DEF Safe, DuplicatesComeFromFaults
<1>10. ExclusiveInv'
  BY <1>1, <1>2, ExclusiveStep DEF MarkPublishedThrows, Safe
<1>11. BatchInv'
  BY <1>2, <1>3, <1>4, <1>5 DEF BatchInv, Current
<1>12. DeliveryInv'
  BY <1>2, <1>3 DEF DeliveryInv
<1>13. AttemptsInv'
  <2>1. \A e \in Events : attempts[e] <= failures[e]
    BY DEF Safe, AttemptsInv
  <2>2. attempts[c] \in Nat /\ failures[c] \in Nat /\ attempts[c] <= failures[c]
    BY <1>4, <1>6, <1>8, <2>1
  <2>3. attempts[c] + 1 <= failures'[c] /\ attempts[c] <= failures'[c]
    BY <1>7, <2>2
  <2>4. \A e \in Events : attempts[e] <= failures'[e]
    BY <1>7, <2>1, <2>3
  <2>5. \A e \in Events : status'[e] # "FAILED" => status[e] # "FAILED"
    BY <1>4, <1>5
  <2>6. QED BY <1>2, <1>3, <1>7, <2>3, <2>4, <2>5 DEF Safe, AttemptsInv, Current
<1>14. CopiesInv'
  BY <1>9 DEF CopiesInv
<1>15. PublishedWasDelivered'
  BY <1>4, <1>5, <1>7 DEF Safe, PublishedWasDelivered
<1>16. GivenUpAfterMaxAttempts'
  BY <1>5, <1>7 DEF Safe, GivenUpAfterMaxAttempts
<1>17. DuplicatesComeFromFaults'
  BY <1>7, <1>8 DEF Safe, DuplicatesComeFromFaults
<1>18. QED
  BY <1>10, <1>11, <1>12, <1>13, <1>14, <1>15, <1>16, <1>17 DEF Safe

\* markFailedAttempt reads the attempts of an event that no other poll writes.
LEMMA ReadAttemptsSafe ==
  ASSUME TypeOK, Safe, NEW t \in Polls, ReadAttempts(t)
  PROVE  Safe'
<1> DEFINE c == Current(t)
           s == [poll[t] EXCEPT !.pc = "write", !.seen = attempts[c]]
<1>1. Active(t) /\ poll[t].pc = "read"
  BY DEF ReadAttempts, At, Active
<1>2. /\ poll' = [poll EXCEPT ![t] = s]
      /\ s.pc = "write"
      /\ s.batch = poll[t].batch
      /\ s.event = c
      /\ s.seen = attempts[c]
  BY DEF ReadAttempts, Current, TypeOK, PollStates
<1> HIDE DEF s
<1>3. /\ poll'[t] = s
      /\ \A u \in Polls \ {t} : poll[u].pc = "idle" /\ poll'[u].pc = "idle"
  BY <1>1, <1>2, OthersIdle
<1>4. UNCHANGED <<status, attempts, up, polling, topic, broker, failures, faults>>
  BY DEF ReadAttempts
<1>5. ExclusiveInv'
  BY <1>1, <1>2, <1>4, ExclusiveStep DEF Safe
<1>6. BatchInv'
  BY <1>1, <1>2, <1>3, <1>4 DEF Safe, BatchInv, Current
<1>7. DeliveryInv'
  BY <1>2, <1>3 DEF DeliveryInv
<1>8. AttemptsInv'
  BY <1>1, <1>2, <1>3, <1>4 DEF Safe, AttemptsInv, Current
<1>9. CopiesInv'
  <2>1. ASSUME NEW e \in Events, status'[e] # "PUBLISHED" PROVE topic'[e] <= faults'
    <3>1. \A u \in Polls : ~(poll[u].pc = "mark" /\ Current(u) = e)
      BY <1>1, <1>3
    <3>2. QED BY <1>4, <2>1, <3>1 DEF Safe, CopiesInv
  <2>2. c \in Events => topic'[c] <= faults'
    BY <1>1, <1>4 DEF Safe, CopiesInv
  <2>3. poll'[t].pc = "write" /\ Current(t)' = c
    BY <1>2, <1>3 DEF Current
  <2>4. QED BY <1>3, <2>1, <2>2, <2>3 DEF CopiesInv
<1>10. PublishedWasDelivered' /\ GivenUpAfterMaxAttempts' /\ DuplicatesComeFromFaults'
  BY <1>4 DEF Safe, PublishedWasDelivered, GivenUpAfterMaxAttempts,
         DuplicatesComeFromFaults
<1>11. QED
  BY <1>5, <1>6, <1>7, <1>8, <1>9, <1>10 DEF Safe

\* markFailedAttempt counts an error that happened, and gives up at the limit.
LEMMA WriteAttemptsSafe ==
  ASSUME TypeOK, Safe, NEW t \in Polls, WriteAttempts(t)
  PROVE  Safe'
<1> DEFINE c == Current(t)
<1>1. Active(t) /\ poll[t].pc = "write"
  BY DEF WriteAttempts, At, Active
<1>2. PICK s : /\ poll' = [poll EXCEPT ![t] = s]
               /\ \/ s = Idle /\ polling' = FALSE
                  \/ /\ polling' = polling
                     /\ s.pc = "publish"
                     /\ s.event \in s.batch
                     /\ s.batch = poll[t].batch \ {c}
  BY NextEventMoves DEF WriteAttempts, Current
<1>3. /\ poll'[t] = s
      /\ \A u \in Polls \ {t} : poll[u].pc = "idle" /\ poll'[u].pc = "idle"
  BY <1>1, <1>2, OthersIdle
<1>4. s.pc \in {"idle", "publish"}
  BY <1>2 DEF Idle
<1>5. c \in Events /\ poll[t].seen = attempts[c] /\ attempts[c] + 1 <= failures[c]
  BY <1>1, CurrentType DEF Safe, AttemptsInv, Current
<1>6. /\ status'[c] = IF attempts[c] + 1 >= MaxAttempts THEN "FAILED" ELSE "PENDING"
      /\ \A e \in Events \ {c} : status'[e] = status[e]
      /\ attempts'[c] = attempts[c] + 1
      /\ \A e \in Events \ {c} : attempts'[e] = attempts[e]
      /\ topic' = topic /\ failures' = failures /\ faults' = faults
  BY <1>5 DEF WriteAttempts, TypeOK
<1>7. /\ attempts[c] \in Nat /\ failures[c] \in Nat
      /\ MaxAttempts \in Nat /\ topic[c] <= faults
  <2>1. topic[c] <= faults
    BY <1>1, <1>5 DEF Safe, CopiesInv
  <2>2. /\ attempts \in [Events -> Nat] /\ failures \in [Events -> Nat]
        /\ MaxAttempts \in Nat
    BY RelayAssumption DEF TypeOK
  <2>3. QED BY <1>5, <2>1, <2>2
<1>8. ExclusiveInv'
  <2>1. polling' = polling \/ s.pc = "idle"
    BY <1>2 DEF Idle
  <2>2. QED BY <1>1, <1>2, <2>1, ExclusiveStep DEF WriteAttempts, Safe
<1>9. BatchInv'
  <2>1. poll[t].batch \subseteq Events /\ \A e \in poll[t].batch \ {c} : status[e] = "PENDING"
    BY <1>1 DEF Safe, BatchInv, TypeOK, PollStates
  <2>2. CASE s.pc = "publish" /\ s.event \in s.batch /\ s.batch = poll[t].batch \ {c}
    BY <1>3, <1>6, <2>1, <2>2 DEF BatchInv, Current
  <2>3. CASE s.pc = "idle"
    BY <1>3, <2>3 DEF BatchInv
  <2>4. QED BY <1>2, <2>2, <2>3 DEF Idle
<1>10. DeliveryInv'
  BY <1>3, <1>4 DEF DeliveryInv
<1>11. \A u \in Polls : poll'[u].pc \notin {"mark", "read", "write"}
  BY <1>3, <1>4
<1>12. AttemptsInv'
  <2>1. attempts'[c] <= failures'[c] /\ (status'[c] # "FAILED" => attempts'[c] < MaxAttempts)
    BY <1>5, <1>6, <1>7
  <2>2. ASSUME NEW e \in Events, e # c
        PROVE  attempts'[e] <= failures'[e] /\ (status'[e] # "FAILED" => attempts'[e] < MaxAttempts)
    BY <1>6, <2>2 DEF Safe, AttemptsInv
  <2>3. \A e \in Events :
          attempts'[e] <= failures'[e] /\ (status'[e] # "FAILED" => attempts'[e] < MaxAttempts)
    BY <2>1, <2>2
  <2>4. QED BY <1>11, <2>3 DEF AttemptsInv
<1>13. CopiesInv'
  <2>1. ASSUME NEW e \in Events \ {c}, status'[e] # "PUBLISHED" PROVE topic'[e] <= faults'
    <3>1. \A u \in Polls : ~(poll[u].pc = "mark" /\ Current(u) = e)
      BY <1>1, <1>3
    <3>2. QED BY <1>6, <2>1, <3>1 DEF Safe, CopiesInv
  <2>2. QED BY <1>6, <1>7, <1>11, <2>1 DEF CopiesInv
<1>14. PublishedWasDelivered'
  BY <1>6 DEF Safe, PublishedWasDelivered
<1>15. GivenUpAfterMaxAttempts'
  <2>1. status'[c] = "FAILED" => failures'[c] >= MaxAttempts
    BY <1>5, <1>6, <1>7
  <2>2. QED BY <1>6, <2>1 DEF Safe, GivenUpAfterMaxAttempts
<1>16. DuplicatesComeFromFaults'
  BY <1>6 DEF Safe, DuplicatesComeFromFaults
<1>17. QED
  BY <1>8, <1>9, <1>10, <1>12, <1>13, <1>14, <1>15, <1>16 DEF Safe

\* A crash forgets the polls; its fault pays for a copy published and not
\* yet marked.
LEMMA CrashSafe ==
  ASSUME TypeOK, Safe, Crash
  PROVE  Safe'
<1>1. \A u \in Polls : poll'[u].pc = "idle"
  BY DEF Crash, Idle
<1>2. /\ UNCHANGED <<status, attempts, topic, broker, failures>>
      /\ faults' = faults + 1 /\ faults \in Nat /\ topic \in [Events -> Nat]
  BY RelayAssumption DEF Crash, Fault, TypeOK
<1>3. \A e \in Events : topic'[e] <= faults' /\ topic'[e] <= 1 + faults'
  BY <1>2 DEF Safe, DuplicatesComeFromFaults
<1>4. ExclusiveInv' /\ BatchInv' /\ DeliveryInv'
  BY <1>1 DEF ExclusiveInv, BatchInv, DeliveryInv, Active
<1>5. AttemptsInv'
  BY <1>1, <1>2 DEF Safe, AttemptsInv
<1>6. CopiesInv' /\ DuplicatesComeFromFaults'
  BY <1>3 DEF CopiesInv, DuplicatesComeFromFaults
<1>7. PublishedWasDelivered' /\ GivenUpAfterMaxAttempts'
  BY <1>2 DEF Safe, PublishedWasDelivered, GivenUpAfterMaxAttempts
<1>8. QED
  BY <1>4, <1>5, <1>6, <1>7 DEF Safe

\* A commit turns an event that no poll knows yet PENDING.
LEMMA CommitSafe ==
  ASSUME TypeOK, Safe, NEW e \in Events, Commit(e)
  PROVE  Safe'
<1>1. /\ status[e] = "ABSENT" /\ status'[e] = "PENDING"
      /\ \A d \in Events \ {e} : status'[d] = status[d]
      /\ UNCHANGED <<attempts, up, polling, poll, topic, broker, failures, faults>>
  BY DEF Commit, TypeOK
<1>2. ExclusiveInv' /\ DeliveryInv'
  BY <1>1 DEF Safe, ExclusiveInv, DeliveryInv, Active, Current
<1>3. BatchInv'
  <2>1. \A t \in Polls : poll[t].batch \subseteq Events
    BY DEF TypeOK, PollStates
  <2>2. QED BY <1>1, <2>1 DEF Safe, BatchInv, Current
<1>4. AttemptsInv'
  BY <1>1 DEF Safe, AttemptsInv, Current
<1>5. CopiesInv'
  BY <1>1 DEF Safe, CopiesInv, Current
<1>6. PublishedWasDelivered' /\ GivenUpAfterMaxAttempts' /\ DuplicatesComeFromFaults'
  BY <1>1 DEF Safe, PublishedWasDelivered, GivenUpAfterMaxAttempts,
         DuplicatesComeFromFaults
<1>7. QED
  BY <1>2, <1>3, <1>4, <1>5, <1>6 DEF Safe

\* What leaves the table, the polls, the topic and the counts alone.
LEMMA FrameSafe ==
  ASSUME TypeOK, Safe, UNCHANGED <<status, attempts, polling, poll, topic, failures>>,
         up => up', faults' = faults \/ faults' = faults + 1
  PROVE  Safe'
<1>1. faults \in Nat /\ topic \in [Events -> Nat]
  BY RelayAssumption DEF TypeOK
<1>2. ExclusiveInv' /\ BatchInv' /\ DeliveryInv' /\ AttemptsInv'
  BY DEF Safe, ExclusiveInv, BatchInv, DeliveryInv, AttemptsInv, Active, Current
<1>3. CopiesInv' /\ DuplicatesComeFromFaults'
  BY <1>1 DEF Safe, CopiesInv, DuplicatesComeFromFaults, Current
<1>4. PublishedWasDelivered' /\ GivenUpAfterMaxAttempts'
  BY DEF Safe, PublishedWasDelivered, GivenUpAfterMaxAttempts
<1>5. QED
  BY <1>2, <1>3, <1>4 DEF Safe

\* IInv is inductive.
LEMMA IInvStep == IInv /\ [Next]_vars => IInv'
<1> SUFFICES ASSUME IInv, [Next]_vars PROVE IInv'
  OBVIOUS
<1>1. TypeOK /\ Safe
  BY DEF IInv, Safe
<1>2. ASSUME NEW t \in Polls, Tick(t) \/ PollStep(t) PROVE TypeOK' /\ Safe'
  <2>1. TypeOK'
    BY <1>1, <1>2, PollTypeOK DEF Safe
  <2>2. Safe'
    BY <1>1, <1>2, TickSafe, FindSafe, PublishSafe, PublishThrowsSafe,
       MarkPublishedSafe, MarkPublishedThrowsSafe, ReadAttemptsSafe, WriteAttemptsSafe
    DEF PollStep
  <2>3. QED BY <2>1, <2>2
<1>3. ASSUME Environment PROVE TypeOK' /\ Safe'
  <2>1. TypeOK'
    BY <1>1, <1>3, EnvironmentTypeOK
  <2>2. CASE Restart
    <3>1. /\ UNCHANGED <<status, attempts, polling, poll, topic, failures>>
          /\ up => up'
          /\ faults' = faults \/ faults' = faults + 1
      BY <2>2 DEF Restart
    <3>2. QED BY <1>1, <2>1, <3>1, FrameSafe
  <2>3. CASE BrokerStops
    <3>1. /\ UNCHANGED <<status, attempts, polling, poll, topic, failures>>
          /\ up => up'
          /\ faults' = faults \/ faults' = faults + 1
      BY <2>3 DEF BrokerStops, Fault
    <3>2. QED BY <1>1, <2>1, <3>1, FrameSafe
  <2>4. CASE BrokerRecovers
    <3>1. /\ UNCHANGED <<status, attempts, polling, poll, topic, failures>>
          /\ up => up'
          /\ faults' = faults \/ faults' = faults + 1
      BY <2>4 DEF BrokerRecovers
    <3>2. QED BY <1>1, <2>1, <3>1, FrameSafe
  <2>5. QED
    BY <1>1, <1>3, <2>1, <2>2, <2>3, <2>4, CommitSafe, CrashSafe DEF Environment
<1>4. ASSUME UNCHANGED vars PROVE TypeOK' /\ Safe'
  <2>1. TypeOK'
    BY <1>1, <1>4 DEF TypeOK, vars
  <2>2. Safe'
    <3>1. UNCHANGED <<status, attempts, polling, poll, topic, failures, up, faults>>
      BY <1>4 DEF vars
    <3>2. QED BY <1>1, <3>1, FrameSafe
  <2>3. QED BY <2>1, <2>2
<1>5. TypeOK' /\ Safe'
  BY <1>2, <1>3, <1>4 DEF Next, Environment
<1>6. QED
  BY <1>5 DEF IInv, Safe

\* The inductive invariant holds in every behaviour of the relay.
THEOREM Invariance == Spec => []IInv
<1>1. Init => IInv
  BY InitTypeOK, InitSafe DEF IInv, Safe
<1>2. QED
  BY <1>1, IInvStep, PTL DEF Spec

\* The table, the polls and the counters keep their types; attempts never
\* passes MAX_ATTEMPTS.
THEOREM TypeCorrect == Spec => []TypeOK
<1>1. IInv => TypeOK
  BY DEF IInv
<1>2. QED
  BY <1>1, Invariance, PTL

\* markPublished writes PUBLISHED only for an event that is in the topic.
THEOREM PublishedOnlyDelivered == Spec => []PublishedWasDelivered
<1>1. IInv => PublishedWasDelivered
  BY DEF IInv
<1>2. QED
  BY <1>1, Invariance, PTL

\* markFailedAttempt writes FAILED only after MAX_ATTEMPTS errors.
THEOREM GivenUpLate == Spec => []GivenUpAfterMaxAttempts
<1>1. IInv => GivenUpAfterMaxAttempts
  BY DEF IInv
<1>2. QED
  BY <1>1, Invariance, PTL

\* The polls of one process publish an event once, plus once for each fault.
THEOREM BoundedDuplicates == Spec => []DuplicatesComeFromFaults
<1>1. IInv => DuplicatesComeFromFaults
  BY DEF IInv
<1>2. QED
  BY <1>1, Invariance, PTL

\* At most one invocation of pollOnce is under way, whatever ticks overlap.
THEOREM OnePollAtATime == Spec => []ExclusiveInv
<1>1. IInv => ExclusiveInv
  BY DEF IInv
<1>2. QED
  BY <1>1, Invariance, PTL

-----------------------------------------------------------------------------
(* The promise to the readers of the outbox and of the topic               *)

\* The event that a poll publishes, marks or counts a failure for.
LEMMA CurrentStatus ==
  ASSUME IInv, NEW t \in Polls
  PROVE  /\ poll[t].pc \in {"publish", "mark"} => Current(t) \in Events /\ status[Current(t)] = "PENDING"
         /\ poll[t].pc = "mark" => topic[Current(t)] > 0
         /\ poll[t].pc = "write" =>
              Current(t) \in Events /\ status[Current(t)] \in {"PENDING", "PUBLISHED"}
<1>1. poll[t].batch \subseteq Events
  BY DEF IInv, TypeOK, PollStates
<1> QED
  BY <1>1 DEF IInv, BatchInv, DeliveryInv

LEMMA PollPromise ==
  ASSUME IInv, NEW t \in Polls, Tick(t) \/ PollStep(t)
  PROVE  [Promise!Next]_<<status, topic>>
<1> DEFINE e == Current(t)
<1>1. CASE Publish(t)
  <2>1. poll[t].pc = "publish" /\ e \in Events /\ status[e] = "PENDING"
    BY <1>1, CurrentStatus DEF Publish, At
  <2>2. Promise!Deliver(e)
    BY <1>1, <2>1 DEF Publish, Promise!Deliver
  <2> QED
    BY <2>1, <2>2 DEF Promise!Next
<1>2. CASE PublishThrows(t)
  <2>1. poll[t].pc = "publish" /\ e \in Events /\ status[e] = "PENDING"
    BY <1>2, CurrentStatus DEF PublishThrows, At
  <2>2. Promise!Deliver(e) \/ UNCHANGED <<status, topic>>
    BY <1>2, <2>1 DEF PublishThrows, Promise!Deliver
  <2> QED
    BY <2>1, <2>2 DEF Promise!Next
<1>3. CASE MarkPublished(t) \/ MarkPublishedThrows(t)
  <2>1. e \in Events /\ status[e] = "PENDING" /\ topic[e] > 0
    BY <1>3, CurrentStatus DEF MarkPublished, MarkPublishedThrows, At
  <2>2. Promise!Mark(e) \/ UNCHANGED <<status, topic>>
    BY <1>3, <2>1 DEF MarkPublished, MarkPublishedThrows, Promise!Mark
  <2> QED
    BY <2>1, <2>2 DEF Promise!Next
<1>4. CASE WriteAttempts(t)
  <2>1. e \in Events /\ status[e] \in {"PENDING", "PUBLISHED"}
    BY <1>4, CurrentStatus DEF WriteAttempts, At
  <2>2. \E s \in {"PENDING", "FAILED"} : status' = [status EXCEPT ![e] = s]
    BY <1>4 DEF WriteAttempts
  <2>3. Promise!Fall(e)
    BY <1>4, <2>1, <2>2 DEF WriteAttempts, Promise!Fall
  <2> QED
    BY <2>1, <2>3 DEF Promise!Next
<1>5. CASE Tick(t) \/ FindPendingBatch(t) \/ ReadAttempts(t)
  BY <1>5 DEF Tick, FindPendingBatch, ReadAttempts
<1> QED
  BY <1>1, <1>2, <1>3, <1>4, <1>5 DEF PollStep

LEMMA PromiseStep == ASSUME IInv, [Next]_vars PROVE [Promise!Next]_<<status, topic>>
<1>1. ASSUME NEW e \in Events, Commit(e) PROVE Promise!Next
  BY <1>1 DEF Commit, Promise!Commit, Promise!Next
<1>2. Crash \/ Restart \/ BrokerStops \/ BrokerRecovers \/ UNCHANGED vars => UNCHANGED <<status, topic>>
  BY DEF Crash, Restart, BrokerStops, BrokerRecovers, vars
<1> QED
  BY <1>1, <1>2, PollPromise DEF Next

\* The relay implements OutboxPromise for any polls, faults and outages: nothing is
\* published that is not PENDING at that moment, nothing is marked that was not
\* published, and an event given up stays so and is never published again.
THEOREM OutboxPromiseImplemented == Spec => OutboxPromiseKept
<1>1. Init => Promise!Init
  BY DEF Init, Promise!Init
<1>2. IInv /\ [Next]_vars => [Promise!Next]_<<status, topic>>
  BY PromiseStep
<1> QED
  BY <1>1, <1>2, Invariance, PTL DEF Spec, OutboxPromiseKept, Promise!Spec

=============================================================================
