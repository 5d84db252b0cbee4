------------------------- MODULE PaymentOutboxRelay -------------------------
(***************************************************************************)
(* The outbox relay of apps/payment: a timer polls the outbox table for    *)
(* PENDING events, in the order of their ids, and publishes each to Kafka  *)
(* before it marks it.  Inserts of PaymentLifecycle's PersistWithEvents    *)
(* (here Commit), broker outages, rejected calls and crashes of the        *)
(* process interleave with the awaits of a poll.                           *)
(***************************************************************************)
EXTENDS Naturals, FiniteSets

CONSTANTS
  Events,       \* the ids the outbox table hands out
  Polls,        \* invocations of pollOnce that may overlap
  BatchSize,    \* BATCH_SIZE
  MaxAttempts,  \* MAX_ATTEMPTS
  MaxFaults     \* bound: outages, rejected calls and crashes in a behaviour

ASSUME RelayAssumption ==
  /\ Events \subseteq Nat \ {0}
  /\ IsFiniteSet(Events)
  /\ BatchSize \in Nat \ {0}
  /\ MaxAttempts \in Nat \ {0}
  /\ MaxFaults \in Nat

VARIABLES
  status,    \* outbox.status, by event; "ABSENT" before the insert commits
  attempts,  \* outbox.attempts, by event
  up,        \* the process runs
  polling,   \* the flag of PaymentOutboxRelayService
  poll,      \* poll[t]: the state of invocation t of pollOnce
  topic,     \* topic[e]: the copies of e in the Kafka topic
  broker,    \* Kafka: "up" or "down"
  failures,  \* history: how often publishing or marking e has thrown
  faults     \* history: the faults so far

vars == <<status, attempts, up, polling, poll, topic, broker, failures, faults>>

OutboxStatus == {"PENDING", "PUBLISHED", "FAILED"}
PollPcs == {"idle", "find", "publish", "mark", "read", "write"}

\* A poll has the events of its batch still to handle, the one it stands at,
\* and the attempts that markFailedAttempt has read.
Idle == [pc |-> "idle", batch |-> {}, event |-> 0, seen |-> 0]

PollStates == [pc : PollPcs, batch : SUBSET Events,
               event : Events \cup {0}, seen : 0..MaxAttempts]

Pending == {e \in Events : status[e] = "PENDING"}

\* ORDER BY id ASC, LIMIT n.
Lowest(S, n) == {e \in S : Cardinality({d \in S : d < e}) < n}

Current(t) == poll[t].event

At(t, pc) == up /\ poll[t].pc = pc

Goto(t, pc) == poll' = [poll EXCEPT ![t].pc = pc]

\* The try block is left: finally resets the flag.
EndPoll(t) ==
  /\ polling' = FALSE
  /\ poll' = [poll EXCEPT ![t] = Idle]

\* The loop turns to the first event of a batch.
Handle(t, batch) ==
  \E e \in batch :
    /\ \A d \in batch : e <= d
    /\ poll' = [poll EXCEPT ![t] =
                  [pc |-> "publish", batch |-> batch, event |-> e, seen |-> 0]]

\* The loop goes on with the next event of the batch, or ends.
NextEvent(t) ==
  LET rest == poll[t].batch \ {Current(t)} IN
  IF rest = {}
  THEN EndPoll(t)
  ELSE /\ Handle(t, rest)
       /\ UNCHANGED polling

Fault == faults < MaxFaults /\ faults' = faults + 1

\* An await of the loop body rejected: the catch block takes over.
Catch(t, e) ==
  /\ failures' = [failures EXCEPT ![e] = @ + 1]
  /\ Goto(t, "read")

Init ==
  /\ status = [e \in Events |-> "ABSENT"]
  /\ attempts = [e \in Events |-> 0]
  /\ up = TRUE
  /\ polling = FALSE
  /\ poll = [t \in Polls |-> Idle]
  /\ topic = [e \in Events |-> 0]
  /\ broker \in {"up", "down"}
  /\ failures = [e \in Events |-> 0]
  /\ faults = 0

-----------------------------------------------------------------------------
(* pollOnce                                                                *)

\* Mutant: no look at the flag, only the write of it.
TickAlways(t) ==
  /\ up
  /\ poll[t] = Idle
  /\ polling' = TRUE
  /\ Goto(t, "find")
  /\ UNCHANGED <<status, attempts, up, topic, broker, failures, faults>>

\* The interval fires.  While another poll runs, the tick is skipped.
Tick(t) ==
  /\ up
  /\ poll[t] = Idle
  /\ ~polling
  /\ polling' = TRUE
  /\ Goto(t, "find")
  /\ UNCHANGED <<status, attempts, up, topic, broker, failures, faults>>

\* Mutant: an early return on an empty batch that leaves the flag set.
FindPendingBatchEarlyReturn(t) ==
  /\ At(t, "find")
  /\ IF Pending = {}
     THEN poll' = [poll EXCEPT ![t] = Idle]
     ELSE Handle(t, Lowest(Pending, BatchSize))
  /\ UNCHANGED <<status, attempts, up, polling, topic, broker, failures, faults>>

\* findPendingBatch
FindPendingBatch(t) ==
  /\ At(t, "find")
  /\ IF Pending = {}
     THEN EndPoll(t)
     ELSE /\ Handle(t, Lowest(Pending, BatchSize))
          /\ UNCHANGED polling
  /\ UNCHANGED <<status, attempts, up, topic, broker, failures, faults>>

\* producer.publish is acknowledged.
Publish(t) ==
  /\ At(t, "publish")
  /\ broker = "up"
  /\ topic' = [topic EXCEPT ![Current(t)] = @ + 1]
  /\ Goto(t, "mark")
  /\ UNCHANGED <<status, attempts, up, polling, broker, failures, faults>>

\* Mutant: a rejected publish is logged and taken for done.
PublishThrowsSwallowed(t) ==
  /\ At(t, "publish")
  /\ broker = "down"
  /\ Goto(t, "mark")
  /\ UNCHANGED <<status, attempts, up, polling, topic, broker, failures, faults>>

\* producer.publish rejects: the broker is down, or it is up and the request
\* or its acknowledgement is lost.
PublishThrows(t) ==
  /\ At(t, "publish")
  /\ \/ /\ broker = "down"
        /\ UNCHANGED <<topic, faults>>
     \/ /\ broker = "up"
        /\ Fault
        /\ \/ UNCHANGED topic
           \/ topic' = [topic EXCEPT ![Current(t)] = @ + 1]
  /\ Catch(t, Current(t))
  /\ UNCHANGED <<status, attempts, up, polling, broker>>

\* markPublished
MarkPublished(t) ==
  /\ At(t, "mark")
  /\ status' = [status EXCEPT ![Current(t)] = "PUBLISHED"]
  /\ NextEvent(t)
  /\ UNCHANGED <<attempts, up, topic, broker, failures, faults>>

\* markPublished rejects, before or after its UPDATE took effect: the same
\* catch block as for a failed publish.
MarkPublishedThrows(t) ==
  /\ At(t, "mark")
  /\ Fault
  /\ \/ UNCHANGED status
     \/ status' = [status EXCEPT ![Current(t)] = "PUBLISHED"]
  /\ Catch(t, Current(t))
  /\ UNCHANGED <<attempts, up, polling, topic, broker>>

\* markFailedAttempt reads the row.
ReadAttempts(t) ==
  /\ At(t, "read")
  /\ poll' = [poll EXCEPT ![t].pc = "write", ![t].seen = attempts[Current(t)]]
  /\ UNCHANGED <<status, attempts, up, polling, topic, broker, failures, faults>>

\* Mutants of markFailedAttempt: it compares the attempts after one more
\* increment; it never gives up.
WriteAttemptsEarly(t) ==
  /\ At(t, "write")
  /\ attempts' = [attempts EXCEPT ![Current(t)] = poll[t].seen + 1]
  /\ status' = [status EXCEPT ![Current(t)] =
                  IF poll[t].seen + 2 >= MaxAttempts THEN "FAILED" ELSE "PENDING"]
  /\ NextEvent(t)
  /\ UNCHANGED <<up, topic, broker, failures, faults>>

WriteAttemptsOnly(t) ==
  /\ At(t, "write")
  /\ attempts' = [attempts EXCEPT ![Current(t)] = poll[t].seen + 1]
  /\ NextEvent(t)
  /\ UNCHANGED <<status, up, topic, broker, failures, faults>>

\* markFailedAttempt writes attempts and status, whatever the row holds now.
WriteAttempts(t) ==
  /\ At(t, "write")
  /\ attempts' = [attempts EXCEPT ![Current(t)] = poll[t].seen + 1]
  /\ status' = [status EXCEPT ![Current(t)] =
                  IF poll[t].seen + 1 >= MaxAttempts THEN "FAILED" ELSE "PENDING"]
  /\ NextEvent(t)
  /\ UNCHANGED <<up, topic, broker, failures, faults>>

-----------------------------------------------------------------------------
(* The environment                                                         *)

\* A transaction of persistWithEvents commits: ids are handed out at the
\* insert, so that rows may become visible in another order.
Commit(e) ==
  /\ status[e] = "ABSENT"
  /\ status' = [status EXCEPT ![e] = "PENDING"]
  /\ UNCHANGED <<attempts, up, polling, poll, topic, broker, failures, faults>>

\* The process dies.  A database error in findPendingBatch or in
\* markFailedAttempt, before or after its effect, ends the same way: the
\* promise pollOnce returns is dropped (void), nothing handles its rejection.
Crash ==
  /\ up
  /\ Fault
  /\ up' = FALSE
  /\ polling' = FALSE
  /\ poll' = [t \in Polls |-> Idle]
  /\ UNCHANGED <<status, attempts, topic, broker, failures>>

\* An operator starts it again: the container has no restart policy.
Restart ==
  /\ ~up
  /\ up' = TRUE
  /\ UNCHANGED <<status, attempts, polling, poll, topic, broker, failures, faults>>

BrokerStops ==
  /\ broker = "up"
  /\ Fault
  /\ broker' = "down"
  /\ UNCHANGED <<status, attempts, up, polling, poll, topic, failures>>

BrokerRecovers ==
  /\ broker = "down"
  /\ broker' = "up"
  /\ UNCHANGED <<status, attempts, up, polling, poll, topic, failures, faults>>

-----------------------------------------------------------------------------
\* What a poll does by itself.
PollStep(t) ==
  \/ FindPendingBatch(t)
  \/ Publish(t)
  \/ PublishThrows(t)
  \/ MarkPublished(t)
  \/ MarkPublishedThrows(t)
  \/ ReadAttempts(t)
  \/ WriteAttempts(t)

Next ==
  \/ \E t \in Polls : Tick(t) \/ PollStep(t)
  \/ \E e \in Events : Commit(e)
  \/ Crash
  \/ Restart
  \/ BrokerStops
  \/ BrokerRecovers

Spec == Init /\ [][Next]_vars

\* The interval keeps firing, each await of a poll is answered, and an outage
\* of Kafka ends.  Nothing makes an operator restart a dead process.
FairSpec ==
  /\ Spec
  /\ WF_vars(\E t \in Polls : Tick(t))
  /\ \A t \in Polls : WF_vars(PollStep(t))
  /\ WF_vars(BrokerRecovers)

-----------------------------------------------------------------------------
(* Properties                                                              *)

\* The shape of the table and of the polls; attempts stays within its limit.
TypeOK ==
  /\ status \in [Events -> OutboxStatus \cup {"ABSENT"}]
  /\ attempts \in [Events -> 0..MaxAttempts]
  /\ up \in BOOLEAN
  /\ polling \in BOOLEAN
  /\ poll \in [Polls -> PollStates]
  /\ topic \in [Events -> Nat]
  /\ broker \in {"up", "down"}
  /\ failures \in [Events -> Nat]
  /\ faults \in 0..MaxFaults

\* No event is marked PUBLISHED that is not in the topic, whatever rejects or
\* dies between the publish and the UPDATE.
PublishedWasDelivered ==
  \A e \in Events : status[e] = "PUBLISHED" => topic[e] > 0

\* What the relay promises to the readers of the outbox and of the topic: only a
\* PENDING event is published, an event is marked after it was published, so that
\* PublishedWasDelivered holds, and an event given up is never touched again.
Promise == INSTANCE OutboxPromise WITH status <- status, topic <- topic
OutboxPromiseKept == Promise!Spec

\* An event is given up only after MAX_ATTEMPTS errors, crashes between the
\* read and the write of markFailedAttempt included.
GivenUpAfterMaxAttempts ==
  \A e \in Events : status[e] = "FAILED" => failures[e] >= MaxAttempts

\* At least once, and no more often than faults explain: without a lost
\* answer, an outage or a crash, each event is published once.
DuplicatesComeFromFaults ==
  \A e \in Events : topic[e] <= 1 + faults

\* A committed event does not stay PENDING while the process runs: neither a
\* stuck flag nor a batch full of failing events holds it back for ever.
PendingIsDecided ==
  \A e \in Events : status[e] = "PENDING" ~> status[e] # "PENDING" \/ ~up

\* The relay publishes an event on a later poll if Kafka was unreachable
\* (the comment of payment-kafka-producer.service.ts, onModuleInit).
EventuallyPublished ==
  \A e \in Events : status[e] = "PENDING" ~> topic[e] > 0

=============================================================================
