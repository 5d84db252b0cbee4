---------------------------- MODULE OutboxPromise ----------------------------
(***************************************************************************)
(* What the outbox relay promises of an event, whatever fails: the rows of *)
(* the outbox and the Kafka topic, without polls, brokers and crashes.     *)
(***************************************************************************)
EXTENDS Naturals

CONSTANT Events

VARIABLES
  status,  \* status[e] of the outbox row, "ABSENT" before it is committed
  topic    \* topic[e]: the copies of e in the topic

\* The row of a new event.
Commit(e) ==
  /\ status[e] = "ABSENT"
  /\ status' = [status EXCEPT ![e] = "PENDING"]
  /\ UNCHANGED topic

\* Only what is PENDING is published: never an event that is not committed, that
\* is given up, or that counts as done.
Deliver(e) ==
  /\ status[e] = "PENDING"
  /\ topic' = [topic EXCEPT ![e] = @ + 1]
  /\ UNCHANGED status

\* What is marked has been published.
Mark(e) ==
  /\ status[e] = "PENDING"
  /\ topic[e] > 0
  /\ status' = [status EXCEPT ![e] = "PUBLISHED"]
  /\ UNCHANGED topic

\* After an error the event is to be tried again, or given up for good, even if
\* the error only concealed that it was marked.
Fall(e) ==
  /\ status[e] \in {"PENDING", "PUBLISHED"}
  /\ \E s \in {"PENDING", "FAILED"} : status' = [status EXCEPT ![e] = s]
  /\ UNCHANGED topic

Init ==
  /\ status = [e \in Events |-> "ABSENT"]
  /\ topic = [e \in Events |-> 0]

Next == \E e \in Events : Commit(e) \/ Deliver(e) \/ Mark(e) \/ Fall(e)

Spec == Init /\ [][Next]_<<status, topic>>

=============================================================================
