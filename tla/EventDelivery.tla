---------------------------- MODULE EventDelivery ----------------------------
(***************************************************************************)
(* What the SSE endpoint promises to the readers of a job's events: a      *)
(* client receives the next events of its job's stream, one or several at  *)
(* a time, and none of them again.  Connections, reconnections and the     *)
(* gateway itself are not seen.                                            *)
(***************************************************************************)
EXTENDS Naturals, Sequences

CONSTANTS
  Jobs,     \* jobs with a stream of events
  Clients,  \* readers
  JobFor    \* JobFor[c]: the job that client c follows

VARIABLES
  stream,   \* the types of a job's events, in order
  got       \* got[c]: the positions of the events that client c has received

\* An event is added to a stream that has not ended.
Write(j) ==
  /\ \A i \in 1..Len(stream[j]) : stream[j][i] # "done"
  /\ \E type \in {"token", "done"} : stream' = [stream EXCEPT ![j] = Append(@, type)]
  /\ UNCHANGED got

\* A client comes to have the first n events, which are more than it had.
Receive(c, n) ==
  /\ n > Len(got[c])
  /\ got' = [got EXCEPT ![c] = [i \in 1..n |-> i]]
  /\ UNCHANGED stream

Init ==
  /\ stream = [j \in Jobs |-> <<>>]
  /\ got = [c \in Clients |-> <<>>]

Next ==
  \/ \E j \in Jobs : Write(j)
  \/ \E c \in Clients : \E n \in 1..Len(stream[JobFor[c]]) : Receive(c, n)

Spec == Init /\ [][Next]_<<stream, got>>

=============================================================================
