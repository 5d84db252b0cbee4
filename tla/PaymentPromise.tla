--------------------------- MODULE PaymentPromise ---------------------------
(***************************************************************************)
(* What Payment (domain/model/payment.ts) promises of its payments: each   *)
(* is opened PENDING, is completed or failed once, and each completion or  *)
(* failure is announced by one domain event.                               *)
(***************************************************************************)
EXTENDS Sequences

CONSTANT Payments

VARIABLES
  status,   \* status[p], "ABSENT" before p is created
  events    \* the events, in order

\* Payment.create: a new payment is PENDING.
Create(p) ==
  /\ status[p] = "ABSENT"
  /\ status' = [status EXCEPT ![p] = "PENDING"]
  /\ UNCHANGED events

\* complete() and fail(): from PENDING only, and with their event.
Settle(p, s) ==
  /\ status[p] = "PENDING"
  /\ status' = [status EXCEPT ![p] = s]
  /\ events' = Append(events, [aggregateId |-> p, eventType |-> s])

Init ==
  /\ status = [p \in Payments |-> "ABSENT"]
  /\ events = << >>

Next == \E p \in Payments :
  \/ Create(p)
  \/ \E s \in {"COMPLETED", "FAILED"} : Settle(p, s)

Spec == Init /\ [][Next]_<<status, events>>

=============================================================================
