------------------------ MODULE PaymentReconciliation -----------------------
(***************************************************************************)
(* The reconciliation of apps/payment with the ledger of the mock PG: every*)
(* interval a run compares the transactions of the last LOOKBACK_MS with   *)
(* the payments.  The PG writes a transaction and then its ledger entry,   *)
(* whose score is the time at which it was sent.                           *)
(***************************************************************************)
EXTENDS ServiceCalls

CONSTANTS
  Transactions,  \* bound: the approvals; each is of a payment of its own
  Interval,      \* RECONCILE_INTERVAL_MS, in ticks
  Lookback,      \* LOOKBACK_MS
  MaxPgTime      \* bound: the last tick

\* A longer interval would leave gaps by configuration.
ASSUME ReconcileAssumption ==
  /\ Interval \in Nat \ {0} /\ Interval <= Lookback /\ Lookback \in Nat
  /\ MaxPgTime \in Nat

VARIABLES
  clock,
  due,       \* when the timer of this process fires next
  pg,        \* mock-pg:transaction:* and mock-pg:ledger: state and score of each
  settled,   \* transactions whose payment has the status that the PG expects
  run,       \* run[c]: a call of reconcileOnce
  reported,  \* transactions that a run has reported
  lastTo,    \* history: the end of the last window
  late,      \* history: entries that came when a window past their score was read
  gaps       \* history: the times in windows that were lost or never opened

reconcileVars == <<clock, due, pg, settled, run, reported, lastTo, late, gaps, callFaults>>

NoReconcile == [pc |-> "idle", from |-> 0, to |-> 0, left |-> {}, mismatches |-> {}]

ReconcileInit ==
  /\ clock = 0
  /\ due = Interval
  /\ pg = [t \in Transactions |-> [state |-> "none", score |-> 0]]
  /\ settled = {}
  /\ run = [c \in Calls |-> NoReconcile]
  /\ reported = {}
  /\ lastTo = 0
  /\ late = {}
  /\ gaps = {}
  /\ callFaults = 0

\* A timer that is due fires before the clock goes on, or late.
PgTick ==
  /\ clock < MaxPgTime
  /\ IF clock < due THEN UNCHANGED callFaults ELSE CallFault
  /\ clock' = clock + 1
  /\ UNCHANGED <<due, pg, settled, run, reported, lastTo, late, gaps>>

\* requestApproval: the transaction; then Date.now() and the entry is sent.
SetTransaction(t) ==
  /\ pg[t].state = "none"
  /\ pg' = [pg EXCEPT ![t] = [state |-> "sent", score |-> clock]]
  /\ UNCHANGED <<clock, due, settled, run, reported, lastTo, late, gaps, callFaults>>

ZAdd(t) ==
  /\ pg[t].state = "sent"
  /\ pg' = [pg EXCEPT ![t].state = "ledger"]
  /\ late' = IF lastTo > pg[t].score THEN late \cup {t} ELSE late
  /\ UNCHANGED <<clock, due, settled, run, reported, lastTo, gaps, callFaults>>

\* The row gets the status of the answer or of a webhook.
Settle(t) ==
  /\ pg[t].state # "none" /\ t \notin settled
  /\ settled' = settled \cup {t}
  /\ UNCHANGED <<clock, due, pg, run, reported, lastTo, late, gaps, callFaults>>

\* Mutant: a window that begins one tick later.
WindowStartAfter(to) == IF to < Lookback THEN 0 ELSE to - Lookback + 1
WindowStart(to) == IF to < Lookback THEN 0 ELSE to - Lookback

\* The timer fires and is set again: reconcileOnce takes its window.
StartReconcile(c) ==
  /\ clock >= due
  /\ run[c].pc = "idle"
  /\ due' = clock + Interval
  /\ run' = [run EXCEPT ![c] = [pc |-> "list", from |-> WindowStart(clock), to |-> clock,
                                left |-> {}, mismatches |-> {}]]
  /\ lastTo' = clock
  /\ gaps' = gaps \cup {n \in 0..MaxPgTime : lastTo <= n /\ n + Lookback < clock}
  /\ UNCHANGED <<clock, pg, settled, reported, late, callFaults>>

\* zrangebyscore, both ends included.
ListTransactions(c) ==
  /\ run[c].pc = "list"
  /\ run' = [run EXCEPT ![c].pc = "check",
       ![c].left = {t \in Transactions : /\ pg[t].state = "ledger"
                                         /\ pg[t].score \in run[c].from..run[c].to}]
  /\ UNCHANGED <<clock, due, pg, settled, reported, lastTo, late, gaps, callFaults>>

\* findPaymentById and the comparison, one transaction after the other.
CheckTransaction(c, t) ==
  /\ t \in run[c].left
  /\ run' = [run EXCEPT ![c].left = @ \ {t},
       ![c].mismatches = IF t \in settled THEN @ ELSE @ \cup {t}]
  /\ UNCHANGED <<clock, due, pg, settled, reported, lastTo, late, gaps, callFaults>>

\* All mismatches are logged at the end.
EndReconcile(c) ==
  /\ run[c].pc = "check" /\ run[c].left = {}
  /\ run' = [run EXCEPT ![c] = NoReconcile]
  /\ reported' = reported \cup run[c].mismatches
  /\ UNCHANGED <<clock, due, pg, settled, lastTo, late, gaps, callFaults>>

\* A rejection in a run has no handler and ends the process, like a crash: the
\* approvals on their way end there and the timer starts again.
ProcessRestarts ==
  /\ CallFault
  /\ due' = clock + Interval
  /\ run' = [c \in Calls |-> NoReconcile]
  /\ \E kept \in SUBSET {t \in Transactions : pg[t].state = "sent"} :
       pg' = [t \in Transactions |->
                IF pg[t].state = "sent" /\ t \notin kept THEN [pg[t] EXCEPT !.state = "lost"] ELSE pg[t]]
  /\ gaps' = gaps \cup UNION {run[c].from..run[c].to : c \in {c \in Calls : run[c].pc # "idle"}}
  /\ UNCHANGED <<clock, settled, reported, lastTo, late>>

ReconcileNext ==
  \/ PgTick \/ ProcessRestarts
  \/ \E t \in Transactions : SetTransaction(t) \/ ZAdd(t) \/ Settle(t)
  \/ \E c \in Calls :
       \/ StartReconcile(c) \/ ListTransactions(c) \/ EndReconcile(c)
       \/ \E t \in Transactions : CheckTransaction(c, t)

ReconcileSpec == ReconcileInit /\ [][ReconcileNext]_reconcileVars

-----------------------------------------------------------------------------
ReconcileTypeOK ==
  /\ clock \in 0..MaxPgTime /\ due \in Nat /\ lastTo \in 0..clock
  /\ pg \in [Transactions -> [state : {"none", "sent", "ledger", "lost"}, score : 0..clock]]
  /\ settled \cup reported \cup late \subseteq Transactions
  /\ run \in [Calls -> [pc : {"idle", "list", "check"}, from : 0..clock, to : 0..clock,
                        left : SUBSET Transactions, mismatches : SUBSET Transactions]]
  /\ gaps \subseteq 0..MaxPgTime

\* A transaction of the ledger whose payment never got its status is reported
\* once a window has begun after it; except an entry that came late, or one in a
\* window lost by a restart or left open by a late timer.
UnsettledIsReported ==
  \A t \in Transactions :
    (/\ pg[t].state = "ledger" /\ t \notin settled /\ t \notin late
     /\ pg[t].score < lastTo /\ pg[t].score \notin gaps
     /\ \A c \in Calls : run[c].pc = "idle")
      => t \in reported

=============================================================================
