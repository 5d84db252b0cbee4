-------------------------- MODULE PaymentLifecycle --------------------------
(***************************************************************************)
(* The life of a payment in apps/payment: CreatePayment requests and PG    *)
(* webhooks run as interleaved asynchronous handlers over four stores, the *)
(* payment table, the outbox table, the Redis idempotency store and the    *)
(* ledger the payment gateway (PG) keeps.  A step runs from one await of a *)
(* handler to the next, so that every interleaving of awaits is a          *)
(* behaviour.  A request inserts at most one payment row: the row is named *)
(* by the request that inserts it.                                         *)
(***************************************************************************)
EXTENDS Naturals, Sequences

CONSTANTS
  Requests,     \* CreatePayment calls, retries by a client among them
  Keys,         \* idempotency keys
  Commands,     \* the commands the callers may send
  Webhooks,     \* deliveries of the PG's webhook, redeliveries among them
  MaxAttempts,  \* PG_RETRY_MAX_ATTEMPTS
  MaxExpiry,    \* bound: how often a key of the idempotency store expires
  NoPayment,    \* "no reply yet"
  NoCommand     \* "not received yet"

Channels == {"grpc", "http"}
Amounts  == {"plain", "sentinel", "negative"}

ASSUME CommandsAssumption ==
  Commands \subseteq [key : Keys, amount : Amounts, channel : Channels]
ASSUME NullAssumption ==
  /\ NoPayment \notin Requests
  /\ NoCommand \notin Commands
ASSUME BoundsAssumption ==
  /\ MaxAttempts \in Nat \ {0}
  /\ MaxExpiry \in Nat

Settled  == {"COMPLETED", "FAILED"}
Statuses == {"PENDING"} \cup Settled       \* PaymentStatus

\* What the store holds under a key: nothing, the __PROCESSING__ marker, or
\* the JSON of a payment.
Free       == [kind |-> "free"]
Processing == [kind |-> "processing"]
Saved(p, s) == [kind |-> "saved", payment |-> p, status |-> s]
Entries == {Free, Processing}
             \cup {Saved(p, s) : p \in Requests, s \in Statuses}

VARIABLES
  pc,            \* pc[r]: the await at which request r stands
  command,       \* command[r]: what r asks for
  attempt,       \* attempt[r]: the attempt of retryWithBackoff r is in
  outcome,       \* outcome[r]: the status of r's in-memory payment
  reply,         \* reply[r]: the payment r answered with
  store,         \* the idempotency store, by key
  row,           \* the payment table: row[r] is r's payment
  outbox,        \* the outbox table, in insertion order
  transactions,  \* the PG's transactions: <<payment, attempt>>
  ledger,        \* those of them that are in the PG's ledger index
  hook,          \* hook[w]: the state of webhook delivery w
  expired,       \* history: how often each key has expired
  born           \* history: born[r], the value of expired when r claimed

vars == <<pc, command, attempt, outcome, reply, store, row, outbox,
          transactions, ledger, hook, expired, born>>

Holding  == {"create", "approve", "list", "settle", "write", "insert", "save"}
Awaiting == {"lookup", "claim", "relookup"} \cup Holding
Ended    == {"replied", "conflict", "error", "lost"}

HookStates == [pc : {"idle"}]
                \cup [pc : {"load", "write", "insert"}, payment : Requests, outcome : Settled]
                \cup [pc : {"done", "error", "lost"}]
HookIdle == [pc |-> "idle"]
HookWriting(w) == hook[w].pc \in {"load", "write", "insert"}

OutboxEvent(p, s) == [aggregateId |-> p, eventType |-> s]

KeyOf(r) == command[r].key

\* The PG's decision.  Over gRPC an int64 arrives as a decimal string (the
\* loader's longs: String), and a string is never === the sentinel number.
Approves(p) == ~(command[p].amount = "sentinel" /\ command[p].channel = "http")

\* The status an answer of the PG gives the payment: complete() or fail().
Decision(p) == IF Approves(p) THEN "COMPLETED" ELSE "FAILED"

Goto(r, to) == pc' = [pc EXCEPT ![r] = to]

-----------------------------------------------------------------------------
(* CreatePaymentUseCase.execute                                            *)

\* A call arrives, with its command.
Receive(r) ==
  /\ pc[r] = "idle"
  /\ \E c \in Commands : command' = [command EXCEPT ![r] = c]
  /\ Goto(r, "lookup")
  /\ UNCHANGED <<attempt, outcome, reply, store, row, outbox, transactions,
                 ledger, hook, expired, born>>

\* findByKey answers null on a free key and on the __PROCESSING__ marker.
Found(k) == store[k].kind = "saved"

\* The first findByKey: an earlier result is the answer.
FindByKey(r) ==
  /\ pc[r] = "lookup"
  /\ IF Found(KeyOf(r))
     THEN /\ reply' = [reply EXCEPT ![r] = store[KeyOf(r)].payment]
          /\ Goto(r, "replied")
     ELSE /\ Goto(r, "claim")
          /\ UNCHANGED reply
  /\ UNCHANGED <<command, attempt, outcome, store, row, outbox, transactions,
                 ledger, hook, expired, born>>

\* Mutant: a claim by plain SET, without NX.
TryClaimWithoutNX(r) ==
  /\ pc[r] = "claim"
  /\ store' = [store EXCEPT ![KeyOf(r)] = Processing]
  /\ born' = [born EXCEPT ![r] = expired[KeyOf(r)]]
  /\ Goto(r, "create")
  /\ UNCHANGED <<command, attempt, outcome, reply, row, outbox, transactions,
                 ledger, hook, expired>>

\* tryClaim: SET key __PROCESSING__ EX ttl NX.
TryClaim(r) ==
  /\ pc[r] = "claim"
  /\ IF store[KeyOf(r)] = Free
     THEN /\ store' = [store EXCEPT ![KeyOf(r)] = Processing]
          /\ born' = [born EXCEPT ![r] = expired[KeyOf(r)]]
          /\ Goto(r, "create")
     ELSE /\ Goto(r, "relookup")
          /\ UNCHANGED <<store, born>>
  /\ UNCHANGED <<command, attempt, outcome, reply, row, outbox, transactions,
                 ledger, hook, expired>>

\* The claim was refused: another findByKey, or a ConflictException.
FindInFlight(r) ==
  /\ pc[r] = "relookup"
  /\ IF Found(KeyOf(r))
     THEN /\ reply' = [reply EXCEPT ![r] = store[KeyOf(r)].payment]
          /\ Goto(r, "replied")
     ELSE /\ Goto(r, "conflict")
          /\ UNCHANGED reply
  /\ UNCHANGED <<command, attempt, outcome, store, row, outbox, transactions,
                 ledger, hook, expired, born>>

\* Payment.create and persist.  Money.of throws on a negative amount, and the
\* claim stays: nothing in the code releases it.
PersistPending(r) ==
  /\ pc[r] = "create"
  /\ IF command[r].amount = "negative"
     THEN /\ Goto(r, "error")
          /\ UNCHANGED row
     ELSE /\ row' = [row EXCEPT ![r] = "PENDING"]
          /\ Goto(r, "approve")
  /\ UNCHANGED <<command, attempt, outcome, reply, store, outbox, transactions,
                 ledger, hook, expired, born>>

\* Mutants: the loop runs once more than maxAttempts; gives up one attempt
\* early; never counts its attempts.
AttemptFailsOnceMore(r) ==
  /\ attempt' = [attempt EXCEPT ![r] = @ + 1]
  /\ IF attempt[r] <= MaxAttempts
     THEN Goto(r, "approve") /\ UNCHANGED outcome
     ELSE Goto(r, "settle") /\ outcome' = [outcome EXCEPT ![r] = "FAILED"]

AttemptFailsEarly(r) ==
  /\ attempt' = [attempt EXCEPT ![r] = IF @ + 1 < MaxAttempts THEN @ + 1 ELSE @]
  /\ IF attempt[r] + 1 < MaxAttempts
     THEN Goto(r, "approve") /\ UNCHANGED outcome
     ELSE Goto(r, "settle") /\ outcome' = [outcome EXCEPT ![r] = "FAILED"]

AttemptFailsForEver(r) == Goto(r, "approve") /\ UNCHANGED <<attempt, outcome>>

\* fn() threw: another attempt after the back-off, or, after the last one,
\* the catch that fails the payment.
AttemptFails(r) ==
  /\ IF attempt[r] < MaxAttempts
     THEN /\ attempt' = [attempt EXCEPT ![r] = @ + 1]
          /\ Goto(r, "approve")
          /\ UNCHANGED outcome
     ELSE /\ outcome' = [outcome EXCEPT ![r] = "FAILED"]
          /\ Goto(r, "settle")
          /\ UNCHANGED attempt

\* requestApproval, first write: the transaction, under a fresh id.
RequestApproval(r) ==
  /\ pc[r] = "approve"
  /\ transactions' = transactions \cup {<<r, attempt[r]>>}
  /\ Goto(r, "list")
  /\ UNCHANGED <<command, attempt, outcome, reply, store, row, outbox, ledger,
                 hook, expired, born>>

\* Mutant: any answer of the PG completes the payment.
ListTransactionIgnoringDecline(r) ==
  /\ pc[r] = "list"
  /\ ledger' = ledger \cup {<<r, attempt[r]>>}
  /\ outcome' = [outcome EXCEPT ![r] = "COMPLETED"]
  /\ Goto(r, "settle")
  /\ UNCHANGED <<command, attempt, reply, store, row, outbox, transactions,
                 hook, expired, born>>

\* requestApproval, second write (the ledger index), and the answer it brings.
ListTransaction(r) ==
  /\ pc[r] = "list"
  /\ ledger' = ledger \cup {<<r, attempt[r]>>}
  /\ outcome' = [outcome EXCEPT ![r] = Decision(r)]
  /\ Goto(r, "settle")
  /\ UNCHANGED <<command, attempt, reply, store, row, outbox, transactions,
                 hook, expired, born>>

\* An attempt throws: nothing reached the PG, or only the first write did, or
\* both did and the answer was lost.
ApprovalThrows(r) ==
  /\ pc[r] \in {"approve", "list"}
  /\ \/ UNCHANGED ledger
     \/ /\ pc[r] = "list"
        /\ ledger' = ledger \cup {<<r, attempt[r]>>}
  /\ AttemptFails(r)
  /\ UNCHANGED <<command, reply, store, row, outbox, transactions, hook,
                 expired, born>>

\* persistWithEvents, first half: the transaction begins, and manager.save reads
\* the row.  If that has the status to be saved, there will be no UPDATE.
Plan(p, s) == IF row[p] = s THEN "insert" ELSE "write"

LoadOutcome(r) ==
  /\ pc[r] = "settle"
  /\ Goto(r, Plan(r, outcome[r]))
  /\ UNCHANGED <<command, attempt, outcome, reply, store, row, outbox, transactions,
                 ledger, hook, expired, born>>

\* Mutant: the events of a failed payment are forgotten.
PersistWithoutFailedEvents(p, s, plan) ==
  /\ row' = IF plan = "write" THEN [row EXCEPT ![p] = s] ELSE row
  /\ outbox' = IF s = "FAILED" THEN outbox ELSE Append(outbox, OutboxEvent(p, s))

\* persistWithEvents, second half: the in-memory status is written over whatever
\* the row holds by now, unless manager.save saw no difference; the event is
\* inserted in any case, and the transaction is committed.
PersistWithEvents(p, s, plan) ==
  /\ row' = IF plan = "write" THEN [row EXCEPT ![p] = s] ELSE row
  /\ outbox' = Append(outbox, OutboxEvent(p, s))

\* Mutant: a rejected transaction is tried again, although it may have been
\* committed.
PersistOutcomeRetried(r) ==
  /\ pc[r] \in {"write", "insert"}
  /\ PersistWithEvents(r, outcome[r], pc[r])
  /\ \E next \in {"settle", "save"} : Goto(r, next)
  /\ UNCHANGED <<command, attempt, outcome, reply, store, transactions, ledger,
                 hook, expired, born>>

PersistOutcome(r) ==
  /\ pc[r] \in {"write", "insert"}
  /\ PersistWithEvents(r, outcome[r], pc[r])
  /\ Goto(r, "save")
  /\ UNCHANGED <<command, attempt, outcome, reply, store, transactions, ledger,
                 hook, expired, born>>

\* Mutant: the PENDING object is saved, not the one persistWithEvents returned.
SaveResultOfPending(r) ==
  /\ pc[r] = "save"
  /\ store' = [store EXCEPT ![KeyOf(r)] = Saved(r, "PENDING")]
  /\ reply' = [reply EXCEPT ![r] = r]
  /\ Goto(r, "replied")
  /\ UNCHANGED <<command, attempt, outcome, row, outbox, transactions, ledger,
                 hook, expired, born>>

\* idempotency.save: an unconditional SETEX; then the answer.
SaveResult(r) ==
  /\ pc[r] = "save"
  /\ store' = [store EXCEPT ![KeyOf(r)] = Saved(r, outcome[r])]
  /\ reply' = [reply EXCEPT ![r] = r]
  /\ Goto(r, "replied")
  /\ UNCHANGED <<command, attempt, outcome, row, outbox, transactions, ledger,
                 hook, expired, born>>

\* A store call outside the try block rejects, and the request ends with an
\* error: nothing is undone or tried again.  A call that took effect although
\* it rejects is, for tryClaim and for the settling transaction, the same as
\* an error at the next await; for persist and for save it is a case apart.
RequestThrows(r) ==
  /\ pc[r] \in Awaiting \ {"approve", "list"}
  /\ Goto(r, "error")
  /\ UNCHANGED <<command, attempt, outcome, reply, store, row, outbox,
                 transactions, ledger, hook, expired, born>>

PersistPendingThrows(r) ==
  /\ pc[r] = "create"
  /\ command[r].amount # "negative"
  /\ row' = [row EXCEPT ![r] = "PENDING"]
  /\ Goto(r, "error")
  /\ UNCHANGED <<command, attempt, outcome, reply, store, outbox, transactions,
                 ledger, hook, expired, born>>

SaveResultThrows(r) ==
  /\ pc[r] = "save"
  /\ store' = [store EXCEPT ![KeyOf(r)] = Saved(r, outcome[r])]
  /\ Goto(r, "error")
  /\ UNCHANGED <<command, attempt, outcome, reply, row, outbox, transactions,
                 ledger, hook, expired, born>>

RequestFails(r) == RequestThrows(r) \/ PersistPendingThrows(r) \/ SaveResultThrows(r)

-----------------------------------------------------------------------------
(* HandlePgWebhookUseCase.execute                                          *)

\* A delivery for a transaction of the PG, with the PG's decision on it: the
\* handler reads the row and, only if it is PENDING, calls complete() or fail()
\* on the copy it read.
WebhookFinds(w) ==
  /\ hook[w] = HookIdle
  /\ \E t \in transactions :
       hook' = [hook EXCEPT ![w] =
                  IF row[t[1]] = "PENDING"
                  THEN [pc |-> "load", payment |-> t[1],
                        outcome |-> Decision(t[1])]
                  ELSE [pc |-> "done"]]
  /\ UNCHANGED <<pc, command, attempt, outcome, reply, store, row, outbox,
                 transactions, ledger, expired, born>>

\* persistWithEvents of that copy: what manager.save reads, and what it does then.
WebhookLoads(w) ==
  /\ hook[w].pc = "load"
  /\ hook' = [hook EXCEPT ![w].pc = Plan(hook[w].payment, hook[w].outcome)]
  /\ UNCHANGED <<pc, command, attempt, outcome, reply, store, row, outbox,
                 transactions, ledger, expired, born>>

WebhookPersists(w) ==
  /\ hook[w].pc \in {"write", "insert"}
  /\ PersistWithEvents(hook[w].payment, hook[w].outcome, hook[w].pc)
  /\ hook' = [hook EXCEPT ![w] = [pc |-> "done"]]
  /\ UNCHANGED <<pc, command, attempt, outcome, reply, store, transactions,
                 ledger, expired, born>>

WebhookThrows(w) ==
  /\ HookWriting(w)
  /\ hook' = [hook EXCEPT ![w] = [pc |-> "error"]]
  /\ UNCHANGED <<pc, command, attempt, outcome, reply, store, row, outbox,
                 transactions, ledger, expired, born>>

-----------------------------------------------------------------------------
(* The environment                                                         *)

\* Mutant: the claim is set without EX, only results expire.
ExpireSavedKey(k) ==
  /\ Found(k)
  /\ expired[k] < MaxExpiry
  /\ store' = [store EXCEPT ![k] = Free]
  /\ expired' = [expired EXCEPT ![k] = @ + 1]
  /\ UNCHANGED <<pc, command, attempt, outcome, reply, row, outbox,
                 transactions, ledger, hook, born>>

\* The key's TTL runs out.  A claim is not 24 hours old while the request that
\* holds it still runs.
ExpireKey(k) ==
  /\ store[k] # Free
  /\ expired[k] < MaxExpiry
  /\ \A r \in Requests : pc[r] \in Holding => KeyOf(r) # k
  /\ store' = [store EXCEPT ![k] = Free]
  /\ expired' = [expired EXCEPT ![k] = @ + 1]
  /\ UNCHANGED <<pc, command, attempt, outcome, reply, row, outbox,
                 transactions, ledger, hook, born>>

\* The process dies: every handler in it is gone, the stores stay.
Crash ==
  /\ \/ \E r \in Requests : pc[r] \in Awaiting
     \/ \E w \in Webhooks : HookWriting(w)
  /\ pc' = [r \in Requests |-> IF pc[r] \in Awaiting THEN "lost" ELSE pc[r]]
  /\ hook' = [w \in Webhooks |->
                IF HookWriting(w) THEN [pc |-> "lost"] ELSE hook[w]]
  /\ UNCHANGED <<command, attempt, outcome, reply, store, row, outbox,
                 transactions, ledger, expired, born>>

\* Every call has been answered: the finite run ends here.
AllAnswered ==
  /\ \A r \in Requests : pc[r] \in Ended
  /\ \A w \in Webhooks : ~HookWriting(w)
  /\ UNCHANGED vars

-----------------------------------------------------------------------------
Init ==
  /\ pc = [r \in Requests |-> "idle"]
  /\ command = [r \in Requests |-> NoCommand]
  /\ attempt = [r \in Requests |-> 1]
  /\ outcome = [r \in Requests |-> "PENDING"]
  /\ reply = [r \in Requests |-> NoPayment]
  /\ store = [k \in Keys |-> Free]
  /\ row = [r \in Requests |-> "ABSENT"]
  /\ outbox = << >>
  /\ transactions = {}
  /\ ledger = {}
  /\ hook = [w \in Webhooks |-> HookIdle]
  /\ expired = [k \in Keys |-> 0]
  /\ born = [r \in Requests |-> 0]

\* What the handler of request r does by itself.
RequestStep(r) ==
  \/ FindByKey(r)
  \/ TryClaim(r)
  \/ FindInFlight(r)
  \/ PersistPending(r)
  \/ RequestApproval(r)
  \/ ListTransaction(r)
  \/ ApprovalThrows(r)
  \/ LoadOutcome(r)
  \/ PersistOutcome(r)
  \/ SaveResult(r)

Next ==
  \/ \E r \in Requests : Receive(r) \/ RequestStep(r) \/ RequestFails(r)
  \/ \E w \in Webhooks :
       WebhookFinds(w) \/ WebhookLoads(w) \/ WebhookPersists(w) \/ WebhookThrows(w)
  \/ \E k \in Keys : ExpireKey(k)
  \/ Crash
  \/ AllAnswered

Spec == Init /\ [][Next]_vars

\* Node runs every handler whose await has been answered, Redis drops a key
\* whose TTL is over, and no answer is withheld for ever.  Nothing forces an
\* error, a crash, a call or a webhook.
Fairness ==
  /\ \A r \in Requests : WF_vars(RequestStep(r))
  /\ \A w \in Webhooks : WF_vars(WebhookLoads(w) \/ WebhookPersists(w))
  /\ \A k \in Keys : WF_vars(ExpireKey(k))

FairSpec == Spec /\ Fairness

-----------------------------------------------------------------------------
(* Properties                                                              *)

\* The shape of every store and handler state.
TypeOK ==
  /\ pc \in [Requests -> {"idle"} \cup Awaiting \cup Ended]
  /\ command \in [Requests -> Commands \cup {NoCommand}]
  /\ \A r \in Requests : pc[r] # "idle" => command[r] \in Commands
  /\ attempt \in [Requests -> 1..MaxAttempts]
  /\ outcome \in [Requests -> Statuses]
  /\ reply \in [Requests -> Requests \cup {NoPayment}]
  /\ store \in [Keys -> Entries]
  /\ row \in [Requests -> Statuses \cup {"ABSENT"}]
  /\ outbox \in Seq([aggregateId : Requests, eventType : Statuses])
  /\ transactions \subseteq Requests \X (1..MaxAttempts)
  /\ ledger \subseteq Requests \X (1..MaxAttempts)
  /\ hook \in [Webhooks -> HookStates]
  /\ expired \in [Keys -> 0..MaxExpiry]
  /\ born \in [Requests -> 0..MaxExpiry]

Persisted(r) == row[r] # "ABSENT"

\* Between two expiries of a key, the retries and the concurrent calls that
\* carry it create one payment at most, whatever fails or crashes
\* (tryClaim's NX is the only guard).
OnePaymentPerKey ==
  \A r, q \in Requests :
    Persisted(r) /\ Persisted(q) /\ r # q /\ KeyOf(r) = KeyOf(q)
      => born[r] # born[q]

\* What the store keeps for a key is a payment made for that key, and it was
\* settled: a caller is never answered from the store with a PENDING payment
\* (payment-idempotency.repository.ts: only COMPLETED/FAILED results).
SavedResultIsSettled ==
  \A k \in Keys : Found(k) =>
    LET e == store[k] IN
    /\ KeyOf(e.payment) = k
    /\ e.status \in Settled
    /\ row[e.payment] \in Settled

\* Transactional outbox: the event of the write that made a settled row what it
\* is is there, and all that follows it repeats what was said before; a row that
\* is not settled has no event.
OutboxTellsRow ==
  \A p \in Requests :
    IF row[p] \in Settled
    THEN \E i \in DOMAIN outbox :
           /\ outbox[i] = OutboxEvent(p, row[p])
           /\ \A j \in DOMAIN outbox : j > i /\ outbox[j].aggregateId = p =>
                \E k \in 1..i : outbox[k] = outbox[j]
    ELSE \A i \in DOMAIN outbox : outbox[i].aggregateId # p

\* A payment is COMPLETED only if the PG has taken the money: it holds a
\* transaction of the payment, and its decision was to approve.
CompletedWasApproved ==
  \A p \in Requests : row[p] = "COMPLETED" =>
    /\ Approves(p)
    /\ \E n \in 1..MaxAttempts : <<p, n>> \in transactions

\* A payment the PG approved can be FAILED (money taken, nothing sold) only
\* when all the attempts of its request were used up without an answer.
ApprovedButFailedIsExhausted ==
  \A p \in Requests :
    row[p] = "FAILED" /\ Approves(p)
      => attempt[p] = MaxAttempts /\ outcome[p] = "FAILED"

\* The status a payment has reached is final: the in-memory check of complete()
\* and fail() ("only from PENDING", payment.ts) read as a promise about the row.
SettledStaysSettled ==
  [][\A p \in Requests : row[p] \in Settled => row'[p] = row[p]]_vars

\* What the payment service promises to the readers of its tables; kept when
\* the PG sends no webhook.
Promise == INSTANCE PaymentPromise WITH
             Payments <- Requests, status <- row, events <- outbox
PaymentPromiseKept == Promise!Spec

\* A payment row is left PENDING only by a request that was interrupted (an
\* error of a store, a crash): no recovery job settles it afterwards.
PendingEndsUnlessInterrupted ==
  \A p \in Requests :
    row[p] = "PENDING" ~> row[p] # "PENDING" \/ pc[p] \in {"error", "lost"}

\* A key blocked by a request that died with the claim becomes usable again
\* (through its TTL, the only way out).
BlockedKeyIsFreed ==
  \A k \in Keys :
    (store[k] = Processing) ~> (store[k] # Processing \/ expired[k] = MaxExpiry)

=============================================================================
