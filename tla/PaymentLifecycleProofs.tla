----------------------- MODULE PaymentLifecycleProofs -----------------------
(***************************************************************************)
(* Proofs of the safety properties of PaymentLifecycle for any number of   *)
(* requests, keys, webhooks, attempts and expiries.                        *)
(***************************************************************************)
EXTENDS PaymentLifecycle, TLAPS

\* A request that has, or may still write, a payment row under its key.
Live(r) == Persisted(r) \/ pc[r] \in Holding

\* The row exists from the step "create" on, and a call that has not arrived
\* has no trace at the PG.
RowInv ==
  \A r \in Requests :
    /\ pc[r] \in {"idle", "lookup", "claim", "relookup", "create"} => ~Persisted(r)
    /\ pc[r] \in Holding \ {"create"} => Persisted(r)
    /\ pc[r] \in {"insert", "save"} => row[r] \in Settled
    /\ \A n \in 1..MaxAttempts : <<r, n>> \in transactions => Persisted(r)

\* The claim: while the key has not expired since r claimed it, the key is
\* taken, and no other live request claimed it in that time.
ClaimInv ==
  /\ \A r \in Requests :
       /\ Live(r) => born[r] <= expired[KeyOf(r)]
       /\ Live(r) /\ born[r] = expired[KeyOf(r)] => store[KeyOf(r)] # Free
       /\ pc[r] \in Holding => born[r] = expired[KeyOf(r)]
  /\ \A r, q \in Requests :
       Live(r) /\ Live(q) /\ r # q /\ KeyOf(r) = KeyOf(q) => born[r] # born[q]

\* A request that knows the outcome of its payment.
Decided == {"settle", "write", "insert", "save"}

\* What a request or a webhook is about to write is what the PG decided, or
\* the consequence of MaxAttempts errors.
DecisionInv ==
  /\ \A r \in Requests :
       /\ pc[r] = "list" => <<r, attempt[r]>> \in transactions
       /\ pc[r] \in Decided => outcome[r] \in Settled
       /\ pc[r] \in Decided /\ outcome[r] = "COMPLETED" =>
            /\ Approves(r)
            /\ \E n \in 1..MaxAttempts : <<r, n>> \in transactions
       /\ pc[r] \in Decided /\ outcome[r] = "FAILED" /\ Approves(r)
            => attempt[r] = MaxAttempts
       /\ row[r] = "FAILED" /\ Approves(r)
            => pc[r] \notin {"approve", "list", "settle", "write", "insert"}
  /\ \A w \in Webhooks : HookWriting(w) =>
       /\ hook[w].outcome = Decision(hook[w].payment)
       /\ \E n \in 1..MaxAttempts : <<hook[w].payment, n>> \in transactions

\* A transaction of p whose manager.save read the row as s: it will add the
\* event of s and leave the row as it is.
Inserting(p, s) ==
  \/ pc[p] = "insert" /\ outcome[p] = s
  \/ \E w \in Webhooks :
       hook[w].pc = "insert" /\ hook[w].payment = p /\ hook[w].outcome = s

\* The event at i is that of p's status; all that follows it, and all that a
\* transaction will add without a write to the row, was said by then.
TellsFrom(p, i) ==
  /\ outbox[i] = OutboxEvent(p, row[p])
  /\ \A j \in DOMAIN outbox : j > i /\ outbox[j].aggregateId = p =>
       \E k \in 1..i : outbox[k] = outbox[j]
  /\ \A s \in Settled : Inserting(p, s) =>
       \E k \in 1..i : outbox[k] = OutboxEvent(p, s)

\* OutboxTellsRow with the transactions that have read the row but not ended.
TellInv ==
  \A p \in Requests :
    IF row[p] \in Settled
    THEN \E i \in DOMAIN outbox : TellsFrom(p, i)
    ELSE /\ \A i \in DOMAIN outbox : outbox[i].aggregateId # p
         /\ \A s \in Settled : ~Inserting(p, s)

IInv ==
  /\ TypeOK
  /\ RowInv
  /\ ClaimInv
  /\ DecisionInv
  /\ SavedResultIsSettled
  /\ TellInv
  /\ CompletedWasApproved
  /\ ApprovedButFailedIsExhausted

-----------------------------------------------------------------------------
(* Type correctness                                                        *)

\* Initially every store is empty and every handler idle, which TypeOK allows.
LEMMA InitTypeOK == Init => TypeOK
  BY NullAssumption, BoundsAssumption
  DEF Init, TypeOK, Awaiting, Holding, Ended, Statuses, Settled, Entries,
      HookStates, HookIdle

\* A request that has arrived asks for a key.
LEMMA KeyType ==
  ASSUME TypeOK, NEW r \in Requests, pc[r] # "idle"
  PROVE  KeyOf(r) \in Keys
BY CommandsAssumption DEF TypeOK, KeyOf

\* A result found in the store is a payment with a status.
LEMMA FoundType ==
  ASSUME TypeOK, NEW k \in Keys, Found(k)
  PROVE  /\ store[k].payment \in Requests
         /\ store[k].status \in Statuses
<1>1. store[k] \in Entries
  BY DEF TypeOK
<1>2. store[k] # Free /\ store[k] # Processing
  BY DEF Found, Free, Processing
<1>3. PICK p \in Requests, s \in Statuses : store[k] = Saved(p, s)
  BY <1>1, <1>2 DEF Entries
<1>4. QED
  BY <1>3 DEF Saved

\* A step of the handler of one request keeps the types.
LEMMA RequestTypeOK ==
  ASSUME TypeOK, NEW r \in Requests, Receive(r) \/ RequestStep(r) \/ RequestFails(r)
  PROVE  TypeOK'
<1> USE BoundsAssumption DEF TypeOK, Awaiting, Holding, Ended, Goto
<1>1. CASE Receive(r)
  BY <1>1 DEF Receive
<1>2. CASE FindByKey(r)
  <2>1. CASE Found(KeyOf(r))
    BY <1>2, <2>1, KeyType, FoundType DEF FindByKey
  <2>2. CASE ~Found(KeyOf(r))
    BY <1>2, <2>2 DEF FindByKey
  <2>3. QED BY <2>1, <2>2
<1>3. CASE TryClaim(r)
  <2>1. KeyOf(r) \in Keys
    BY <1>3, KeyType DEF TryClaim
  <2>2. store' \in [Keys -> Entries] /\ born' \in [Requests -> 0..MaxExpiry]
    <3>1. CASE store[KeyOf(r)] = Free
      <4>1. store' = [store EXCEPT ![KeyOf(r)] = Processing] /\ Processing \in Entries
        BY <1>3, <3>1 DEF TryClaim, Entries
      <4>2. born' = [born EXCEPT ![r] = expired[KeyOf(r)]]
        BY <1>3, <3>1 DEF TryClaim
      <4>3. expired[KeyOf(r)] \in 0..MaxExpiry
        BY <2>1
      <4>4. QED BY <4>1, <4>2, <4>3
    <3>2. CASE store[KeyOf(r)] # Free
      BY <1>3, <3>2 DEF TryClaim
    <3>3. QED BY <3>1, <3>2
  <2>3. pc' \in [Requests -> {"idle"} \cup Awaiting \cup Ended]
    BY <1>3 DEF TryClaim
  <2>4. \A q \in Requests : pc'[q] # "idle" => pc[q] # "idle"
    BY <1>3 DEF TryClaim
  <2>5. QED
    BY <1>3, <2>2, <2>3, <2>4 DEF TryClaim
<1>4. CASE FindInFlight(r)
  <2>1. CASE Found(KeyOf(r))
    BY <1>4, <2>1, KeyType, FoundType DEF FindInFlight
  <2>2. CASE ~Found(KeyOf(r))
    BY <1>4, <2>2 DEF FindInFlight
  <2>3. QED BY <2>1, <2>2
<1>5. CASE PersistPending(r)
  BY <1>5 DEF PersistPending, Statuses
<1>6. CASE RequestApproval(r)
  BY <1>6 DEF RequestApproval
<1>7. CASE ListTransaction(r)
  <2>1. Decision(r) \in Statuses
    BY DEF Decision, Statuses, Settled
  <2>2. ledger' \subseteq Requests \X (1..MaxAttempts)
    BY <1>7 DEF ListTransaction
  <2>3. QED
    BY <1>7, <2>1, <2>2 DEF ListTransaction
<1>8. CASE ApprovalThrows(r)
  <2>1. ledger' \subseteq Requests \X (1..MaxAttempts)
    BY <1>8 DEF ApprovalThrows
  <2>2. attempt' \in [Requests -> 1..MaxAttempts] /\ outcome' \in [Requests -> Statuses]
    <3>1. CASE attempt[r] < MaxAttempts
      <4>1. attempt[r] + 1 \in 1..MaxAttempts
        BY <3>1
      <4>2. attempt' = [attempt EXCEPT ![r] = attempt[r] + 1] /\ outcome' = outcome
        BY <1>8, <3>1 DEF ApprovalThrows, AttemptFails
      <4>3. QED BY <4>1, <4>2
    <3>2. CASE ~(attempt[r] < MaxAttempts)
      <4>1. attempt' = attempt /\ outcome' = [outcome EXCEPT ![r] = "FAILED"]
        BY <1>8, <3>2 DEF ApprovalThrows, AttemptFails
      <4>2. "FAILED" \in Statuses
        BY DEF Statuses, Settled
      <4>3. QED BY <4>1, <4>2
    <3>3. QED BY <3>1, <3>2
  <2>3. \E s \in {"approve", "settle"} : pc' = [pc EXCEPT ![r] = s]
    BY <1>8 DEF ApprovalThrows, AttemptFails
  <2>4. pc[r] # "idle"
    BY <1>8 DEF ApprovalThrows
  <2>5. QED
    BY <1>8, <2>1, <2>2, <2>3, <2>4 DEF ApprovalThrows
<1>15. CASE LoadOutcome(r)
  BY <1>15 DEF LoadOutcome, Plan
<1>9. CASE PersistOutcome(r)
  <2>1. row' \in [Requests -> Statuses \cup {"ABSENT"}]
    BY <1>9 DEF PersistOutcome, PersistWithEvents
  <2>2. outbox' \in Seq([aggregateId : Requests, eventType : Statuses])
    <3>1. OutboxEvent(r, outcome[r]) \in [aggregateId : Requests, eventType : Statuses]
      BY DEF OutboxEvent
    <3>2. QED BY <1>9, <3>1 DEF PersistOutcome, PersistWithEvents
  <2>3. QED
    BY <1>9, <2>1, <2>2 DEF PersistOutcome
<1>10. CASE SaveResult(r)
  <2>1. KeyOf(r) \in Keys
    BY <1>10, KeyType DEF SaveResult
  <2>2. Saved(r, outcome[r]) \in Entries
    BY DEF Entries
  <2>3. store' \in [Keys -> Entries]
    BY <1>10, <2>1, <2>2 DEF SaveResult
  <2>4. QED
    BY <1>10, <2>3 DEF SaveResult
<1>11. CASE RequestThrows(r)
  BY <1>11 DEF RequestThrows
<1>12. CASE PersistPendingThrows(r)
  BY <1>12 DEF PersistPendingThrows, Statuses
<1>13. CASE SaveResultThrows(r)
  <2>1. KeyOf(r) \in Keys
    BY <1>13, KeyType DEF SaveResultThrows
  <2>2. Saved(r, outcome[r]) \in Entries
    BY DEF Entries
  <2>3. store' \in [Keys -> Entries]
    BY <1>13, <2>1, <2>2 DEF SaveResultThrows
  <2>4. QED
    BY <1>13, <2>3 DEF SaveResultThrows
<1>14. QED
  BY <1>1, <1>2, <1>3, <1>4, <1>5, <1>6, <1>7, <1>8, <1>9, <1>10, <1>11, <1>12, <1>13,
     <1>15
  DEF RequestStep, RequestFails

\* A step of a webhook handler keeps the types.
LEMMA WebhookTypeOK ==
  ASSUME TypeOK, NEW w \in Webhooks,
         WebhookFinds(w) \/ WebhookLoads(w) \/ WebhookPersists(w) \/ WebhookThrows(w)
  PROVE  TypeOK'
<1>1. CASE WebhookFinds(w)
  <2>1. PICK t \in transactions :
          hook' = [hook EXCEPT ![w] =
                     IF row[t[1]] = "PENDING"
                     THEN [pc |-> "load", payment |-> t[1], outcome |-> Decision(t[1])]
                     ELSE [pc |-> "done"]]
    BY <1>1 DEF WebhookFinds
  <2>2. t[1] \in Requests /\ Decision(t[1]) \in Settled
    BY DEF TypeOK, Decision, Settled
  <2>3. hook' \in [Webhooks -> HookStates]
    BY <2>1, <2>2 DEF TypeOK, HookStates
  <2>4. QED
    BY <1>1, <2>3 DEF WebhookFinds, TypeOK
<1>2. CASE WebhookPersists(w)
  <2>1. hook[w].payment \in Requests /\ hook[w].outcome \in Settled
    BY <1>2 DEF WebhookPersists, TypeOK, HookStates
  <2>2. hook' \in [Webhooks -> HookStates]
    BY <1>2 DEF WebhookPersists, TypeOK, HookStates
  <2>3. row' \in [Requests -> Statuses \cup {"ABSENT"}]
    BY <1>2, <2>1 DEF WebhookPersists, PersistWithEvents, TypeOK, Statuses
  <2>4. outbox' \in Seq([aggregateId : Requests, eventType : Statuses])
    <3>1. OutboxEvent(hook[w].payment, hook[w].outcome)
            \in [aggregateId : Requests, eventType : Statuses]
      BY <2>1 DEF OutboxEvent, Statuses
    <3>2. QED
      BY <1>2, <3>1 DEF WebhookPersists, PersistWithEvents, TypeOK
  <2>5. QED
    BY <1>2, <2>2, <2>3, <2>4 DEF WebhookPersists, TypeOK
<1>3. CASE WebhookThrows(w)
  BY <1>3 DEF WebhookThrows, TypeOK, HookStates
<1>4. CASE WebhookLoads(w)
  <2>1. /\ hook[w] \in [pc : {"load"}, payment : Requests, outcome : Settled]
        /\ Plan(hook[w].payment, hook[w].outcome) \in {"write", "insert"}
    BY <1>4 DEF WebhookLoads, TypeOK, HookStates, Plan
  <2>2. hook' \in [Webhooks -> HookStates]
    BY <1>4, <2>1 DEF WebhookLoads, TypeOK, HookStates
  <2>3. QED
    BY <1>4, <2>2 DEF WebhookLoads, TypeOK
<1>5. QED
  BY <1>1, <1>2, <1>3, <1>4

\* An expiry or a crash keeps the types.
LEMMA EnvironmentTypeOK ==
  ASSUME TypeOK, (\E k \in Keys : ExpireKey(k)) \/ Crash
  PROVE  TypeOK'
<1>1. ASSUME NEW k \in Keys, ExpireKey(k)
      PROVE  TypeOK'
  <2>1. store' \in [Keys -> Entries]
    BY <1>1 DEF ExpireKey, TypeOK, Entries
  <2>2. expired' \in [Keys -> 0..MaxExpiry]
    BY <1>1, BoundsAssumption DEF ExpireKey, TypeOK
  <2>3. QED
    BY <1>1, <2>1, <2>2 DEF ExpireKey, TypeOK
<1>2. CASE Crash
  <2>1. pc' \in [Requests -> {"idle"} \cup Awaiting \cup Ended]
    BY <1>2 DEF Crash, TypeOK, Ended
  <2>2. \A q \in Requests : pc'[q] # "idle" => pc[q] # "idle"
    BY <1>2 DEF Crash, Awaiting, Holding
  <2>3. hook' \in [Webhooks -> HookStates]
    BY <1>2 DEF Crash, TypeOK, HookStates
  <2>4. QED
    BY <1>2, <2>1, <2>2, <2>3 DEF Crash, TypeOK
<1>3. QED
  BY <1>1, <1>2

\* Every reachable state has the types of TypeOK.
THEOREM TypeCorrect == Spec => []TypeOK
<1>1. Init => TypeOK
  BY InitTypeOK
<1>2. TypeOK /\ [Next]_vars => TypeOK'
  <2> SUFFICES ASSUME TypeOK, [Next]_vars
               PROVE  TypeOK'
    OBVIOUS
  <2>1. CASE Next
    BY <2>1, RequestTypeOK, WebhookTypeOK, EnvironmentTypeOK
    DEF Next, AllAnswered, vars, TypeOK
  <2>2. CASE UNCHANGED vars
    BY <2>2 DEF vars, TypeOK
  <2>3. QED BY <2>1, <2>2
<1>3. QED
  BY <1>1, <1>2, PTL DEF Spec

-----------------------------------------------------------------------------
(* One lemma per part of IInv                                              *)

\* RowInv is kept: only PersistPending creates a row, and the step it leads to
\* needs one; the other steps keep a row that exists.
LEMMA RowInvStep ==
  ASSUME IInv, [Next]_vars
  PROVE  RowInv'
<1> USE DEF IInv, RowInv, Persisted
<1>1. ASSUME NEW r \in Requests,
             Receive(r) \/ FindByKey(r) \/ TryClaim(r) \/ FindInFlight(r) \/ RequestThrows(r)
      PROVE  RowInv'
  <2>1. /\ UNCHANGED <<row, transactions>>
        /\ \/ \E to \in {"replied", "conflict", "error"} : pc' = [pc EXCEPT ![r] = to]
           \/ /\ pc[r] \in {"idle", "lookup", "claim"}
              /\ \E to \in {"lookup", "claim", "create", "relookup"} : pc' = [pc EXCEPT ![r] = to]
    BY <1>1 DEF Receive, FindByKey, TryClaim, FindInFlight, RequestThrows, Goto
  <2>2. QED
    BY <2>1 DEF TypeOK, Holding
<1>2. ASSUME NEW r \in Requests, PersistPending(r) \/ PersistPendingThrows(r)
      PROVE  RowInv'
  BY <1>2 DEF TypeOK, PersistPending, PersistPendingThrows, Goto, Holding, Settled
<1>3. ASSUME NEW r \in Requests, RequestApproval(r)
      PROVE  RowInv'
  BY <1>3 DEF TypeOK, RequestApproval, Goto, Holding
<1>4. ASSUME NEW r \in Requests, ListTransaction(r)
      PROVE  RowInv'
  BY <1>4 DEF TypeOK, ListTransaction, Goto, Holding
<1>5. ASSUME NEW r \in Requests, ApprovalThrows(r)
      PROVE  RowInv'
  BY <1>5 DEF TypeOK, ApprovalThrows, AttemptFails, Goto, Holding
<1>14. ASSUME NEW r \in Requests, LoadOutcome(r)
      PROVE  RowInv'
  <2>1. outcome[r] \in Settled
    BY <1>14 DEF LoadOutcome, DecisionInv, Decided
  <2>2. QED
    BY <1>14, <2>1 DEF TypeOK, LoadOutcome, Plan, Goto, Holding
<1>6. ASSUME NEW r \in Requests, PersistOutcome(r)
      PROVE  RowInv'
  <2>1. /\ outcome[r] \in Settled
        /\ pc' = [pc EXCEPT ![r] = "save"]
        /\ pc[r] # "write" => row[r] \in Settled
        /\ row' = IF pc[r] = "write" THEN [row EXCEPT ![r] = outcome[r]] ELSE row
        /\ transactions' = transactions
    BY <1>6 DEF PersistOutcome, PersistWithEvents, DecisionInv, Decided, Goto
  <2>2. row'[r] \in Settled /\ \A q \in Requests : q # r => row'[q] = row[q]
    BY <2>1 DEF TypeOK
  <2>3. QED
    BY <2>1, <2>2 DEF TypeOK, Holding, Settled
<1>7. ASSUME NEW r \in Requests, SaveResult(r) \/ SaveResultThrows(r)
      PROVE  RowInv'
  BY <1>7 DEF TypeOK, SaveResult, SaveResultThrows, Goto, Holding
<1>8. ASSUME NEW w \in Webhooks, WebhookPersists(w)
      PROVE  RowInv'
  BY <1>8 DEF TypeOK, WebhookPersists, PersistWithEvents, DecisionInv, HookWriting, HookStates, Settled
<1>9. ASSUME NEW w \in Webhooks, WebhookFinds(w) \/ WebhookLoads(w) \/ WebhookThrows(w)
      PROVE  RowInv'
  BY <1>9 DEF WebhookFinds, WebhookLoads, WebhookThrows
<1>10. ASSUME NEW k \in Keys, ExpireKey(k)
       PROVE  RowInv'
  BY <1>10 DEF ExpireKey
<1>11. CASE Crash
  BY <1>11 DEF TypeOK, Crash, Awaiting, Holding
<1>12. CASE UNCHANGED vars
  BY <1>12 DEF vars
<1>13. QED
  BY <1>1, <1>2, <1>3, <1>4, <1>5, <1>6, <1>7, <1>8, <1>9, <1>10, <1>11, <1>12,
     <1>14
  DEF Next, RequestStep, RequestFails, AllAnswered

\* A step that starts no claim, and frees no key, keeps ClaimInv.
LEMMA ClaimFrame ==
  ASSUME ClaimInv, UNCHANGED <<command, expired, born>>,
         \A q \in Requests : Live(q)' => Live(q),
         \A q \in Requests : pc'[q] \in Holding => pc[q] \in Holding,
         \A q \in Requests : Live(q) /\ store'[KeyOf(q)] = Free => store[KeyOf(q)] = Free
  PROVE  ClaimInv'
<1>1. \A q \in Requests : KeyOf(q)' = KeyOf(q) /\ born'[q] = born[q]
  BY DEF KeyOf
<1>2. \A q \in Requests : /\ Live(q)' => born'[q] <= expired'[KeyOf(q)']
                          /\ Live(q)' /\ born'[q] = expired'[KeyOf(q)'] => store'[KeyOf(q)'] # Free
                          /\ pc'[q] \in Holding => born'[q] = expired'[KeyOf(q)']
  BY <1>1 DEF ClaimInv
<1>3. \A r, q \in Requests :
        Live(r)' /\ Live(q)' /\ r # q /\ KeyOf(r)' = KeyOf(q)' => born'[r] # born'[q]
  BY <1>1 DEF ClaimInv
<1>4. QED
  BY <1>1, <1>2, <1>3 DEF ClaimInv, KeyOf

\* The payment a webhook is about to write is in the table.
LEMMA HookPayment ==
  ASSUME TypeOK, RowInv, DecisionInv, NEW w \in Webhooks, HookWriting(w)
  PROVE  /\ hook[w].payment \in Requests
         /\ hook[w].outcome \in Settled
         /\ Persisted(hook[w].payment)
<1>1. hook[w].payment \in Requests /\ hook[w].outcome \in Settled
  BY DEF TypeOK, HookStates, HookWriting
<1>2. PICK n \in 1..MaxAttempts : <<hook[w].payment, n>> \in transactions
  BY DEF DecisionInv
<1>3. QED
  BY <1>1, <1>2 DEF RowInv

\* ClaimInv is kept: tryClaim takes a free key, whose earlier payments are all
\* from before its last expiry; an expiry makes every payment of its key old.
LEMMA ClaimInvStep ==
  ASSUME IInv, [Next]_vars
  PROVE  ClaimInv'
<1> USE DEF IInv
<1>1. ASSUME NEW r \in Requests, Receive(r)
      PROVE  ClaimInv'
  <2>1. /\ pc' = [pc EXCEPT ![r] = "lookup"]
        /\ \A q \in Requests : q # r => command'[q] = command[q]
        /\ UNCHANGED <<row, store, expired, born>>
    BY <1>1 DEF Receive, Goto, TypeOK
  <2>2. ~Live(r)' /\ \A q \in Requests : q # r => (Live(q)' <=> Live(q))
    BY <1>1, <2>1 DEF Live, Persisted, RowInv, Receive, TypeOK, Holding
  <2>3. \A q \in Requests : pc'[q] \in Holding => q # r /\ pc[q] \in Holding
    BY <2>1 DEF TypeOK, Holding
  <2>4. QED
    BY <2>1, <2>2, <2>3 DEF ClaimInv, KeyOf
<1>2. ASSUME NEW r \in Requests, FindByKey(r) \/ FindInFlight(r) \/ RequestThrows(r)
      PROVE  ClaimInv'
  <2>1. /\ \E to \in {"replied", "claim", "conflict", "error"} : pc' = [pc EXCEPT ![r] = to]
        /\ UNCHANGED <<command, row, store, expired, born>>
    BY <1>2 DEF FindByKey, FindInFlight, RequestThrows, Goto
  <2>2. \A q \in Requests : pc'[q] \in Holding => pc[q] \in Holding
    BY <2>1 DEF TypeOK, Holding
  <2>3. \A q \in Requests : Live(q)' => Live(q)
    BY <2>1, <2>2 DEF Live, Persisted
  <2>4. QED
    BY <2>1, <2>2, <2>3, ClaimFrame
<1>3. ASSUME NEW r \in Requests, TryClaim(r)
      PROVE  ClaimInv'
  <2>1. KeyOf(r) \in Keys /\ ~Live(r)
    BY <1>3, KeyType DEF TryClaim, Live, RowInv, Persisted, Holding
  <2>2. CASE store[KeyOf(r)] = Free
    <3>1. /\ store' = [store EXCEPT ![KeyOf(r)] = Processing]
          /\ born' = [born EXCEPT ![r] = expired[KeyOf(r)]]
          /\ pc' = [pc EXCEPT ![r] = "create"]
          /\ UNCHANGED <<command, row, expired>>
      BY <1>3, <2>2 DEF TryClaim, Goto
    <3>2. \A q \in Requests : Live(q) /\ KeyOf(q) = KeyOf(r) => born[q] # expired[KeyOf(r)]
      BY <2>2 DEF ClaimInv
    <3>3. \A q \in Requests : KeyOf(q)' = KeyOf(q)
      BY <3>1 DEF KeyOf
    <3>4. store'[KeyOf(r)] # Free
      BY <2>1, <3>1 DEF Processing, Free, TypeOK
    <3>5. \A k \in Keys : store'[k] = Free => store[k] = Free
      BY <2>1, <3>1, <3>4 DEF TypeOK
    <3>6. \A q \in Requests : q # r =>
            /\ Live(q)' => Live(q)
            /\ pc'[q] = pc[q]
            /\ born'[q] = born[q]
      BY <3>1 DEF TypeOK, Live, Persisted
    <3>7. born'[r] = expired[KeyOf(r)] /\ expired[KeyOf(r)] <= expired[KeyOf(r)]
      BY <2>1, <3>1 DEF TypeOK
    <3>8. \A q \in Requests : Live(q) => KeyOf(q) \in Keys
      BY KeyType DEF Live, RowInv, Persisted, Holding
    <3>9. \A q \in Requests :
            /\ Live(q)' => born'[q] <= expired'[KeyOf(q)']
            /\ Live(q)' /\ born'[q] = expired'[KeyOf(q)'] => store'[KeyOf(q)'] # Free
            /\ pc'[q] \in Holding => born'[q] = expired'[KeyOf(q)']
      <4>1. TAKE q \in Requests
      <4>2. CASE q = r
        BY <4>2, <3>1, <3>3, <3>4, <3>7
      <4>3. CASE q # r
        BY <4>3, <3>1, <3>3, <3>5, <3>6, <3>8 DEF ClaimInv
      <4>4. QED BY <4>2, <4>3
    <3>10. \A p, q \in Requests :
             Live(p)' /\ Live(q)' /\ p # q /\ KeyOf(p)' = KeyOf(q)' => born'[p] # born'[q]
      BY <3>2, <3>3, <3>6, <3>7 DEF ClaimInv
    <3>11. QED
      BY <3>9, <3>10 DEF ClaimInv, KeyOf
  <2>3. CASE store[KeyOf(r)] # Free
    <3>1. pc' = [pc EXCEPT ![r] = "relookup"] /\ UNCHANGED <<command, row, store, expired, born>>
      BY <1>3, <2>3 DEF TryClaim, Goto
    <3>2. \A q \in Requests : pc'[q] \in Holding => pc[q] \in Holding
      BY <3>1 DEF TypeOK, Holding
    <3>3. \A q \in Requests : Live(q)' => Live(q)
      BY <3>1, <3>2 DEF Live, Persisted
    <3>4. QED
      BY <3>1, <3>2, <3>3, ClaimFrame
  <2>4. QED BY <2>2, <2>3
<1>4. ASSUME NEW r \in Requests,
             \/ PersistPending(r) \/ PersistPendingThrows(r)
             \/ RequestApproval(r) \/ ListTransaction(r) \/ ApprovalThrows(r)
             \/ LoadOutcome(r) \/ PersistOutcome(r)
      PROVE  ClaimInv'
  <2>1. /\ pc[r] \in Holding
        /\ \E to \in {"error", "approve", "list", "settle", "write", "insert", "save"} :
             pc' = [pc EXCEPT ![r] = to]
        /\ \A q \in Requests : q # r => row'[q] = row[q]
        /\ UNCHANGED <<command, store, expired, born>>
    BY <1>4 DEF PersistPending, PersistPendingThrows, RequestApproval, ListTransaction, ApprovalThrows, AttemptFails,
                LoadOutcome, Plan, PersistOutcome, PersistWithEvents, Goto, TypeOK, Holding
  <2>2. \A q \in Requests : pc'[q] \in Holding => pc[q] \in Holding
    BY <2>1 DEF TypeOK, Holding
  <2>3. \A q \in Requests : Live(q)' => Live(q)
    BY <2>1, <2>2 DEF Live, Persisted
  <2>4. QED
    BY <2>1, <2>2, <2>3, ClaimFrame
<1>5. ASSUME NEW r \in Requests, SaveResult(r) \/ SaveResultThrows(r)
      PROVE  ClaimInv'
  <2>1. /\ store' = [store EXCEPT ![KeyOf(r)] = Saved(r, outcome[r])]
        /\ \E to \in {"replied", "error"} : pc' = [pc EXCEPT ![r] = to]
        /\ UNCHANGED <<command, row, expired, born>>
    BY <1>5 DEF SaveResult, SaveResultThrows, Goto
  <2>2. \A q \in Requests : pc'[q] \in Holding => pc[q] \in Holding
    BY <2>1 DEF TypeOK, Holding
  <2>3. \A q \in Requests : Live(q)' => Live(q)
    BY <2>1, <2>2 DEF Live, Persisted
  <2>4. \A q \in Requests : Live(q) => KeyOf(q) \in Keys
    BY KeyType DEF Live, RowInv, Persisted, Holding
  <2>5. Saved(r, outcome[r]) # Free
    BY DEF Saved, Free
  <2>6. \A q \in Requests : Live(q) /\ store'[KeyOf(q)] = Free => store[KeyOf(q)] = Free
    BY <2>1, <2>4, <2>5 DEF TypeOK
  <2>7. QED
    BY <2>1, <2>2, <2>3, <2>6, ClaimFrame
<1>6. ASSUME NEW w \in Webhooks, WebhookPersists(w)
      PROVE  ClaimInv'
  <2>1. /\ \A q \in Requests : row'[q] # row[q] => Persisted(q)
        /\ UNCHANGED <<pc, command, store, expired, born>>
    BY <1>6, HookPayment DEF WebhookPersists, HookWriting, PersistWithEvents, TypeOK
  <2>2. \A q \in Requests : Live(q)' => Live(q)
    BY <2>1 DEF Live, Persisted
  <2>3. QED
    BY <2>1, <2>2, ClaimFrame
<1>7. ASSUME NEW w \in Webhooks, WebhookFinds(w) \/ WebhookLoads(w) \/ WebhookThrows(w)
      PROVE  ClaimInv'
  BY <1>7 DEF WebhookFinds, WebhookLoads, WebhookThrows, ClaimInv, Live, Persisted, KeyOf
<1>8. ASSUME NEW k \in Keys, ExpireKey(k)
      PROVE  ClaimInv'
  <2>1. /\ \A q \in Requests : pc[q] \in Holding => KeyOf(q) # k
        /\ store' = [store EXCEPT ![k] = Free]
        /\ expired' = [expired EXCEPT ![k] = expired[k] + 1]
        /\ UNCHANGED <<pc, command, row, born>>
    BY <1>8 DEF ExpireKey
  <2>2. /\ \A j \in Keys : j # k => expired'[j] = expired[j] /\ store'[j] = store[j]
        /\ expired'[k] = expired[k] + 1 /\ expired[k] \in Nat
    BY <2>1 DEF TypeOK
  <2>3. \A q \in Requests : (Live(q) => KeyOf(q) \in Keys) /\ born[q] \in Nat
    <3>1. \A q \in Requests : Live(q) => KeyOf(q) \in Keys
      BY KeyType DEF Live, RowInv, Persisted, Holding
    <3>2. \A q \in Requests : born[q] \in Nat
      BY DEF TypeOK
    <3>3. QED BY <3>1, <3>2
  <2>4. \A q \in Requests : (Live(q)' <=> Live(q)) /\ KeyOf(q)' = KeyOf(q)
    BY <2>1 DEF Live, Persisted, KeyOf
  <2>5. \A q \in Requests :
          /\ Live(q)' => born'[q] <= expired'[KeyOf(q)']
          /\ Live(q)' /\ born'[q] = expired'[KeyOf(q)'] => store'[KeyOf(q)'] # Free
          /\ pc'[q] \in Holding => born'[q] = expired'[KeyOf(q)']
    <3>1. TAKE q \in Requests
    <3>2. CASE Live(q) /\ KeyOf(q) = k
      <4>1. born[q] <= expired[k] /\ pc[q] \notin Holding
        BY <3>2, <2>1 DEF ClaimInv
      <4>2. born[q] < expired[k] + 1
        BY <3>2, <4>1, <2>2, <2>3
      <4>3. QED
        BY <3>2, <4>1, <4>2, <2>1, <2>2, <2>3, <2>4
    <3>3. CASE Live(q) /\ KeyOf(q) # k
      BY <3>3, <2>1, <2>2, <2>3, <2>4 DEF ClaimInv
    <3>4. CASE ~Live(q)
      BY <3>4, <2>1, <2>4 DEF Live
    <3>5. QED BY <3>2, <3>3, <3>4
  <2>6. \A p, q \in Requests :
          Live(p)' /\ Live(q)' /\ p # q /\ KeyOf(p)' = KeyOf(q)' => born'[p] # born'[q]
    BY <2>1, <2>4 DEF ClaimInv
  <2>7. QED
    BY <2>5, <2>6 DEF ClaimInv, KeyOf
<1>9. CASE Crash
  <2>1. /\ \A q \in Requests : pc'[q] \in Holding => pc[q] \in Holding
        /\ UNCHANGED <<command, row, store, expired, born>>
    BY <1>9 DEF Crash, Awaiting, Holding
  <2>2. \A q \in Requests : Live(q)' => Live(q)
    BY <2>1 DEF Live, Persisted
  <2>3. QED
    BY <2>1, <2>2, ClaimFrame
<1>10. CASE UNCHANGED vars
  BY <1>10 DEF vars, ClaimInv, Live, Persisted, KeyOf
<1>11. QED
  BY <1>1, <1>2, <1>3, <1>4, <1>5, <1>6, <1>7, <1>8, <1>9, <1>10
  DEF Next, RequestStep, RequestFails, AllAnswered

\* DecisionInv is kept: outcome is set from the PG's answer or after the last
\* attempt, and a webhook takes its outcome from a transaction of the PG.
LEMMA DecisionInvStep ==
  ASSUME IInv, [Next]_vars
  PROVE  DecisionInv'
<1> USE DEF IInv
<1>1. ASSUME NEW r \in Requests, Receive(r)
      PROVE  DecisionInv'
  <2>1. \A q \in Requests : q # r => (Approves(q)' <=> Approves(q)) /\ pc'[q] = pc[q]
    BY <1>1 DEF Receive, Goto, Approves, TypeOK
  <2>2. pc[r] = "idle" /\ pc'[r] = "lookup" /\ ~Persisted(r)
    BY <1>1 DEF Receive, Goto, TypeOK, RowInv
  <2>3. UNCHANGED <<row, transactions, attempt, outcome, hook>>
    BY <1>1 DEF Receive
  <2>4. \A w \in Webhooks : HookWriting(w) => hook[w].payment # r
    BY <2>2, HookPayment
  <2>5. \A w \in Webhooks : HookWriting(w)' =>
          /\ hook[w].outcome = Decision(hook[w].payment)'
          /\ \E n \in 1..MaxAttempts : <<hook[w].payment, n>> \in transactions
    <3>1. TAKE w \in Webhooks
    <3>2. HAVE HookWriting(w)'
    <3>3. HookWriting(w)
      BY <3>2, <2>3 DEF HookWriting
    <3>4. hook[w].payment \in Requests /\ hook[w].payment # r
      BY <3>3, <2>4, HookPayment
    <3>5. Approves(hook[w].payment)' <=> Approves(hook[w].payment)
      BY <3>4, <2>1, <2>3 DEF Approves
    <3>6. Decision(hook[w].payment)' = Decision(hook[w].payment)
      BY <3>5 DEF Decision
    <3>7. QED
      BY <3>3, <3>6 DEF DecisionInv
  <2>6. \A q \in Requests : q = r =>
          /\ pc'[q] \notin Decided \cup {"list", "approve"}
          /\ row'[q] # "FAILED"
    BY <2>2, <2>3 DEF Persisted, Decided
  <2>7. QED
    BY <2>1, <2>3, <2>5, <2>6 DEF DecisionInv, Decided
<1>2. ASSUME NEW r \in Requests,
             \/ FindByKey(r) \/ TryClaim(r) \/ FindInFlight(r)
             \/ SaveResult(r) \/ SaveResultThrows(r) \/ RequestThrows(r)
      PROVE  DecisionInv'
  <2>1. /\ \E to \in {"replied", "claim", "create", "relookup", "conflict", "error"} :
             pc' = [pc EXCEPT ![r] = to]
        /\ UNCHANGED <<command, row, transactions, attempt, outcome, hook>>
    BY <1>2 DEF FindByKey, TryClaim, FindInFlight, SaveResult, SaveResultThrows,
                RequestThrows, Goto
  <2>2. \A q \in Requests : \A to \in Decided \cup {"list", "approve"} :
          pc'[q] = to => pc[q] = to
    BY <2>1 DEF TypeOK, Decided
  <2>3. QED
    BY <2>1, <2>2 DEF DecisionInv, Approves, Decision, HookWriting, Decided
<1>3. ASSUME NEW r \in Requests, PersistPending(r) \/ PersistPendingThrows(r)
      PROVE  DecisionInv'
  <2>1. /\ \E to \in {"error", "approve"} : pc' = [pc EXCEPT ![r] = to]
        /\ \A q \in Requests : row'[q] = "FAILED" => q # r /\ row[q] = "FAILED"
        /\ UNCHANGED <<command, transactions, attempt, outcome, hook>>
    BY <1>3 DEF PersistPending, PersistPendingThrows, Goto, TypeOK, RowInv, Persisted
  <2>2. \A q \in Requests : /\ q # r => pc'[q] = pc[q]
                            /\ pc'[q] \notin Decided \cup {"list"} \/ pc'[q] = pc[q]
    BY <2>1 DEF TypeOK, Decided
  <2>3. QED
    BY <2>1, <2>2 DEF DecisionInv, Approves, Decision, HookWriting, Decided
<1>4. ASSUME NEW r \in Requests, RequestApproval(r)
      PROVE  DecisionInv'
  <2>1. /\ pc[r] = "approve"
        /\ pc' = [pc EXCEPT ![r] = "list"]
        /\ transactions' = transactions \cup {<<r, attempt[r]>>}
        /\ UNCHANGED <<command, row, attempt, outcome, hook>>
    BY <1>4 DEF RequestApproval, Goto
  <2>2. pc'[r] = "list" /\ \A q \in Requests : q # r => pc'[q] = pc[q]
    BY <2>1 DEF TypeOK
  <2>3. QED
    BY <2>1, <2>2 DEF DecisionInv, Approves, Decision, HookWriting, Decided
<1>5. ASSUME NEW r \in Requests, ListTransaction(r)
      PROVE  DecisionInv'
  <2>1. /\ pc[r] = "list"
        /\ pc' = [pc EXCEPT ![r] = "settle"]
        /\ outcome' = [outcome EXCEPT ![r] = Decision(r)]
        /\ UNCHANGED <<command, row, transactions, attempt, hook>>
    BY <1>5 DEF ListTransaction, Goto
  <2>2. /\ pc'[r] = "settle" /\ outcome'[r] = Decision(r)
        /\ \A q \in Requests : q # r => pc'[q] = pc[q] /\ outcome'[q] = outcome[q]
    BY <2>1 DEF TypeOK
  <2>3. <<r, attempt[r]>> \in transactions /\ attempt[r] \in 1..MaxAttempts
    BY <2>1 DEF DecisionInv, TypeOK
  <2>4. \A q \in Requests : Approves(q)' = Approves(q)
    BY <2>1 DEF Approves
  <2>5. QED
    BY <2>1, <2>2, <2>3, <2>4 DEF DecisionInv, Approves, Decision, HookWriting, Settled, Decided
<1>6. ASSUME NEW r \in Requests, ApprovalThrows(r)
      PROVE  DecisionInv'
  <2>1. /\ pc[r] \in {"approve", "list"}
        /\ UNCHANGED <<command, row, transactions, hook>>
    BY <1>6 DEF ApprovalThrows
  <2>2. \A q \in Requests : q # r =>
          pc'[q] = pc[q] /\ outcome'[q] = outcome[q] /\ attempt'[q] = attempt[q]
    BY <1>6 DEF ApprovalThrows, AttemptFails, Goto, TypeOK
  <2>3. \/ pc'[r] = "approve"
        \/ /\ pc'[r] = "settle" /\ outcome'[r] = "FAILED"
           /\ ~(attempt[r] < MaxAttempts) /\ attempt'[r] = attempt[r]
    BY <1>6 DEF ApprovalThrows, AttemptFails, Goto, TypeOK
  <2>4. attempt[r] < MaxAttempts \/ attempt[r] = MaxAttempts
    BY BoundsAssumption DEF TypeOK
  <2>5. QED
    BY <2>1, <2>2, <2>3, <2>4 DEF DecisionInv, Approves, Decision, HookWriting, Settled, Decided
<1>15. ASSUME NEW r \in Requests, LoadOutcome(r)
      PROVE  DecisionInv'
  <2>1. /\ pc[r] = "settle"
        /\ \E to \in {"write", "insert"} : pc' = [pc EXCEPT ![r] = to]
        /\ UNCHANGED <<command, row, transactions, attempt, outcome, hook>>
    BY <1>15 DEF LoadOutcome, Plan, Goto
  <2>2. /\ pc'[r] \in {"write", "insert"}
        /\ \A q \in Requests : q # r => pc'[q] = pc[q]
    BY <2>1 DEF TypeOK
  <2>3. QED
    BY <2>1, <2>2 DEF DecisionInv, Approves, Decision, HookWriting, Decided
<1>7. ASSUME NEW r \in Requests, PersistOutcome(r)
      PROVE  DecisionInv'
  <2>1. /\ pc[r] \in {"write", "insert"}
        /\ row' = [row EXCEPT ![r] = outcome[r]] \/ row' = row
        /\ pc' = [pc EXCEPT ![r] = "save"]
        /\ UNCHANGED <<command, transactions, attempt, outcome, hook>>
    BY <1>7 DEF PersistOutcome, PersistWithEvents, Goto
  <2>2. /\ pc'[r] = "save"
        /\ \A q \in Requests : q # r => pc'[q] = pc[q] /\ row'[q] = row[q]
    BY <2>1 DEF TypeOK
  <2>3. QED
    BY <2>1, <2>2 DEF DecisionInv, Approves, Decision, HookWriting, Decided
<1>8. ASSUME NEW w \in Webhooks, WebhookFinds(w)
      PROVE  DecisionInv'
  <2>1. PICK t \in transactions :
          hook' = [hook EXCEPT ![w] =
                     IF row[t[1]] = "PENDING"
                     THEN [pc |-> "load", payment |-> t[1], outcome |-> Decision(t[1])]
                     ELSE [pc |-> "done"]]
    BY <1>8 DEF WebhookFinds
  <2>2. UNCHANGED <<pc, command, row, transactions, attempt, outcome>>
    BY <1>8 DEF WebhookFinds
  <2>3. \E n \in 1..MaxAttempts : <<t[1], n>> \in transactions
    <3>1. t = <<t[1], t[2]>> /\ t[2] \in 1..MaxAttempts
      BY DEF TypeOK
    <3>2. QED BY <3>1
  <2>4. \A v \in Webhooks : v # w => hook'[v] = hook[v]
    BY <2>1 DEF TypeOK
  <2>5. hook'[w].pc # "done" =>
          hook'[w].payment = t[1] /\ hook'[w].outcome = Decision(t[1])
    BY <2>1 DEF TypeOK
  <2>6. \A p : Decision(p)' = Decision(p) /\ Approves(p)' = Approves(p)
    BY <2>2 DEF Decision, Approves
  <2>7. \A v \in Webhooks : HookWriting(v)' =>
          /\ hook'[v].outcome = Decision(hook'[v].payment)
          /\ \E n \in 1..MaxAttempts : <<hook'[v].payment, n>> \in transactions
    <3>1. TAKE v \in Webhooks
    <3>2. CASE v = w
      BY <3>2, <2>3, <2>5 DEF HookWriting
    <3>3. CASE v # w
      BY <3>3, <2>4 DEF HookWriting, DecisionInv
    <3>4. QED BY <3>2, <3>3
  <2>8. QED
    BY <2>2, <2>6, <2>7 DEF DecisionInv, Approves, Decision
<1>9. ASSUME NEW w \in Webhooks, WebhookPersists(w)
      PROVE  DecisionInv'
  <2>1. /\ row' = [row EXCEPT ![hook[w].payment] = hook[w].outcome] \/ row' = row
        /\ hook' = [hook EXCEPT ![w] = [pc |-> "done"]]
        /\ UNCHANGED <<pc, command, transactions, attempt, outcome>>
    BY <1>9 DEF WebhookPersists, PersistWithEvents
  <2>2. hook[w].outcome = Decision(hook[w].payment) /\ hook[w].payment \in Requests
    BY <1>9, HookPayment DEF DecisionInv, WebhookPersists, HookWriting
  <2>3. \A q \in Requests : row'[q] = "FAILED" /\ Approves(q) => row[q] = "FAILED"
    BY <2>1, <2>2 DEF Decision, TypeOK
  <2>4. \A v \in Webhooks : HookWriting(v)' => hook'[v] = hook[v]
    BY <2>1 DEF HookWriting, TypeOK
  <2>5. QED
    BY <2>1, <2>3, <2>4 DEF DecisionInv, Approves, Decision, HookWriting
<1>10. ASSUME NEW w \in Webhooks, WebhookThrows(w)
       PROVE  DecisionInv'
  <2>1. /\ hook' = [hook EXCEPT ![w] = [pc |-> "error"]]
        /\ UNCHANGED <<pc, command, row, transactions, attempt, outcome>>
    BY <1>10 DEF WebhookThrows
  <2>2. \A v \in Webhooks : HookWriting(v)' => hook'[v] = hook[v]
    BY <2>1 DEF HookWriting, TypeOK
  <2>3. QED
    BY <2>1, <2>2 DEF DecisionInv, Approves, Decision, HookWriting
<1>16. ASSUME NEW w \in Webhooks, WebhookLoads(w)
       PROVE  DecisionInv'
  <2>1. /\ hook[w].pc = "load" /\ hook[w] \in HookStates
        /\ hook' = [hook EXCEPT ![w].pc = Plan(hook[w].payment, hook[w].outcome)]
        /\ UNCHANGED <<pc, command, row, transactions, attempt, outcome>>
    BY <1>16 DEF WebhookLoads, TypeOK
  <2>2. HookWriting(w) /\ hook'[w].payment = hook[w].payment /\ hook'[w].outcome = hook[w].outcome
    BY <2>1 DEF HookWriting, HookStates, TypeOK
  <2>3. \A v \in Webhooks : v # w => hook'[v] = hook[v]
    BY <2>1 DEF TypeOK
  <2>4. \A v \in Webhooks : HookWriting(v)' =>
          /\ hook'[v].outcome = Decision(hook'[v].payment)
          /\ \E n \in 1..MaxAttempts : <<hook'[v].payment, n>> \in transactions
    BY <2>2, <2>3 DEF HookWriting, DecisionInv
  <2>5. QED
    BY <2>1, <2>4 DEF DecisionInv, Approves, Decision
<1>11. ASSUME NEW k \in Keys, ExpireKey(k)
       PROVE  DecisionInv'
  BY <1>11 DEF ExpireKey, DecisionInv, Approves, Decision, HookWriting
<1>12. CASE Crash
  <2>1. UNCHANGED <<command, row, transactions, attempt, outcome>>
    BY <1>12 DEF Crash
  <2>2. \A q \in Requests : pc'[q] = "lost" \/ pc'[q] = pc[q]
    BY <1>12 DEF Crash
  <2>3. \A v \in Webhooks : HookWriting(v)' => HookWriting(v) /\ hook'[v] = hook[v]
    BY <1>12 DEF Crash, HookWriting
  <2>4. \A p : (Approves(p)' <=> Approves(p)) /\ Decision(p)' = Decision(p)
    BY <2>1 DEF Approves, Decision
  <2>5. \A v \in Webhooks : HookWriting(v)' =>
          /\ hook'[v].outcome = Decision(hook[v].payment)'
          /\ \E n \in 1..MaxAttempts : <<hook'[v].payment, n>> \in transactions'
    BY <2>1, <2>3, <2>4 DEF DecisionInv, Decision, Approves
  <2>6. QED
    BY <2>1, <2>2, <2>4, <2>5 DEF DecisionInv, Decided
<1>13. CASE UNCHANGED vars
  BY <1>13 DEF vars, DecisionInv, Approves, Decision, HookWriting
<1>14. QED
  BY <1>1, <1>2, <1>3, <1>4, <1>5, <1>6, <1>7, <1>8, <1>9, <1>10, <1>11, <1>12, <1>13,
     <1>15, <1>16
  DEF Next, RequestStep, RequestFails, AllAnswered

\* Only a request at "create" and a webhook or a request that settles touch
\* the payment table and the outbox, and always through these writes.
LEMMA RowStep ==
  ASSUME IInv, [Next]_vars
  PROVE  \/ UNCHANGED <<row, outbox>>
         \/ \E r \in Requests : /\ row[r] = "ABSENT"
                                /\ row' = [row EXCEPT ![r] = "PENDING"]
                                /\ outbox' = outbox
         \/ \E p \in Requests, s \in Settled, plan \in {"write", "insert"} :
              /\ Persisted(p)
              /\ PersistWithEvents(p, s, plan)
              /\ plan = "insert" => Inserting(p, s)
<1> USE DEF IInv
<1>1. ASSUME NEW r \in Requests, PersistPending(r) \/ PersistPendingThrows(r)
      PROVE  \/ UNCHANGED <<row, outbox>>
             \/ /\ row[r] = "ABSENT"
                /\ row' = [row EXCEPT ![r] = "PENDING"]
                /\ outbox' = outbox
  BY <1>1 DEF PersistPending, PersistPendingThrows, RowInv, Persisted
<1>2. ASSUME NEW r \in Requests, PersistOutcome(r)
      PROVE  /\ outcome[r] \in Settled /\ Persisted(r) /\ pc[r] \in {"write", "insert"}
             /\ PersistWithEvents(r, outcome[r], pc[r])
             /\ pc[r] = "insert" => Inserting(r, outcome[r])
  BY <1>2 DEF PersistOutcome, DecisionInv, Decided, RowInv, Holding, Inserting
<1>3. ASSUME NEW w \in Webhooks, WebhookPersists(w)
      PROVE  LET p == hook[w].payment s == hook[w].outcome IN
             /\ p \in Requests /\ s \in Settled /\ hook[w].pc \in {"write", "insert"}
             /\ Persisted(p) /\ PersistWithEvents(p, s, hook[w].pc)
             /\ hook[w].pc = "insert" => Inserting(p, s)
  BY <1>3, HookPayment DEF WebhookPersists, HookWriting, Inserting
<1>4. QED
  BY <1>1, <1>2, <1>3
  DEF Next, RequestStep, RequestFails, Receive, FindByKey, TryClaim, FindInFlight, RequestApproval,
      ListTransaction, ApprovalThrows, LoadOutcome, SaveResult, RequestThrows, SaveResultThrows,
      WebhookFinds, WebhookLoads,
      WebhookThrows, ExpireKey, Crash, AllAnswered, vars

\* A row that is settled stays settled (as COMPLETED or as FAILED).
LEMMA SettledKept ==
  ASSUME IInv, [Next]_vars, NEW p \in Requests, row[p] \in Settled
  PROVE  row'[p] \in Settled
BY RowStep DEF PersistWithEvents, IInv, TypeOK, Settled

\* What a request asks for is fixed once it has a payment.
LEMMA CommandKept ==
  ASSUME IInv, [Next]_vars, NEW p \in Requests, Persisted(p)
  PROVE  command'[p] = command[p]
<1>1. pc[p] # "idle"
  BY DEF IInv, RowInv
<1>2. ASSUME NEW r \in Requests, Receive(r)
      PROVE  command'[p] = command[p]
  BY <1>1, <1>2 DEF Receive, IInv, TypeOK
<1>3. QED
  BY <1>2
  DEF Next, RequestStep, RequestFails, FindByKey, TryClaim, FindInFlight, PersistPending, RequestApproval,
      ListTransaction, ApprovalThrows, LoadOutcome, PersistOutcome, SaveResult, RequestThrows, PersistPendingThrows, SaveResultThrows,
      WebhookFinds, WebhookLoads, WebhookPersists, WebhookThrows, ExpireKey, Crash, AllAnswered, vars

\* The store keeps what it had, or the result of a request at "save".
LEMMA SavedResultStep ==
  ASSUME IInv, [Next]_vars
  PROVE  SavedResultIsSettled'
<1> SUFFICES ASSUME NEW k \in Keys, Found(k)'
             PROVE  /\ command'[store'[k].payment].key = k
                    /\ store'[k].status \in Settled
                    /\ row'[store'[k].payment] \in Settled
  BY DEF SavedResultIsSettled, KeyOf
<1>1. CASE store'[k] = store[k]
  <2>1. Found(k)
    BY <1>1 DEF Found
  <2>2. /\ store[k].payment \in Requests /\ KeyOf(store[k].payment) = k
        /\ store[k].status \in Settled /\ row[store[k].payment] \in Settled
    BY <2>1, FoundType DEF IInv, SavedResultIsSettled
  <2>3. Persisted(store[k].payment)
    BY <2>2 DEF Persisted, Settled
  <2>4. command'[store[k].payment].key = k
    BY <2>2, <2>3, CommandKept DEF KeyOf
  <2>5. QED
    BY <1>1, <2>2, <2>4, SettledKept
<1>2. CASE \E r \in Requests : SaveResult(r) \/ SaveResultThrows(r)
  <2>1. PICK r \in Requests : SaveResult(r) \/ SaveResultThrows(r)
    BY <1>2
  <2>2. /\ store' = [store EXCEPT ![KeyOf(r)] = Saved(r, outcome[r])]
        /\ UNCHANGED <<command, row>>
    BY <2>1 DEF SaveResult, SaveResultThrows
  <2>3. outcome[r] \in Settled /\ row[r] \in Settled
    BY <2>1 DEF SaveResult, SaveResultThrows, IInv, DecisionInv, Decided, RowInv
  <2>4. CASE k = KeyOf(r)
    <3>1. store'[k] = Saved(r, outcome[r])
      BY <2>2, <2>4 DEF IInv, TypeOK
    <3>2. QED
      BY <3>1, <2>2, <2>3, <2>4 DEF Saved, KeyOf
  <2>5. CASE k # KeyOf(r)
    BY <1>1, <2>2, <2>5 DEF IInv, TypeOK
  <2>6. QED BY <2>4, <2>5
<1>3. CASE \E r \in Requests : TryClaim(r)
  <2>1. PICK r \in Requests : TryClaim(r)
    BY <1>3
  <2>2. store' = store \/ store' = [store EXCEPT ![KeyOf(r)] = Processing]
    BY <2>1 DEF TryClaim
  <2>3. store'[k] = store[k] \/ store'[k] = Processing
    BY <2>2 DEF IInv, TypeOK
  <2>4. QED
    BY <1>1, <2>3 DEF Found, Processing
<1>4. CASE \E j \in Keys : ExpireKey(j)
  <2>1. PICK j \in Keys : ExpireKey(j)
    BY <1>4
  <2>2. store'[k] = store[k] \/ store'[k] = Free
    BY <2>1 DEF ExpireKey, IInv, TypeOK
  <2>3. QED
    BY <1>1, <2>2 DEF Found, Free
<1>5. QED
  BY <1>1, <1>2, <1>3, <1>4
  DEF Next, RequestStep, RequestFails, Receive, FindByKey, FindInFlight, PersistPending, RequestApproval,
      ListTransaction, ApprovalThrows, LoadOutcome, PersistOutcome, RequestThrows, PersistPendingThrows,
      WebhookFinds, WebhookLoads, WebhookPersists, WebhookThrows, Crash, AllAnswered, vars

\* A transaction comes to add an event without a write only by reading the row
\* with that status.
LEMMA InsertingStep ==
  ASSUME IInv, [Next]_vars, NEW p \in Requests, NEW s \in Settled, Inserting(p, s)'
  PROVE  Inserting(p, s) \/ (row[p] = s /\ UNCHANGED <<row, outbox>>)
<1> USE DEF IInv, TypeOK, Inserting
<1>1. ASSUME NEW r \in Requests, LoadOutcome(r)
      PROVE  Inserting(p, s) \/ (row[p] = s /\ UNCHANGED <<row, outbox>>)
  BY <1>1 DEF LoadOutcome, Plan, Goto
<1>2. ASSUME NEW w \in Webhooks, WebhookLoads(w)
      PROVE  Inserting(p, s) \/ (row[p] = s /\ UNCHANGED <<row, outbox>>)
  <2>1. /\ hook[w] \in [pc : {"load"}, payment : Requests, outcome : Settled]
        /\ hook' = [hook EXCEPT ![w].pc = Plan(hook[w].payment, hook[w].outcome)]
        /\ UNCHANGED <<pc, outcome, row, outbox>>
    BY <1>2 DEF WebhookLoads, HookStates
  <2>2. /\ \A v \in Webhooks : v # w => hook'[v] = hook[v]
        /\ hook'[w].payment = hook[w].payment /\ hook'[w].outcome = hook[w].outcome
        /\ hook'[w].pc = Plan(hook[w].payment, hook[w].outcome)
    BY <2>1
  <2>3. QED
    BY <2>1, <2>2 DEF Plan
<1>3. ASSUME NEW r \in Requests,
             \/ Receive(r) \/ FindByKey(r) \/ TryClaim(r) \/ FindInFlight(r)
             \/ PersistPending(r) \/ PersistPendingThrows(r) \/ RequestApproval(r)
             \/ PersistOutcome(r) \/ SaveResult(r) \/ SaveResultThrows(r) \/ RequestThrows(r)
      PROVE  Inserting(p, s)
  BY <1>3 DEF Receive, FindByKey, TryClaim, FindInFlight, PersistPending, PersistPendingThrows,
              RequestApproval, PersistOutcome, SaveResult, SaveResultThrows, RequestThrows, Goto
<1>4. ASSUME NEW r \in Requests, ListTransaction(r) \/ ApprovalThrows(r)
      PROVE  Inserting(p, s)
  BY <1>4 DEF ListTransaction, ApprovalThrows, AttemptFails, Goto
<1>5. ASSUME NEW w \in Webhooks, WebhookFinds(w) \/ WebhookPersists(w) \/ WebhookThrows(w)
      PROVE  Inserting(p, s)
  <2>1. /\ UNCHANGED <<pc, outcome>>
        /\ \E h \in HookStates : hook' = [hook EXCEPT ![w] = h] /\ h.pc # "insert"
    <3>1. CASE WebhookFinds(w)
      <4>1. PICK t \in transactions :
              hook' = [hook EXCEPT ![w] =
                         IF row[t[1]] = "PENDING"
                         THEN [pc |-> "load", payment |-> t[1], outcome |-> Decision(t[1])]
                         ELSE [pc |-> "done"]]
        BY <3>1 DEF WebhookFinds
      <4>2. t[1] \in Requests /\ Decision(t[1]) \in Settled
        BY DEF Decision, Settled
      <4>3. /\ [pc |-> "done"] \in HookStates
            /\ [pc |-> "load", payment |-> t[1], outcome |-> Decision(t[1])] \in HookStates
        BY <4>2 DEF HookStates
      <4>4. UNCHANGED <<pc, outcome>>
        BY <3>1 DEF WebhookFinds
      <4>5. CASE row[t[1]] = "PENDING"
        BY <4>1, <4>3, <4>4, <4>5
      <4>6. CASE row[t[1]] # "PENDING"
        BY <4>1, <4>3, <4>4, <4>6
      <4>7. QED BY <4>5, <4>6
    <3>2. CASE WebhookPersists(w) \/ WebhookThrows(w)
      BY <3>2 DEF WebhookPersists, WebhookThrows, HookStates
    <3>3. QED BY <1>5, <3>1, <3>2
  <2>2. QED
    BY <2>1
<1>6. ASSUME NEW k \in Keys, ExpireKey(k)
      PROVE  Inserting(p, s)
  BY <1>6 DEF ExpireKey
<1>7. CASE Crash
  BY <1>7 DEF Crash
<1>8. CASE UNCHANGED vars
  BY <1>8 DEF vars
<1>9. QED
  BY <1>1, <1>2, <1>3, <1>4, <1>5, <1>6, <1>7, <1>8
  DEF Next, RequestStep, RequestFails, AllAnswered

\* TellInv is kept: a write of the row appends the event of the new status; an
\* event without a write repeats what was said when the row was last written.
LEMMA TellInvStep ==
  ASSUME IInv, [Next]_vars
  PROVE  TellInv'
<1> USE DEF IInv
<1>1. CASE UNCHANGED <<row, outbox>>
  <2>1. ASSUME NEW p \in Requests, row[p] \in Settled
        PROVE  \E i \in DOMAIN outbox : TellsFrom(p, i)'
    <3>1. PICK i \in DOMAIN outbox : TellsFrom(p, i)
      BY <2>1 DEF TellInv
    <3>2. i \in 1..i
      BY <3>1 DEF TypeOK
    <3>3. \A s \in Settled : Inserting(p, s)' =>
            \E k \in 1..i : outbox[k] = OutboxEvent(p, s)
      BY <3>1, <3>2, InsertingStep DEF TellsFrom
    <3>4. QED
      BY <1>1, <3>1, <3>3 DEF TellsFrom, OutboxEvent
  <2>2. ASSUME NEW p \in Requests, row[p] \notin Settled
        PROVE  /\ \A i \in DOMAIN outbox : outbox[i].aggregateId # p
               /\ \A s \in Settled : ~Inserting(p, s)'
    BY <2>2, InsertingStep DEF TellInv
  <2>3. QED
    BY <1>1, <2>1, <2>2 DEF TellInv
<1>2. ASSUME NEW r \in Requests, row[r] = "ABSENT",
             row' = [row EXCEPT ![r] = "PENDING"], outbox' = outbox
      PROVE  TellInv'
  <2>1. /\ row' # row /\ row'[r] \notin Settled /\ row[r] \notin Settled
        /\ \A q \in Requests : q # r => row'[q] = row[q]
    BY <1>2 DEF TypeOK, Settled
  <2>2. \A p \in Requests, s \in Settled : Inserting(p, s)' => Inserting(p, s)
    BY <2>1, InsertingStep
  <2>3. \A p \in Requests : row'[p] \in Settled => row'[p] = row[p]
    BY <2>1
  <2>4. \A p \in Requests, i \in DOMAIN outbox :
          row'[p] \in Settled /\ TellsFrom(p, i) => TellsFrom(p, i)'
    BY <1>2, <2>2, <2>3 DEF TellsFrom, OutboxEvent
  <2>5. \A p \in Requests : row'[p] \in Settled <=> row[p] \in Settled
    BY <2>1
  <2>6. QED
    BY <1>2, <2>2, <2>3, <2>4, <2>5 DEF TellInv
<1>3. ASSUME NEW p \in Requests, NEW s \in Settled, NEW plan \in {"write", "insert"},
             PersistWithEvents(p, s, plan), plan = "insert" => Inserting(p, s)
      PROVE  TellInv'
  <2>1. /\ row' = IF plan = "write" THEN [row EXCEPT ![p] = s] ELSE row
        /\ outbox' = Append(outbox, OutboxEvent(p, s))
    BY <1>3 DEF PersistWithEvents
  <2>2. outbox \in Seq([aggregateId : Requests, eventType : Statuses]) /\ Len(outbox) \in Nat
    BY DEF TypeOK
  <2>3. OutboxEvent(p, s) \in [aggregateId : Requests, eventType : Statuses]
    BY DEF OutboxEvent, Statuses
  <2>11. PICK n \in Nat : n = Len(outbox) + 1
    BY <2>2
  <2>4. /\ DOMAIN outbox' = 1..n /\ n \in Nat /\ n \in DOMAIN outbox'
        /\ outbox'[n] = OutboxEvent(p, s)
        /\ \A i \in 1..Len(outbox) : outbox'[i] = outbox[i]
    BY <2>1, <2>2, <2>3, <2>11
  <2>5. DOMAIN outbox = 1..Len(outbox)
    BY <2>2
  <2>6. /\ \A j \in DOMAIN outbox' : j = n \/ j \in DOMAIN outbox
        /\ DOMAIN outbox \subseteq DOMAIN outbox'
        /\ \A i \in DOMAIN outbox : 1..i \subseteq DOMAIN outbox /\ 1..i \subseteq 1..n
    BY <2>2, <2>4, <2>5, <2>11
  <2>7. \A q \in Requests, t \in Settled : Inserting(q, t)' => Inserting(q, t)
    <3>1. outbox' # outbox
      BY <2>2, <2>4, <2>5, <2>11
    <3>2. QED BY <3>1, InsertingStep
  <2>8. ASSUME NEW q \in Requests, NEW i \in DOMAIN outbox, TellsFrom(q, i), row'[q] = row[q],
               q = p => plan = "insert"
        PROVE  TellsFrom(q, i)'
    <3>1. outbox'[i] = OutboxEvent(q, row'[q])
      BY <2>8, <2>4, <2>5 DEF TellsFrom
    <3>2. \A k \in 1..i : outbox'[k] = outbox[k]
      BY <2>4, <2>5, <2>6
    <3>3. ASSUME NEW j \in DOMAIN outbox', j > i, outbox'[j].aggregateId = q
          PROVE  \E k \in 1..i : outbox'[k] = outbox'[j]
      <4>1. CASE j = n
        <5>1. q = p /\ plan = "insert"
          BY <4>1, <3>3, <2>4, <2>8 DEF OutboxEvent
        <5>2. QED
          BY <4>1, <5>1, <1>3, <2>4, <2>8, <3>2 DEF TellsFrom
      <4>2. CASE j \in DOMAIN outbox
        <5>1. outbox'[j] = outbox[j]
          BY <4>2, <2>4, <2>5
        <5>2. QED
          BY <4>2, <5>1, <3>3, <2>8, <3>2 DEF TellsFrom
      <4>3. QED BY <4>1, <4>2, <2>6
    <3>4. \A t \in Settled : Inserting(q, t)' => \E k \in 1..i : outbox'[k] = OutboxEvent(q, t)
      BY <2>7, <2>8, <3>2 DEF TellsFrom
    <3>5. QED
      BY <3>1, <3>3, <3>4 DEF TellsFrom, OutboxEvent
  <2>9. ASSUME NEW q \in Requests
        PROVE  IF row'[q] \in Settled
               THEN \E i \in DOMAIN outbox' : TellsFrom(q, i)'
               ELSE /\ \A i \in DOMAIN outbox' : outbox'[i].aggregateId # q
                    /\ \A t \in Settled : ~Inserting(q, t)'
    <3>1. CASE q = p /\ plan = "write"
      <4>1. row'[q] = s
        BY <3>1, <2>1 DEF TypeOK
      <4>2. \A j \in DOMAIN outbox' : ~(j > n)
        BY <2>4
      <4>3. ASSUME NEW t \in Settled, Inserting(q, t)'
            PROVE  \E k \in 1..n : outbox'[k] = OutboxEvent(q, t)
        <5>1. PICK i \in DOMAIN outbox : TellsFrom(q, i)
          BY <4>3, <2>7 DEF TellInv
        <5>2. PICK k \in 1..i : outbox[k] = OutboxEvent(q, t)
          BY <4>3, <2>7, <5>1 DEF TellsFrom
        <5>3. k \in 1..n /\ k \in 1..Len(outbox)
          BY <5>1, <5>2, <2>5, <2>6
        <5>4. QED
          BY <5>2, <5>3, <2>4
      <4>4. TellsFrom(q, n)'
        BY <3>1, <4>1, <4>2, <4>3, <2>4 DEF TellsFrom, OutboxEvent
      <4>5. QED
        BY <4>1, <4>4, <2>4
    <3>2. CASE q = p /\ plan = "insert"
      <4>1. row'[q] = row[q] /\ Inserting(q, s)
        BY <3>2, <2>1, <1>3
      <4>2. row[q] \in Settled /\ \E i \in DOMAIN outbox : TellsFrom(q, i)
        BY <4>1 DEF TellInv
      <4>3. QED
        BY <3>2, <4>1, <4>2, <2>6, <2>8
    <3>3. CASE q # p
      <4>1. row'[q] = row[q]
        BY <3>3, <2>1 DEF TypeOK
      <4>2. CASE row[q] \in Settled
        BY <3>3, <4>1, <4>2, <2>6, <2>8 DEF TellInv
      <4>3. CASE row[q] \notin Settled
        <5>1. outbox'[n].aggregateId # q
          BY <3>3, <2>4 DEF OutboxEvent
        <5>2. QED
          BY <4>1, <4>3, <5>1, <2>4, <2>5, <2>6, <2>7 DEF TellInv
      <4>4. QED BY <4>2, <4>3
    <3>4. QED BY <3>1, <3>2, <3>3
  <2>10. QED
    BY <2>9 DEF TellInv
<1>4. QED
  BY <1>1, <1>2, <1>3, RowStep

\* A status is written by the payment's own request or by a webhook for it.
LEMMA Writer ==
  ASSUME IInv, [Next]_vars, NEW p \in Requests, row'[p] # row[p], row'[p] \in Settled
  PROVE  \/ PersistOutcome(p) /\ outcome[p] = row'[p]
         \/ \E w \in Webhooks : /\ WebhookPersists(w) /\ hook[w].payment = p
                                /\ hook[w].outcome = row'[p]
<1>1. ASSUME NEW r \in Requests, PersistPending(r) \/ PersistPendingThrows(r)
      PROVE  FALSE
  BY <1>1 DEF PersistPending, PersistPendingThrows, IInv, TypeOK, Settled
<1>2. ASSUME NEW r \in Requests, PersistOutcome(r)
      PROVE  r = p /\ outcome[p] = row'[p]
  BY <1>2 DEF PersistOutcome, PersistWithEvents, IInv, TypeOK
<1>3. ASSUME NEW w \in Webhooks, WebhookPersists(w)
      PROVE  hook[w].payment = p /\ hook[w].outcome = row'[p]
  BY <1>3 DEF WebhookPersists, PersistWithEvents, IInv, TypeOK
<1>4. QED
  BY <1>1, <1>2, <1>3
  DEF Next, RequestStep, RequestFails, Receive, FindByKey, TryClaim, FindInFlight, RequestApproval,
      ListTransaction, ApprovalThrows, LoadOutcome, SaveResult, RequestThrows, SaveResultThrows,
      WebhookFinds, WebhookLoads,
      WebhookThrows, ExpireKey, Crash, AllAnswered, vars

\* COMPLETED is written by a request whose approval was answered, or by a
\* webhook of an approved transaction; the PG forgets no transaction.
LEMMA CompletedStep ==
  ASSUME IInv, [Next]_vars
  PROVE  CompletedWasApproved'
<1> USE DEF IInv
<1>1. transactions \subseteq transactions'
  BY DEF Next, RequestStep, RequestFails, Receive, FindByKey, TryClaim, FindInFlight, PersistPending,
      RequestApproval, ListTransaction, ApprovalThrows, LoadOutcome, PersistOutcome, SaveResult,
      RequestThrows, PersistPendingThrows, SaveResultThrows,
      WebhookFinds, WebhookLoads, WebhookPersists, WebhookThrows, ExpireKey, Crash,
      AllAnswered, vars
<1>2. ASSUME NEW p \in Requests, row[p] = "COMPLETED"
      PROVE  Approves(p)' /\ \E n \in 1..MaxAttempts : <<p, n>> \in transactions'
  <2>1. Persisted(p) /\ Approves(p) /\ \E n \in 1..MaxAttempts : <<p, n>> \in transactions
    BY <1>2 DEF CompletedWasApproved, Persisted
  <2>2. Approves(p)' <=> Approves(p)
    BY <2>1, CommandKept DEF Approves
  <2>3. QED
    BY <2>1, <2>2, <1>1
<1>3. ASSUME NEW p \in Requests, row[p] # "COMPLETED", row'[p] = "COMPLETED"
      PROVE  Approves(p)' /\ \E n \in 1..MaxAttempts : <<p, n>> \in transactions'
  <2>1. \/ PersistOutcome(p) /\ outcome[p] = "COMPLETED"
        \/ \E w \in Webhooks : /\ WebhookPersists(w) /\ hook[w].payment = p
                               /\ hook[w].outcome = "COMPLETED"
    BY <1>3, Writer DEF Settled
  <2>2. Approves(p) /\ (\E n \in 1..MaxAttempts : <<p, n>> \in transactions) /\ command' = command
    <3>1. CASE PersistOutcome(p) /\ outcome[p] = "COMPLETED"
      BY <3>1 DEF PersistOutcome, DecisionInv, Decided
    <3>2. ASSUME NEW w \in Webhooks, WebhookPersists(w), hook[w].payment = p,
                 hook[w].outcome = "COMPLETED"
          PROVE  /\ Approves(p) /\ command' = command
                 /\ \E n \in 1..MaxAttempts : <<p, n>> \in transactions
      BY <3>2 DEF WebhookPersists, HookWriting, DecisionInv, Decision
    <3>3. QED BY <2>1, <3>1, <3>2
  <2>3. QED
    BY <2>2, <1>1 DEF Approves
<1>4. QED
  BY <1>2, <1>3 DEF CompletedWasApproved

\* FAILED is written over an approved payment by its own request alone, after
\* MaxAttempts errors; from then on the request counts no attempt.
LEMMA ApprovedButFailedStep ==
  ASSUME IInv, [Next]_vars
  PROVE  ApprovedButFailedIsExhausted'
<1> USE DEF IInv
<1>1. ASSUME NEW p \in Requests, row[p] = "FAILED", Approves(p)'
      PROVE  attempt'[p] = MaxAttempts /\ outcome'[p] = "FAILED"
  <2>1. Persisted(p) /\ Approves(p)
    BY <1>1, CommandKept DEF Persisted, Approves
  <2>2. /\ attempt[p] = MaxAttempts /\ outcome[p] = "FAILED"
        /\ pc[p] \notin {"approve", "list"}
    BY <1>1, <2>1 DEF ApprovedButFailedIsExhausted, DecisionInv
  <2>3. ASSUME NEW r \in Requests, ListTransaction(r) \/ ApprovalThrows(r)
        PROVE  attempt'[p] = attempt[p] /\ outcome'[p] = outcome[p]
    BY <2>2, <2>3 DEF ListTransaction, ApprovalThrows, AttemptFails, TypeOK
  <2>4. attempt'[p] = attempt[p] /\ outcome'[p] = outcome[p]
    BY <2>3
    DEF Next, RequestStep, RequestFails, Receive, FindByKey, TryClaim, FindInFlight, PersistPending,
      RequestApproval, LoadOutcome, PersistOutcome, SaveResult, RequestThrows, PersistPendingThrows, SaveResultThrows,
      WebhookFinds, WebhookLoads,
      WebhookPersists, WebhookThrows, ExpireKey, Crash, AllAnswered, vars
  <2>5. QED
    BY <2>2, <2>4
<1>2. ASSUME NEW p \in Requests, row[p] # "FAILED", row'[p] = "FAILED", Approves(p)'
      PROVE  attempt'[p] = MaxAttempts /\ outcome'[p] = "FAILED"
  <2>1. \/ PersistOutcome(p) /\ outcome[p] = "FAILED"
        \/ \E w \in Webhooks : /\ WebhookPersists(w) /\ hook[w].payment = p
                               /\ hook[w].outcome = "FAILED"
    BY <1>2, Writer DEF Settled
  <2>2. CASE PersistOutcome(p) /\ outcome[p] = "FAILED"
    <3>1. /\ pc[p] \in Decided /\ Approves(p)
          /\ UNCHANGED <<command, attempt, outcome>>
      BY <2>2, <1>2 DEF PersistOutcome, Approves, Decided
    <3>2. QED
      BY <2>2, <3>1 DEF DecisionInv
  <2>3. ASSUME NEW w \in Webhooks, WebhookPersists(w), hook[w].payment = p,
               hook[w].outcome = "FAILED"
        PROVE  FALSE
    <3>1. ~Approves(p) /\ command' = command
      BY <2>3 DEF WebhookPersists, HookWriting, DecisionInv, Decision
    <3>2. QED
      BY <3>1, <1>2 DEF Approves
  <2>4. QED BY <2>1, <2>2, <2>3
<1>3. QED
  BY <1>1, <1>2 DEF ApprovedButFailedIsExhausted

-----------------------------------------------------------------------------
(* The invariant and the theorems                                          *)

\* No payment, claim or event exists initially.
LEMMA InitIInv == Init => IInv
<1> SUFFICES ASSUME Init
             PROVE  IInv
  OBVIOUS
<1>1. TypeOK
  BY InitTypeOK
<1>2. RowInv /\ ClaimInv /\ DecisionInv
  BY DEF Init, RowInv, ClaimInv, DecisionInv, Decided, Persisted, Live, Holding, Approves,
         HookWriting, HookIdle
<1>3. SavedResultIsSettled
  BY <1>1 DEF Init, SavedResultIsSettled, Found, Free
<1>4. TellInv /\ CompletedWasApproved /\ ApprovedButFailedIsExhausted
  BY DEF Init, TellInv, Inserting, HookIdle, CompletedWasApproved, ApprovedButFailedIsExhausted,
         Settled
<1>5. QED
  BY <1>1, <1>2, <1>3, <1>4 DEF IInv

\* IInv is inductive.
THEOREM Invariance == Spec => []IInv
<1>1. IInv /\ [Next]_vars => IInv'
  <2> SUFFICES ASSUME IInv, [Next]_vars
               PROVE  IInv'
    OBVIOUS
  <2>1. TypeOK'
    <3>1. TypeOK
      BY DEF IInv
    <3>2. CASE Next
      BY <3>1, <3>2, RequestTypeOK, WebhookTypeOK, EnvironmentTypeOK
      DEF Next, AllAnswered, vars, TypeOK
    <3>3. CASE UNCHANGED vars
      BY <3>1, <3>3 DEF vars, TypeOK
    <3>4. QED BY <3>2, <3>3
  <2>2. QED
    BY <2>1, RowInvStep, ClaimInvStep, DecisionInvStep, SavedResultStep, TellInvStep,
       CompletedStep, ApprovedButFailedStep DEF IInv
<1>2. QED
  BY <1>1, InitIInv, PTL DEF Spec

\* However many callers share an idempotency key, at most one payment is made
\* for it between two expiries of the key.
THEOREM ExactlyOnceClaim == Spec => []OnePaymentPerKey
<1>1. IInv => OnePaymentPerKey
  BY DEF IInv, ClaimInv, OnePaymentPerKey, Live
<1>2. QED
  BY <1>1, Invariance, PTL

\* The idempotency store only ever answers with settled payments of its key.
THEOREM SavedResultCorrect == Spec => []SavedResultIsSettled
<1>1. IInv => SavedResultIsSettled
  BY DEF IInv
<1>2. QED
  BY <1>1, Invariance, PTL

\* Whatever saves cross, the event of the write that made a settled row what it
\* is is in the outbox, and what follows it repeats what was said before.
THEOREM OutboxCorrect == Spec => []OutboxTellsRow
<1>1. IInv => OutboxTellsRow
  <2> SUFFICES ASSUME IInv, NEW p \in Requests
               PROVE  IF row[p] \in Settled
                      THEN \E i \in DOMAIN outbox :
                             /\ outbox[i] = OutboxEvent(p, row[p])
                             /\ \A j \in DOMAIN outbox : j > i /\ outbox[j].aggregateId = p =>
                                  \E k \in 1..i : outbox[k] = outbox[j]
                      ELSE \A i \in DOMAIN outbox : outbox[i].aggregateId # p
    BY DEF OutboxTellsRow
  <2>1. CASE row[p] \in Settled
    BY <2>1 DEF IInv, TellInv, TellsFrom
  <2>2. CASE row[p] \notin Settled
    BY <2>2 DEF IInv, TellInv
  <2>3. QED BY <2>1, <2>2
<1>2. QED
  BY <1>1, Invariance, PTL

\* No payment is COMPLETED without a transaction that the PG approved.
THEOREM CompletedCorrect == Spec => []CompletedWasApproved
<1>1. IInv => CompletedWasApproved
  BY DEF IInv
<1>2. QED
  BY <1>1, Invariance, PTL

\* An approved payment is FAILED only by a request that used up its attempts.
THEOREM FailedCorrect == Spec => []ApprovedButFailedIsExhausted
<1>1. IInv => ApprovedButFailedIsExhausted
  BY DEF IInv
<1>2. QED
  BY <1>1, Invariance, PTL

-----------------------------------------------------------------------------
(* Refinement, when the PG sends no webhook                                *)

\* A request that has not written its outcome yet finds its row as it made it.
UnsettledInv ==
  \A r \in Requests :
    /\ pc[r] \in {"approve", "list", "settle", "write"} => row[r] = "PENDING"
    /\ pc[r] # "insert"

\* With requests alone, UnsettledInv is kept: nobody else writes the row.
LEMMA UnsettledStep ==
  ASSUME Webhooks = {}, IInv, UnsettledInv, [Next]_vars
  PROVE  UnsettledInv'
<1> USE DEF IInv, UnsettledInv, TypeOK
<1>1. ASSUME NEW r \in Requests, PersistPending(r) \/ PersistPendingThrows(r)
      PROVE  UnsettledInv'
  BY <1>1 DEF PersistPending, PersistPendingThrows, Goto
<1>2. ASSUME NEW r \in Requests,
             RequestApproval(r) \/ ListTransaction(r) \/ ApprovalThrows(r)
      PROVE  UnsettledInv'
  BY <1>2 DEF RequestApproval, ListTransaction, ApprovalThrows, AttemptFails, Goto
<1>9. ASSUME NEW r \in Requests, LoadOutcome(r)
      PROVE  UnsettledInv'
  BY <1>9 DEF LoadOutcome, Plan, DecisionInv, Decided, Settled, Goto
<1>3. ASSUME NEW r \in Requests, PersistOutcome(r)
      PROVE  UnsettledInv'
  BY <1>3 DEF PersistOutcome, PersistWithEvents, Goto
<1>4. ASSUME NEW r \in Requests,
             \/ Receive(r) \/ FindByKey(r) \/ TryClaim(r) \/ FindInFlight(r)
             \/ SaveResult(r) \/ SaveResultThrows(r) \/ RequestThrows(r)
      PROVE  UnsettledInv'
  BY <1>4 DEF Receive, FindByKey, TryClaim, FindInFlight, SaveResult, SaveResultThrows,
              RequestThrows, Goto
<1>5. ASSUME NEW k \in Keys, ExpireKey(k)
      PROVE  UnsettledInv'
  BY <1>5 DEF ExpireKey
<1>6. CASE Crash
  BY <1>6 DEF Crash
<1>7. CASE UNCHANGED vars
  BY <1>7 DEF vars
<1>8. QED
  BY <1>1, <1>2, <1>3, <1>4, <1>5, <1>6, <1>7, <1>9
  DEF Next, RequestStep, RequestFails, AllAnswered

\* Each step of the service is a step of the promise, or changes nothing that
\* the promise speaks of.
LEMMA PromiseStep ==
  ASSUME Webhooks = {}, IInv, UnsettledInv, [Next]_vars
  PROVE  [Promise!Next]_<<row, outbox>>
<1>1. ASSUME NEW r \in Requests, PersistPending(r) \/ PersistPendingThrows(r)
      PROVE  Promise!Create(r) \/ UNCHANGED <<row, outbox>>
  BY <1>1 DEF PersistPending, PersistPendingThrows, Promise!Create, IInv, RowInv, Persisted
<1>2. ASSUME NEW r \in Requests, PersistOutcome(r)
      PROVE  \E s \in {"COMPLETED", "FAILED"} : Promise!Settle(r, s)
  <2>3. pc[r] = "write"
    BY <1>2 DEF PersistOutcome, UnsettledInv
  <2>1. outcome[r] \in {"COMPLETED", "FAILED"} /\ row[r] = "PENDING"
    BY <2>3 DEF IInv, DecisionInv, Decided, UnsettledInv, Settled
  <2>2. Promise!Settle(r, outcome[r])
    BY <1>2, <2>1, <2>3 DEF PersistOutcome, PersistWithEvents, Promise!Settle, OutboxEvent
  <2>4. QED BY <2>1, <2>2
<1>3. QED
  BY <1>1, <1>2
  DEF Next, RequestStep, RequestFails, Receive, FindByKey, TryClaim, FindInFlight, RequestApproval,
      ListTransaction, ApprovalThrows, LoadOutcome, SaveResult, RequestThrows, SaveResultThrows,
      ExpireKey, Crash,
      AllAnswered, vars, Promise!Next

\* As long as the PG sends no webhook, a payment is created once, settled once,
\* and announced by one event, whatever the interleaving, errors and crashes.
THEOREM PromiseImplemented ==
  ASSUME Webhooks = {}
  PROVE  Spec => PaymentPromiseKept
<1>1. Init => Promise!Init
  BY DEF Init, Promise!Init
<1>2. Init => UnsettledInv
  BY DEF Init, UnsettledInv
<1>3. IInv /\ UnsettledInv /\ [Next]_vars => UnsettledInv'
  BY UnsettledStep
<1>4. IInv /\ UnsettledInv /\ [Next]_vars => [Promise!Next]_<<row, outbox>>
  BY PromiseStep
<1>5. QED
  BY <1>1, <1>2, <1>3, <1>4, Invariance, PTL DEF Spec, PaymentPromiseKept, Promise!Spec

=============================================================================
