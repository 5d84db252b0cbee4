------------------------ MODULE ChatRealtimeProofs -------------------------
(***************************************************************************)
(* Theorems about the realtime chat: its types, that a pod emits a message *)
(* to a client once, that no message is left out, and that all is          *)
(* delivered at rest.  They hold for any pods, sockets, messages and       *)
(* limits.                                                                 *)
(***************************************************************************)
EXTENDS ChatRealtime, FiniteSetTheorems, SequenceTheorems, WellFoundedInduction, TLAPS

Below == {p \in Nat \X Nat : p[1] < p[2]}

LEMMA BelowWellFounded == IsWellFoundedOn(Below, Nat)
<1>1. Below \cap (Nat \X Nat) \subseteq OpToRel(<, Nat)
  BY DEF OpToRel, Below
<1> QED
  BY <1>1, NatLessThanWellFounded, IsWellFoundedOnSubrelation

\* A bounded set of numbers has the maximum that Max chooses.
LEMMA MaxOfBounded ==
  ASSUME NEW k \in Nat, NEW S, S \subseteq 0..k, S # {}
  PROVE  Max(S) \in S /\ \A y \in S : y <= Max(S)
<1> DEFINE D == {k - y : y \in S}
<1>1. D \subseteq Nat /\ D # {}
  <2>1. \A y \in S : y \in 0..k /\ k - y \in Nat
    OBVIOUS
  <2> QED
    BY <2>1
<1>2. PICK d \in D : \A e \in D : <<e, d>> \notin Below
  BY <1>1, BelowWellFounded, WFMin
<1>3. PICK x \in S : d = k - x
  OBVIOUS
<1>4. ASSUME NEW y \in S PROVE x >= y
  <2>1. k - y \in D /\ k - y \in Nat /\ k - x \in Nat
    BY <1>1
  <2>2. ~(k - y < k - x)
    BY <1>2, <1>3, <2>1 DEF Below
  <2> QED
    BY <2>1, <2>2
<1>5. \E z \in S : \A y \in S : z >= y
  BY <1>4
<1>6. Max(S) \in S /\ \A y \in S : Max(S) >= y
  BY <1>5 DEF Max
<1> QED
  BY <1>6

\* A sequence without its head, and with one more at its end.
LEMMA TailFacts ==
  ASSUME NEW S, NEW r \in Seq(S), r # <<>>
  PROVE  /\ 1 \in 1..Len(r) /\ Head(r) = r[1] /\ Head(r) \in S /\ Tail(r) \in Seq(S)
         /\ \A i \in 1..Len(Tail(r)) : i + 1 \in 1..Len(r) /\ Tail(r)[i] = r[i + 1]
<1>1. Len(r) \in Nat /\ Len(r) # 0
  OBVIOUS
<1>2. Len(Tail(r)) = Len(r) - 1
  BY <1>1
<1> QED
  BY <1>1, <1>2

LEMMA AppendFacts ==
  ASSUME NEW S, NEW r \in Seq(S), NEW x \in S
  PROVE  /\ Append(r, x) \in Seq(S) /\ Len(Append(r, x)) = Len(r) + 1
         /\ \A i \in 1..Len(r) : Append(r, x)[i] = r[i]
         /\ Append(r, x)[Len(r) + 1] = x
         /\ \A i \in 1..Len(Append(r, x)) : i \in 1..Len(r) \/ i = Len(r) + 1
OBVIOUS

-----------------------------------------------------------------------------
(* Types                                                                   *)

Batches == [from : Pods, batch : SUBSET Messages]
SendAt(k) == [pc : {"none", "add", "trim", "done", "failed"}, ts : 0..k, stored : 0..k]
PodAt(k) == [mark : 0..k, task : {"idle", "pull", "emit"}, since : 0..k,
             batch : SUBSET Messages, fresh : BOOLEAN]
SockAt(k) == [at : {"out", "joining", "in"}, joined : 0..k, loaded : BOOLEAN,
              past : SUBSET Messages]

\* TypeOK, with the types named.
Typed ==
  /\ clock \in 1..MaxTime /\ faults \in 0..MaxFaults
  /\ send \in [Messages -> SendAt(clock)] /\ zset \subseteq Messages
  /\ notices \in [Pods -> Nat] /\ pod \in [Pods -> PodAt(clock)]
  /\ remote \in [Pods -> Seq(Batches)]
  /\ sock \in [Sockets -> SockAt(clock)]
  /\ got \in [Sockets -> [Pods -> [Messages -> Nat]]]

LEMMA TypedIsTypeOK == Typed <=> TypeOK
BY DEF Typed, TypeOK, Batches, SendAt, PodAt, SockAt

\* The mark moves to the newest message of the batch, and never back.
LEMMA MarkMoves ==
  ASSUME Typed, NEW mark \in 0..clock, NEW batch \in SUBSET Messages
  PROVE  LET next == UpdateRoomLastFlushed(mark, batch) IN
         /\ next \in 0..clock /\ mark <= next
         /\ next = mark \/ \E b \in batch : next = Ts(b)
         /\ \A b \in batch : Ts(b) <= next
<1> DEFINE S == {Ts(m) : m \in batch} \cup {mark}
<1>1. \A m \in Messages : Ts(m) \in 0..clock
  BY DEF Typed, SendAt, Ts
<1>2. S \subseteq 0..clock /\ S # {} /\ clock \in Nat
  BY <1>1 DEF Typed
<1>3. Max(S) \in S /\ \A y \in S : y <= Max(S)
  BY <1>2, MaxOfBounded
<1>4. UpdateRoomLastFlushed(mark, batch) = Max(S)
  BY DEF UpdateRoomLastFlushed
<1> QED
  BY <1>2, <1>3, <1>4

LEMMA PulledType ==
  ASSUME Typed, NEW since
  PROVE  GetMessagesSince(since) \subseteq zset /\ GetMessagesSince(since) \subseteq Messages
BY DEF Typed, GetMessagesSince, Oldest

\* Who is reached, and what he gets.
LEMMA ReceivedType ==
  ASSUME Typed, NEW p \in Pods, NEW q \in Pods, NEW batch
  PROVE  /\ Received(p, q, batch) \in [Sockets -> [Pods -> [Messages -> Nat]]]
         /\ \A s \in Sockets, r \in Pods, m \in Messages :
              Received(p, q, batch)[s][r][m] =
                IF s \in RoomOf(p) /\ r = q /\ m \in batch THEN got[s][r][m] + 1 ELSE got[s][r][m]
BY DEF Typed, Received

LEMMA InitType == Init => Typed
<1> SUFFICES ASSUME Init PROVE Typed
  OBVIOUS
<1>1. clock = 1 /\ clock \in 1..MaxTime /\ faults \in 0..MaxFaults
  BY ChatAssumption DEF Init
<1>2. send \in [Messages -> SendAt(clock)] /\ zset \subseteq Messages
  BY <1>1 DEF SendAt, Init
<1>3. pod \in [Pods -> PodAt(clock)]
  BY <1>1 DEF Idle, PodAt, Init
<1>4. sock \in [Sockets -> SockAt(clock)]
  BY <1>1 DEF Outside, SockAt, Init
<1>5. notices \in [Pods -> Nat] /\ got \in [Sockets -> [Pods -> [Messages -> Nat]]]
  BY DEF Init
<1>6. remote \in [Pods -> Seq(Batches)]
  BY DEF Init
<1> QED
  BY <1>1, <1>2, <1>3, <1>4, <1>5, <1>6 DEF Typed

\* The types only grow with the clock.
LEMMA TypesGrow ==
  ASSUME NEW k \in Nat
  PROVE  /\ SendAt(k) \subseteq SendAt(k + 1) /\ PodAt(k) \subseteq PodAt(k + 1)
         /\ SockAt(k) \subseteq SockAt(k + 1)
BY DEF SendAt, PodAt, SockAt

LEMMA TickType == ASSUME Typed, Tick PROVE Typed'
<1>1. clock \in Nat /\ clock' = clock + 1 /\ clock' \in 1..MaxTime
  BY ChatAssumption DEF Tick, Typed
<1>2. UNCHANGED <<send, zset, notices, pod, remote, sock, got, faults>>
  BY DEF Tick
<1>3. /\ send' \in [Messages -> SendAt(clock')] /\ pod' \in [Pods -> PodAt(clock')]
      /\ sock' \in [Sockets -> SockAt(clock')]
  BY <1>1, <1>2, TypesGrow DEF Typed
<1> QED
  BY <1>1, <1>2, <1>3 DEF Typed, Batches

LEMMA FaultType == ASSUME Typed, Fault PROVE faults' \in 0..MaxFaults
BY ChatAssumption DEF Fault, Typed

LEMMA ServiceType ==
  ASSUME Typed, NEW m \in Messages,
         HandleSendMessage(m) \/ AddMessage(m) \/ TrimAndPublish(m) \/ PersistThrows(m)
  PROVE  Typed'
<1>1. clock' = clock /\ clock \in 1..clock
  BY ChatAssumption DEF Typed, HandleSendMessage, AddMessage, TrimAndPublish, PersistThrows
<1>2. send' \in [Messages -> SendAt(clock)]
  <2> DEFINE stamped == [send[m] EXCEPT !.pc = "add", !.ts = clock]
             stored == [send[m] EXCEPT !.pc = "trim", !.stored = clock]
             done == [send[m] EXCEPT !.pc = "done"]
             failed == [send[m] EXCEPT !.pc = "failed"]
  <2>1. send[m] \in SendAt(clock) /\ clock \in 0..clock
    BY <1>1 DEF Typed
  <2>2. {stamped, stored, done, failed} \subseteq SendAt(clock)
    BY <2>1 DEF SendAt
  <2>3. \E x \in SendAt(clock) : send' = [send EXCEPT ![m] = x]
    <3>1. CASE HandleSendMessage(m)
      BY <3>1, <2>2 DEF HandleSendMessage
    <3>2. CASE AddMessage(m)
      BY <3>2, <2>2 DEF AddMessage
    <3>3. CASE TrimAndPublish(m)
      BY <3>3, <2>2 DEF TrimAndPublish
    <3>4. CASE PersistThrows(m)
      BY <3>4, <2>2 DEF PersistThrows
    <3> QED
      BY <3>1, <3>2, <3>3, <3>4
  <2> QED
    BY <2>3 DEF Typed
<1>3. zset' \subseteq Messages
  BY DEF Typed, HandleSendMessage, AddMessage, TrimAndPublish, PersistThrows, Newest
<1>4. notices' \in [Pods -> Nat]
  BY DEF Typed, HandleSendMessage, AddMessage, TrimAndPublish, PersistThrows
<1>5. faults' \in 0..MaxFaults
  BY FaultType DEF Typed, HandleSendMessage, AddMessage, TrimAndPublish, PersistThrows
<1>6. UNCHANGED <<pod, remote, sock, got>>
  BY DEF HandleSendMessage, AddMessage, TrimAndPublish, PersistThrows
<1> QED
  BY <1>1, <1>2, <1>3, <1>4, <1>5, <1>6 DEF Typed, Batches

\* The requests of a client.
ClientStep(s) ==
  \/ HandleDisconnect(s) \/ HandleJoinRoom(s) \/ LoadHistory(s) \/ LoadHistoryThrows(s)
  \/ HandleLeaveRoom(s)

LEMMA ClientType == ASSUME Typed, NEW s \in Sockets, ClientStep(s) PROVE Typed'
<1> USE DEF ClientStep
<1>1. PodOf[s] \in Pods /\ clock' = clock /\ clock \in Nat
  BY PodOfAssumption, ChatAssumption
     DEF Typed, HandleDisconnect, HandleJoinRoom, LoadHistory, LoadHistoryThrows, HandleLeaveRoom
<1>2. UNCHANGED <<send, zset, notices, remote, got>>
  BY DEF HandleDisconnect, HandleJoinRoom, LoadHistory, LoadHistoryThrows, HandleLeaveRoom
<1>3. GetMessagesBefore(clock) \subseteq Messages
  BY DEF Typed, GetMessagesBefore, Newest
<1>4. sock' \in [Sockets -> SockAt(clock)]
  <2>1. sock[s] \in SockAt(clock) /\ Outside \in SockAt(clock) /\ clock \in 0..clock
    BY <1>1 DEF Typed, SockAt, Outside
  <2>2. \E x \in SockAt(clock) : sock' = [sock EXCEPT ![s] = x]
    <3>1. CASE HandleDisconnect(s) \/ HandleLeaveRoom(s)
      BY <3>1, <2>1 DEF HandleDisconnect, HandleLeaveRoom
    <3>2. CASE HandleJoinRoom(s)
      <4> DEFINE j == IF InRoom(s) THEN sock[s].joined ELSE clock
                 x == [sock[s] EXCEPT !.at = "joining", !.loaded = FALSE, !.joined = j]
      <4>1. x \in SockAt(clock)
        BY <2>1 DEF SockAt
      <4>2. sock' = [sock EXCEPT ![s] = x]
        BY <3>2, <2>1 DEF HandleJoinRoom, Typed, SockAt
      <4> QED
        BY <4>1, <4>2, Zenon
    <3>3. CASE LoadHistory(s)
      <4> DEFINE h == sock[s].past \cup GetMessagesBefore(clock)
                 x == [sock[s] EXCEPT !.at = "in", !.loaded = TRUE, !.past = h]
      <4>1. x \in SockAt(clock)
        BY <2>1, <1>3 DEF SockAt
      <4>2. sock' = [sock EXCEPT ![s] = x]
        BY <3>3, <2>1 DEF LoadHistory, Typed, SockAt
      <4> QED
        BY <4>1, <4>2, Zenon
    <3>4. CASE LoadHistoryThrows(s)
      <4>1. [sock[s] EXCEPT !.at = "in"] \in SockAt(clock)
        BY <2>1 DEF SockAt
      <4> QED
        BY <3>4, <4>1 DEF LoadHistoryThrows
    <3> QED
      BY <3>1, <3>2, <3>3, <3>4
  <2> QED
    BY <2>2 DEF Typed
<1>5. pod' \in [Pods -> PodAt(clock)]
  <2>1. pod[PodOf[s]] \in PodAt(clock)
    BY <1>1 DEF Typed
  <2>2. InitRoomLastFlushed(pod[PodOf[s]].mark) \in 0..clock /\ CleanupRoom(PodOf[s], s) \in 0..clock
    BY <1>1, <2>1 DEF PodAt, InitRoomLastFlushed, CleanupRoom
  <2>3. CASE HandleJoinRoom(s)
    <3> DEFINE p == PodOf[s]
               f == IF RoomOf(p) = {} THEN pod[p].mark = 0 ELSE pod[p].fresh
               x == [pod[p] EXCEPT !.mark = InitRoomLastFlushed(pod[p].mark), !.fresh = f]
    <3>1. f \in BOOLEAN
      BY <2>1 DEF PodAt
    <3>2. x \in PodAt(clock)
      BY <2>1, <2>2, <3>1 DEF PodAt
    <3>3. pod' = [pod EXCEPT ![p] = x]
      BY <2>3, <1>1 DEF HandleJoinRoom, Typed
    <3> QED
      BY <1>1, <3>2, <3>3 DEF Typed
  <2>4. CASE HandleLeaveRoom(s)
    <3>1. [pod[PodOf[s]] EXCEPT !.mark = CleanupRoom(PodOf[s], s)] \in PodAt(clock)
      BY <2>1, <2>2 DEF PodAt
    <3> QED
      BY <1>1, <2>4, <3>1 DEF Typed, HandleLeaveRoom
  <2> QED
    BY <2>3, <2>4 DEF Typed, HandleDisconnect, LoadHistory, LoadHistoryThrows
<1>6. faults' \in 0..MaxFaults
  BY FaultType DEF Typed, HandleDisconnect, HandleJoinRoom, LoadHistory, LoadHistoryThrows,
                   HandleLeaveRoom
<1> QED
  BY <1>1, <1>2, <1>4, <1>5, <1>6 DEF Typed, Batches

\* The steps of a gateway pod.
PodStep(p) ==
  \/ OnShardMessage(p) \/ Pull(p) \/ Emit(p) \/ DeliverRemote(p)
  \/ PullThrows(p) \/ NoticeLost(p) \/ PodCrash(p)

LEMMA PodType == ASSUME Typed, NEW p \in Pods, PodStep(p) PROVE Typed'
<1>1. clock' = clock /\ UNCHANGED <<send, zset>> /\ clock \in Nat
  <2>1. clock \in Nat
    BY ChatAssumption DEF Typed
  <2>2. clock' = clock /\ UNCHANGED <<send, zset>>
    BY Zenon DEF PodStep, OnShardMessage, Pull, Emit, DeliverRemote, PullThrows, NoticeLost, PodCrash
  <2> QED
    BY <2>1, <2>2
<1>2. notices' \in [Pods -> Nat]
  <2>1. CASE OnShardMessage(p) \/ NoticeLost(p)
    <3>1. notices[p] \in Nat /\ notices[p] > 0 /\ notices' = [notices EXCEPT ![p] = @ - 1]
      BY <2>1 DEF OnShardMessage, NoticeLost, Typed
    <3> QED
      BY <3>1 DEF Typed
  <2>2. CASE PodCrash(p)
    BY <2>2 DEF PodCrash, Typed
  <2> QED
    BY <2>1, <2>2 DEF Typed, PodStep, Pull, Emit, DeliverRemote, PullThrows
<1>3. faults' \in 0..MaxFaults
  BY FaultType DEF Typed, PodStep, OnShardMessage, Pull, Emit, DeliverRemote, PullThrows,
                   NoticeLost, PodCrash
<1>4. \A q \in Pods : pod[q] \in PodAt(clock)
  BY DEF Typed
<1>5. pod' \in [Pods -> PodAt(clock)]
  <2>1. CASE OnShardMessage(p)
    <3>1. InitRoomLastFlushed(pod[p].mark) \in 0..clock
      BY <1>1, <1>4 DEF PodAt, InitRoomLastFlushed
    <3> DEFINE x == [pod[p] EXCEPT !.mark = InitRoomLastFlushed(pod[p].mark)]
               y == [pod[p] EXCEPT !.task = "pull", !.since = pod[p].mark]
    <3>2. x \in PodAt(clock) /\ y \in PodAt(clock)
      BY <3>1, <1>4 DEF PodAt
    <3>3. \E z \in {pod[p], x, y} : pod' = [pod EXCEPT ![p] = z]
      BY <2>1, <1>4 DEF OnShardMessage, Typed, PodAt
    <3> QED
      BY <3>2, <3>3, <1>4 DEF Typed
  <2>2. CASE Pull(p)
    <3> DEFINE batch == GetMessagesSince(pod[p].since)
               x == [pod[p] EXCEPT !.task = "emit", !.batch = batch]
               y == Idle(pod[p].mark, pod[p].fresh)
    <3>1. batch \subseteq Messages
      BY PulledType
    <3>2. x \in PodAt(clock) /\ y \in PodAt(clock)
      <4>1. x \in PodAt(clock)
        BY <3>1, <1>4 DEF PodAt
      <4>2. y \in PodAt(clock)
        BY <1>4, <1>1 DEF PodAt, Idle
      <4> QED
        BY <4>1, <4>2
    <3>3. \E z \in {x, y} : pod' = [pod EXCEPT ![p] = z]
      BY <2>2 DEF Pull, Typed
    <3> QED
      BY <3>2, <3>3 DEF Typed
  <2>3. CASE Emit(p)
    <3> DEFINE next == UpdateRoomLastFlushed(pod[p].mark, pod[p].batch)
               x == Idle(next, pod[p].fresh)
    <3>1. pod[p].mark \in 0..clock /\ pod[p].batch \in SUBSET Messages
      BY <1>4 DEF PodAt
    <3>2. next \in 0..clock
      BY <3>1, MarkMoves
    <3>3. x \in PodAt(clock)
      BY <3>2, <1>4, <1>1 DEF PodAt, Idle
    <3>4. pod' = [pod EXCEPT ![p] = x]
      BY <2>3 DEF Emit, Typed
    <3> QED
      BY <3>3, <3>4 DEF Typed
  <2>4. CASE PullThrows(p) \/ PodCrash(p)
    <3>1. Idle(pod[p].mark, pod[p].fresh) \in PodAt(clock) /\ Idle(0, TRUE) \in PodAt(clock)
      BY <1>4, <1>1 DEF PodAt, Idle
    <3> QED
      BY <2>4, <3>1 DEF PullThrows, PodCrash, Typed
  <2>5. CASE DeliverRemote(p) \/ NoticeLost(p)
    BY <2>5 DEF DeliverRemote, NoticeLost, Typed
  <2> QED
    BY <2>1, <2>2, <2>3, <2>4, <2>5 DEF PodStep
<1>6. remote' \in [Pods -> Seq(Batches)]
  <2>1. CASE Emit(p)
    <3>1. [from |-> p, batch |-> pod[p].batch] \in Batches
      BY <1>4 DEF Batches, PodAt
    <3> QED
      BY <2>1, <3>1 DEF Emit, Typed
  <2>2. CASE DeliverRemote(p)
    <3>1. remote[p] \in Seq(Batches) /\ remote[p] # <<>>
      BY <2>2 DEF DeliverRemote, Typed
    <3>2. Tail(remote[p]) \in Seq(Batches)
      BY <3>1
    <3> QED
      BY <2>2, <3>2 DEF DeliverRemote, Typed
  <2>3. CASE PodCrash(p)
    BY <2>3 DEF PodCrash, Typed
  <2> QED
    BY <2>1, <2>2, <2>3 DEF PodStep, OnShardMessage, Pull, PullThrows, NoticeLost, Typed
<1>7. sock' \in [Sockets -> SockAt(clock)]
  <2>1. CASE PodCrash(p)
    <3>1. Outside \in SockAt(clock)
      BY <1>1 DEF Outside, SockAt
    <3> QED
      BY <2>1, <3>1 DEF PodCrash, Typed
  <2> QED
    BY <2>1 DEF PodStep, OnShardMessage, Pull, Emit, DeliverRemote, PullThrows, NoticeLost, Typed
<1>8. got' \in [Sockets -> [Pods -> [Messages -> Nat]]]
  <2>1. CASE Emit(p)
    BY <2>1, ReceivedType DEF Emit
  <2>2. CASE DeliverRemote(p)
    <3>1. Head(remote[p]) \in Batches
      BY <2>2 DEF DeliverRemote, Typed
    <3>2. Head(remote[p]).from \in Pods
      BY <3>1 DEF Batches
    <3> QED
      BY <2>2, <3>2, ReceivedType DEF DeliverRemote
  <2> QED
    BY <2>1, <2>2 DEF PodStep, OnShardMessage, Pull, PullThrows, NoticeLost, PodCrash, Typed
<1> QED
  BY <1>1, <1>2, <1>3, <1>5, <1>6, <1>7, <1>8 DEF Typed, Batches

\* The next-state relation by who takes the step.
LEMMA NextSteps ==
  [Next]_vars <=> \/ Tick \/ UNCHANGED vars
                  \/ \E m \in Messages : \/ HandleSendMessage(m) \/ AddMessage(m)
                                         \/ TrimAndPublish(m) \/ PersistThrows(m)
                  \/ \E s \in Sockets : ClientStep(s)
                  \/ \E p \in Pods : PodStep(p)
BY DEF Next, ClientStep, PodStep

LEMMA TypeStep == Typed /\ [Next]_vars => Typed'
<1>1. CASE UNCHANGED vars
  BY <1>1 DEF Typed, vars, Batches
<1> QED
  BY <1>1, NextSteps, TickType, ServiceType, ClientType, PodType

\* Every value has its type; a mark of roomLastFlushed is never in the future.
THEOREM ChatTypeCorrect == Spec => []TypeOK
<1>1. Init => Typed
  BY InitType
<1>2. Typed /\ [Next]_vars => Typed'
  BY TypeStep
<1> QED
  BY <1>1, <1>2, TypedIsTypeOK, PTL DEF Spec

-----------------------------------------------------------------------------
(* A pod emits a message to a client once                                  *)

\* The life of a message: it is stamped, then stored, once.
LifeInv(m) ==
  /\ m \in zset => send[m].stored > 0
  /\ send[m].stored > 0 => /\ send[m].ts > 0 /\ send[m].ts <= send[m].stored
                           /\ send[m].pc \notin {"none", "add"}
  /\ send[m].pc = "trim" => send[m].stored > 0
  /\ send[m].pc # "none" => send[m].ts > 0

SendInv == \A m \in Messages : LifeInv(m)

\* Pod p has emitted m to a client that has it, or to members on another pod.
Emitted(p, m) ==
  \/ \E s \in Sockets : got[s][p][m] > 0
  \/ \E q \in Pods : \E i \in 1..Len(remote[q]) :
       remote[q][i].from = p /\ m \in remote[q][i].batch

\* What a pod has emitted is not above its mark, nor above the mark that its pull
\* began with; what it is about to emit is above that one.
MarkAt(p) ==
  /\ pod[p].task # "emit" <=> pod[p].batch = {}
  /\ \A m \in pod[p].batch : send[m].stored > 0 /\ pod[p].since < Ts(m)
  /\ (pod[p].task # "idle" /\ pod[p].mark # 0) => pod[p].since <= pod[p].mark
  /\ \A m \in Messages : Emitted(p, m) =>
       /\ send[m].stored > 0
       /\ pod[p].mark # 0 => Ts(m) <= pod[p].mark
       /\ pod[p].task # "idle" => Ts(m) <= pod[p].since

MarkInv == \A p \in Pods : MarkAt(p)

\* What is on its way to the members on another pod has not reached them yet, and
\* is on its way once.
Carries(q, i, p, m) == i \in 1..Len(remote[q]) /\ remote[q][i].from = p /\ m \in remote[q][i].batch
WayInv ==
  \A p, q \in Pods, m \in Messages : \A i \in 1..Len(remote[q]) : Carries(q, i, p, m) =>
    /\ p # q
    /\ \A j \in 1..Len(remote[q]) : Carries(q, j, p, m) => i = j
    /\ \A s \in Sockets : PodOf[s] = q => got[s][p][m] = 0

OnceInv == Typed /\ SendInv /\ MarkInv /\ WayInv /\ OncePerPod

\* A message is stored once, at the clock; its times do not change any more.
LEMMA TimesKept ==
  ASSUME Typed, SendInv, [Next]_vars
  PROVE  /\ clock \in Nat /\ clock' \in Nat /\ clock <= clock'
         /\ \A m \in Messages :
              /\ send[m].stored > 0 => send'[m].stored = send[m].stored /\ send'[m].ts = send[m].ts
              /\ m \in zset' => \/ m \in zset
                                \/ send[m].stored = 0 /\ send'[m].stored = clock
                                   /\ clock' = clock /\ AddMessage(m)
<1>1. clock \in Nat
  BY ChatAssumption DEF Typed
<1>2. CASE Tick \/ UNCHANGED vars
  BY <1>1, <1>2 DEF Tick, vars
<1>3. ASSUME NEW s \in Sockets, ClientStep(s) PROVE clock' = clock /\ send' = send /\ zset' = zset
  BY <1>3, Zenon DEF ClientStep, HandleDisconnect, HandleJoinRoom, LoadHistory, LoadHistoryThrows,
                     HandleLeaveRoom
<1>4. ASSUME NEW p \in Pods, PodStep(p) PROVE clock' = clock /\ send' = send /\ zset' = zset
  BY <1>4, Zenon DEF PodStep, OnShardMessage, Pull, Emit, DeliverRemote, PullThrows, NoticeLost,
                     PodCrash
<1>5. ASSUME NEW n \in Messages, HandleSendMessage(n) \/ PersistThrows(n) \/ TrimAndPublish(n)
      PROVE  /\ clock' = clock /\ zset' \subseteq zset
             /\ \A m \in Messages : send[m].stored > 0 => send'[m].stored = send[m].stored
                                                          /\ send'[m].ts = send[m].ts
  <2>1. clock' = clock /\ zset' \subseteq zset
    BY <1>5 DEF HandleSendMessage, PersistThrows, TrimAndPublish, Newest
  <2>2. send[n].pc = "none" => ~(send[n].stored > 0)
    BY DEF SendInv, LifeInv
  <2>3. CASE HandleSendMessage(n)
    BY <2>1, <2>2, <2>3 DEF HandleSendMessage, Typed, SendAt
  <2>4. CASE PersistThrows(n) \/ TrimAndPublish(n)
    <3>1. \E pc \in {"done", "failed"} : send' = [send EXCEPT ![n].pc = pc]
      BY <2>4 DEF PersistThrows, TrimAndPublish
    <3> QED
      BY <2>1, <3>1 DEF Typed, SendAt
  <2> QED
    BY <1>5, <2>3, <2>4
<1>6. ASSUME NEW n \in Messages, AddMessage(n)
      PROVE  /\ clock' = clock /\ zset' = zset \cup {n}
             /\ send[n].stored = 0 /\ send'[n].stored = clock
             /\ \A m \in Messages \ {n} : send'[m] = send[m]
  <2>1. send[n] \in SendAt(clock) /\ ~(send[n].stored > 0)
    BY <1>6 DEF Typed, AddMessage, SendInv, LifeInv
  <2> QED
    BY <1>6, <2>1 DEF AddMessage, Typed, SendAt
<1>7. CASE \E m \in Messages : \/ HandleSendMessage(m) \/ AddMessage(m)
                               \/ TrimAndPublish(m) \/ PersistThrows(m)
  <2>1. PICK n \in Messages : \/ HandleSendMessage(n) \/ AddMessage(n)
                              \/ TrimAndPublish(n) \/ PersistThrows(n)
    BY <1>7
  <2>2. CASE AddMessage(n)
    BY <1>1, <1>6, <2>2
  <2>3. CASE HandleSendMessage(n) \/ PersistThrows(n) \/ TrimAndPublish(n)
    BY <1>1, <1>5, <2>3
  <2> QED
    BY <2>1, <2>2, <2>3
<1> QED
  BY <1>1, <1>2, <1>3, <1>4, <1>7, NextSteps

LEMMA SendStep == ASSUME Typed, SendInv, [Next]_vars PROVE SendInv'
<1>1. clock \in 1..clock /\ clock \in Nat
  BY ChatAssumption DEF Typed
<1>2. CASE Tick \/ UNCHANGED vars
  BY <1>2 DEF Tick, vars, SendInv, LifeInv
<1>3. CASE \E s \in Sockets : ClientStep(s)
  <2>1. send' = send /\ zset' = zset
    BY <1>3, Zenon DEF ClientStep, HandleDisconnect, HandleJoinRoom, LoadHistory, LoadHistoryThrows,
                       HandleLeaveRoom
  <2> QED
    BY <2>1 DEF SendInv, LifeInv
<1>4. CASE \E p \in Pods : PodStep(p)
  <2>1. send' = send /\ zset' = zset
    BY <1>4, Zenon DEF PodStep, OnShardMessage, Pull, Emit, DeliverRemote, PullThrows, NoticeLost,
                       PodCrash
  <2> QED
    BY <2>1 DEF SendInv, LifeInv
<1>5. ASSUME NEW n \in Messages,
             \/ HandleSendMessage(n) \/ AddMessage(n) \/ TrimAndPublish(n) \/ PersistThrows(n)
      PROVE  SendInv'
  <2>1. send[n] \in SendAt(clock) /\ LifeInv(n)
    BY DEF Typed, SendInv
  <2>2. \A m \in Messages \ {n} : send'[m] = send[m] /\ (m \in zset' => m \in zset)
    BY <1>5 DEF HandleSendMessage, AddMessage, TrimAndPublish, PersistThrows, Typed, Newest
  <2>3. LifeInv(n)'
    <3>1. CASE HandleSendMessage(n)
      <4>1. send'[n] = [send[n] EXCEPT !.pc = "add", !.ts = clock] /\ zset' = zset
        BY <3>1 DEF HandleSendMessage, Typed
      <4>2. send[n].pc = "none"
        BY <3>1 DEF HandleSendMessage
      <4> QED
        BY <4>1, <4>2, <2>1, <1>1 DEF LifeInv, SendAt
    <3>2. CASE AddMessage(n)
      <4>1. send'[n] = [send[n] EXCEPT !.pc = "trim", !.stored = clock]
        BY <3>2 DEF AddMessage, Typed
      <4>2. send[n].pc = "add"
        BY <3>2 DEF AddMessage
      <4>3. /\ send'[n].pc = "trim" /\ send'[n].stored = clock /\ send'[n].ts = send[n].ts
            /\ send[n].ts \in 0..clock
        BY <4>1, <2>1 DEF SendAt
      <4> QED
        BY <4>2, <4>3, <2>1, <1>1 DEF LifeInv
    <3>3. CASE TrimAndPublish(n) \/ PersistThrows(n)
      <4>1. \E pc \in {"done", "failed"} : send'[n] = [send[n] EXCEPT !.pc = pc]
        BY <3>3 DEF TrimAndPublish, PersistThrows, Typed
      <4>2. n \in zset' => n \in zset
        BY <3>3 DEF TrimAndPublish, PersistThrows, Newest
      <4>3. send[n].pc \in {"add", "trim"}
        BY <3>3 DEF TrimAndPublish, PersistThrows
      <4> QED
        BY <4>1, <4>2, <4>3, <2>1 DEF LifeInv, SendAt
    <3> QED
      BY <1>5, <3>1, <3>2, <3>3
  <2>4. \A m \in Messages \ {n} : LifeInv(m)'
    BY <2>2 DEF SendInv, LifeInv
  <2> QED
    BY <2>3, <2>4 DEF SendInv
<1> QED
  BY <1>2, <1>3, <1>4, <1>5, NextSteps

\* Only the emits of a pod add to what it has emitted.
EmitsKept(p) == \A m \in Messages : Emitted(p, m)' => Emitted(p, m)

LEMMA EmitsUnchanged ==
  ASSUME got' = got, remote' = remote, NEW p
  PROVE  EmitsKept(p)
BY DEF EmitsKept, Emitted

LEMMA DeliverKeepsEmits ==
  ASSUME Typed, NEW q \in Pods, DeliverRemote(q), NEW p \in Pods
  PROVE  EmitsKept(p)
<1> DEFINE head == Head(remote[q])
<1>1. /\ remote[q] \in Seq(Batches) /\ remote[q] # <<>>
      /\ remote' = [remote EXCEPT ![q] = Tail(remote[q])]
      /\ got' = Received(q, head.from, head.batch)
  BY DEF Typed, DeliverRemote
<1>2. 1 \in 1..Len(remote[q]) /\ head = remote[q][1] /\ head.from \in Pods
  <2>1. 1 \in 1..Len(remote[q]) /\ head = remote[q][1] /\ head \in Batches
    BY <1>1, TailFacts
  <2> QED
    BY <2>1 DEF Batches
<1> SUFFICES ASSUME NEW m \in Messages, Emitted(p, m)' PROVE Emitted(p, m)
  BY DEF EmitsKept
<1>3. ASSUME NEW s \in Sockets, got'[s][p][m] > 0 PROVE Emitted(p, m)
  <2>1. CASE got[s][p][m] > 0
    BY <2>1 DEF Emitted
  <2>2. CASE ~(got[s][p][m] > 0)
    <3>1. p = head.from /\ m \in head.batch
      BY <1>1, <1>2, <1>3, <2>2, ReceivedType
    <3> QED
      BY <3>1, <1>2 DEF Emitted
  <2> QED
    BY <2>1, <2>2
<1>4. ASSUME NEW r \in Pods, NEW i \in 1..Len(remote'[r]),
             remote'[r][i].from = p, m \in remote'[r][i].batch
      PROVE  Emitted(p, m)
  <2>1. CASE r = q
    <3>1. remote'[q] = Tail(remote[q])
      BY <1>1 DEF Typed
    <3>2. i + 1 \in 1..Len(remote[q]) /\ remote'[q][i] = remote[q][i + 1]
      BY <1>1, <1>4, <2>1, <3>1, TailFacts
    <3> QED
      BY <1>4, <2>1, <3>2 DEF Emitted
  <2>2. CASE r # q
    BY <1>1, <1>4, <2>2 DEF Emitted, Typed
  <2> QED
    BY <2>1, <2>2
<1> QED
  BY <1>3, <1>4 DEF Emitted

LEMMA CrashKeepsEmits ==
  ASSUME Typed, NEW q \in Pods, PodCrash(q), NEW p \in Pods
  PROVE  EmitsKept(p)
<1>1. got' = got /\ remote' = [remote EXCEPT ![q] = <<>>]
  BY DEF PodCrash
<1>2. \A r \in Pods : remote'[r] = remote[r] \/ remote'[r] = <<>>
  BY <1>1 DEF Typed
<1> QED
  BY <1>1, <1>2 DEF EmitsKept, Emitted

LEMMA EmitAdds ==
  ASSUME Typed, NEW q \in Pods, Emit(q), NEW p \in Pods
  PROVE  \A m \in Messages : Emitted(p, m)' => Emitted(p, m) \/ (p = q /\ m \in pod[q].batch)
<1> DEFINE sent == [from |-> q, batch |-> pod[q].batch]
<1>1. /\ got' = Received(q, q, pod[q].batch)
      /\ \A r \in Pods : /\ remote[r] \in Seq(Batches)
                         /\ remote'[r] = IF r = q THEN remote[r] ELSE Append(remote[r], sent)
  BY DEF Emit, Typed
<1>2. sent \in Batches
  BY DEF Typed, PodAt, Batches
<1> SUFFICES ASSUME NEW m \in Messages, Emitted(p, m)', ~(p = q /\ m \in pod[q].batch)
             PROVE  Emitted(p, m)
  OBVIOUS
<1>3. ASSUME NEW s \in Sockets, got'[s][p][m] > 0 PROVE Emitted(p, m)
  <2>1. Received(q, q, pod[q].batch)[s][p][m] = got[s][p][m]
    BY ReceivedType
  <2> QED
    BY <1>1, <1>3, <2>1 DEF Emitted
<1>4. ASSUME NEW r \in Pods, NEW i \in 1..Len(remote'[r]),
             remote'[r][i].from = p, m \in remote'[r][i].batch
      PROVE  Emitted(p, m)
  <2>1. i \in 1..Len(remote[r]) /\ remote'[r][i] = remote[r][i]
    <3>1. CASE r = q
      BY <1>1, <1>4, <3>1
    <3>2. CASE r # q
      <4>1. remote[r] \in Seq(Batches) /\ remote'[r] = Append(remote[r], sent)
        BY <1>1, <3>2
      <4>2. \/ i \in 1..Len(remote[r]) /\ remote'[r][i] = remote[r][i]
            \/ remote'[r][i] = sent
        BY <4>1, <1>2, <1>4, AppendFacts
      <4> QED
        BY <1>4, <4>2
    <3> QED
      BY <3>1, <3>2
  <2> QED
    BY <1>4, <2>1 DEF Emitted
<1> QED
  BY <1>3, <1>4 DEF Emitted

\* Steps that leave the task of a pod alone keep its mark, delete it, or set it to
\* the clock if it is absent.
LEMMA MarkKept ==
  ASSUME Typed, SendInv, [Next]_vars, NEW p \in Pods, MarkAt(p), EmitsKept(p),
         /\ pod'[p].task = pod[p].task /\ pod'[p].since = pod[p].since
         /\ pod'[p].batch = pod[p].batch,
         \/ pod'[p].mark \in {0, pod[p].mark}
         \/ pod[p].mark = 0 /\ pod'[p].mark = clock
  PROVE  MarkAt(p)'
<1>1. clock \in Nat /\ pod[p] \in PodAt(clock) /\ pod[p].batch \subseteq Messages
  BY TimesKept DEF Typed, PodAt
<1>2. \A m \in Messages : send[m] \in SendAt(clock)
  BY DEF Typed
<1>3. \A m \in Messages : send[m].stored > 0 => send'[m].stored > 0 /\ Ts(m)' = Ts(m)
  BY TimesKept DEF Ts
<1>4. \A m \in pod'[p].batch : (send[m].stored > 0)' /\ (pod[p].since < Ts(m))'
  BY <1>1, <1>3 DEF MarkAt
<1>5. \A m \in Messages : Ts(m) \in 0..clock
  BY <1>2 DEF SendAt, Ts
<1>6. (pod'[p].task # "idle" /\ pod'[p].mark # 0) => pod'[p].since <= pod'[p].mark
  BY <1>1 DEF MarkAt, PodAt
<1>7. \A m \in Messages : Emitted(p, m)' =>
        /\ send'[m].stored > 0
        /\ pod'[p].mark # 0 => Ts(m)' <= pod'[p].mark
        /\ pod'[p].task # "idle" => Ts(m)' <= pod'[p].since
  BY <1>1, <1>3, <1>5 DEF MarkAt, EmitsKept, PodAt
<1> QED
  BY <1>1, <1>4, <1>6, <1>7 DEF MarkAt

LEMMA ClientMark ==
  ASSUME Typed, SendInv, MarkInv, NEW s \in Sockets, ClientStep(s)
  PROVE  MarkInv'
<1>1. [Next]_vars
  BY NextSteps
<1>2. got' = got /\ remote' = remote
  BY Zenon DEF ClientStep, HandleDisconnect, HandleJoinRoom, LoadHistory, LoadHistoryThrows,
               HandleLeaveRoom
<1> SUFFICES ASSUME NEW p \in Pods PROVE MarkAt(p)'
  BY DEF MarkInv
<1>3. PodOf[s] \in Pods /\ pod[p] \in PodAt(clock)
  BY PodOfAssumption DEF Typed
<1>4. CASE HandleJoinRoom(s)
  <2>1. /\ pod'[p].task = pod[p].task /\ pod'[p].since = pod[p].since
        /\ pod'[p].batch = pod[p].batch
        /\ pod'[p].mark = pod[p].mark \/ pod'[p].mark = InitRoomLastFlushed(pod[p].mark)
    BY <1>3, <1>4 DEF HandleJoinRoom, Typed, PodAt
  <2> QED
    BY <1>1, <1>2, <2>1, EmitsUnchanged, MarkKept DEF MarkInv, InitRoomLastFlushed
<1>5. CASE HandleLeaveRoom(s)
  <2>1. /\ pod'[p].task = pod[p].task /\ pod'[p].since = pod[p].since
        /\ pod'[p].batch = pod[p].batch
        /\ pod'[p].mark = pod[p].mark \/ (p = PodOf[s] /\ pod'[p].mark = CleanupRoom(p, s))
    BY <1>3, <1>5 DEF HandleLeaveRoom, Typed, PodAt
  <2> QED
    BY <1>1, <1>2, <2>1, EmitsUnchanged, MarkKept DEF MarkInv, CleanupRoom
<1>6. CASE HandleDisconnect(s) \/ LoadHistory(s) \/ LoadHistoryThrows(s)
  <2>1. pod' = pod
    BY <1>6 DEF HandleDisconnect, LoadHistory, LoadHistoryThrows
  <2> QED
    BY <1>1, <1>2, <2>1, EmitsUnchanged, MarkKept DEF MarkInv
<1> QED
  BY <1>4, <1>5, <1>6 DEF ClientStep

\* The task of a pod that no step of the pod changes.
LEMMA QuietMark ==
  ASSUME Typed, SendInv, MarkInv, [Next]_vars, got' = got, remote' = remote, pod' = pod
  PROVE  MarkInv'
BY EmitsUnchanged, MarkKept DEF MarkInv

LEMMA PodMark ==
  ASSUME Typed, SendInv, MarkInv, NEW q \in Pods, PodStep(q)
  PROVE  MarkInv'
<1>1. [Next]_vars
  BY NextSteps
<1>2. clock' = clock /\ clock \in Nat /\ send' = send /\ zset' = zset
  BY PodType, TimesKept, <1>1, Zenon
     DEF PodStep, OnShardMessage, Pull, Emit, DeliverRemote, PullThrows, NoticeLost, PodCrash
<1>3. pod[q] \in PodAt(clock) /\ \A m \in Messages : Ts(m) \in 0..clock
  BY DEF Typed, SendAt, Ts
<1>4. CASE NoticeLost(q)
  BY <1>1, <1>4, QuietMark DEF NoticeLost
<1>5. CASE DeliverRemote(q)
  BY <1>1, <1>5, DeliverKeepsEmits, MarkKept DEF DeliverRemote, MarkInv
<1> SUFFICES ASSUME NEW p \in Pods, OnShardMessage(q) \/ Pull(q) \/ Emit(q) \/ PullThrows(q) \/ PodCrash(q)
             PROVE  MarkAt(p)'
  BY <1>4, <1>5 DEF PodStep, MarkInv
<1>6. CASE p # q
  <2>1. EmitsKept(p)
    <3>1. CASE Emit(q)
      BY <3>1, <1>6, EmitAdds DEF EmitsKept
    <3>2. CASE PodCrash(q)
      BY <3>2, CrashKeepsEmits
    <3>3. CASE OnShardMessage(q) \/ Pull(q) \/ PullThrows(q)
      BY <3>3, EmitsUnchanged DEF OnShardMessage, Pull, PullThrows
    <3> QED
      BY <3>1, <3>2, <3>3
  <2>2. pod'[p] = pod[p]
    BY <1>6 DEF OnShardMessage, Pull, Emit, PullThrows, PodCrash, Typed
  <2> QED
    BY <1>1, <2>1, <2>2, MarkKept DEF MarkInv
<1>7. CASE p = q /\ OnShardMessage(q)
  <2>1. got' = got /\ remote' = remote
    BY <1>7 DEF OnShardMessage
  <2>2. CASE RoomOf(p) = {} \/ pod[p].mark = 0
    <3>1. /\ pod'[p].task = pod[p].task /\ pod'[p].since = pod[p].since
          /\ pod'[p].batch = pod[p].batch
          /\ \/ pod'[p].mark = pod[p].mark
             \/ pod[p].mark = 0 /\ pod'[p].mark = InitRoomLastFlushed(pod[p].mark)
      BY <1>7, <1>3, <2>2 DEF OnShardMessage, Typed, PodAt
    <3> QED
      BY <1>1, <2>1, <3>1, EmitsUnchanged, MarkKept DEF MarkInv, InitRoomLastFlushed
  <2>3. CASE ~(RoomOf(p) = {} \/ pod[p].mark = 0)
    <3>1. /\ pod'[p].task = "pull" /\ pod'[p].since = pod[p].mark /\ pod'[p].mark = pod[p].mark
          /\ pod'[p].batch = pod[p].batch /\ pod[p].task = "idle"
      BY <1>7, <1>3, <2>3 DEF OnShardMessage, Typed, PodAt
    <3>2. MarkAt(p) /\ EmitsKept(p)
      BY <2>1, EmitsUnchanged DEF MarkInv
    <3>3. pod'[p].batch = {} /\ pod[p].mark \in Nat
      BY <3>1, <3>2, <1>3, <1>7 DEF MarkAt, PodAt
    <3> QED
      BY <1>2, <1>3, <2>3, <3>1, <3>2, <3>3 DEF MarkAt, EmitsKept, Ts
  <2> QED
    BY <2>2, <2>3
<1>8. CASE p = q /\ (PullThrows(q) \/ PodCrash(q))
  <2>1. EmitsKept(p)
    BY <1>8, EmitsUnchanged, CrashKeepsEmits DEF PullThrows
  <2>2. \E mark \in {0, pod[p].mark}, fresh \in BOOLEAN : pod'[p] = Idle(mark, fresh)
    BY <1>8, <1>3 DEF PullThrows, PodCrash, Typed, PodAt
  <2>3. /\ pod'[p].task = "idle" /\ pod'[p].batch = {} /\ pod'[p].mark \in {0, pod[p].mark}
    BY <2>2 DEF Idle
  <2> QED
    BY <1>2, <2>1, <2>3 DEF MarkInv, MarkAt, EmitsKept, Ts
<1>9. CASE p = q /\ Pull(q)
  <2> DEFINE batch == GetMessagesSince(pod[p].since)
  <2>1. EmitsKept(p)
    BY <1>9, EmitsUnchanged DEF Pull
  <2>2. pod[p].task = "pull" /\ MarkAt(p)
    BY <1>9 DEF Pull, MarkInv
  <2>3. CASE batch = {}
    <3>1. pod'[p] = Idle(pod[p].mark, pod[p].fresh)
      BY <1>9, <2>3 DEF Pull, Typed
    <3>2. pod'[p].task = "idle" /\ pod'[p].batch = {} /\ pod'[p].mark = pod[p].mark
      BY <3>1 DEF Idle
    <3> QED
      BY <1>2, <2>1, <2>2, <3>2 DEF MarkAt, EmitsKept, Ts
  <2>4. CASE batch # {}
    <3>1. /\ pod'[p].task = "emit" /\ pod'[p].batch = batch /\ pod'[p].mark = pod[p].mark
          /\ pod'[p].since = pod[p].since
      BY <1>9, <2>4, <1>3 DEF Pull, Typed, PodAt
    <3>2. \A m \in batch : m \in zset /\ pod[p].since < Ts(m)
      BY DEF GetMessagesSince, Oldest
    <3>3. \A m \in batch : send[m].stored > 0
      BY <3>2 DEF Typed, SendInv, LifeInv
    <3> QED
      BY <1>2, <2>1, <2>2, <2>4, <3>1, <3>2, <3>3 DEF MarkAt, EmitsKept, Ts
  <2> QED
    BY <2>3, <2>4
<1>10. CASE p = q /\ Emit(q)
  <2> DEFINE batch == pod[p].batch
             next == UpdateRoomLastFlushed(pod[p].mark, batch)
  <2>1. /\ pod[p].task = "emit" /\ MarkAt(p) /\ pod[p].mark \in 0..clock
        /\ pod[p].since \in 0..clock /\ batch \in SUBSET Messages
    BY <1>10, <1>3 DEF Emit, MarkInv, PodAt
  <2>2. pod'[p] = Idle(next, pod[p].fresh)
    BY <1>10 DEF Emit, Typed
  <2>3. pod'[p].task = "idle" /\ pod'[p].batch = {} /\ pod'[p].mark = next
    BY <2>2 DEF Idle
  <2>4. next \in 0..clock /\ pod[p].mark <= next /\ \A b \in batch : Ts(b) <= next
    BY <2>1, MarkMoves
  <2>5. ASSUME NEW m \in Messages, Emitted(p, m)'
        PROVE  send[m].stored > 0 /\ Ts(m) <= next
    <3>1. CASE m \in batch
      BY <3>1, <2>1, <2>4 DEF MarkAt
    <3>2. CASE m \notin batch
      <4>1. Emitted(p, m)
        BY <1>10, <2>5, <3>2, EmitAdds
      <4>2. send[m].stored > 0 /\ Ts(m) <= pod[p].since
        BY <2>1, <4>1 DEF MarkAt
      <4>3. PICK b \in batch : TRUE
        BY <2>1 DEF MarkAt
      <4>4. pod[p].since < Ts(b) /\ Ts(b) <= next
        BY <2>1, <2>4 DEF MarkAt
      <4> QED
        BY <4>2, <4>4, <2>1, <2>4, <1>3, <1>2
    <3> QED
      BY <3>1, <3>2
  <2> QED
    BY <1>2, <2>3, <2>5 DEF MarkAt, Ts
<1> QED
  BY <1>6, <1>7, <1>8, <1>9, <1>10

LEMMA ServiceMark ==
  ASSUME Typed, SendInv, MarkInv, NEW m \in Messages,
         HandleSendMessage(m) \/ AddMessage(m) \/ TrimAndPublish(m) \/ PersistThrows(m)
  PROVE  MarkInv'
<1>1. got' = got /\ remote' = remote /\ pod' = pod
  BY DEF HandleSendMessage, AddMessage, TrimAndPublish, PersistThrows
<1> QED
  BY <1>1, NextSteps, QuietMark

LEMMA MarkStep == ASSUME Typed, SendInv, MarkInv, [Next]_vars PROVE MarkInv'
<1>1. CASE Tick \/ UNCHANGED vars
  BY <1>1, QuietMark DEF Tick, vars
<1> QED
  BY <1>1, ServiceMark, ClientMark, PodMark, NextSteps

\* What is on its way, and what has arrived.
WayAt(q, p, m) ==
  \A i \in 1..Len(remote[q]) : Carries(q, i, p, m) =>
    /\ p # q
    /\ \A j \in 1..Len(remote[q]) : Carries(q, j, p, m) => i = j
    /\ \A s \in Sockets : PodOf[s] = q => got[s][p][m] = 0

LEMMA WayIsWayAt == WayInv <=> \A p, q \in Pods, m \in Messages : WayAt(q, p, m)
BY DEF WayInv, WayAt

LEMMA WayAtUnchanged ==
  ASSUME NEW q, NEW p, NEW m, WayAt(q, p, m), remote'[q] = remote[q] \/ remote'[q] = <<>>,
         \A s \in Sockets : PodOf[s] = q => got'[s][p][m] = got[s][p][m]
  PROVE  WayAt(q, p, m)'
<1>1. CASE remote'[q] = remote[q]
  BY <1>1 DEF WayAt, Carries
<1>2. CASE remote'[q] = <<>>
  <2>1. 1..Len(remote'[q]) = {}
    BY <1>2
  <2> QED
    BY <2>1 DEF WayAt
<1> QED
  BY <1>1, <1>2

\* A batch that is emitted has not been emitted before.
LEMMA BatchIsNew ==
  ASSUME Typed, MarkInv, NEW p \in Pods, NEW m \in pod[p].batch
  PROVE  ~Emitted(p, m)
<1>1. MarkAt(p) /\ m \in Messages /\ pod[p] \in PodAt(clock) /\ clock \in Nat
  BY ChatAssumption DEF MarkInv, Typed, PodAt
<1>2. pod[p].task # "idle" /\ pod[p].since < Ts(m) /\ Ts(m) \in 0..clock /\ pod[p].since \in 0..clock
  BY <1>1 DEF MarkAt, PodAt, Typed, SendAt, Ts
<1> QED
  BY <1>1, <1>2 DEF MarkAt

LEMMA EmitOnce ==
  ASSUME Typed, MarkInv, WayInv, OncePerPod, NEW q \in Pods, Emit(q)
  PROVE  WayInv' /\ OncePerPod'
<1> DEFINE batch == pod[q].batch
           sent == [from |-> q, batch |-> batch]
<1>1. /\ got' = Received(q, q, batch)
      /\ \A r \in Pods : /\ remote[r] \in Seq(Batches)
                         /\ remote'[r] = IF r = q THEN remote[r] ELSE Append(remote[r], sent)
  BY DEF Emit, Typed
<1>2. sent \in Batches /\ sent.from = q /\ sent.batch = batch
  BY DEF Typed, PodAt, Batches
<1>3. \A m \in batch : ~Emitted(q, m)
  BY BatchIsNew
<1>4. \A s \in Sockets, p \in Pods, m \in Messages : got[s][p][m] \in Nat
  BY DEF Typed
<1>5. ASSUME NEW s \in Sockets, NEW p \in Pods, NEW m \in Messages PROVE got'[s][p][m] <= 1
  <2>1. got[s][p][m] <= 1
    BY DEF OncePerPod
  <2>2. CASE s \in RoomOf(q) /\ p = q /\ m \in batch
    <3>1. got[s][p][m] = 0
      BY <1>3, <1>4, <2>2 DEF Emitted
    <3>2. got'[s][p][m] = got[s][p][m] + 1
      BY <1>1, <2>2, ReceivedType
    <3> QED
      BY <3>1, <3>2
  <2>3. CASE ~(s \in RoomOf(q) /\ p = q /\ m \in batch)
    <3>1. got'[s][p][m] = got[s][p][m]
      BY <1>1, <2>3, ReceivedType
    <3> QED
      BY <2>1, <3>1
  <2> QED
    BY <2>2, <2>3
<1>6. ASSUME NEW p \in Pods, NEW r \in Pods, NEW m \in Messages PROVE WayAt(r, p, m)'
  <2>1. WayAt(r, p, m)
    BY WayIsWayAt
  <2>2. CASE r = q
    <3>1. remote'[r] = remote[r]
      BY <1>1, <2>2
    <3>2. CASE p = q
      <4>1. \A i \in 1..Len(remote'[r]) : ~Carries(r, i, p, m)'
        BY <2>1, <2>2, <3>1, <3>2 DEF WayAt, Carries
      <4> QED
        BY <4>1 DEF WayAt
    <3>3. CASE p # q
      <4>1. \A s \in Sockets : got'[s][p][m] = got[s][p][m]
        BY <1>1, <3>3, ReceivedType
      <4> QED
        BY <2>1, <3>1, <4>1, WayAtUnchanged
    <3> QED
      BY <3>2, <3>3
  <2>3. CASE r # q
    <3>1. \A s \in Sockets : PodOf[s] = r => got'[s][p][m] = got[s][p][m]
      <4>1. \A s \in Sockets : PodOf[s] = r => s \notin RoomOf(q)
        BY <2>3 DEF RoomOf
      <4> QED
        BY <1>1, <4>1, ReceivedType
    <3>2. /\ \A i \in 1..Len(remote[r]) : remote'[r][i] = remote[r][i]
          /\ remote'[r][Len(remote[r]) + 1] = sent
          /\ \A i \in 1..Len(remote'[r]) : i \in 1..Len(remote[r]) \/ i = Len(remote[r]) + 1
      <4>1. remote[r] \in Seq(Batches) /\ remote'[r] = Append(remote[r], sent)
        BY <1>1, <2>3
      <4> QED
        BY <1>2, <4>1, AppendFacts
    <3>3. CASE p = q /\ m \in batch
      <4>1. /\ \A i \in 1..Len(remote[r]) : ~Carries(r, i, p, m)
            /\ \A s \in Sockets : ~(got[s][p][m] > 0)
        BY <1>3, <3>3 DEF Emitted, Carries
      <4>2. \A i \in 1..Len(remote'[r]) : Carries(r, i, p, m)' => i = Len(remote[r]) + 1
        BY <3>2, <4>1 DEF Carries
      <4>3. \A s \in Sockets : PodOf[s] = r => got'[s][p][m] = 0
        BY <1>4, <3>1, <4>1
      <4> QED
        BY <2>3, <3>3, <4>2, <4>3 DEF WayAt
    <3>4. CASE ~(p = q /\ m \in batch)
      <4>1. \A i \in 1..Len(remote'[r]) :
              Carries(r, i, p, m)' => i \in 1..Len(remote[r]) /\ Carries(r, i, p, m)
        BY <1>2, <3>2, <3>4 DEF Carries
      <4> QED
        BY <2>1, <3>1, <4>1 DEF WayAt
    <3> QED
      BY <3>3, <3>4
  <2> QED
    BY <2>2, <2>3
<1>7. WayInv'
  BY <1>6 DEF WayInv, WayAt
<1> QED
  BY <1>5, <1>7 DEF OncePerPod

LEMMA DeliverOnce ==
  ASSUME Typed, WayInv, OncePerPod, NEW q \in Pods, DeliverRemote(q)
  PROVE  WayInv' /\ OncePerPod'
<1> DEFINE head == Head(remote[q])
<1>1. /\ remote[q] \in Seq(Batches) /\ remote[q] # <<>>
      /\ \A r \in Pods : remote'[r] = IF r = q THEN Tail(remote[q]) ELSE remote[r]
      /\ got' = Received(q, head.from, head.batch)
  BY DEF Typed, DeliverRemote
<1>2. 1 \in 1..Len(remote[q]) /\ head = remote[q][1] /\ head.from \in Pods
  <2>1. 1 \in 1..Len(remote[q]) /\ head = remote[q][1] /\ head \in Batches
    BY <1>1, TailFacts
  <2> QED
    BY <2>1 DEF Batches
<1>3. \A s \in Sockets, p \in Pods, m \in Messages :
        \/ got'[s][p][m] = got[s][p][m]
        \/ PodOf[s] = q /\ Carries(q, 1, p, m) /\ got'[s][p][m] = got[s][p][m] + 1
  BY <1>1, <1>2, ReceivedType DEF Carries, RoomOf
<1>4. ASSUME NEW s \in Sockets, NEW p \in Pods, NEW m \in Messages PROVE got'[s][p][m] <= 1
  <2>1. got[s][p][m] <= 1 /\ WayAt(q, p, m)
    BY WayIsWayAt DEF OncePerPod
  <2>2. CASE PodOf[s] = q /\ Carries(q, 1, p, m) /\ got'[s][p][m] = got[s][p][m] + 1
    <3>1. got[s][p][m] = 0
      BY <1>2, <2>1, <2>2 DEF WayAt
    <3> QED
      BY <2>2, <3>1
  <2> QED
    BY <1>3, <2>1, <2>2
<1>5. ASSUME NEW p \in Pods, NEW r \in Pods, NEW m \in Messages PROVE WayAt(r, p, m)'
  <2>1. WayAt(r, p, m)
    BY WayIsWayAt
  <2>2. CASE r # q
    <3>1. remote'[r] = remote[r] /\ \A s \in Sockets : PodOf[s] = r => got'[s][p][m] = got[s][p][m]
      BY <1>1, <1>3, <2>2
    <3> QED
      BY <2>1, <3>1, WayAtUnchanged
  <2>3. CASE r = q
    <3>1. \A i \in 1..Len(remote'[q]) : i + 1 \in 1..Len(remote[q]) /\ remote'[q][i] = remote[q][i + 1]
      <4>1. remote'[q] = Tail(remote[q])
        BY <1>1
      <4> QED
        BY <1>1, <4>1, TailFacts
    <3>2. \A i \in 1..Len(remote'[q]) : Carries(q, i, p, m)' => Carries(q, i + 1, p, m)
      BY <3>1 DEF Carries
    <3>3. ASSUME NEW i \in 1..Len(remote'[q]), Carries(q, i, p, m)'
          PROVE  ~Carries(q, 1, p, m)
      <4>1. i + 1 \in 1..Len(remote[q]) /\ Carries(q, i + 1, p, m) /\ i \in Nat /\ i # 0
        BY <3>1, <3>2, <3>3
      <4>2. Carries(q, 1, p, m) => i + 1 = 1
        BY <2>1, <2>3, <4>1, <1>2 DEF WayAt
      <4> QED
        BY <4>1, <4>2
    <3>4. ASSUME NEW i \in 1..Len(remote'[q]), Carries(q, i, p, m)'
          PROVE  /\ p # q
                 /\ \A j \in 1..Len(remote'[q]) : Carries(q, j, p, m)' => i = j
                 /\ \A s \in Sockets : PodOf[s] = q => got'[s][p][m] = 0
      <4>1. i + 1 \in 1..Len(remote[q]) /\ Carries(q, i + 1, p, m) /\ ~Carries(q, 1, p, m)
        BY <3>1, <3>2, <3>3, <3>4
      <4>2. /\ p # q
            /\ \A s \in Sockets : PodOf[s] = q => got[s][p][m] = 0
        BY <2>1, <2>3, <4>1 DEF WayAt
      <4>3. ASSUME NEW j \in 1..Len(remote'[q]), Carries(q, j, p, m)' PROVE i = j
        <5>1. j + 1 \in 1..Len(remote[q]) /\ Carries(q, j + 1, p, m)
          BY <3>1, <3>2, <4>3
        <5>2. i + 1 = j + 1
          BY <2>1, <2>3, <4>1, <5>1 DEF WayAt
        <5> QED
          BY <5>2
      <4>4. \A s \in Sockets : PodOf[s] = q => got'[s][p][m] = got[s][p][m]
        BY <1>3, <4>1
      <4> QED
        BY <4>2, <4>3, <4>4
    <3> QED
      BY <2>3, <3>4 DEF WayAt
  <2> QED
    BY <2>2, <2>3
<1>6. WayInv'
  BY <1>5 DEF WayInv, WayAt
<1> QED
  BY <1>4, <1>6 DEF OncePerPod

LEMMA OnceStep == OnceInv /\ [Next]_vars => OnceInv'
<1> SUFFICES ASSUME OnceInv, [Next]_vars PROVE OnceInv'
  OBVIOUS
<1>1. Typed' /\ SendInv' /\ MarkInv'
  BY TypeStep, SendStep, MarkStep DEF OnceInv
<1>2. CASE got' = got /\ \A q \in Pods : remote'[q] = remote[q] \/ remote'[q] = <<>>
  <2>1. \A p, q \in Pods, m \in Messages : WayAt(q, p, m)'
    BY <1>2, WayIsWayAt, WayAtUnchanged DEF OnceInv
  <2> QED
    BY <1>1, <1>2, <2>1 DEF OnceInv, OncePerPod, WayInv, WayAt
<1>3. CASE Tick \/ UNCHANGED vars
  BY <1>2, <1>3 DEF Tick, vars
<1>4. CASE \E m \in Messages : \/ HandleSendMessage(m) \/ AddMessage(m)
                               \/ TrimAndPublish(m) \/ PersistThrows(m)
  BY <1>2, <1>4 DEF HandleSendMessage, AddMessage, TrimAndPublish, PersistThrows
<1>5. CASE \E s \in Sockets : ClientStep(s)
  BY <1>2, <1>5, Zenon DEF ClientStep, HandleDisconnect, HandleJoinRoom, LoadHistory,
                           LoadHistoryThrows, HandleLeaveRoom
<1>6. ASSUME NEW q \in Pods, PodStep(q) PROVE OnceInv'
  <2>1. CASE Emit(q)
    BY <1>1, <2>1, EmitOnce DEF OnceInv
  <2>2. CASE DeliverRemote(q)
    BY <1>1, <2>2, DeliverOnce DEF OnceInv
  <2>3. CASE PodCrash(q)
    <3>1. got' = got /\ remote' = [remote EXCEPT ![q] = <<>>]
      BY <2>3 DEF PodCrash
    <3> QED
      BY <1>2, <3>1 DEF OnceInv, Typed
  <2>4. CASE OnShardMessage(q) \/ Pull(q) \/ PullThrows(q) \/ NoticeLost(q)
    BY <1>2, <2>4 DEF OnShardMessage, Pull, PullThrows, NoticeLost
  <2> QED
    BY <1>6, <2>1, <2>2, <2>3, <2>4 DEF PodStep
<1> QED
  BY <1>3, <1>4, <1>5, <1>6, NextSteps

LEMMA InitOnce == Init => OnceInv
<1> SUFFICES ASSUME Init PROVE OnceInv
  OBVIOUS
<1>1. Typed
  BY InitType
<1>2. \A m \in Messages : send[m] = [pc |-> "none", ts |-> 0, stored |-> 0]
  BY DEF Init
<1>3. SendInv
  BY <1>2 DEF SendInv, LifeInv, Init
<1>4. \A p \in Pods : pod[p] = Idle(0, TRUE) /\ remote[p] = <<>>
  BY DEF Init
<1>5. \A s \in Sockets, p \in Pods, m \in Messages : got[s][p][m] = 0
  BY DEF Init
<1>6. ASSUME NEW q \in Pods PROVE 1..Len(remote[q]) = {}
  <2>1. remote[q] = <<>>
    BY <1>4
  <2> QED
    BY <2>1
<1>7. \A p \in Pods, m \in Messages : ~Emitted(p, m)
  BY <1>5, <1>6 DEF Emitted
<1>8. MarkInv
  BY <1>4, <1>7 DEF MarkInv, MarkAt, Idle
<1>9. WayInv /\ OncePerPod
  BY <1>5, <1>6 DEF WayInv, OncePerPod
<1> QED
  BY <1>1, <1>3, <1>8, <1>9 DEF OnceInv

LEMMA OnceInvariance == Spec => []OnceInv
<1>1. Init => OnceInv
  BY InitOnce
<1>2. OnceInv /\ [Next]_vars => OnceInv'
  BY OnceStep
<1> QED
  BY <1>1, <1>2, PTL DEF Spec

\* However notifications pile up, marks are deleted by leave_room and set again by
\* joins, pods crash and pulls race with all of these: ChatGateway of one pod
\* emits no message to a client twice, for any number of pods and clients.
THEOREM EmittedOnce == Spec => []OncePerPod
<1>1. OnceInv => OncePerPod
  BY DEF OnceInv
<1> QED
  BY <1>1, OnceInvariance, PTL

-----------------------------------------------------------------------------
(* No message is left out                                                  *)

RoomInv == \A s \in Sockets : InRoom(s) => pod[PodOf[s]].mark # 0

\* A batch leaves out what came into the room after it was pulled, and what is
\* newer than all of it.
BatchAt(p) ==
  \A b \in pod[p].batch, m \in zset \ pod[p].batch :
    (pod[p].since < Ts(m) /\ Ts(m) < Ts(b)) => send[b].stored <= send[m].stored

BatchInv == \A p \in Pods : BatchAt(p)

\* A mark that has passed the join of a member is the timestamp of a message, and
\* what the mark has passed has been emitted.
PassedAt(s, mark) ==
  /\ mark > sock[s].joined => \E b \in Messages : send[b].stored > 0 /\ Ts(b) = mark
  /\ \A m \in zset : (sock[s].joined < Ts(m) /\ Ts(m) <= mark /\ ~Overtaken(m)) =>
       got[s][PodOf[s]][m] > 0

PassedInv == \A s \in Sockets : InRoom(s) => PassedAt(s, pod[PodOf[s]].mark)

\* What the history of a member left out has HistoryLimit newer ones.
Newer(m) == {n \in zset : Precedes(m, n)}
HistoryAt(s) ==
  \A m \in zset : (sock[s].loaded /\ send[m].stored < sock[s].joined) =>
    m \in sock[s].past \/ HistoryLimit <= Cardinality(Newer(m))

HistoryInv == \A s \in Sockets : InRoom(s) => HistoryAt(s)

GapInv == OnceInv /\ RoomInv /\ BatchInv /\ PassedInv /\ HistoryInv

\* A message does not leave the order of the room, nor is it undone that it was
\* overtaken.
LEMMA OrderKept ==
  ASSUME Typed, SendInv, [Next]_vars, NEW m \in Messages, send[m].stored > 0
  PROVE  /\ \A n \in Messages : send[n].stored > 0 => (Precedes(m, n)' <=> Precedes(m, n))
         /\ Overtaken(m) => Overtaken(m)'
<1>1. \A n \in Messages : send[n].stored > 0 => send'[n].stored = send[n].stored /\ Ts(n)' = Ts(n)
  BY TimesKept DEF Ts
<1> QED
  BY <1>1 DEF Precedes, Overtaken

LEMMA GotGrows ==
  ASSUME Typed, [Next]_vars
  PROVE  \A s \in Sockets, q \in Pods, m \in Messages : got[s][q][m] > 0 => got'[s][q][m] > 0
<1>1. \A s \in Sockets, q \in Pods, m \in Messages : got[s][q][m] \in Nat
  BY DEF Typed
<1>2. CASE got' = got
  BY <1>2
<1>3. ASSUME NEW p \in Pods, Emit(p) \/ DeliverRemote(p)
      PROVE  \E q \in Pods, batch \in SUBSET Messages : got' = Received(p, q, batch)
  <2>1. CASE Emit(p)
    BY <2>1 DEF Emit, Typed, PodAt
  <2>2. CASE DeliverRemote(p)
    <3>1. Head(remote[p]) \in Batches
      BY <2>2, TailFacts DEF DeliverRemote, Typed
    <3> QED
      BY <2>2, <3>1 DEF DeliverRemote, Batches
  <2> QED
    BY <1>3, <2>1, <2>2
<1>4. CASE \E p \in Pods : Emit(p) \/ DeliverRemote(p)
  <2>1. PICK p \in Pods, q \in Pods, batch \in SUBSET Messages : got' = Received(p, q, batch)
    BY <1>3, <1>4
  <2>2. \A s \in Sockets, r \in Pods, m \in Messages :
          got'[s][r][m] = got[s][r][m] \/ got'[s][r][m] = got[s][r][m] + 1
    BY <2>1, ReceivedType
  <2> QED
    BY <1>1, <2>2
<1>5. ASSUME NEW s \in Sockets, ClientStep(s) PROVE got' = got
  BY <1>5, Zenon DEF ClientStep, HandleDisconnect, HandleJoinRoom, LoadHistory, LoadHistoryThrows,
                     HandleLeaveRoom
<1>6. ASSUME NEW m \in Messages,
             HandleSendMessage(m) \/ AddMessage(m) \/ TrimAndPublish(m) \/ PersistThrows(m)
      PROVE  got' = got
  BY <1>6 DEF HandleSendMessage, AddMessage, TrimAndPublish, PersistThrows
<1>7. CASE Tick \/ UNCHANGED vars
  BY <1>2, <1>7 DEF Tick, vars
<1>8. ASSUME NEW p \in Pods, PodStep(p), ~Emit(p), ~DeliverRemote(p) PROVE got' = got
  BY <1>8 DEF PodStep, OnShardMessage, Pull, PullThrows, NoticeLost, PodCrash
<1> QED
  BY <1>2, <1>4, <1>5, <1>6, <1>7, <1>8, NextSteps

\* Who is in the room after a step has just joined it or was in it before; while
\* he is in it only an emit of his pod moves the mark.
Joins(s) ==
  /\ HandleJoinRoom(s) /\ ~InRoom(s) /\ sock'[s].joined = clock /\ ~sock'[s].loaded
  /\ pod'[PodOf[s]].mark = InitRoomLastFlushed(pod[PodOf[s]].mark)
Stays(s) ==
  /\ InRoom(s) /\ sock'[s].joined = sock[s].joined
  /\ sock[s].past \subseteq sock'[s].past
  /\ sock'[s].loaded => sock[s].loaded \/ LoadHistory(s)
  /\ LET p == PodOf[s] IN
     \/ pod'[p].mark = pod[p].mark
     \/ Emit(p) /\ pod'[p].mark = UpdateRoomLastFlushed(pod[p].mark, pod[p].batch)

LEMMA ClientMembers ==
  ASSUME Typed, RoomInv, NEW c \in Sockets, ClientStep(c), NEW s \in Sockets, InRoom(s)'
  PROVE  Joins(s) \/ Stays(s)
<1>1. PodOf[c] \in Pods /\ PodOf[s] \in Pods /\ sock[s] \in SockAt(clock)
      /\ pod[PodOf[s]] \in PodAt(clock) /\ pod[PodOf[c]] \in PodAt(clock)
  BY PodOfAssumption DEF Typed
<1>2. CASE HandleDisconnect(c) \/ LoadHistory(c) \/ LoadHistoryThrows(c)
  <2>1. pod' = pod
    BY <1>2 DEF HandleDisconnect, LoadHistory, LoadHistoryThrows
  <2>2. InRoom(s) /\ sock'[s].joined = sock[s].joined /\ sock[s].past \subseteq sock'[s].past
        /\ (sock'[s].loaded => sock[s].loaded \/ LoadHistory(s))
    <3>1. CASE s # c
      BY <1>2, <3>1 DEF HandleDisconnect, LoadHistory, LoadHistoryThrows, InRoom, Typed
    <3>2. CASE s = c /\ HandleDisconnect(c)
      BY <3>2 DEF HandleDisconnect, InRoom, Outside, Typed
    <3>3. CASE s = c /\ (LoadHistory(c) \/ LoadHistoryThrows(c))
      <4>1. InRoom(s)
        BY <3>3 DEF LoadHistory, LoadHistoryThrows, InRoom
      <4>2. CASE LoadHistory(c)
        <5>1. PICK past : sock' = [sock EXCEPT ![s].at = "in", ![s].loaded = TRUE,
                                               ![s].past = @ \cup past]
          BY <3>3, <4>2 DEF LoadHistory
        <5>2. sock'[s] = [sock[s] EXCEPT !.at = "in", !.loaded = TRUE, !.past = @ \cup past]
          BY <1>1, <5>1 DEF SockAt, Typed
        <5> QED
          BY <1>1, <3>3, <4>1, <4>2, <5>2 DEF SockAt
      <4>3. CASE LoadHistoryThrows(c)
        <5>1. sock'[s] = [sock[s] EXCEPT !.at = "in"]
          BY <3>3, <4>3 DEF LoadHistoryThrows, Typed
        <5> QED
          BY <1>1, <4>1, <5>1 DEF SockAt
      <4> QED
        BY <3>3, <4>2, <4>3
    <3> QED
      BY <1>2, <3>1, <3>2, <3>3
  <2> QED
    BY <2>1, <2>2 DEF Stays
<1>3. CASE HandleJoinRoom(c)
  <2>1. pod'[PodOf[c]].mark = InitRoomLastFlushed(pod[PodOf[c]].mark)
    BY <1>1, <1>3 DEF HandleJoinRoom, Typed, PodAt
  <2>2. CASE s = c /\ ~InRoom(s)
    <3>1. sock'[s].joined = clock /\ ~sock'[s].loaded
      BY <1>1, <1>3, <2>2 DEF HandleJoinRoom, SockAt, Typed
    <3> QED
      BY <1>3, <2>1, <2>2, <3>1 DEF Joins
  <2>3. CASE InRoom(s)
    <3>1. pod'[PodOf[s]].mark = pod[PodOf[s]].mark
      <4>1. CASE PodOf[s] = PodOf[c]
        BY <2>1, <2>3, <4>1 DEF RoomInv, InitRoomLastFlushed
      <4>2. CASE PodOf[s] # PodOf[c]
        BY <1>1, <1>3, <4>2 DEF HandleJoinRoom, Typed
      <4> QED
        BY <4>1, <4>2
    <3>2. sock'[s].joined = sock[s].joined /\ sock[s].past \subseteq sock'[s].past
          /\ (sock'[s].loaded => sock[s].loaded)
      <4>1. CASE s = c
        BY <1>1, <1>3, <2>3, <4>1 DEF HandleJoinRoom, SockAt, Typed
      <4>2. CASE s # c
        BY <1>3, <4>2 DEF HandleJoinRoom, Typed
      <4> QED
        BY <4>1, <4>2
    <3> QED
      BY <2>3, <3>1, <3>2 DEF Stays
  <2>4. CASE s # c /\ ~InRoom(s)
    BY <1>3, <2>4 DEF HandleJoinRoom, InRoom, Typed
  <2> QED
    BY <2>2, <2>3, <2>4
<1>4. CASE HandleLeaveRoom(c)
  <2>1. s # c
    BY <1>4 DEF HandleLeaveRoom, InRoom, Outside, Typed
  <2>2. sock'[s] = sock[s] /\ InRoom(s)
    BY <1>4, <2>1 DEF HandleLeaveRoom, InRoom, Typed
  <2>3. pod'[PodOf[s]].mark = pod[PodOf[s]].mark
    <3>1. CASE PodOf[s] = PodOf[c]
      <4>1. s \in RoomOf(PodOf[c])
        BY <2>2, <3>1 DEF RoomOf
      <4>2. CleanupRoom(PodOf[c], c) = pod[PodOf[c]].mark
        BY <2>1, <4>1 DEF CleanupRoom
      <4> QED
        BY <1>1, <1>4, <3>1, <4>2 DEF HandleLeaveRoom, Typed, PodAt
    <3>2. CASE PodOf[s] # PodOf[c]
      BY <1>1, <1>4, <3>2 DEF HandleLeaveRoom, Typed
    <3> QED
      BY <3>1, <3>2
  <2> QED
    BY <2>2, <2>3 DEF Stays
<1> QED
  BY <1>2, <1>3, <1>4 DEF ClientStep

LEMMA Members ==
  ASSUME Typed, RoomInv, [Next]_vars, NEW s \in Sockets, InRoom(s)'
  PROVE  Joins(s) \/ Stays(s)
<1>1. PodOf[s] \in Pods /\ pod[PodOf[s]] \in PodAt(clock)
  BY PodOfAssumption DEF Typed
<1>2. CASE sock' = sock /\ pod' = pod
  BY <1>2 DEF Stays, InRoom
<1>3. ASSUME NEW c \in Sockets, ClientStep(c) PROVE Joins(s) \/ Stays(s)
  BY <1>3, ClientMembers
<1>4. CASE Tick \/ UNCHANGED vars \/ \E m \in Messages : \/ HandleSendMessage(m) \/ AddMessage(m)
                                                         \/ TrimAndPublish(m) \/ PersistThrows(m)
  BY <1>2, <1>4 DEF Tick, vars, HandleSendMessage, AddMessage, TrimAndPublish, PersistThrows
<1>5. ASSUME NEW p \in Pods, PodStep(p) PROVE Stays(s)
  <2>1. CASE NoticeLost(p) \/ DeliverRemote(p)
    BY <1>2, <2>1 DEF NoticeLost, DeliverRemote, Stays, InRoom
  <2>2. CASE PodCrash(p)
    <3>1. PodOf[s] # p
      BY <2>2 DEF PodCrash, Outside, InRoom
    <3> QED
      BY <1>1, <2>2, <3>1 DEF PodCrash, Stays, InRoom, Typed
  <2>3. CASE OnShardMessage(p) \/ Pull(p) \/ Emit(p) \/ PullThrows(p)
    <3>1. sock' = sock /\ InRoom(s)
      BY <2>3 DEF OnShardMessage, Pull, Emit, PullThrows, InRoom
    <3>2. CASE PodOf[s] # p
      <4>1. pod'[PodOf[s]] = pod[PodOf[s]]
        BY <1>1, <2>3, <3>2 DEF OnShardMessage, Pull, Emit, PullThrows, Typed
      <4> QED
        BY <3>1, <4>1 DEF Stays
    <3>3. CASE PodOf[s] = p /\ Emit(p)
      <4>1. pod'[p] = Idle(UpdateRoomLastFlushed(pod[p].mark, pod[p].batch), pod[p].fresh)
        BY <3>3, <1>1 DEF Emit, Typed
      <4> QED
        BY <3>1, <3>3, <4>1 DEF Stays, Idle
    <3>4. CASE PodOf[s] = p /\ OnShardMessage(p)
      <4>1. pod[p].mark # 0
        BY <3>1, <3>4 DEF RoomInv
      <4>2. pod'[p].mark = pod[p].mark
        BY <1>1, <3>4, <4>1 DEF OnShardMessage, Typed, PodAt
      <4> QED
        BY <3>1, <3>4, <4>2 DEF Stays
    <3>5. CASE PodOf[s] = p /\ (Pull(p) \/ PullThrows(p))
      <4>1. \/ pod'[p] = Idle(pod[p].mark, pod[p].fresh)
            \/ \E batch : pod'[p] = [pod[p] EXCEPT !.task = "emit", !.batch = batch]
        BY <1>1, <3>5 DEF Pull, PullThrows, Typed
      <4>2. CASE pod'[p] = Idle(pod[p].mark, pod[p].fresh)
        BY <3>1, <3>5, <4>2 DEF Stays, Idle
      <4>3. CASE \E batch : pod'[p] = [pod[p] EXCEPT !.task = "emit", !.batch = batch]
        <5>1. pod'[p].mark = pod[p].mark
          BY <1>1, <3>5, <4>3 DEF PodAt
        <5> QED
          BY <3>1, <3>5, <5>1 DEF Stays
      <4> QED
        BY <4>1, <4>2, <4>3
    <3> QED
      BY <2>3, <3>2, <3>3, <3>4, <3>5
  <2> QED
    BY <1>5, <2>1, <2>2, <2>3 DEF PodStep
<1> QED
  BY <1>3, <1>4, <1>5, NextSteps

LEMMA RoomStep == ASSUME Typed, RoomInv, [Next]_vars PROVE RoomInv'
<1> SUFFICES ASSUME NEW s \in Sockets, InRoom(s)' PROVE pod'[PodOf[s]].mark # 0
  BY DEF RoomInv
<1> DEFINE p == PodOf[s]
<1>1. p \in Pods /\ pod[p].mark \in 0..clock /\ pod[p].batch \in SUBSET Messages
  BY PodOfAssumption DEF Typed, PodAt
<1>2. clock # 0 /\ clock \in Nat
  BY ChatAssumption DEF Typed
<1>3. CASE Joins(s)
  BY <1>2, <1>3 DEF Joins, InitRoomLastFlushed
<1>4. CASE Stays(s)
  <2>1. pod[p].mark # 0
    BY <1>4 DEF RoomInv, Stays
  <2>2. /\ UpdateRoomLastFlushed(pod[p].mark, pod[p].batch) \in 0..clock
        /\ pod[p].mark <= UpdateRoomLastFlushed(pod[p].mark, pod[p].batch)
    BY <1>1, MarkMoves
  <2> QED
    BY <1>1, <1>2, <1>4, <2>1, <2>2 DEF Stays
<1> QED
  BY <1>3, <1>4, Members

\* The sets that ZRANGE counts in are finite.
LEMMA Counted ==
  ASSUME Typed, NEW S \in SUBSET Messages
  PROVE  IsFiniteSet(S) /\ Cardinality(S) \in Nat
         /\ \A T \in SUBSET S : Cardinality(T) \in Nat /\ Cardinality(T) <= Cardinality(S)
<1>1. IsFiniteSet(S)
  BY ChatAssumption, FS_Subset
<1> QED
  BY <1>1, FS_Subset, FS_CardinalityType

LEMMA OrderFacts ==
  ASSUME Typed
  PROVE  \A l, m, n \in Messages : /\ Precedes(l, m) /\ Precedes(m, n) => Precedes(l, n)
                                   /\ Precedes(m, n) => Ts(m) <= Ts(n)
                                   /\ Ts(m) < Ts(n) => Precedes(m, n)
                                   /\ ~(Precedes(m, n) /\ Precedes(n, m))
<1>1. \A m \in Messages : m \in Nat /\ Ts(m) \in Nat
  BY ChatAssumption, TimesKept DEF Typed, SendAt, Ts
<1> QED
  BY <1>1 DEF Precedes

\* A pull takes what is older than something it takes.
LEMMA PulledDown ==
  ASSUME Typed, NEW since, NEW b \in GetMessagesSince(since), NEW m \in zset,
         since < Ts(m), Ts(m) < Ts(b)
  PROVE  m \in GetMessagesSince(since)
<1> DEFINE S == {n \in zset : Ts(n) > since}
           Older(x) == {n \in S : Precedes(n, x)}
<1>1. b \in S /\ m \in S /\ S \subseteq Messages /\ Cardinality(Older(b)) < MaxPull
  BY DEF GetMessagesSince, Oldest, Typed
<1>2. Older(m) \subseteq Older(b)
  BY <1>1, OrderFacts
<1>3. Cardinality(Older(m)) \in Nat /\ Cardinality(Older(b)) \in Nat
      /\ Cardinality(Older(m)) <= Cardinality(Older(b))
  BY <1>1, <1>2, Counted
<1>4. Cardinality(Older(m)) < MaxPull
  BY <1>1, <1>3, ChatAssumption
<1> QED
  BY <1>1, <1>4 DEF GetMessagesSince, Oldest

LEMMA BatchStep == ASSUME Typed, SendInv, MarkInv, BatchInv, [Next]_vars PROVE BatchInv'
<1> SUFFICES ASSUME NEW p \in Pods PROVE BatchAt(p)'
  BY DEF BatchInv
<1>1. /\ MarkAt(p) /\ BatchAt(p) /\ pod[p] \in PodAt(clock) /\ pod[p].batch \in SUBSET Messages
      /\ clock \in Nat /\ \A m \in Messages : send[m].stored \in 0..clock
  BY TimesKept DEF MarkInv, BatchInv, Typed, PodAt, SendAt
<1>2. CASE pod'[p].batch = {}
  BY <1>2 DEF BatchAt
<1>3. CASE pod'[p].batch = pod[p].batch /\ pod'[p].since = pod[p].since
  <2> SUFFICES ASSUME NEW b \in pod[p].batch, NEW m \in zset' \ pod[p].batch,
                      pod[p].since < Ts(m)', Ts(m)' < Ts(b)'
               PROVE  send'[b].stored <= send'[m].stored
    BY <1>3 DEF BatchAt
  <2>1. b \in Messages /\ send'[b].stored = send[b].stored /\ Ts(b)' = Ts(b)
    BY <1>1, TimesKept DEF MarkAt, Ts
  <2>2. CASE m \in zset
    <3>1. m \in Messages /\ send'[m].stored = send[m].stored /\ Ts(m)' = Ts(m)
      BY <2>2, TimesKept DEF SendInv, LifeInv, Typed, Ts
    <3> QED
      BY <1>1, <2>1, <2>2, <3>1 DEF BatchAt
  <2>3. CASE m \notin zset
    <3>1. send'[m].stored = clock
      BY <2>3, TimesKept, TypeStep DEF Typed
    <3> QED
      BY <1>1, <2>1, <3>1
  <2> QED
    BY <2>2, <2>3
<1>4. CASE Pull(p) /\ pod'[p].batch # {}
  <2> DEFINE batch == GetMessagesSince(pod[p].since)
  <2>1. /\ pod'[p] = IF batch = {} THEN Idle(pod[p].mark, pod[p].fresh)
                     ELSE [pod[p] EXCEPT !.task = "emit", !.batch = batch]
        /\ send' = send /\ zset' = zset
    BY <1>4 DEF Pull, Typed
  <2>2. batch # {}
    BY <1>4, <2>1 DEF Idle
  <2>3. pod'[p].batch = batch /\ pod'[p].since = pod[p].since
    BY <1>1, <2>1, <2>2 DEF PodAt
  <2>4. \A b \in batch, m \in zset \ batch : ~(pod[p].since < Ts(m) /\ Ts(m) < Ts(b))
    BY PulledDown
  <2> QED
    BY <2>1, <2>3, <2>4 DEF BatchAt, Ts
<1>5. CASE pod' = pod
  BY <1>3, <1>5
<1>6. CASE Tick \/ UNCHANGED vars \/ \E m \in Messages : \/ HandleSendMessage(m) \/ AddMessage(m)
                                                         \/ TrimAndPublish(m) \/ PersistThrows(m)
  BY <1>5, <1>6 DEF Tick, vars, HandleSendMessage, AddMessage, TrimAndPublish, PersistThrows
<1>7. ASSUME NEW c \in Sockets, ClientStep(c) PROVE BatchAt(p)'
  <2>1. CASE HandleJoinRoom(c) \/ HandleLeaveRoom(c)
    <3>1. pod'[p].batch = pod[p].batch /\ pod'[p].since = pod[p].since
      <4>1. CASE HandleJoinRoom(c)
        BY <1>1, <4>1 DEF HandleJoinRoom, Typed, PodAt
      <4>2. CASE HandleLeaveRoom(c)
        BY <1>1, <4>2 DEF HandleLeaveRoom, Typed, PodAt
      <4> QED
        BY <2>1, <4>1, <4>2
    <3> QED
      BY <1>3, <3>1
  <2> QED
    BY <1>5, <1>7, <2>1 DEF ClientStep, HandleDisconnect, LoadHistory, LoadHistoryThrows
<1>8. ASSUME NEW q \in Pods, PodStep(q) PROVE BatchAt(p)'
  <2>1. CASE p # q
    <3>1. pod'[p] = pod[p]
      BY <1>8, <2>1 DEF PodStep, OnShardMessage, Pull, Emit, DeliverRemote, PullThrows, NoticeLost,
                        PodCrash, Typed
    <3> QED
      BY <1>3, <3>1
  <2>2. CASE p = q /\ OnShardMessage(q)
    <3>1. pod[p].batch = {}
      BY <1>1, <2>2 DEF OnShardMessage, MarkAt
    <3>2. pod'[p].batch = pod[p].batch
      BY <1>1, <2>2 DEF OnShardMessage, Typed, PodAt
    <3> QED
      BY <1>2, <3>1, <3>2
  <2>3. CASE p = q /\ (Emit(q) \/ PullThrows(q) \/ PodCrash(q))
    <3>1. CASE Emit(q)
      BY <1>2, <2>3, <3>1 DEF Emit, Idle, Typed
    <3>2. CASE PullThrows(q)
      BY <1>2, <2>3, <3>2 DEF PullThrows, Idle, Typed
    <3>3. CASE PodCrash(q)
      BY <1>2, <2>3, <3>3 DEF PodCrash, Idle, Typed
    <3> QED
      BY <2>3, <3>1, <3>2, <3>3
  <2>4. CASE NoticeLost(q) \/ DeliverRemote(q)
    BY <1>5, <2>4 DEF NoticeLost, DeliverRemote
  <2>5. CASE p = q /\ Pull(q)
    BY <1>2, <1>4, <2>5
  <2> QED
    BY <1>8, <2>1, <2>2, <2>3, <2>4, <2>5 DEF PodStep
<1> QED
  BY <1>6, <1>7, <1>8, NextSteps

\* The mark of an emit passes nothing that is neither in the batch nor overtaken.
LEMMA EmitPasses ==
  ASSUME Typed, SendInv, MarkInv, BatchInv, NEW p \in Pods, pod[p].mark # 0, pod[p].task = "emit",
         NEW m \in zset, m \notin pod[p].batch, ~Overtaken(m),
         Ts(m) <= UpdateRoomLastFlushed(pod[p].mark, pod[p].batch)
  PROVE  Ts(m) <= pod[p].mark
<1> DEFINE next == UpdateRoomLastFlushed(pod[p].mark, pod[p].batch)
<1>1. /\ MarkAt(p) /\ BatchAt(p) /\ pod[p].batch \in SUBSET Messages /\ clock \in Nat
      /\ pod[p].mark \in 0..clock /\ pod[p].since \in 0..clock
      /\ m \in Messages /\ Ts(m) \in 0..clock
  BY ChatAssumption DEF MarkInv, BatchInv, Typed, PodAt, SendAt, Ts
<1>2. next = pod[p].mark \/ \E b \in pod[p].batch : next = Ts(b)
  BY <1>1, MarkMoves
<1>3. ASSUME NEW b \in pod[p].batch, next = Ts(b), ~(Ts(m) <= pod[p].mark) PROVE FALSE
  <2>1. pod[p].since <= pod[p].mark /\ send[b].stored > 0 /\ b \in Messages \ {m}
    BY <1>1, <1>3 DEF MarkAt
  <2>2. pod[p].since < Ts(m) /\ Ts(b) \in 0..clock
    BY <1>1, <1>3, <2>1 DEF Typed, SendAt, Ts
  <2>3. CASE Ts(m) = Ts(b)
    BY <2>1, <2>3 DEF Overtaken
  <2>4. CASE Ts(m) < Ts(b)
    <3>1. send[b].stored <= send[m].stored
      BY <1>1, <2>2, <2>4 DEF BatchAt
    <3> QED
      BY <2>1, <2>4, <3>1 DEF Overtaken
  <2> QED
    BY <1>1, <1>3, <2>2, <2>3, <2>4
<1> QED
  BY <1>1, <1>2, <1>3

LEMMA PassedStep ==
  ASSUME OnceInv, RoomInv, BatchInv, PassedInv, [Next]_vars
  PROVE  PassedInv'
<1>1. Typed /\ SendInv /\ MarkInv /\ clock \in Nat
  BY TimesKept DEF OnceInv
<1>2. Typed' /\ SendInv'
  BY <1>1, TypeStep, SendStep
<1> SUFFICES ASSUME NEW s \in Sockets, InRoom(s)' PROVE PassedAt(s, pod[PodOf[s]].mark)'
  BY DEF PassedInv
<1> DEFINE p == PodOf[s]
           next == UpdateRoomLastFlushed(pod[p].mark, pod[p].batch)
<1>3. /\ p \in Pods /\ pod[p].mark \in 0..clock /\ pod[p].batch \in SUBSET Messages
      /\ sock[s].joined \in 0..clock
  BY <1>1, PodOfAssumption DEF Typed, PodAt, SockAt
<1>4. CASE Joins(s)
  <2>1. pod'[p].mark <= clock /\ sock'[s].joined = clock /\ pod'[p].mark \in Nat
    BY <1>1, <1>3, <1>4 DEF Joins, InitRoomLastFlushed
  <2>2. ~(pod'[p].mark > sock'[s].joined)
    BY <1>1, <2>1
  <2>3. \A m \in Messages : Ts(m)' \in Nat
    BY <1>1, <1>2, TimesKept DEF Typed, SendAt, Ts
  <2>4. \A m \in zset' : ~((sock[s].joined < Ts(m))' /\ Ts(m)' <= pod'[p].mark)
    BY <1>1, <1>2, <2>1, <2>3 DEF Typed
  <2> QED
    BY <2>2, <2>4 DEF PassedAt
<1>5. CASE Stays(s)
  <2>1. PassedAt(s, pod[p].mark) /\ sock'[s].joined = sock[s].joined /\ pod[p].mark # 0
    BY <1>5 DEF Stays, PassedInv, RoomInv
  <2>2. \A m \in Messages : send[m].stored > 0 => send'[m].stored > 0 /\ Ts(m)' = Ts(m)
    BY <1>1, TimesKept DEF Ts
  <2>3. pod'[p].mark = pod[p].mark \/ (Emit(p) /\ pod'[p].mark = next)
    BY <1>5 DEF Stays
  <2>4. ASSUME pod'[p].mark > sock[s].joined
        PROVE  \E b \in Messages : send'[b].stored > 0 /\ Ts(b)' = pod'[p].mark
    <3>1. CASE pod'[p].mark = pod[p].mark
      BY <2>1, <2>2, <2>4, <3>1 DEF PassedAt
    <3>2. CASE pod'[p].mark # pod[p].mark
      <4>1. PICK b \in pod[p].batch : next = Ts(b)
        BY <1>1, <1>3, <2>3, <3>2, MarkMoves
      <4>2. b \in Messages /\ send[b].stored > 0
        BY <1>1, <1>3 DEF MarkInv, MarkAt
      <4> QED
        BY <2>2, <2>3, <3>2, <4>1, <4>2
    <3> QED
      BY <3>1, <3>2
  <2>5. ASSUME NEW m \in zset', (sock[s].joined < Ts(m))', Ts(m)' <= pod'[p].mark, ~Overtaken(m)'
        PROVE  got'[s][p][m] > 0
    <3>1. m \in Messages
      BY <1>2 DEF Typed
    <3>2. CASE m \notin zset
      <4>1. /\ send[m].stored = 0 /\ send'[m].stored = clock /\ AddMessage(m)
        BY <1>1, <3>1, <3>2, TimesKept
      <4>2. pod'[p].mark = pod[p].mark
        BY <4>1 DEF AddMessage
      <4>3. Ts(m)' \in Nat /\ pod[p].mark > sock[s].joined
        <5>1. Ts(m)' \in Nat
          BY <1>1, <1>2, <3>1, TimesKept DEF Typed, SendAt, Ts
        <5>2. sock[s].joined < Ts(m)' /\ Ts(m)' <= pod[p].mark
          BY <2>1, <2>5, <4>2
        <5> QED
          BY <1>1, <1>3, <5>1, <5>2
      <4>4. PICK b \in Messages : send[b].stored > 0 /\ Ts(b) = pod[p].mark
        BY <2>1, <4>3 DEF PassedAt
      <4>5. b # m /\ send'[b].stored = send[b].stored /\ Ts(b)' = Ts(b) /\ send[b].stored <= clock
        BY <1>1, <4>1, <4>4, TimesKept DEF Typed, SendAt, Ts
      <4>6. Ts(b)' = Ts(m)' \/ Ts(b)' > Ts(m)'
        BY <1>1, <1>3, <2>5, <4>2, <4>3, <4>4, <4>5
      <4> QED
        BY <2>5, <4>1, <4>4, <4>5, <4>6 DEF Overtaken
    <3>3. CASE m \in zset
      <4>1. /\ send[m].stored > 0 /\ Ts(m)' = Ts(m) /\ ~Overtaken(m)
            /\ sock[s].joined < Ts(m) /\ Ts(m) <= pod'[p].mark
        BY <1>1, <2>1, <2>2, <2>5, <3>1, <3>3, OrderKept DEF SendInv, LifeInv
      <4>2. CASE Ts(m) <= pod[p].mark
        BY <1>1, <1>3, <2>1, <3>1, <3>3, <4>1, <4>2, GotGrows DEF PassedAt
      <4>3. CASE ~(Ts(m) <= pod[p].mark)
        <5>1. Emit(p) /\ pod'[p].mark = next /\ pod[p].task = "emit"
          BY <2>3, <4>1, <4>3 DEF Emit
        <5>2. m \in pod[p].batch
          BY <1>1, <1>3, <2>1, <3>3, <4>1, <4>3, <5>1, EmitPasses
        <5>3. s \in RoomOf(p)
          BY <1>5 DEF Stays, RoomOf
        <5>4. got'[s][p][m] = got[s][p][m] + 1 /\ got[s][p][m] \in Nat
          BY <1>1, <1>3, <3>1, <5>1, <5>2, <5>3, ReceivedType DEF Emit, Typed
        <5> QED
          BY <5>4
      <4> QED
        BY <4>2, <4>3
    <3> QED
      BY <3>2, <3>3
  <2> QED
    BY <2>1, <2>4, <2>5 DEF PassedAt
<1> QED
  BY <1>1, <1>4, <1>5, Members

\* The history that a join gets leaves out only what HistoryLimit messages follow.
LEMMA HistoryLoaded ==
  ASSUME Typed, NEW m \in zset, Ts(m) < clock
  PROVE  m \in GetMessagesBefore(clock) \/ HistoryLimit <= Cardinality(Newer(m))
<1> DEFINE S == {n \in zset : Ts(n) < clock}
           Rest == {n \in S : Precedes(m, n)}
<1>1. Newer(m) \in SUBSET Messages /\ Rest \in SUBSET Newer(m)
  BY DEF Typed, Newer
<1>2. Cardinality(Rest) \in Nat /\ Cardinality(Newer(m)) \in Nat
      /\ Cardinality(Rest) <= Cardinality(Newer(m))
  BY <1>1, Counted
<1>3. Cardinality(Rest) < HistoryLimit => m \in GetMessagesBefore(clock)
  BY DEF GetMessagesBefore, Newest
<1> QED
  BY <1>2, <1>3, ChatAssumption

\* The number of the messages that follow a stored one never falls: the trim takes
\* nothing that is newer than what it leaves.
LEMMA NewerGrows ==
  ASSUME Typed, SendInv, [Next]_vars, NEW m \in zset, m \in zset',
         HistoryLimit <= Cardinality(Newer(m))
  PROVE  HistoryLimit <= Cardinality(Newer(m)')
<1>1. Typed' /\ m \in Messages /\ send[m].stored > 0
  BY TypeStep DEF Typed, SendInv, LifeInv
<1>2. Newer(m) \in SUBSET Messages /\ Newer(m)' \in SUBSET Messages
  BY <1>1 DEF Typed, Newer
<1>3. \A n \in zset : Precedes(m, n)' <=> Precedes(m, n)
  BY <1>1, OrderKept DEF Typed, SendInv, LifeInv
<1>4. Newer(m) \in SUBSET Newer(m)'
  <2>1. CASE zset \subseteq zset'
    BY <1>3, <2>1 DEF Newer
  <2>2. CASE \E k \in Messages : TrimAndPublish(k)
    <3>1. zset' = Newest(MaxStored, zset)
      BY <2>2 DEF TrimAndPublish
    <3>2. Cardinality(Newer(m)) < MaxStored
      BY <3>1 DEF Newest, Newer
    <3>3. ASSUME NEW n \in Newer(m) PROVE n \in zset'
      <4>1. Newer(n) \in SUBSET Newer(m) /\ n \in zset
        BY <1>1, OrderFacts DEF Newer, Typed
      <4>2. Cardinality(Newer(n)) < MaxStored
        BY <1>2, <3>2, <4>1, Counted, ChatAssumption
      <4> QED
        BY <3>1, <4>1, <4>2 DEF Newest, Newer
    <3> QED
      BY <1>3, <3>3 DEF Newer
  <2>3. CASE Tick \/ UNCHANGED vars
    BY <2>1, <2>3 DEF Tick, vars
  <2>4. ASSUME NEW s \in Sockets, ClientStep(s) PROVE zset' = zset
    BY <2>4, Zenon DEF ClientStep, HandleDisconnect, HandleJoinRoom, LoadHistory, LoadHistoryThrows,
                       HandleLeaveRoom
  <2>5. ASSUME NEW p \in Pods, PodStep(p) PROVE zset' = zset
    BY <2>5, Zenon DEF PodStep, OnShardMessage, Pull, Emit, DeliverRemote, PullThrows, NoticeLost,
                       PodCrash
  <2>6. ASSUME NEW k \in Messages, HandleSendMessage(k) \/ AddMessage(k) \/ PersistThrows(k)
        PROVE  zset \subseteq zset'
    BY <2>6 DEF HandleSendMessage, AddMessage, PersistThrows
  <2> QED
    BY <2>1, <2>2, <2>3, <2>4, <2>5, <2>6, NextSteps
<1>5. Cardinality(Newer(m)) \in Nat /\ Cardinality(Newer(m)') \in Nat
      /\ Cardinality(Newer(m)) <= Cardinality(Newer(m)')
  BY <1>2, <1>4, Counted
<1> QED
  BY <1>5, ChatAssumption

LEMMA HistoryStep ==
  ASSUME Typed, SendInv, RoomInv, HistoryInv, [Next]_vars
  PROVE  HistoryInv'
<1>1. Typed' /\ SendInv' /\ clock \in Nat
  BY TypeStep, SendStep, TimesKept
<1> SUFFICES ASSUME NEW s \in Sockets, InRoom(s)', NEW m \in zset',
                    sock'[s].loaded, send'[m].stored < sock'[s].joined
             PROVE  m \in sock'[s].past \/ HistoryLimit <= Cardinality(Newer(m)')
  BY DEF HistoryInv, HistoryAt
<1>2. /\ m \in Messages /\ send[m].stored \in Nat /\ sock[s].joined \in 0..clock
      /\ ~Joins(s)
  BY <1>1 DEF Typed, SendAt, SockAt, Joins
<1>3. Stays(s) /\ sock'[s].joined = sock[s].joined
  BY <1>2, Members DEF Stays
<1>4. m \in zset /\ send'[m].stored = send[m].stored /\ send[m].stored > 0
  <2>1. m \in zset
    BY <1>1, <1>2, <1>3, TimesKept
  <2> QED
    BY <1>2, <2>1, TimesKept DEF SendInv, LifeInv
<1>5. CASE sock[s].loaded
  <2>1. m \in sock[s].past \/ HistoryLimit <= Cardinality(Newer(m))
    BY <1>3, <1>4, <1>5 DEF HistoryInv, HistoryAt, Stays
  <2> QED
    BY <1>3, <1>4, <2>1, NewerGrows DEF Stays
<1>6. CASE LoadHistory(s)
  <2>1. Ts(m) < clock
    <3>1. send[m].ts <= send[m].stored /\ send[m].ts \in Nat
      BY <1>1, <1>2, <1>4 DEF SendInv, LifeInv, Typed, SendAt
    <3> QED
      BY <1>1, <1>2, <1>3, <1>4, <3>1 DEF Ts
  <2>2. m \in GetMessagesBefore(clock) \/ HistoryLimit <= Cardinality(Newer(m))
    BY <1>4, <2>1, HistoryLoaded
  <2>3. GetMessagesBefore(clock) \subseteq sock'[s].past
    <3>1. sock' = [sock EXCEPT ![s].at = "in", ![s].loaded = TRUE,
                               ![s].past = sock[s].past \cup GetMessagesBefore(clock)]
      BY <1>6 DEF LoadHistory, Typed, SockAt
    <3>2. sock'[s].past = sock[s].past \cup GetMessagesBefore(clock)
      BY <3>1 DEF Typed, SockAt
    <3> QED
      BY <3>2
  <2> QED
    BY <1>4, <2>2, <2>3, NewerGrows
<1> QED
  BY <1>3, <1>5, <1>6 DEF Stays

LEMMA GapStep == GapInv /\ [Next]_vars => GapInv'
BY OnceStep, RoomStep, BatchStep, PassedStep, HistoryStep DEF GapInv, OnceInv

LEMMA InitGap == Init => GapInv
<1> SUFFICES ASSUME Init PROVE GapInv
  OBVIOUS
<1>1. OnceInv
  BY InitOnce
<1>2. \A s \in Sockets : ~InRoom(s)
  BY DEF Init, InRoom, Outside
<1>3. \A p \in Pods : pod[p].batch = {}
  BY DEF Init, Idle
<1> QED
  BY <1>1, <1>2, <1>3 DEF GapInv, RoomInv, BatchInv, BatchAt, PassedInv, HistoryInv

LEMMA GapInvariance == Spec => []GapInv
<1>1. Init => GapInv
  BY InitGap
<1>2. GapInv /\ [Next]_vars => GapInv'
  BY GapStep
<1> QED
  BY <1>1, <1>2, PTL DEF Spec

LEMMA GapSuffices == GapInv => NoGap
<1> SUFFICES ASSUME GapInv, NEW s \in Sockets, NEW m \in zset, sock[s].at = "in"
             PROVE  /\ (sock[s].joined < Ts(m) /\ Ts(m) <= pod[PodOf[s]].mark /\ ~Overtaken(m)) =>
                         got[s][PodOf[s]][m] > 0
                    /\ (sock[s].loaded /\ send[m].stored < sock[s].joined) =>
                         (m \in sock[s].past \/ m \notin Newest(HistoryLimit, zset))
  BY DEF NoGap
<1>1. PassedAt(s, pod[PodOf[s]].mark) /\ HistoryAt(s)
  BY DEF GapInv, PassedInv, HistoryInv, InRoom
<1>2. HistoryLimit <= Cardinality(Newer(m)) => m \notin Newest(HistoryLimit, zset)
  <2>1. Cardinality(Newer(m)) \in Nat /\ HistoryLimit \in Nat
    BY Counted, ChatAssumption DEF Newer, GapInv, OnceInv, Typed
  <2> QED
    BY <2>1 DEF Newest, Newer
<1> QED
  BY <1>1, <1>2 DEF PassedAt, HistoryAt

\* A member misses no message that the mark of his pod has passed and none that was
\* stored before he joined, whatever the sizes of pulls, of the history and of the
\* room, and in whatever order members join and leave: the mark is the timestamp
\* of a message that was stored, so whatever it passes without an emit came late.
THEOREM NothingSkipped == Spec => []NoGap
BY GapSuffices, GapInvariance, PTL

-----------------------------------------------------------------------------
(* All is delivered at rest                                                *)

\* The messages that p has yet to pull, and those whose notification is to come.
Behind(p) == {m \in zset : Ts(m) > pod[p].mark} \ pod[p].batch
Trimming == {m \in Messages : send[m].pc = "trim"}
Taken(p) == IF pod[p].task = "pull" /\ pod[p].since = pod[p].mark THEN 1 ELSE 0
Watched(p) == RoomOf(p) # {} /\ pod[p].fresh /\ faults = 0

\* For each message that a pod has yet to pull there is a notification to come, in
\* the queue, or being processed.
DebtAt(p) == Watched(p) =>
  Cardinality(Behind(p)) <= notices[p] + Cardinality(Trimming) + Taken(p)

DebtInv == \A p \in Pods : DebtAt(p)

LEMMA Least ==
  ASSUME Typed, NEW S \in SUBSET Messages, S # {}
  PROVE  \E m \in S : \A n \in S : ~Precedes(n, m)
<1>1. \A m \in Messages : m \in Nat /\ Ts(m) \in Nat
  BY ChatAssumption, TimesKept DEF Typed, SendAt, Ts
<1> DEFINE Times == {Ts(m) : m \in S}
<1>2. Times \subseteq Nat /\ Times # {}
  BY <1>1
<1>3. PICK t \in Times : \A u \in Times : <<u, t>> \notin Below
  BY <1>2, BelowWellFounded, WFMin
<1> DEFINE First == {m \in S : Ts(m) = t}
<1>4. First \subseteq Nat /\ First # {}
  BY <1>1, <1>3
<1>5. PICK m \in First : \A n \in First : <<n, m>> \notin Below
  BY <1>4, BelowWellFounded, WFMin
<1>6. \A n \in S : ~(Ts(n) < t)
  BY <1>1, <1>2, <1>3 DEF Below
<1>7. \A n \in First : ~(n < m)
  BY <1>4, <1>5 DEF Below
<1> QED
  BY <1>5, <1>6, <1>7 DEF Precedes

\* A pull of a room with newer messages is not empty.
LEMMA PulledSome ==
  ASSUME Typed, NEW since, NEW n \in zset, since < Ts(n)
  PROVE  GetMessagesSince(since) # {}
<1> DEFINE S == {x \in zset : Ts(x) > since}
<1>1. S \in SUBSET Messages /\ n \in S
  BY DEF Typed
<1>2. PICK m \in S : \A x \in S : ~Precedes(x, m)
  BY <1>1, Least
<1>3. {x \in S : Precedes(x, m)} = {}
  BY <1>2
<1>4. Cardinality({}) = 0
  BY FS_EmptySet
<1>5. Cardinality({x \in S : Precedes(x, m)}) < MaxPull
  BY <1>3, <1>4, ChatAssumption
<1> QED
  BY <1>2, <1>5 DEF GetMessagesSince, Oldest

LEMMA DebtTypes ==
  ASSUME Typed, NEW p \in Pods
  PROVE  /\ Behind(p) \in SUBSET Messages /\ Trimming \in SUBSET Messages
         /\ Cardinality(Behind(p)) \in Nat /\ Cardinality(Trimming) \in Nat
         /\ notices[p] \in Nat /\ Taken(p) \in Nat
         /\ pod[p].mark \in 0..clock /\ pod[p].since \in 0..clock
         /\ clock \in Nat /\ \A m \in Messages : Ts(m) \in 0..clock
<1>1. Behind(p) \in SUBSET Messages /\ Trimming \in SUBSET Messages
  BY DEF Typed, Behind, Trimming
<1>2. /\ notices[p] \in Nat /\ Taken(p) \in Nat
      /\ pod[p].mark \in 0..clock /\ pod[p].since \in 0..clock
      /\ clock \in Nat /\ \A m \in Messages : Ts(m) \in 0..clock
  BY ChatAssumption DEF Typed, Taken, PodAt, SendAt, Ts
<1> QED
  BY <1>1, <1>2, Counted

\* A step that adds no message and drops no notification.
LEMMA DebtKept ==
  ASSUME Typed, Typed', NEW p \in Pods, DebtAt(p),
         Watched(p)' => Watched(p), Behind(p)' \subseteq Behind(p), Trimming' = Trimming,
         notices'[p] = notices[p], Taken(p)' = Taken(p)
  PROVE  DebtAt(p)'
<1>1. Cardinality(Behind(p)') <= Cardinality(Behind(p)) /\ Cardinality(Behind(p)') \in Nat
  BY DebtTypes, Counted
<1> QED
  BY <1>1, DebtTypes DEF DebtAt

LEMMA ClientDebt ==
  ASSUME GapInv, GapInv', NEW p \in Pods, DebtAt(p), NEW c \in Sockets, ClientStep(c)
  PROVE  DebtAt(p)'
<1>1. /\ Typed /\ Typed' /\ PodOf[c] \in Pods /\ pod[p] \in PodAt(clock)
      /\ pod[PodOf[c]] \in PodAt(clock)
  BY PodOfAssumption DEF GapInv, OnceInv, Typed
<1>2. UNCHANGED <<clock, send, zset, notices>>
  BY Zenon DEF ClientStep, HandleDisconnect, HandleJoinRoom, LoadHistory, LoadHistoryThrows,
               HandleLeaveRoom
<1>3. CASE pod'[p] = pod[p] /\ (Watched(p)' => Watched(p))
  <2>1. Behind(p)' = Behind(p) /\ Trimming' = Trimming /\ Taken(p)' = Taken(p)
    BY <1>2, <1>3 DEF Behind, Trimming, Taken, Ts
  <2> QED
    BY <1>1, <1>2, <1>3, <2>1, DebtKept
<1>4. CASE HandleDisconnect(c) \/ LoadHistory(c)
  <2>1. \A s \in Sockets : InRoom(s)' => InRoom(s)
    <3>1. CASE HandleDisconnect(c)
      BY <3>1 DEF HandleDisconnect, InRoom, Outside, Typed
    <3>2. CASE LoadHistory(c)
      <4>1. InRoom(c)
        BY <3>2 DEF LoadHistory, InRoom
      <4>2. PICK past : sock' = [sock EXCEPT ![c].at = "in", ![c].loaded = TRUE,
                                             ![c].past = @ \cup past]
        BY <3>2 DEF LoadHistory
      <4>3. \A s \in Sockets \ {c} : sock'[s] = sock[s]
        BY <1>1, <4>2 DEF Typed, SockAt
      <4> QED
        BY <4>1, <4>3 DEF InRoom
    <3> QED
      BY <1>4, <3>1, <3>2
  <2>2. pod' = pod /\ faults' = faults
    BY <1>4 DEF HandleDisconnect, LoadHistory
  <2> QED
    BY <1>3, <2>1, <2>2 DEF Watched, RoomOf
<1>5. CASE LoadHistoryThrows(c)
  <2>1. faults' # 0
    BY <1>1, <1>5, ChatAssumption DEF LoadHistoryThrows, Fault, Typed
  <2> QED
    BY <2>1 DEF DebtAt, Watched
<1>6. CASE HandleLeaveRoom(c)
  <2>1. \A s \in Sockets : InRoom(s)' => InRoom(s) /\ s # c
    BY <1>1, <1>6 DEF HandleLeaveRoom, InRoom, Outside, Typed
  <2>2. CASE RoomOf(p)' = {}
    BY <2>2 DEF DebtAt, Watched
  <2>3. CASE RoomOf(p)' # {}
    <3>1. PICK s \in RoomOf(p) : s # c
      BY <2>1, <2>3 DEF RoomOf
    <3>2. pod'[p] = pod[p]
      <4>1. CASE PodOf[c] = p
        <5>1. CleanupRoom(p, c) = pod[p].mark
          BY <3>1 DEF CleanupRoom
        <5>2. pod'[p] = [pod[p] EXCEPT !.mark = pod[p].mark]
          BY <1>1, <1>6, <4>1, <5>1 DEF HandleLeaveRoom, Typed
        <5> QED
          BY <1>1, <5>2 DEF PodAt
      <4>2. CASE PodOf[c] # p
        BY <1>1, <1>6, <4>2 DEF HandleLeaveRoom, Typed
      <4> QED
        BY <4>1, <4>2
    <3>3. Watched(p)' => Watched(p)
      BY <1>6, <3>1, <3>2 DEF Watched, HandleLeaveRoom
    <3> QED
      BY <1>3, <3>2, <3>3
  <2> QED
    BY <2>2, <2>3
<1>7. CASE HandleJoinRoom(c)
  <2>1. faults' = faults /\ \A s \in Sockets \ {c} : InRoom(s)' => InRoom(s)
    BY <1>1, <1>7 DEF HandleJoinRoom, InRoom, Typed, SockAt
  <2>2. CASE PodOf[c] # p
    <3>1. pod'[p] = pod[p] /\ RoomOf(p)' \subseteq RoomOf(p)
      BY <1>1, <1>7, <2>1, <2>2 DEF HandleJoinRoom, RoomOf, Typed
    <3> QED
      BY <1>3, <2>1, <3>1 DEF Watched
  <2>3. CASE PodOf[c] = p
    <3> DEFINE f == IF RoomOf(p) = {} THEN pod[p].mark = 0 ELSE pod[p].fresh
    <3>1. pod'[p] = [pod[p] EXCEPT !.mark = InitRoomLastFlushed(pod[p].mark), !.fresh = f]
      BY <1>1, <1>7, <2>3 DEF HandleJoinRoom, Typed, PodAt
    <3>2. pod'[p].mark = InitRoomLastFlushed(pod[p].mark) /\ pod'[p].fresh = f
          /\ pod'[p].batch = pod[p].batch /\ pod'[p].task = pod[p].task
          /\ pod'[p].since = pod[p].since
      BY <1>1, <3>1 DEF PodAt
    <3>3. CASE RoomOf(p) # {}
      <4>1. pod[p].mark # 0
        BY <3>3 DEF GapInv, RoomInv, RoomOf
      <4>2. pod'[p].mark = pod[p].mark
        BY <3>2, <4>1 DEF InitRoomLastFlushed
      <4>3. Behind(p)' = Behind(p) /\ Trimming' = Trimming /\ Taken(p)' = Taken(p)
        BY <1>2, <3>2, <4>2 DEF Behind, Trimming, Taken, Ts
      <4>4. Watched(p)' => Watched(p)
        BY <2>1, <3>2, <3>3 DEF Watched
      <4> QED
        BY <1>1, <1>2, <4>3, <4>4, DebtKept
    <3>4. CASE RoomOf(p) = {} /\ pod[p].mark # 0
      BY <3>2, <3>4 DEF DebtAt, Watched
    <3>5. CASE RoomOf(p) = {} /\ pod[p].mark = 0
      <4>1. pod'[p].mark = clock
        BY <3>2, <3>5 DEF InitRoomLastFlushed
      <4>2. \A m \in zset : ~(Ts(m) > clock)
        BY <1>1, DebtTypes DEF Typed
      <4>3. Behind(p)' = {}
        BY <1>2, <4>1, <4>2 DEF Behind, Ts
      <4>4. Cardinality(Behind(p)') = 0
        BY <4>3, FS_EmptySet
      <4>5. Trimming' = Trimming /\ notices'[p] = notices[p] /\ Taken(p)' \in Nat
        BY <1>2 DEF Trimming, Taken
      <4> QED
        BY <1>1, <4>4, <4>5, DebtTypes DEF DebtAt
    <3> QED
      BY <3>3, <3>4, <3>5
  <2> QED
    BY <2>2, <2>3
<1> QED
  BY <1>4, <1>5, <1>6, <1>7 DEF ClientStep

LEMMA ServiceDebt ==
  ASSUME GapInv, GapInv', NEW p \in Pods, DebtAt(p), NEW m \in Messages,
         HandleSendMessage(m) \/ AddMessage(m) \/ TrimAndPublish(m) \/ PersistThrows(m)
  PROVE  DebtAt(p)'
<1>1. Typed /\ Typed' /\ SendInv /\ [Next]_vars /\ send[m] \in SendAt(clock)
  BY NextSteps DEF GapInv, OnceInv, Typed
<1>2. pod' = pod /\ sock' = sock
  BY DEF HandleSendMessage, AddMessage, TrimAndPublish, PersistThrows
<1>3. \A n \in zset : Ts(n)' = Ts(n)
  BY <1>1, TimesKept DEF SendInv, LifeInv, Typed, Ts
<1>4. faults' = faults => (Watched(p)' => Watched(p))
  BY <1>2 DEF Watched, RoomOf, InRoom
<1>5. Taken(p)' = Taken(p)
  BY <1>2 DEF Taken
<1>6. CASE PersistThrows(m)
  <2>1. faults' # 0
    BY <1>1, <1>6, ChatAssumption DEF PersistThrows, Fault, Typed
  <2> QED
    BY <2>1 DEF DebtAt, Watched
<1>7. CASE HandleSendMessage(m)
  <2>1. zset' = zset /\ notices' = notices /\ faults' = faults
    BY <1>7 DEF HandleSendMessage
  <2>2. Behind(p)' = Behind(p)
    BY <1>2, <1>3, <2>1 DEF Behind
  <2>3. Trimming' = Trimming
    <3>1. send'[m].pc = "add" /\ send[m].pc = "none"
      BY <1>1, <1>7 DEF HandleSendMessage, Typed, SendAt
    <3>2. \A n \in Messages \ {m} : send'[n] = send[n]
      BY <1>1, <1>7 DEF HandleSendMessage, Typed, SendAt
    <3> QED
      BY <3>1, <3>2 DEF Trimming
  <2> QED
    BY <1>1, <1>4, <1>5, <2>1, <2>2, <2>3, DebtKept
<1>8. CASE AddMessage(m)
  <2>1. zset' = zset \cup {m} /\ notices' = notices /\ faults' = faults
    BY <1>8 DEF AddMessage
  <2>2. Trimming' = Trimming \cup {m} /\ m \notin Trimming
    <3>1. send'[m].pc = "trim" /\ send[m].pc = "add"
      BY <1>1, <1>8 DEF AddMessage, Typed, SendAt
    <3>2. \A n \in Messages \ {m} : send'[n] = send[n]
      BY <1>1, <1>8 DEF AddMessage, Typed, SendAt
    <3> QED
      BY <3>1, <3>2 DEF Trimming
  <2>3. Behind(p)' \subseteq Behind(p) \cup {m}
    BY <1>2, <1>3, <2>1 DEF Behind
  <2>4. IsFiniteSet(Behind(p)) /\ IsFiniteSet(Trimming) /\ Behind(p) \cup {m} \in SUBSET Messages
    BY <1>1, DebtTypes, Counted
  <2>5. Cardinality(Trimming') = Cardinality(Trimming) + 1
    BY <2>2, <2>4, FS_AddElement
  <2>6. Cardinality(Behind(p) \cup {m}) <= Cardinality(Behind(p)) + 1
    <3>1. Cardinality(Behind(p) \cup {m}) =
            IF m \in Behind(p) THEN Cardinality(Behind(p)) ELSE Cardinality(Behind(p)) + 1
      BY <2>4, FS_AddElement
    <3> QED
      BY <1>1, <3>1, DebtTypes
  <2>7. Cardinality(Behind(p)') <= Cardinality(Behind(p) \cup {m})
        /\ Cardinality(Behind(p)') \in Nat /\ Cardinality(Behind(p) \cup {m}) \in Nat
    BY <1>1, <2>3, <2>4, Counted
  <2> QED
    BY <1>1, <1>4, <1>5, <2>1, <2>5, <2>6, <2>7, DebtTypes DEF DebtAt
<1>9. CASE TrimAndPublish(m)
  <2>1. zset' \subseteq zset /\ notices'[p] = notices[p] + 1 /\ faults' = faults
    BY <1>9 DEF TrimAndPublish, Newest
  <2>2. Trimming' = Trimming \ {m} /\ m \in Trimming
    <3>1. send'[m].pc = "done" /\ send[m].pc = "trim"
      BY <1>1, <1>9 DEF TrimAndPublish, Typed, SendAt
    <3>2. \A n \in Messages \ {m} : send'[n] = send[n]
      BY <1>9 DEF TrimAndPublish, Typed
    <3> QED
      BY <3>1, <3>2 DEF Trimming
  <2>3. Behind(p)' \in SUBSET Behind(p)
    BY <1>2, <1>3, <2>1 DEF Behind
  <2>4. IsFiniteSet(Trimming) /\ Behind(p) \in SUBSET Messages
    BY <1>1, DebtTypes, Counted
  <2>5. Cardinality(Trimming') = Cardinality(Trimming) - 1
    BY <2>2, <2>4, FS_RemoveElement
  <2>6. Cardinality(Behind(p)') <= Cardinality(Behind(p)) /\ Cardinality(Behind(p)') \in Nat
    BY <1>1, <2>3, <2>4, Counted
  <2> QED
    BY <1>1, <1>4, <1>5, <2>1, <2>5, <2>6, DebtTypes DEF DebtAt
<1> QED
  BY <1>6, <1>7, <1>8, <1>9

LEMMA PodDebt ==
  ASSUME GapInv, GapInv', NEW p \in Pods, DebtAt(p), NEW q \in Pods, PodStep(q)
  PROVE  DebtAt(p)'
<1>1. Typed /\ Typed' /\ MarkInv /\ pod[p] \in PodAt(clock) /\ [Next]_vars
  BY NextSteps DEF GapInv, OnceInv, Typed
<1>2. UNCHANGED <<clock, send, zset>>
  BY Zenon DEF PodStep, OnShardMessage, Pull, Emit, DeliverRemote, PullThrows, NoticeLost, PodCrash
<1>3. Trimming' = Trimming /\ \A m \in Messages : Ts(m)' = Ts(m)
  BY <1>2 DEF Trimming, Ts
<1>4. CASE PullThrows(q) \/ NoticeLost(q) \/ PodCrash(q)
  <2>1. Fault /\ faults \in Nat
    <3>1. Fault
      BY <1>4, Zenon DEF PullThrows, NoticeLost, PodCrash
    <3>2. faults \in Nat
      BY <1>1, ChatAssumption DEF Typed
    <3> QED
      BY <3>1, <3>2
  <2>2. faults' # 0
    BY <2>1 DEF Fault
  <2> QED
    BY <2>2 DEF DebtAt, Watched
<1>5. CASE OnShardMessage(q) \/ Pull(q) \/ Emit(q) \/ DeliverRemote(q)
  <2>1. sock' = sock /\ faults' = faults
    BY <1>5 DEF OnShardMessage, Pull, Emit, DeliverRemote
  <2>2. RoomOf(p)' = RoomOf(p)
    BY <2>1 DEF RoomOf, InRoom
  <2>3. CASE pod'[p] = pod[p] /\ notices'[p] = notices[p]
    <3>1. Behind(p)' = Behind(p) /\ Taken(p)' = Taken(p) /\ (Watched(p)' => Watched(p))
      BY <1>2, <2>1, <2>2, <2>3 DEF Behind, Taken, Watched, Ts
    <3> QED
      BY <1>1, <1>3, <2>3, <3>1, DebtKept
  <2>4. CASE p # q \/ DeliverRemote(q)
    <3>1. CASE DeliverRemote(q)
      BY <2>3, <3>1 DEF DeliverRemote
    <3>2. CASE p # q
      <4>1. pod'[p] = pod[p]
        <5>1. CASE Pull(q)
          BY <3>2, <5>1 DEF Pull, Typed
        <5>2. CASE Emit(q)
          BY <3>2, <5>2 DEF Emit, Typed
        <5>3. CASE OnShardMessage(q)
          <6>1. \E x : pod' = [pod EXCEPT ![q] = x]
            BY <5>3, Zenon DEF OnShardMessage
          <6> QED
            BY <3>2, <6>1 DEF Typed
        <5>4. CASE DeliverRemote(q)
          BY <5>4 DEF DeliverRemote
        <5> QED
          BY <1>5, <5>1, <5>2, <5>3, <5>4
      <4>2. notices'[p] = notices[p]
        BY <1>1, <1>5, <3>2 DEF OnShardMessage, Pull, Emit, DeliverRemote, Typed
      <4> QED
        BY <2>3, <4>1, <4>2
    <3> QED
      BY <2>4, <3>1, <3>2
  <2>5. CASE RoomOf(p) = {}
    BY <2>2, <2>5 DEF DebtAt, Watched
  <2>6. CASE p = q /\ RoomOf(p) # {} /\ OnShardMessage(q)
    <3>1. pod[p].mark # 0
      BY <2>6 DEF GapInv, RoomInv, RoomOf
    <3>2. /\ pod'[p] = [pod[p] EXCEPT !.task = "pull", !.since = pod[p].mark]
          /\ pod[p].task = "idle" /\ notices'[p] = notices[p] - 1
      <4>1. OnShardMessage(p)
        BY <2>6
      <4>2. pod'[p] = [pod[p] EXCEPT !.task = "pull", !.since = pod[p].mark]
        BY <1>1, <2>6, <3>1, <4>1 DEF OnShardMessage, Typed
      <4>3. pod[p].task = "idle" /\ notices'[p] = notices[p] - 1
        BY <1>1, <4>1 DEF OnShardMessage, Typed
      <4> QED
        BY <4>2, <4>3
    <3>3. /\ pod'[p].task = "pull" /\ pod'[p].since = pod[p].mark /\ pod'[p].mark = pod[p].mark
          /\ pod'[p].batch = pod[p].batch /\ pod'[p].fresh = pod[p].fresh
      BY <1>1, <3>2 DEF PodAt
    <3>4. Behind(p)' = Behind(p) /\ (Watched(p)' => Watched(p))
      BY <1>2, <2>1, <2>2, <3>3 DEF Behind, Watched, Ts
    <3>5. Taken(p) = 0 /\ Taken(p)' = 1
      BY <3>2, <3>3 DEF Taken
    <3> QED
      BY <1>1, <1>3, <3>2, <3>4, <3>5, DebtTypes DEF DebtAt
  <2>7. CASE p = q /\ RoomOf(p) # {} /\ Pull(q)
    <3> DEFINE batch == GetMessagesSince(pod[p].since)
    <3>1. /\ pod[p].task = "pull" /\ notices' = notices
          /\ pod'[p] = IF batch = {} THEN Idle(pod[p].mark, pod[p].fresh)
                       ELSE [pod[p] EXCEPT !.task = "emit", !.batch = batch]
      <4>1. Pull(p)
        BY <2>7
      <4> QED
        BY <1>1, <4>1 DEF Pull, Typed
    <3>2. /\ pod'[p].task # "pull" /\ pod'[p].mark = pod[p].mark
          /\ pod'[p].batch = batch /\ pod'[p].fresh = pod[p].fresh
      <4>1. CASE batch = {}
        BY <3>1, <4>1 DEF Idle
      <4>2. CASE batch # {}
        BY <1>1, <3>1, <4>2 DEF PodAt
      <4> QED
        BY <4>1, <4>2
    <3>3. pod[p].batch = {} /\ pod[p].mark # 0 /\ pod[p].since <= pod[p].mark
      BY <1>1, <2>7, <3>1 DEF GapInv, RoomInv, RoomOf, MarkInv, MarkAt
    <3>4. Behind(p)' = Behind(p) \ batch /\ Behind(p) = {m \in zset : Ts(m) > pod[p].mark}
      BY <1>2, <3>2, <3>3 DEF Behind, Ts
    <3>5. Taken(p)' = 0 /\ (Watched(p)' => Watched(p))
      BY <2>1, <2>2, <3>2 DEF Taken, Watched
    <3>6. CASE pod[p].since # pod[p].mark \/ Behind(p) = {}
      <4>1. Taken(p) = 0 \/ Cardinality(Behind(p)') = 0
        BY <3>4, <3>6, FS_EmptySet DEF Taken
      <4>2. Cardinality(Behind(p)') <= Cardinality(Behind(p)) /\ Cardinality(Behind(p)') \in Nat
        BY <1>1, <3>4, DebtTypes, Counted
      <4> QED
        BY <1>1, <1>3, <3>1, <3>5, <4>1, <4>2, DebtTypes DEF DebtAt
    <3>7. CASE pod[p].since = pod[p].mark /\ Behind(p) # {}
      <4>1. batch # {}
        BY <1>1, <3>4, <3>7, PulledSome
      <4>2. batch \subseteq Behind(p)
        BY <3>4, <3>7 DEF GetMessagesSince, Oldest
      <4>3. PICK b \in batch : b \in Behind(p)
        BY <4>1, <4>2
      <4>4. Behind(p)' \in SUBSET (Behind(p) \ {b}) /\ Behind(p) \ {b} \in SUBSET Messages
            /\ IsFiniteSet(Behind(p))
        BY <1>1, <3>4, <4>3, DebtTypes, Counted
      <4>5. Cardinality(Behind(p) \ {b}) = Cardinality(Behind(p)) - 1
        BY <4>3, <4>4, FS_RemoveElement
      <4>6. Cardinality(Behind(p)') <= Cardinality(Behind(p) \ {b}) /\ Cardinality(Behind(p)') \in Nat
        BY <1>1, <4>4, Counted
      <4>7. Taken(p) = 1
        BY <3>1, <3>7 DEF Taken
      <4> QED
        BY <1>1, <1>3, <3>1, <3>5, <4>5, <4>6, <4>7, DebtTypes DEF DebtAt
    <3> QED
      BY <3>6, <3>7
  <2>8. CASE p = q /\ RoomOf(p) # {} /\ Emit(q)
    <3> DEFINE next == UpdateRoomLastFlushed(pod[p].mark, pod[p].batch)
    <3>1. pod'[p] = Idle(next, pod[p].fresh) /\ notices' = notices /\ pod[p].task = "emit"
      <4>1. Emit(p)
        BY <2>8
      <4> QED
        BY <1>1, <4>1 DEF Emit, Typed
    <3>2. pod'[p].mark = next /\ pod'[p].batch = {} /\ pod'[p].fresh = pod[p].fresh
          /\ pod'[p].task = "idle"
      BY <3>1 DEF Idle
    <3>3. pod[p].mark <= next /\ next \in 0..clock /\ \A b \in pod[p].batch : Ts(b) <= next
      BY <1>1, MarkMoves DEF PodAt
    <3>4. \A m \in zset : Ts(m) > next => Ts(m) > pod[p].mark /\ m \notin pod[p].batch
      <4>1. clock \in Nat /\ pod[p].mark \in 0..clock /\ \A m \in zset : Ts(m) \in 0..clock
        BY <1>1, DebtTypes DEF Typed
      <4> QED
        BY <3>3, <4>1
    <3>5. Behind(p)' \subseteq Behind(p)
      BY <1>2, <3>2, <3>4 DEF Behind, Ts
    <3>6. Taken(p) = 0 /\ Taken(p)' = 0 /\ (Watched(p)' => Watched(p))
      BY <2>1, <2>2, <3>1, <3>2 DEF Taken, Watched
    <3> QED
      BY <1>1, <1>3, <3>1, <3>5, <3>6, DebtKept
  <2> QED
    BY <1>5, <2>4, <2>5, <2>6, <2>7, <2>8
<1> QED
  BY <1>4, <1>5 DEF PodStep

LEMMA DebtStep == GapInv /\ DebtInv /\ [Next]_vars => GapInv' /\ DebtInv'
<1> SUFFICES ASSUME GapInv, DebtInv, [Next]_vars PROVE GapInv' /\ DebtInv'
  OBVIOUS
<1>1. GapInv'
  BY GapStep
<1> SUFFICES ASSUME NEW p \in Pods PROVE DebtAt(p)'
  BY <1>1 DEF DebtInv
<1>2. Typed /\ Typed' /\ DebtAt(p)
  BY <1>1 DEF GapInv, OnceInv, DebtInv
<1>3. CASE Tick \/ UNCHANGED vars
  <2>1. UNCHANGED <<send, zset, notices, pod, sock, faults>>
    BY <1>3 DEF Tick, vars
  <2>2. Behind(p)' = Behind(p) /\ Trimming' = Trimming /\ Taken(p)' = Taken(p)
        /\ (Watched(p)' => Watched(p))
    BY <2>1 DEF Behind, Trimming, Taken, Watched, RoomOf, InRoom, Ts
  <2> QED
    BY <1>2, <2>1, <2>2, DebtKept
<1> QED
  BY <1>1, <1>2, <1>3, ServiceDebt, ClientDebt, PodDebt, NextSteps

LEMMA DebtSuffices == GapInv /\ DebtInv => AllDeliveredAtRest
<1> SUFFICES ASSUME GapInv, DebtInv, NEW s \in Sockets, NEW m \in zset,
                    sock[s].at = "in", sock[s].joined < Ts(m), notices[PodOf[s]] = 0,
                    pod[PodOf[s]].task = "idle", \A n \in Messages : send[n].pc # "trim",
                    faults = 0, ~Overtaken(m), pod[PodOf[s]].fresh
             PROVE  got[s][PodOf[s]][m] > 0
  BY DEF AllDeliveredAtRest
<1> DEFINE p == PodOf[s]
<1>1. Typed /\ MarkInv /\ p \in Pods /\ InRoom(s) /\ s \in RoomOf(p)
  BY PodOfAssumption DEF GapInv, OnceInv, InRoom, RoomOf
<1>2. Trimming = {} /\ Taken(p) = 0 /\ pod[p].batch = {}
  BY <1>1 DEF Trimming, Taken, MarkInv, MarkAt
<1>3. Cardinality(Behind(p)) <= notices[p] + Cardinality(Trimming) + Taken(p)
  BY <1>1 DEF DebtInv, DebtAt, Watched
<1>4. Cardinality(Trimming) = 0
  BY <1>2, FS_EmptySet
<1>5. Cardinality(Behind(p)) = 0 /\ IsFiniteSet(Behind(p))
  BY <1>1, <1>2, <1>3, <1>4, DebtTypes, Counted
<1>6. Behind(p) = {}
  BY <1>5, FS_EmptySet
<1>7. ~(Ts(m) > pod[p].mark)
  BY <1>2, <1>6 DEF Behind
<1>8. Ts(m) <= pod[p].mark
  BY <1>1, <1>7, DebtTypes DEF Typed
<1> QED
  BY <1>1, <1>8 DEF GapInv, PassedInv, PassedAt

\* When the notifications that came are processed and none is to come, no member
\* of a pod whose mark its members set themselves (fresh) lacks a stored message
\* that came after its join and was not overtaken, in a run without a fault: each
\* message such a pod has yet to pull is matched by a notification, however many
\* messages one pull takes.  Of pods with a mark left over, of trimmed messages
\* and of overtaken ones it says nothing.
THEOREM DeliveredAtRest == Spec => []AllDeliveredAtRest
<1>1. Init => GapInv /\ DebtInv
  <2>1. Init => \A p \in Pods : RoomOf(p) = {}
    BY DEF Init, RoomOf, InRoom, Outside
  <2> QED
    BY <2>1, InitGap DEF DebtInv, DebtAt, Watched
<1>2. GapInv /\ DebtInv /\ [Next]_vars => GapInv' /\ DebtInv'
  BY DebtStep
<1> QED
  BY <1>1, <1>2, DebtSuffices, PTL DEF Spec
=============================================================================
