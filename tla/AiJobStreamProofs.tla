------------------------- MODULE AiJobStreamProofs -------------------------
(***************************************************************************)
(* Theorems about the SSE endpoint: its types and the queue of the shared  *)
(* Redis connection, and that a client receives the events of its job in   *)
(* order, over any number of connections, clients, jobs and events.        *)
(***************************************************************************)
EXTENDS AiJobStream, SequenceTheorems, WellFoundedInduction, TLAPS

Below == {p \in Nat \X Nat : p[1] < p[2]}

LEMMA BelowWellFounded == IsWellFoundedOn(Below, Nat)
<1>1. Below \cap (Nat \X Nat) \subseteq OpToRel(<, Nat)
  BY DEF OpToRel, Below
<1> QED
  BY <1>1, NatLessThanWellFounded, IsWellFoundedOnSubrelation

\* A set of numbers has the minimum that Min chooses.
LEMMA MinOfNumbers ==
  ASSUME NEW S, S \subseteq Nat, S # {}
  PROVE  Min(S) \in S
<1>1. PICK x \in S : \A y \in S : <<y, x>> \notin Below
  BY BelowWellFounded, WFMin
<1>2. ASSUME NEW y \in S PROVE x <= y
  <2>1. x \in Nat /\ y \in Nat
    OBVIOUS
  <2>2. ~(y < x)
    BY <1>1, <2>1 DEF Below
  <2> QED
    BY <2>1, <2>2
<1> QED
  BY <1>1, <1>2 DEF Min

\* The queue of the shared connection, as steps change it.
LEMMA QueueAppend ==
  ASSUME NEW S, NEW q \in Seq(S), IsInjective(q), NEW x \in S, x \notin ToSet(q)
  PROVE  /\ Append(q, x) \in Seq(S) /\ IsInjective(Append(q, x))
         /\ ToSet(Append(q, x)) = ToSet(q) \cup {x}
<1>1. /\ Append(q, x) \in Seq(S) /\ Len(q) \in Nat /\ DOMAIN q = 1..Len(q)
      /\ DOMAIN Append(q, x) = 1..(Len(q) + 1)
      /\ \A i \in 1..Len(q) : Append(q, x)[i] = q[i]
      /\ Append(q, x)[Len(q) + 1] = x
  OBVIOUS
<1>2. \A i \in 1..(Len(q) + 1) : i \in 1..Len(q) \/ i = Len(q) + 1
  BY <1>1
<1>3. 1..Len(q) \subseteq 1..(Len(q) + 1) /\ Len(q) + 1 \in 1..(Len(q) + 1)
  BY <1>1
<1>4. \A i \in 1..Len(q) : q[i] # x
  BY <1>1 DEF ToSet
<1>5. IsInjective(Append(q, x))
  BY <1>1, <1>2, <1>4 DEF IsInjective
<1>6. ToSet(Append(q, x)) = ToSet(q) \cup {x}
  BY <1>1, <1>2, <1>3 DEF ToSet
<1> QED
  BY <1>1, <1>5, <1>6

\* Without the element at i: every other position stays, or moves by one.
LEMMA QueueRemove ==
  ASSUME NEW S, NEW q \in Seq(S), IsInjective(q), NEW i \in 1..Len(q)
  PROVE  /\ RemoveAt(q, i) \in Seq(S) /\ IsInjective(RemoveAt(q, i))
         /\ ToSet(RemoveAt(q, i)) = ToSet(q) \ {q[i]}
<1> DEFINE r == RemoveAt(q, i)
           Old(k) == IF k < i THEN k ELSE k + 1
<1>1. Len(q) \in Nat /\ i \in Nat /\ i # 0 /\ i <= Len(q) /\ DOMAIN q = 1..Len(q)
  OBVIOUS
<1> DEFINE a == SubSeq(q, 1, i - 1)
           b == SubSeq(q, i + 1, Len(q))
<1>2. a \in Seq(S) /\ Len(a) = i - 1 /\ \A k \in 1..(i - 1) : a[k] = q[k]
  BY <1>1
<1>3. b \in Seq(S) /\ Len(b) = Len(q) - i /\ \A k \in 1..(Len(q) - i) : b[k] = q[i + k]
  <2>1. \A k \in 1..(Len(q) - i) : i + 1 + k - 1 = i + k
    BY <1>1
  <2>2. /\ b \in Seq(S)
        /\ Len(b) = IF i + 1 <= Len(q) THEN Len(q) - (i + 1) + 1 ELSE 0
        /\ \A k \in 1..Len(b) : b[k] = q[i + 1 + k - 1]
    BY <1>1, SubSeqProperties
  <2>3. Len(b) = Len(q) - i
    BY <1>1, <2>2
  <2> QED
    BY <2>1, <2>2, <2>3
<1>4. r = a \o b
  BY DEF RemoveAt
<1> HIDE DEF a, b
<1>5. /\ r \in Seq(S) /\ Len(r) = Len(q) - 1
      /\ \A k \in 1..Len(r) : r[k] = IF k <= i - 1 THEN a[k] ELSE b[k - (i - 1)]
  <2>1. /\ a \o b \in Seq(S) /\ Len(a \o b) = Len(a) + Len(b)
        /\ \A k \in 1..(Len(a) + Len(b)) : (a \o b)[k] = IF k <= Len(a) THEN a[k] ELSE b[k - Len(a)]
    BY <1>2, <1>3, ConcatProperties, Zenon
  <2>2. Len(a) = i - 1 /\ Len(a) + Len(b) = Len(q) - 1
    BY <1>1, <1>2, <1>3
  <2> QED
    BY <1>4, <2>1, <2>2, Zenon
<1>6. ASSUME NEW k \in 1..Len(r) PROVE Old(k) \in 1..Len(q) /\ Old(k) # i /\ r[k] = q[Old(k)]
  <2>1. k \in Nat /\ k # 0 /\ k <= Len(q) - 1
    BY <1>1, <1>5
  <2>2. CASE k < i
    BY <1>1, <1>2, <1>5, <2>1, <2>2
  <2>3. CASE ~(k < i)
    <3>1. k - (i - 1) \in 1..(Len(q) - i) /\ i + (k - (i - 1)) = k + 1 /\ ~(k <= i - 1)
          /\ Old(k) = k + 1 /\ k + 1 \in 1..Len(q) /\ k + 1 # i
      BY <1>1, <2>1, <2>3
    <3>2. r[k] = b[k - (i - 1)]
      BY <1>5, <3>1
    <3>3. b[k - (i - 1)] = q[k + 1]
      BY <1>3, <3>1
    <3> QED
      BY <3>1, <3>2, <3>3
  <2> QED
    BY <2>2, <2>3
<1>7. \A n \in 1..Len(q) : n # i => \E k \in 1..Len(r) : Old(k) = n
  <2> SUFFICES ASSUME NEW n \in 1..Len(q), n # i PROVE \E k \in 1..Len(r) : Old(k) = n
    OBVIOUS
  <2>1. CASE n < i
    <3>1. n \in 1..Len(r) /\ Old(n) = n
      BY <1>1, <1>5, <2>1
    <3> QED
      BY <3>1
  <2>2. CASE ~(n < i)
    <3>1. n - 1 \in 1..Len(r) /\ Old(n - 1) = n
      BY <1>1, <1>5, <2>2
    <3> QED
      BY <3>1
  <2> QED
    BY <2>1, <2>2
<1>8. DOMAIN r = 1..Len(r)
  BY <1>5
<1>9. IsInjective(r)
  <2> SUFFICES ASSUME NEW k \in 1..Len(r), NEW l \in 1..Len(r), r[k] = r[l] PROVE k = l
    BY <1>8 DEF IsInjective
  <2>1. Old(k) = Old(l)
    BY <1>1, <1>6 DEF IsInjective
  <2> QED
    BY <1>1, <1>5, <2>1
<1>10. ToSet(r) = ToSet(q) \ {q[i]}
  <2>1. ToSet(r) \subseteq ToSet(q) \ {q[i]}
    BY <1>1, <1>6, <1>8 DEF ToSet, IsInjective
  <2>2. ToSet(q) \ {q[i]} \subseteq ToSet(r)
    <3> SUFFICES ASSUME NEW n \in 1..Len(q), q[n] # q[i] PROVE q[n] \in ToSet(r)
      BY <1>1 DEF ToSet
    <3>1. PICK k \in 1..Len(r) : Old(k) = n
      BY <1>7
    <3> QED
      BY <1>6, <1>8, <3>1 DEF ToSet
  <2> QED
    BY <2>1, <2>2
<1> QED
  BY <1>5, <1>9, <1>10

LEMMA QueueTail ==
  ASSUME NEW S, NEW q \in Seq(S), IsInjective(q), q # <<>>
  PROVE  /\ Tail(q) \in Seq(S) /\ IsInjective(Tail(q)) /\ Head(q) \in S
         /\ Head(q) \in ToSet(q) /\ ToSet(Tail(q)) = ToSet(q) \ {Head(q)}
<1>1. /\ Tail(q) \in Seq(S) /\ Len(q) \in Nat /\ Len(q) # 0 /\ DOMAIN q = 1..Len(q)
      /\ Head(q) = q[1] /\ 1 \in 1..Len(q)
      /\ Len(Tail(q)) = Len(q) - 1 /\ DOMAIN Tail(q) = 1..(Len(q) - 1)
  OBVIOUS
<1>2. \A i \in 1..(Len(q) - 1) : Tail(q)[i] = q[i + 1] /\ i + 1 \in 1..Len(q) /\ i + 1 # 1
  BY <1>1
<1>3. \A n \in 1..Len(q) : n # 1 => n - 1 \in 1..(Len(q) - 1) /\ n = (n - 1) + 1
  BY <1>1
<1>4. IsInjective(Tail(q))
  BY <1>1, <1>2 DEF IsInjective
<1>5. ToSet(Tail(q)) \subseteq ToSet(q) \ {Head(q)}
  BY <1>1, <1>2 DEF ToSet, IsInjective
<1>6. ToSet(q) \ {Head(q)} \subseteq ToSet(Tail(q))
  <2> SUFFICES ASSUME NEW n \in 1..Len(q), q[n] # q[1] PROVE q[n] \in ToSet(Tail(q))
    BY <1>1 DEF ToSet
  <2>1. n - 1 \in 1..(Len(q) - 1) /\ Tail(q)[n - 1] = q[n]
    BY <1>2, <1>3
  <2> QED
    BY <1>1, <2>1 DEF ToSet
<1>7. Head(q) \in S /\ Head(q) \in ToSet(q)
  BY <1>1 DEF ToSet
<1> QED
  BY <1>1, <1>4, <1>5, <1>6, <1>7

-----------------------------------------------------------------------------
(* The connections                                                         *)

Handlers == [pc : {"unused", "load", "read", "ended"}, client : Clients, lastId : 0..MaxEvents,
             stopped : BOOLEAN, closed : BOOLEAN]

\* The states of the handlers and the streams; the worker ends a full stream.
Typed ==
  /\ stream \in [Jobs -> Seq(Types)]
  /\ \A j \in Jobs : Len(stream[j]) <= MaxEvents /\ (Len(stream[j]) = MaxEvents => Ended(j))
  /\ known \subseteq Jobs /\ net \in [Connections -> NetStates]
  /\ handler \in [Connections -> Handlers] /\ faults \in 0..MaxFaults

\* One command of each handler that reads, in the order they came.
QueueInv ==
  /\ xread \in Seq(Connections) /\ IsInjective(xread)
  /\ ToSet(xread) = {h \in Connections : Reading(h)}

\* The events 1 to n, which is all that a client has ever got.
First(n) == [i \in 1..n |-> i]

\* A client has the first events of its job.  Its open connection, of which there
\* is one at most, goes on after them; what a connection that it has left goes on
\* after is in the stream.
GotInv ==
  /\ got \in [Clients -> Seq(Nat)]
  /\ \A c \in Clients : got[c] = First(Len(got[c])) /\ Len(got[c]) <= Len(stream[JobFor[c]])
  /\ \A h \in Connections :
       /\ handler[h].lastId <= Len(stream[JobOf(h)])
       /\ net[h] = "open" => handler[h].lastId = Len(got[handler[h].client])
  /\ \A g, h \in Connections :
       (net[g] = "open" /\ net[h] = "open" /\ handler[g].client = handler[h].client) => g = h

StreamInv == Typed /\ QueueInv /\ GotInv

LEMMA HandlerJob ==
  ASSUME Typed, NEW h \in Connections
  PROVE  /\ handler[h] \in Handlers /\ handler[h].client \in Clients /\ JobOf(h) \in Jobs
         /\ stream[JobOf(h)] \in Seq(Types) /\ Len(stream[JobOf(h)]) \in Nat
         /\ Len(stream[JobOf(h)]) <= MaxEvents /\ Over(h) \in Handlers
         /\ handler[h].lastId \in 0..MaxEvents
<1>1. handler[h] \in Handlers /\ handler[h].client \in Clients /\ handler[h].lastId \in 0..MaxEvents
  BY DEF Typed, Handlers
<1>2. JobOf(h) \in Jobs
  BY <1>1, JobForAssumption DEF JobOf
<1>3. Over(h) \in Handlers
  BY <1>1, StreamAssumption DEF Over, Handler, Handlers
<1> QED
  BY <1>1, <1>2, <1>3 DEF Typed

\* The loop stands at most at the end of the stream.
LEMMA WrittenUpTo ==
  ASSUME Typed, NEW h \in Connections, handler[h].lastId <= Len(stream[JobOf(h)])
  PROVE  WrittenTo(h) \in Nat /\ handler[h].lastId <= WrittenTo(h)
         /\ WrittenTo(h) <= Len(stream[JobOf(h)])
<1> DEFINE events == stream[JobOf(h)]
           ends == {i \in handler[h].lastId + 1 .. Len(events) : events[i] \in Terminal}
<1>1. Len(events) \in Nat /\ handler[h].lastId \in Nat
  BY HandlerJob, StreamAssumption
<1>2. WrittenTo(h) = IF ends = {} THEN Len(events) ELSE Min(ends)
  BY DEF WrittenTo
<1>3. CASE ends = {}
  BY <1>1, <1>2, <1>3
<1>4. CASE ends # {}
  <2>1. ends \subseteq handler[h].lastId + 1 .. Len(events) /\ ends \subseteq Nat
    BY <1>1
  <2>2. Min(ends) \in ends
    BY <1>4, <2>1, MinOfNumbers
  <2> QED
    BY <1>1, <1>2, <1>4, <2>1, <2>2
<1> QED
  BY <1>3, <1>4

\* What a handler becomes.
LEMMA HandlerType ==
  ASSUME Typed, GotInv, NEW h \in Connections,
         \/ \E c \in Clients : Connect(h, c)
         \/ LoadJob(h) \/ Relay(h) \/ RelayThrows(h) \/ CloseEvent(h)
  PROVE  \E x \in Handlers : handler' = [handler EXCEPT ![h] = x]
<1>1. handler[h] \in Handlers /\ Over(h) \in Handlers
  BY HandlerJob
<1>2. ASSUME NEW c \in Clients, Connect(h, c)
      PROVE  \E x \in Handlers : handler' = [handler EXCEPT ![h] = x]
  <2>1. LastEventId(c) \in 0..MaxEvents
    <3>1. /\ got[c] \in Seq(Nat) /\ got[c] = First(Len(got[c])) /\ Len(got[c]) \in Nat
          /\ Len(got[c]) <= Len(stream[JobFor[c]]) /\ Len(stream[JobFor[c]]) <= MaxEvents
          /\ Len(stream[JobFor[c]]) \in Nat
      BY JobForAssumption DEF GotInv, Typed
    <3>2. CASE got[c] = <<>>
      BY <3>2, StreamAssumption DEF LastEventId
    <3>3. CASE got[c] # <<>>
      <4>1. Len(got[c]) \in 1..Len(got[c])
        BY <3>1, <3>3
      <4>2. Last(got[c]) = Len(got[c])
        BY <3>1, <4>1 DEF First, Last
      <4> QED
        BY <3>1, <3>3, <4>2, StreamAssumption DEF LastEventId
    <3> QED
      BY <3>2, <3>3
  <2>2. Handler("load", c, LastEventId(c)) \in Handlers
    BY <2>1 DEF Handler, Handlers
  <2> QED
    BY <1>2, <2>2 DEF Connect
<1>3. CASE LoadJob(h)
  <2>1. [handler[h] EXCEPT !.pc = "read"] \in Handlers
    BY <1>1 DEF Handlers
  <2> QED
    BY <1>1, <1>3, <2>1 DEF LoadJob, EndResponse
<1>4. CASE Relay(h)
  <2>1. handler[h].lastId <= Len(stream[JobOf(h)])
    BY DEF GotInv
  <2>2. WrittenTo(h) \in 0..MaxEvents
    BY <2>1, WrittenUpTo, HandlerJob, StreamAssumption
  <2>3. [handler[h] EXCEPT !.lastId = WrittenTo(h)] \in Handlers
    BY <1>1, <2>2 DEF Handlers
  <2>4. \E x \in {[handler[h] EXCEPT !.lastId = WrittenTo(h)], Over(h)} :
          handler' = [handler EXCEPT ![h] = x]
    BY <1>4 DEF Relay, Answer, Typed
  <2> QED
    BY <1>1, <2>3, <2>4
<1>5. CASE RelayThrows(h)
  BY <1>1, <1>5 DEF RelayThrows, EndResponse
<1>6. CASE CloseEvent(h)
  <2> DEFINE x == [handler[h] EXCEPT !.closed = TRUE, !.stopped = Reading(h)]
  <2>1. x \in Handlers
    <3>1. Reading(h) \in BOOLEAN
      BY DEF Reading
    <3> QED
      BY <1>1, <3>1 DEF Handlers
  <2>2. handler' = [handler EXCEPT ![h] = x]
    BY <1>6 DEF CloseEvent, Typed, Handlers
  <2> QED
    BY <2>1, <2>2, Zenon
<1> QED
  BY <1>2, <1>3, <1>4, <1>5, <1>6

\* The steps of a connection, and of what is around it.
ConnectionStep(h) ==
  \/ \E c \in Clients : Connect(h, c)
  \/ LoadJob(h) \/ Relay(h) \/ RelayThrows(h) \/ CloseEvent(h) \/ ClientLeaves(h)

LEMMA NextSteps ==
  [Next]_vars <=> \/ UNCHANGED vars \/ Crash
                  \/ \E h \in Connections : ConnectionStep(h)
                  \/ \E j \in Jobs : AddEvent(j) \/ ExpireJob(j)
BY DEF Next, ConnectionStep

LEMMA FaultType == ASSUME Typed, Fault PROVE faults' \in 0..MaxFaults
BY StreamAssumption DEF Fault, Typed

LEMMA ConnectionType ==
  ASSUME Typed, GotInv, NEW h \in Connections, ConnectionStep(h)
  PROVE  Typed'
<1>1. stream' = stream /\ known' = known
  BY Zenon DEF ConnectionStep, Connect, Arrives, LoadJob, Relay, Answer, RelayThrows, CloseEvent,
               ClientLeaves
<1>2. handler' \in [Connections -> Handlers]
  <2>1. CASE ClientLeaves(h)
    BY <2>1 DEF ClientLeaves, Typed
  <2>2. CASE ~ClientLeaves(h)
    <3>1. PICK x \in Handlers : handler' = [handler EXCEPT ![h] = x]
      BY <2>2, HandlerType DEF ConnectionStep
    <3> QED
      BY <3>1 DEF Typed
  <2> QED
    BY <2>1, <2>2
<1>3. net' \in [Connections -> NetStates]
  <2>1. net \in [Connections -> NetStates] /\ {"open", "left", "ended"} \subseteq NetStates
    BY DEF Typed, NetStates
  <2>2. CASE Relay(h)
    <3>1. \E x \in NetStates : net' = [net EXCEPT ![h] = x]
      BY <2>1, <2>2 DEF Relay, Answer
    <3> QED
      BY <2>1, <3>1
  <2>3. CASE ~Relay(h)
    BY <2>1, <2>3 DEF ConnectionStep, Connect, Arrives, LoadJob, RelayThrows, EndResponse,
                      CloseEvent, ClientLeaves
  <2> QED
    BY <2>2, <2>3
<1>4. faults' \in 0..MaxFaults
  <2>1. faults' = faults \/ Fault
    BY Zenon DEF ConnectionStep, Connect, Arrives, LoadJob, Relay, Answer, RelayThrows, CloseEvent,
                 ClientLeaves
  <2> QED
    BY <2>1, FaultType DEF Typed
<1> QED
  BY <1>1, <1>2, <1>3, <1>4 DEF Typed, Ended

LEMMA AddEventType ==
  ASSUME Typed, NEW j \in Jobs, AddEvent(j)
  PROVE  Typed' /\ \A k \in Jobs : Len(stream[k]) <= Len(stream'[k])
<1>1. UNCHANGED <<known, net, handler, faults>>
  BY DEF AddEvent
<1>2. PICK type \in IF Len(stream[j]) + 1 < MaxEvents THEN Types ELSE Terminal :
        stream' = [stream EXCEPT ![j] = Append(stream[j], type)]
  BY DEF AddEvent
<1>3. stream[j] \in Seq(Types) /\ Len(stream[j]) \in Nat /\ type \in Types
  BY <1>2 DEF Typed, Types, Terminal
<1>4. Len(stream[j]) # MaxEvents /\ Len(stream[j]) <= MaxEvents
  BY DEF AddEvent, Typed
<1>5. /\ stream'[j] = Append(stream[j], type) /\ stream'[j] \in Seq(Types)
      /\ Len(stream'[j]) = Len(stream[j]) + 1
      /\ stream'[j][Len(stream[j]) + 1] = type
      /\ \A k \in Jobs \ {j} : stream'[k] = stream[k]
  BY <1>2, <1>3 DEF Typed
<1>6. Len(stream'[j]) <= MaxEvents
  BY <1>3, <1>4, <1>5, StreamAssumption
<1>7. Len(stream'[j]) = MaxEvents => Ended(j)'
  <2> SUFFICES ASSUME Len(stream'[j]) = MaxEvents PROVE Ended(j)'
    OBVIOUS
  <2>1. type \in Terminal
    BY <1>2, <1>3, <1>5
  <2>2. stream'[j] # <<>>
    BY <1>3, <1>5
  <2> QED
    BY <1>5, <2>1, <2>2 DEF Ended, Last
<1>8. \A k \in Jobs \ {j} : Ended(k)' = Ended(k)
  BY <1>5 DEF Ended
<1>9. stream' \in [Jobs -> Seq(Types)]
  BY <1>2, <1>5 DEF Typed
<1>10. \A k \in Jobs : Len(stream'[k]) <= MaxEvents /\ (Len(stream'[k]) = MaxEvents => Ended(k)')
  BY <1>5, <1>6, <1>7, <1>8 DEF Typed
<1>11. \A k \in Jobs : Len(stream[k]) <= Len(stream'[k])
  <2>1. \A k \in Jobs : Len(stream[k]) \in Nat
    BY DEF Typed
  <2> QED
    BY <1>5, <2>1
<1> QED
  BY <1>1, <1>9, <1>10, <1>11 DEF Typed

LEMMA CrashType == ASSUME Typed, Crash PROVE Typed'
<1>1. stream' = stream /\ known' = known
  BY DEF Crash
<1>2. handler' \in [Connections -> Handlers]
  BY HandlerJob DEF Crash, Typed
<1>3. net' \in [Connections -> NetStates]
  BY DEF Crash, Typed, NetStates
<1>4. faults' \in 0..MaxFaults
  BY FaultType DEF Crash
<1> QED
  BY <1>1, <1>2, <1>3, <1>4 DEF Typed, Ended

LEMMA TypeStep == ASSUME Typed, GotInv, [Next]_vars PROVE Typed'
<1>1. CASE UNCHANGED vars
  BY <1>1 DEF vars, Typed, Ended
<1>2. ASSUME NEW j \in Jobs, ExpireJob(j) PROVE Typed'
  BY <1>2 DEF ExpireJob, Typed, Ended
<1> QED
  BY <1>1, <1>2, ConnectionType, AddEventType, CrashType, NextSteps

\* A step that changes whether one handler reads, if any.
LEMMA QueueStep == ASSUME Typed, Typed', QueueInv, [Next]_vars PROVE QueueInv'
<1> DEFINE Readers == {h \in Connections : Reading(h)}
<1>1. CASE xread' = xread /\ \A h \in Connections : Reading(h)' = Reading(h)
  BY <1>1 DEF QueueInv
<1>2. CASE UNCHANGED vars \/ \E j \in Jobs : AddEvent(j) \/ ExpireJob(j)
  <2>1. xread' = xread /\ handler' = handler
    BY <1>2 DEF vars, AddEvent, ExpireJob
  <2> QED
    BY <1>1, <2>1 DEF Reading
<1>3. CASE Crash
  <2>1. xread' = <<>> /\ \A h \in Connections : handler'[h].pc \in {"unused", "ended"}
    BY <1>3 DEF Crash, Over, Handler
  <2>2. DOMAIN xread' = {}
    BY <2>1
  <2>3. xread' \in Seq(Connections) /\ IsInjective(xread') /\ ToSet(xread') = {}
    BY <2>1, <2>2 DEF IsInjective, ToSet
  <2>4. Readers' = {}
    BY <2>1 DEF Reading
  <2> QED
    BY <2>3, <2>4 DEF QueueInv
<1>4. ASSUME NEW h \in Connections, ConnectionStep(h) PROVE QueueInv'
  <2>1. handler[h] \in Handlers /\ handler' = [handler EXCEPT ![h] = handler'[h]]
    <3>1. \A g \in Connections \ {h} : handler'[g] = handler[g]
      <4>1. CASE ClientLeaves(h)
        BY <4>1 DEF ClientLeaves
      <4>2. CASE ~ClientLeaves(h)
        <5>1. \E x : handler' = [handler EXCEPT ![h] = x]
          <6>1. CASE LoadJob(h)
            BY <6>1 DEF LoadJob, EndResponse, Typed
          <6>2. CASE Relay(h)
            BY <6>2, Zenon DEF Relay, Answer
          <6>3. CASE RelayThrows(h)
            BY <6>3, Zenon DEF RelayThrows, EndResponse
          <6>4. CASE CloseEvent(h)
            BY <6>4 DEF CloseEvent, Typed
          <6>5. CASE \E c \in Clients : Connect(h, c)
            BY <6>5, Zenon DEF Connect
          <6> QED
            BY <1>4, <4>2, <6>1, <6>2, <6>3, <6>4, <6>5 DEF ConnectionStep
        <5> QED
          BY <5>1 DEF Typed
      <4> QED
        BY <4>1, <4>2
    <3> QED
      BY <3>1 DEF Typed
  <2>2. \A g \in Connections \ {h} : Reading(g)' = Reading(g)
    BY <2>1 DEF Reading, Typed
  <2>3. CASE xread' = xread /\ Reading(h)' = Reading(h)
    BY <1>1, <2>2, <2>3
  <2>4. CASE ~Reading(h) /\ Reading(h)' /\ xread' = Append(xread, h)
    <3>1. h \notin ToSet(xread)
      BY <2>4 DEF QueueInv
    <3>2. xread' \in Seq(Connections) /\ IsInjective(xread') /\ ToSet(xread') = ToSet(xread) \cup {h}
      BY <2>4, <3>1, QueueAppend DEF QueueInv
    <3>3. Readers' = Readers \cup {h}
      BY <2>2, <2>4
    <3> QED
      BY <3>2, <3>3 DEF QueueInv
  <2>5. CASE ~Reading(h)' /\ /\ xread' \in Seq(Connections) /\ IsInjective(xread')
                             /\ ToSet(xread') = ToSet(xread) \ {h}
    <3>1. Readers' = Readers \ {h}
      BY <2>2, <2>5
    <3> QED
      BY <2>5, <3>1 DEF QueueInv
  <2>6. Over(h).pc = "ended"
    BY DEF Over, Handler
  <2>7. CASE \E c \in Clients : Connect(h, c)
    <3>1. handler'[h].pc = "load" /\ handler[h].pc = "unused" /\ xread' = xread
      BY <2>7 DEF Connect, Arrives, Handler, Typed
    <3> QED
      BY <2>3, <3>1 DEF Reading
  <2>8. CASE LoadJob(h)
    <3>1. CASE JobOf(h) \in known
      <4>1. handler[h].pc = "load" /\ handler' = [handler EXCEPT ![h].pc = "read"]
            /\ xread' = Append(xread, h)
        BY <2>8, <3>1 DEF LoadJob
      <4>2. handler'[h].pc = "read"
        BY <4>1 DEF Typed, Handlers
      <4> QED
        BY <2>4, <4>1, <4>2 DEF Reading
    <3>2. CASE JobOf(h) \notin known
      <4>1. handler[h].pc = "load" /\ handler'[h] = Over(h) /\ xread' = xread
        BY <2>8, <3>2 DEF LoadJob, EndResponse, Typed
      <4> QED
        BY <2>3, <2>6, <4>1 DEF Reading
    <3> QED
      BY <3>1, <3>2
  <2>9. CASE Relay(h)
    <3>1. xread # <<>> /\ Head(xread) = h
      BY <2>9 DEF Relay, Answer
    <3>2. /\ Tail(xread) \in Seq(Connections) /\ IsInjective(Tail(xread))
          /\ ToSet(Tail(xread)) = ToSet(xread) \ {h} /\ h \in ToSet(xread)
      BY <3>1, QueueTail DEF QueueInv
    <3>3. Reading(h)
      BY <3>2 DEF QueueInv
    <3>4. \/ xread' = Append(Tail(xread), h) /\ handler'[h] = [handler[h] EXCEPT !.lastId = WrittenTo(h)]
          \/ xread' = Tail(xread) /\ handler'[h] = Over(h)
      BY <2>9 DEF Relay, Answer, Typed
    <3>5. CASE xread' = Tail(xread) /\ handler'[h] = Over(h)
      BY <2>5, <2>6, <3>2, <3>5 DEF Reading
    <3>6. CASE xread' = Append(Tail(xread), h) /\ handler'[h] = [handler[h] EXCEPT !.lastId = WrittenTo(h)]
      <4>1. Reading(h)'
        BY <2>1, <3>3, <3>6 DEF Reading, Handlers
      <4>2. /\ xread' \in Seq(Connections) /\ IsInjective(xread')
            /\ ToSet(xread') = (ToSet(xread) \ {h}) \cup {h}
        <5>1. h \notin ToSet(Tail(xread))
          BY <3>2
        <5> DEFINE rest == Tail(xread)
        <5> HIDE DEF rest
        <5>2. rest \in Seq(Connections) /\ IsInjective(rest) /\ h \notin ToSet(rest)
          BY <3>2, <5>1 DEF rest
        <5>3. /\ Append(rest, h) \in Seq(Connections) /\ IsInjective(Append(rest, h))
              /\ ToSet(Append(rest, h)) = ToSet(rest) \cup {h}
          BY <5>2, QueueAppend
        <5> QED
          BY <3>2, <3>6, <5>3 DEF rest
      <4>3. ToSet(xread') = ToSet(xread) /\ Readers' = Readers
        BY <2>2, <3>2, <3>3, <4>1, <4>2
      <4> QED
        BY <4>2, <4>3 DEF QueueInv
    <3> QED
      BY <3>4, <3>5, <3>6
  <2>10. CASE RelayThrows(h)
    <3>1. handler'[h] = Over(h)
      BY <2>10 DEF RelayThrows, EndResponse, Typed
    <3>2. CASE Reading(h)
      <4>1. PICK i \in 1..Len(xread) : xread[i] = h /\ xread' = RemoveAt(xread, i)
        BY <2>10, <3>2 DEF RelayThrows
      <4>2. /\ xread' \in Seq(Connections) /\ IsInjective(xread')
            /\ ToSet(xread') = ToSet(xread) \ {h}
        BY <4>1, QueueRemove DEF QueueInv
      <4> QED
        BY <2>5, <2>6, <3>1, <4>2 DEF Reading
    <3>3. CASE ~Reading(h)
      BY <2>3, <2>6, <2>10, <3>1, <3>3 DEF RelayThrows, Reading
    <3> QED
      BY <3>2, <3>3
  <2>11. CASE CloseEvent(h) \/ ClientLeaves(h)
    <3>1. xread' = xread /\ handler'[h].pc = handler[h].pc
      BY <2>1, <2>11 DEF CloseEvent, ClientLeaves, Typed, Handlers
    <3> QED
      BY <2>3, <3>1 DEF Reading
  <2> QED
    BY <1>4, <2>7, <2>8, <2>9, <2>10, <2>11 DEF ConnectionStep
<1> QED
  BY <1>2, <1>3, <1>4, NextSteps

LEMMA FirstMore ==
  ASSUME NEW n \in Nat, NEW k \in Nat
  PROVE  /\ First(n) \in Seq(Nat) /\ Len(First(n)) = n
         /\ First(n) \o [i \in 1..k |-> n + i] = First(n + k)
<1> DEFINE more == [i \in 1..k |-> n + i]
<1>1. First(n) \in Seq(Nat) /\ Len(First(n)) = n /\ \A i \in 1..n : First(n)[i] = i
  BY DEF First
<1>2. more \in Seq(Nat) /\ Len(more) = k /\ \A i \in 1..k : more[i] = n + i
  OBVIOUS
<1>3. /\ First(n + k) \in Seq(Nat) /\ Len(First(n + k)) = n + k
      /\ \A i \in 1..(n + k) : First(n + k)[i] = i
  BY DEF First
<1> HIDE DEF more
<1>4. /\ First(n) \o more \in Seq(Nat) /\ Len(First(n) \o more) = Len(First(n)) + Len(more)
      /\ \A i \in 1..(Len(First(n)) + Len(more)) : (First(n) \o more)[i] =
           IF i <= Len(First(n)) THEN First(n)[i] ELSE more[i - Len(First(n))]
  BY <1>1, <1>2, ConcatProperties, Zenon
<1>5. \A i \in 1..(n + k) : (First(n) \o more)[i] = i
  BY <1>1, <1>2, <1>4
<1>6. First(n) \o more = First(n + k)
  BY <1>1, <1>2, <1>3, <1>4, <1>5, SeqEqual
<1> QED
  BY <1>1, <1>6 DEF more

\* A client without an open connection is told the id of its last event.
LEMMA LastEvent ==
  ASSUME Typed, GotInv, NEW c \in Clients
  PROVE  LastEventId(c) = Len(got[c]) /\ Len(got[c]) \in Nat
<1>1. got[c] \in Seq(Nat) /\ got[c] = First(Len(got[c])) /\ Len(got[c]) \in Nat
  BY DEF GotInv
<1>2. CASE got[c] = <<>>
  BY <1>1, <1>2 DEF LastEventId
<1>3. CASE got[c] # <<>>
  <2>1. Len(got[c]) \in 1..Len(got[c])
    BY <1>1, <1>3
  <2> QED
    BY <1>1, <1>3, <2>1 DEF LastEventId, First, Last
<1> QED
  BY <1>1, <1>2, <1>3

\* A step after which every client has what it had, and no connection is open
\* that was not.
LEMMA GotKept ==
  ASSUME Typed, GotInv, got' = got,
         \A j \in Jobs : Len(stream[j]) <= Len(stream'[j]) /\ Len(stream'[j]) \in Nat,
         \A h \in Connections :
           /\ handler'[h].client = handler[h].client
           /\ handler'[h].lastId \in {0, handler[h].lastId}
           /\ net'[h] = "open" => net[h] = "open" /\ handler'[h].lastId = handler[h].lastId
  PROVE  GotInv'
<1>1. \A j \in Jobs : Len(stream[j]) \in Nat
  BY DEF Typed
<1>2. \A c \in Clients : JobFor[c] \in Jobs /\ Len(got[c]) \in Nat
  BY JobForAssumption DEF GotInv
<1>3. \A c \in Clients : got[c] = First(Len(got[c])) /\ Len(got[c]) <= Len(stream'[JobFor[c]])
  <2> SUFFICES ASSUME NEW c \in Clients
               PROVE  got[c] = First(Len(got[c])) /\ Len(got[c]) <= Len(stream'[JobFor[c]])
    OBVIOUS
  <2>1. got[c] = First(Len(got[c])) /\ Len(got[c]) <= Len(stream[JobFor[c]])
    BY DEF GotInv
  <2> QED
    BY <1>1, <1>2, <2>1
<1>4. ASSUME NEW h \in Connections
      PROVE  handler'[h].lastId <= Len(stream'[JobOf(h)'])
  <2>1. JobOf(h)' = JobOf(h) /\ JobOf(h) \in Jobs /\ handler[h].lastId \in Nat
    BY HandlerJob, StreamAssumption DEF JobOf
  <2>2. handler[h].lastId <= Len(stream[JobOf(h)])
    BY DEF GotInv
  <2> QED
    BY <1>1, <2>1, <2>2
<1>5. \A h \in Connections :
        net'[h] = "open" => handler'[h].lastId = Len(got'[handler'[h].client])
  BY DEF GotInv
<1>6. \A g, h \in Connections :
        (net'[g] = "open" /\ net'[h] = "open" /\ handler'[g].client = handler'[h].client) => g = h
  BY DEF GotInv
<1> QED
  BY <1>3, <1>4, <1>5, <1>6 DEF GotInv, JobOf

LEMMA ConnectGot ==
  ASSUME Typed, GotInv, NEW h \in Connections, NEW c \in Clients, Connect(h, c)
  PROVE  GotInv'
<1>1. /\ stream' = stream /\ got' = got
      /\ \A g \in Connections : net[g] = "open" => handler[g].client # c
      /\ net' = [net EXCEPT ![h] = "open"]
      /\ handler' = [handler EXCEPT ![h] = Handler("load", c, LastEventId(c))]
  BY DEF Connect, Arrives
<1>2. /\ handler'[h].client = c /\ handler'[h].lastId = Len(got[c]) /\ Len(got[c]) \in Nat
      /\ \A g \in Connections \ {h} : handler'[g] = handler[g] /\ net'[g] = net[g]
  BY <1>1, LastEvent DEF Typed, Handler
<1>3. Len(got[c]) <= Len(stream[JobFor[c]])
  BY DEF GotInv
<1>4. \A g \in Connections : handler'[g].lastId <= Len(stream'[JobOf(g)'])
  BY <1>1, <1>2, <1>3 DEF GotInv, JobOf
<1>5. \A g \in Connections :
        net'[g] = "open" => handler'[g].lastId = Len(got'[handler'[g].client])
  BY <1>1, <1>2 DEF GotInv
<1>6. \A g, k \in Connections :
        (net'[g] = "open" /\ net'[k] = "open" /\ handler'[g].client = handler'[k].client) => g = k
  BY <1>1, <1>2 DEF GotInv
<1> QED
  BY <1>1, <1>4, <1>5, <1>6 DEF GotInv, JobOf

LEMMA RelayGot ==
  ASSUME Typed, GotInv, NEW h \in Connections, Relay(h)
  PROVE  GotInv'
<1> DEFINE c == handler[h].client
           from == handler[h].lastId
           to == WrittenTo(h)
<1>1. /\ c \in Clients /\ JobOf(h) = JobFor[c] /\ from \in Nat
      /\ Len(stream[JobOf(h)]) \in Nat /\ handler[h] \in Handlers
  BY HandlerJob, StreamAssumption DEF JobOf
<1>2. to \in Nat /\ from <= to /\ to <= Len(stream[JobOf(h)])
  BY WrittenUpTo DEF GotInv
<1>3. stream' = stream
  BY DEF Relay, Answer
<1>4. PICK n \in 0..(to - from), x \in {[handler[h] EXCEPT !.lastId = to], Over(h)} :
        /\ net[h] # "open" => n = 0
        /\ got' = [got EXCEPT ![c] = @ \o [i \in 1..n |-> from + i]]
        /\ handler' = [handler EXCEPT ![h] = x]
        /\ \A g \in Connections \ {h} : net'[g] = net[g]
        /\ net'[h] = "open" => net[h] = "open" /\ n = to - from /\ x = [handler[h] EXCEPT !.lastId = to]
  <2>1. PICK n \in 0..(to - from) :
          /\ net[h] # "open" => n = 0
          /\ got' = [got EXCEPT ![c] = @ \o [i \in 1..n |-> from + i]]
          /\ \E goesOn \in BOOLEAN :
               /\ handler' = [handler EXCEPT ![h] = IF goesOn THEN [@ EXCEPT !.lastId = to] ELSE Over(h)]
               /\ net' = [net EXCEPT ![h] = IF @ # "open" THEN @
                                            ELSE IF n < to - from THEN "left"
                                            ELSE IF goesOn THEN "open" ELSE "ended"]
    BY DEF Relay, Answer
  <2>2. PICK goesOn \in BOOLEAN :
          /\ handler' = [handler EXCEPT ![h] = IF goesOn THEN [handler[h] EXCEPT !.lastId = to] ELSE Over(h)]
          /\ net' = [net EXCEPT ![h] = IF net[h] # "open" THEN net[h]
                                       ELSE IF n < to - from THEN "left"
                                       ELSE IF goesOn THEN "open" ELSE "ended"]
    BY <2>1 DEF Typed
  <2> DEFINE x == IF goesOn THEN [handler[h] EXCEPT !.lastId = to] ELSE Over(h)
  <2>3. \A g \in Connections \ {h} : net'[g] = net[g]
    BY <2>2 DEF Typed
  <2>4. net'[h] = "open" => net[h] = "open" /\ ~(n < to - from) /\ goesOn
    BY <2>2 DEF Typed
  <2>5. ~(n < to - from) => n = to - from
    BY <1>1, <1>2
  <2> QED
    BY <2>1, <2>2, <2>3, <2>4, <2>5
<1>5. /\ handler'[h].client = c /\ handler'[h].lastId \in {0, to}
      /\ x = [handler[h] EXCEPT !.lastId = to] => handler'[h].lastId = to
      /\ \A g \in Connections \ {h} : handler'[g] = handler[g]
  <2>1. handler'[h] = x /\ \A g \in Connections \ {h} : handler'[g] = handler[g]
    BY <1>4 DEF Typed
  <2>2. CASE x = [handler[h] EXCEPT !.lastId = to]
    BY <1>1, <2>1, <2>2 DEF Handlers
  <2>3. CASE x = Over(h) /\ x # [handler[h] EXCEPT !.lastId = to]
    BY <2>1, <2>3 DEF Over, Handler
  <2> QED
    BY <1>4, <2>1, <2>2, <2>3
<1>6. /\ got[c] \in Seq(Nat) /\ Len(got[c]) \in Nat /\ got[c] = First(Len(got[c]))
      /\ Len(got[c]) <= Len(stream[JobFor[c]])
  BY <1>1 DEF GotInv
<1>7. /\ got'[c] = First(Len(got[c]) + n) /\ n \in Nat
      /\ net[h] = "open" => Len(got[c]) = from
  <2>1. CASE net[h] = "open"
    <3>1. from = Len(got[c])
      BY <2>1 DEF GotInv
    <3>2. got'[c] = First(from) \o [i \in 1..n |-> from + i]
      BY <1>1, <1>4, <1>6, <3>1 DEF GotInv
    <3>3. n \in Nat
      BY <1>1, <1>2
    <3>4. First(from) \o [i \in 1..n |-> from + i] = First(from + n)
      BY <1>1, <3>3, FirstMore
    <3> QED
      BY <3>1, <3>2, <3>3, <3>4
  <2>2. CASE net[h] # "open"
    <3>1. n = 0
      BY <1>4, <2>2
    <3>2. got'[c] = got[c] \o [i \in 1..n |-> from + i]
      BY <1>1, <1>4 DEF GotInv
    <3>3. [i \in 1..n |-> from + i] = <<>>
      BY <3>1
    <3>4. got'[c] = got[c]
      BY <1>6, <3>2, <3>3, ConcatEmptySeq
    <3> QED
      BY <1>6, <2>2, <3>1, <3>4
  <2> QED
    BY <2>1, <2>2
<1>8. Len(got'[c]) = Len(got[c]) + n /\ got'[c] \in Seq(Nat) /\ got'[c] = First(Len(got'[c]))
  <2>1. Len(got[c]) + n \in Nat
    BY <1>6, <1>7
  <2> QED
    BY <1>7, <2>1, FirstMore
<1>9. Len(got'[c]) <= Len(stream[JobFor[c]])
  BY <1>1, <1>2, <1>4, <1>6, <1>7, <1>8
<1>10. \A d \in Clients \ {c} : got'[d] = got[d]
  BY <1>4 DEF GotInv
<1>11. got' \in [Clients -> Seq(Nat)]
  BY <1>1, <1>4, <1>8, <1>10 DEF GotInv
<1>12. \A d \in Clients : got'[d] = First(Len(got'[d])) /\ Len(got'[d]) <= Len(stream'[JobFor[d]])
  BY <1>3, <1>8, <1>9, <1>10 DEF GotInv
<1>13. \A g \in Connections : handler'[g].lastId <= Len(stream'[JobOf(g)'])
  <2>1. handler'[h].lastId <= Len(stream[JobFor[c]])
    BY <1>1, <1>2, <1>5
  <2> QED
    BY <1>3, <1>5, <2>1 DEF GotInv, JobOf
<1>14. \A g, k \in Connections :
        (net'[g] = "open" /\ net'[k] = "open" /\ handler'[g].client = handler'[k].client) => g = k
  BY <1>4, <1>5 DEF GotInv
<1>15. ASSUME NEW g \in Connections, net'[g] = "open"
       PROVE  handler'[g].lastId = Len(got'[handler'[g].client])
  <2>1. CASE g = h
    <3>1. net[h] = "open" /\ n = to - from /\ handler'[h].lastId = to
      BY <1>4, <1>5, <1>15, <2>1
    <3>2. Len(got'[c]) = from + n
      BY <1>7, <1>8, <3>1
    <3>3. from + n = to
      BY <1>1, <1>2, <3>1
    <3> QED
      BY <1>5, <2>1, <3>1, <3>2, <3>3
  <2>2. CASE g # h
    <3>1. net[g] = "open" /\ handler'[g] = handler[g] /\ handler[g].client \in Clients
      BY <1>4, <1>5, <1>15, <2>2, HandlerJob
    <3>2. CASE handler[g].client = c
      <4>1. net[h] # "open"
        BY <2>2, <3>1, <3>2 DEF GotInv
      <4>2. n = 0 /\ Len(got'[c]) = Len(got[c])
        BY <1>4, <1>6, <1>8, <4>1
      <4> QED
        BY <3>1, <3>2, <4>2 DEF GotInv
    <3>3. CASE handler[g].client # c
      BY <1>10, <3>1, <3>3 DEF GotInv
    <3> QED
      BY <3>2, <3>3
  <2> QED
    BY <2>1, <2>2
<1> QED
  BY <1>11, <1>12, <1>13, <1>14, <1>15 DEF GotInv, JobOf

LEMMA GotStep == ASSUME Typed, Typed', GotInv, [Next]_vars PROVE GotInv'
<1>1. \A j \in Jobs : Len(stream[j]) \in Nat /\ Len(stream'[j]) \in Nat
  BY DEF Typed
<1>2. CASE UNCHANGED vars
  BY <1>1, <1>2, GotKept DEF vars
<1>3. ASSUME NEW j \in Jobs, AddEvent(j) \/ ExpireJob(j) PROVE GotInv'
  <2>1. got' = got /\ handler' = handler /\ net' = net
    BY <1>3 DEF AddEvent, ExpireJob
  <2>2. \A k \in Jobs : Len(stream[k]) <= Len(stream'[k])
    BY <1>1, <1>3, AddEventType DEF ExpireJob
  <2> QED
    BY <1>1, <2>1, <2>2, GotKept
<1>4. CASE Crash
  <2>1. /\ got' = got /\ stream' = stream
        /\ \A h \in Connections : net'[h] # "open" /\ handler'[h] \in {handler[h], Over(h)}
    BY <1>4 DEF Crash
  <2>2. \A h \in Connections : Over(h).client = handler[h].client /\ Over(h).lastId = 0
    BY DEF Over, Handler
  <2> QED
    BY <1>1, <2>1, <2>2, GotKept
<1>5. ASSUME NEW h \in Connections, LoadJob(h) \/ RelayThrows(h) \/ CloseEvent(h) \/ ClientLeaves(h)
      PROVE  GotInv'
  <2>1. got' = got /\ stream' = stream
    BY <1>5, Zenon DEF LoadJob, RelayThrows, CloseEvent, ClientLeaves
  <2>2. handler[h] \in Handlers
    BY HandlerJob
  <2>3. Over(h).client = handler[h].client /\ Over(h).lastId = 0
    BY DEF Over, Handler
  <2>4. CASE EndResponse(h)
    <3>1. /\ \A g \in Connections \ {h} : handler'[g] = handler[g] /\ net'[g] = net[g]
          /\ handler'[h] = Over(h) /\ net'[h] # "open"
      BY <2>4 DEF EndResponse, Typed
    <3> QED
      BY <1>1, <2>1, <2>3, <3>1, GotKept
  <2>5. CASE ~EndResponse(h)
    <3>1. /\ \A g \in Connections \ {h} : handler'[g] = handler[g] /\ net'[g] = net[g]
          /\ handler'[h].client = handler[h].client /\ handler'[h].lastId = handler[h].lastId
          /\ net'[h] = "open" => net[h] = "open"
      <4>1. CASE LoadJob(h)
        BY <2>2, <2>5, <4>1 DEF LoadJob, Typed, Handlers
      <4>2. CASE CloseEvent(h)
        BY <2>2, <4>2 DEF CloseEvent, Typed, Handlers
      <4>3. CASE ClientLeaves(h)
        BY <4>3 DEF ClientLeaves, Typed
      <4> QED
        BY <1>5, <2>5, <4>1, <4>2, <4>3 DEF RelayThrows
    <3> QED
      BY <1>1, <2>1, <3>1, GotKept
  <2> QED
    BY <2>4, <2>5
<1> QED
  BY <1>2, <1>3, <1>4, <1>5, ConnectGot, RelayGot, NextSteps DEF ConnectionStep

LEMMA InitStream == Init => StreamInv
<1> SUFFICES ASSUME Init PROVE StreamInv
  OBVIOUS
<1>1. (CHOOSE c \in Clients : TRUE) \in Clients
  BY StreamAssumption
<1>2. \A h \in Connections :
        handler[h] = Handler("unused", CHOOSE c \in Clients : TRUE, 0)
  BY DEF Init
<1>3. Handler("unused", CHOOSE c \in Clients : TRUE, 0) \in Handlers
  BY <1>1, StreamAssumption DEF Handler, Handlers
<1>4. handler \in [Connections -> Handlers]
  BY <1>3 DEF Init
<1>5. \A j \in Jobs : stream[j] = <<>> /\ stream[j] \in Seq(Types) /\ Len(stream[j]) = 0
  BY DEF Init
<1>6. Typed
  BY <1>4, <1>5, StreamAssumption DEF Init, Typed, NetStates
<1>7. QueueInv
  <2>1. xread = <<>> /\ DOMAIN xread = {}
    BY DEF Init
  <2>2. xread \in Seq(Connections) /\ IsInjective(xread) /\ ToSet(xread) = {}
    BY <2>1 DEF IsInjective, ToSet
  <2>3. {h \in Connections : Reading(h)} = {}
    <3>1. \A c : Handler("unused", c, 0).pc = "unused"
      BY DEF Handler
    <3>2. \A h \in Connections : handler[h].pc = "unused"
      BY <1>2, <3>1, Zenon
    <3> QED
      BY <3>2 DEF Reading
  <2> QED
    BY <2>2, <2>3 DEF QueueInv
<1>8. GotInv
  <2>1. got \in [Clients -> Seq(Nat)] /\ \A c \in Clients : Len(got[c]) = 0 /\ got[c] = <<>>
    BY DEF Init
  <2>2. \A c \in Clients : got[c] = First(Len(got[c]))
    BY <2>1 DEF First
  <2>3. \A c \in Clients : Len(got[c]) <= Len(stream[JobFor[c]])
    BY <1>5, <2>1, JobForAssumption
  <2>4. \A h \in Connections : handler[h].lastId = 0 /\ net[h] # "open" /\ JobOf(h) \in Jobs
    BY <1>2, <1>6, HandlerJob DEF Init, Handler
  <2> QED
    BY <1>5, <2>1, <2>2, <2>3, <2>4 DEF GotInv
<1> QED
  BY <1>6, <1>7, <1>8 DEF StreamInv

LEMMA StreamStep == StreamInv /\ [Next]_vars => StreamInv'
BY TypeStep, QueueStep, GotStep DEF StreamInv

LEMMA StreamInvariance == Spec => []StreamInv
BY InitStream, StreamStep, PTL DEF Spec

LEMMA StreamTypes == StreamInv => TypeOK
<1> SUFFICES ASSUME StreamInv PROVE TypeOK
  OBVIOUS
<1>1. stream \in [Jobs -> BoundedSeq(Types, MaxEvents)]
  <2>1. ASSUME NEW j \in Jobs PROVE stream[j] \in BoundedSeq(Types, MaxEvents)
    <3>1. stream[j] \in Seq(Types) /\ Len(stream[j]) \in 0..MaxEvents
      BY StreamAssumption DEF StreamInv, Typed
    <3>2. stream[j] \in [1..Len(stream[j]) -> Types]
      BY <3>1
    <3> QED
      BY <3>1, <3>2 DEF BoundedSeq, SeqOf
  <2> QED
    BY <2>1 DEF StreamInv, Typed
<1>2. DOMAIN got = Clients
  BY DEF StreamInv, GotInv
<1> QED
  BY <1>1, <1>2 DEF StreamInv, Typed, QueueInv, TypeOK, Handlers

\* A handler that reads has one command pending on the shared connection, and no
\* other has any: each answer finds the loop it belongs to, and a loop that ends
\* leaves no command behind, however many handlers share the connection.
THEOREM StreamTypeCorrect == Spec => []TypeOK
BY StreamInvariance, StreamTypes, PTL

\* Over any number of connections that break, are closed or end with the gateway,
\* the Last-Event-ID makes a client's events the first events of its job, in order,
\* none twice and none left out.
THEOREM EventsInOrder == Spec => []InOrderOnce
<1>1. StreamInv => InOrderOnce
  BY DEF StreamInv, GotInv, InOrderOnce, First
<1> QED
  BY <1>1, StreamInvariance, PTL
-----------------------------------------------------------------------------
(* The promise to the readers                                              *)

\* The events after the first k.
LEMMA NextEvents ==
  ASSUME NEW n \in Nat, NEW k \in Nat
  PROVE  [i \in 1..n |-> k + i] \in Seq(Nat) /\ Len([i \in 1..n |-> k + i]) = n
<1> DEFINE s == [i \in 1..n |-> k + i]
<1>1. s \in [1..n -> Nat]
  OBVIOUS
<1>2. s \in Seq(Nat)
  BY <1>1
<1>3. DOMAIN s = 1..n
  OBVIOUS
<1> QED
  BY <1>2, <1>3, LenProperties

\* What an answered command gives a client: the next events of its stream, or none.
LEMMA RelayDelivers ==
  ASSUME Typed, GotInv, GotInv', NEW h \in Connections, Relay(h)
  PROVE  [Delivery!Next]_<<stream, got>>
<1> DEFINE c == handler[h].client
           from == handler[h].lastId
           to == WrittenTo(h)
<1>1. /\ c \in Clients /\ JobOf(h) = JobFor[c] /\ JobFor[c] \in Jobs /\ stream' = stream
      /\ from \in Nat /\ to \in Nat
  <2>1. c \in Clients /\ JobOf(h) \in Jobs /\ from \in 0..MaxEvents
    BY HandlerJob
  <2>2. from <= Len(stream[JobOf(h)])
    BY DEF GotInv
  <2>3. to \in Nat
    BY <2>2, WrittenUpTo
  <2>4. JobOf(h) = JobFor[c]
    BY DEF JobOf
  <2>5. stream' = stream
    BY DEF Relay, Answer
  <2>6. from \in Nat
    BY <2>1, StreamAssumption
  <2> QED
    BY <2>1, <2>3, <2>4, <2>5, <2>6
<1>2. PICK n \in 0..(to - from) : got' = [got EXCEPT ![c] = @ \o [i \in 1..n |-> from + i]]
  BY DEF Relay, Answer
<1>3. got \in [Clients -> Seq(Nat)] /\ got[c] \in Seq(Nat) /\ n \in Nat
  BY <1>1, <1>2 DEF GotInv
<1>4. CASE n = 0
  <2>1. [i \in 1..n |-> from + i] = <<>>
    BY <1>4
  <2>2. got[c] \o [i \in 1..n |-> from + i] = got[c]
    BY <1>3, <2>1, ConcatEmptySeq
  <2>3. got' = [got EXCEPT ![c] = got[c]]
    BY <1>2, <2>2, Zenon
  <2>4. got' = got
    BY <1>3, <2>3
  <2> QED
    BY <1>1, <2>4
<1>5. CASE n # 0
  <2> DEFINE more == [i \in 1..n |-> from + i]
             m == Len(got'[c])
  <2>1. more \in Seq(Nat) /\ Len(more) = n
    BY <1>1, <1>3, NextEvents
  <2>2. got'[c] = got[c] \o more
    BY <1>1, <1>2, <1>3
  <2> HIDE DEF more
  <2>3. Len(got[c] \o more) = Len(got[c]) + n
    BY <1>3, <2>1, ConcatProperties
  <2>4. Len(got[c]) \in Nat /\ m \in Nat /\ m > Len(got[c])
    <3>1. Len(got[c]) \in Nat
      BY <1>3
    <3>2. m = Len(got[c]) + n
      BY <2>2, <2>3, Zenon
    <3> QED
      BY <1>3, <1>5, <3>1, <3>2
  <2>5. got'[c] = First(m) /\ m <= Len(stream[JobFor[c]])
    BY <1>1 DEF GotInv
  <2>6. got' = [got EXCEPT ![c] = First(m)]
    BY <1>1, <1>2, <1>3, <2>5
  <2>7. Len(stream[JobFor[c]]) \in Nat /\ m \in 1..Len(stream[JobFor[c]])
    BY <1>1, <2>4, <2>5 DEF Typed
  <2>8. Delivery!Receive(c, m)
    BY <1>1, <2>4, <2>6 DEF Delivery!Receive, First
  <2> QED
    BY <1>1, <2>7, <2>8 DEF Delivery!Next
<1> QED
  BY <1>4, <1>5

\* The worker adds to a stream that has not ended: a terminal event can only be the
\* last one.
LastInv == \A j \in Jobs : \A i \in 1..Len(stream[j]) : stream[j][i] = "done" => i = Len(stream[j])

LEMMA LastStep == ASSUME Typed, LastInv, [Next]_vars PROVE LastInv'
<1>1. ASSUME NEW j \in Jobs, AddEvent(j) PROVE LastInv'
  <2>1. PICK type \in Types : stream' = [stream EXCEPT ![j] = Append(@, type)]
    BY <1>1 DEF AddEvent, Types, Terminal
  <2>2. stream[j] \in Seq(Types) /\ Len(stream[j]) \in Nat /\ ~Ended(j)
    BY <1>1 DEF Typed, AddEvent
  <2>3. \A i \in 1..Len(stream[j]) : stream[j][i] # "done"
    BY <2>2 DEF LastInv, Ended, Terminal, Last
  <2>4. \A i \in 1..(Len(stream[j]) + 1) : i \in 1..Len(stream[j]) \/ i = Len(stream[j]) + 1
    BY <2>2
  <2>5. /\ stream'[j] = Append(stream[j], type) /\ Len(stream'[j]) = Len(stream[j]) + 1
        /\ \A i \in 1..Len(stream[j]) : stream'[j][i] = stream[j][i]
    BY <2>1, <2>2 DEF Typed
  <2>6. \A k \in Jobs \ {j} : stream'[k] = stream[k]
    BY <2>1 DEF Typed
  <2>7. \A i \in 1..Len(stream'[j]) : stream'[j][i] = "done" => i = Len(stream'[j])
    BY <2>3, <2>4, <2>5
  <2> QED
    BY <2>6, <2>7 DEF LastInv
<1>2. CASE UNCHANGED stream
  BY <1>2 DEF LastInv
<1>3. ASSUME NEW h \in Connections, ConnectionStep(h) PROVE UNCHANGED stream
  BY <1>3, Zenon DEF ConnectionStep, Connect, Arrives, LoadJob, Relay, Answer, RelayThrows, CloseEvent,
                     ClientLeaves
<1>4. (Crash \/ UNCHANGED vars \/ \E j \in Jobs : ExpireJob(j)) => UNCHANGED stream
  BY DEF Crash, vars, ExpireJob
<1> QED
  BY <1>1, <1>2, <1>3, <1>4, NextSteps

LEMMA WriteStep ==
  ASSUME Typed, LastInv, NEW j \in Jobs, AddEvent(j)
  PROVE  Delivery!Write(j)
<1>1. stream[j] \in Seq(Types) /\ Len(stream[j]) \in Nat /\ ~Ended(j)
  BY DEF Typed, AddEvent
<1>2. \A i \in 1..Len(stream[j]) : stream[j][i] # "done"
  BY <1>1 DEF LastInv, Ended, Terminal, Last
<1>3. \E type \in {"token", "done"} : stream' = [stream EXCEPT ![j] = Append(@, type)]
  BY DEF AddEvent, Types, Terminal
<1> QED
  BY <1>2, <1>3 DEF Delivery!Write, AddEvent

LEMMA DeliveryStep ==
  ASSUME StreamInv, StreamInv', LastInv, [Next]_vars
  PROVE  [Delivery!Next]_<<stream, got>>
<1>1. ASSUME NEW h \in Connections, ConnectionStep(h) PROVE [Delivery!Next]_<<stream, got>>
  <2>1. CASE Relay(h)
    BY <2>1, RelayDelivers DEF StreamInv
  <2>2. CASE ~Relay(h)
    BY <1>1, <2>2, Zenon DEF ConnectionStep, Connect, Arrives, LoadJob, RelayThrows, CloseEvent,
                             ClientLeaves
  <2> QED
    BY <2>1, <2>2
<1>2. ASSUME NEW j \in Jobs, AddEvent(j) PROVE [Delivery!Next]_<<stream, got>>
  BY <1>2, WriteStep DEF StreamInv, Delivery!Next
<1>3. (Crash \/ UNCHANGED vars \/ \E j \in Jobs : ExpireJob(j)) => UNCHANGED <<stream, got>>
  BY DEF Crash, vars, ExpireJob
<1> QED
  BY <1>1, <1>2, <1>3, NextSteps

\* The endpoint implements EventDelivery: whatever connections, disconnects, rejected
\* commands and crashes come between, a client's events only ever grow, by the next
\* ones of its job's stream, and a stream has nothing after its terminal event.
THEOREM DeliveryImplemented == Spec => DeliveryKept
<1>1. Init => Delivery!Init /\ LastInv
  <2> SUFFICES ASSUME Init PROVE Delivery!Init /\ LastInv
    OBVIOUS
  <2>1. \A j \in Jobs : Len(stream[j]) = 0
    BY DEF Init
  <2> QED
    BY <2>1 DEF Init, Delivery!Init, LastInv
<1>2. StreamInv /\ LastInv /\ [Next]_vars => LastInv'
  BY LastStep DEF StreamInv
<1>3. StreamInv /\ StreamInv' /\ LastInv /\ [Next]_vars => [Delivery!Next]_<<stream, got>>
  BY DeliveryStep
<1> QED
  BY <1>1, <1>2, <1>3, StreamInvariance, PTL DEF Spec, DeliveryKept, Delivery!Spec

=============================================================================
