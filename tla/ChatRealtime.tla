---------------------------- MODULE ChatRealtime ----------------------------
(***************************************************************************)
(* One chat room.  chat-service stores a message in the room's ZSET, trims *)
(* it and publishes a bare notification; each gateway pod then pulls what  *)
(* is newer than its own mark (roomLastFlushed) and emits it to the room.  *)
(* The Redis adapter of socket.io carries an emit to the other pods.       *)
(* A timestamp is a tick of the clock; 0 stands for a mark that is absent. *)
(***************************************************************************)
EXTENDS Naturals, FiniteSets, Sequences, FiniteSetsExt

CONSTANTS
  Pods,          \* gateway processes
  Sockets,       \* clients; each has one connection at a time
  PodOf,         \* PodOf[s]: the pod of socket s
  Messages,      \* messages, numbered as they are sent
  MaxPull,       \* MAX_PULL_COUNT
  MaxStored,     \* maxMessagesPerRoom
  HistoryLimit,  \* DEFAULT_HISTORY_LIMIT
  MaxTime,       \* bound: the last tick (no message is newer than a join in it:
                 \* nobody joins then)
  MaxFaults      \* bound: rejected calls, lost notifications and crashes

ASSUME PodOfAssumption == PodOf \in [Sockets -> Pods]
ASSUME ChatAssumption ==
  /\ Messages \subseteq Nat /\ IsFiniteSet(Messages) /\ IsFiniteSet(Pods)
  /\ MaxPull \in Nat \ {0} /\ MaxStored \in Nat \ {0} /\ HistoryLimit \in Nat
  /\ MaxTime \in Nat \ {0} /\ MaxFaults \in Nat

VARIABLES
  clock,    \* Date.now() of the gateway's marks and of chat-service's timestamps:
            \* one clock, as all processes run on one host (docker-compose)
  send,     \* send[m]: the call of saveMessage for m
  zset,     \* the stored messages of the room
  notices,  \* notices[p]: notifications p has not begun to process
  pod,      \* pod[p]: the mark and the notification that p is processing
  remote,   \* remote[p]: emits of other pods on their way to p
  sock,     \* sock[s]: where socket s is, since when, and the history it got
  got,      \* got[s][p][m]: copies of m that s received from an emit of p
  faults    \* history: the faults so far

vars == <<clock, send, zset, notices, pod, remote, sock, got, faults>>

Idle(mark, fresh) ==
  [mark |-> mark, task |-> "idle", since |-> 0, batch |-> {}, fresh |-> fresh]
Outside == [at |-> "out", joined |-> 0, loaded |-> FALSE, past |-> {}]

InRoom(s) == sock[s].at \in {"joining", "in"}
RoomOf(p) == {s \in Sockets : PodOf[s] = p /\ InRoom(s)}

\* The order of a ZSET: score, then member.
Ts(m) == send[m].ts
Precedes(m, n) == Ts(m) < Ts(n) \/ (Ts(m) = Ts(n) /\ m < n)
Oldest(k, S) == {m \in S : Cardinality({n \in S : Precedes(n, m)}) < k}
Newest(k, S) == {m \in S : Cardinality({n \in S : Precedes(m, n)}) < k}

GetMessagesSince(since) == Oldest(MaxPull, {m \in zset : Ts(m) > since})
GetMessagesBefore(ts) == Newest(HistoryLimit, {m \in zset : Ts(m) < ts})

Fault == faults < MaxFaults /\ faults' = faults + 1

Init ==
  /\ clock = 1
  /\ send = [m \in Messages |-> [pc |-> "none", ts |-> 0, stored |-> 0]]
  /\ zset = {}
  /\ notices = [p \in Pods |-> 0]
  /\ pod = [p \in Pods |-> Idle(0, TRUE)]
  /\ remote = [p \in Pods |-> <<>>]
  /\ sock = [s \in Sockets |-> Outside]
  /\ got = [s \in Sockets |-> [p \in Pods |-> [m \in Messages |-> 0]]]
  /\ faults = 0

\* A tick in which nothing is stamped can be left out.
Tick ==
  /\ clock < MaxTime
  /\ \/ \E m \in Messages : Ts(m) = clock
     \/ \E s \in Sockets : sock[s].joined = clock
  /\ clock' = clock + 1
  /\ UNCHANGED <<send, zset, notices, pod, remote, sock, got, faults>>

-----------------------------------------------------------------------------
(* chat-service                                                            *)

\* send_message of a member: saveMessage draws the timestamp and sends ZADD.
\* Commands of several chat-service processes may overtake each other.
HandleSendMessage(m) ==
  /\ send[m].pc = "none"
  /\ \A n \in Messages : n < m => send[n].pc # "none"
  /\ \E s \in Sockets : InRoom(s)
  /\ send' = [send EXCEPT ![m].pc = "add", ![m].ts = clock]
  /\ UNCHANGED <<clock, zset, notices, pod, remote, sock, got, faults>>

AddMessage(m) ==
  /\ send[m].pc = "add"
  /\ zset' = zset \cup {m}
  /\ send' = [send EXCEPT ![m].pc = "trim", ![m].stored = clock]
  /\ UNCHANGED <<clock, notices, pod, remote, sock, got, faults>>

\* Mutant: a pod that is busy with the room ignores the notification.
TrimAndPublishUnlessBusy(m) ==
  /\ send[m].pc = "trim"
  /\ zset' = Newest(MaxStored, zset)
  /\ send' = [send EXCEPT ![m].pc = "done"]
  /\ notices' = [p \in Pods |-> IF pod[p].task = "idle" THEN notices[p] + 1 ELSE notices[p]]
  /\ UNCHANGED <<clock, pod, remote, sock, got, faults>>

\* ZREMRANGEBYRANK, then the PUBLISH on the shard's channel, which every pod
\* puts in its queue (enqueueShardMessage).
TrimAndPublish(m) ==
  /\ send[m].pc = "trim"
  /\ zset' = Newest(MaxStored, zset)
  /\ send' = [send EXCEPT ![m].pc = "done"]
  /\ notices' = [p \in Pods |-> notices[p] + 1]
  /\ UNCHANGED <<clock, pod, remote, sock, got, faults>>

\* ZADD or the trim rejects: the sender is told of an error, though after a
\* rejected trim the message is stored; nobody is notified.
PersistThrows(m) ==
  /\ send[m].pc \in {"add", "trim"}
  /\ Fault
  /\ send' = [send EXCEPT ![m].pc = "failed"]
  /\ UNCHANGED <<clock, zset, notices, pod, remote, sock, got>>

-----------------------------------------------------------------------------
(* ChatGateway: connections                                                *)

\* The client goes away, or a packet comes with an expired token: socket.io
\* takes it out of the room, and nothing of the pod's state changes.  The next
\* connection of the client is made (handleConnection) before it joins again.
HandleDisconnect(s) ==
  /\ InRoom(s)
  /\ sock' = [sock EXCEPT ![s] = Outside]
  /\ UNCHANGED <<clock, send, zset, notices, pod, remote, got, faults>>

\* Mutant: every join sets the mark.
InitRoomLastFlushedAlways(mark) == clock
InitRoomLastFlushed(mark) == IF mark = 0 THEN clock ELSE mark

\* join_room, also of a socket that is in the room: client.join and the mark,
\* then the request for the history.  fresh (history): the pod's members found
\* no mark of an earlier membership.
HandleJoinRoom(s) ==
  LET p == PodOf[s] IN
  /\ sock[s].at \in {"out", "in"} /\ clock < MaxTime
  /\ sock' = [sock EXCEPT ![s].at = "joining", ![s].loaded = FALSE,
                          ![s].joined = IF InRoom(s) THEN @ ELSE clock]
  /\ pod' = [pod EXCEPT ![p].mark = InitRoomLastFlushed(@),
                        ![p].fresh = IF RoomOf(p) = {} THEN pod[p].mark = 0 ELSE @]
  /\ UNCHANGED <<clock, send, zset, notices, remote, got, faults>>

LoadHistory(s) ==
  /\ sock[s].at = "joining"
  /\ sock' = [sock EXCEPT ![s].at = "in", ![s].loaded = TRUE,
                          ![s].past = @ \cup GetMessagesBefore(clock)]
  /\ UNCHANGED <<clock, send, zset, notices, pod, remote, got, faults>>

\* getMessages rejects: the join succeeds with an empty history.
LoadHistoryThrows(s) ==
  /\ sock[s].at = "joining"
  /\ Fault
  /\ sock' = [sock EXCEPT ![s].at = "in"]
  /\ UNCHANGED <<clock, send, zset, notices, pod, remote, got>>

CleanupRoom(p, s) == IF RoomOf(p) \subseteq {s} THEN 0 ELSE pod[p].mark

HandleLeaveRoom(s) ==
  /\ sock[s].at = "in"
  /\ sock' = [sock EXCEPT ![s] = Outside]
  /\ pod' = [pod EXCEPT ![PodOf[s]].mark = CleanupRoom(PodOf[s], s)]
  /\ UNCHANGED <<clock, send, zset, notices, remote, got, faults>>

-----------------------------------------------------------------------------
(* ChatGateway: notifications, one at a time                               *)

\* onShardMessage up to the pull: an empty room or an absent mark ends it.
OnShardMessage(p) ==
  /\ pod[p].task = "idle"
  /\ notices[p] > 0
  /\ notices' = [notices EXCEPT ![p] = @ - 1]
  /\ pod' = [pod EXCEPT ![p] =
       IF RoomOf(p) = {} THEN @
       ELSE IF @.mark = 0 THEN [@ EXCEPT !.mark = InitRoomLastFlushed(pod[p].mark)]
       ELSE [@ EXCEPT !.task = "pull", !.since = pod[p].mark]]
  /\ UNCHANGED <<clock, send, zset, remote, sock, got, faults>>

Pull(p) ==
  LET batch == GetMessagesSince(pod[p].since) IN
  /\ pod[p].task = "pull"
  /\ pod' = [pod EXCEPT ![p] = IF batch = {} THEN Idle(@.mark, @.fresh)
                               ELSE [@ EXCEPT !.task = "emit", !.batch = batch]]
  /\ UNCHANGED <<clock, send, zset, notices, remote, sock, got, faults>>

PullThrows(p) ==
  /\ pod[p].task = "pull"
  /\ Fault
  /\ pod' = [pod EXCEPT ![p] = Idle(@.mark, @.fresh)]
  /\ UNCHANGED <<clock, send, zset, notices, remote, sock, got>>

\* Mutants: the mark stays; the mark passes the newest message.
UpdateRoomLastFlushedNever(mark, batch) == mark
UpdateRoomLastFlushedNext(mark, batch) == Max({Ts(m) : m \in batch} \cup {mark}) + 1
UpdateRoomLastFlushed(mark, batch) == Max({Ts(m) : m \in batch} \cup {mark})

\* The members of the room on pod p receive a batch that pod q has emitted.
Received(p, q, batch) ==
  [s \in Sockets |->
    IF s \in RoomOf(p)
    THEN [got[s] EXCEPT ![q] = [m \in Messages |-> IF m \in batch THEN @[m] + 1 ELSE @[m]]]
    ELSE got[s]]

\* server.to(roomId).emit: the members on this pod, and through the Redis
\* adapter those on the others; then the mark.
Emit(p) ==
  LET batch == pod[p].batch IN
  /\ pod[p].task = "emit"
  /\ got' = Received(p, p, batch)
  /\ remote' = [q \in Pods |-> IF q = p THEN remote[q]
                               ELSE Append(remote[q], [from |-> p, batch |-> batch])]
  /\ pod' = [pod EXCEPT ![p] = Idle(UpdateRoomLastFlushed(@.mark, batch), @.fresh)]
  /\ UNCHANGED <<clock, send, zset, notices, sock, faults>>

DeliverRemote(p) ==
  /\ remote[p] # <<>>
  /\ got' = Received(p, Head(remote[p]).from, Head(remote[p]).batch)
  /\ remote' = [remote EXCEPT ![p] = Tail(@)]
  /\ UNCHANGED <<clock, send, zset, notices, pod, sock, faults>>

NoticeLost(p) ==
  /\ notices[p] > 0
  /\ Fault
  /\ notices' = [notices EXCEPT ![p] = @ - 1]
  /\ UNCHANGED <<clock, send, zset, pod, remote, sock, got>>

PodCrash(p) ==
  /\ Fault
  /\ pod' = [pod EXCEPT ![p] = Idle(0, TRUE)]
  /\ notices' = [notices EXCEPT ![p] = 0]
  /\ remote' = [remote EXCEPT ![p] = <<>>]
  /\ sock' = [s \in Sockets |-> IF PodOf[s] = p THEN Outside ELSE sock[s]]
  /\ UNCHANGED <<clock, send, zset, got>>

-----------------------------------------------------------------------------
Next ==
  \/ Tick
  \/ \E m \in Messages : \/ HandleSendMessage(m) \/ AddMessage(m)
                         \/ TrimAndPublish(m) \/ PersistThrows(m)
  \/ \E s \in Sockets : \/ HandleDisconnect(s) \/ HandleJoinRoom(s)
                        \/ LoadHistory(s)
                        \/ LoadHistoryThrows(s) \/ HandleLeaveRoom(s)
  \/ \E p \in Pods : \/ OnShardMessage(p) \/ Pull(p) \/ Emit(p) \/ DeliverRemote(p)
                     \/ PullThrows(p) \/ NoticeLost(p) \/ PodCrash(p)

Spec == Init /\ [][Next]_vars

-----------------------------------------------------------------------------
\* The type of the state.  A mark is never in the future, or the messages up
\* to it would be skipped when they come.
TypeOK ==
  /\ clock \in 1..MaxTime
  /\ send \in [Messages -> [pc : {"none", "add", "trim", "done", "failed"},
                            ts : 0..clock, stored : 0..clock]]
  /\ zset \subseteq Messages
  /\ notices \in [Pods -> Nat]
  /\ pod \in [Pods -> [mark : 0..clock, task : {"idle", "pull", "emit"},
                       since : 0..clock, batch : SUBSET Messages, fresh : BOOLEAN]]
  /\ remote \in [Pods -> Seq([from : Pods, batch : SUBSET Messages])]
  /\ sock \in [Sockets -> [at : {"out", "joining", "in"},
                           joined : 0..clock, loaded : BOOLEAN, past : SUBSET Messages]]
  /\ got \in [Sockets -> [Pods -> [Messages -> Nat]]]
  /\ faults \in 0..MaxFaults

\* A pod emits a message to a client at most once, however notifications pile
\* up, marks are deleted by leave_room and set again by joins, and pulls race
\* with both (roomQueue and roomLastFlushed of ChatGateway).
OncePerPod ==
  \A s \in Sockets, p \in Pods, m \in Messages : got[s][p][m] <= 1

\* A message that shares its millisecond with another stored message (which may
\* have been trimmed since), or was stored after a newer one, may be passed by
\* the mark.
Overtaken(m) ==
  \E n \in Messages \ {m} :
    /\ send[n].stored > 0
    /\ Ts(n) = Ts(m) \/ (Ts(n) > Ts(m) /\ send[n].stored <= send[m].stored)

\* A member of the room has every stored message that was sent after its join and
\* that its pod's mark has reached, from an emit of that pod, and every one that
\* was stored before its join from the history (all but the newest HistoryLimit),
\* whatever other members join and leave.  A message of the very millisecond of
\* the join may be in neither.
NoGap ==
  \A s \in Sockets, m \in zset :
    LET p == PodOf[s] IN
    sock[s].at = "in" =>
      /\ (sock[s].joined < Ts(m) /\ Ts(m) <= pod[p].mark /\ ~Overtaken(m)) =>
           got[s][p][m] > 0
      /\ (sock[s].loaded /\ send[m].stored < sock[s].joined) =>
           (m \in sock[s].past \/ m \notin Newest(HistoryLimit, zset))

\* When no notification is to come any more and a pod has processed those that
\* came, each of its members has every message that was sent after its join, that
\* the sender was told is saved and that the trim has left, however many messages
\* one pull takes.  Not promised: after a fault, of a message that was overtaken,
\* and where the members of the pod found the mark of earlier ones, which a
\* disconnect leaves (fresh is FALSE), as the limited pull then lags behind.
AllDeliveredAtRest ==
  \A s \in Sockets, m \in zset :
    LET p == PodOf[s] IN
    (/\ sock[s].at = "in" /\ sock[s].joined < Ts(m) /\ send[m].pc = "done"
     /\ notices[p] = 0 /\ pod[p].task = "idle" /\ \A n \in Messages : send[n].pc # "trim"
     /\ faults = 0 /\ ~Overtaken(m) /\ pod[p].fresh) => got[s][p][m] > 0

\* "Single delivery path, no duplicates" (docs/chat.md:425): a member receives
\* a message once.  Violated: each pod's emit reaches the members on all pods.
DeliveredOnce ==
  \A s \in Sockets, m \in Messages :
    \A p, q \in Pods : got[s][p][m] + got[s][q][m] > 1 => p = q

=============================================================================
