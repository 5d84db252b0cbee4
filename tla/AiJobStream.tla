----------------------------- MODULE AiJobStream -----------------------------
(***************************************************************************)
(* The SSE endpoint of apps/gateway: each connection is a handler that     *)
(* loops over XREAD BLOCK commands on the stream of its job.  All handlers *)
(* share one Redis connection, so a command waits for those before it.     *)
(* Clients go away and come back with the id of the last event they have.  *)
(***************************************************************************)
EXTENDS Naturals, Sequences, SequencesExt

CONSTANTS
  Jobs,         \* jobs the worker writes events of
  Clients,      \* clients of the endpoint
  JobFor,       \* JobFor[c]: the job that client c follows
  MaxConnects,  \* bound: the connections that clients make
  MaxEvents,    \* bound: the events of a job
  MaxFaults     \* bound: rejected commands and crashes in a behaviour

ASSUME JobForAssumption == JobFor \in [Clients -> Jobs]
ASSUME StreamAssumption ==
  Clients # {} /\ MaxConnects \in Nat /\ MaxEvents \in Nat \ {0} /\ MaxFaults \in Nat

VARIABLES
  stream,   \* Redis ai:job:*:events: the types of a job's events
  known,    \* the jobs whose hash is in Redis
  got,      \* got[c]: the ids of the events that client c has received
  net,      \* net[h]: the connection between a client and handler h
  handler,  \* handler[h]: the state of the call of stream
  xread,    \* the handlers whose XREAD is pending on the shared connection
  faults    \* history: the faults so far

vars == <<stream, known, got, net, handler, xread, faults>>

\* The id of an event is its position in the stream.
Ids == 1..MaxEvents
Types == {"token", "done"}
Terminal == {"done"}
Ended(j) == stream[j] # <<>> /\ Last(stream[j]) \in Terminal

\* A connection, and its handler, are numbered in the order they come.
Connections == 1..MaxConnects

\* Left: the client has gone; ended: the response is complete.
NetStates == {"unused", "open", "left", "ended"}
Handler(pc, c, lastId) ==
  [pc |-> pc, client |-> c, lastId |-> lastId, stopped |-> FALSE, closed |-> FALSE]

\* A handler that has returned.
Over(h) == Handler("ended", handler[h].client, 0)

JobOf(h) == JobFor[handler[h].client]

\* The Last-Event-ID header; '0' without it.
LastEventId(c) == IF got[c] = <<>> THEN 0 ELSE Last(got[c])

Reading(h) == handler[h].pc = "read"

Fault == faults < MaxFaults /\ faults' = faults + 1

Init ==
  /\ stream = [j \in Jobs |-> <<>>]
  /\ known = Jobs
  /\ got = [c \in Clients |-> <<>>]
  /\ net = [h \in Connections |-> "unused"]
  /\ handler = [h \in Connections |-> Handler("unused", CHOOSE c \in Clients : TRUE, 0)]
  /\ xread = <<>>
  /\ faults = 0

-----------------------------------------------------------------------------
(* JobStreamController.stream                                              *)

\* A client without an open connection calls the endpoint.
Arrives(h, c) ==
  /\ handler[h].pc = "unused"
  /\ \A g \in 1..(h - 1) : handler[g].pc # "unused"
  /\ \A g \in Connections : net[g] = "open" => handler[g].client # c
  /\ net' = [net EXCEPT ![h] = "open"]
  /\ UNCHANGED <<stream, known, got, xread, faults>>

\* Mutant: the Last-Event-ID header is not read.
ConnectFromStart(h, c) ==
  /\ Arrives(h, c)
  /\ handler' = [handler EXCEPT ![h] = Handler("load", c, 0)]

Connect(h, c) ==
  /\ Arrives(h, c)
  /\ handler' = [handler EXCEPT ![h] = Handler("load", c, LastEventId(c))]

\* Response and loop are over: a client that is still there sees it.
EndResponse(h) ==
  /\ handler' = [handler EXCEPT ![h] = Over(h)]
  /\ net' = [net EXCEPT ![h] = IF @ = "open" THEN "ended" ELSE @]

\* getJob: 404 without the job, else the first XREAD.  Only now does the
\* handler listen to the close event of the request.
LoadJob(h) ==
  /\ handler[h].pc = "load"
  /\ IF JobOf(h) \in known
     THEN /\ handler' = [handler EXCEPT ![h].pc = "read"]
          /\ xread' = Append(xread, h)
          /\ UNCHANGED net
     ELSE /\ EndResponse(h)
          /\ UNCHANGED xread
  /\ UNCHANGED <<stream, known, got, faults>>

\* The loop writes the events of an answer, those after lastId, up to the first
\* terminal one.
WrittenTo(h) ==
  LET events == stream[JobOf(h)]
      ends == {i \in handler[h].lastId + 1 .. Len(events) : events[i] \in Terminal}
  IN  IF ends = {} THEN Len(events) ELSE Min(ends)

\* A command is answered and the loop body runs.  The client receives what is
\* written, or only a part of it and is gone.
Answer(h, mayEnd) ==
  LET from == handler[h].lastId
      to == WrittenTo(h)
      over == mayEnd /\ to > from /\ stream[JobOf(h)][to] \in Terminal
      goesOn == ~over /\ ~handler[h].stopped
  IN
  /\ xread # <<>>
  /\ Head(xread) = h
  /\ \E n \in 0..(to - from) :
       /\ net[h] # "open" => n = 0
       /\ got' = [got EXCEPT ![handler[h].client] = @ \o [i \in 1..n |-> from + i]]
       /\ net' = [net EXCEPT ![h] = IF @ # "open" THEN @
                                    ELSE IF n < to - from THEN "left"
                                    ELSE IF goesOn THEN "open" ELSE "ended"]
  /\ handler' = [handler EXCEPT ![h] = IF goesOn THEN [@ EXCEPT !.lastId = to] ELSE Over(h)]
  /\ xread' = IF goesOn THEN Append(Tail(xread), h) ELSE Tail(xread)
  /\ UNCHANGED <<stream, known, faults>>

\* Mutants: XREAD blocks until there is an event; the loop goes on after a
\* terminal event.
RelayBlocksForEver(h) == WrittenTo(h) # handler[h].lastId /\ Answer(h, TRUE)
RelayNeverEnds(h) == Answer(h, FALSE)

\* The command at the head is answered: with events, or with none after
\* BLOCK_MS.
Relay(h) == Answer(h, TRUE)

\* A command rejects: finally ends the response.
RelayThrows(h) ==
  /\ handler[h].pc \in {"load", "read"}
  /\ Fault
  /\ EndResponse(h)
  /\ IF Reading(h)
     THEN \E i \in 1..Len(xread) : xread[i] = h /\ xread' = RemoveAt(xread, i)
     ELSE UNCHANGED xread
  /\ UNCHANGED <<stream, known, got>>

\* Mutant: the close event is handled by ending the response at once, with
\* the command still pending.
CloseEventEnds(h) ==
  /\ handler[h].pc # "ended"
  /\ net[h] = "left"
  /\ handler' = [handler EXCEPT ![h] = Over(h)]
  /\ UNCHANGED <<stream, known, got, net, xread, faults>>

\* Node notices that the client is gone and emits close, once; only a handler
\* that listens by now stops.
CloseEvent(h) ==
  /\ handler[h].pc # "ended"
  /\ net[h] = "left"
  /\ ~handler[h].closed
  /\ handler' = [handler EXCEPT ![h].closed = TRUE, ![h].stopped = Reading(h)]
  /\ UNCHANGED <<stream, known, got, net, xread, faults>>

-----------------------------------------------------------------------------
(* Clients, the worker and the gateway process                             *)

ClientLeaves(h) ==
  /\ net[h] = "open"
  /\ net' = [net EXCEPT ![h] = "left"]
  /\ UNCHANGED <<stream, known, got, handler, xread, faults>>

\* The worker (external) adds an event; "done" stands for "error" too.
AddEvent(j) ==
  /\ ~Ended(j)
  /\ \E type \in IF Len(stream[j]) + 1 < MaxEvents THEN Types ELSE Terminal :
       stream' = [stream EXCEPT ![j] = Append(@, type)]
  /\ UNCHANGED <<known, got, net, handler, xread, faults>>

\* The TTL of a job's hash runs out.
ExpireJob(j) ==
  /\ j \in known
  /\ known' = known \ {j}
  /\ UNCHANGED <<stream, got, net, handler, xread, faults>>

\* The gateway dies, with its connections and handlers.
Crash ==
  /\ Fault
  /\ net' = [h \in Connections |-> IF net[h] = "open" THEN "ended" ELSE net[h]]
  /\ handler' = [h \in Connections |->
                   IF handler[h].pc = "unused" THEN handler[h] ELSE Over(h)]
  /\ xread' = <<>>
  /\ UNCHANGED <<stream, known, got>>

-----------------------------------------------------------------------------
Next ==
  \/ \E h \in Connections :
       \/ \E c \in Clients : Connect(h, c)
       \/ LoadJob(h) \/ Relay(h) \/ RelayThrows(h)
       \/ CloseEvent(h) \/ ClientLeaves(h)
  \/ \E j \in Jobs : AddEvent(j) \/ ExpireJob(j)
  \/ Crash

Spec == Init /\ [][Next]_vars

\* Redis answers each command, a blocking one after BLOCK_MS at the latest, and
\* Node runs the continuations and the close event.  No client has to come,
\* stay or leave, and no worker has to write.
FairSpec ==
  /\ Spec
  /\ \A h \in Connections :
       WF_vars(LoadJob(h)) /\ WF_vars(Relay(h)) /\ WF_vars(CloseEvent(h))

-----------------------------------------------------------------------------
(* Properties                                                              *)

\* The shape of the connections; a handler that reads has one command pending,
\* any other has none.
TypeOK ==
  /\ stream \in [Jobs -> BoundedSeq(Types, MaxEvents)]
  /\ known \subseteq Jobs
  /\ DOMAIN got = Clients
  /\ net \in [Connections -> NetStates]
  /\ handler \in [Connections ->
       [pc : {"unused", "load", "read", "ended"}, client : Clients,
        lastId : 0..MaxEvents, stopped : BOOLEAN, closed : BOOLEAN]]
  /\ IsInjective(xread)
  /\ ToSet(xread) = {h \in Connections : Reading(h)}
  /\ faults \in 0..MaxFaults

\* Over all its connections a client receives the events of its job in order,
\* none twice and none left out, whatever is lost in between.
InOrderOnce ==
  \A c \in Clients : got[c] = [i \in 1..Len(got[c]) |-> i]

\* What the endpoint promises to the readers of a job's events: each step gives a
\* client the next events of its stream or nothing, so that InOrderOnce holds and
\* no disconnect, rejected command or crash takes back what was received.
Delivery == INSTANCE EventDelivery WITH stream <- stream, got <- got
DeliveryKept == Delivery!Spec

\* The end of a job ends its connections: one that is behind gets the
\* terminal event, however many handlers wait on the shared connection before
\* it, unless its client leaves or a command rejects.
EndIsRelayed ==
  \A h \in Connections :
    (Reading(h) /\ net[h] = "open" /\ Ended(JobOf(h))
       /\ handler[h].lastId < Len(stream[JobOf(h)]))
    ~> (handler[h].pc = "ended" /\ (\/ net[h] # "open" /\ faults > 0
                                   \/ net[h] = "left"
                                   \/ Len(got[handler[h].client]) = Len(stream[JobOf(h)])))

\* A handler that noted its client's leaving gives the shared connection back.
StoppedHandlerEnds ==
  \A h \in Connections : handler[h].stopped ~> ~Reading(h)

\* A client's disconnect ends the XREAD loop (ai-service-python-migration-plan,
\* step 11 of the SSE flow).
DisconnectEndsLoop ==
  \A h \in Connections : net[h] = "left" ~> handler[h].pc = "ended"

=============================================================================
