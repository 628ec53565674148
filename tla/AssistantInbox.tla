--------------------------- MODULE AssistantInbox ---------------------------
(***************************************************************************)
(* How the assistant consumes its events: WebSocket generations whose read *)
(* goroutines put events into Client.eventQueue, and the drain goroutine   *)
(* that handles and acknowledges them one by one.                          *)
(*                                                                         *)
(* A read goroutine is not bound to its generation once it holds a         *)
(* message, so events of an old and a new connection may be enqueued in    *)
(* any order.  The drain goroutine runs only while there is something to   *)
(* do; after a failure it stops unless something arrived since it looked   *)
(* at the queue, and the next arrival starts it again.                     *)
(*                                                                         *)
(* The server is the one of module AppEvents in short: it replays what is  *)
(* pending on a new connection and pushes new events to live ones, in      *)
(* ascending order and without gaps.  Comparing eventVersion with its      *)
(* value at the last look is modelled by the set of drainers that have not *)
(* seen the latest arrival.                                                *)
(***************************************************************************)
EXTENDS Naturals, Sequences, SequencesExt

CONSTANTS
  Gens,         \* connection generations, reused after they end
  Drainers,     \* goroutines that may run drainAppEvents
  MaxQueued,    \* maxQueuedAppEvents (256 in the code)
  MaxCursor,    \* bound: events published
  MaxFailures,  \* bound: lost connections, lost ACKs, failed handlers, restarts
  NoGen         \* no current generation

\* With room for one event only, an event whose ACK arrived and was not
\* answered would block the queue: what is replayed then finds it full and
\* wakes nobody.  With room for more, a replay brings a queued event again.
ASSUME InboxAssumption ==
  /\ MaxQueued \in Nat /\ MaxQueued > 1 /\ MaxCursor \in Nat /\ MaxFailures \in Nat
  /\ NoGen \notin Gens

NoMessage == 0

VARIABLES
  \* the server
  pending,      \* cursors in the assistant's outbox
  confirmed,    \* last acknowledged cursor
  lastCursor,   \* last cursor published
  srvUp,        \* srvUp[g]: the server pushes events to this connection
  \* the network
  stream,       \* stream[g]: cursors on their way to the client
  ackReqs,      \* ACK requests on their way that the requester waits for
  lateAcks,     \* ACK requests on their way that it has given up
  ackDone,      \* cursors whose ACK has been answered
  \* the client
  current,      \* webSocketManager.current
  cliUp,        \* cliUp[g]: serveGeneration is running
  hand,         \* hand[g]: message read, but not yet given to handle
  refused,      \* generations whose read goroutine met a full queue
  queue,        \* eventQueue: [cursor, handled]
  running,      \* eventRunning
  lastAcked,    \* lastAckedCursor
  dpc,          \* dpc[d]: "none", "top", "handle", "ack", "acking", "pop"
  unseen,       \* drainers whose version is out of date
  \* history
  log,          \* cursors handled by this process, in order
  handledBefore, \* cursors handled by earlier processes
  tried,        \* the drainer looked at the queue after the last arrival
  failures      \* failures so far

serverVars == <<pending, confirmed, lastCursor>>
linkVars   == <<srvUp, stream, cliUp, current, hand, refused>>
ackVars    == <<ackReqs, lateAcks, ackDone>>
queueVars  == <<queue, running, lastAcked, dpc, unseen, tried>>
logVars    == <<log, handledBefore>>
vars == <<serverVars, linkVars, ackVars, queueVars, logVars, failures>>

-----------------------------------------------------------------------------
Cursors == 1..MaxCursor

\* eventCursors holds exactly the cursors of the queued events.
Queued == {queue[i].cursor : i \in DOMAIN queue}

TypeOK ==
  /\ pending \subseteq Cursors
  /\ confirmed \in 0..MaxCursor /\ lastCursor \in 0..MaxCursor
  /\ srvUp \in [Gens -> BOOLEAN] /\ cliUp \in [Gens -> BOOLEAN]
  /\ stream \in [Gens -> Seq(Cursors)]
  /\ ackReqs \subseteq Cursors /\ lateAcks \subseteq Cursors /\ ackDone \subseteq Cursors
  /\ current \in Gens \cup {NoGen}
  /\ hand \in [Gens -> Cursors \cup {NoMessage}]
  /\ refused \subseteq Gens
  /\ queue \in Seq([cursor : Cursors, handled : BOOLEAN])
  /\ Len(queue) <= MaxQueued
  /\ running \in BOOLEAN
  /\ lastAcked \in 0..MaxCursor
  /\ dpc \in [Drainers -> {"none", "top", "handle", "ack", "acking", "pop"}]
  /\ unseen \subseteq Drainers
  /\ log \in Seq(Cursors)
  /\ handledBefore \subseteq Cursors
  /\ tried \in BOOLEAN
  /\ failures \in 0..MaxFailures

Init ==
  /\ pending = {} /\ confirmed = 0 /\ lastCursor = 0
  /\ srvUp = [g \in Gens |-> FALSE] /\ cliUp = [g \in Gens |-> FALSE]
  /\ stream = [g \in Gens |-> <<>>]
  /\ ackReqs = {} /\ lateAcks = {} /\ ackDone = {}
  /\ current = NoGen
  /\ hand = [g \in Gens |-> NoMessage]
  /\ refused = {}
  /\ queue = <<>> /\ running = FALSE /\ lastAcked = 0
  /\ dpc = [d \in Drainers |-> "none"]
  /\ unseen = {} /\ tried = TRUE
  /\ log = <<>> /\ handledBefore = {}
  /\ failures = 0

Fails == failures < MaxFailures /\ failures' = failures + 1

-----------------------------------------------------------------------------
(* The server.                                                             *)

Publish ==
  /\ lastCursor < MaxCursor
  /\ lastCursor' = lastCursor + 1
  /\ pending' = pending \cup {lastCursor'}
  /\ stream' = [g \in Gens |->
       IF srvUp[g] THEN Append(stream[g], lastCursor') ELSE stream[g]]
  /\ UNCHANGED <<confirmed, srvUp, cliUp, current, hand, refused, ackVars, queueVars,
                 logVars, failures>>

\* events.ack of k; a cursor that is already covered changes nothing.
Confirm(k) ==
  /\ confirmed' = IF k > confirmed THEN k ELSE confirmed
  /\ pending' = {i \in pending : i > k}

ServeAck(k) ==
  /\ k \in ackReqs
  /\ Confirm(k)
  /\ ackReqs' = ackReqs \ {k}
  /\ \/ ackDone' = ackDone \cup {k} /\ UNCHANGED failures
     \/ Fails /\ UNCHANGED ackDone          \* the response is lost
  /\ UNCHANGED <<lastCursor, lateAcks, linkVars, queueVars, logVars>>

\* Nobody waits for the answer any more.
ServeLateAck(k) ==
  /\ k \in lateAcks
  /\ Confirm(k)
  /\ lateAcks' = lateAcks \ {k}
  /\ UNCHANGED <<lastCursor, ackReqs, ackDone, linkVars, queueVars, logVars, failures>>

\* The request is lost with its connection or a server restart.
LoseAck(k) ==
  /\ \/ k \in ackReqs /\ Fails /\ ackReqs' = ackReqs \ {k} /\ UNCHANGED lateAcks
     \/ k \in lateAcks /\ lateAcks' = lateAcks \ {k} /\ UNCHANGED <<ackReqs, failures>>
  /\ UNCHANGED <<serverVars, linkVars, ackDone, queueVars, logVars>>

-----------------------------------------------------------------------------
(* Connections: webSocketManager.Run and serveGeneration.                  *)

\* Slip: newest first.
IsReplay_Descending(s) ==
  ToSet(s) = pending /\ \A i, j \in DOMAIN s : i < j => s[i] > s[j]

\* replayAppEvents: what is pending, in cursor order.
IsReplay(s) ==
  ToSet(s) = pending /\ \A i, j \in DOMAIN s : i < j => s[i] < s[j]

\* Dial and install; the server registers the connection and replays.
Connect(g) ==
  /\ current = NoGen
  /\ ~cliUp[g] /\ ~srvUp[g] /\ hand[g] = NoMessage
  /\ current' = g
  /\ cliUp' = [cliUp EXCEPT ![g] = TRUE]
  /\ srvUp' = [srvUp EXCEPT ![g] = TRUE]
  /\ \E s \in [1..Cardinality(pending) -> pending] :
       IsReplay(s) /\ stream' = [stream EXCEPT ![g] = s]
  /\ UNCHANGED <<serverVars, hand, refused, ackVars, queueVars, logVars, failures>>

\* serveGeneration returns: a failed read, write or ping, a refused event, or
\* the end of the stream.
ClientCloses(g) ==
  /\ cliUp[g]
  /\ \/ g \in refused /\ UNCHANGED failures
     \/ ~srvUp[g] /\ stream[g] = <<>> /\ UNCHANGED failures
     \/ Fails
  /\ cliUp' = [cliUp EXCEPT ![g] = FALSE]
  /\ current' = NoGen
  /\ stream' = [stream EXCEPT ![g] = <<>>]
  /\ refused' = refused \ {g}
  /\ UNCHANGED <<serverVars, srvUp, hand, ackVars, queueVars, logVars>>

\* The server closes its end or notices that the client has.
ServerCloses(g) ==
  /\ srvUp[g]
  /\ IF cliUp[g] THEN Fails ELSE UNCHANGED failures
  /\ srvUp' = [srvUp EXCEPT ![g] = FALSE]
  /\ stream' = IF cliUp[g] THEN stream ELSE [stream EXCEPT ![g] = <<>>]
  /\ UNCHANGED <<serverVars, cliUp, current, hand, refused, ackVars, queueVars, logVars>>

\* The read goroutine takes the next message off the socket ...
Read(g) ==
  /\ cliUp[g] /\ g \notin refused
  /\ hand[g] = NoMessage
  /\ stream[g] # <<>>
  /\ hand' = [hand EXCEPT ![g] = Head(stream[g])]
  /\ stream' = [stream EXCEPT ![g] = Tail(@)]
  /\ UNCHANGED <<serverVars, srvUp, cliUp, current, refused, ackVars, queueVars,
                 logVars, failures>>

-----------------------------------------------------------------------------
(* enqueueAppEvent and drainAppEvents.                                     *)

AlreadyAcked(k) == k <= lastAcked

QueueFull == Len(queue) >= MaxQueued

\* eventVersion++ and, if no drainer runs, go drainAppEvents().
Arrival ==
  /\ unseen' = Drainers
  /\ running' = TRUE
  /\ IF running
       THEN UNCHANGED dpc
       ELSE \E d \in Drainers : dpc[d] = "none" /\ dpc' = [dpc EXCEPT ![d] = "top"]

\* Slip: a copy of a queued event is ignored.
ArrivalAgain_Ignored == UNCHANGED <<unseen, running, dpc>>

\* An event that is queued already wakes the drainer as well.
ArrivalAgain == Arrival

\* ... and passes it to enqueueAppEvent: already acknowledged, already queued,
\* refused because the queue is full, or appended.
Enqueue(g) ==
  /\ hand[g] # NoMessage
  /\ LET k == hand[g] IN
       \/ /\ AlreadyAcked(k)
          /\ UNCHANGED <<queueVars, refused>>
       \/ /\ ~AlreadyAcked(k) /\ k \in Queued
          /\ ArrivalAgain
          /\ tried' = FALSE
          /\ UNCHANGED <<queue, lastAcked, refused>>
       \/ /\ ~AlreadyAcked(k) /\ k \notin Queued
          /\ QueueFull
          /\ refused' = IF cliUp[g] THEN refused \cup {g} ELSE refused
          /\ UNCHANGED queueVars
       \/ /\ ~AlreadyAcked(k) /\ k \notin Queued
          /\ ~QueueFull
          /\ Arrival
          /\ tried' = FALSE
          /\ queue' = Append(queue, [cursor |-> k, handled |-> FALSE])
          /\ UNCHANGED <<lastAcked, refused>>
  /\ hand' = [hand EXCEPT ![g] = NoMessage]
  /\ UNCHANGED <<serverVars, srvUp, stream, cliUp, current, ackVars, logVars, failures>>

\* The head of the queue and the version are read under eventMu.
Look(d) ==
  /\ dpc[d] = "top"
  /\ IF queue = <<>>
       THEN /\ running' = FALSE
            /\ dpc' = [dpc EXCEPT ![d] = "none"]
            /\ UNCHANGED <<unseen, tried>>
       ELSE /\ dpc' = [dpc EXCEPT ![d] = IF queue[1].handled THEN "ack" ELSE "handle"]
            /\ unseen' = unseen \ {d}
            /\ tried' = TRUE
            /\ UNCHANGED running
  /\ UNCHANGED <<serverVars, linkVars, ackVars, queue, lastAcked, logVars, failures>>

\* stopOrRetryAppEvent: try again if something arrived since the last look.
StopOrRetry(d) ==
  IF d \in unseen
    THEN dpc' = [dpc EXCEPT ![d] = "top"] /\ UNCHANGED running
    ELSE dpc' = [dpc EXCEPT ![d] = "none"] /\ running' = FALSE

\* The handler returns; its result is stored in the queued event.
Handle(d) ==
  /\ dpc[d] = "handle"
  /\ queue' = [queue EXCEPT ![1].handled = TRUE]
  /\ log' = Append(log, queue[1].cursor)
  /\ dpc' = [dpc EXCEPT ![d] = "ack"]
  /\ UNCHANGED <<serverVars, linkVars, ackVars, running, lastAcked, unseen, tried,
                 handledBefore, failures>>

\* Slip: an event whose handler failed is acknowledged.
HandleFails_Acknowledged(d) ==
  /\ dpc[d] = "handle"
  /\ Fails
  /\ queue' = [queue EXCEPT ![1].handled = TRUE]
  /\ dpc' = [dpc EXCEPT ![d] = "ack"]
  /\ UNCHANGED <<serverVars, linkVars, ackVars, running, lastAcked, unseen, tried, logVars>>

\* Not even the fallback answer could be sent.
HandleFails(d) ==
  /\ dpc[d] = "handle"
  /\ Fails
  /\ StopOrRetry(d)
  /\ UNCHANGED <<serverVars, linkVars, ackVars, queue, lastAcked, unseen, tried, logVars>>

\* The events.ack request is sent, and sent again while it is not answered.
SendAck(d) ==
  /\ dpc[d] \in {"ack", "acking"}
  /\ current # NoGen
  /\ queue[1].cursor \notin ackReqs \cup ackDone
  /\ ackReqs' = ackReqs \cup {queue[1].cursor}
  /\ dpc' = [dpc EXCEPT ![d] = "acking"]
  /\ UNCHANGED <<serverVars, linkVars, lateAcks, ackDone, queue, running, lastAcked,
                 unseen, tried, logVars, failures>>

AckAnswered(d) ==
  /\ dpc[d] = "acking"
  /\ queue[1].cursor \in ackDone
  /\ ackDone' = ackDone \ {queue[1].cursor}
  /\ dpc' = [dpc EXCEPT ![d] = "pop"]
  /\ UNCHANGED <<serverVars, linkVars, ackReqs, lateAcks, queue, running, lastAcked,
                 unseen, tried, logVars, failures>>

\* The requester has used up its retries.  What it sent may still arrive.
AckFails(d) ==
  /\ dpc[d] \in {"ack", "acking"}
  /\ Fails
  /\ StopOrRetry(d)
  /\ ackReqs' = {} /\ ackDone' = {}
  /\ lateAcks' = lateAcks \cup ackReqs
  /\ UNCHANGED <<serverVars, linkVars, queue, lastAcked, unseen, tried, logVars>>

Pop(d) ==
  /\ dpc[d] = "pop"
  /\ lastAcked' = IF queue[1].cursor > lastAcked THEN queue[1].cursor ELSE lastAcked
  /\ queue' = Tail(queue)
  /\ dpc' = [dpc EXCEPT ![d] = "top"]
  /\ UNCHANGED <<serverVars, linkVars, ackVars, running, unseen, tried, logVars, failures>>

\* The assistant's process restarts with an empty queue.
Restart ==
  /\ Fails
  /\ cliUp' = [g \in Gens |-> FALSE]
  /\ stream' = [g \in Gens |-> <<>>]
  /\ current' = NoGen
  /\ hand' = [g \in Gens |-> NoMessage]
  /\ refused' = {}
  /\ queue' = <<>> /\ running' = FALSE /\ lastAcked' = 0
  /\ dpc' = [d \in Drainers |-> "none"]
  /\ unseen' = {} /\ tried' = TRUE
  /\ log' = <<>> /\ handledBefore' = handledBefore \cup ToSet(log)
  /\ ackReqs' = {} /\ ackDone' = {}
  /\ lateAcks' = lateAcks \cup ackReqs
  /\ UNCHANGED <<serverVars, srvUp>>

-----------------------------------------------------------------------------
DrainStep(d) ==
  \/ Look(d) \/ Handle(d) \/ SendAck(d) \/ AckAnswered(d) \/ Pop(d)

ReadStep(g) == Read(g) \/ Enqueue(g)

\* The drainer has given up, and its connection is up with nothing on its way:
\* the code waits for the next event or the next connection.
Stalled ==
  /\ ~running /\ queue # <<>> /\ tried
  /\ current # NoGen /\ srvUp[current] /\ stream[current] = <<>>

\* Everything published is confirmed, or the drainer waits for an event that
\* the bound on cursors does not let come.
Idle ==
  /\ lastCursor = MaxCursor
  /\ (pending = {} /\ queue = <<>>) \/ Stalled
  /\ UNCHANGED vars

Next ==
  \/ Publish
  \/ \E k \in Cursors : ServeAck(k) \/ ServeLateAck(k) \/ LoseAck(k)
  \/ \E g \in Gens : Connect(g) \/ ClientCloses(g) \/ ServerCloses(g) \/ ReadStep(g)
  \/ \E d \in Drainers : DrainStep(d) \/ HandleFails(d) \/ AckFails(d)
  \/ Restart
  \/ Idle

Spec == Init /\ [][Next]_vars

\* Goroutines run, the client dials again, a connection that has ended at one
\* end ends at the other, and the server serves what reaches it.  A send that
\* waits for a connection gets one in the end even if the connections do not
\* last, because install wakes it up.
Fairness ==
  /\ \A d \in Drainers : WF_vars(DrainStep(d)) /\ SF_vars(SendAck(d))
  /\ \A g \in Gens : /\ WF_vars(ReadStep(g)) /\ WF_vars(Connect(g))
                     /\ WF_vars((~srvUp[g] \/ g \in refused) /\ ClientCloses(g))
                     /\ WF_vars(~cliUp[g] /\ ServerCloses(g))
  /\ \A k \in Cursors : WF_vars(ServeAck(k))

FairSpec == Spec /\ Fairness

-----------------------------------------------------------------------------
(* Properties.                                                             *)

\* The queue has a drainer when it needs one and never two: eventRunning tells
\* whether a goroutine drains, so the handlers of two events never run at the
\* same time, and a drainer that has stopped before a non-empty queue had
\* tried the head after the last arrival, so no wakeup is lost.
OneDrainer ==
  /\ Cardinality({d \in Drainers : dpc[d] # "none"}) = IF running THEN 1 ELSE 0
  /\ (~running /\ queue # <<>>) => tried

\* One process handles each event at most once, however often it is replayed
\* and by whichever generation it arrives, and in cursor order.  Only one that
\* an earlier process has handled already can come after a later one: its ACK
\* arrived between two connections of this process, of which the first still
\* held the event.
HandledInOrder ==
  \A i, j \in DOMAIN log : i < j =>
    log[i] < log[j] \/ (log[i] > log[j] /\ log[j] \in handledBefore)

\* The server forgets an event only after some process has handled it: a
\* cumulative ACK never covers an event that was refused, skipped or is still
\* waiting in the queue.
ForgottenWasHandled ==
  \A k \in 1..lastCursor : k \in pending \cup handledBefore \cup ToSet(log)

\* Every event is eventually confirmed, whatever fails, unless the drainer
\* gives up while its connection stays up and brings nothing new.
EventuallyConfirmed ==
  \A k \in Cursors : (k \in pending) ~> (k \notin pending \/ Stalled)
=============================================================================
