---------------------------- MODULE GraphStream -----------------------------
(***************************************************************************)
(* The graph path of the ingest service: HTTP handlers enqueue events, a   *)
(* flusher goroutine writes them to Neo4j in batches and publishes them to *)
(* Kafka (internal/graph/writer.go); a broadcaster reads the topic and     *)
(* sends each update to the WebSocket clients of its tenant                *)
(* (internal/graph_ws); main shuts the parts down one after the other.     *)
(*                                                                         *)
(* A goroutine is interleaved wherever it blocks or holds no lock.  One    *)
(* event stands for the one node it upserts.                               *)
(***************************************************************************)
EXTENDS Naturals, Sequences, SequencesExt, FiniteSets

CONSTANTS
  Events, Tenants,
  TenantOf,      \* tenant of an event
  EntityOf,      \* the node it upserts: the key of the Kafka message
  Clients,       \* WebSocket connections
  ClientTenant,  \* the tenant each asked for
  Handlers,      \* HTTP requests that can be in flight at once
  None,
  QueueSize, BatchSize, BufferSize,
  MaxOutages     \* bound on failures of Neo4j and of Kafka

ASSUME TenantAssumption ==
  TenantOf \in [Events -> Tenants] /\ ClientTenant \in [Clients -> Tenants]
ASSUME SizeAssumption ==
  /\ QueueSize \in Nat \ {0} /\ BatchSize \in Nat \ {0} /\ BufferSize \in Nat \ {0}
  /\ MaxOutages \in Nat
ASSUME NoneAssumption == None \notin Events

VARIABLES
  main,       \* where main() is
  handler,    \* the event a request in flight has yet to write, or None
  queue,      \* Writer.queue
  batch,      \* the batch of flushLoop
  flusher,    \* where flushLoop is
  cancelled,  \* Writer.rootCtx is cancelled
  topic,      \* security.graph_updates: messages the consumer has not read
  consumer,   \* where consumeLoop is
  sending,    \* the envelope in dispatch and the targets left
  client,     \* life of a connection and its channel
  updates,    \* Subscriber.Updates
  arrived,    \* events that reached a handler
  accepted,   \* history: events in the order they were enqueued
  written,    \* history: events Neo4j committed
  failed,     \* history: events of the batches counted in flushErrors
  received,   \* history: what each client was sent
  outages

input == <<handler, arrived>>
writer == <<queue, batch, flusher, written, failed>>
broker == <<consumer, sending>>
sockets == <<client, updates, received>>
streamVars == <<main, input, writer, accepted, cancelled, topic, broker, sockets, outages>>

Nothing == [env |-> None, targets |-> {}]

StreamTypeOK ==
  /\ main \in {"serving", "shutdown", "stopping", "closing", "exited", "fatal", "panic"}
  /\ handler \in [Handlers -> Events \cup {None}]
  /\ queue \in Seq(Events) /\ Len(queue) <= QueueSize
  /\ batch \in Seq(Events) /\ Len(batch) <= BatchSize
  /\ flusher \in {"loop", "flush", "publish", "drain", "last_flush", "done"}
                   \cup {"drain_flush", "drain_publish", "last_publish"}
  /\ cancelled \in BOOLEAN
  /\ topic \in Seq(Events)
  /\ consumer \in {"next", "dispatch", "done"}
  /\ sending \in [env : Events \cup {None}, targets : SUBSET Clients]
  /\ client \in [Clients -> {"new", "subscribed", "removed", "closed"}]
  /\ updates \in [Clients -> Seq(Events)] /\ received \in [Clients -> Seq(Events)]
  /\ \A c \in Clients : Len(updates[c]) <= BufferSize
  /\ arrived \subseteq Events
  /\ accepted \in Seq(Events)
  /\ written \subseteq Events /\ failed \subseteq Events
  /\ outages \in 0 .. MaxOutages

StreamInit ==
  /\ main = "serving"
  /\ handler = [h \in Handlers |-> None]
  /\ queue = <<>> /\ batch = <<>> /\ flusher = "loop" /\ cancelled = FALSE
  /\ topic = <<>> /\ consumer = "next" /\ sending = Nothing
  /\ client = [c \in Clients |-> "new"]
  /\ updates = [c \in Clients |-> <<>>]
  /\ arrived = {} /\ accepted = <<>> /\ written = {} /\ failed = {}
  /\ received = [c \in Clients |-> <<>>]
  /\ outages = 0

Alive == main \notin {"exited", "fatal", "panic"}
Outage == outages < MaxOutages /\ outages' = outages + 1

-----------------------------------------------------------------------------
(***************************************************************************)
(* Handlers.                                                               *)
(***************************************************************************)
Ingest(h, e) ==
  /\ main = "serving" /\ handler[h] = None /\ e \notin arrived
  /\ handler' = [handler EXCEPT ![h] = e]
  /\ arrived' = arrived \cup {e}
  /\ UNCHANGED <<main, writer, accepted, cancelled, topic, broker, sockets, outages>>

\* Never blocks: a full queue drops the event.  The writer is not closed yet,
\* because main closes it after the last request.
WriteEvent(h) ==
  /\ Alive /\ handler[h] # None
  /\ handler' = [handler EXCEPT ![h] = None]
  /\ IF Len(queue) < QueueSize
     THEN queue' = Append(queue, handler[h]) /\ accepted' = Append(accepted, handler[h])
     ELSE UNCHANGED <<queue, accepted>>
  /\ UNCHANGED <<main, arrived, batch, flusher, written, failed, cancelled, topic,
                 broker, sockets, outages>>

-----------------------------------------------------------------------------
(***************************************************************************)
(* flushLoop.  The prefix of a flush says where it returns to: the loop,   *)
(* the drain after Close, or the end.                                      *)
(***************************************************************************)
Closed == main = "closing"

Phase(p) ==
  CASE p = "loop"  -> [flush |-> "flush",       publish |-> "publish",       then |-> "loop"]
    [] p = "drain" -> [flush |-> "drain_flush", publish |-> "drain_publish", then |-> "drain"]
    [] p = "last"  -> [flush |-> "last_flush",  publish |-> "last_publish",  then |-> "done"]
Phases == {"loop", "drain", "last"}

IsFull(b) == Len(b) >= BatchSize

Take(p) ==
  /\ Alive /\ flusher = p /\ queue # <<>>
  /\ queue' = Tail(queue)
  /\ batch' = Append(batch, Head(queue))
  /\ flusher' = IF IsFull(batch') THEN Phase(p).flush ELSE p
  /\ UNCHANGED <<main, input, accepted, written, failed, cancelled, topic, broker,
                 sockets, outages>>

FlushTick ==
  /\ Alive /\ flusher = "loop" /\ batch # <<>>
  /\ flusher' = "flush"
  /\ UNCHANGED <<main, input, accepted, queue, batch, written, failed, cancelled,
                 topic, broker, sockets, outages>>

\* Mutant: the loop has no case for the closed channel.
NeverSees == FALSE
SeesClosed == Closed

StartDrain ==
  /\ SeesClosed /\ flusher = "loop"
  /\ flusher' = "drain"
  /\ UNCHANGED <<main, input, accepted, queue, batch, written, failed, cancelled,
                 topic, broker, sockets, outages>>

\* Mutant: what is left of the last batch is not flushed.
StopAtOnce == "done"
AfterDrain == IF batch = <<>> THEN "done" ELSE "last_flush"

EndDrain ==
  /\ Alive /\ flusher = "drain" /\ queue = <<>>
  /\ flusher' = AfterDrain
  /\ UNCHANGED <<main, input, accepted, queue, batch, written, failed, cancelled,
                 topic, broker, sockets, outages>>

\* The write transaction commits the whole batch, or it fails, by an error or
\* because the context is over: then it has no effect, or the commit went
\* through and only the answer is missing.  A failed batch is counted, dropped
\* and not published.
FlushBatch(p) ==
  /\ Alive /\ flusher = Phase(p).flush
  /\ \/ /\ ~cancelled
        /\ written' = written \cup Range(batch)
        /\ flusher' = Phase(p).publish
        /\ UNCHANGED <<batch, failed, outages>>
     \/ /\ \/ cancelled /\ UNCHANGED outages
           \/ ~cancelled /\ Outage
        /\ written' \in {written, written \cup Range(batch)}
        /\ failed' = failed \cup Range(batch)
        /\ batch' = <<>>
        /\ flusher' = Phase(p).then
  /\ UNCHANGED <<main, input, accepted, queue, cancelled, topic, broker, sockets>>

\* Messages of one entity stay in order: they have one key, so one partition.
publishChanges(p) ==
  /\ Alive /\ flusher = Phase(p).publish
  /\ batch' = Tail(batch)
  /\ flusher' = IF Len(batch) = 1 THEN Phase(p).then ELSE flusher
  /\ \/ ~cancelled /\ topic' = Append(topic, Head(batch)) /\ UNCHANGED outages
     \/ cancelled /\ UNCHANGED <<topic, outages>>
     \/ ~cancelled /\ Outage /\ UNCHANGED topic
  /\ UNCHANGED <<main, input, accepted, queue, written, failed, cancelled, broker,
                 sockets>>

-----------------------------------------------------------------------------
(***************************************************************************)
(* The broadcaster and its clients.                                        *)
(***************************************************************************)
Subscribe(c) ==
  /\ Alive /\ client[c] = "new" /\ main = "serving"
  /\ client' = [client EXCEPT ![c] = "subscribed"]
  /\ UNCHANGED <<main, input, writer, accepted, cancelled, topic, broker, updates,
                 received, outages>>

\* Unsubscribe takes the client out of the map under the lock and closes its
\* channel after it.
Unsubscribe(c) ==
  /\ Alive /\ client[c] = "subscribed"
  /\ client' = [client EXCEPT ![c] = "removed"]
  /\ UNCHANGED <<main, input, writer, accepted, cancelled, topic, broker, updates,
                 received, outages>>

CloseUpdates(c) ==
  /\ Alive /\ client[c] = "removed"
  /\ client' = [client EXCEPT ![c] = "closed"]
  /\ UNCHANGED <<main, input, writer, accepted, cancelled, topic, broker, updates,
                 received, outages>>

\* The pump of the connection.
Receive(c) ==
  /\ Alive /\ client[c] = "subscribed" /\ updates[c] # <<>>
  /\ updates' = [updates EXCEPT ![c] = Tail(@)]
  /\ received' = [received EXCEPT ![c] = Append(@, Head(updates[c]))]
  /\ UNCHANGED <<main, input, writer, accepted, cancelled, topic, broker, client, outages>>

\* The next message of some partition.
Nexts == {i \in DOMAIN topic : \A j \in 1 .. i - 1 :
            EntityOf[topic[j]] # EntityOf[topic[i]]}

\* Mutant: dispatch does not look at the tenant.
AllTargets(e) == {c \in Clients : client[c] = "subscribed"}
Targets(e) == {c \in Clients : client[c] = "subscribed" /\ ClientTenant[c] = TenantOf[e]}

\* After a dispatch the loop looks whether it is told to stop.
LoopOn == IF main = "serving" THEN "next" ELSE "done"

\* Next and the copy of the targets under the read lock; an envelope that cannot
\* be committed or decoded is passed over.
ReadNext(i) ==
  LET e == topic[i]
  IN  /\ Alive /\ consumer = "next" /\ i \in Nexts
      /\ topic' = RemoveAt(topic, i)
      /\ \/ /\ IF Targets(e) = {}
               THEN consumer' = LoopOn /\ sending' = Nothing
               ELSE consumer' = "dispatch" /\ sending' = [env |-> e, targets |-> Targets(e)]
            /\ UNCHANGED outages
         \/ consumer' = LoopOn /\ UNCHANGED sending /\ Outage
      /\ UNCHANGED <<main, input, writer, accepted, cancelled, sockets>>

\* A full buffer drops the envelope; a closed channel panics.
Dispatch(c) ==
  LET left == sending.targets \ {c}
  IN  /\ Alive /\ consumer = "dispatch" /\ c \in sending.targets
      /\ IF client[c] = "closed"
         THEN main' = "panic" /\ UNCHANGED updates
         ELSE /\ UNCHANGED main
              /\ IF Len(updates[c]) < BufferSize
                 THEN updates' = [updates EXCEPT ![c] = Append(@, sending.env)]
                 ELSE UNCHANGED updates
      /\ IF left = {}
         THEN consumer' = LoopOn /\ sending' = Nothing
         ELSE consumer' = consumer /\ sending' = [sending EXCEPT !.targets = left]
      /\ UNCHANGED <<input, writer, accepted, cancelled, topic, client, received, outages>>

ConsumerStops ==
  /\ Alive /\ consumer = "next" /\ main # "serving"
  /\ consumer' = "done"
  /\ UNCHANGED <<main, input, writer, accepted, cancelled, topic, sending, sockets, outages>>

-----------------------------------------------------------------------------
(***************************************************************************)
(* main: the signal cancels the context; Shutdown waits ten seconds for    *)
(* the requests and otherwise ends the process with log.Fatal; then the    *)
(* deferred calls, the last one first: Stop, Close.                        *)
(***************************************************************************)
MainStep(from, to) ==
  /\ main = from /\ main' = to
  /\ UNCHANGED <<input, writer, accepted, topic, broker, sockets, outages>>

Signal == MainStep("serving", "shutdown") /\ UNCHANGED cancelled
Shutdown ==
  /\ MainStep("shutdown", IF \A h \in Handlers : handler[h] = None
                          THEN "stopping" ELSE "fatal")
  /\ UNCHANGED cancelled
StopBroadcaster ==
  consumer = "done" /\ MainStep("stopping", "closing") /\ UNCHANGED cancelled
GraceOver == ~cancelled /\ cancelled' = TRUE /\ MainStep("closing", "closing")
CloseReturns ==
  flusher = "done" /\ MainStep("closing", "exited") /\ cancelled' = TRUE

Flusher ==
  \/ \E p \in {"loop", "drain"} : Take(p)
  \/ FlushTick \/ StartDrain \/ EndDrain
  \/ \E p \in Phases : FlushBatch(p) \/ publishChanges(p)

Consumer ==
  \/ \E i \in DOMAIN topic : ReadNext(i)
  \/ \E c \in Clients : Dispatch(c)
  \/ ConsumerStops

Main == Shutdown \/ StopBroadcaster \/ CloseReturns

StreamNext ==
  \/ Flusher \/ Consumer \/ Main \/ Signal \/ GraceOver
  \/ \E h \in Handlers : WriteEvent(h) \/ \E e \in Events : Ingest(h, e)
  \/ \E c \in Clients :
       Subscribe(c) \/ Unsubscribe(c) \/ CloseUpdates(c) \/ Receive(c)

StreamSpec == StreamInit /\ [][StreamNext]_streamVars

\* The goroutines run; a flush ends by its answer or by its timeout.
FairSpec == StreamSpec /\ WF_streamVars(Flusher) /\ WF_streamVars(Consumer) /\ WF_streamVars(Main)

-----------------------------------------------------------------------------
\* When Close returns, every event the queue ever accepted was committed, or
\* belongs to a batch counted as failed: none is left behind in the queue or in
\* the flusher's batch.
AcceptedIsAccounted ==
  main = "exited" => Range(accepted) \subseteq written \cup failed

\* Updates of one entity reach a client in the order in which they were accepted,
\* each once, after they are in the graph, and only if they are of its tenant.
LiveTail ==
  \A c \in Clients : \A i \in DOMAIN received[c] :
    LET e == received[c][i]
    IN  /\ e \in written /\ TenantOf[e] = ClientTenant[c]
        /\ \A j \in 1 .. i - 1 :
             EntityOf[received[c][j]] = EntityOf[e] =>
               \E m, n \in DOMAIN accepted :
                 m < n /\ accepted[m] = received[c][j] /\ accepted[n] = e

\* A wedged Neo4j does not pin the shutdown.
ShutdownEnds == main = "shutdown" ~> ~Alive

\* broadcaster.go: "Safe for concurrent use": a client that leaves does not take
\* the process down.
NoPanic == main # "panic"
=============================================================================
