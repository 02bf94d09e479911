--------------------------- MODULE LiveMonitoring ---------------------------
(***************************************************************************)
(* The live monitoring stream (live_monitoring_service.py and the          *)
(* WebSocket handler of routers/monitoring.py).                            *)
(*                                                                         *)
(* The Collector refreshes the cached components, numbers a snapshot under *)
(* the lock and fans it out after it has released the lock; Tracers, the   *)
(* threads that run canary probes, fan out an event for every change of a  *)
(* run.  Every connection (Clients) has a bounded queue of its own.  The   *)
(* queue operations of a fan-out are steps of their own: put_nowait,       *)
(* get_nowait when the queue was full, put_nowait again.                   *)
(***************************************************************************)
EXTENDS Integers, Sequences, FiniteSets, Functions

CONSTANTS Clients,      \* WebSocket connections
          Tracers,      \* threads that publish changes of canary runs
          Collector,    \* the refresh thread; at boot, the thread of the lifespan
          None,
          Components,   \* capacity, datapath and latency: the cached components
          QueueSize,    \* queue_size
          MaxRefreshes, \* bound: refreshes of the collector
          MaxUpdates    \* bound: published changes of runs

ASSUME ThreadsAssumption ==
    /\ Collector \notin Tracers /\ (Tracers \cup {Collector}) \cap Clients = {}
    /\ None \notin Clients /\ IsFiniteSet(Clients)
ASSUME ComponentsAssumption == "latency" \in Components
ASSUME BoundsAssumption ==
    QueueSize \in Nat \ {0} /\ MaxRefreshes \in Nat \ {0} /\ MaxUpdates \in Nat

VARIABLES
    cache,          \* the state of each component
    sequence,       \* _sequence
    snapshot,       \* _snapshot
    listening,      \* _listener_registered
    subscriptions,  \* the keys of _subscriptions
    queue,          \* the queue of each connection
    pc,             \* where each thread and connection is
    event,          \* the event a publisher fans out
    todo,           \* the queues it still has to serve
    target,         \* the queue it is working on
    wsClients,      \* _websocket_clients_current of the API metrics
    updates,        \* history: number of published run changes
    base,           \* history: the client was told of the snapshots up to this one
    seen,           \* history: numbers of the snapshots that came from the queue
    overflown       \* history: connections whose queue has been full

Publishers == Tracers \cup {Collector}

cacheVars == <<cache, sequence, snapshot, listening>>
fanoutVars == <<event, todo, target, updates>>
clientVars == <<subscriptions, wsClients, base, seen>>
vars == <<cacheVars, fanoutVars, clientVars, queue, pc, overflown>>

Goto(t, l) == pc' = [pc EXCEPT ![t] = l]
Event(kind, n) == [kind |-> kind, sequence |-> n]

\* The snapshots in a queue, and their numbers.
Snapshots(events) == {i \in DOMAIN events : events[i].kind = "snapshot"}
Numbers(events) == {events[i].sequence : i \in Snapshots(events)}

Init ==
    /\ cache = [c \in Components |-> [data |-> FALSE, error |-> FALSE]]
    /\ sequence = 0
    /\ snapshot = [sequence |-> 0, status |-> "none", available |-> {}]
    /\ listening = FALSE
    /\ subscriptions = {}
    /\ queue = [c \in Clients |-> <<>>]
    /\ pc = [t \in Publishers \cup Clients |-> IF t = Collector THEN "boot" ELSE "idle"]
    /\ event = [t \in Publishers |-> None]
    /\ todo = [t \in Publishers |-> {}]
    /\ target = [t \in Publishers |-> None]
    /\ wsClients = 0 /\ updates = 0
    /\ base = [c \in Clients |-> 0]
    /\ seen = [c \in Clients |-> <<>>]
    /\ overflown = {}

-----------------------------------------------------------------------------
(* The collector *)

\* FAULTY: a refresh that failed leaves no error.
UpdateSilently(state, ok) == IF ok THEN [data |-> TRUE, error |-> FALSE] ELSE state

\* _update_capacity_state and its siblings: a failure keeps the old data.
UpdateState(state, ok) ==
    IF ok THEN [data |-> TRUE, error |-> FALSE] ELSE [state EXCEPT !.error = TRUE]

\* start(): the listener is registered and a first snapshot collected before
\* the thread runs and the first connection is accepted.
Start ==
    /\ pc[Collector] = "boot"
    /\ listening' = TRUE
    /\ Goto(Collector, "collect")
    /\ UNCHANGED <<cache, sequence, snapshot, fanoutVars, clientVars, queue, overflown>>

\* The collector's loop, once it has slept for interval_s.
Wake ==
    /\ pc[Collector] = "idle" /\ sequence < MaxRefreshes
    /\ Goto(Collector, "collect")
    /\ UNCHANGED <<cacheVars, fanoutVars, clientVars, queue, overflown>>

\* _refresh_safely up to the lock, with _collect_snapshot: capacity and datapath
\* are refreshed every time, latency when its interval is over or there is no
\* data yet.
Collect ==
    /\ pc[Collector] = "collect"
    /\ \E ok \in [Components -> BOOLEAN], latencyDue \in BOOLEAN :
        cache' = [c \in Components |->
                     IF c = "latency" /\ cache[c].data /\ ~ latencyDue THEN cache[c]
                     ELSE UpdateState(cache[c], ok[c])]
    /\ Goto(Collector, "number")
    /\ UNCHANGED <<sequence, snapshot, listening, fanoutVars, clientVars, queue, overflown>>

\* The snapshot gets its number and becomes the current one.
Number ==
    /\ pc[Collector] = "number"
    /\ sequence' = sequence + 1
    /\ snapshot' = [sequence |-> sequence + 1,
                    status |-> IF \E c \in Components : cache[c].error THEN "degraded" ELSE "ok",
                    available |-> {c \in Components : cache[c].data}]
    /\ event' = [event EXCEPT ![Collector] = Event("snapshot", sequence + 1)]
    /\ Goto(Collector, "list")
    /\ UNCHANGED <<cache, listening, todo, target, updates, clientVars, queue, overflown>>

\* stop(), when the last connection has gone.
Stop ==
    /\ pc[Collector] = "idle" /\ \A c \in Clients : pc[c] \in {"idle", "closed"}
    /\ listening' = FALSE
    /\ Goto(Collector, "stopped")
    /\ UNCHANGED <<cache, sequence, snapshot, fanoutVars, clientVars, queue, overflown>>

-----------------------------------------------------------------------------
(* Publishing *)

\* publish_trace_run: the number is read without the lock.
PublishTraceRun(t) ==
    /\ pc[t] = "idle" /\ listening /\ updates < MaxUpdates
    /\ updates' = updates + 1
    /\ event' = [event EXCEPT ![t] = Event("trace_run", sequence)]
    /\ Goto(t, "list")
    /\ UNCHANGED <<cacheVars, todo, target, clientVars, queue, overflown>>

\* _publish_event: the queues are listed under the lock and served after it.
List(t) ==
    /\ pc[t] = "list"
    /\ todo' = [todo EXCEPT ![t] = subscriptions]
    /\ Goto(t, "put")
    /\ UNCHANGED <<cacheVars, event, target, updates, clientVars, queue, overflown>>

Served(t, c) ==
    /\ todo' = [todo EXCEPT ![t] = @ \ {c}]
    /\ target' = [target EXCEPT ![t] = None]
    /\ Goto(t, "put")

Offer(t, c) == queue' = [queue EXCEPT ![c] = Append(@, event[t])]

\* FAULTY: put() in place of put_nowait() waits for room.
PutBlocking(t) ==
    /\ pc[t] = "put"
    /\ \E c \in todo[t] : Len(queue[c]) < QueueSize /\ Offer(t, c) /\ Served(t, c)
    /\ UNCHANGED <<cacheVars, event, updates, clientVars, overflown>>

\* put_nowait, which raises when the queue is full.
Put(t) ==
    /\ pc[t] = "put"
    /\ \E c \in todo[t] :
        \/ /\ Len(queue[c]) < QueueSize
           /\ Offer(t, c)
           /\ Served(t, c)
           /\ UNCHANGED overflown
        \/ /\ Len(queue[c]) >= QueueSize
           /\ target' = [target EXCEPT ![t] = c]
           /\ overflown' = overflown \cup {c}
           /\ Goto(t, "evict")
           /\ UNCHANGED <<queue, todo>>
    /\ UNCHANGED <<cacheVars, event, updates, clientVars>>

\* FAULTY: the oldest event goes back to the end of the queue.
EvictRequeues(t) ==
    LET c == target[t]
    IN  /\ pc[t] = "evict"
        /\ queue' = [queue EXCEPT ![c] = IF @ = <<>> THEN @ ELSE Append(Tail(@), Head(@))]
        /\ Goto(t, "retry")
        /\ UNCHANGED <<cacheVars, fanoutVars, clientVars, overflown>>

\* get_nowait: the oldest event makes room, unless the client was faster.
Evict(t) ==
    LET c == target[t]
    IN  /\ pc[t] = "evict"
        /\ queue' = [queue EXCEPT ![c] = IF @ = <<>> THEN @ ELSE Tail(@)]
        /\ Goto(t, "retry")
        /\ UNCHANGED <<cacheVars, fanoutVars, clientVars, overflown>>

\* The second put_nowait; when another publisher took the room, the event is
\* dropped.
Retry(t) ==
    LET c == target[t]
    IN  /\ pc[t] = "retry"
        /\ IF Len(queue[c]) < QueueSize THEN Offer(t, c) ELSE UNCHANGED queue
        /\ Served(t, c)
        /\ UNCHANGED <<cacheVars, event, updates, clientVars, overflown>>

Published(t) ==
    /\ pc[t] = "put" /\ todo[t] = {}
    /\ event' = [event EXCEPT ![t] = None]
    /\ Goto(t, "idle")
    /\ UNCHANGED <<cacheVars, todo, target, updates, clientVars, queue, overflown>>

-----------------------------------------------------------------------------
(* A connection *)

\* FAULTY: the queue is not entered into the table.
SubscribeUnlisted(c) ==
    /\ pc[c] = "idle" /\ pc[Collector] \notin {"boot", "stopped"} /\ sequence > 0
    /\ wsClients' = wsClients + 1
    /\ base' = [base EXCEPT ![c] = sequence]
    /\ Goto(c, "accept")
    /\ UNCHANGED <<cacheVars, fanoutVars, subscriptions, seen, queue, overflown>>

\* The middleware counts the connection and the handler subscribes.
Subscribe(c) ==
    /\ pc[c] = "idle" /\ pc[Collector] \notin {"boot", "stopped"} /\ sequence > 0
    /\ wsClients' = wsClients + 1
    /\ subscriptions' = subscriptions \cup {c}
    /\ base' = [base EXCEPT ![c] = sequence]
    /\ Goto(c, "accept")
    /\ UNCHANGED <<cacheVars, fanoutVars, seen, queue, overflown>>

\* accept() fails when the client has gone; nothing unsubscribes then.
Accept(c) ==
    /\ pc[c] = "accept"
    /\ \/ Goto(c, "initial") /\ UNCHANGED wsClients
       \/ Goto(c, "refused") /\ wsClients' = wsClients - 1
    /\ UNCHANGED <<cacheVars, fanoutVars, subscriptions, base, seen, queue, overflown>>

\* FAULTY: the middleware does not count an end by an exception.
DisconnectUncounted(c) ==
    /\ pc[c] \in {"initial", "stream"}
    /\ subscriptions' = subscriptions \ {c}
    /\ Goto(c, "closed")
    /\ UNCHANGED <<cacheVars, fanoutVars, wsClients, base, seen, queue, overflown>>

\* Sending fails: the handler unsubscribes on its way out.
Disconnect(c) ==
    /\ pc[c] \in {"initial", "stream"}
    /\ subscriptions' = subscriptions \ {c}
    /\ wsClients' = wsClients - 1
    /\ Goto(c, "closed")
    /\ UNCHANGED <<cacheVars, fanoutVars, base, seen, queue, overflown>>

\* With send_initial the current snapshot is sent first.
SendInitial(c) ==
    /\ pc[c] = "initial"
    /\ \E send_initial \in BOOLEAN :
        base' = IF send_initial THEN [base EXCEPT ![c] = snapshot.sequence] ELSE base
    /\ Goto(c, "stream")
    /\ UNCHANGED <<cacheVars, fanoutVars, subscriptions, wsClients, seen, queue, overflown>>

\* poll_event and send_json.  Without an event the client gets a heartbeat.
Receive(c) ==
    /\ pc[c] = "stream" /\ queue[c] # <<>>
    /\ LET e == Head(queue[c])
       IN  seen' = [seen EXCEPT ![c] = IF e.kind = "snapshot" THEN Append(@, e.sequence) ELSE @]
    /\ queue' = [queue EXCEPT ![c] = Tail(@)]
    /\ UNCHANGED <<cacheVars, fanoutVars, subscriptions, wsClients, base, pc, overflown>>

-----------------------------------------------------------------------------
PublisherStep(t) == List(t) \/ Put(t) \/ Evict(t) \/ Retry(t) \/ Published(t)
CollectorStep == Start \/ Collect \/ Number \/ PublisherStep(Collector)
ClientStep(c) == Subscribe(c) \/ Accept(c) \/ Disconnect(c) \/ SendInitial(c) \/ Receive(c)

Next ==
    \/ CollectorStep \/ Wake \/ Stop
    \/ \E t \in Tracers : PublishTraceRun(t) \/ PublisherStep(t)
    \/ \E c \in Clients : ClientStep(c)

Spec == Init /\ [][Next]_vars

\* The publishers run; nothing is assumed of the clients, nor of the clock.
FairSpec ==
    /\ Spec
    /\ WF_vars(CollectorStep)
    /\ \A t \in Tracers : WF_vars(PublisherStep(t))

-----------------------------------------------------------------------------
(* Properties *)

Events == [kind : {"snapshot", "trace_run"}, sequence : Nat]

\* The types of the service's state; a publisher between two queue operations
\* has an event and a queue to offer it to.
TypeOK ==
    /\ cache \in [Components -> [data : BOOLEAN, error : BOOLEAN]]
    /\ sequence \in Nat /\ updates \in Nat /\ wsClients \in Nat
    /\ snapshot \in [sequence : Nat, status : {"none", "ok", "degraded"}, available : SUBSET Components]
    /\ listening \in BOOLEAN
    /\ subscriptions \subseteq Clients /\ overflown \subseteq Clients
    /\ queue \in [Clients -> Seq(Events)]
    /\ event \in [Publishers -> Events \cup {None}]
    /\ todo \in [Publishers -> SUBSET Clients]
    /\ target \in [Publishers -> Clients \cup {None}]
    /\ base \in [Clients -> Nat] /\ seen \in [Clients -> Seq(Nat)]
    /\ \A t \in Publishers : pc[t] \in {"evict", "retry"} => target[t] \in todo[t] /\ event[t] \in Events

InOrder(numbers, events) ==
    /\ \A i, j \in DOMAIN numbers : i < j => numbers[i] < numbers[j]
    /\ \A i \in DOMAIN numbers, n \in Numbers(events) : numbers[i] < n
    /\ \A i, j \in Snapshots(events) : i < j => events[i].sequence < events[j].sequence

\* The snapshots that come out of a client's queue, and those still in it, are
\* in the order of their numbers: neither the overflow handling nor the other
\* publishers reorder or repeat them.
StreamInOrder ==
    \A c \in Clients : InOrder(seen[c], queue[c])

\* The last snapshot whose fan-out is over.
LastPublished == IF pc[Collector] \in {"list", "put", "evict", "retry"} THEN sequence - 1 ELSE sequence

\* A client whose queue was never full misses no snapshot: what was published
\* after the snapshot it was sent first has come, or is in its queue.  This is
\* why the handler subscribes before it reads the current snapshot.
NothingMissed ==
    \A c \in Clients \ overflown :
        pc[c] = "stream" =>
            (base[c] + 1)..LastPublished \subseteq Range(seen[c]) \cup Numbers(queue[c])

\* A snapshot that calls itself ok has data of every component; a degraded one
\* still has what was collected before.
OkIsComplete ==
    /\ snapshot.status = "ok" => snapshot.available = Components
    /\ \A c \in snapshot.available : cache[c].data

\* The connections that are counted are those that are open, and a subscription
\* belongs to one of them, unless the connection was never accepted.
SubscribersAreClients ==
    /\ wsClients = Cardinality({c \in Clients : pc[c] \in {"accept", "initial", "stream"}})
    /\ \A c \in subscriptions : pc[c] \in {"accept", "initial", "stream", "refused"}

\* A publisher is never held up by a client that does not read.
PublishersReturn == \A t \in Publishers : pc[t] \in {"list", "put", "evict", "retry"} ~> pc[t] = "idle"

=============================================================================
