--------------------------- MODULE GatewayFanout ---------------------------
(***************************************************************************)
(* How a committed batch reaches the other connections of its document:    *)
(* the rooms of each gateway (sessions/mod.rs), the connections with their *)
(* bounded queues (ws/mod.rs), and the NATS JetStream bus between gateways *)
(* (bus/mod.rs, broker/mod.rs).  One document; an operation stands for a   *)
(* batch and is numbered in commit order.  What a client applies and where *)
(* its catch-up starts is SyncSession's subject: here a catch-up brings    *)
(* what the client lacks of the store.                                     *)
(***************************************************************************)
EXTENDS Integers, Sequences, SequencesExt

CONSTANTS
    Gateways,
    Conns,       \* the clients
    Home,        \* the gateway the balancer gives each client
    RestGateways,  \* the gateways whose REST handlers commit something
    MaxOps,      \* bound on the operations committed
    QueueSize,   \* per_connection_queue_capacity
    MaxDeliver,  \* CONSUMER_MAX_DELIVER
    MaxFaults    \* bound on lost connections, crashes, drains, failed calls, revocations

VARIABLES
    ops,       \* the store: the origin and event id of each committed operation
    conn,      \* the clients and their connections, see Fresh
    task,      \* per writer: the committed operation its handler is distributing
    stream,    \* the JetStream stream: the operations published, in order
    consumer,  \* per gateway: messages acknowledged, times delivered, the one in hand
    readers,   \* the clients whose user may read the document
    draining,  \* the gateways that are shutting down
    dropped,   \* history: operations the stream never got, and why
    faults

vars == <<ops, conn, task, stream, consumer, readers, draining, dropped, faults>>

Writers == Conns \cup RestGateways
At(w) == IF w \in Conns THEN Home[w] ELSE w

\* batch is the session's next batch id; room, closing and queue are the
\* gateway's, have and batch the client's.
Fresh == [state |-> "closed", room |-> FALSE, closing |-> FALSE, queue |-> <<>>,
          have |-> {}, batch |-> 1]
Ended(s) == [s EXCEPT !.state = "closed", !.room = FALSE, !.closing = FALSE, !.queue = <<>>]

\* A frame without operations: joined, durable_ack, server_draining.
Notice == [ops |-> {}, done |-> FALSE]

NoTask == [op |-> 0, step |-> "none"]

Room(g) == {c \in Conns : conn[c].room /\ Home[c] = g}
Fault == faults < MaxFaults /\ faults' = faults + 1

Init ==
    /\ ops = <<>> /\ stream = <<>> /\ readers = Conns /\ draining = {} /\ dropped = {} /\ faults = 0
    /\ conn = [c \in Conns |-> Fresh]
    /\ task = [w \in Writers |-> NoTask]
    /\ consumer = [g \in Gateways |->
                     [acked |-> {}, tries |-> [i \in 1 .. MaxOps |-> 0], hand |-> 0]]

-----------------------------------------------------------------------------
(* The registry *)

\* Mutant: a frame that does not fit is forgotten, as presence is.
SentOrForgotten(s, frame) ==
    IF Len(s.queue) < QueueSize THEN [s EXCEPT !.queue = Append(@, frame)] ELSE s

\* try_send: a frame for the writer, or its close signal when the queue is full.
Sent(s, frame) ==
    IF Len(s.queue) < QueueSize THEN [s EXCEPT !.queue = Append(@, frame)]
    ELSE [s EXCEPT !.closing = TRUE]

\* fanout: every member of the room but the sender.
FanOut(g, sender, n) ==
    conn' = [c \in Conns |->
        IF c \in Room(g) \ {sender} THEN Sent(conn[c], [ops |-> {n}, done |-> FALSE]) ELSE conn[c]]

\* reauthorize: members that may not read, or all of them when the database
\* cannot say, leave the room and are closed.
Answers(allowed) == (allowed = readers /\ UNCHANGED faults) \/ (allowed = {} /\ Fault)
Reauthorized(g, allowed) ==
    [c \in Conns |->
        IF c \in Room(g) \ allowed THEN [conn[c] EXCEPT !.room = FALSE, !.closing = TRUE]
        ELSE conn[c]]

-----------------------------------------------------------------------------
(* Connections *)

\* A connection whose handler may serve the next frame.
Serves(c) == conn[c].state # "closed" /\ ~conn[c].closing /\ task[c] = NoTask

\* upgrade, hello, authenticate: a draining gateway refuses the last.
Open(c) ==
    /\ conn[c].state = "closed" /\ Home[c] \notin draining
    /\ conn' = [conn EXCEPT ![c].state = "open"]
    /\ UNCHANGED <<ops, task, stream, consumer, readers, draining, dropped, faults>>

\* handle_join: the connection is in the room before any catch-up.
Join(c) ==
    /\ Serves(c) /\ conn[c].state = "open" /\ c \in readers
    /\ conn' = [conn EXCEPT ![c] = Sent([@ EXCEPT !.state = "joined", !.room = TRUE], Notice)]
    /\ UNCHANGED <<ops, task, stream, consumer, readers, draining, dropped, faults>>

\* sync_request: pages and sync_done, through the same queue.
CatchUp(c) ==
    /\ Serves(c) /\ conn[c].state = "joined"
    /\ conn' = [conn EXCEPT ![c] =
           Sent([@ EXCEPT !.state = "syncing"],
                [ops |-> (1 .. Len(ops)) \ conn[c].have, done |-> TRUE])]
    /\ UNCHANGED <<ops, task, stream, consumer, readers, draining, dropped, faults>>

\* The writer task sends a frame and the client takes it.
Receive(c) ==
    /\ conn[c].state # "closed" /\ ~conn[c].closing /\ conn[c].queue # <<>>
    /\ LET frame == Head(conn[c].queue)
       IN conn' = [conn EXCEPT ![c].queue = Tail(@), ![c].have = @ \cup frame.ops,
                               ![c].state = IF frame.done THEN "ready" ELSE @]
    /\ UNCHANGED <<ops, task, stream, consumer, readers, draining, dropped, faults>>

\* connection_loop ends, on the close signal or with the socket; the cleanup
\* checks the room's readers again and leaves it.
Close(c) ==
    /\ conn[c].state # "closed" /\ task[c] = NoTask
    /\ \E allowed \in {readers, {}} :
          /\ conn[c].closing \/ allowed = readers
          /\ IF conn[c].closing THEN Answers(allowed) ELSE Fault
          /\ conn' = [Reauthorized(Home[c], allowed) EXCEPT ![c] = Ended(@)]
    /\ UNCHANGED <<ops, task, stream, consumer, readers, draining, dropped>>

\* A new page is a new session, which counts its batches from 1.
Reload(c) ==
    /\ conn[c].state = "closed" /\ conn[c].batch > 1
    /\ conn' = [conn EXCEPT ![c].batch = 1]
    /\ UNCHANGED <<ops, task, stream, consumer, readers, draining, dropped, faults>>

Revoke(c) ==
    /\ c \in readers /\ Fault /\ readers' = readers \ {c}
    /\ UNCHANGED <<ops, conn, task, stream, consumer, draining, dropped>>

-----------------------------------------------------------------------------
(* A writer: ingest commits, and its handler publishes and fans out.       *)

Begins(w, id) ==
    /\ Len(ops) < MaxOps /\ task[w] = NoTask
    /\ ops' = Append(ops, [origin |-> At(w), id |-> id])
    /\ task' = [task EXCEPT ![w] = [op |-> Len(ops) + 1, step |-> "publish"]]

\* handle_binary: a batch of new operations is committed and acknowledged.  One
\* that was committed before goes no further than that.
Write(c) ==
    /\ Serves(c) /\ conn[c].state = "ready" /\ c \in readers /\ Home[c] \notin draining
    /\ Begins(c, conn[c].batch)
    /\ conn' = [conn EXCEPT ![c] =
           Sent([conn[c] EXCEPT !.have = @ \cup {Len(ops) + 1}, !.batch = @ + 1], Notice)]
    /\ UNCHANGED <<stream, consumer, readers, draining, dropped, faults>>

\* A restore or a merge through REST: the event id is drawn from a uuid.
Restore(g) ==
    /\ Begins(g, 0 - Len(ops) - 1)
    /\ UNCHANGED <<conn, stream, consumer, readers, draining, dropped, faults>>

\* What the duplicate window compares: document, origin and event id.
SameMessage(m, n) == ops[m] = ops[n]

\* publish: JetStream takes the message, or has had one of that id in the last
\* two minutes, or the call fails; the handler goes on in each case.
Publish(w) ==
    LET n == task[w].op IN
    /\ task[w].step = "publish"
    /\ \/ stream' = Append(stream, n) /\ UNCHANGED <<dropped, faults>>
       \/ /\ \E m \in Range(stream) : SameMessage(m, n)
          /\ dropped' = dropped \cup {[op |-> n, why |-> "duplicate"]}
          /\ UNCHANGED <<stream, faults>>
       \/ /\ dropped' = dropped \cup {[op |-> n, why |-> "failed"]} /\ Fault
          /\ UNCHANGED stream
    /\ task' = [task EXCEPT ![w].step = IF w \in Conns THEN "check" ELSE "fanout"]
    /\ UNCHANGED <<ops, conn, consumer, readers, draining>>

Check(w) ==
    /\ task[w].step = "check"
    /\ \E allowed \in {readers, {}} :
          Answers(allowed) /\ conn' = Reauthorized(At(w), allowed)
    /\ task' = [task EXCEPT ![w].step = "fanout"]
    /\ UNCHANGED <<ops, stream, consumer, readers, draining, dropped>>

Distribute(w) ==
    /\ task[w].step = "fanout"
    /\ FanOut(At(w), w, task[w].op)
    /\ task' = [task EXCEPT ![w] = NoTask]
    /\ UNCHANGED <<ops, stream, consumer, readers, draining, dropped, faults>>

-----------------------------------------------------------------------------
(* The subscriber of a gateway (NatsSubscriber::run) *)

Hand(g) == consumer[g].hand

\* The messages that JetStream may hand over: the next one, or one whose ack did
\* not come in time.
Deliverable(g) ==
    {i \in 1 .. Len(stream) :
        /\ i \notin consumer[g].acked /\ consumer[g].tries[i] < MaxDeliver
        /\ \A j \in 1 .. i - 1 : consumer[g].tries[j] > 0}

Delivered(g, i) == [consumer[g] EXCEPT !.tries[i] = @ + 1]

\* The result of ack is not looked at: a lost one is a fault nobody sees.
Acked(g, taken, i) ==
    \/ consumer' = [consumer EXCEPT ![g] = [taken EXCEPT !.acked = @ \cup {i}]] /\ UNCHANGED faults
    \/ consumer' = [consumer EXCEPT ![g] = taken] /\ Fault

\* Its own events, and those of an empty room, are acknowledged at once.
Skip(g) ==
    /\ Hand(g) = 0
    /\ \E i \in Deliverable(g) :
          (ops[stream[i]].origin = g \/ Room(g) = {}) /\ Acked(g, Delivered(g, i), i)
    /\ UNCHANGED <<ops, conn, task, stream, readers, draining, dropped>>

Admit(g) ==
    /\ Hand(g) = 0
    /\ \E i \in Deliverable(g) :
          /\ ops[stream[i]].origin # g /\ Room(g) # {}
          /\ consumer' = [consumer EXCEPT ![g] = [Delivered(g, i) EXCEPT !.hand = i]]
    /\ \E allowed \in {readers, {}} :
          Answers(allowed) /\ conn' = Reauthorized(g, allowed)
    /\ UNCHANGED <<ops, task, stream, readers, draining, dropped>>

Relay(g) ==
    /\ Hand(g) # 0
    /\ FanOut(g, "nobody", stream[Hand(g)])
    /\ Acked(g, [consumer[g] EXCEPT !.hand = 0], Hand(g))
    /\ UNCHANGED <<ops, task, stream, readers, draining, dropped>>

-----------------------------------------------------------------------------
(* Shutdown and crash *)

\* The flag and begin_drain: a notice for whoever has room for it.
Drain(g) ==
    /\ g \notin draining /\ Fault /\ draining' = draining \cup {g}
    /\ conn' = [c \in Conns |->
           IF c \in Room(g) /\ Len(conn[c].queue) < QueueSize
           THEN [conn[c] EXCEPT !.queue = Append(@, Notice)] ELSE conn[c]]
    /\ UNCHANGED <<ops, task, stream, consumer, readers, dropped>>

\* close_drained, after the grace period.
CloseAll(g) ==
    /\ g \in draining
    /\ conn' = [c \in Conns |->
           IF Home[c] = g /\ conn[c].state # "closed" THEN [conn[c] EXCEPT !.closing = TRUE]
           ELSE conn[c]]
    /\ conn' # conn
    /\ UNCHANGED <<ops, task, stream, consumer, readers, draining, dropped, faults>>

\* The process ends, of itself or drained, and another one takes its place: what
\* was committed and not published never is.
Stop(g) ==
    /\ IF g \in draining THEN UNCHANGED faults ELSE Fault
    /\ conn' = [c \in Conns |-> IF Home[c] = g THEN Ended(conn[c]) ELSE conn[c]]
    /\ task' = [w \in Writers |-> IF At(w) = g THEN NoTask ELSE task[w]]
    /\ dropped' = dropped \cup
           {[op |-> task[w].op, why |-> "stopped"] : w \in {v \in Writers : At(v) = g /\ task[v].step = "publish"}}
    /\ consumer' = [consumer EXCEPT ![g].hand = 0]
    /\ draining' = draining \ {g}
    /\ UNCHANGED <<ops, stream, readers>>

\* Where no client can be the subscriber acknowledges everything, which nobody sees.
Serving == {Home[c] : c \in Conns}

Next ==
    \/ \E c \in Conns : Open(c) \/ Join(c) \/ CatchUp(c) \/ Receive(c) \/ Close(c) \/ Reload(c)
                        \/ Revoke(c) \/ Write(c)
    \/ \E w \in Writers : Publish(w) \/ Check(w) \/ Distribute(w)
    \/ \E g \in RestGateways : Restore(g)
    \/ \E g \in Serving : Skip(g) \/ Admit(g) \/ Relay(g)
    \/ \E g \in Gateways : Drain(g) \/ CloseAll(g) \/ Stop(g)

Spec == Init /\ [][Next]_vars

-----------------------------------------------------------------------------
(* Properties.                                                             *)

\* An operation that is still to be fanned out at a gateway: by a handler of
\* its own, or by a message it will be handed or has in hand.
OnTheWay(n, g) ==
    \/ \E w \in Writers : task[w].op = n /\ (At(w) = g \/ task[w].step = "publish")
    \/ \E i \in 1 .. Len(stream) :
          /\ stream[i] = n /\ i \notin consumer[g].acked
          /\ consumer[g].tries[i] < MaxDeliver \/ Hand(g) = i

InQueue(s) == UNION {s.queue[i].ops : i \in 1 .. Len(s.queue)}
Queued(c) == InQueue(conn[c])

\* A client that is up to date and not being closed holds every committed
\* operation, or has it queued, or will be sent it: joins, catch-up, slow
\* peers, redelivery and empty rooms lose nothing.  What the stream never got
\* is missed on the other gateways only (fanout, NatsSubscriber::run).
NothingMissed ==
    \A c \in Conns : conn[c].state = "ready" /\ ~conn[c].closing =>
        \A n \in (1 .. Len(ops)) \ (conn[c].have \cup Queued(c)) :
            \/ OnTheWay(n, Home[c])
            \/ ops[n].origin # Home[c] /\ \E d \in dropped : d.op = n

\* What the duplicate window suppresses are repetitions of one publication
\* (the comment on publish).
SuppressedIsRepeated == \A d \in dropped : d.why = "duplicate" => d.op \in Range(stream)

-----------------------------------------------------------------------------
(* What the promise to the clients rests on.                               *)

Frames == [ops : SUBSET Nat, done : BOOLEAN]
Connections ==
    [state : {"closed", "open", "joined", "syncing", "ready"}, room : BOOLEAN,
     closing : BOOLEAN, queue : Seq(Frames), have : SUBSET Nat, batch : Nat]

TypeOK ==
    /\ ops \in Seq([origin : Gateways, id : Int]) /\ Len(ops) <= MaxOps
    /\ conn \in [Conns -> Connections]
    /\ task \in [Writers -> [op : Nat, step : {"none", "publish", "check", "fanout"}]]
    /\ stream \in Seq(Nat)
    /\ consumer \in [Gateways -> [acked : SUBSET Nat, tries : [1 .. MaxOps -> Nat], hand : Nat]]

\* A connection is in the room once it has joined and until it is being closed,
\* and a catch-up is queued at most once per connection.
InRoom(s) ==
    /\ s.state = "closed" => s.queue = <<>> /\ ~s.room
    /\ s.state \in {"joined", "syncing", "ready"} /\ ~s.closing => s.room
    /\ s.state \in {"open", "joined"} => \A i \in DOMAIN s.queue : ~s.queue[i].done

RoomInv == \A c \in Conns : InRoom(conn[c])

\* An operation has one handler, at the gateway that committed it; a client
\* holds what it writes.
TaskInv ==
    /\ \A w \in Writers :
          \/ task[w] = NoTask
          \/ /\ task[w].step # "none" /\ task[w].op \in 1 .. Len(ops)
             /\ ops[task[w].op].origin = At(w)
             /\ w \in Conns => task[w].op \in conn[w].have
    /\ \A v, w \in Writers : task[v].op = task[w].op /\ task[v] # NoTask => v = w

\* An operation is published once, after its commit; a message that was not
\* published was not delivered.
StreamInv ==
    /\ \A i \in 1 .. Len(stream) : stream[i] \in 1 .. Len(ops)
    /\ \A i, j \in 1 .. Len(stream) : stream[i] = stream[j] => i = j
    /\ \A w \in Writers : task[w].step = "publish" => \A i \in 1 .. Len(stream) : stream[i] # task[w].op
    /\ \A g \in Gateways :
          /\ consumer[g].acked \subseteq 1 .. Len(stream)
          /\ \A i \in 1 .. MaxOps : i > Len(stream) => consumer[g].tries[i] = 0
          /\ Hand(g) \in 0 .. Len(stream)

\* What is still to come to a client of the gateway that committed n, and to
\* those of another one.
ByItsHandler(n) == \E w \in Writers : task[w].op = n
ByTheStream(n, g) ==
    \/ \E w \in Writers : task[w].op = n /\ task[w].step = "publish"
    \/ \E i \in 1 .. Len(stream) :
          /\ stream[i] = n /\ i \notin consumer[g].acked
          /\ consumer[g].tries[i] < MaxDeliver \/ Hand(g) = i
    \/ \E d \in dropped : d.op = n

\* From the moment its catch-up is queued, a client that is not being closed
\* lacks nothing, wherever the operation was committed.
Served(s) == s.state \in {"syncing", "ready"} /\ ~s.closing
Held(s) == s.have \cup InQueue(s)

ServedInv ==
    \A c \in Conns : Served(conn[c]) =>
        \A n \in (1 .. Len(ops)) \ Held(conn[c]) :
            IF ops[n].origin = Home[c] THEN ByItsHandler(n) ELSE ByTheStream(n, Home[c])

FanoutInv == TypeOK /\ RoomInv /\ TaskInv /\ StreamInv /\ ServedInv
=============================================================================
