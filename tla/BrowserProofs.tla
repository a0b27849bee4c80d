---------------------------- MODULE BrowserProofs ----------------------------
(***************************************************************************)
(* Proofs about the components that Browser puts side by side.  Each       *)
(* component has an inductive invariant, stated in its own module; here it *)
(* is shown that every step of the component preserves it, and then that   *)
(* every behaviour of Browser, whichever component it runs, has the        *)
(* properties which the runs check.                                        *)
(***************************************************************************)
EXTENDS Browser, Sequences, FiniteSetTheorems, WellFoundedInduction, TLAPS

-----------------------------------------------------------------------------
(* GatewayFanout: the queue of one connection.                             *)

\* A frame is queued, or the connection is closed (try_send).
LEMMA SentFacts ==
    ASSUME NEW s \in Fanout!Connections, NEW frame \in Fanout!Frames
    PROVE  LET r == Fanout!Sent(s, frame) IN
           /\ r \in Fanout!Connections
           /\ r.state = s.state /\ r.room = s.room /\ r.have = s.have /\ r.batch = s.batch
           /\ s.closing => r.closing
           /\ ~r.closing => r.queue = Append(s.queue, frame)
           /\ r.queue \in {s.queue, Append(s.queue, frame)}
<1> DEFINE q == Append(s.queue, frame)
           r == Fanout!Sent(s, frame)
<1>1. q \in Seq(Fanout!Frames) /\ s.queue \in Seq(Fanout!Frames)
  BY DEF Fanout!Connections
<1> HIDE DEF q
<1>2. CASE Len(s.queue) < QueueSize
  <2>1. r = [s EXCEPT !.queue = q]
    BY <1>2 DEF Fanout!Sent, q
  <2> QED BY <1>1, <2>1 DEF Fanout!Connections, q
<1>3. CASE ~(Len(s.queue) < QueueSize)
  <2>1. r = [s EXCEPT !.closing = TRUE]
    BY <1>3 DEF Fanout!Sent
  <2> QED BY <1>1, <2>1 DEF Fanout!Connections
<1> QED BY <1>2, <1>3

\* What is queued after another frame.
LEMMA InQueueAppend ==
    ASSUME NEW s \in Fanout!Connections, NEW r \in Fanout!Connections,
           NEW frame \in Fanout!Frames, r.queue = Append(s.queue, frame)
    PROVE  Fanout!InQueue(r) = Fanout!InQueue(s) \cup frame.ops
<1> DEFINE q == s.queue
<1>1. q \in Seq(Fanout!Frames) /\ Len(r.queue) = Len(q) + 1 /\ Len(q) \in Nat
  BY DEF Fanout!Connections
<1>2. r.queue[Len(q) + 1] = frame /\ \A i \in 1 .. Len(q) : r.queue[i] = q[i]
  BY DEF Fanout!Connections
<1>3. \A n : n \in Fanout!InQueue(r) <=> n \in Fanout!InQueue(s) \/ n \in frame.ops
  BY <1>1, <1>2 DEF Fanout!InQueue
<1> QED BY <1>3

\* What is queued before a frame is taken.
LEMMA InQueueTail ==
    ASSUME NEW s \in Fanout!Connections, NEW r \in Fanout!Connections,
           s.queue # <<>>, r.queue = Tail(s.queue)
    PROVE  Fanout!InQueue(s) = Fanout!InQueue(r) \cup Head(s.queue).ops
<1> DEFINE q == s.queue
<1>1. q \in Seq(Fanout!Frames) /\ Len(r.queue) = Len(q) - 1 /\ Len(q) \in Nat \ {0}
  BY DEF Fanout!Connections
<1>2. Head(q) = q[1] /\ \A i \in 1 .. Len(q) - 1 : r.queue[i] = q[i + 1]
  BY <1>1 DEF Fanout!Connections
<1>3. \A n : n \in Fanout!InQueue(s) => n \in Fanout!InQueue(r) \/ n \in Head(q).ops
  <2> SUFFICES ASSUME NEW i \in 1 .. Len(q), NEW n \in q[i].ops
               PROVE  n \in Fanout!InQueue(r) \/ n \in Head(q).ops
    BY DEF Fanout!InQueue
  <2>1. CASE i = 1
    BY <2>1, <1>2
  <2>2. CASE i # 1
    <3>1. i - 1 \in 1 .. Len(r.queue) /\ r.queue[i - 1] = q[i]
      BY <2>2, <1>1, <1>2
    <3> QED BY <3>1 DEF Fanout!InQueue
  <2> QED BY <2>1, <2>2
<1>4. \A n : n \in Fanout!InQueue(r) \/ n \in Head(q).ops => n \in Fanout!InQueue(s)
  <2>1. ASSUME NEW i \in 1 .. Len(r.queue), NEW n \in r.queue[i].ops PROVE n \in Fanout!InQueue(s)
    <3>1. i + 1 \in 1 .. Len(q) /\ r.queue[i] = q[i + 1]
      BY <1>1, <1>2
    <3> QED BY <3>1, <2>1 DEF Fanout!InQueue
  <2>2. ASSUME NEW n \in Head(q).ops PROVE n \in Fanout!InQueue(s)
    BY <1>1, <1>2, <2>2 DEF Fanout!InQueue
  <2> QED BY <2>1, <2>2 DEF Fanout!InQueue
<1> QED BY <1>3, <1>4

-----------------------------------------------------------------------------
(* GatewayFanout: its steps.                                               *)

LEMMA FanoutInit ==
    ASSUME Fanout!Init PROVE Fanout!FanoutInv
<1> USE FanoutAssumption DEF Fanout!Init
<1>1. Fanout!TypeOK
  BY DEF Fanout!TypeOK, Fanout!Connections, Fanout!Fresh, Fanout!NoTask, Fanout!Writers
<1>2. Fanout!RoomInv
  BY DEF Fanout!RoomInv, Fanout!InRoom, Fanout!Fresh
<1>3. Fanout!TaskInv
  BY DEF Fanout!TaskInv
<1>4. Fanout!StreamInv
  BY DEF Fanout!StreamInv, Fanout!Hand, Fanout!NoTask
<1>5. Fanout!ServedInv
  BY DEF Fanout!ServedInv, Fanout!Served, Fanout!Fresh
<1> QED BY <1>1, <1>2, <1>3, <1>4, <1>5 DEF Fanout!FanoutInv

\* A step that commits nothing: each client that is up to date afterwards was
\* so before or is now, and what is still to come to it still comes.
LEMMA ServedKept ==
    ASSUME Fanout!ServedInv, ops' = ops,
           \A c \in Conns : Fanout!Served(conn'[c]) =>
               \/ Fanout!Served(conn[c]) /\ Fanout!Held(conn[c]) \subseteq Fanout!Held(conn'[c])
               \/ 1 .. Len(ops) \subseteq Fanout!Held(conn'[c]),
           \A c \in Conns : Fanout!Served(conn'[c]) =>
               \A n \in (1 .. Len(ops)) \ Fanout!Held(conn'[c]) :
                   /\ ops[n].origin = Home[c] /\ Fanout!ByItsHandler(n) => Fanout!ByItsHandler(n)'
                   /\ ops[n].origin # Home[c] /\ Fanout!ByTheStream(n, Home[c])
                          => Fanout!ByTheStream(n, Home[c])'
    PROVE  Fanout!ServedInv'
<1> SUFFICES ASSUME NEW c \in Conns, Fanout!Served(conn'[c]),
                    NEW n \in (1 .. Len(ops)) \ Fanout!Held(conn'[c])
             PROVE  IF ops[n].origin = Home[c] THEN Fanout!ByItsHandler(n)'
                    ELSE Fanout!ByTheStream(n, Home[c])'
  BY DEF Fanout!ServedInv
<1>1. Fanout!Served(conn[c]) /\ n \notin Fanout!Held(conn[c])
  OBVIOUS
<1>2. IF ops[n].origin = Home[c] THEN Fanout!ByItsHandler(n) ELSE Fanout!ByTheStream(n, Home[c])
  BY <1>1 DEF Fanout!ServedInv
<1> QED BY <1>2

\* A step on the connections only.
LEMMA ConnStep ==
    ASSUME Fanout!FanoutInv, UNCHANGED <<ops, task, stream, consumer, dropped>>,
           conn' \in [Conns -> Fanout!Connections],
           \A c \in Conns : Fanout!InRoom(conn'[c]) /\ conn[c].have \subseteq conn'[c].have,
           \A c \in Conns : Fanout!Served(conn'[c]) =>
               \/ Fanout!Served(conn[c]) /\ Fanout!Held(conn[c]) \subseteq Fanout!Held(conn'[c])
               \/ 1 .. Len(ops) \subseteq Fanout!Held(conn'[c])
    PROVE  Fanout!FanoutInv'
<1> USE DEF Fanout!FanoutInv
<1>1. Fanout!TypeOK'
  BY DEF Fanout!TypeOK
<1>2. Fanout!RoomInv'
  BY DEF Fanout!RoomInv
<1>3. Fanout!TaskInv'
  BY DEF Fanout!TaskInv
<1>4. Fanout!StreamInv'
  BY DEF Fanout!StreamInv, Fanout!Hand
<1>5. Fanout!ServedInv'
  BY ServedKept DEF Fanout!ByItsHandler, Fanout!ByTheStream, Fanout!Hand
<1> QED BY <1>1, <1>2, <1>3, <1>4, <1>5

\* A step on one connection.
LEMMA OneConnStep ==
    ASSUME Fanout!FanoutInv, UNCHANGED <<ops, task, stream, consumer, dropped>>,
           NEW c \in Conns, NEW r \in Fanout!Connections, conn' = [conn EXCEPT ![c] = r],
           Fanout!InRoom(r), conn[c].have \subseteq r.have,
           Fanout!Served(r) =>
               \/ Fanout!Served(conn[c]) /\ Fanout!Held(conn[c]) \subseteq Fanout!Held(r)
               \/ 1 .. Len(ops) \subseteq Fanout!Held(r)
    PROVE  Fanout!FanoutInv'
<1>1. conn \in [Conns -> Fanout!Connections] /\ \A d \in Conns : Fanout!InRoom(conn[d])
  BY DEF Fanout!FanoutInv, Fanout!TypeOK, Fanout!RoomInv
<1>2. /\ conn' \in [Conns -> Fanout!Connections] /\ conn'[c] = r
      /\ \A d \in Conns : d # c => conn'[d] = conn[d]
  BY <1>1
<1>3. \A d \in Conns : Fanout!InRoom(conn'[d]) /\ conn[d].have \subseteq conn'[d].have
  BY <1>1, <1>2
<1>4. \A d \in Conns : Fanout!Served(conn'[d]) =>
               \/ Fanout!Served(conn[d]) /\ Fanout!Held(conn[d]) \subseteq Fanout!Held(conn'[d])
               \/ 1 .. Len(ops) \subseteq Fanout!Held(conn'[d])
  BY <1>2
<1> QED BY <1>2, <1>3, <1>4, ConnStep

LEMMA FanoutOpen ==
    ASSUME Fanout!FanoutInv, NEW c \in Conns, Fanout!Open(c) \/ Fanout!Reload(c)
    PROVE  Fanout!FanoutInv'
<1>1. conn[c] \in Fanout!Connections /\ Fanout!InRoom(conn[c])
  BY DEF Fanout!FanoutInv, Fanout!TypeOK, Fanout!RoomInv
<1> USE DEF Fanout!Connections, Fanout!InRoom, Fanout!Served
<1>2. CASE Fanout!Open(c)
  <2> DEFINE r == [conn[c] EXCEPT !.state = "open"]
  <2>1. r \in Fanout!Connections /\ Fanout!InRoom(r) /\ r.have = conn[c].have /\ ~Fanout!Served(r)
    BY <1>1, <1>2 DEF Fanout!Open
  <2>2. conn' = [conn EXCEPT ![c] = r] /\ UNCHANGED <<ops, task, stream, consumer, dropped>>
    BY <1>2 DEF Fanout!Open
  <2> HIDE DEF r
  <2> QED BY <2>1, <2>2, OneConnStep
<1>3. CASE Fanout!Reload(c)
  <2> DEFINE r == [conn[c] EXCEPT !.batch = 1]
  <2>1. r \in Fanout!Connections /\ Fanout!InRoom(r) /\ r.have = conn[c].have /\ ~Fanout!Served(r)
    BY <1>1, <1>3 DEF Fanout!Reload
  <2>2. conn' = [conn EXCEPT ![c] = r] /\ UNCHANGED <<ops, task, stream, consumer, dropped>>
    BY <1>3 DEF Fanout!Reload
  <2> HIDE DEF r
  <2> QED BY <2>1, <2>2, OneConnStep
<1> QED BY <1>2, <1>3

\* What a frame in the queue, and the close signal, leave of InRoom.
LEMMA InRoomKept ==
    ASSUME NEW s \in Fanout!Connections, Fanout!InRoom(s), s.state # "closed",
           NEW frame \in Fanout!Frames, frame.done => s.state \in {"syncing", "ready"}
    PROVE  Fanout!InRoom(Fanout!Sent(s, frame))
<1> DEFINE r == Fanout!Sent(s, frame)
<1>1. /\ r \in Fanout!Connections /\ r.state = s.state /\ r.room = s.room
      /\ s.closing => r.closing
      /\ r.queue \in {s.queue, Append(s.queue, frame)}
  BY SentFacts
<1>2. s.queue \in Seq(Fanout!Frames)
  BY DEF Fanout!Connections
<1>3. ASSUME s.state \in {"open", "joined"} PROVE \A i \in DOMAIN r.queue : ~r.queue[i].done
  <2>1. \A i \in DOMAIN s.queue : ~s.queue[i].done
    BY <1>3 DEF Fanout!InRoom
  <2>2. ~frame.done
    BY <1>3
  <2> QED BY <1>1, <1>2, <2>1, <2>2
<1> QED BY <1>1, <1>3 DEF Fanout!InRoom

LEMMA FanoutJoin ==
    ASSUME Fanout!FanoutInv, NEW c \in Conns, Fanout!Join(c)
    PROVE  Fanout!FanoutInv'
<1> DEFINE s == [conn[c] EXCEPT !.state = "joined", !.room = TRUE]
           r == Fanout!Sent(s, Fanout!Notice)
<1>1. conn[c] \in Fanout!Connections /\ Fanout!InRoom(conn[c]) /\ conn[c].state = "open"
  BY DEF Fanout!FanoutInv, Fanout!TypeOK, Fanout!RoomInv, Fanout!Join
<1>2. /\ s \in Fanout!Connections /\ Fanout!InRoom(s) /\ s.state = "joined" /\ s.have = conn[c].have
      /\ s.room /\ s.queue = conn[c].queue
  BY <1>1 DEF Fanout!Connections, Fanout!InRoom
<1>3. Fanout!Notice \in Fanout!Frames /\ ~Fanout!Notice.done
  BY DEF Fanout!Frames, Fanout!Notice
<1>4. conn' = [conn EXCEPT ![c] = r] /\ UNCHANGED <<ops, task, stream, consumer, dropped>>
  BY DEF Fanout!Join
<1> HIDE DEF s
<1>5. r \in Fanout!Connections /\ r.state = "joined" /\ r.have = conn[c].have
  BY <1>2, <1>3, SentFacts
<1>6. Fanout!InRoom(r)
  BY <1>2, <1>3, InRoomKept
<1>7. ~Fanout!Served(r)
  BY <1>5 DEF Fanout!Served
<1> HIDE DEF r
<1> QED BY <1>4, <1>5, <1>6, <1>7, OneConnStep

LEMMA FanoutCatchUp ==
    ASSUME Fanout!FanoutInv, NEW c \in Conns, Fanout!CatchUp(c)
    PROVE  Fanout!FanoutInv'
<1> DEFINE s == [conn[c] EXCEPT !.state = "syncing"]
           frame == [ops |-> (1 .. Len(ops)) \ conn[c].have, done |-> TRUE]
           r == Fanout!Sent(s, frame)
<1>1. conn[c] \in Fanout!Connections /\ Fanout!InRoom(conn[c]) /\ conn[c].state = "joined"
  BY DEF Fanout!FanoutInv, Fanout!TypeOK, Fanout!RoomInv, Fanout!CatchUp
<1>2. /\ s \in Fanout!Connections /\ Fanout!InRoom(s) /\ s.state = "syncing" /\ s.have = conn[c].have
      /\ s.queue = conn[c].queue
  BY <1>1 DEF Fanout!Connections, Fanout!InRoom
<1>3. frame \in Fanout!Frames /\ frame.ops = (1 .. Len(ops)) \ conn[c].have
  <2>1. Len(ops) \in Nat
    BY DEF Fanout!FanoutInv, Fanout!TypeOK
  <2> QED BY <2>1 DEF Fanout!Frames
<1>4. conn' = [conn EXCEPT ![c] = r] /\ UNCHANGED <<ops, task, stream, consumer, dropped>>
  BY DEF Fanout!CatchUp
<1> HIDE DEF s, frame
<1>5. /\ r \in Fanout!Connections /\ r.state = "syncing" /\ r.have = conn[c].have
      /\ ~r.closing => r.queue = Append(s.queue, frame)
  BY <1>2, <1>3, SentFacts
<1>6. Fanout!InRoom(r)
  BY <1>2, <1>3, InRoomKept
<1>7. ASSUME Fanout!Served(r) PROVE 1 .. Len(ops) \subseteq Fanout!Held(r)
  <2>1. Fanout!InQueue(r) = Fanout!InQueue(s) \cup frame.ops
    BY <1>2, <1>3, <1>5, <1>7, InQueueAppend DEF Fanout!Served
  <2> QED BY <2>1, <1>3, <1>5 DEF Fanout!Held
<1> HIDE DEF r
<1> QED BY <1>4, <1>5, <1>6, <1>7, OneConnStep

LEMMA FanoutReceive ==
    ASSUME Fanout!FanoutInv, NEW c \in Conns, Fanout!Receive(c)
    PROVE  Fanout!FanoutInv'
<1> DEFINE s == conn[c]
           frame == Head(conn[c].queue)
           r == [s EXCEPT !.queue = Tail(@), !.have = @ \cup frame.ops,
                          !.state = IF frame.done THEN "ready" ELSE @]
<1>1. s \in Fanout!Connections /\ Fanout!InRoom(s) /\ s.state # "closed" /\ s.queue # <<>> /\ ~s.closing
  BY DEF Fanout!FanoutInv, Fanout!TypeOK, Fanout!RoomInv, Fanout!Receive
<1>2. s.queue \in Seq(Fanout!Frames) /\ frame \in Fanout!Frames /\ Tail(s.queue) \in Seq(Fanout!Frames)
  BY <1>1 DEF Fanout!Connections
<1>3. conn \in [Conns -> Fanout!Connections]
  BY DEF Fanout!FanoutInv, Fanout!TypeOK
<1>4. conn' = [conn EXCEPT ![c] = r] /\ UNCHANGED <<ops, task, stream, consumer, dropped>>
  BY <1>3, <1>2 DEF Fanout!Receive, Fanout!Connections
<1>5. /\ r \in Fanout!Connections /\ r.queue = Tail(s.queue) /\ r.have = s.have \cup frame.ops
      /\ r.state = IF frame.done THEN "ready" ELSE s.state
      /\ r.closing = s.closing /\ r.room = s.room
  BY <1>1, <1>2 DEF Fanout!Connections, Fanout!Frames
<1>6. /\ \A i \in DOMAIN s.queue : s.queue[i].done => s.state \notin {"open", "joined"}
      /\ frame = s.queue[1] /\ 1 \in DOMAIN s.queue
      /\ \A i \in DOMAIN r.queue : i + 1 \in DOMAIN s.queue /\ r.queue[i] = s.queue[i + 1]
  BY <1>1, <1>2, <1>5 DEF Fanout!InRoom
<1> HIDE DEF s, frame, r
<1>7. Fanout!InRoom(r)
  <2>1. s.state \in {"closed", "open", "joined", "syncing", "ready"}
    BY <1>1 DEF Fanout!Connections
  <2>2. r.state # "closed"
    BY <1>1, <1>5
  <2>3. r.state \in {"joined", "syncing", "ready"} => s.state \in {"joined", "syncing", "ready"}
    BY <1>1, <1>5, <1>6, <2>1
  <2>4. r.state \in {"open", "joined"} => r.state = s.state
    BY <1>5
  <2> QED BY <1>1, <1>5, <1>6, <2>2, <2>3, <2>4 DEF Fanout!InRoom
<1>8. Fanout!Held(s) \subseteq Fanout!Held(r)
  <2>1. Fanout!InQueue(s) = Fanout!InQueue(r) \cup Head(s.queue).ops
    BY <1>1, <1>5, InQueueTail
  <2>2. frame = Head(s.queue)
    BY DEF frame, s
  <2> QED BY <2>1, <2>2, <1>5 DEF Fanout!Held
<1>9. Fanout!Served(r) => Fanout!Served(s)
  BY <1>1, <1>5, <1>6 DEF Fanout!Served, Fanout!Connections
<1> QED BY <1>4, <1>5, <1>7, <1>8, <1>9, OneConnStep DEF s

\* Members of a room that may not read, or all of them, leave it and are closed.
LEMMA ReauthorizedFacts ==
    ASSUME Fanout!FanoutInv, NEW g, NEW allowed
    PROVE  LET after == Fanout!Reauthorized(g, allowed) IN
           /\ after \in [Conns -> Fanout!Connections]
           /\ \A c \in Conns :
                 /\ Fanout!InRoom(after[c]) /\ after[c].have = conn[c].have
                 /\ after[c].queue = conn[c].queue
                 /\ Fanout!Served(after[c]) => after[c] = conn[c]
<1> DEFINE after == Fanout!Reauthorized(g, allowed)
<1>1. conn \in [Conns -> Fanout!Connections] /\ \A c \in Conns : Fanout!InRoom(conn[c])
  BY DEF Fanout!FanoutInv, Fanout!TypeOK, Fanout!RoomInv
<1>2. ASSUME NEW c \in Conns
      PROVE  /\ after[c] \in Fanout!Connections
             /\ Fanout!InRoom(after[c]) /\ after[c].have = conn[c].have
             /\ after[c].queue = conn[c].queue
             /\ Fanout!Served(after[c]) => after[c] = conn[c]
  <2>1. CASE after[c] = conn[c]
    BY <1>1, <2>1
  <2>2. CASE after[c] = [conn[c] EXCEPT !.room = FALSE, !.closing = TRUE]
    <3>1. conn[c] \in Fanout!Connections /\ Fanout!InRoom(conn[c])
      BY <1>1
    <3> QED BY <3>1, <2>2 DEF Fanout!Connections, Fanout!InRoom, Fanout!Served
  <2> QED BY <2>1, <2>2 DEF Fanout!Reauthorized
<1>3. after = [c \in Conns |-> after[c]]
  BY DEF Fanout!Reauthorized
<1> HIDE DEF after
<1>4. after \in [Conns -> Fanout!Connections]
  BY <1>2, <1>3
<1> QED BY <1>2, <1>4 DEF after

\* A connection that ended has nothing queued and is in no room.
LEMMA EndedFacts ==
    ASSUME NEW s \in Fanout!Connections
    PROVE  LET r == Fanout!Ended(s) IN
           /\ r \in Fanout!Connections /\ Fanout!InRoom(r) /\ r.have = s.have /\ ~Fanout!Served(r)
<1> DEFINE r == Fanout!Ended(s)
<1>1. <<>> \in Seq(Fanout!Frames)
  OBVIOUS
<1>2. /\ r \in Fanout!Connections
      /\ r.state = "closed" /\ ~r.room /\ r.queue = <<>> /\ r.have = s.have
  BY <1>1 DEF Fanout!Ended, Fanout!Connections
<1> QED BY <1>2 DEF Fanout!InRoom, Fanout!Served

LEMMA FanoutClose ==
    ASSUME Fanout!FanoutInv, NEW c \in Conns, Fanout!Close(c)
    PROVE  Fanout!FanoutInv'
<1>1. PICK allowed \in {readers, {}} :
        conn' = [Fanout!Reauthorized(Home[c], allowed) EXCEPT ![c] = Fanout!Ended(@)]
  BY DEF Fanout!Close
<1> DEFINE after == Fanout!Reauthorized(Home[c], allowed)
<1>2. /\ after \in [Conns -> Fanout!Connections]
      /\ \A d \in Conns : /\ Fanout!InRoom(after[d]) /\ after[d].have = conn[d].have
                          /\ Fanout!Served(after[d]) => after[d] = conn[d]
  BY ReauthorizedFacts
<1>3. conn' = [after EXCEPT ![c] = Fanout!Ended(after[c])]
  BY <1>1
<1> HIDE DEF after
<1>4. /\ conn' \in [Conns -> Fanout!Connections] /\ conn'[c] = Fanout!Ended(after[c])
      /\ \A d \in Conns \ {c} : conn'[d] = after[d]
  BY <1>2, <1>3, EndedFacts
<1>5. \A d \in Conns : Fanout!InRoom(conn'[d]) /\ conn'[d].have = conn[d].have
  BY <1>2, <1>4, EndedFacts
<1>6. \A d \in Conns : Fanout!Served(conn'[d]) => conn'[d] = conn[d]
  BY <1>2, <1>4, EndedFacts
<1>7. UNCHANGED <<ops, task, stream, consumer, dropped>>
  BY DEF Fanout!Close
<1> QED BY <1>4, <1>5, <1>6, <1>7, ConnStep

LEMMA FanoutDrain ==
    ASSUME Fanout!FanoutInv, NEW g \in Gateways, Fanout!Drain(g) \/ Fanout!CloseAll(g)
    PROVE  Fanout!FanoutInv'
<1>1. conn \in [Conns -> Fanout!Connections] /\ \A c \in Conns : Fanout!InRoom(conn[c])
  BY DEF Fanout!FanoutInv, Fanout!TypeOK, Fanout!RoomInv
<1>2. UNCHANGED <<ops, task, stream, consumer, dropped>> /\ conn' = [c \in Conns |-> conn'[c]]
  BY DEF Fanout!Drain, Fanout!CloseAll
<1>3. ASSUME NEW c \in Conns
      PROVE  /\ conn'[c] \in Fanout!Connections
             /\ Fanout!InRoom(conn'[c]) /\ conn'[c].have = conn[c].have
             /\ Fanout!Served(conn'[c]) =>
                    Fanout!Served(conn[c]) /\ Fanout!Held(conn[c]) \subseteq Fanout!Held(conn'[c])
  <2> DEFINE s == conn[c]
             r == conn'[c]
  <2>1. s \in Fanout!Connections /\ Fanout!InRoom(s)
    BY <1>1
  <2>2. CASE r = s
    BY <2>1, <2>2
  <2>3. CASE s.state # "closed" /\ r = [s EXCEPT !.closing = TRUE]
    <3> HIDE DEF s, r
    <3> QED BY <2>1, <2>3 DEF Fanout!Connections, Fanout!InRoom, Fanout!Served, s, r
  <2>4. CASE /\ s.room /\ Len(s.queue) < QueueSize
             /\ r = [s EXCEPT !.queue = Append(@, Fanout!Notice)]
    <3>1. Fanout!Notice \in Fanout!Frames /\ ~Fanout!Notice.done
      BY DEF Fanout!Frames, Fanout!Notice
    <3>2. r = Fanout!Sent(s, Fanout!Notice)
      BY <2>4 DEF Fanout!Sent
    <3>3. s.state # "closed"
      BY <2>1, <2>4 DEF Fanout!InRoom
    <3> HIDE DEF s, r
    <3>4. r \in Fanout!Connections /\ r.state = s.state /\ r.have = s.have
      BY <2>1, <3>1, <3>2, SentFacts
    <3>8. r.closing = s.closing
      BY <2>1, <2>4 DEF Fanout!Connections
    <3>5. Fanout!InRoom(r)
      BY <2>1, <3>1, <3>2, <3>3, InRoomKept
    <3>6. r.queue = Append(s.queue, Fanout!Notice)
      BY <2>1, <2>4 DEF Fanout!Connections
    <3>7. Fanout!Held(s) \subseteq Fanout!Held(r)
      BY <2>1, <3>1, <3>4, <3>6, InQueueAppend DEF Fanout!Held
    <3> QED BY <3>4, <3>5, <3>7, <3>8 DEF Fanout!Served, s, r
  <2> QED BY <2>2, <2>3, <2>4 DEF Fanout!Drain, Fanout!CloseAll, Fanout!Room
<1>4. conn' \in [Conns -> Fanout!Connections]
  BY <1>2, <1>3
<1> QED BY <1>2, <1>3, <1>4, ConnStep

LEMMA FanoutRevoke ==
    ASSUME Fanout!FanoutInv, NEW c \in Conns, Fanout!Revoke(c)
    PROVE  Fanout!FanoutInv'
<1>1. UNCHANGED <<ops, conn, task, stream, consumer, dropped>>
  BY DEF Fanout!Revoke
<1>2. conn \in [Conns -> Fanout!Connections] /\ \A d \in Conns : Fanout!InRoom(conn[d])
  BY DEF Fanout!FanoutInv, Fanout!TypeOK, Fanout!RoomInv
<1> QED BY <1>1, <1>2, ConnStep

\* A commit: the new operation has its handler, and its writer holds it.
LEMMA BeginStep ==
    ASSUME Fanout!FanoutInv, NEW w \in Fanout!Writers, NEW id \in Int, Fanout!Begins(w, id),
           UNCHANGED <<stream, consumer, dropped>>,
           conn' \in [Conns -> Fanout!Connections],
           \A c \in Conns : Fanout!InRoom(conn'[c]) /\ conn[c].have \subseteq conn'[c].have,
           \A c \in Conns : Fanout!Served(conn'[c]) =>
               Fanout!Served(conn[c]) /\ Fanout!Held(conn[c]) \subseteq Fanout!Held(conn'[c]),
           w \in Conns => Len(ops) + 1 \in conn'[w].have
    PROVE  Fanout!FanoutInv'
<1> DEFINE n0 == Len(ops) + 1
<1> USE DEF Fanout!FanoutInv
<1>1. /\ Len(ops) \in Nat /\ Len(ops) < MaxOps /\ Len(ops') = n0
      /\ ops'[n0] = [origin |-> Fanout!At(w), id |-> id]
      /\ \A n \in 1 .. Len(ops) : ops'[n] = ops[n]
  BY DEF Fanout!TypeOK, Fanout!Begins
<1>2. /\ task \in [Fanout!Writers -> [op : Nat, step : {"none", "publish", "check", "fanout"}]]
      /\ task[w] = Fanout!NoTask
      /\ task' = [task EXCEPT ![w] = [op |-> n0, step |-> "publish"]]
  BY DEF Fanout!TypeOK, Fanout!Begins
<1>3. /\ task'[w] = [op |-> n0, step |-> "publish"] /\ task'[w].op = n0 /\ task'[w].step = "publish"
      /\ \A v \in Fanout!Writers : v # w => task'[v] = task[v]
  BY <1>2
<1>4. Fanout!At(w) \in Gateways
  BY FanoutAssumption DEF Fanout!At, Fanout!Writers
<1>5. Fanout!TypeOK'
  <2>1. ops' \in Seq([origin : Gateways, id : Int])
    BY <1>4 DEF Fanout!TypeOK, Fanout!Begins
  <2>2. task' \in [Fanout!Writers -> [op : Nat, step : {"none", "publish", "check", "fanout"}]]
    BY <1>1, <1>2
  <2> QED BY SMTT(30), <1>1, <2>1, <2>2, FanoutAssumption DEF Fanout!TypeOK
<1>6. Fanout!RoomInv'
  BY DEF Fanout!RoomInv
<1>7. Fanout!TaskInv'
  <2>1. \A v \in Fanout!Writers : task[v] # Fanout!NoTask => task[v].op \in 1 .. Len(ops)
    BY DEF Fanout!TaskInv
  <2>2. ASSUME NEW v \in Fanout!Writers
        PROVE  \/ task'[v] = Fanout!NoTask
               \/ /\ task'[v].step # "none" /\ task'[v].op \in 1 .. Len(ops')
                  /\ ops'[task'[v].op].origin = Fanout!At(v)
                  /\ v \in Conns => task'[v].op \in conn'[v].have
    <3>1. CASE v = w
      BY <3>1, <1>1, <1>3
    <3>2. CASE v # w
      <4>1. task'[v] = task[v]
        BY <3>2, <1>3
      <4> QED BY <4>1, <1>1 DEF Fanout!TaskInv
    <3> QED BY <3>1, <3>2
  <2>3. ASSUME NEW u \in Fanout!Writers, NEW v \in Fanout!Writers,
               task'[u].op = task'[v].op, task'[u] # Fanout!NoTask
        PROVE  u = v
    <3>1. CASE u = w /\ v # w
      <4>1. task[v].op = n0
        BY <3>1, <2>3, <1>3
      <4>2. task[v] # Fanout!NoTask
        BY <4>1, <1>1 DEF Fanout!NoTask
      <4> QED BY <4>1, <4>2, <2>1, <1>1
    <3>2. CASE u # w /\ v = w
      BY <3>2, <2>3, <2>1, <1>1, <1>3
    <3>3. CASE u # w /\ v # w
      BY <3>3, <2>3, <1>3 DEF Fanout!TaskInv
    <3> QED BY <3>1, <3>2, <3>3
  <2> QED BY <2>2, <2>3 DEF Fanout!TaskInv
<1>8. Fanout!StreamInv'
  <2>1. \A i \in 1 .. Len(stream) : stream[i] \in 1 .. Len(ops)
    BY DEF Fanout!StreamInv
  <2>2. \A v \in Fanout!Writers : task'[v].step = "publish" =>
            \A i \in 1 .. Len(stream) : stream[i] # task'[v].op
    <3> SUFFICES ASSUME NEW v \in Fanout!Writers, task'[v].step = "publish", NEW i \in 1 .. Len(stream)
                 PROVE  stream[i] # task'[v].op
      OBVIOUS
    <3>1. CASE v = w
      BY <3>1, <2>1, <1>1, <1>3
    <3>2. CASE v # w
      BY <3>2, <1>3 DEF Fanout!StreamInv
    <3> QED BY <3>1, <3>2
  <2>3. \A i \in 1 .. Len(stream) : stream[i] \in 1 .. Len(ops')
    BY <2>1, <1>1
  <2> QED BY <2>2, <2>3 DEF Fanout!StreamInv, Fanout!Hand
<1>9. Fanout!ServedInv'
  <2> SUFFICES ASSUME NEW c \in Conns, Fanout!Served(conn'[c]),
                      NEW n \in (1 .. Len(ops')) \ Fanout!Held(conn'[c])
               PROVE  IF ops'[n].origin = Home[c] THEN Fanout!ByItsHandler(n)'
                      ELSE Fanout!ByTheStream(n, Home[c])'
    BY DEF Fanout!ServedInv
  <2>1. CASE n = n0
    BY <2>1, <1>3 DEF Fanout!ByItsHandler, Fanout!ByTheStream
  <2>2. CASE n # n0
    <3>1. n \in (1 .. Len(ops)) \ Fanout!Held(conn[c]) /\ Fanout!Served(conn[c]) /\ ops'[n] = ops[n]
      BY <2>2, <1>1
    <3>2. IF ops[n].origin = Home[c] THEN Fanout!ByItsHandler(n) ELSE Fanout!ByTheStream(n, Home[c])
      BY <3>1 DEF Fanout!ServedInv
    <3>3. \A v \in Fanout!Writers : task[v].op = n => task'[v] = task[v]
      BY <1>2, <1>3, <3>1 DEF Fanout!NoTask
    <3>4. Fanout!ByItsHandler(n) => Fanout!ByItsHandler(n)'
      BY <3>3 DEF Fanout!ByItsHandler
    <3>5. Fanout!ByTheStream(n, Home[c]) => Fanout!ByTheStream(n, Home[c])'
      BY <3>3 DEF Fanout!ByTheStream, Fanout!Hand
    <3> QED BY <3>1, <3>2, <3>4, <3>5
  <2> QED BY <2>1, <2>2
<1> QED BY <1>5, <1>6, <1>7, <1>8, <1>9

LEMMA FanoutRestore ==
    ASSUME Fanout!FanoutInv, NEW g \in RestGateways, Fanout!Restore(g)
    PROVE  Fanout!FanoutInv'
<1>1. g \in Fanout!Writers /\ g \notin Conns /\ 0 - Len(ops) - 1 \in Int
  BY FanoutAssumption DEF Fanout!Writers, Fanout!FanoutInv, Fanout!TypeOK
<1>2. Fanout!Begins(g, 0 - Len(ops) - 1) /\ UNCHANGED <<conn, stream, consumer, dropped>>
  BY DEF Fanout!Restore
<1>3. conn \in [Conns -> Fanout!Connections] /\ \A d \in Conns : Fanout!InRoom(conn[d])
  BY DEF Fanout!FanoutInv, Fanout!TypeOK, Fanout!RoomInv
<1> QED BY <1>1, <1>2, <1>3, BeginStep

LEMMA FanoutWrite ==
    ASSUME Fanout!FanoutInv, NEW c \in Conns, Fanout!Write(c)
    PROVE  Fanout!FanoutInv'
<1> DEFINE s == [conn[c] EXCEPT !.have = @ \cup {Len(ops) + 1}, !.batch = @ + 1]
           r == Fanout!Sent(s, Fanout!Notice)
<1>1. /\ conn \in [Conns -> Fanout!Connections] /\ \A d \in Conns : Fanout!InRoom(conn[d])
      /\ Len(ops) \in Nat
  BY DEF Fanout!FanoutInv, Fanout!TypeOK, Fanout!RoomInv
<1>2. /\ conn[c].state = "ready" /\ ~conn[c].closing /\ conn' = [conn EXCEPT ![c] = r]
      /\ Fanout!Begins(c, conn[c].batch) /\ UNCHANGED <<stream, consumer, dropped>>
  <2>1. conn' = [conn EXCEPT ![c] = r]
    BY DEF Fanout!Write
  <2> QED BY <2>1 DEF Fanout!Write, Fanout!Serves
<1>3. /\ s \in Fanout!Connections /\ s.state = "ready" /\ s.queue = conn[c].queue
      /\ s.have = conn[c].have \cup {Len(ops) + 1} /\ Fanout!InRoom(s)
  <2>1. conn[c] \in Fanout!Connections /\ Fanout!InRoom(conn[c])
    BY <1>1
  <2>2. /\ s.state = "ready" /\ s.queue = conn[c].queue /\ s.room = conn[c].room
        /\ s.closing = conn[c].closing
        /\ s.have = conn[c].have \cup {Len(ops) + 1} /\ s \in Fanout!Connections
    <3>1. conn[c].have \cup {Len(ops) + 1} \in SUBSET Nat /\ conn[c].batch + 1 \in Nat
      BY <1>1, <2>1 DEF Fanout!Connections
    <3> QED BY <1>2, <2>1, <3>1 DEF Fanout!Connections
  <2> HIDE DEF s
  <2> QED BY <1>2, <2>1, <2>2 DEF Fanout!InRoom
<1>4. Fanout!Notice \in Fanout!Frames /\ ~Fanout!Notice.done
  BY DEF Fanout!Frames, Fanout!Notice
<1>5. Fanout!InQueue(s) = Fanout!InQueue(conn[c])
  BY <1>3 DEF Fanout!InQueue
<1> HIDE DEF s
<1>6. /\ r \in Fanout!Connections /\ r.have = s.have
      /\ ~r.closing => r.queue = Append(s.queue, Fanout!Notice)
  BY <1>3, <1>4, SentFacts
<1>7. Fanout!InRoom(r)
  BY <1>3, <1>4, InRoomKept
<1>8. Fanout!Served(r) => Fanout!Served(conn[c]) /\ Fanout!Held(conn[c]) \subseteq Fanout!Held(r)
  <2> SUFFICES ASSUME Fanout!Served(r)
               PROVE  Fanout!Served(conn[c]) /\ Fanout!Held(conn[c]) \subseteq Fanout!Held(r)
    OBVIOUS
  <2>1. Fanout!InQueue(r) = Fanout!InQueue(s) \cup Fanout!Notice.ops
    BY <1>3, <1>4, <1>6, InQueueAppend DEF Fanout!Served
  <2> QED BY <2>1, <1>2, <1>3, <1>5, <1>6 DEF Fanout!Served, Fanout!Held
<1> HIDE DEF r
<1>9. /\ conn' \in [Conns -> Fanout!Connections] /\ conn'[c] = r
      /\ \A d \in Conns : d # c => conn'[d] = conn[d]
  BY <1>1, <1>2, <1>6
<1>10. \A d \in Conns : /\ Fanout!InRoom(conn'[d]) /\ conn[d].have \subseteq conn'[d].have
                        /\ Fanout!Served(conn'[d]) =>
                              /\ Fanout!Served(conn[d])
                              /\ Fanout!Held(conn[d]) \subseteq Fanout!Held(conn'[d])
  BY <1>1, <1>3, <1>6, <1>7, <1>8, <1>9
<1>11. c \in Fanout!Writers /\ conn[c].batch \in Int
  BY <1>1 DEF Fanout!Writers, Fanout!Connections
<1> QED BY <1>2, <1>3, <1>6, <1>9, <1>10, <1>11, BeginStep

\* No more is published than was committed.
LEMMA StreamBound ==
    ASSUME NEW s \in Seq(Nat), NEW N \in Nat,
           \A i \in 1 .. Len(s) : s[i] \in 1 .. N,
           \A i, j \in 1 .. Len(s) : s[i] = s[j] => i = j
    PROVE  Len(s) <= N
<1> SUFFICES ASSUME Len(s) > N PROVE FALSE
  OBVIOUS
<1> DEFINE S == 1 .. Len(s)
           T == 1 .. N
           f == [i \in S |-> s[i]]
<1>1. Len(s) \in Nat /\ 1 \in Int /\ N \in Int
  OBVIOUS
<1>5. ASSUME NEW b \in Nat PROVE IsFiniteSet(1 .. b) /\ Cardinality(1 .. b) = b
  <2>1. 1 \in Int /\ b \in Int
    OBVIOUS
  <2>2. IsFiniteSet(1 .. b) /\ Cardinality(1 .. b) = IF 1 > b THEN 0 ELSE b - 1 + 1
    BY <2>1, FS_Interval, Zenon
  <2> QED BY <2>2
<1>6. IsFiniteSet(S) /\ Cardinality(S) = Len(s) /\ IsFiniteSet(T) /\ Cardinality(T) = N
  BY <1>1, <1>5
<1>2. f \in [S -> T]
  OBVIOUS
<1>3. Cardinality(T) < Cardinality(S)
  BY <1>1, <1>6
<1> HIDE DEF S, T, f
<1>4. \E x, y \in S : x # y /\ f[x] = f[y]
  BY <1>2, <1>3, <1>6, FS_PigeonHole
<1> QED BY <1>4 DEF S, f

LEMMA FanoutPublish ==
    ASSUME Fanout!FanoutInv, NEW w \in Fanout!Writers, Fanout!Publish(w)
    PROVE  Fanout!FanoutInv'
<1> DEFINE n == task[w].op
           next == IF w \in Conns THEN "check" ELSE "fanout"
<1> USE DEF Fanout!FanoutInv
<1>1. /\ task \in [Fanout!Writers -> [op : Nat, step : {"none", "publish", "check", "fanout"}]]
      /\ task[w].step = "publish" /\ task' = [task EXCEPT ![w].step = next]
      /\ next \in {"check", "fanout"}
  BY DEF Fanout!TypeOK, Fanout!Publish
<1>2. UNCHANGED <<ops, conn, consumer>>
  BY DEF Fanout!Publish
<1>3. /\ dropped \subseteq dropped'
      /\ stream' = Append(stream, n) \/ (stream' = stream /\ \E d \in dropped' : d.op = n)
  <2>1. CASE stream' = Append(stream, n) /\ UNCHANGED dropped
    BY <2>1
  <2>2. ASSUME NEW why, stream' = stream, dropped' = dropped \cup {[op |-> n, why |-> why]}
        PROVE  dropped \subseteq dropped' /\ \E d \in dropped' : d.op = n
    <3>1. [op |-> n, why |-> why] \in dropped' /\ [op |-> n, why |-> why].op = n
      BY <2>2
    <3> QED BY <2>2, <3>1
  <2> QED BY <2>1, <2>2 DEF Fanout!Publish
<1>4. task[w] # Fanout!NoTask
  BY <1>1 DEF Fanout!NoTask
<1>5. /\ task' \in [Fanout!Writers -> [op : Nat, step : {"none", "publish", "check", "fanout"}]]
      /\ \A v \in Fanout!Writers : task'[v].op = task[v].op /\ (v # w => task'[v] = task[v])
      /\ task'[w].step = next
  BY <1>1
<1> HIDE DEF next
<1>6. n \in 1 .. Len(ops) /\ n \in Nat /\ Len(ops) \in Nat /\ Len(ops) <= MaxOps
  BY <1>4 DEF Fanout!TaskInv, Fanout!TypeOK
<1>7. stream \in Seq(Nat) /\ Len(stream) \in Nat
  BY DEF Fanout!TypeOK
<1>8. \A i \in 1 .. Len(stream) : stream[i] # n /\ stream[i] \in 1 .. Len(ops)
  BY <1>1 DEF Fanout!StreamInv
<1> HIDE DEF n
<1>9. /\ stream' \in Seq(Nat) /\ Len(stream') \in Nat /\ Len(stream) <= Len(stream')
      /\ \A i \in 1 .. Len(stream) : stream'[i] = stream[i]
      /\ \A i \in 1 .. Len(stream') : i \in 1 .. Len(stream) \/ (i = Len(stream) + 1 /\ stream'[i] = n)
      /\ stream' # stream => Len(stream') = Len(stream) + 1 /\ stream'[Len(stream) + 1] = n
  BY SMTT(30), <1>3, <1>6, <1>7
<1>10. Fanout!TypeOK'
  BY <1>2, <1>5, <1>9 DEF Fanout!TypeOK
<1>11. Fanout!RoomInv'
  BY <1>2 DEF Fanout!RoomInv
<1>12. Fanout!TaskInv'
  <2>1. \A v \in Fanout!Writers : task'[v] # Fanout!NoTask => task[v] # Fanout!NoTask
    BY <1>4, <1>5
  <2>2. ASSUME NEW v \in Fanout!Writers, task'[v] # Fanout!NoTask
        PROVE  /\ task'[v].step # "none" /\ task'[v].op \in 1 .. Len(ops)
               /\ ops[task'[v].op].origin = Fanout!At(v)
               /\ v \in Conns => task'[v].op \in conn[v].have
    <3>1. task'[v].step # "none"
      <4>1. CASE v = w
        BY <4>1, <1>1, <1>5
      <4>2. CASE v # w
        BY <4>2, <2>1, <2>2, <1>5 DEF Fanout!TaskInv
      <4> QED BY <4>1, <4>2
    <3> QED BY <3>1, <2>1, <2>2, <1>5 DEF Fanout!TaskInv
  <2> QED BY <2>1, <2>2, <1>2, <1>5 DEF Fanout!TaskInv
<1>13. \A i \in 1 .. Len(stream') : stream'[i] \in 1 .. Len(ops)
  BY <1>6, <1>8, <1>9
<1>14. \A i, j \in 1 .. Len(stream') : stream'[i] = stream'[j] => i = j
  <2>1. \A i, j \in 1 .. Len(stream) : stream[i] = stream[j] => i = j
    BY DEF Fanout!StreamInv
  <2> QED BY <2>1, <1>7, <1>8, <1>9
<1>15. Len(stream') <= MaxOps
  <2>1. Len(stream') <= Len(ops)
    BY <1>6, <1>9, <1>13, <1>14, StreamBound
  <2> QED BY <2>1, <1>6, <1>9, FanoutAssumption
<1>16. Fanout!StreamInv'
  <2>1. \A v \in Fanout!Writers : task'[v].step = "publish" => \A i \in 1 .. Len(stream') : stream'[i] # task'[v].op
    <3> SUFFICES ASSUME NEW v \in Fanout!Writers, task'[v].step = "publish", NEW i \in 1 .. Len(stream')
                 PROVE  stream'[i] # task'[v].op
      OBVIOUS
    <3>1. v # w
      BY <1>1, <1>5
    <3>2. task'[v] = task[v] /\ task[v].op # n
      BY <3>1, <1>4, <1>5 DEF Fanout!TaskInv, n
    <3>3. CASE i \in 1 .. Len(stream)
      BY <3>2, <3>3, <1>9 DEF Fanout!StreamInv
    <3>4. CASE i = Len(stream) + 1 /\ stream'[i] = n
      BY <3>2, <3>4
    <3> QED BY <3>3, <3>4, <1>9
  <2>2. \A g \in Gateways :
          /\ consumer[g].acked \subseteq 1 .. Len(stream')
          /\ \A i \in 1 .. MaxOps : i > Len(stream') => consumer[g].tries[i] = 0
          /\ consumer[g].hand \in 0 .. Len(stream')
    <3> SUFFICES ASSUME NEW g \in Gateways
                 PROVE  /\ consumer[g].acked \subseteq 1 .. Len(stream')
                        /\ \A i \in 1 .. MaxOps : i > Len(stream') => consumer[g].tries[i] = 0
                        /\ consumer[g].hand \in 0 .. Len(stream')
      OBVIOUS
    <3>1. /\ consumer[g].acked \subseteq 1 .. Len(stream)
          /\ \A i \in 1 .. MaxOps : i > Len(stream) => consumer[g].tries[i] = 0
          /\ consumer[g].hand \in 0 .. Len(stream)
      BY DEF Fanout!StreamInv, Fanout!Hand
    <3>2. 1 .. Len(stream) \subseteq 1 .. Len(stream') /\ 0 .. Len(stream) \subseteq 0 .. Len(stream')
      BY <1>7, <1>9
    <3>3. \A i \in 1 .. MaxOps : i > Len(stream') => i > Len(stream)
      BY <1>7, <1>9, FanoutAssumption
    <3> QED BY <3>1, <3>2, <3>3
  <2> QED BY <2>1, <2>2, <1>2, <1>13, <1>14 DEF Fanout!StreamInv, Fanout!Hand
<1>17. \A m : Fanout!ByItsHandler(m) => Fanout!ByItsHandler(m)'
  BY <1>5 DEF Fanout!ByItsHandler
<1>18. ASSUME NEW m, NEW g \in Gateways, Fanout!ByTheStream(m, g) PROVE Fanout!ByTheStream(m, g)'
  <2>1. CASE \E u \in Fanout!Writers : u # w /\ task[u].op = m /\ task[u].step = "publish"
    BY <2>1, <1>5 DEF Fanout!ByTheStream
  <2>2. CASE m = n
    <3>1. CASE stream' = stream
      BY <3>1, <2>2, <1>3, <1>9 DEF Fanout!ByTheStream
    <3>2. CASE stream' # stream
      <4> DEFINE k == Len(stream) + 1
      <4>1. k \in 1 .. Len(stream') /\ stream'[k] = n /\ k \in 1 .. MaxOps /\ k > Len(stream)
        BY <3>2, <1>7, <1>9, <1>15, FanoutAssumption
      <4>2. k \notin consumer[g].acked /\ consumer[g].tries[k] = 0
        BY <4>1, <1>7 DEF Fanout!StreamInv
      <4>3. consumer[g].tries[k] < MaxDeliver
        BY <4>2, FanoutAssumption
      <4> HIDE DEF k
      <4> QED BY <4>1, <4>2, <4>3, <2>2, <1>2 DEF Fanout!ByTheStream
    <3> QED BY <3>1, <3>2
  <2>3. CASE \E i \in 1 .. Len(stream) :
               /\ stream[i] = m /\ i \notin consumer[g].acked
               /\ consumer[g].tries[i] < MaxDeliver \/ Fanout!Hand(g) = i
    <3>1. PICK i \in 1 .. Len(stream) :
               /\ stream[i] = m /\ i \notin consumer[g].acked
               /\ consumer[g].tries[i] < MaxDeliver \/ Fanout!Hand(g) = i
      BY <2>3
    <3>2. i \in 1 .. Len(stream') /\ stream'[i] = m
      BY <3>1, <1>7, <1>9
    <3> QED BY <3>1, <3>2, <1>2 DEF Fanout!ByTheStream, Fanout!Hand
  <2>4. CASE \E d \in dropped : d.op = m
    BY <2>4, <1>3 DEF Fanout!ByTheStream
  <2> QED BY <1>18, <2>1, <2>2, <2>3, <2>4 DEF Fanout!ByTheStream, n
<1>19. \A c \in Conns : Home[c] \in Gateways
  BY FanoutAssumption
<1>20. Fanout!ServedInv'
  BY <1>2, <1>17, <1>18, <1>19, ServedKept
<1> QED BY <1>10, <1>11, <1>12, <1>16, <1>20

LEMMA FanoutCheck ==
    ASSUME Fanout!FanoutInv, NEW w \in Fanout!Writers, Fanout!Check(w)
    PROVE  Fanout!FanoutInv'
<1> USE DEF Fanout!FanoutInv
<1>1. /\ task \in [Fanout!Writers -> [op : Nat, step : {"none", "publish", "check", "fanout"}]]
      /\ task[w].step = "check" /\ task' = [task EXCEPT ![w].step = "fanout"]
      /\ UNCHANGED <<ops, stream, consumer, dropped>>
  BY DEF Fanout!TypeOK, Fanout!Check
<1>2. /\ task' \in [Fanout!Writers -> [op : Nat, step : {"none", "publish", "check", "fanout"}]]
      /\ \A v \in Fanout!Writers : task'[v].op = task[v].op /\ (v # w => task'[v] = task[v])
      /\ task'[w].step = "fanout"
  BY <1>1
<1>3. PICK allowed : conn' = Fanout!Reauthorized(Fanout!At(w), allowed)
  BY DEF Fanout!Check
<1>4. /\ conn' \in [Conns -> Fanout!Connections]
      /\ \A c \in Conns : /\ Fanout!InRoom(conn'[c]) /\ conn'[c].have = conn[c].have
                          /\ Fanout!Served(conn'[c]) => conn'[c] = conn[c]
  BY <1>3, ReauthorizedFacts
<1>5. Fanout!TypeOK'
  BY <1>1, <1>2, <1>4 DEF Fanout!TypeOK
<1>6. Fanout!RoomInv'
  BY <1>4 DEF Fanout!RoomInv
<1>7. task[w] # Fanout!NoTask
  BY <1>1 DEF Fanout!NoTask
<1>8. Fanout!TaskInv'
  <2>1. \A v \in Fanout!Writers : task'[v] # Fanout!NoTask => task[v] # Fanout!NoTask
    BY <1>2, <1>7
  <2>2. ASSUME NEW v \in Fanout!Writers, task'[v] # Fanout!NoTask
        PROVE  /\ task'[v].step # "none" /\ task'[v].op \in 1 .. Len(ops)
               /\ ops[task'[v].op].origin = Fanout!At(v)
               /\ v \in Conns => task'[v].op \in conn'[v].have
    <3>1. task'[v].step # "none"
      <4>1. CASE v = w
        BY <4>1, <1>2
      <4>2. CASE v # w
        BY <4>2, <2>1, <2>2, <1>2 DEF Fanout!TaskInv
      <4> QED BY <4>1, <4>2
    <3> QED BY <3>1, <2>1, <2>2, <1>2, <1>4 DEF Fanout!TaskInv
  <2> QED BY <2>1, <2>2, <1>1, <1>2 DEF Fanout!TaskInv
<1>9. Fanout!StreamInv'
  <2>1. \A v \in Fanout!Writers : task'[v].step = "publish" => task[v].step = "publish"
    BY <1>2
  <2> QED BY <2>1, <1>1, <1>2 DEF Fanout!StreamInv, Fanout!Hand
<1>10. \A n : Fanout!ByItsHandler(n) => Fanout!ByItsHandler(n)'
  BY <1>2 DEF Fanout!ByItsHandler
<1>11. \A n, g : Fanout!ByTheStream(n, g) => Fanout!ByTheStream(n, g)'
  <2>1. \A v \in Fanout!Writers : task[v].step = "publish" => task'[v] = task[v]
    BY <1>1, <1>2
  <2> QED BY <2>1, <1>1 DEF Fanout!ByTheStream, Fanout!Hand
<1>12. Fanout!ServedInv'
  BY <1>1, <1>4, <1>10, <1>11, ServedKept
<1> QED BY <1>5, <1>6, <1>8, <1>9, <1>12

\* fanout: a member of the room gets the operation or is to be closed.
LEMMA FanOutFacts ==
    ASSUME Fanout!FanoutInv, NEW g, NEW sender, NEW n \in Nat, Fanout!FanOut(g, sender, n)
    PROVE  /\ conn' \in [Conns -> Fanout!Connections]
           /\ \A c \in Conns :
                 /\ Fanout!InRoom(conn'[c]) /\ conn'[c].have = conn[c].have
                 /\ Fanout!Served(conn'[c]) =>
                       /\ Fanout!Served(conn[c]) /\ Fanout!Held(conn[c]) \subseteq Fanout!Held(conn'[c])
                       /\ Home[c] = g /\ c # sender => n \in Fanout!Held(conn'[c])
<1> DEFINE frame == [ops |-> {n}, done |-> FALSE]
<1>1. conn \in [Conns -> Fanout!Connections] /\ \A c \in Conns : Fanout!InRoom(conn[c])
  BY DEF Fanout!FanoutInv, Fanout!TypeOK, Fanout!RoomInv
<1>2. frame \in Fanout!Frames /\ ~frame.done /\ frame.ops = {n}
  BY DEF Fanout!Frames
<1>3. conn' = [c \in Conns |->
        IF c \in Fanout!Room(g) \ {sender} THEN Fanout!Sent(conn[c], frame) ELSE conn[c]]
  BY DEF Fanout!FanOut
<1> HIDE DEF frame
<1>4. ASSUME NEW c \in Conns
      PROVE  /\ conn'[c] \in Fanout!Connections
             /\ Fanout!InRoom(conn'[c]) /\ conn'[c].have = conn[c].have
             /\ Fanout!Served(conn'[c]) =>
                   /\ Fanout!Served(conn[c]) /\ Fanout!Held(conn[c]) \subseteq Fanout!Held(conn'[c])
                   /\ Home[c] = g /\ c # sender => n \in Fanout!Held(conn'[c])
  <2> DEFINE s == conn[c]
             r == conn'[c]
  <2>1. s \in Fanout!Connections /\ Fanout!InRoom(s)
    BY <1>1
  <2>2. CASE c \in Fanout!Room(g) \ {sender}
    <3>1. r = Fanout!Sent(s, frame) /\ s.room
      BY <2>2, <1>3 DEF Fanout!Room
    <3> HIDE DEF s, r
    <3>2. s.state # "closed"
      BY <2>1, <3>1 DEF Fanout!InRoom
    <3>3. /\ r \in Fanout!Connections /\ r.state = s.state /\ r.have = s.have
          /\ s.closing => r.closing
          /\ ~r.closing => r.queue = Append(s.queue, frame)
      BY <2>1, <1>2, <3>1, SentFacts
    <3>4. Fanout!InRoom(r)
      BY <2>1, <1>2, <3>1, <3>2, InRoomKept
    <3>5. ASSUME Fanout!Served(r)
          PROVE  Fanout!Served(s) /\ Fanout!Held(s) \subseteq Fanout!Held(r) /\ n \in Fanout!Held(r)
      <4>1. Fanout!InQueue(r) = Fanout!InQueue(s) \cup {n}
        BY <2>1, <1>2, <3>3, <3>5, InQueueAppend DEF Fanout!Served
      <4> QED BY <4>1, <3>3, <3>5 DEF Fanout!Served, Fanout!Held
    <3> QED BY <3>3, <3>4, <3>5 DEF s, r
  <2>3. CASE c \notin Fanout!Room(g) \ {sender}
    <3>1. r = s
      BY <2>3, <1>3
    <3>2. Fanout!Served(s) => s.room
      BY <2>1 DEF Fanout!Served, Fanout!InRoom
    <3>3. Fanout!Served(s) /\ c # sender => Home[c] # g
      BY <2>3, <3>2 DEF Fanout!Room
    <3> QED BY <2>1, <3>1, <3>3
  <2> QED BY <2>2, <2>3
<1>5. conn' = [c \in Conns |-> conn'[c]]
  BY <1>3
<1>6. conn' \in [Conns -> Fanout!Connections]
  BY <1>4, <1>5
<1> QED BY <1>4, <1>6

LEMMA FanoutDistribute ==
    ASSUME Fanout!FanoutInv, NEW w \in Fanout!Writers, Fanout!Distribute(w)
    PROVE  Fanout!FanoutInv'
<1> DEFINE n == task[w].op
<1> USE DEF Fanout!FanoutInv
<1>1. /\ task \in [Fanout!Writers -> [op : Nat, step : {"none", "publish", "check", "fanout"}]]
      /\ task[w].step = "fanout" /\ task' = [task EXCEPT ![w] = Fanout!NoTask]
      /\ UNCHANGED <<ops, stream, consumer, dropped>>
      /\ Fanout!FanOut(Fanout!At(w), w, n)
  BY DEF Fanout!TypeOK, Fanout!Distribute
<1>2. /\ task' \in [Fanout!Writers -> [op : Nat, step : {"none", "publish", "check", "fanout"}]]
      /\ task'[w] = Fanout!NoTask /\ \A v \in Fanout!Writers : v # w => task'[v] = task[v]
  BY <1>1 DEF Fanout!NoTask
<1>3. task[w] # Fanout!NoTask
  BY <1>1 DEF Fanout!NoTask
<1>4. /\ n \in 1 .. Len(ops) /\ n \in Nat /\ ops[n].origin = Fanout!At(w)
      /\ w \in Conns => n \in conn[w].have
  BY <1>3 DEF Fanout!TaskInv
<1>5. /\ conn' \in [Conns -> Fanout!Connections]
      /\ \A c \in Conns :
            /\ Fanout!InRoom(conn'[c]) /\ conn'[c].have = conn[c].have
            /\ Fanout!Served(conn'[c]) =>
                  /\ Fanout!Served(conn[c]) /\ Fanout!Held(conn[c]) \subseteq Fanout!Held(conn'[c])
                  /\ Home[c] = Fanout!At(w) /\ c # w => n \in Fanout!Held(conn'[c])
  <2> DEFINE g == Fanout!At(w)
  <2>1. n \in Nat /\ Fanout!FanOut(g, w, n)
    BY <1>1, <1>4
  <2> HIDE DEF n, g, Fanout!FanoutInv
  <2>2. /\ conn' \in [Conns -> Fanout!Connections]
        /\ \A c \in Conns :
              /\ Fanout!InRoom(conn'[c]) /\ conn'[c].have = conn[c].have
              /\ Fanout!Served(conn'[c]) =>
                    /\ Fanout!Served(conn[c]) /\ Fanout!Held(conn[c]) \subseteq Fanout!Held(conn'[c])
                    /\ Home[c] = g /\ c # w => n \in Fanout!Held(conn'[c])
    BY <2>1, FanOutFacts
  <2> QED BY <2>2 DEF g
<1>6. Fanout!TypeOK'
  BY <1>1, <1>2, <1>5 DEF Fanout!TypeOK
<1>7. Fanout!RoomInv'
  BY <1>5 DEF Fanout!RoomInv
<1>8. Fanout!TaskInv'
  <2>1. \A v \in Fanout!Writers : task'[v] # Fanout!NoTask => v # w /\ task'[v] = task[v]
    BY <1>2
  <2>2. ASSUME NEW u \in Fanout!Writers, NEW v \in Fanout!Writers,
               task'[u].op = task'[v].op, task'[u] # Fanout!NoTask
        PROVE  u = v
    <3>1. CASE v = w
      <4>1. task'[v].op = 0 /\ task[u] # Fanout!NoTask /\ task[u].op = 0
        BY <3>1, <2>1, <2>2, <1>2 DEF Fanout!NoTask
      <4> QED BY <4>1 DEF Fanout!TaskInv
    <3>2. CASE v # w
      BY <3>2, <2>1, <2>2, <1>2 DEF Fanout!TaskInv
    <3> QED BY <3>1, <3>2
  <2> QED BY <2>1, <2>2, <1>1, <1>5 DEF Fanout!TaskInv
<1>9. Fanout!StreamInv'
  <2>1. \A v \in Fanout!Writers : task'[v].step = "publish" => task'[v] = task[v]
    BY <1>2 DEF Fanout!NoTask
  <2> QED BY <2>1, <1>1 DEF Fanout!StreamInv, Fanout!Hand
<1>10. ASSUME NEW c \in Conns, Fanout!Served(conn'[c]),
              NEW m \in (1 .. Len(ops)) \ Fanout!Held(conn'[c]),
              ops[m].origin = Home[c], Fanout!ByItsHandler(m)
       PROVE  Fanout!ByItsHandler(m)'
  <2>1. PICK u \in Fanout!Writers : task[u].op = m
    BY <1>10 DEF Fanout!ByItsHandler
  <2>2. CASE u = w
    <3>1. m = n /\ Home[c] = Fanout!At(w)
      BY <2>1, <2>2, <1>4, <1>10
    <3>2. c = w
      BY <3>1, <1>5, <1>10
    <3>3. m \in conn'[c].have
      BY <3>1, <3>2, <1>4, <1>5
    <3> QED BY <3>3, <1>10 DEF Fanout!Held
  <2>3. CASE u # w
    BY <2>1, <2>3, <1>2 DEF Fanout!ByItsHandler
  <2> QED BY <2>2, <2>3
<1>11. \A m, g : Fanout!ByTheStream(m, g) => Fanout!ByTheStream(m, g)'
  <2>1. \A v \in Fanout!Writers : task[v].step = "publish" => task'[v] = task[v]
    BY <1>1, <1>2
  <2> QED BY <2>1, <1>1 DEF Fanout!ByTheStream, Fanout!Hand
<1>12. Fanout!ServedInv'
  BY <1>1, <1>5, <1>10, <1>11, ServedKept
<1> QED BY <1>6, <1>7, <1>8, <1>9, <1>12

-----------------------------------------------------------------------------
(* GatewayFanout: the subscriber of a gateway, and the end of a process.   *)

Consumers == [acked : SUBSET Nat, tries : [1 .. MaxOps -> Nat], hand : Nat]

\* A message the subscriber may be handed: what its consumer becomes.
LEMMA DeliveredFacts ==
    ASSUME Fanout!FanoutInv, NEW g \in Gateways, NEW i \in Fanout!Deliverable(g)
    PROVE  LET r == Fanout!Delivered(g, i) IN
           /\ i \in 1 .. Len(stream) /\ i \in Nat /\ i \notin consumer[g].acked
           /\ r \in Consumers /\ r.acked = consumer[g].acked /\ r.hand = consumer[g].hand
           /\ \A j \in 1 .. MaxOps : j # i => r.tries[j] = consumer[g].tries[j]
<1>1. /\ consumer[g] \in Consumers /\ i \in 1 .. Len(stream) /\ i \in Nat
      /\ i \notin consumer[g].acked
  BY DEF Fanout!FanoutInv, Fanout!TypeOK, Fanout!Deliverable, Consumers
<1> DEFINE old == consumer[g].tries
           t == [old EXCEPT ![i] = @ + 1]
<1>4. old \in [1 .. MaxOps -> Nat]
  BY <1>1 DEF Consumers
<1> HIDE DEF old
<1>2. t \in [1 .. MaxOps -> Nat] /\ \A j \in 1 .. MaxOps : j # i => t[j] = old[j]
  <2>1. t = [j \in 1 .. MaxOps |-> IF j = i THEN old[i] + 1 ELSE old[j]]
    BY <1>4
  <2>2. \A j \in 1 .. MaxOps : old[j] \in Nat
    BY <1>4
  <2> HIDE DEF t
  <2> QED BY <2>1, <2>2
<1>3. Fanout!Delivered(g, i) = [consumer[g] EXCEPT !.tries = t]
  BY <1>1 DEF Fanout!Delivered, Consumers, old
<1> HIDE DEF t
<1> QED BY <1>1, <1>2, <1>3 DEF Consumers, old

\* No client that is up to date has less than before.
NothingLost ==
    /\ conn' \in [Conns -> Fanout!Connections]
    /\ \A c \in Conns : /\ Fanout!InRoom(conn'[c]) /\ conn'[c].have = conn[c].have
                        /\ Fanout!Served(conn'[c]) =>
                             /\ Fanout!Served(conn[c])
                             /\ Fanout!Held(conn[c]) \subseteq Fanout!Held(conn'[c])

\* What the consumer r of g no longer brings its clients have, or got at home.
NothingForgotten(g, r) ==
    \A c \in Conns : Fanout!Served(conn'[c]) /\ Home[c] = g =>
        \A i \in 1 .. Len(stream) :
            i \notin consumer[g].acked /\ (consumer[g].tries[i] < MaxDeliver \/ consumer[g].hand = i)
            => \/ stream[i] \in Fanout!Held(conn'[c]) \/ ops[stream[i]].origin = g
               \/ i \notin r.acked /\ (r.tries[i] < MaxDeliver \/ r.hand = i)

\* A step of the subscriber: messages are delivered, acknowledged and put
\* down, and the connections of its gateway lose nothing.
LEMMA SubscriberStep ==
    ASSUME Fanout!FanoutInv, NEW g \in Gateways, UNCHANGED <<ops, task, stream, dropped>>,
           NEW r \in Consumers, consumer' = [consumer EXCEPT ![g] = r],
           r.acked \subseteq 1 .. Len(stream), r.hand \in 0 .. Len(stream),
           \A i \in 1 .. MaxOps : i > Len(stream) => r.tries[i] = consumer[g].tries[i],
           NothingLost, NothingForgotten(g, r)
    PROVE  Fanout!FanoutInv'
<1> USE DEF Fanout!FanoutInv, NothingLost, NothingForgotten
<1>1. consumer \in [Gateways -> Consumers]
  BY DEF Fanout!TypeOK, Consumers
<1>2. /\ consumer' \in [Gateways -> Consumers] /\ consumer'[g] = r
      /\ \A h \in Gateways : h # g => consumer'[h] = consumer[h]
  BY <1>1
<1>3. Fanout!TypeOK'
  BY <1>2 DEF Fanout!TypeOK, Consumers
<1>4. Fanout!RoomInv'
  BY DEF Fanout!RoomInv
<1>5. Fanout!TaskInv'
  BY DEF Fanout!TaskInv
<1>6. Fanout!StreamInv'
  <2>1. \A h \in Gateways :
          /\ consumer[h].acked \subseteq 1 .. Len(stream)
          /\ \A i \in 1 .. MaxOps : i > Len(stream) => consumer[h].tries[i] = 0
          /\ consumer[h].hand \in 0 .. Len(stream)
    BY DEF Fanout!StreamInv, Fanout!Hand
  <2>2. \A h \in Gateways :
          /\ consumer'[h].acked \subseteq 1 .. Len(stream)
          /\ \A i \in 1 .. MaxOps : i > Len(stream) => consumer'[h].tries[i] = 0
          /\ consumer'[h].hand \in 0 .. Len(stream)
    BY <2>1, <1>2
  <2> QED BY <2>2 DEF Fanout!StreamInv, Fanout!Hand
<1>7. ASSUME NEW c \in Conns, Fanout!Served(conn'[c]),
             NEW n \in (1 .. Len(ops)) \ Fanout!Held(conn'[c]),
             ops[n].origin # Home[c], Fanout!ByTheStream(n, Home[c])
      PROVE  Fanout!ByTheStream(n, Home[c])'
  <2>1. Home[c] \in Gateways
    BY FanoutAssumption
  <2>2. CASE Home[c] # g
    BY <2>1, <2>2, <1>2, <1>7 DEF Fanout!ByTheStream, Fanout!Hand
  <2>3. CASE Home[c] = g
    <3>1. CASE \E i \in 1 .. Len(stream) :
                  /\ stream[i] = n /\ i \notin consumer[g].acked
                  /\ consumer[g].tries[i] < MaxDeliver \/ consumer[g].hand = i
      <4>1. PICK i \in 1 .. Len(stream) :
                  /\ stream[i] = n /\ i \notin consumer[g].acked
                  /\ consumer[g].tries[i] < MaxDeliver \/ consumer[g].hand = i
        BY <3>1
      <4>2. i \notin r.acked /\ (r.tries[i] < MaxDeliver \/ r.hand = i)
        BY <4>1, <2>3, <1>7
      <4> QED BY <4>1, <4>2, <2>3, <1>2 DEF Fanout!ByTheStream, Fanout!Hand
    <3>2. CASE ~ \E i \in 1 .. Len(stream) :
                  /\ stream[i] = n /\ i \notin consumer[g].acked
                  /\ consumer[g].tries[i] < MaxDeliver \/ consumer[g].hand = i
      BY <3>2, <2>3, <1>7 DEF Fanout!ByTheStream, Fanout!Hand
    <3> QED BY <3>1, <3>2
  <2> QED BY <2>2, <2>3
<1>8. \A n : Fanout!ByItsHandler(n) => Fanout!ByItsHandler(n)'
  BY DEF Fanout!ByItsHandler
<1>9. Fanout!ServedInv'
  BY <1>7, <1>8, ServedKept
<1> QED BY <1>3, <1>4, <1>5, <1>6, <1>9

\* An acknowledgement, which may be lost.
LEMMA AckedFacts ==
    ASSUME NEW g, NEW taken \in Consumers, NEW i \in Nat, Fanout!Acked(g, taken, i)
    PROVE  \E r \in Consumers :
               /\ consumer' = [consumer EXCEPT ![g] = r]
               /\ r.tries = taken.tries /\ r.hand = taken.hand
               /\ r.acked \in {taken.acked, taken.acked \cup {i}}
<1> DEFINE a == [taken EXCEPT !.acked = @ \cup {i}]
<1>1. taken.acked \cup {i} \in SUBSET Nat
  BY DEF Consumers
<1>2. /\ a \in Consumers /\ a.tries = taken.tries /\ a.hand = taken.hand
      /\ a.acked = taken.acked \cup {i}
  BY <1>1 DEF Consumers
<1>3. \/ consumer' = [consumer EXCEPT ![g] = a]
      \/ consumer' = [consumer EXCEPT ![g] = taken]
  BY DEF Fanout!Acked
<1> HIDE DEF a
<1> QED BY <1>2, <1>3

\* What ConnStep asks of the connections, where none has changed.
LEMMA ConnsKept ==
    ASSUME Fanout!FanoutInv, conn' = conn
    PROVE  NothingLost
<1>1. conn \in [Conns -> Fanout!Connections] /\ \A c \in Conns : Fanout!InRoom(conn[c])
  BY DEF Fanout!FanoutInv, Fanout!TypeOK, Fanout!RoomInv
<1> QED BY <1>1 DEF NothingLost

\* What is acknowledged unseen is the gateway's own, or has nobody to go to.
LEMMA FanoutSkip ==
    ASSUME Fanout!FanoutInv, NEW g \in Gateways, Fanout!Skip(g)
    PROVE  Fanout!FanoutInv'
<1>1. PICK i \in Fanout!Deliverable(g) :
        /\ ops[stream[i]].origin = g \/ Fanout!Room(g) = {}
        /\ Fanout!Acked(g, Fanout!Delivered(g, i), i)
  BY DEF Fanout!Skip
<1> DEFINE taken == Fanout!Delivered(g, i)
<1>2. /\ i \in 1 .. Len(stream) /\ i \in Nat /\ i \notin consumer[g].acked
      /\ taken \in Consumers /\ taken.acked = consumer[g].acked /\ taken.hand = consumer[g].hand
      /\ \A j \in 1 .. MaxOps : j # i => taken.tries[j] = consumer[g].tries[j]
  BY DeliveredFacts
<1> HIDE DEF taken
<1>3. PICK r \in Consumers :
        /\ consumer' = [consumer EXCEPT ![g] = r]
        /\ r.tries = taken.tries /\ r.hand = taken.hand
        /\ r.acked \in {taken.acked, taken.acked \cup {i}}
  BY <1>1, <1>2, AckedFacts DEF taken
<1>4. UNCHANGED <<ops, task, stream, dropped>> /\ conn' = conn
  BY DEF Fanout!Skip
<1>5. r.acked \subseteq 1 .. Len(stream) /\ r.hand \in 0 .. Len(stream)
  BY <1>2, <1>3 DEF Fanout!FanoutInv, Fanout!StreamInv, Fanout!Hand
<1>6. Len(stream) \in Nat
  BY DEF Fanout!FanoutInv, Fanout!TypeOK
<1>7. \A j \in 1 .. MaxOps : j > Len(stream) => r.tries[j] = consumer[g].tries[j]
  BY <1>2, <1>3, <1>6, FanoutAssumption
<1>8. ASSUME NEW c \in Conns, Fanout!Served(conn'[c]), Home[c] = g
      PROVE  ops[stream[i]].origin = g
  <2>1. conn[c].room
    BY <1>4, <1>8 DEF Fanout!FanoutInv, Fanout!RoomInv, Fanout!InRoom, Fanout!Served
  <2>2. c \in Fanout!Room(g)
    BY <2>1, <1>8 DEF Fanout!Room
  <2> QED BY <2>2, <1>1
<1>9. Len(stream) <= MaxOps
  <2>1. stream \in Seq(Nat) /\ Len(ops) \in Nat /\ Len(ops) <= MaxOps
    BY DEF Fanout!FanoutInv, Fanout!TypeOK
  <2>2. /\ \A j \in 1 .. Len(stream) : stream[j] \in 1 .. Len(ops)
        /\ \A j, k \in 1 .. Len(stream) : stream[j] = stream[k] => j = k
    BY DEF Fanout!FanoutInv, Fanout!StreamInv
  <2>3. Len(stream) <= Len(ops)
    BY <2>1, <2>2, StreamBound
  <2> QED BY <2>1, <2>3, <1>6, FanoutAssumption
<1>10. ASSUME NEW c \in Conns, Fanout!Served(conn'[c]), Home[c] = g,
              NEW j \in 1 .. Len(stream), j \notin consumer[g].acked,
              consumer[g].tries[j] < MaxDeliver \/ consumer[g].hand = j
       PROVE  \/ stream[j] \in Fanout!Held(conn'[c]) \/ ops[stream[j]].origin = g
              \/ j \notin r.acked /\ (r.tries[j] < MaxDeliver \/ r.hand = j)
  <2>1. CASE j = i
    BY <2>1, <1>8, <1>10
  <2>2. CASE j # i
    <3>1. j \in 1 .. MaxOps
      BY <1>6, <1>9, FanoutAssumption
    <3> QED BY <3>1, <2>2, <1>2, <1>3, <1>10
  <2> QED BY <2>1, <2>2
<1>11. NothingForgotten(g, r)
  BY <1>10 DEF NothingForgotten
<1>12. NothingLost
  BY <1>4, ConnsKept
<1> QED BY <1>3, <1>4, <1>5, <1>7, <1>11, <1>12, SubscriberStep

LEMMA FanoutAdmit ==
    ASSUME Fanout!FanoutInv, NEW g \in Gateways, Fanout!Admit(g)
    PROVE  Fanout!FanoutInv'
<1>1. PICK i \in Fanout!Deliverable(g) :
        consumer' = [consumer EXCEPT ![g] = [Fanout!Delivered(g, i) EXCEPT !.hand = i]]
  BY DEF Fanout!Admit
<1> DEFINE taken == Fanout!Delivered(g, i)
           r == [taken EXCEPT !.hand = i]
<1>2. /\ i \in 1 .. Len(stream) /\ i \in Nat /\ i \notin consumer[g].acked
      /\ taken \in Consumers /\ taken.acked = consumer[g].acked /\ taken.hand = consumer[g].hand
      /\ \A j \in 1 .. MaxOps : j # i => taken.tries[j] = consumer[g].tries[j]
  BY DeliveredFacts
<1>3. consumer' = [consumer EXCEPT ![g] = r]
  BY <1>1
<1> HIDE DEF taken
<1>4. r \in Consumers /\ r.tries = taken.tries /\ r.hand = i /\ r.acked = consumer[g].acked
  BY <1>2 DEF Consumers
<1> HIDE DEF r
<1>5. UNCHANGED <<ops, task, stream, dropped>> /\ consumer[g].hand = 0
  BY DEF Fanout!Admit, Fanout!Hand
<1>6. PICK allowed : conn' = Fanout!Reauthorized(g, allowed)
  BY DEF Fanout!Admit
<1>7. /\ conn' \in [Conns -> Fanout!Connections]
      /\ \A c \in Conns : /\ Fanout!InRoom(conn'[c]) /\ conn'[c].have = conn[c].have
                          /\ Fanout!Served(conn'[c]) => conn'[c] = conn[c]
  BY <1>6, ReauthorizedFacts
<1>8. r.acked \subseteq 1 .. Len(stream) /\ r.hand \in 0 .. Len(stream)
  BY <1>2, <1>4 DEF Fanout!FanoutInv, Fanout!StreamInv, Fanout!Hand
<1>9. Len(stream) \in Nat /\ stream \in Seq(Nat) /\ Len(ops) \in Nat /\ Len(ops) <= MaxOps
  BY DEF Fanout!FanoutInv, Fanout!TypeOK
<1>10. \A j \in 1 .. MaxOps : j > Len(stream) => r.tries[j] = consumer[g].tries[j]
  BY <1>2, <1>4, <1>9, FanoutAssumption
<1>11. Len(stream) <= MaxOps
  <2>1. /\ \A j \in 1 .. Len(stream) : stream[j] \in 1 .. Len(ops)
        /\ \A j, k \in 1 .. Len(stream) : stream[j] = stream[k] => j = k
    BY DEF Fanout!FanoutInv, Fanout!StreamInv
  <2>2. Len(stream) <= Len(ops)
    BY <2>1, <1>9, StreamBound
  <2> QED BY <2>2, <1>9, FanoutAssumption
<1>12. ASSUME NEW j \in 1 .. Len(stream), j \notin consumer[g].acked,
              consumer[g].tries[j] < MaxDeliver \/ consumer[g].hand = j
       PROVE  j \notin r.acked /\ (r.tries[j] < MaxDeliver \/ r.hand = j)
  <2>1. j # 0 /\ j \in 1 .. MaxOps
    BY <1>9, <1>11, FanoutAssumption
  <2> QED BY <2>1, <1>2, <1>4, <1>5, <1>12
<1>13. NothingForgotten(g, r)
  BY <1>12 DEF NothingForgotten
<1>14. NothingLost
  BY <1>7 DEF NothingLost
<1> QED BY <1>3, <1>4, <1>5, <1>8, <1>10, <1>13, <1>14, SubscriberStep

LEMMA FanoutRelay ==
    ASSUME Fanout!FanoutInv, NEW g \in Gateways, Fanout!Relay(g)
    PROVE  Fanout!FanoutInv'
<1> DEFINE i == consumer[g].hand
           n == stream[i]
           taken == [consumer[g] EXCEPT !.hand = 0]
<1>1. /\ i # 0 /\ Fanout!FanOut(g, "nobody", n) /\ Fanout!Acked(g, taken, i)
      /\ UNCHANGED <<ops, task, stream, dropped>>
  BY DEF Fanout!Relay, Fanout!Hand
<1>2. /\ i \in 0 .. Len(stream) /\ consumer[g].acked \subseteq 1 .. Len(stream)
      /\ \A j \in 1 .. Len(stream) : stream[j] \in 1 .. Len(ops)
  BY DEF Fanout!FanoutInv, Fanout!StreamInv, Fanout!Hand
<1>3. consumer[g] \in Consumers /\ Len(stream) \in Nat /\ Len(ops) \in Nat
  BY DEF Fanout!FanoutInv, Fanout!TypeOK, Consumers
<1>4. i \in 1 .. Len(stream) /\ i \in Nat /\ n \in Nat
  BY <1>1, <1>2, <1>3
<1>5. /\ taken \in Consumers /\ taken.hand = 0 /\ taken.tries = consumer[g].tries
      /\ taken.acked = consumer[g].acked
  BY <1>3 DEF Consumers
<1> HIDE DEF taken, n, i
<1>6. PICK r \in Consumers :
        /\ consumer' = [consumer EXCEPT ![g] = r]
        /\ r.tries = taken.tries /\ r.hand = taken.hand
        /\ r.acked \in {taken.acked, taken.acked \cup {i}}
  BY <1>1, <1>4, <1>5, AckedFacts
<1>7. /\ conn' \in [Conns -> Fanout!Connections]
      /\ \A c \in Conns :
            /\ Fanout!InRoom(conn'[c]) /\ conn'[c].have = conn[c].have
            /\ Fanout!Served(conn'[c]) =>
                  /\ Fanout!Served(conn[c]) /\ Fanout!Held(conn[c]) \subseteq Fanout!Held(conn'[c])
                  /\ Home[c] = g /\ c # "nobody" => n \in Fanout!Held(conn'[c])
  <2> DEFINE who == "nobody"
  <2>1. Fanout!FanOut(g, who, n)
    BY <1>1
  <2> HIDE DEF who
  <2>2. /\ conn' \in [Conns -> Fanout!Connections]
        /\ \A c \in Conns :
              /\ Fanout!InRoom(conn'[c]) /\ conn'[c].have = conn[c].have
              /\ Fanout!Served(conn'[c]) =>
                    /\ Fanout!Served(conn[c]) /\ Fanout!Held(conn[c]) \subseteq Fanout!Held(conn'[c])
                    /\ Home[c] = g /\ c # who => n \in Fanout!Held(conn'[c])
    BY SMTT(30), <2>1, <1>4, FanOutFacts
  <2> QED BY <2>2 DEF who
<1>8. r.acked \subseteq 1 .. Len(stream) /\ r.hand \in 0 .. Len(stream)
  BY <1>2, <1>3, <1>4, <1>5, <1>6
<1>9. \A j : r.tries[j] = consumer[g].tries[j]
  BY <1>5, <1>6
<1>10. ASSUME NEW c \in Conns, Fanout!Served(conn'[c]), Home[c] = g,
              NEW j \in 1 .. Len(stream), j \notin consumer[g].acked,
              consumer[g].tries[j] < MaxDeliver \/ consumer[g].hand = j
       PROVE  \/ stream[j] \in Fanout!Held(conn'[c]) \/ ops[stream[j]].origin = g
              \/ j \notin r.acked /\ (r.tries[j] < MaxDeliver \/ r.hand = j)
  <2>1. CASE j = i
    BY <2>1, <1>7, <1>10, FanoutAssumption DEF n
  <2>2. CASE j # i
    BY <2>2, <1>5, <1>6, <1>10 DEF i
  <2> QED BY <2>1, <2>2
<1>11. NothingForgotten(g, r)
  BY <1>10 DEF NothingForgotten
<1>12. NothingLost
  BY <1>7 DEF NothingLost
<1> QED BY <1>1, <1>6, <1>8, <1>9, <1>11, <1>12, SubscriberStep

\* A process ends: its clients are no longer up to date, and what its handlers
\* had not published the other gateways' clients may miss.
LEMMA FanoutStop ==
    ASSUME Fanout!FanoutInv, NEW g \in Gateways, Fanout!Stop(g)
    PROVE  Fanout!FanoutInv'
<1> USE DEF Fanout!FanoutInv
<1>1. /\ conn \in [Conns -> Fanout!Connections] /\ \A c \in Conns : Fanout!InRoom(conn[c])
      /\ consumer \in [Gateways -> Consumers]
      /\ task \in [Fanout!Writers -> [op : Nat, step : {"none", "publish", "check", "fanout"}]]
  BY DEF Fanout!TypeOK, Fanout!RoomInv, Consumers
<1>2. /\ UNCHANGED <<ops, stream>>
      /\ conn' = [c \in Conns |-> IF Home[c] = g THEN Fanout!Ended(conn[c]) ELSE conn[c]]
      /\ task' = [w \in Fanout!Writers |-> IF Fanout!At(w) = g THEN Fanout!NoTask ELSE task[w]]
      /\ consumer' = [consumer EXCEPT ![g].hand = 0]
      /\ dropped \subseteq dropped'
  BY DEF Fanout!Stop
<1>3. ASSUME NEW w \in Fanout!Writers, Fanout!At(w) = g, task[w].step = "publish"
      PROVE  \E d \in dropped' : d.op = task[w].op
  <2> DEFINE d == [op |-> task[w].op, why |-> "stopped"]
  <2>1. w \in {v \in Fanout!Writers : Fanout!At(v) = g /\ task[v].step = "publish"}
    BY <1>3
  <2>2. d \in dropped'
    BY <2>1 DEF Fanout!Stop
  <2> QED BY <2>2
<1>4. /\ conn' \in [Conns -> Fanout!Connections]
      /\ \A c \in Conns :
            /\ Fanout!InRoom(conn'[c]) /\ conn'[c].have = conn[c].have
            /\ Fanout!Served(conn'[c]) => conn'[c] = conn[c] /\ Home[c] # g
  <2>1. ASSUME NEW c \in Conns
        PROVE  /\ conn'[c] \in Fanout!Connections
               /\ Fanout!InRoom(conn'[c]) /\ conn'[c].have = conn[c].have
               /\ Fanout!Served(conn'[c]) => conn'[c] = conn[c] /\ Home[c] # g
    <3>1. CASE Home[c] = g
      <4>1. conn'[c] = Fanout!Ended(conn[c]) /\ conn[c] \in Fanout!Connections
        BY <3>1, <1>1, <1>2
      <4> QED BY <4>1, EndedFacts
    <3>2. CASE Home[c] # g
      BY <3>2, <1>1, <1>2
    <3> QED BY <3>1, <3>2
  <2>2. conn' = [c \in Conns |-> conn'[c]]
    BY <1>2
  <2> QED BY <2>1, <2>2
<1>5. /\ task' \in [Fanout!Writers -> [op : Nat, step : {"none", "publish", "check", "fanout"}]]
      /\ \A w \in Fanout!Writers :
            /\ Fanout!At(w) = g => task'[w] = Fanout!NoTask
            /\ Fanout!At(w) # g => task'[w] = task[w]
  BY <1>1, <1>2 DEF Fanout!NoTask
<1>6. consumer' \in [Gateways -> Consumers]
  BY <1>1, <1>2 DEF Consumers
<1>7. \A h \in Gateways :
         /\ consumer'[h].acked = consumer[h].acked /\ consumer'[h].tries = consumer[h].tries
         /\ h # g => consumer'[h] = consumer[h]
         /\ consumer'[h].hand \in {0, consumer[h].hand}
  BY <1>1, <1>2 DEF Consumers
<1>8. Fanout!TypeOK'
  BY <1>2, <1>4, <1>5, <1>6 DEF Fanout!TypeOK, Consumers
<1>9. Fanout!RoomInv'
  BY <1>4 DEF Fanout!RoomInv
<1>10. Fanout!TaskInv'
  <2>1. \A w \in Fanout!Writers : task'[w] # Fanout!NoTask => task'[w] = task[w]
    BY <1>5
  <2>2. ASSUME NEW u \in Fanout!Writers, NEW v \in Fanout!Writers,
               task'[u].op = task'[v].op, task'[u] # Fanout!NoTask
        PROVE  u = v
    <3>1. CASE task'[v] = Fanout!NoTask
      <4>1. task[u] # Fanout!NoTask /\ task[u].op = 0
        BY <3>1, <2>1, <2>2 DEF Fanout!NoTask
      <4> QED BY <4>1 DEF Fanout!TaskInv
    <3>2. CASE task'[v] # Fanout!NoTask
      BY <3>2, <2>1, <2>2 DEF Fanout!TaskInv
    <3> QED BY <3>1, <3>2
  <2> QED BY <2>1, <2>2, <1>2, <1>4 DEF Fanout!TaskInv
<1>11. Fanout!StreamInv'
  <2>1. \A v \in Fanout!Writers : task'[v].step = "publish" => task'[v] = task[v]
    BY <1>5 DEF Fanout!NoTask
  <2>2. \A h \in Gateways :
          /\ consumer'[h].acked \subseteq 1 .. Len(stream)
          /\ \A i \in 1 .. MaxOps : i > Len(stream) => consumer'[h].tries[i] = 0
          /\ consumer'[h].hand \in 0 .. Len(stream)
    <3>1. \A h \in Gateways :
            /\ consumer[h].acked \subseteq 1 .. Len(stream)
            /\ \A i \in 1 .. MaxOps : i > Len(stream) => consumer[h].tries[i] = 0
            /\ consumer[h].hand \in 0 .. Len(stream)
      BY DEF Fanout!StreamInv, Fanout!Hand
    <3>2. 0 \in 0 .. Len(stream)
      BY DEF Fanout!TypeOK
    <3> QED BY <3>1, <3>2, <1>7
  <2> QED BY <2>1, <2>2, <1>2 DEF Fanout!StreamInv, Fanout!Hand
<1>12. ASSUME NEW c \in Conns, Fanout!Served(conn'[c]), NEW n \in 1 .. Len(ops)
       PROVE  /\ ops[n].origin = Home[c] /\ Fanout!ByItsHandler(n) => Fanout!ByItsHandler(n)'
              /\ Fanout!ByTheStream(n, Home[c]) => Fanout!ByTheStream(n, Home[c])'
  <2>1. Home[c] # g /\ Home[c] \in Gateways
    BY <1>4, <1>12, FanoutAssumption
  <2>2. consumer'[Home[c]] = consumer[Home[c]]
    BY <2>1, <1>7
  <2>3. ASSUME NEW u \in Fanout!Writers, task[u].op = n
        PROVE  Fanout!At(u) = ops[n].origin
    <3>1. task[u] # Fanout!NoTask
      BY <2>3 DEF Fanout!NoTask
    <3> QED BY <3>1, <2>3 DEF Fanout!TaskInv
  <2>4. ASSUME ops[n].origin = Home[c], Fanout!ByItsHandler(n) PROVE Fanout!ByItsHandler(n)'
    BY <2>1, <2>3, <2>4, <1>5 DEF Fanout!ByItsHandler
  <2>5. ASSUME Fanout!ByTheStream(n, Home[c]) PROVE Fanout!ByTheStream(n, Home[c])'
    <3>1. CASE \E u \in Fanout!Writers : task[u].op = n /\ task[u].step = "publish"
      <4>1. PICK u \in Fanout!Writers : task[u].op = n /\ task[u].step = "publish"
        BY <3>1
      <4>2. CASE Fanout!At(u) = g
        BY <4>1, <4>2, <1>3 DEF Fanout!ByTheStream
      <4>3. CASE Fanout!At(u) # g
        BY <4>1, <4>3, <1>5 DEF Fanout!ByTheStream
      <4> QED BY <4>2, <4>3
    <3>2. CASE ~ \E u \in Fanout!Writers : task[u].op = n /\ task[u].step = "publish"
      BY <3>2, <2>2, <2>5, <1>2 DEF Fanout!ByTheStream, Fanout!Hand
    <3> QED BY <3>1, <3>2
  <2> QED BY <2>4, <2>5
<1>13. Fanout!ServedInv'
  BY <1>2, <1>4, <1>12, ServedKept
<1> QED BY <1>8, <1>9, <1>10, <1>11, <1>13

-----------------------------------------------------------------------------
(* GatewayFanout: the invariant, and what it says to the clients.          *)

LEMMA FanoutStep ==
    ASSUME Fanout!FanoutInv, Fanout!Next
    PROVE  Fanout!FanoutInv'
<1>1. Fanout!Serving \subseteq Gateways
  BY FanoutAssumption DEF Fanout!Serving
<1>2. CASE \E c \in Conns : \/ Fanout!Open(c) \/ Fanout!Join(c) \/ Fanout!CatchUp(c)
                            \/ Fanout!Receive(c) \/ Fanout!Close(c) \/ Fanout!Reload(c)
                            \/ Fanout!Revoke(c) \/ Fanout!Write(c)
  BY <1>2, FanoutOpen, FanoutJoin, FanoutCatchUp, FanoutReceive, FanoutClose, FanoutRevoke, FanoutWrite
<1>3. CASE \E w \in Fanout!Writers : Fanout!Publish(w) \/ Fanout!Check(w) \/ Fanout!Distribute(w)
  BY <1>3, FanoutPublish, FanoutCheck, FanoutDistribute
<1>4. CASE \E g \in RestGateways : Fanout!Restore(g)
  BY <1>4, FanoutRestore
<1>5. CASE \E g \in Fanout!Serving : Fanout!Skip(g) \/ Fanout!Admit(g) \/ Fanout!Relay(g)
  BY <1>1, <1>5, FanoutSkip, FanoutAdmit, FanoutRelay
<1>6. CASE \E g \in Gateways : Fanout!Drain(g) \/ Fanout!CloseAll(g) \/ Fanout!Stop(g)
  BY <1>6, FanoutDrain, FanoutStop
<1> QED BY <1>2, <1>3, <1>4, <1>5, <1>6 DEF Fanout!Next

LEMMA FanoutGoal ==
    ASSUME Fanout!FanoutInv PROVE Fanout!NothingMissed
<1> SUFFICES ASSUME NEW c \in Conns, conn[c].state = "ready", ~conn[c].closing,
                    NEW n \in (1 .. Len(ops)) \ (conn[c].have \cup Fanout!Queued(c))
             PROVE  \/ Fanout!OnTheWay(n, Home[c])
                    \/ ops[n].origin # Home[c] /\ \E d \in dropped : d.op = n
  BY DEF Fanout!NothingMissed
<1>1. IF ops[n].origin = Home[c] THEN Fanout!ByItsHandler(n) ELSE Fanout!ByTheStream(n, Home[c])
  BY DEF Fanout!FanoutInv, Fanout!ServedInv, Fanout!Served, Fanout!Held, Fanout!Queued
<1>2. CASE ops[n].origin = Home[c]
  <2>1. PICK w \in Fanout!Writers : task[w].op = n
    BY <1>1, <1>2 DEF Fanout!ByItsHandler
  <2>2. Fanout!At(w) = Home[c]
    <3>1. task[w] # Fanout!NoTask
      BY <2>1 DEF Fanout!NoTask
    <3> QED BY <3>1, <2>1, <1>2 DEF Fanout!FanoutInv, Fanout!TaskInv
  <2> QED BY <2>1, <2>2 DEF Fanout!OnTheWay
<1>3. CASE ops[n].origin # Home[c]
  BY <1>1, <1>3 DEF Fanout!ByTheStream, Fanout!OnTheWay
<1> QED BY <1>2, <1>3

\* A client that is up to date misses nothing that was committed, whatever
\* order the gateways, the stream, slow peers, crashes and drains act in,
\* unless the stream never got it (fanout, NatsSubscriber::run, try_send).
THEOREM NothingIsMissedHolds == Spec => []NothingIsMissed
<1> DEFINE I == part = "GatewayFanout" => Fanout!FanoutInv
<1>1. Init => I
  BY FanoutInit DEF Init
<1>2. ASSUME I, [Next]_vars PROVE I'
  <2> SUFFICES ASSUME part' = "GatewayFanout" PROVE Fanout!FanoutInv'
    OBVIOUS
  <2>1. CASE UNCHANGED vars
    <3>1. part = "GatewayFanout" /\ UNCHANGED <<ops, conn, task, stream, consumer, dropped>>
      BY <2>1 DEF vars, fanoutVars
    <3>2. /\ conn \in [Conns -> Fanout!Connections] /\ \A c \in Conns : Fanout!InRoom(conn[c])
          /\ Fanout!FanoutInv
      BY <3>1, <1>2 DEF Fanout!FanoutInv, Fanout!TypeOK, Fanout!RoomInv
    <3> QED BY <3>1, <3>2, ConnStep
  <2>2. CASE Next
    <3>1. part = "GatewayFanout" /\ Fanout!Next
      BY <2>2 DEF Next
    <3> QED BY <3>1, <1>2, FanoutStep
  <2> QED BY <1>2, <2>1, <2>2
<1>3. I => NothingIsMissed
  BY FanoutGoal DEF NothingIsMissed
<1> QED BY <1>1, <1>2, <1>3, PTL DEF Spec

-----------------------------------------------------------------------------
(* Replay: sets of numbers, and what a replay keeps.                       *)

\* A set of natural numbers that has an element has a least one.
LEMMA Least ==
    ASSUME NEW S, S \subseteq Nat, S # {}
    PROVE  \E x \in S : \A y \in S : x <= y
<1>1. IsWellFoundedOn(OpToRel(<, Nat), Nat)
  BY NatLessThanWellFounded
<1>2. \E x \in S : \A y \in S : ~(<<y, x>> \in OpToRel(<, Nat))
  BY <1>1, WFMin
<1>3. PICK x \in S : \A y \in S : ~(<<y, x>> \in OpToRel(<, Nat))
  BY <1>2
<1>4. \A y \in S : x <= y
  <2> SUFFICES ASSUME NEW y \in S PROVE ~(y < x)
    OBVIOUS
  <2>1. <<y, x>> \in Nat \X Nat /\ <<y, x>>[1] = y /\ <<y, x>>[2] = x
    OBVIOUS
  <2> QED BY <1>3, <2>1 DEF OpToRel
<1> QED BY <1>4

\* One that is bounded has a greatest.
LEMMA Greatest ==
    ASSUME NEW N \in Nat, NEW S, S \subseteq 0 .. N, S # {}
    PROVE  \E x \in S : \A y \in S : x >= y
<1> DEFINE T == {N - x : x \in S}
<1>1. T \subseteq Nat /\ T # {}
  <2>1. \A x \in S : x \in 0 .. N /\ N - x \in Nat
    OBVIOUS
  <2>2. T \subseteq Nat
    BY <2>1
  <2>3. PICK x \in S : TRUE
    OBVIOUS
  <2> QED BY <2>2, <2>3
<1>2. PICK m \in T : \A y \in T : m <= y
  BY <1>1, Least
<1>3. PICK x \in S : m = N - x
  OBVIOUS
<1>4. \A y \in S : x >= y
  <2> SUFFICES ASSUME NEW y \in S PROVE x >= y
    OBVIOUS
  <2>1. N - x <= N - y
    BY <1>2, <1>3
  <2> QED BY <2>1
<1> QED BY <1>4

\* What a DocumentReplay is made of.
Maps == UNION {[S -> SUBSET Int] : S \in SUBSET Int}
ReplayRecords ==
    [engine : [live : BOOLEAN, ops : SUBSET Int], position : Int, closed : BOOLEAN,
     checkpoints : Maps, states : Maps]

TravelInv == TimeTravel!ReplayInv /\ replays \in Seq(ReplayRecords)

\* A map with a fold more.
LEMMA WithFacts ==
    ASSUME NEW map \in Maps, NEW p \in TimeTravel!Positions
    PROVE  LET more == TimeTravel!With(map, p, 1 .. p) IN
           /\ more \in Maps /\ DOMAIN more = DOMAIN map \cup {p}
           /\ TimeTravel!IsFold(map) => TimeTravel!IsFold(more)
<1> DEFINE more == TimeTravel!With(map, p, 1 .. p)
<1>1. PICK S \in SUBSET Int : map \in [S -> SUBSET Int]
  BY DEF Maps
<1>2. p \in Int
  BY ReplayAssumption DEF TimeTravel!Positions
<1>3. more \in [S \cup {p} -> SUBSET Int] /\ \A q \in S \cup {p} : more[q] = IF q = p THEN 1 .. p ELSE map[q]
  BY <1>1, <1>2 DEF TimeTravel!With
<1>4. S \cup {p} \in SUBSET Int
  BY <1>2
<1> HIDE DEF more
<1>5. more \in Maps
  BY <1>3, <1>4 DEF Maps
<1>6. TimeTravel!IsFold(map) => TimeTravel!IsFold(more)
  BY <1>1, <1>3 DEF TimeTravel!IsFold
<1>7. DOMAIN more = DOMAIN map \cup {p}
  BY <1>1, <1>3
<1> QED BY <1>5, <1>6, <1>7 DEF more

\* The empty map, and the fold of nothing.
LEMMA FreshFacts ==
    /\ TimeTravel!Fresh \in ReplayRecords /\ TimeTravel!FoldsExactly(TimeTravel!Fresh)
    /\ \A r \in ReplayRecords :
          /\ TimeTravel!Closed(r) \in ReplayRecords /\ TimeTravel!FoldsExactly(TimeTravel!Closed(r))
          /\ ~TimeTravel!Closed(r).engine.live /\ TimeTravel!Closed(r).closed
<1> DEFINE zero == [p \in {0} |-> {}]
           empty == [p \in {} |-> {}]
<1>1. zero \in [{0} -> SUBSET Int] /\ zero[0] = {} /\ DOMAIN zero = {0}
  OBVIOUS
<1>2. empty \in [{} -> SUBSET Int] /\ DOMAIN empty = {}
  OBVIOUS
<1> HIDE DEF zero, empty
<1>3. zero \in Maps /\ empty \in Maps
  <2>1. {0} \in SUBSET Int /\ {} \in SUBSET Int
    OBVIOUS
  <2> QED BY <1>1, <1>2, <2>1 DEF Maps
<1>4. 0 \in TimeTravel!Positions /\ 1 .. 0 = {}
  BY ReplayAssumption DEF TimeTravel!Positions
<1>5. TimeTravel!IsFold(zero) /\ TimeTravel!IsFold(empty)
  BY <1>1, <1>2, <1>4 DEF TimeTravel!IsFold
<1>6. TimeTravel!Fresh = [engine |-> [live |-> TRUE, ops |-> {}], position |-> 0, closed |-> FALSE,
                          checkpoints |-> zero, states |-> empty]
  BY DEF TimeTravel!Fresh, zero, empty
<1>7. TimeTravel!Fresh \in ReplayRecords /\ TimeTravel!FoldsExactly(TimeTravel!Fresh)
  BY <1>1, <1>3, <1>4, <1>5, <1>6 DEF ReplayRecords, TimeTravel!FoldsExactly
<1>8. ASSUME NEW r \in ReplayRecords
      PROVE  /\ TimeTravel!Closed(r) \in ReplayRecords /\ TimeTravel!FoldsExactly(TimeTravel!Closed(r))
             /\ ~TimeTravel!Closed(r).engine.live /\ TimeTravel!Closed(r).closed
  <2> DEFINE c == TimeTravel!Closed(r)
             e == [live |-> FALSE, ops |-> {}]
  <2>1. e \in [live : BOOLEAN, ops : SUBSET Int] /\ ~e.live
    OBVIOUS
  <2>2. c = [r EXCEPT !.closed = TRUE, !.engine = e, !.position = -1,
                      !.checkpoints = empty, !.states = empty]
    BY DEF TimeTravel!Closed, empty
  <2> HIDE DEF c, e
  <2>3. /\ c \in ReplayRecords /\ c.closed = TRUE /\ c.engine = e
        /\ c.checkpoints = empty /\ c.states = empty
    <3>1. c = [engine |-> e, position |-> -1, closed |-> TRUE, checkpoints |-> empty, states |-> empty]
      BY <2>2 DEF ReplayRecords
    <3> QED BY <1>3, <2>1, <3>1 DEF ReplayRecords
  <2> QED BY <1>5, <2>1, <2>3 DEF TimeTravel!FoldsExactly, c
<1> QED BY <1>7, <1>8

-----------------------------------------------------------------------------
(* Replay: its steps.                                                      *)

LEMMA TravelInit ==
    ASSUME TimeTravel!Init PROVE TravelInv
<1> USE ReplayAssumption DEF TimeTravel!Init
<1>1. replays \in Seq(ReplayRecords) /\ Len(replays) = 0
  OBVIOUS
<1>2. TimeTravel!TypeOK
  BY <1>1 DEF TimeTravel!TypeOK, TimeTravel!NoCall, TimeTravel!None, TimeTravel!Positions
<1>3. TimeTravel!CallInv /\ TimeTravel!RunnerInv /\ TimeTravel!ShownInv
  BY DEF TimeTravel!CallInv, TimeTravel!RunnerInv, TimeTravel!ShownInv, TimeTravel!None
<1> QED BY <1>1, <1>2, <1>3 DEF TravelInv, TimeTravel!ReplayInv

\* Opened, OpenFails, Move, Serve: the panel without its replays.
LEMMA TravelOpened ==
    ASSUME TravelInv, TimeTravel!Opened PROVE TravelInv'
<1> USE DEF TravelInv, TimeTravel!ReplayInv
<1>1. /\ replays' = Append(replays, TimeTravel!Fresh) /\ current' = Len(replays) + 1
      /\ slider' = Log /\ UNCHANGED <<call, shown, error>>
      /\ runner' = [running |-> TRUE, target |-> Log]
  BY DEF TimeTravel!Opened, TimeTravel!RequestAt
<1>2. /\ replays' \in Seq(ReplayRecords) /\ Len(replays') = Len(replays) + 1 /\ Len(replays) \in Nat
      /\ \A i \in 1 .. Len(replays) : replays'[i] = replays[i]
      /\ replays'[Len(replays) + 1] = TimeTravel!Fresh
  BY <1>1, FreshFacts
<1>3. Log \in TimeTravel!Positions /\ Log # TimeTravel!None
  BY ReplayAssumption DEF TimeTravel!Positions, TimeTravel!None
<1>4. TimeTravel!TypeOK'
  BY <1>1, <1>2, <1>3 DEF TimeTravel!TypeOK
<1>5. \A i \in 1 .. Len(replays') : TimeTravel!FoldsExactly(replays'[i])
  <2> SUFFICES ASSUME NEW i \in 1 .. Len(replays') PROVE TimeTravel!FoldsExactly(replays'[i])
    OBVIOUS
  <2>1. CASE i = Len(replays) + 1
    BY <2>1, <1>2, FreshFacts
  <2>2. CASE i # Len(replays) + 1
    <3>1. i \in 1 .. Len(replays)
      BY <2>2, <1>2
    <3> QED BY <3>1, <1>2
  <2> QED BY <2>1, <2>2
<1>6. TimeTravel!CallInv'
  <2>1. CASE call = TimeTravel!NoCall
    BY <2>1, <1>1 DEF TimeTravel!CallInv
  <2>2. CASE call # TimeTravel!NoCall
    <3>1. call.replay \in 1 .. Len(replays) /\ call.replay \in 1 .. Len(replays')
      BY <2>2, <1>2 DEF TimeTravel!CallInv
    <3>2. replays'[call.replay] = replays[call.replay]
      BY <3>1, <1>2
    <3> QED BY <2>2, <3>1, <3>2, <1>1 DEF TimeTravel!CallInv, TimeTravel!Self
  <2> QED BY <2>1, <2>2
<1>7. TimeTravel!RunnerInv' /\ TimeTravel!ShownInv'
  BY <1>1, <1>3 DEF TimeTravel!RunnerInv, TimeTravel!ShownInv
<1> QED BY <1>2, <1>4, <1>5, <1>6, <1>7

LEMMA TravelPanel ==
    ASSUME TravelInv, \/ TimeTravel!OpenFails \/ TimeTravel!Serve
                      \/ \E index \in TimeTravel!Positions : TimeTravel!Move(index)
    PROVE  TravelInv'
<1> USE DEF TravelInv, TimeTravel!ReplayInv
<1>1. CASE TimeTravel!OpenFails
  <2>1. UNCHANGED <<replays, current, runner, call, slider, shown>> /\ error' = TRUE
    BY <1>1 DEF TimeTravel!OpenFails
  <2> QED BY <2>1 DEF TimeTravel!TypeOK, TimeTravel!CallInv, TimeTravel!Self, TimeTravel!RunnerInv, TimeTravel!ShownInv
<1>2. CASE \E index \in TimeTravel!Positions : TimeTravel!Move(index)
  <2>1. PICK index \in TimeTravel!Positions : TimeTravel!Move(index)
    BY <1>2
  <2>2. /\ UNCHANGED <<replays, current, call, shown, error>> /\ slider' = index
        /\ runner' = [running |-> TRUE, target |-> index]
    BY <2>1 DEF TimeTravel!Move, TimeTravel!RequestAt
  <2>3. index # TimeTravel!None
    BY ReplayAssumption DEF TimeTravel!Positions, TimeTravel!None
  <2>4. TimeTravel!TypeOK'
    BY <2>2 DEF TimeTravel!TypeOK
  <2>5. TimeTravel!CallInv'
    BY <2>2 DEF TimeTravel!CallInv, TimeTravel!Self
  <2>6. TimeTravel!RunnerInv' /\ TimeTravel!ShownInv'
    BY <2>2, <2>3 DEF TimeTravel!RunnerInv, TimeTravel!ShownInv
  <2> QED BY <2>2, <2>4, <2>5, <2>6
<1>3. CASE TimeTravel!Serve
  <2>1. /\ runner.running /\ call = TimeTravel!NoCall
        /\ UNCHANGED <<replays, current, slider, shown, error>>
    BY <1>3 DEF TimeTravel!Serve, TimeTravel!display
  <2>2. runner \in [running : BOOLEAN, target : TimeTravel!Positions \cup {TimeTravel!None}]
    BY DEF TimeTravel!TypeOK
  <2>3. CASE runner.target # TimeTravel!None /\ current # 0
    <3>1. /\ call' = [replay |-> current, index |-> runner.target, stage |-> "at", base |-> 0]
          /\ runner' = [runner EXCEPT !.target = TimeTravel!None]
      BY <1>3, <2>3 DEF TimeTravel!Serve
    <3>2. /\ runner'.target = TimeTravel!None /\ runner'.running
          /\ runner' \in [running : BOOLEAN, target : TimeTravel!Positions \cup {TimeTravel!None}]
      BY <2>1, <2>2, <3>1
    <3>3. runner.target \in TimeTravel!Positions /\ current \in Nat /\ current \in 1 .. Len(replays)
      BY <2>2, <2>3 DEF TimeTravel!TypeOK
    <3>4. 0 \in TimeTravel!Positions
      BY ReplayAssumption DEF TimeTravel!Positions
    <3>5. TimeTravel!TypeOK'
      BY <2>1, <3>1, <3>2, <3>3, <3>4 DEF TimeTravel!TypeOK
    <3>6. TimeTravel!CallInv'
      BY <2>1, <3>1, <3>3 DEF TimeTravel!CallInv
    <3>7. TimeTravel!RunnerInv' /\ TimeTravel!ShownInv'
      <4>1. call' # TimeTravel!NoCall
        BY <3>1 DEF TimeTravel!NoCall
      <4> QED BY <4>1, <2>1, <2>3, <3>1, <3>2 DEF TimeTravel!RunnerInv, TimeTravel!ShownInv
    <3> QED BY <2>1, <3>5, <3>6, <3>7
  <2>4. CASE ~(runner.target # TimeTravel!None /\ current # 0)
    <3>1. runner' = [running |-> FALSE, target |-> TimeTravel!None] /\ call' = call
      BY <1>3, <2>4 DEF TimeTravel!Serve
    <3>2. TimeTravel!TypeOK'
      BY <2>1, <3>1 DEF TimeTravel!TypeOK
    <3>3. TimeTravel!CallInv'
      BY <2>1, <3>1 DEF TimeTravel!CallInv
    <3>4. TimeTravel!RunnerInv' /\ TimeTravel!ShownInv'
      BY <2>1, <2>4, <3>1 DEF TimeTravel!RunnerInv, TimeTravel!ShownInv
    <3> QED BY <2>1, <3>2, <3>3, <3>4
  <2> QED BY <2>3, <2>4
<1> QED BY <1>1, <1>2, <1>3

\* A replay changes, and with it what the call may rely on.
LEMMA ReplayStep ==
    ASSUME TravelInv, NEW i \in 1 .. Len(replays), NEW r \in ReplayRecords, TimeTravel!FoldsExactly(r),
           replays' = [replays EXCEPT ![i] = r]
    PROVE  /\ replays' \in Seq(ReplayRecords) /\ Len(replays') = Len(replays) /\ replays'[i] = r
           /\ \A j \in 1 .. Len(replays) : j # i => replays'[j] = replays[j]
           /\ \A j \in 1 .. Len(replays') : TimeTravel!FoldsExactly(replays'[j])
<1>1. replays \in Seq(ReplayRecords) /\ \A j \in 1 .. Len(replays) : TimeTravel!FoldsExactly(replays[j])
  BY DEF TravelInv, TimeTravel!ReplayInv
<1>2. /\ replays' \in Seq(ReplayRecords) /\ Len(replays') = Len(replays) /\ replays'[i] = r
      /\ \A j \in 1 .. Len(replays) : j # i => replays'[j] = replays[j]
  BY <1>1
<1>3. \A j \in 1 .. Len(replays') : TimeTravel!FoldsExactly(replays'[j])
  BY <1>1, <1>2
<1> QED BY <1>2, <1>3

LEMMA TravelReopen ==
    ASSUME TravelInv, TimeTravel!Reopen PROVE TravelInv'
<1> USE DEF TravelInv, TimeTravel!ReplayInv
<1>1. current' = 0 /\ UNCHANGED <<runner, call, slider, shown, error>>
  BY DEF TimeTravel!Reopen, TimeTravel!display
<1>2. TimeTravel!RunnerInv' /\ TimeTravel!ShownInv'
  BY <1>1 DEF TimeTravel!RunnerInv, TimeTravel!ShownInv
<1>3. CASE current = 0
  <2>1. replays' = replays
    BY <1>3 DEF TimeTravel!Reopen
  <2>2. TimeTravel!TypeOK' /\ TimeTravel!CallInv'
    BY <1>1, <1>3, <2>1 DEF TimeTravel!TypeOK, TimeTravel!CallInv, TimeTravel!Self
  <2> QED BY <1>2, <2>1, <2>2
<1>4. CASE current # 0
  <2> DEFINE r == TimeTravel!Closed(replays[current])
  <2>1. current \in 1 .. Len(replays) /\ replays[current] \in ReplayRecords
    BY <1>4 DEF TimeTravel!TypeOK
  <2>2. replays' = [replays EXCEPT ![current] = r]
    BY <1>4 DEF TimeTravel!Reopen
  <2>3. r \in ReplayRecords /\ TimeTravel!FoldsExactly(r) /\ ~r.engine.live /\ r.closed
    BY <2>1, FreshFacts
  <2> HIDE DEF r
  <2>4. /\ replays' \in Seq(ReplayRecords) /\ Len(replays') = Len(replays) /\ replays'[current] = r
        /\ \A j \in 1 .. Len(replays) : j # current => replays'[j] = replays[j]
        /\ \A j \in 1 .. Len(replays') : TimeTravel!FoldsExactly(replays'[j])
    <3> HIDE DEF TravelInv
    <3> QED BY <2>1, <2>2, <2>3, ReplayStep
  <2>5. TimeTravel!TypeOK'
    BY <1>1, <2>4 DEF TimeTravel!TypeOK
  <2>6. TimeTravel!CallInv'
    BY <1>1, <2>1, <2>3, <2>4 DEF TimeTravel!CallInv, TimeTravel!Self
  <2> QED BY <1>2, <2>4, <2>5, <2>6
<1> QED BY <1>3, <1>4

\* A call is answered, and what is shown is the fold the call asked for; or it
\* fails.
LEMMA Answered ==
    ASSUME TravelInv, call # TimeTravel!NoCall, UNCHANGED <<current, runner, slider>>,
           TimeTravel!Reject \/ TimeTravel!Resolve(1 .. call.index)
    PROVE  TimeTravel!RunnerInv' /\ TimeTravel!ShownInv' /\ TimeTravel!CallInv' /\ call' = TimeTravel!NoCall
<1>1. call' = TimeTravel!NoCall
  BY DEF TimeTravel!Reject, TimeTravel!Resolve
<1>2. \/ error' = TRUE /\ shown' = shown
      \/ error' = FALSE /\ shown' = [index |-> call.index, ops |-> 1 .. call.index]
  BY DEF TimeTravel!Reject, TimeTravel!Resolve
<1>3. TimeTravel!RunnerInv'
  BY <1>1, <1>2 DEF TimeTravel!RunnerInv, TravelInv, TimeTravel!ReplayInv
<1>4. TimeTravel!ShownInv'
  BY <1>2 DEF TimeTravel!ShownInv, TravelInv, TimeTravel!ReplayInv
<1> QED BY <1>1, <1>3, <1>4 DEF TimeTravel!CallInv

\* A call goes on: what is shown stays, and the request is the same.
LEMMA GoesOn ==
    ASSUME TravelInv, call # TimeTravel!NoCall, UNCHANGED <<current, runner, slider, shown, error>>,
           call' # TimeTravel!NoCall, call'.index = call.index
    PROVE  TimeTravel!RunnerInv' /\ TimeTravel!ShownInv'
BY DEF TimeTravel!RunnerInv, TimeTravel!ShownInv, TravelInv, TimeTravel!ReplayInv

LEMMA TravelAt ==
    ASSUME TravelInv, TimeTravel!At PROVE TravelInv'
<1> USE DEF TravelInv, TimeTravel!ReplayInv
<1> DEFINE i == call.replay
           s == replays[i]
<1>1. call.stage = "at" /\ call # TimeTravel!NoCall /\ UNCHANGED <<current, runner, slider>>
  BY DEF TimeTravel!At, TimeTravel!NoCall
<1>2. i \in 1 .. Len(replays) /\ call.index \in TimeTravel!Positions
  BY <1>1 DEF TimeTravel!CallInv
<1>3. s \in ReplayRecords /\ TimeTravel!FoldsExactly(s)
  BY <1>2
<1>4. call \in [replay : Nat, index : TimeTravel!Positions \cup {TimeTravel!None},
                base : TimeTravel!Positions, stage : {"none", "at", "importing", "folding"}]
  BY DEF TimeTravel!TypeOK
<1>5. 0 \in TimeTravel!Positions /\ TimeTravel!NoCall.index = TimeTravel!None
      /\ TimeTravel!NoCall.stage = "none" /\ TimeTravel!NoCall.base = 0 /\ TimeTravel!NoCall.replay = 0
  BY ReplayAssumption DEF TimeTravel!Positions, TimeTravel!NoCall
<1>6. CASE \/ s.closed /\ TimeTravel!Reject /\ replays' = replays
           \/ TimeTravel!Resolve(s.states[call.index]) /\ replays' = replays /\ call.index \in DOMAIN s.states
  <2>1. TimeTravel!Reject \/ TimeTravel!Resolve(1 .. call.index)
    BY <1>3, <1>6 DEF TimeTravel!FoldsExactly, TimeTravel!IsFold
  <2>2. /\ TimeTravel!RunnerInv' /\ TimeTravel!ShownInv' /\ TimeTravel!CallInv'
        /\ call' = TimeTravel!NoCall
    <3> HIDE DEF TravelInv
    <3> QED BY <1>1, <2>1, Answered
  <2>3. TimeTravel!TypeOK'
    BY <1>1, <1>5, <1>6, <2>2 DEF TimeTravel!TypeOK, TimeTravel!NoCall
  <2> QED BY <1>6, <2>2, <2>3
<1>7. CASE /\ ~s.closed /\ s.position > call.index
           /\ call' = [call EXCEPT !.stage = "importing", !.base = TimeTravel!Base(s, call.index)]
           /\ replays' = [replays EXCEPT ![i].engine.live = FALSE]
           /\ UNCHANGED <<shown, error>>
  <2> DEFINE b == TimeTravel!Base(s, call.index)
             low == {p \in DOMAIN s.checkpoints : p <= call.index}
             r == [s EXCEPT !.engine.live = FALSE]
  <2>1. low \subseteq 0 .. Log /\ 0 \in low
    BY <1>2, <1>3, <1>7, ReplayAssumption DEF TimeTravel!FoldsExactly, TimeTravel!IsFold, TimeTravel!Positions
  <2>2. \E p \in low : \A q \in low : p >= q
    BY <2>1, ReplayAssumption, Greatest
  <2>3. b \in DOMAIN s.checkpoints /\ b <= call.index /\ b \in TimeTravel!Positions
    <3>1. b \in low
      BY <2>2 DEF TimeTravel!Base, TimeTravel!Max
    <3> QED BY <3>1, <2>1 DEF TimeTravel!Positions
  <2>4. replays' = [replays EXCEPT ![i] = r]
    BY <1>7, <1>2
  <2>5. /\ r \in ReplayRecords /\ r.checkpoints = s.checkpoints /\ r.states = s.states
        /\ r.position = s.position /\ r.closed = s.closed /\ ~r.engine.live
    BY <1>3 DEF ReplayRecords
  <2> HIDE DEF b, low, r
  <2>6. TimeTravel!FoldsExactly(r)
    BY <1>3, <2>5 DEF TimeTravel!FoldsExactly
  <2>7. /\ replays' \in Seq(ReplayRecords) /\ Len(replays') = Len(replays) /\ replays'[i] = r
        /\ \A j \in 1 .. Len(replays') : TimeTravel!FoldsExactly(replays'[j])
    <3> HIDE DEF TravelInv, i
    <3> QED BY <1>2, <2>4, <2>5, <2>6, ReplayStep
  <2>8. /\ call'.replay = i /\ call'.index = call.index /\ call'.stage = "importing" /\ call'.base = b
        /\ call' \in [replay : Nat, index : TimeTravel!Positions \cup {TimeTravel!None},
                      base : TimeTravel!Positions, stage : {"none", "at", "importing", "folding"}]
    BY <1>4, <1>7, <2>3 DEF b
  <2>9. TimeTravel!TypeOK'
    BY <1>1, <2>7, <2>8 DEF TimeTravel!TypeOK
  <2>10. TimeTravel!CallInv'
    BY <1>2, <2>3, <2>5, <2>7, <2>8 DEF TimeTravel!CallInv, TimeTravel!Self
  <2>11. TimeTravel!RunnerInv' /\ TimeTravel!ShownInv'
    <3>1. call' # TimeTravel!NoCall
      BY <2>8, <1>5
    <3> HIDE DEF TravelInv
    <3> QED BY <3>1, <1>1, <1>7, <2>8, GoesOn
  <2> QED BY <2>7, <2>9, <2>10, <2>11
<1>8. CASE /\ ~s.closed /\ ~(s.position > call.index)
           /\ call' = [call EXCEPT !.stage = "folding"] /\ UNCHANGED <<replays, shown, error>>
  <2>1. /\ call'.replay = i /\ call'.index = call.index /\ call'.stage = "folding"
        /\ call' \in [replay : Nat, index : TimeTravel!Positions \cup {TimeTravel!None},
                      base : TimeTravel!Positions, stage : {"none", "at", "importing", "folding"}]
    BY <1>4, <1>8
  <2>2. s.position <= call.index
    BY <1>2, <1>3, <1>8, ReplayAssumption DEF ReplayRecords, TimeTravel!Positions
  <2>3. TimeTravel!TypeOK'
    BY <1>1, <1>8, <2>1 DEF TimeTravel!TypeOK
  <2>4. TimeTravel!CallInv'
    BY <1>2, <1>8, <2>1, <2>2 DEF TimeTravel!CallInv, TimeTravel!Self
  <2>5. TimeTravel!RunnerInv' /\ TimeTravel!ShownInv'
    <3>1. call' # TimeTravel!NoCall
      BY <2>1, <1>5
    <3> HIDE DEF TravelInv
    <3> QED BY <3>1, <1>1, <1>8, <2>1, GoesOn
  <2> QED BY <1>8, <2>3, <2>4, <2>5
<1> QED BY <1>6, <1>7, <1>8 DEF TimeTravel!At, TimeTravel!Self

LEMMA TravelImported ==
    ASSUME TravelInv, TimeTravel!Imported PROVE TravelInv'
<1> USE DEF TravelInv, TimeTravel!ReplayInv
<1> DEFINE i == call.replay
           s == replays[i]
           b == call.base
           e == [live |-> TRUE, ops |-> s.checkpoints[b]]
           r == [s EXCEPT !.engine = e, !.position = b]
<1>1. call.stage = "importing" /\ call # TimeTravel!NoCall /\ UNCHANGED <<current, runner, slider>>
  BY DEF TimeTravel!Imported, TimeTravel!NoCall
<1>2. /\ i \in 1 .. Len(replays) /\ call.index \in TimeTravel!Positions
      /\ s.closed \/ (b \in DOMAIN s.checkpoints /\ b <= call.index)
  BY <1>1 DEF TimeTravel!CallInv, TimeTravel!Self
<1>3. s \in ReplayRecords /\ TimeTravel!FoldsExactly(s)
  BY <1>2
<1>4. call \in [replay : Nat, index : TimeTravel!Positions \cup {TimeTravel!None},
                base : TimeTravel!Positions, stage : {"none", "at", "importing", "folding"}]
  BY DEF TimeTravel!TypeOK
<1>5. 0 \in TimeTravel!Positions /\ TimeTravel!NoCall.index = TimeTravel!None
      /\ TimeTravel!NoCall.stage = "none" /\ TimeTravel!NoCall.base = 0 /\ TimeTravel!NoCall.replay = 0
  BY ReplayAssumption DEF TimeTravel!Positions, TimeTravel!NoCall
<1>6. CASE TimeTravel!Reject /\ replays' = replays
  <2>1. /\ TimeTravel!RunnerInv' /\ TimeTravel!ShownInv' /\ TimeTravel!CallInv'
        /\ call' = TimeTravel!NoCall
    <3> HIDE DEF TravelInv
    <3> QED BY <1>1, <1>6, Answered
  <2>2. TimeTravel!TypeOK'
    BY <1>1, <1>5, <1>6, <2>1 DEF TimeTravel!TypeOK, TimeTravel!NoCall
  <2> QED BY <1>6, <2>1, <2>2
<1>7. CASE /\ ~s.closed
           /\ replays' = [replays EXCEPT
                  ![i].engine = [live |-> TRUE, ops |-> s.checkpoints[b]],
                  ![i].position = b]
           /\ call' = [call EXCEPT !.stage = "folding"]
           /\ UNCHANGED <<shown, error>>
  <2>1. /\ b \in TimeTravel!Positions /\ b \in Int /\ b \in DOMAIN s.checkpoints /\ b <= call.index
        /\ s.checkpoints[b] = 1 .. b
    BY <1>2, <1>3, <1>4, <1>7, ReplayAssumption
       DEF TimeTravel!FoldsExactly, TimeTravel!IsFold, TimeTravel!Positions
  <2>2. replays' = [replays EXCEPT ![i] = r]
    BY <1>2, <1>3, <1>7 DEF ReplayRecords
  <2>3. e \in [live : BOOLEAN, ops : SUBSET Int] /\ e.ops = 1 .. b
    BY <2>1
  <2> HIDE DEF e
  <2>4. /\ r \in ReplayRecords /\ r.checkpoints = s.checkpoints /\ r.states = s.states
        /\ r.position = b /\ r.closed = s.closed /\ r.engine = e
    BY <1>3, <2>1, <2>3 DEF ReplayRecords
  <2> HIDE DEF r
  <2>5. TimeTravel!FoldsExactly(r)
    BY <1>3, <1>7, <2>1, <2>3, <2>4 DEF TimeTravel!FoldsExactly
  <2>6. /\ replays' \in Seq(ReplayRecords) /\ Len(replays') = Len(replays) /\ replays'[i] = r
        /\ \A j \in 1 .. Len(replays') : TimeTravel!FoldsExactly(replays'[j])
    <3> HIDE DEF TravelInv, i
    <3> QED BY <1>2, <2>2, <2>4, <2>5, ReplayStep
  <2>7. /\ call'.replay = i /\ call'.index = call.index /\ call'.stage = "folding"
        /\ call' \in [replay : Nat, index : TimeTravel!Positions \cup {TimeTravel!None},
                      base : TimeTravel!Positions, stage : {"none", "at", "importing", "folding"}]
    BY <1>4, <1>7
  <2>8. TimeTravel!TypeOK'
    BY <1>1, <2>6, <2>7 DEF TimeTravel!TypeOK
  <2>9. TimeTravel!CallInv'
    BY <1>2, <2>1, <2>4, <2>6, <2>7 DEF TimeTravel!CallInv, TimeTravel!Self
  <2>10. TimeTravel!RunnerInv' /\ TimeTravel!ShownInv'
    <3>1. call' # TimeTravel!NoCall
      BY <2>7, <1>5
    <3> HIDE DEF TravelInv
    <3> QED BY <3>1, <1>1, <1>7, <2>7, GoesOn
  <2> QED BY <2>6, <2>8, <2>9, <2>10
<1> QED BY <1>6, <1>7 DEF TimeTravel!Imported, TimeTravel!Self

\* Operations are applied up to the stop, which is not beyond the index.
LEMMA TravelFold ==
    ASSUME TravelInv, TimeTravel!Fold PROVE TravelInv'
<1> USE DEF TravelInv, TimeTravel!ReplayInv
<1> DEFINE i == call.replay
           s == replays[i]
           stop == TimeTravel!Stop(s, call.index)
           folded == s.engine.ops \cup (s.position + 1 .. stop)
           new == stop # s.position /\ stop % Stride = 0 /\ stop \notin DOMAIN s.checkpoints
           kept == IF new THEN TimeTravel!With(s.checkpoints, stop, folded) ELSE s.checkpoints
           known == IF new THEN s.states ELSE TimeTravel!With(s.states, stop, folded)
           r == [s EXCEPT !.engine.ops = folded, !.position = stop,
                          !.checkpoints = kept, !.states = known]
<1>1. call.stage = "folding" /\ call # TimeTravel!NoCall /\ UNCHANGED <<current, runner, slider>>
  BY DEF TimeTravel!Fold, TimeTravel!NoCall
<1>2. /\ i \in 1 .. Len(replays) /\ call.index \in TimeTravel!Positions
      /\ s.engine.live => s.position <= call.index
  BY <1>1 DEF TimeTravel!CallInv, TimeTravel!Self
<1>3. s \in ReplayRecords /\ TimeTravel!FoldsExactly(s)
  BY <1>2
<1>4. call \in [replay : Nat, index : TimeTravel!Positions \cup {TimeTravel!None},
                base : TimeTravel!Positions, stage : {"none", "at", "importing", "folding"}]
  BY DEF TimeTravel!TypeOK
<1>5. 0 \in TimeTravel!Positions /\ TimeTravel!NoCall.index = TimeTravel!None
      /\ TimeTravel!NoCall.stage = "none" /\ TimeTravel!NoCall.base = 0 /\ TimeTravel!NoCall.replay = 0
  BY ReplayAssumption DEF TimeTravel!Positions, TimeTravel!NoCall
<1>6. CASE ~s.engine.live
  <2>1. TimeTravel!Reject /\ replays' = replays
    BY <1>6 DEF TimeTravel!Fold, TimeTravel!Self
  <2>2. /\ TimeTravel!RunnerInv' /\ TimeTravel!ShownInv' /\ TimeTravel!CallInv'
        /\ call' = TimeTravel!NoCall
    <3> HIDE DEF TravelInv
    <3> QED BY <1>1, <2>1, Answered
  <2>3. TimeTravel!TypeOK'
    BY <1>1, <1>5, <2>1, <2>2 DEF TimeTravel!TypeOK, TimeTravel!NoCall
  <2> QED BY <2>1, <2>2, <2>3
<1>7. CASE s.engine.live
  <2>1. ~s.closed /\ s.position \in TimeTravel!Positions /\ s.engine.ops = 1 .. s.position
    BY <1>3, <1>7 DEF TimeTravel!FoldsExactly
  <2>2. /\ s.position <= stop /\ stop <= call.index /\ stop \in TimeTravel!Positions
        /\ stop = call.index \/ new
    <3> DEFINE S == {call.index} \cup {p \in s.position + 1 .. call.index :
                                          p % Stride = 0 /\ p \notin DOMAIN s.checkpoints}
    <3>1. S \subseteq Nat /\ S # {} /\ \A p \in S : s.position <= p /\ p <= call.index
      <4>1. \A p \in S : p = call.index \/ p \in s.position + 1 .. call.index
        OBVIOUS
      <4>2. call.index \in S /\ call.index \in Nat /\ s.position \in Nat /\ s.position <= call.index
        BY <1>2, <1>7, <2>1, ReplayAssumption DEF TimeTravel!Positions
      <4> HIDE DEF S
      <4>3. \A p \in S : p \in Nat /\ s.position <= p /\ p <= call.index
        BY <4>1, <4>2
      <4> QED BY <4>2, <4>3
    <3>2. \E p \in S : \A q \in S : p <= q
      BY <3>1, Least
    <3>3. stop \in S
      BY <3>2 DEF TimeTravel!Stop, TimeTravel!Min
    <3>4. stop = call.index \/ new
      <4> SUFFICES ASSUME stop # call.index PROVE new
        OBVIOUS
      <4>1. /\ stop \in s.position + 1 .. call.index
            /\ stop % Stride = 0 /\ stop \notin DOMAIN s.checkpoints
        BY <3>3
      <4>2. stop # s.position
        <5> HIDE DEF stop
        <5> QED BY <4>1, <2>1, ReplayAssumption DEF TimeTravel!Positions
      <4> QED BY <4>1, <4>2
    <3> HIDE DEF S, new
    <3>5. stop \in Nat /\ s.position <= stop /\ stop <= call.index
      BY <3>1, <3>3
    <3> HIDE DEF stop
    <3> QED BY <1>2, <3>4, <3>5, ReplayAssumption DEF TimeTravel!Positions
  <2> HIDE DEF stop
  <2>3. folded = 1 .. stop
    BY <2>1, <2>2, ReplayAssumption DEF TimeTravel!Positions
  <2>4. /\ replays' = [replays EXCEPT ![i] = r]
        /\ IF new THEN UNCHANGED <<call, shown, error>> ELSE TimeTravel!Resolve(folded)
    BY <1>7 DEF TimeTravel!Fold, TimeTravel!Self, stop
  <2> HIDE DEF folded, new
  <2>5. /\ kept \in Maps /\ TimeTravel!IsFold(kept) /\ DOMAIN s.checkpoints \subseteq DOMAIN kept
        /\ known \in Maps /\ TimeTravel!IsFold(known)
    <3>1. /\ s.checkpoints \in Maps /\ TimeTravel!IsFold(s.checkpoints)
          /\ s.states \in Maps /\ TimeTravel!IsFold(s.states)
      BY <1>3 DEF ReplayRecords, TimeTravel!FoldsExactly
    <3> DEFINE more == TimeTravel!With(s.checkpoints, stop, folded)
               grown == TimeTravel!With(s.states, stop, folded)
    <3>2. more \in Maps /\ TimeTravel!IsFold(more) /\ DOMAIN more = DOMAIN s.checkpoints \cup {stop}
      BY <2>2, <2>3, <3>1, WithFacts
    <3>3. grown \in Maps /\ TimeTravel!IsFold(grown)
      BY <2>2, <2>3, <3>1, WithFacts
    <3> HIDE DEF more, grown
    <3>4. kept = (IF new THEN more ELSE s.checkpoints) /\ known = IF new THEN s.states ELSE grown
      BY DEF more, grown
    <3> QED BY <3>1, <3>2, <3>3, <3>4
  <2> HIDE DEF kept, known
  <2>6. /\ r \in ReplayRecords /\ r.checkpoints = kept /\ r.states = known
        /\ r.position = stop /\ r.closed = s.closed /\ r.engine = [live |-> TRUE, ops |-> folded]
    <3>1. stop \in Int /\ folded \in SUBSET Int
      BY <2>2, <2>3, ReplayAssumption DEF TimeTravel!Positions
    <3> DEFINE e == [live |-> TRUE, ops |-> folded]
               o == [s EXCEPT !.engine.ops = folded]
    <3>2. o.engine = e /\ o \in ReplayRecords /\ o.closed = s.closed
      BY <1>3, <1>7, <3>1 DEF ReplayRecords
    <3>3. r = [o EXCEPT !.position = stop, !.checkpoints = kept, !.states = known]
      BY <1>3 DEF ReplayRecords
    <3> HIDE DEF r, o
    <3> QED BY <2>5, <3>1, <3>2, <3>3 DEF ReplayRecords
  <2> HIDE DEF r
  <2>7. TimeTravel!FoldsExactly(r)
    BY <1>3, <2>1, <2>2, <2>3, <2>5, <2>6 DEF TimeTravel!FoldsExactly
  <2>8. /\ replays' \in Seq(ReplayRecords) /\ Len(replays') = Len(replays) /\ replays'[i] = r
        /\ \A j \in 1 .. Len(replays') : TimeTravel!FoldsExactly(replays'[j])
    <3> HIDE DEF TravelInv, i
    <3> QED BY <1>2, <2>4, <2>6, <2>7, ReplayStep
  <2>9. CASE new
    <3>1. UNCHANGED <<call, shown, error>>
      BY <2>4, <2>9
    <3>2. TimeTravel!TypeOK'
      BY <1>1, <2>8, <3>1 DEF TimeTravel!TypeOK
    <3>3. TimeTravel!CallInv'
      BY <1>1, <1>2, <2>2, <2>6, <2>8, <3>1 DEF TimeTravel!CallInv, TimeTravel!Self
    <3>4. TimeTravel!RunnerInv' /\ TimeTravel!ShownInv'
      <4> HIDE DEF TravelInv
      <4> QED BY <1>1, <3>1, GoesOn
    <3> QED BY <2>8, <3>2, <3>3, <3>4
  <2>10. CASE ~new
    <3>1. TimeTravel!Resolve(1 .. stop)
      BY <2>3, <2>4, <2>10
    <3>2. stop = call.index
      BY <2>2, <2>10
    <3>3. /\ TimeTravel!RunnerInv' /\ TimeTravel!ShownInv' /\ TimeTravel!CallInv'
          /\ call' = TimeTravel!NoCall
      <4> HIDE DEF TravelInv
      <4> QED BY <1>1, <3>1, <3>2, Answered
    <3>4. TimeTravel!TypeOK'
      BY <1>1, <1>5, <2>8, <3>3 DEF TimeTravel!TypeOK, TimeTravel!NoCall
    <3> QED BY <2>8, <3>3, <3>4
  <2> QED BY <2>9, <2>10
<1> QED BY <1>6, <1>7

-----------------------------------------------------------------------------
(* Replay: what the panel shows.                                           *)

LEMMA TravelStep ==
    ASSUME TravelInv, TimeTravel!Next PROVE TravelInv'
<1> QED BY TravelOpened, TravelPanel, TravelReopen, TravelAt, TravelImported, TravelFold DEF TimeTravel!Next

\* A state shown for a prefix of the log is the fold of exactly that prefix,
\* however often the panel was closed and the slider moved while the replay
\* waited, and the panel rests at the slider's prefix (at() in replay.ts,
\* requestAt() in document-tools.tsx).
THEOREM ReplayIsExactHolds == Spec => []ReplayIsExact
<1> DEFINE I == part = "Replay" => TravelInv
<1>1. Init => I
  BY TravelInit DEF Init
<1>2. ASSUME I, [Next]_vars PROVE I'
  <2> SUFFICES ASSUME part' = "Replay" PROVE TravelInv'
    OBVIOUS
  <2>1. CASE UNCHANGED vars
    <3>1. part = "Replay" /\ UNCHANGED travelVars
      BY <2>1 DEF vars
    <3> QED BY <3>1, <1>2
      DEF travelVars, TravelInv, TimeTravel!ReplayInv, TimeTravel!TypeOK, TimeTravel!CallInv,
          TimeTravel!Self, TimeTravel!RunnerInv, TimeTravel!ShownInv
  <2>2. CASE Next
    <3>1. part = "Replay" /\ TimeTravel!Next
      BY <2>2 DEF Next
    <3> QED BY <3>1, <1>2, TravelStep
  <2> QED BY <1>2, <2>1, <2>2
<1>3. I => ReplayIsExact
  <2> SUFFICES ASSUME TravelInv PROVE TimeTravel!ReplayExact
    BY DEF ReplayIsExact
  <2>1. TimeTravel!RunnerInv /\ TimeTravel!ShownInv
    BY DEF TravelInv, TimeTravel!ReplayInv
  <2> QED BY <2>1 DEF TimeTravel!RunnerInv, TimeTravel!ShownInv, TimeTravel!ReplayExact
<1> QED BY <1>1, <1>2, <1>3, PTL DEF Spec

-----------------------------------------------------------------------------
(* DocumentList.                                                           *)

\* What a sequence is.
LEMMA SeqFacts ==
    ASSUME NEW s, Documents!IsSeq(s)
    PROVE  Len(s) \in Nat /\ DOMAIN s = 1 .. Len(s) /\ s = [k \in 1 .. Len(s) |-> s[k]]
BY DEF Documents!IsSeq

LEMMA SeqByParts ==
    ASSUME NEW n \in Nat, NEW s, s = [k \in 1 .. n |-> s[k]]
    PROVE  Documents!IsSeq(s) /\ Len(s) = n
<1> DEFINE S == {s[k] : k \in DOMAIN s}
<1>1. DOMAIN s = 1 .. n
  OBVIOUS
<1>2. s \in [1 .. n -> S]
  BY <1>1
<1>3. s \in Seq(S) /\ Len(s) = n
  BY <1>2
<1> QED BY <1>3 DEF Documents!IsSeq

LEMMA SmallerOfTwo ==
    ASSUME NEW a \in Int, NEW b \in Int
    PROVE  Documents!Min({a, b}) = IF a <= b THEN a ELSE b
<1>1. \A x \in {a, b} : (\A y \in {a, b} : x <= y) => x = (IF a <= b THEN a ELSE b)
  OBVIOUS
<1>2. \E x \in {a, b} : \A y \in {a, b} : x <= y
  <2>1. CASE a <= b
    BY <2>1
  <2>2. CASE ~(a <= b)
    BY <2>2
  <2> QED BY <2>1, <2>2
<1> QED BY <1>1, <1>2 DEF Documents!Min

\* A part of a sequence, as far as the sequence goes.
LEMMA SliceFacts ==
    ASSUME NEW s, Documents!IsSeq(s), NEW a \in Nat \ {0}, NEW b \in Nat, NEW n \in Nat,
           n = IF b <= Len(s) THEN b ELSE Len(s)
    PROVE  LET t == Documents!Slice(s, a, b) IN
           /\ Documents!IsSeq(t)
           /\ Len(t) = IF a <= n THEN n - a + 1 ELSE 0
           /\ \A k \in 1 .. Len(t) : t[k] = s[a + k - 1]
<1>1. PICK S : S = {s[k] : k \in DOMAIN s}
  OBVIOUS
<1>2. s \in Seq(S) /\ Len(s) \in Nat
  BY <1>1 DEF Documents!IsSeq
<1>3. Documents!Min({b, Len(s)}) = n
  BY <1>2, SmallerOfTwo
<1>4. PICK t : t = SubSeq(s, a, n)
  OBVIOUS
<1>5. Documents!Slice(s, a, b) = t
  BY <1>3, <1>4 DEF Documents!Slice
<1>6. PICK l : l = IF a <= n THEN n - a + 1 ELSE 0
  OBVIOUS
<1>7. l \in Nat /\ n <= Len(s)
  BY <1>2, <1>6
<1>8. t = [k \in 1 .. l |-> s[a + k - 1]]
  BY <1>2, <1>4, <1>6, <1>7
<1>9. t = [k \in 1 .. l |-> t[k]] /\ \A k \in 1 .. l : t[k] = s[a + k - 1]
  BY <1>8
<1>10. Documents!IsSeq(t) /\ Len(t) = l
  BY <1>7, <1>9, SeqByParts
<1> QED BY <1>5, <1>6, <1>9, <1>10

\* One sequence after another.
IsJoin(w, u, v) ==
    /\ Documents!IsSeq(w) /\ Len(w) = Len(u) + Len(v)
    /\ \A k \in 1 .. Len(w) : w[k] = IF k <= Len(u) THEN u[k] ELSE v[k - Len(u)]

LEMMA MembersMakeSeq ==
    ASSUME NEW S, NEW s \in Seq(S)
    PROVE  Documents!IsSeq(s)
<1>1. Len(s) \in Nat /\ s = [k \in 1 .. Len(s) |-> s[k]]
  OBVIOUS
<1> QED BY <1>1, SeqByParts

LEMMA ConcatFacts ==
    ASSUME NEW u, Documents!IsSeq(u), NEW v, Documents!IsSeq(v)
    PROVE  IsJoin(u \o v, u, v)
<1>1. PICK U : U = {u[k] : k \in DOMAIN u} \cup {v[k] : k \in DOMAIN v}
  OBVIOUS
<1>2. u \in Seq(U) /\ v \in Seq(U)
  BY <1>1 DEF Documents!IsSeq
<1>3. PICK w : w = u \o v
  OBVIOUS
<1>4. /\ w \in Seq(U) /\ Len(w) = Len(u) + Len(v)
      /\ \A k \in 1 .. Len(w) : w[k] = IF k <= Len(u) THEN u[k] ELSE v[k - Len(u)]
  BY <1>2, <1>3
<1>5. Documents!IsSeq(w)
  BY <1>4, MembersMakeSeq
<1> QED BY <1>3, <1>4, <1>5 DEF IsJoin

\* Two parts that meet make one.
LEMMA SlicesMeet ==
    ASSUME NEW s, Documents!IsSeq(s), NEW m \in Nat, NEW upto \in Nat, m <= Len(s), m <= upto,
           NEW u, u = Documents!Slice(s, 1, m),
           NEW from, from = m + 1, NEW v, v = Documents!Slice(s, from, upto),
           NEW w, IsJoin(w, u, v)
    PROVE  /\ Documents!IsSeq(w) /\ w = Documents!Slice(s, 1, Len(w))
           /\ Len(w) = IF upto <= Len(s) THEN upto ELSE Len(s)
<1>1. Len(s) \in Nat
  BY SeqFacts
<1>2. PICK n : n = IF upto <= Len(s) THEN upto ELSE Len(s)
  OBVIOUS
<1>3. n \in Nat /\ m <= n /\ n <= Len(s)
  BY <1>1, <1>2
<1>4. /\ Documents!IsSeq(u) /\ Len(u) = m /\ \A k \in 1 .. m : u[k] = s[k]
  <2>1. /\ Documents!IsSeq(u) /\ Len(u) = IF 1 <= m THEN m - 1 + 1 ELSE 0
        /\ \A k \in 1 .. Len(u) : u[k] = s[1 + k - 1]
    BY <1>1, SliceFacts
  <2> QED BY <2>1
<1>5. /\ Documents!IsSeq(v) /\ Len(v) = n - m /\ \A k \in 1 .. n - m : v[k] = s[m + k]
  <2>1. /\ Documents!IsSeq(v) /\ Len(v) = IF from <= n THEN n - from + 1 ELSE 0
        /\ \A k \in 1 .. Len(v) : v[k] = s[from + k - 1]
    BY <1>2, <1>3, SliceFacts
  <2>2. Len(v) = n - m
    <3>1. CASE from <= n
      BY <1>3, <2>1, <3>1
    <3>2. CASE ~(from <= n)
      <4>1. n = m
        BY <1>3, <3>2
      <4> QED BY <1>3, <2>1, <3>2, <4>1
    <3> QED BY <3>1, <3>2
  <2>3. ASSUME NEW k \in 1 .. n - m PROVE v[k] = s[m + k]
    <3>1. from + k - 1 = m + k
      BY <1>3
    <3> QED BY <2>1, <2>2, <3>1
  <2> QED BY <2>1, <2>2, <2>3
<1>6. w = [k \in 1 .. n |-> s[k]]
  <2>1. /\ Documents!IsSeq(w) /\ Len(w) = Len(u) + Len(v)
        /\ \A k \in 1 .. Len(w) : w[k] = IF k <= Len(u) THEN u[k] ELSE v[k - Len(u)]
    BY DEF IsJoin
  <2>2. Len(w) = n
    <3>1. m + (n - m) = n
      BY <1>3
    <3> QED BY <1>4, <1>5, <2>1, <3>1
  <2>3. ASSUME NEW k \in 1 .. n PROVE w[k] = s[k]
    <3>1. CASE k <= m
      BY <1>3, <1>4, <2>1, <2>2, <3>1
    <3>2. CASE ~(k <= m)
      <4>1. PICK j : j = k - m
        OBVIOUS
      <4>2. j \in 1 .. n - m /\ m + j = k
        BY <1>3, <3>2, <4>1
      <4> QED BY <1>3, <1>4, <1>5, <2>1, <2>2, <3>2, <4>1, <4>2
    <3> QED BY <3>1, <3>2
  <2>4. w = [k \in 1 .. n |-> w[k]]
    BY <2>1, <2>2, SeqFacts
  <2> QED BY <2>3, <2>4
<1>7. Documents!IsSeq(w) /\ Len(w) = n
  BY <1>3, <1>6, SeqByParts
<1>8. w = Documents!Slice(s, 1, n)
  <2>1. PICK t : t = Documents!Slice(s, 1, n)
    OBVIOUS
  <2>2. /\ Documents!IsSeq(t) /\ Len(t) = IF 1 <= n THEN n - 1 + 1 ELSE 0
        /\ \A k \in 1 .. Len(t) : t[k] = s[1 + k - 1]
    BY <1>1, <1>3, <2>1, SliceFacts
  <2>3. Len(t) = n /\ \A k \in 1 .. n : t[k] = s[k]
    BY <1>3, <2>2
  <2>4. t = [k \in 1 .. n |-> t[k]]
    BY <2>2, <2>3, SeqFacts
  <2>5. t = [k \in 1 .. n |-> s[k]]
    BY <2>3, <2>4
  <2> QED BY <1>6, <2>1, <2>5
<1> QED BY <1>2, <1>7, <1>8

LEMMA ListCardinality == \A S : Documents!Cardinality(S) = Cardinality(S)
BY Zenon DEF Documents!Cardinality, Cardinality

\* Some elements of a sequence are a sequence.
LEMMA KeepIsSeq ==
    ASSUME NEW s, Documents!IsSeq(s), NEW good
    PROVE  Documents!IsSeq(Documents!Keep(s, good))
<1> DEFINE in == {i \in DOMAIN s : s[i] \in good}
           e(k) == s[CHOOSE i \in in : Documents!Cardinality({j \in in : j <= i}) = k]
           n == Documents!Cardinality(in)
           t == [k \in 1 .. n |-> e(k)]
<1>1. n \in Nat
  <2>1. Len(s) \in Int /\ 1 \in Int /\ DOMAIN s = 1 .. Len(s)
    BY SeqFacts
  <2>2. IsFiniteSet(1 .. Len(s))
    BY <2>1, FS_Interval
  <2>3. in \subseteq 1 .. Len(s)
    BY <2>1
  <2> HIDE DEF in
  <2>4. IsFiniteSet(in)
    BY <2>2, <2>3, FS_Subset
  <2>5. Cardinality(in) \in Nat
    BY <2>4, FS_CardinalityType
  <2> QED BY <2>5, ListCardinality DEF n
<1>2. Documents!Keep(s, good) = t
  BY DEF Documents!Keep
<1>3. t = [k \in 1 .. n |-> t[k]]
  OBVIOUS
<1> HIDE DEF t, n
<1> QED BY <1>1, <1>2, <1>3, SeqByParts

LEMMA ListedIsSeq ==
    ASSUME Documents!IsSeq(order), NEW sc
    PROVE  Documents!IsSeq(Documents!Listed(sc))
<1> DEFINE in == Documents!Keep(order, {d \in Docs : Documents!InScope(d, sc)})
           t == [i \in DOMAIN in |-> Documents!Row(in[i])]
<1>1. Documents!Listed(sc) = t
  BY DEF Documents!Listed
<1>2. Len(in) \in Nat /\ DOMAIN in = 1 .. Len(in)
  BY KeepIsSeq, SeqFacts
<1> HIDE DEF in
<1>3. t = [i \in 1 .. Len(in) |-> t[i]]
  BY <1>2
<1> HIDE DEF t
<1> QED BY <1>1, <1>2, <1>3, SeqByParts

\* A page that is read now is a part of the list (listDocuments).
LEMMA AnswerFacts ==
    ASSUME Documents!IsSeq(order), NEW sc, NEW offset \in Nat,
           NEW all, all = Documents!Listed(sc), NEW pg, pg = Documents!Answer(sc, offset)
    PROVE  /\ pg.at = "answered" /\ pg.offset = offset /\ pg.epoch = epoch
           /\ Documents!IsSeq(pg.rows)
           /\ pg.rows = Documents!Slice(all, offset + 1, offset + PageSize)
           /\ pg.more <=> Len(all) > offset + PageSize
<1>1. Documents!IsSeq(all) /\ Len(all) \in Nat
  BY ListedIsSeq, SeqFacts
<1>2. PICK from, upto : from = offset + 1 /\ upto = offset + PageSize
  OBVIOUS
<1>3. from \in Nat \ {0} /\ upto \in Nat /\ upto + 1 \in Nat /\ PageSize \in Nat
  BY <1>2, ListAssumption
<1>4. PICK limited : limited = Documents!Slice(all, from, upto + 1)
  OBVIOUS
<1>5. /\ pg.at = "answered" /\ pg.offset = offset /\ pg.epoch = epoch
      /\ pg.rows = Documents!Slice(limited, 1, PageSize)
      /\ pg.more = (Len(limited) > PageSize)
  <2>1. offset + PageSize + 1 = upto + 1
    BY <1>2
  <2> QED BY <1>2, <1>4, <2>1 DEF Documents!Answer
<1>6. PICK n : n = IF upto + 1 <= Len(all) THEN upto + 1 ELSE Len(all)
  OBVIOUS
<1>7. /\ Documents!IsSeq(limited) /\ Len(limited) = IF from <= n THEN n - from + 1 ELSE 0
      /\ \A k \in 1 .. Len(limited) : limited[k] = all[from + k - 1]
  BY <1>1, <1>3, <1>4, <1>6, SliceFacts
<1>8. Len(limited) \in Nat /\ (Len(limited) > PageSize <=> Len(all) > upto)
  BY <1>1, <1>2, <1>3, <1>6, <1>7
<1>9. PICK m, r : m = (IF PageSize <= Len(limited) THEN PageSize ELSE Len(limited)) /\ r = pg.rows
  OBVIOUS
<1>10. /\ Documents!IsSeq(r) /\ Len(r) = IF 1 <= m THEN m - 1 + 1 ELSE 0
       /\ \A k \in 1 .. Len(r) : r[k] = limited[1 + k - 1]
  BY <1>3, <1>5, <1>7, <1>8, <1>9, SliceFacts
<1>11. m \in Nat /\ m <= Len(limited) /\ Len(r) = m
  BY <1>3, <1>8, <1>9, <1>10
<1>12. \A k \in 1 .. m : r[k] = all[from + k - 1]
  <2> TAKE k \in 1 .. m
  <2>1. k \in 1 .. Len(limited) /\ 1 + k - 1 = k
    BY <1>8, <1>11
  <2> QED BY <1>7, <1>10, <1>11, <2>1
<1>13. PICK o, t : o = (IF upto <= Len(all) THEN upto ELSE Len(all)) /\ t = Documents!Slice(all, from, upto)
  OBVIOUS
<1>14. /\ Documents!IsSeq(t) /\ Len(t) = IF from <= o THEN o - from + 1 ELSE 0
       /\ \A k \in 1 .. Len(t) : t[k] = all[from + k - 1]
  BY <1>1, <1>3, <1>13, SliceFacts
<1>15. Len(t) = m
  BY <1>1, <1>2, <1>3, <1>6, <1>7, <1>9, <1>13, <1>14
<1>16. r = t
  BY <1>10, <1>11, <1>12, <1>14, <1>15, SeqFacts
<1>17. pg.rows = Documents!Slice(all, offset + 1, offset + PageSize)
  BY <1>2, <1>9, <1>13, <1>16
<1>18. pg.more <=> Len(all) > offset + PageSize
  <2>3. pg.more <=> Len(limited) > PageSize
    BY <1>5, Zenon
  <2>4. Len(all) > upto <=> Len(all) > offset + PageSize
    BY <1>2, Zenon
  <2> QED BY <1>8, <2>3, <2>4, Zenon
<1>19. Documents!IsSeq(pg.rows)
  BY <1>9, <1>10
<1> QED BY <1>5, <1>17, <1>18, <1>19

\* The list is what the server's state makes it.
LEMMA SameList ==
    ASSUME UNCHANGED <<order, kind, version, org>>, NEW sc, list'.scope = sc
    PROVE  Documents!All' = Documents!Listed(sc)
BY DEF Documents!All, Documents!Listed, Documents!Keep, Documents!InScope, Documents!Row,
       Documents!ListedRole, Documents!Cardinality

\* The first page of the list is the list as far as it goes.
LEMMA FirstPage ==
    ASSUME NEW all, Documents!IsSeq(all), NEW pg, NEW now \in Nat, pg.offset = 0, pg.epoch = now,
           Documents!PartOf(pg, all, now)
    PROVE  /\ pg.rows = Documents!Slice(all, 1, Len(pg.rows)) /\ Len(pg.rows) <= Len(all)
           /\ pg.more <=> Len(pg.rows) < Len(all)
<1>1. Len(all) \in Nat /\ PageSize \in Nat
  BY SeqFacts, ListAssumption
<1>2. pg.rows = Documents!Slice(all, 1, PageSize) /\ (pg.more <=> Len(all) > PageSize)
  <2>1. 0 + 1 = 1 /\ 0 + PageSize = PageSize
    BY <1>1
  <2> QED BY <2>1 DEF Documents!PartOf
<1>3. PICK n : n = IF PageSize <= Len(all) THEN PageSize ELSE Len(all)
  OBVIOUS
<1>4. n \in Nat /\ n <= Len(all)
  BY <1>1, <1>3
<1>5. Len(pg.rows) = n
  <2>1. Len(Documents!Slice(all, 1, PageSize)) = IF 1 <= n THEN n - 1 + 1 ELSE 0
    BY <1>1, <1>3, SliceFacts
  <2> QED BY <1>2, <1>4, <2>1
<1>6. Documents!Slice(all, 1, n) = Documents!Slice(all, 1, PageSize)
  <2>1. Documents!Min({PageSize, Len(all)}) = n /\ Documents!Min({n, Len(all)}) = n
    BY <1>1, <1>3, <1>4, SmallerOfTwo
  <2> QED BY <2>1 DEF Documents!Slice
<1> QED BY <1>1, <1>2, <1>3, <1>4, <1>5, <1>6

\* A page that is read now belongs to the list.
LEMMA AnswerIsPart ==
    ASSUME Documents!IsSeq(order), epoch \in Nat, NEW sc, NEW offset \in Nat,
           NEW all, all = Documents!Listed(sc), NEW pg, pg = Documents!Answer(sc, offset)
    PROVE  /\ Documents!PartOf(pg, all, epoch) /\ Documents!IsSeq(all) /\ Documents!IsSeq(pg.rows)
           /\ pg.at = "answered" /\ pg.offset = offset /\ pg.epoch = epoch
<1>1. /\ pg.at = "answered" /\ pg.offset = offset /\ pg.epoch = epoch
      /\ Documents!IsSeq(pg.rows)
      /\ pg.rows = Documents!Slice(all, offset + 1, offset + PageSize)
      /\ pg.more <=> Len(all) > offset + PageSize
  BY AnswerFacts
<1>2. epoch \in 0 .. epoch
  OBVIOUS
<1> QED BY <1>1, <1>2, ListedIsSeq DEF Documents!PartOf

\* Once the server's state has changed, no page was read under it.
LEMMA ServerChanges ==
    ASSUME Documents!ListInv, epoch' = epoch + 1, Documents!IsSeq(order'), load' = load,
           Documents!IsView(list'), Documents!IsSeq(list'.rows), list'.epochs = list.epochs,
           refresh' = refresh \/ refresh'.at = "asked"
    PROVE  Documents!ListInv'
<1>1. epoch \in Nat /\ list.epochs \subseteq 0 .. epoch /\ list.epochs # {}
  BY DEF Documents!ListInv, Documents!TypeOK
<1>2. epoch' \in Nat /\ 0 .. epoch \subseteq 0 .. epoch' /\ epoch' \notin 0 .. epoch
  BY <1>1
<1>3. ASSUME NEW pg, NEW all, NEW any, Documents!PartOf(pg, all, epoch)
      PROVE  Documents!PartOf(pg, any, epoch')
  <2>1. pg.epoch \in 0 .. epoch' /\ pg.epoch # epoch'
    BY <1>2, <1>3 DEF Documents!PartOf
  <2> QED BY <1>3, <2>1 DEF Documents!PartOf
<1>4. Documents!TypeOK'
  BY <1>1, <1>2 DEF Documents!ListInv, Documents!TypeOK
<1>5. Documents!PagesInv'
  <2>1. load'.at = "answered" => Documents!PartOf(load', Documents!All', epoch')
    BY <1>3 DEF Documents!ListInv, Documents!PagesInv
  <2>2. refresh'.at = "answered" => Documents!PartOf(refresh', Documents!All', epoch') /\ refresh'.offset = 0
    BY <1>3 DEF Documents!ListInv, Documents!PagesInv
  <2> QED BY <2>1, <2>2 DEF Documents!PagesInv
<1>6. Documents!RowsInv'
  <2>1. list'.epochs # {epoch'}
    BY <1>1, <1>2
  <2> QED BY <2>1 DEF Documents!RowsInv
<1> QED BY <1>4, <1>5, <1>6 DEF Documents!ListInv

\* A step that changes neither the server nor the list, and the pages only to
\* what is read now or to none.
LEMMA PagesChange ==
    ASSUME Documents!ListInv, UNCHANGED Documents!server, UNCHANGED list,
           \/ load' = load
           \/ load'.at = "none" /\ load'.offset \in Nat
           \/ load'.at = "asked" /\ load'.offset = Len(list.rows)
           \/ load.at = "asked" /\ load' = Documents!Answer(list.scope, load.offset),
           \/ refresh' = refresh \/ refresh'.at = "asked"
           \/ refresh' = Documents!Answer(list.scope, 0)
    PROVE  Documents!ListInv'
<1>1. PICK all : all = Documents!All
  OBVIOUS
<1>2. Documents!All' = all /\ all = Documents!Listed(list.scope) /\ epoch' = epoch
  BY <1>1, SameList DEF Documents!server, Documents!All
<1>3. /\ Documents!IsSeq(order) /\ epoch \in Nat /\ load.offset \in Nat
      /\ Len(list.rows) \in Nat
  BY SeqFacts DEF Documents!ListInv, Documents!TypeOK
<1>4. /\ load'.at = "answered" => Documents!PartOf(load', all, epoch)
      /\ load'.at \in {"none", "asked", "answered"} /\ load'.offset \in Nat
      /\ load'.at # "none" => load'.offset = Len(list.rows)
                              \/ (load.at # "none" /\ load'.offset = load.offset)
  <2>1. CASE load' = load
    BY <1>1, <2>1 DEF Documents!ListInv, Documents!PagesInv, Documents!TypeOK
  <2>2. CASE load.at = "asked" /\ load' = Documents!Answer(list.scope, load.offset)
    <3>1. /\ Documents!PartOf(load', all, epoch) /\ load'.at = "answered"
          /\ load'.offset = load.offset
      BY <1>2, <1>3, <2>2, AnswerIsPart
    <3> QED BY <1>3, <2>2, <3>1
  <2> QED BY <1>3, <2>1, <2>2
<1>5. /\ refresh'.at = "answered" => Documents!PartOf(refresh', all, epoch) /\ refresh'.offset = 0
      /\ refresh'.at \in {"none", "asked", "answered"}
  <2>1. CASE refresh' = refresh
    BY <1>1, <2>1 DEF Documents!ListInv, Documents!PagesInv, Documents!TypeOK
  <2>2. CASE refresh' = Documents!Answer(list.scope, 0)
    BY <1>2, <1>3, <2>2, AnswerIsPart
  <2> QED BY <2>1, <2>2
<1>6. Documents!TypeOK'
  BY <1>4, <1>5 DEF Documents!ListInv, Documents!TypeOK, Documents!server
<1>7. Documents!PagesInv'
  BY <1>2, <1>4, <1>5 DEF Documents!PagesInv
<1>8. Documents!RowsInv'
  <2>1. SUFFICES ASSUME ~list.raced, list.epochs = {epoch} PROVE Documents!Begins(list, load', all)
    BY <1>2 DEF Documents!RowsInv
  <2>2. Documents!Begins(list, load, all)
    BY <1>1, <2>1 DEF Documents!ListInv, Documents!RowsInv
  <2> QED BY <1>4, <2>2 DEF Documents!Begins
<1> QED BY <1>6, <1>7, <1>8 DEF Documents!ListInv

\* A link to the other collection (Go).
LEMMA GoStep ==
    ASSUME Documents!ListInv, NEW sc, Documents!Go(sc)
    PROVE  Documents!ListInv'
<1>1. PICK pg, all : pg = Documents!Answer(sc, 0) /\ all = Documents!Listed(sc)
  OBVIOUS
<1>2. /\ list' = Documents!Shown(sc, pg, FALSE) /\ load' = Documents!None /\ refresh' = Documents!None
      /\ UNCHANGED <<order, kind, version, org, epoch>>
  BY <1>1 DEF Documents!Go, Documents!server
<1>3. list'.scope = sc /\ list'.rows = pg.rows /\ list'.more = pg.more /\ list'.epochs = {pg.epoch}
  BY <1>2 DEF Documents!Shown
<1>4. Documents!All' = all
  BY <1>1, <1>2, <1>3, SameList
<1>5. Documents!IsSeq(order) /\ epoch \in Nat
  BY DEF Documents!ListInv, Documents!TypeOK
<1>6. /\ Documents!PartOf(pg, all, epoch) /\ Documents!IsSeq(all) /\ Documents!IsSeq(pg.rows)
      /\ pg.offset = 0 /\ pg.epoch = epoch
  BY <1>1, <1>5, AnswerIsPart
<1>7. /\ pg.rows = Documents!Slice(all, 1, Len(pg.rows)) /\ Len(pg.rows) <= Len(all)
      /\ pg.more <=> Len(pg.rows) < Len(all)
  BY <1>5, <1>6, FirstPage
<1>8. load'.at = "none" /\ load'.offset = 0 /\ refresh'.at = "none"
  BY <1>2 DEF Documents!None
<1>9. Documents!TypeOK'
  <2>1. {pg.epoch} \subseteq 0 .. epoch /\ {pg.epoch} # {} /\ 0 \in Nat
    BY <1>5, <1>6
  <2>2. Documents!IsView(list')
    BY <1>2 DEF Documents!Shown, Documents!IsView
  <2> QED BY <1>2, <1>3, <1>5, <1>6, <1>8, <2>1, <2>2 DEF Documents!TypeOK
<1>10. Documents!PagesInv'
  BY <1>8 DEF Documents!PagesInv
<1>11. Documents!RowsInv'
  BY <1>3, <1>4, <1>7, <1>8 DEF Documents!RowsInv, Documents!Begins
<1> QED BY <1>9, <1>10, <1>11 DEF Documents!ListInv

\* A fresh first page (Adopt).
LEMMA AdoptStep ==
    ASSUME Documents!ListInv, Documents!Adopt
    PROVE  Documents!ListInv'
<1>1. PICK pg, all : pg = refresh /\ all = Documents!All
  OBVIOUS
<1>2. /\ list' = Documents!Shown(list.scope, pg, load.at # "none") /\ load' = load
      /\ refresh' = Documents!None /\ UNCHANGED <<order, kind, version, org, epoch>>
      /\ refresh.at = "answered"
  BY <1>1 DEF Documents!Adopt, Documents!server
<1>3. /\ list'.scope = list.scope /\ list'.rows = pg.rows /\ list'.more = pg.more
      /\ list'.epochs = {pg.epoch} /\ (list'.raced <=> load.at # "none")
  BY <1>2 DEF Documents!Shown
<1>4. Documents!All' = all
  BY <1>1, <1>2, <1>3, SameList DEF Documents!All
<1>5. Documents!PartOf(pg, all, epoch) /\ pg.offset = 0
  BY <1>1, <1>2 DEF Documents!ListInv, Documents!PagesInv
<1>6. Documents!IsSeq(all) /\ Documents!IsSeq(order) /\ epoch \in Nat
  BY <1>1, ListedIsSeq DEF Documents!ListInv, Documents!TypeOK, Documents!All
<1>7. refresh'.at = "none"
  BY <1>2 DEF Documents!None
<1>8. Documents!TypeOK'
  <2>1. Documents!IsSeq(pg.rows) /\ pg.epoch \in 0 .. epoch
    BY <1>5 DEF Documents!PartOf
  <2>2. Documents!IsView(list')
    BY <1>2 DEF Documents!Shown, Documents!IsView
  <2> QED BY <1>2, <1>3, <1>7, <2>1, <2>2 DEF Documents!ListInv, Documents!TypeOK
<1>9. Documents!PagesInv'
  BY <1>1, <1>2, <1>4, <1>7 DEF Documents!ListInv, Documents!PagesInv
<1>10. Documents!RowsInv'
  <2>1. SUFFICES ASSUME load.at = "none", {pg.epoch} = {epoch}
                 PROVE  Documents!Begins(list', load, all)
    BY <1>2, <1>3, <1>4 DEF Documents!RowsInv
  <2>2. pg.epoch = epoch
    BY <2>1
  <2>3. /\ pg.rows = Documents!Slice(all, 1, Len(pg.rows)) /\ Len(pg.rows) <= Len(all)
        /\ pg.more <=> Len(pg.rows) < Len(all)
    BY <1>5, <1>6, <2>2, FirstPage
  <2> QED BY <1>3, <2>1, <2>3 DEF Documents!Begins
<1> QED BY <1>8, <1>9, <1>10 DEF Documents!ListInv

\* A further page (Loaded).
LEMMA LoadedStep ==
    ASSUME Documents!ListInv, Documents!Loaded
    PROVE  Documents!ListInv'
<1>1. PICK pg, all, u, w : pg = load /\ all = Documents!All /\ u = list.rows /\ w = u \o pg.rows
  OBVIOUS
<1>2. /\ load' = Documents!None /\ load.at = "answered" /\ refresh' = refresh
      /\ UNCHANGED <<order, kind, version, org, epoch>>
  BY <1>1 DEF Documents!Loaded, Documents!server
<1>3. /\ list'.scope = list.scope /\ list'.rows = w /\ list'.more = pg.more
      /\ list'.epochs = list.epochs \cup {pg.epoch} /\ list'.raced = list.raced
      /\ Documents!IsView(list')
  <2>1. list' = [list EXCEPT !.rows = @ \o pg.rows, !.more = pg.more, !.epochs = @ \cup {pg.epoch}]
    BY <1>1 DEF Documents!Loaded
  <2> QED BY <1>1, <2>1 DEF Documents!ListInv, Documents!TypeOK, Documents!IsView
<1>4. Documents!All' = all
  BY <1>1, <1>2, <1>3, SameList DEF Documents!All
<1>5. Documents!PartOf(pg, all, epoch)
  BY <1>1, <1>2 DEF Documents!ListInv, Documents!PagesInv
<1>6. /\ Documents!IsSeq(all) /\ Documents!IsSeq(order) /\ epoch \in Nat
      /\ Documents!IsSeq(u) /\ Documents!IsSeq(w) /\ Len(u) \in Nat /\ PageSize \in Nat
      /\ IsJoin(w, u, pg.rows)
  <2>1. Documents!IsSeq(order) /\ epoch \in Nat /\ Documents!IsSeq(u) /\ Documents!IsSeq(pg.rows)
    BY <1>1, <1>5 DEF Documents!ListInv, Documents!TypeOK, Documents!PartOf
  <2>2. Documents!IsSeq(all)
    BY <1>1, <2>1, ListedIsSeq DEF Documents!All
  <2>3. IsJoin(w, u, pg.rows)
    BY <1>1, <2>1, ConcatFacts
  <2>4. Documents!IsSeq(w) /\ Len(u) \in Nat
    BY <2>1, <2>3, SeqFacts DEF IsJoin
  <2> QED BY <2>1, <2>2, <2>3, <2>4, ListAssumption
<1>7. load'.at = "none" /\ load'.offset = 0
  BY <1>2 DEF Documents!None
<1>8. Documents!TypeOK'
  <2>1. pg.epoch \in 0 .. epoch
    BY <1>5 DEF Documents!PartOf
  <2>2. list'.epochs \subseteq 0 .. epoch /\ list'.epochs # {}
    BY <1>3, <2>1 DEF Documents!ListInv, Documents!TypeOK
  <2>3. refresh.at \in {"none", "asked", "answered"}
    BY DEF Documents!ListInv, Documents!TypeOK
  <2> QED BY <1>2, <1>3, <1>6, <1>7, <2>2, <2>3 DEF Documents!TypeOK
<1>9. Documents!PagesInv'
  BY <1>1, <1>2, <1>4, <1>7 DEF Documents!ListInv, Documents!PagesInv
<1>10. Documents!RowsInv'
  <2>1. SUFFICES ASSUME ~list.raced, list.epochs \cup {pg.epoch} = {epoch}
                 PROVE  Documents!Begins(list', load', all)
    BY <1>2, <1>3, <1>4 DEF Documents!RowsInv
  <2>2. pg.epoch = epoch /\ list.epochs = {epoch}
    BY <2>1 DEF Documents!ListInv, Documents!TypeOK
  <2>3. PICK m : m = Len(u)
    OBVIOUS
  <2>4. /\ u = Documents!Slice(all, 1, m) /\ m <= Len(all) /\ pg.offset = m
    BY <1>1, <1>2, <2>1, <2>2, <2>3 DEF Documents!ListInv, Documents!RowsInv, Documents!Begins
  <2>5. pg.rows = Documents!Slice(all, m + 1, m + PageSize) /\ (pg.more <=> Len(all) > m + PageSize)
    BY <1>5, <2>2, <2>4 DEF Documents!PartOf
  <2>6. /\ w = Documents!Slice(all, 1, Len(w))
        /\ Len(w) = IF m + PageSize <= Len(all) THEN m + PageSize ELSE Len(all)
    <3>1. PICK from, upto, v : from = m + 1 /\ upto = m + PageSize /\ v = pg.rows
      OBVIOUS
    <3>2. IsJoin(w, u, v) /\ v = Documents!Slice(all, from, upto) /\ u = Documents!Slice(all, 1, m)
      BY <1>6, <2>4, <2>5, <3>1
    <3>3. Documents!IsSeq(all) /\ m \in Nat /\ PageSize \in Nat /\ m <= Len(all)
      BY <1>6, <2>3, <2>4
    <3>4. upto \in Nat /\ m <= upto
      BY <3>1, <3>3
    <3>5. /\ Documents!IsSeq(w) /\ w = Documents!Slice(all, 1, Len(w))
          /\ Len(w) = IF upto <= Len(all) THEN upto ELSE Len(all)
      BY <3>1, <3>2, <3>3, <3>4, SlicesMeet
    <3> QED BY <3>1, <3>5
  <2>7. Len(w) <= Len(all) /\ (pg.more <=> Len(w) < Len(all))
    <3>1. Len(all) \in Nat /\ m + PageSize \in Nat
      BY <1>6, <2>3, SeqFacts
    <3> QED BY <2>5, <2>6, <3>1
  <2> QED BY <1>3, <1>7, <2>6, <2>7 DEF Documents!Begins
<1> QED BY <1>8, <1>9, <1>10 DEF Documents!ListInv

\* The steps of others and the rename and removal that succeed.
LEMMA WithoutIsSeq ==
    ASSUME Documents!IsSeq(order), NEW d
    PROVE  Documents!IsSeq(Documents!Without(d)) /\ Documents!IsSeq(Documents!First(d))
<1>1. Documents!IsSeq(Documents!Without(d))
  BY KeepIsSeq DEF Documents!Without
<1>2. Documents!IsSeq(<<d>>)
  BY DEF Documents!IsSeq
<1> QED BY <1>1, <1>2, ConcatFacts DEF Documents!First, IsJoin

LEMMA OthersStep ==
    ASSUME Documents!ListInv, Documents!IsSeq(order'), epoch' = epoch + 1,
           UNCHANGED <<list, load, refresh>>
    PROVE  Documents!ListInv'
<1>1. Documents!IsView(list) /\ Documents!IsSeq(list.rows)
  BY DEF Documents!ListInv, Documents!TypeOK
<1> QED BY <1>1, ServerChanges

LEMMA RenameStep ==
    ASSUME Documents!ListInv, Documents!Rename
    PROVE  Documents!ListInv'
<1>1. /\ Documents!IsView(list) /\ Documents!IsSeq(list.rows) /\ Documents!IsSeq(order)
      /\ list' = list /\ load' = load
  BY DEF Documents!ListInv, Documents!TypeOK, Documents!Rename
<1>2. PICK d : d = dialog.doc
  OBVIOUS
<1>3. CASE Documents!Accepts(d)
  <2>1. order' = Documents!First(d) /\ epoch' = epoch + 1 /\ refresh'.at = "asked"
    BY <1>2, <1>3 DEF Documents!Rename, Documents!None
  <2>2. Documents!IsSeq(order')
    BY <1>1, <2>1, WithoutIsSeq
  <2> QED BY <1>1, <2>1, <2>2, ServerChanges
<1>4. CASE ~Documents!Accepts(d)
  <2>1. UNCHANGED <<order, kind, version, org, epoch, refresh>>
    BY <1>2, <1>4 DEF Documents!Rename
  <2> QED BY <1>1, <2>1, PagesChange DEF Documents!server
<1> QED BY <1>3, <1>4

LEMMA RemoveStep ==
    ASSUME Documents!ListInv, NEW i, Documents!RemoveDocument(i)
    PROVE  Documents!ListInv'
<1>1. PICK d, good : d = list.rows[i].id /\ good = {r \in Documents!Range(list.rows) : r.id # d}
  OBVIOUS
<1>2. /\ order' = Documents!Without(d) /\ epoch' = epoch + 1 /\ load' = load
      /\ refresh'.at = "asked" /\ list' = [list EXCEPT !.rows = Documents!Keep(@, good)]
  BY <1>1 DEF Documents!RemoveDocument, Documents!None
<1>3. Documents!IsSeq(order) /\ Documents!IsView(list) /\ Documents!IsSeq(list.rows)
  BY DEF Documents!ListInv, Documents!TypeOK
<1>4. PICK new : new = Documents!Keep(list.rows, good)
  OBVIOUS
<1>5. list'.rows = new /\ list'.epochs = list.epochs /\ Documents!IsView(list')
  BY <1>2, <1>3, <1>4 DEF Documents!IsView
<1>6. Documents!IsSeq(order') /\ Documents!IsSeq(new)
  BY <1>2, <1>3, <1>4, WithoutIsSeq, KeepIsSeq
<1> QED BY <1>2, <1>5, <1>6, ServerChanges

LEMMA ListStep ==
    ASSUME Documents!ListInv, Documents!Next
    PROVE  Documents!ListInv'
<1> USE DEF Documents!server
<1>1. Documents!IsSeq(order) /\ load.offset \in Nat
  BY DEF Documents!ListInv, Documents!TypeOK
<1>2. ASSUME NEW d, Documents!OtherSaves(d) PROVE Documents!ListInv'
  BY <1>1, <1>2, WithoutIsSeq, OthersStep DEF Documents!OtherSaves, Documents!Others
<1>3. ASSUME NEW d, Documents!OtherRenames(d) PROVE Documents!ListInv'
  BY <1>1, <1>3, WithoutIsSeq, OthersStep DEF Documents!OtherRenames, Documents!Others
<1>4. ASSUME NEW d, Documents!OtherRemoves(d) PROVE Documents!ListInv'
  BY <1>1, <1>4, WithoutIsSeq, OthersStep DEF Documents!OtherRemoves, Documents!Others
<1>5. ASSUME NEW d, NEW grant, Documents!OtherGrants(d, grant) PROVE Documents!ListInv'
  BY <1>1, <1>5, OthersStep DEF Documents!OtherGrants, Documents!Others
<1>6. ASSUME NEW o, Documents!ChooseOrg(o) PROVE Documents!ListInv'
  BY <1>1, <1>6, OthersStep DEF Documents!ChooseOrg, Documents!Others
<1>7. CASE Documents!LoadMore
  <2>1. /\ UNCHANGED Documents!server /\ UNCHANGED list /\ refresh' = refresh
        /\ load'.at = "asked" /\ load'.offset = Len(list.rows)
    BY <1>7 DEF Documents!LoadMore, Documents!Offset, Documents!None
  <2> QED BY <2>1, PagesChange
<1>8. CASE Documents!ServeLoad
  <2>1. /\ UNCHANGED Documents!server /\ UNCHANGED list /\ refresh' = refresh
        /\ load.at = "asked" /\ load' = Documents!Answer(list.scope, load.offset)
    BY <1>8 DEF Documents!ServeLoad
  <2> QED BY <2>1, PagesChange
<1>9. CASE Documents!LoadFails
  <2>1. /\ UNCHANGED Documents!server /\ UNCHANGED list /\ refresh' = refresh
        /\ load'.at = "none" /\ load'.offset = 0
    BY <1>9 DEF Documents!LoadFails, Documents!None
  <2> QED BY <2>1, PagesChange
<1>10. CASE Documents!Refresh
  <2>1. /\ UNCHANGED Documents!server /\ UNCHANGED list /\ load' = load /\ refresh'.at = "asked"
    BY <1>10 DEF Documents!Refresh, Documents!None
  <2> QED BY <2>1, PagesChange
<1>11. CASE Documents!ServeRefresh
  <2>1. /\ UNCHANGED Documents!server /\ UNCHANGED list /\ load' = load
        /\ refresh' = Documents!Answer(list.scope, 0)
    BY <1>11 DEF Documents!ServeRefresh
  <2> QED BY <2>1, PagesChange
<1>12. ASSUME NEW i, Documents!OpenRename(i) \/ Documents!SaveRename(i) \/ Documents!Cancel
       PROVE  Documents!ListInv'
  <2>1. UNCHANGED Documents!server /\ UNCHANGED <<list, load, refresh>>
    BY <1>12 DEF Documents!OpenRename, Documents!SaveRename, Documents!Cancel
  <2> QED BY <2>1, PagesChange
<1>13. Documents!Next <=>
          \/ \E d \in Documents!Range(order) :
              \/ Documents!OtherSaves(d) \/ Documents!OtherRenames(d) \/ Documents!OtherRemoves(d)
              \/ \E grant \in {"none", "VIEWER"} : Documents!OtherGrants(d, grant)
          \/ \E o \in {"none", "team"} : Documents!ChooseOrg(o)
          \/ \E sc \in Documents!Scopes : Documents!Go(sc)
          \/ Documents!LoadMore \/ Documents!ServeLoad \/ Documents!Loaded \/ Documents!LoadFails
          \/ Documents!Refresh \/ Documents!ServeRefresh \/ Documents!Adopt
          \/ \E i \in DOMAIN list.rows :
              Documents!OpenRename(i) \/ Documents!SaveRename(i) \/ Documents!RemoveDocument(i)
          \/ Documents!Cancel \/ Documents!Rename
  BY DEF Documents!Next
<1> QED BY <1>2, <1>3, <1>4, <1>5, <1>6, <1>7, <1>8, <1>9, <1>10, <1>11, <1>12, <1>13,
           GoStep, AdoptStep, LoadedStep, RenameStep, RemoveStep, Zenon

\* What the statement lists is what the policy allows.
LEMMA ListAgreesWithPolicy == Documents!ListFollowsPolicy
<1>1. ASSUME NEW d, NEW sc, Documents!InScope(d, sc)
      PROVE  Documents!ListedRole(d) = Documents!Resolve(d)
  BY <1>1 DEF Documents!InScope, Documents!ListedRole, Documents!Resolve
<1>2. ASSUME NEW d, kind[d].owner # "user"
      PROVE  Documents!Resolve(d) # "none" <=> Documents!InScope(d, "workspace") \/ Documents!InScope(d, "shared")
  BY <1>2 DEF Documents!InScope, Documents!Resolve
<1> QED BY <1>1, <1>2 DEF Documents!ListFollowsPolicy, Documents!Scopes

\* The page that is rendered first.
LEMMA DocsIsSeq == Documents!IsSeq(Documents!SetToSeq(Docs))
<1>1. PICK n : n = Documents!Cardinality(Docs)
  OBVIOUS
<1>2. n \in Nat /\ ExistsBijection(1 .. n, Docs)
  BY <1>1, ListAssumption, ListCardinality, FS_CardinalityType
<1>3. \E f \in [1 .. n -> Docs] : Documents!IsInjective(f)
  <2>1. PICK f \in [1 .. n -> Docs] : IsInjective(f)
    BY <1>2 DEF ExistsBijection, Bijection, Injection
  <2>2. Documents!IsInjective(f)
    BY <2>1, Zenon DEF IsInjective, Documents!IsInjective
  <2> QED BY <2>1, <2>2
<1>4. PICK s : s = Documents!SetToSeq(Docs)
  OBVIOUS
<1>5. s \in [1 .. n -> Docs]
  BY <1>1, <1>3, <1>4 DEF Documents!SetToSeq
<1>6. s = [k \in 1 .. n |-> s[k]]
  BY <1>5
<1> QED BY <1>2, <1>4, <1>6, SeqByParts

LEMMA ListInit == Documents!Init => Documents!ListInv
<1> SUFFICES ASSUME Documents!Init PROVE Documents!ListInv
  OBVIOUS
<1>1. PICK pg, all : pg = Documents!Answer("workspace", 0) /\ all = Documents!Listed("workspace")
  OBVIOUS
<1>2. /\ list = Documents!Shown("workspace", pg, FALSE) /\ load = Documents!None
      /\ refresh = Documents!None /\ epoch = 0 /\ order = Documents!SetToSeq(Docs)
  BY <1>1 DEF Documents!Init
<1>3. /\ list.scope = "workspace" /\ list.rows = pg.rows /\ list.more = pg.more
      /\ list.epochs = {pg.epoch} /\ Documents!IsView(list)
  BY <1>2 DEF Documents!Shown, Documents!IsView
<1>4. Documents!IsSeq(order) /\ epoch \in Nat /\ Documents!All = all
  BY <1>1, <1>2, <1>3, DocsIsSeq DEF Documents!All
<1>5. /\ Documents!PartOf(pg, all, epoch) /\ Documents!IsSeq(all) /\ Documents!IsSeq(pg.rows)
      /\ pg.offset = 0 /\ pg.epoch = epoch
  BY <1>1, <1>4, AnswerIsPart
<1>6. /\ pg.rows = Documents!Slice(all, 1, Len(pg.rows)) /\ Len(pg.rows) <= Len(all)
      /\ pg.more <=> Len(pg.rows) < Len(all)
  BY <1>4, <1>5, FirstPage
<1>7. load.at = "none" /\ load.offset = 0 /\ refresh.at = "none"
  BY <1>2 DEF Documents!None
<1>8. Documents!TypeOK
  <2>1. {pg.epoch} \subseteq 0 .. epoch /\ {pg.epoch} # {} /\ 0 \in Nat
    BY <1>2, <1>5
  <2> QED BY <1>3, <1>4, <1>5, <1>7, <2>1 DEF Documents!TypeOK
<1>9. Documents!PagesInv
  BY <1>7 DEF Documents!PagesInv
<1>10. Documents!RowsInv
  BY <1>3, <1>4, <1>6, <1>7 DEF Documents!RowsInv, Documents!Begins
<1> QED BY <1>8, <1>9, <1>10 DEF Documents!ListInv

\* Whatever others change, share and remove and whichever page is under way,
\* what is listed may be read in the role listed, and unless a page was on its
\* way when a fresh one was adopted, the rows of an unchanged server are its
\* first ones and end where the documents end (listAccessible, loadMore).
THEOREM ListIsRightHolds == Spec => []ListIsRight
<1> DEFINE I == part = "DocumentList" => Documents!ListInv
<1>1. Init => I
  <2>1. Init /\ part = "DocumentList" => Documents!Init
    BY Zenon DEF Init
  <2> QED BY <2>1, ListInit
<1>2. I /\ [Next]_vars => I'
  <2> SUFFICES ASSUME I, [Next]_vars, part' = "DocumentList" PROVE Documents!ListInv'
    OBVIOUS
  <2>1. CASE UNCHANGED vars
    <3>1. part = "DocumentList" /\ Documents!ListInv
      BY <2>1 DEF vars
    <3>2. UNCHANGED Documents!server /\ UNCHANGED <<list, load, refresh>>
      BY <2>1 DEF vars, documentsVars, Documents!server
    <3> QED BY <3>1, <3>2, PagesChange
  <2>2. CASE Next
    <3>1. part = "DocumentList" /\ Documents!Next
      BY <2>2 DEF Next
    <3> QED BY <3>1, ListStep
  <2> QED BY <2>1, <2>2
<1>3. I => ListIsRight
  <2>1. Documents!ListInv => Documents!ListIsWhole
    BY DEF Documents!ListInv, Documents!RowsInv, Documents!Begins, Documents!ListIsWhole, Documents!Prefix, Documents!All
  <2> QED BY <2>1, ListAgreesWithPolicy DEF ListIsRight
<1> QED BY <1>1, <1>2, <1>3, PTL DEF Spec
=============================================================================
