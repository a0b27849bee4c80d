----------------------------- MODULE SyncSession -----------------------------
(***************************************************************************)
(* The client's sync session with its durable outbox, on top of            *)
(* SyncTransport, against the gateway's join, catch-up, snapshot and       *)
(* ingestion paths (lib/sync/*.ts; ws/mod.rs).                             *)
(*                                                                         *)
(* One browser replica and one document.  Operations are numbers: 1..MaxOwn *)
(* are the replica's own, by counter; the others come from peers.  Handlers *)
(* that await are cut where they await; a step may then run after the      *)
(* connection it was started for is gone.                                  *)
(***************************************************************************)
EXTENDS SyncTransport, FiniteSetsExt

CONSTANTS
    MaxOwn, MaxPeer,   \* operations of this replica and of its peers
    MaxBatch,          \* MAX_BATCH
    MaxFlush,          \* flushes in progress at a time
    Calm               \* no commit while a join is served, no pruning during a catch-up

ASSUME SessionAssumption ==
    /\ MaxOwn \in Nat /\ MaxPeer \in Nat /\ MaxFlush \in Nat \ {0} /\ MaxBatch \in Nat \ {0}
    /\ Calm \in BOOLEAN

Own == 1 .. MaxOwn
Ops == 1 .. MaxOwn + MaxPeer

VARIABLES
    at, floor,              \* the store: sequence number of each op (0: not there); compaction floor
    have, dcur, covered,    \* worker: durable ops, durable cursor, own ops covered at it
    row, seen,              \* outbox: state of each own op's record; lastSeenCounter
    s                       \* what the session keeps in memory

store == <<at, floor>>
worker == <<have, dcur, covered>>
outbox == <<row, seen>>
vars == <<net, wire, gw, budget, store, worker, outbox, s>>

Last == Cardinality({o \in Ops : at[o] > 0})
Prefix(c) == {o \in Ops : at[o] > 0 /\ at[o] <= c}
Unacked == {n \in Own : row[n] \in {"pending", "sent"}}

Job(k, ops) == [k |-> k, ops |-> ops, begun |-> FALSE]

\* A new SyncSession after start(): recovery, then connect().
Fresh(cursor) ==
    [cursor |-> cursor, jobs |-> <<Job("recover", {}), Job("start", {})>>, broken |-> FALSE,
     inbound |-> <<>>, failed |-> FALSE, complete |-> FALSE, confirmed |-> FALSE,
     go |-> FALSE, flushes |-> {}, acks |-> {}, checks |-> FALSE,
     signal |-> None, imports |-> {}]

Init ==
    /\ TransportInit
    /\ at = [o \in Ops |-> 0] /\ floor = 0
    /\ have = {} /\ dcur = 0 /\ covered = {}
    /\ row = [n \in Own |-> "none"] /\ seen = 0
    /\ s = Fresh(0)

----------------------------------------------------------------------------
(* The store.                                                              *)

\* ingest_batch_in_tx: new operations get the next sequence numbers.
Ingested(ops) ==
    LET new == {o \in ops : at[o] = 0}
    IN  [o \in Ops |-> IF o \in new THEN Last + Cardinality({p \in new : p <= o}) ELSE at[o]]

\* Batches of a lost connection that the gateway still reads: a prefix.
Straggling(k) == UNION {c2s[i].ops : i \in {j \in 1 .. k : c2s[j].t = "client_ops"}}

Lose(status) ==
    /\ Teardown(status)
    /\ \E k \in 0 .. Len(c2s) :
          at' = Ingested(IF gw.state = "ready" THEN Straggling(k) ELSE {})

\* transport.reconnect() from a failed handler.
Reconnect == Lose("reconnecting") /\ UNCHANGED floor

\* A peer's operation is committed and fanned out to the joined session.
PeerCommits ==
    /\ Calm => ~gw.joining
    /\ Spend("peer")
    /\ \E o \in Ops \ Own :
          /\ at[o] = 0
          /\ at' = Ingested({o})
          /\ s2c' = IF gw.state \in {"syncing", "ready"}
                    THEN Append(s2c, Frame("peer_ops", {o}, None)) ELSE s2c
    /\ UNCHANGED <<net, c2s, gw, floor, worker, outbox, s>>

\* Compaction to a finalized snapshot's boundary.
Compacts ==
    /\ Calm => gw.stream = None
    /\ Spend("compact")
    /\ floor' \in floor + 1 .. Last
    /\ UNCHANGED <<net, wire, gw, at, worker, outbox, s>>

----------------------------------------------------------------------------
(* The gateway after authentication.                                       *)

\* handle_join reads the durable cursor (0 when the read fails) ...
GwJoin ==
    /\ Serves("join_document")
    /\ IF gw.state = "authenticated"
       THEN \E c \in {Last} \union (IF Calm THEN {} ELSE {0}) :
               gw' = [gw EXCEPT !.joining = TRUE, !.durable = c]
       ELSE UNCHANGED gw
    /\ UNCHANGED <<net, s2c, budget, store, worker, outbox, s>>

\* ... registers the session, accepts, and streams from that cursor.
GwRegister ==
    /\ gw.durable # None
    /\ gw' = [gw EXCEPT !.state = "syncing", !.stream = gw.durable, !.durable = None]
    /\ s2c' = Append(s2c, Plain("join_accepted"))
    /\ UNCHANGED <<net, c2s, budget, store, worker, outbox, s>>

\* sync_request: resync below the floor, catch-up otherwise.
GwSync ==
    /\ Serves("sync_request")
    /\ LET c == Head(c2s).c IN
       CASE gw.state \notin {"syncing", "ready"} -> UNCHANGED <<gw, s2c>>
         [] gw.state \in {"syncing", "ready"} /\ c < floor ->
               s2c' = Append(s2c, Frame("snapshot_resync_required", {}, floor)) /\ UNCHANGED gw
         [] OTHER -> gw' = [gw EXCEPT !.stream = c] /\ UNCHANGED s2c
    /\ UNCHANGED <<net, budget, store, worker, outbox, s>>

\* One page of stream_catchup; rows below the floor are pruned.  The page
\* that reaches the end is followed by sync_done.
GwPage ==
    /\ gw.stream # None
    /\ LET left == {at[o] : o \in {p \in Ops : at[p] > gw.stream /\ at[p] > floor}}
           done(q) == /\ s2c' = Append(q, Plain("sync_done"))
                      /\ gw' = [gw EXCEPT !.stream = None, !.joining = FALSE, !.state = "ready"]
       IN  \/ left = {} /\ done(s2c)
           \/ \E c \in left :
                 LET page == Frame("sync_batch", {o \in Ops : at[o] \in left /\ at[o] <= c}, c)
                 IN  IF c = Max(left) THEN done(Append(s2c, page))
                     ELSE /\ s2c' = Append(s2c, page)
                          /\ gw' = [gw EXCEPT !.stream = c]
    /\ UNCHANGED <<net, c2s, budget, store, worker, outbox, s>>

\* The page read fails: an error, and no sync_done.
GwPageFails ==
    /\ gw.stream # None
    /\ Spend("database")
    /\ s2c' = Append(s2c, Plain("database_unavailable"))
    /\ gw' = [gw EXCEPT !.stream = None, !.joining = FALSE]
    /\ UNCHANGED <<net, c2s, store, worker, outbox, s>>

GwFetch ==
    /\ Serves("fetch_snapshot")
    /\ s2c' = IF gw.state \in {"syncing", "ready"}
              THEN Append(s2c, Frame("snapshot_payload", {}, Head(c2s).c)) ELSE s2c
    /\ UNCHANGED <<net, gw, budget, store, worker, outbox, s>>

\* client_ops: legal in READY only; committed, then acked as a batch.
GwIngest ==
    /\ Serves("client_ops")
    /\ IF gw.state = "ready"
       THEN /\ at' = Ingested(Head(c2s).ops)
            /\ s2c' = Append(s2c, Frame("durable_ack", Head(c2s).ops, None))
       ELSE UNCHANGED <<at, s2c>>
    /\ UNCHANGED <<net, gw, budget, floor, worker, outbox, s>>

----------------------------------------------------------------------------
(* Local edits and the enqueue chain (enqueueTail): jobs and continuations *)
(* that wait for it run in order; `broken` says that the last one rejected. *)

\* The worker has logged an operation and notifies the session.
LocalOp ==
    /\ Spend("local")
    /\ \E n \in Own :
          /\ n \notin have /\ \A m \in 1 .. n - 1 : m \in have
          /\ have' = have \union {n}
          /\ s' = [s EXCEPT !.jobs = Append(@, Job("local", {n}))]
    /\ UNCHANGED <<net, wire, gw, store, dcur, covered, outbox>>

\* What recoverOutbox scans: logged operations above lastSeenCounter.
Unseen == {n \in Own \intersect have : n > seen}

Job1(k) == s.jobs # <<>> /\ Head(s.jobs).k = k
Rest == Tail(s.jobs)

\* Leaving a job: it resolves or rejects.  A resolved enqueueLocal schedules
\* a flush when the session is ready.
Leave(rejects) == [s EXCEPT !.jobs = Rest, !.broken = rejects, !.confirmed = FALSE,
                            !.go = @ \/ (~rejects /\ net.status = "ready")]

\* Mutant: a broken chain goes on without a recovery.
ScannedOnce(job) == IF job.k = "recover" THEN Unseen ELSE job.ops

\* recoverOutbox, or enqueueLocal behind it when the chain is broken.
Scanned(job) == IF job.k = "recover" THEN Unseen
                ELSE job.ops \union (IF s.broken THEN Unseen ELSE {})

StartJob ==
    /\ s.jobs # <<>> /\ Head(s.jobs).k \in {"recover", "local"} /\ ~Head(s.jobs).begun
    /\ LET job == Head(s.jobs)
           ops == Scanned(job)
       IN  s' = IF ops = {} THEN [s EXCEPT !.jobs = Rest, !.broken = FALSE]
                ELSE [s EXCEPT !.jobs = <<[job EXCEPT !.ops = ops, !.begun = TRUE]>> \o Rest,
                               !.confirmed = FALSE]
    /\ UNCHANGED <<net, wire, gw, budget, store, worker, outbox>>

\* addPending of the next operation: the row, unless there is one, and
\* lastSeenCounter in one transaction.
AddPending ==
    /\ s.jobs # <<>> /\ Head(s.jobs).begun
    /\ LET n == Min(Head(s.jobs).ops)
           ops == Head(s.jobs).ops \ {n}
       IN  /\ row' = [row EXCEPT ![n] = IF @ = "none" THEN "pending" ELSE @]
           /\ seen' = Max({seen, n})
           /\ s' = IF ops = {} THEN Leave(FALSE)
                   ELSE [s EXCEPT !.jobs = <<[Head(s.jobs) EXCEPT !.ops = ops]>> \o Rest]
    /\ UNCHANGED <<net, wire, gw, budget, store, worker>>

AddPendingFails ==
    /\ s.jobs # <<>> /\ Head(s.jobs).begun
    /\ Spend("write")
    /\ s' = Leave(TRUE)
    /\ UNCHANGED <<net, wire, gw, store, worker, outbox>>

\* start(): connect() whether or not the recovery succeeded.
Starts ==
    /\ Job1("start")
    /\ net' = Connected(net)
    /\ s' = [s EXCEPT !.jobs = Rest]
    /\ UNCHANGED <<wire, gw, budget, store, worker, outbox>>

\* joinWithSummary, on the socket there is by now; reconnect() if the
\* recovery before it failed.
Joins ==
    /\ Job1("join")
    /\ s' = [s EXCEPT !.jobs = Rest]
    /\ IF s.broken THEN Reconnect
       ELSE /\ net' = [net EXCEPT !.status = "joining"]
            /\ Send(Plain("join_document"))
            /\ UNCHANGED <<s2c, gw, store>>
    /\ UNCHANGED <<budget, worker, outbox>>

\* reportOutboxState(true): no row in any state.
OutboxEmpty == \A n \in Own : row[n] = "none"

\* onReady after the chain: the confirmation, then a flush.
Confirms ==
    /\ Job1("ready")
    /\ s' = IF s.broken THEN [s EXCEPT !.jobs = Rest]
            ELSE [s EXCEPT !.jobs = Rest, !.go = TRUE,
                           !.confirmed = OutboxEmpty]
    /\ IF s.broken THEN Reconnect ELSE UNCHANGED <<net, wire, gw, store>>
    /\ UNCHANGED <<budget, worker, outbox>>

----------------------------------------------------------------------------
(* Control frames.                                                         *)

Authenticated ==
    /\ Receive("authenticated")
    /\ net' = [net EXCEPT !.status = "authenticated"]
    /\ s' = [s EXCEPT !.failed = FALSE, !.complete = FALSE, !.confirmed = FALSE,
                      !.jobs = @ \o <<Job("recover", {}), Job("join", {})>>]
    /\ UNCHANGED <<c2s, gw, budget, store, worker, outbox>>

JoinAccepted ==
    /\ Receive("join_accepted")
    /\ net' = [net EXCEPT !.status = "syncing"]
    /\ Send(Frame("sync_request", {}, s.cursor))
    /\ UNCHANGED <<gw, budget, store, worker, outbox, s>>

\* sync_done: ready; onReady waits for the pages queued before it.
SyncDone ==
    /\ Receive("sync_done")
    /\ net' = [net EXCEPT !.status = "ready"]
    /\ s' = [s EXCEPT !.inbound = Append(@, Plain("ready"))]
    /\ UNCHANGED <<c2s, gw, budget, store, worker, outbox>>

\* Only a session that is still syncing retries a failed catch-up.
DatabaseUnavailable ==
    /\ IF net.status = "syncing"
       THEN Reconnect /\ s2c # <<>> /\ Head(s2c).t = "database_unavailable"
       ELSE Receive("database_unavailable") /\ UNCHANGED <<net, c2s, gw, store>>
    /\ UNCHANGED <<budget, worker, outbox, s>>

Drops ==
    /\ net.ws # "none"
    /\ Spend("drop")
    /\ Lose("reconnecting")
    /\ UNCHANGED <<floor, worker, outbox, s>>

\* The page is reloaded, or closed and opened again later.
Reload ==
    /\ Spend("reload")
    /\ at' = Ingested(IF gw.state = "ready" THEN Straggling(Len(c2s)) ELSE {})
    /\ Teardown("disconnected")
    /\ s' = Fresh(dcur)
    /\ UNCHANGED <<floor, worker, outbox>>

----------------------------------------------------------------------------
(* Inbound pages and broadcasts (inboundTail), applied in order.           *)

\* After a failure of this catch-up a page is skipped.
QueueRemote ==
    /\ s2c # <<>> /\ Head(s2c).t \in {"sync_batch", "peer_ops"}
    /\ s2c' = Tail(s2c)
    /\ s' = [s EXCEPT !.inbound = IF s.failed THEN @ ELSE Append(@, Head(s2c))]
    /\ UNCHANGED <<net, c2s, gw, budget, store, worker, outbox>>

Page1 == s.inbound # <<>> /\ Head(s.inbound).t # "ready"

\* advanceCursor never rewinds.
Advanced(c) == Max({s.cursor, c})

\* Mutant: the pages behind a failed one are applied.
FailedAlone == [s EXCEPT !.inbound = Tail(@)]

\* The failing page and, a microtask later, everything queued behind it.
CatchupFailed == [s EXCEPT !.inbound = <<>>, !.failed = TRUE]

\* applyRemote with its cursor and coverage in one worker transaction, then
\* advanceCursor.  Nothing queued is applied after a failure.
ApplyRemote ==
    /\ Page1 /\ ~s.failed
    /\ LET p == Head(s.inbound) IN
         /\ have' = have \union p.ops
         /\ dcur' = Max({dcur, p.c})
         /\ covered' = IF p.c = None THEN covered ELSE covered \union (p.ops \intersect Own)
         /\ s' = [s EXCEPT !.inbound = Tail(@), !.cursor = Advanced(p.c)]
    /\ UNCHANGED <<net, wire, gw, budget, store, outbox>>

ApplyFails ==
    /\ Page1 /\ ~s.failed
    /\ Spend("write")
    /\ s' = CatchupFailed
    /\ Reconnect
    /\ UNCHANGED <<worker, outbox>>

Acked == {n \in Own : row[n] = "acked"}

\* clearAcked: acked, and covered at the durable cursor.
Compactable == Acked \intersect covered

\* onReady: catch-up is complete; acked rows that the log covers are removed
\* (clearAcked) and their coverage is pruned.
CatchupComplete ==
    /\ s.inbound # <<>> /\ Head(s.inbound).t = "ready" /\ ~s.failed
    /\ LET gone == Compactable IN
         /\ row' = [n \in Own |-> IF n \in gone THEN "none" ELSE row[n]]
         /\ covered' = covered \ gone
    /\ s' = [s EXCEPT !.inbound = Tail(@), !.complete = TRUE,
                      !.jobs = Append(@, Job("ready", {}))]
    /\ UNCHANGED <<net, wire, gw, budget, store, have, dcur, seen>>

ClearAckedFails ==
    /\ s.inbound # <<>> /\ Head(s.inbound).t = "ready" /\ ~s.failed
    /\ Acked # {}
    /\ Spend("write")
    /\ s' = [s EXCEPT !.inbound = Tail(@), !.complete = TRUE]
    /\ Reconnect
    /\ UNCHANGED <<worker, outbox>>

----------------------------------------------------------------------------
(* Flush and acks.                                                         *)

\* The first unacked rows, in order.
Batch == {n \in Unacked : Cardinality({m \in Unacked : m < n}) < MaxBatch}

\* flushOutbox up to its read of the unacked rows.
FlushReads ==
    /\ s.go
    /\ Cardinality(s.flushes) < MaxFlush
    /\ s' = [s EXCEPT !.go = FALSE,
                      !.flushes = IF net.status = "ready" /\ s.complete /\ Unacked # {}
                                  THEN @ \union {[k |-> "send", ops |-> Batch]} ELSE @]
    /\ UNCHANGED <<net, wire, gw, budget, store, worker, outbox>>

\* sendClientOps on the socket of that moment; a closed one ends the flush.
FlushSends ==
    /\ \E f \in s.flushes :
          /\ f.k = "send"
          /\ s' = [s EXCEPT !.flushes = (@ \ {f}) \union
                      IF net.ws = "open" THEN {[f EXCEPT !.k = "mark"]} ELSE {}]
          /\ Send(Frame("client_ops", f.ops, None))
    /\ UNCHANGED <<net, s2c, gw, budget, store, worker, outbox>>

\* What markSent makes of a pending row.
SentState == "sent"

\* markSent: never back from durably_acked; a failed write is only reported.
MarkSent ==
    /\ \E f \in s.flushes :
          /\ f.k = "mark"
          /\ s' = [s EXCEPT !.flushes = @ \ {f}, !.confirmed = FALSE]
          /\ \/ row' = [n \in Own |-> IF n \in f.ops /\ row[n] = "pending" THEN SentState ELSE row[n]]
                /\ UNCHANGED budget
             \/ Spend("write") /\ UNCHANGED row
    /\ UNCHANGED <<net, wire, gw, store, worker, seen>>

DurableAck ==
    /\ Receive("durable_ack")
    /\ s' = [s EXCEPT !.acks = @ \union {Head(s2c).ops}]
    /\ UNCHANGED <<net, c2s, gw, budget, store, worker, outbox>>

\* Mutant: an ack does not flush what came meanwhile.
AckedOnly(ops) == [s EXCEPT !.acks = @ \ {ops}, !.confirmed = FALSE, !.checks = TRUE]

AfterAck(ops) == [s EXCEPT !.acks = @ \ {ops}, !.confirmed = FALSE, !.go = TRUE, !.checks = TRUE]

\* markDurablyAcked, then a flush of what came meanwhile, then the counts.
MarkAcked ==
    /\ \E ops \in s.acks :
          /\ row' = [n \in Own |-> IF n \in ops /\ row[n] # "none" THEN "acked" ELSE row[n]]
          /\ s' = AfterAck(ops)
    /\ UNCHANGED <<net, wire, gw, budget, store, worker, seen>>

MarkAckedFails ==
    /\ \E ops \in s.acks : s' = [s EXCEPT !.acks = @ \ {ops}]
    /\ Spend("write")
    /\ Reconnect
    /\ UNCHANGED <<worker, outbox>>

\* Nothing unacked is left: syncNow pulls the coverage of the acked rows.
SyncNow ==
    /\ s.checks /\ ~s.go
    /\ IF Unacked = {} /\ net.status = "ready"
       THEN /\ s' = [s EXCEPT !.checks = FALSE, !.failed = FALSE, !.complete = FALSE]
            /\ Send(Frame("sync_request", {}, s.cursor))
       ELSE /\ s' = [s EXCEPT !.checks = FALSE]
            /\ UNCHANGED c2s
    /\ UNCHANGED <<net, s2c, gw, budget, store, worker, outbox>>

----------------------------------------------------------------------------
(* Snapshot resync.                                                        *)

ResyncRequired ==
    /\ Receive("snapshot_resync_required")
    /\ s' = [s EXCEPT !.signal = Head(s2c).c]
    /\ Send(Frame("fetch_snapshot", {}, Head(s2c).c))
    /\ UNCHANGED <<net, gw, budget, store, worker, outbox>>

\* A payload is imported only against the outstanding signal.
SnapshotPayload ==
    /\ Receive("snapshot_payload")
    /\ LET c == Head(s2c).c IN
         /\ s' = [s EXCEPT !.signal = None,
                           !.imports = IF s.signal = c THEN @ \union {[k |-> "import", c |-> c]} ELSE @]
         /\ IF s.signal \notin {None, c} THEN Send(Frame("sync_request", {}, s.cursor))
            ELSE UNCHANGED c2s
    /\ UNCHANGED <<net, gw, budget, store, worker, outbox>>

\* importSnapshot keeps the log, so the unacked operations re-applied after
\* it are duplicates.
Imports ==
    /\ \E i \in s.imports :
          /\ i.k = "import"
          /\ have' = have \union Prefix(i.c)
          /\ s' = [s EXCEPT !.imports = (@ \ {i}) \union {[i EXCEPT !.k = "persist"]}]
    /\ UNCHANGED <<net, wire, gw, budget, store, dcur, covered, outbox>>

\* The cursor last, then catch-up from the boundary.
PersistCursor ==
    /\ \E i \in s.imports :
          /\ i.k = "persist"
          /\ dcur' = Max({dcur, i.c})
          /\ s' = [s EXCEPT !.imports = @ \ {i}, !.cursor = Advanced(i.c)]
          /\ Send(Frame("sync_request", {}, Advanced(i.c)))
    /\ UNCHANGED <<net, s2c, gw, budget, store, have, covered, outbox>>

ImportFails ==
    /\ \E i \in s.imports : s' = [s EXCEPT !.imports = @ \ {i}]
    /\ Spend("write")
    /\ Reconnect
    /\ UNCHANGED <<worker, outbox>>

----------------------------------------------------------------------------
GwNext == GwJoin \/ GwRegister \/ GwSync \/ GwPage \/ GwFetch \/ GwIngest

ChainNext == StartJob \/ AddPending \/ Starts \/ Joins \/ Confirms

FrameNext == Authenticated \/ JoinAccepted \/ SyncDone \/ DatabaseUnavailable \/ QueueRemote
             \/ DurableAck \/ ResyncRequired \/ SnapshotPayload

HandlerNext == ApplyRemote \/ CatchupComplete \/ FlushReads \/ FlushSends \/ MarkSent
               \/ MarkAcked \/ SyncNow \/ Imports \/ PersistCursor

FaultNext == AddPendingFails \/ Drops \/ Reload \/ ApplyFails \/ ClearAckedFails \/ MarkAckedFails
             \/ ImportFails \/ GwPageFails

TransportStep == TransportNext /\ UNCHANGED <<store, worker, outbox, s>>

Next == LocalOp \/ PeerCommits \/ Compacts
        \/ TransportStep \/ GwNext \/ ChainNext \/ FrameNext \/ HandlerNext \/ FaultNext

Spec == Init /\ [][Next]_vars

\* Whatever is in progress goes on; nobody has to edit and nothing has to fail.
Fairness == WF_vars(TransportStep /\ UNCHANGED budget) /\ WF_vars(GwNext) /\ WF_vars(ChainNext)
            /\ WF_vars(FrameNext) /\ WF_vars(HandlerNext)

FairSpec == Spec /\ Fairness

----------------------------------------------------------------------------
\* Whatever fails, an edit in the worker's log is on the server, or in the
\* outbox and sent again, or above lastSeenCounter and found by the next
\* recovery (enqueueLocal behind a broken chain; lastSeenCounter).
NothingLost ==
    \A n \in have \intersect Own : at[n] > 0 \/ n \in Unacked \/ n > seen

\* A record is acked only for an operation that the server has committed: it is
\* never sent again (markDurablyAcked, and markSent that may come after it).
AckedIsDurable == \A n \in Own : row[n] = "acked" => at[n] > 0

\* A record leaves the outbox only when the durable cursor covers it, so that
\* no reload has to fetch or send it again (clearAcked).
ClearedIsCovered == \A n \in Own : row[n] = "none" /\ n <= seen => at[n] \in 1 .. dcur

\* An edit in the log stays safe, from the outbox to the server and out of the
\* outbox again (pending-store.ts).
EditsAreKept == NothingLost /\ AckedIsDurable /\ ClearedIsCovered

\* The durable cursor never passes an operation the replica lacks, across
\* failed pages, reconnects, reloads and snapshot resyncs: what it passes is
\* never fetched again (queueRemote, performSnapshotResync).
GaplessCursor == Prefix(dcur) \subseteq have /\ s.cursor <= dcur

\* "All changes saved" is never shown while an edit is not on the server,
\* unless the edit's notification is still queued (serverConfirmed).
ConfirmedIsSaved ==
    s.confirmed => \A n \in have \intersect Own :
        at[n] > 0 \/ \E i \in DOMAIN s.jobs : n \in s.jobs[i].ops

\* Neither the cursor nor the status runs ahead of what is stored
\* (queueRemote, confirmOutbox).
NothingClaimedEarly == GaplessCursor /\ ConfirmedIsSaved

\* A session that stays ready empties its outbox of unacked edits once they
\* stop, also of one made while a batch was in flight or a catch-up running
\* (flushOutbox after an ack and at the end of onReady).
ReadySends == []<>(net.status = "ready" => Unacked = {})

\* Once nothing fails any more the session becomes ready and stays so.
Recovers == <>[](net.status = "ready")

----------------------------------------------------------------------------
(* The inductive invariants behind the safety properties; SyncSessionProofs *)
(* proves them for every value of the constants.                           *)

FrameTypes ==
    {"hello", "hello_ack", "authenticate", "authenticated", "join_document", "join_accepted",
     "sync_request", "sync_batch", "sync_done", "fetch_snapshot", "snapshot_resync_required",
     "snapshot_payload", "client_ops", "durable_ack", "peer_ops", "database_unavailable", "ready"}

FrameSet == [t : FrameTypes, ops : SUBSET Ops, c : {None} \union Nat]
JobSet == [k : {"recover", "start", "local", "join", "ready"}, ops : SUBSET Own, begun : BOOLEAN]
ConnSet == [state : {"none", "connected", "hello_done", "authenticated", "syncing", "ready"},
            stream : {None} \union Nat, joining : BOOLEAN, durable : {None} \union Nat]

SessionSet ==
    [cursor : Nat, jobs : Seq(JobSet), broken : BOOLEAN, inbound : Seq(FrameSet),
     failed : BOOLEAN, complete : BOOLEAN, confirmed : BOOLEAN, go : BOOLEAN,
     flushes : SUBSET [k : {"send", "mark"}, ops : SUBSET Own], acks : SUBSET SUBSET Ops,
     checks : BOOLEAN, signal : {None} \union Nat,
     imports : SUBSET [k : {"import", "persist"}, c : {None} \union Nat]]

\* Every variable that safety depends on has its shape.
TypeOK ==
    /\ at \in [Ops -> Nat] /\ floor \in Nat
    /\ have \subseteq Ops /\ dcur \in Nat /\ covered \subseteq Own
    /\ row \in [Own -> {"none", "pending", "sent", "acked"}] /\ seen \in Nat
    /\ c2s \in Seq(FrameSet) /\ s2c \in Seq(FrameSet)
    /\ gw \in ConnSet /\ s \in SessionSet

\* What the client uploads, and what the gateway sends: stored operations, a
\* page's at or below the cursor it names.
Uploads == {f \in FrameSet : f.ops \subseteq Own \intersect have}
Stored == {f \in FrameSet : \A o \in f.ops : at[o] > 0 /\ (f.c # None => at[o] <= f.c)}

\* Own operations come from the worker's log, which has them in order.
LogInv ==
    /\ \A n \in Own : at[n] > 0 \/ row[n] # "none" => n \in have
    /\ \A n \in have \intersect Own : \A m \in 1 .. n - 1 : m \in have

\* What is on its way was logged, or is stored.
WireInv ==
    /\ c2s \in Seq(Uploads) /\ s2c \in Seq(Stored) /\ s.inbound \in Seq(Stored)
    /\ \A f \in s.flushes : f.ops \subseteq have
    /\ \A ops \in s.acks : \A o \in ops : at[o] > 0
    /\ \A n \in covered : at[n] \in 1 .. dcur

\* A job that carries operations carries logged ones; only the first one runs.
JobInv ==
    \A i \in DOMAIN s.jobs :
        /\ s.jobs[i].ops \subseteq have
        /\ s.jobs[i].k # "local" /\ ~s.jobs[i].begun => s.jobs[i].ops = {}
        /\ s.jobs[i].begun => /\ i = 1 /\ s.jobs[i].k \in {"recover", "local"}
                              /\ s.jobs[i].ops # {} /\ ~s.confirmed

\* The next job reads the whole log above lastSeenCounter again.
Rescans == \/ s.broken /\ (s.jobs # <<>> => ~Head(s.jobs).begun)
           \/ Job1("recover") /\ ~Head(s.jobs).begun

\* Otherwise every logged operation above lastSeenCounter is carried by a job,
\* and no later than an operation that comes after it.
ChainInv ==
    Rescans \/ \A m \in Unseen :
        /\ \E i \in DOMAIN s.jobs : m \in s.jobs[i].ops
        /\ \A i \in DOMAIN s.jobs : \A n \in s.jobs[i].ops :
              m < n => \E j \in 1 .. i : m \in s.jobs[j].ops

SessionInv == TypeOK /\ LogInv /\ WireInv /\ JobInv /\ ChainInv /\ EditsAreKept /\ ConfirmedIsSaved

\* Every cursor and boundary anyone names is one the server has reached.
Below(q) == \A i \in DOMAIN q : q[i].c <= Last

Bounded ==
    /\ \A o \in Ops : at[o] <= Last
    /\ floor <= Last /\ dcur <= Last /\ s.signal <= Last
    /\ gw.stream <= Last /\ gw.durable <= Last
    /\ Below(c2s) /\ Below(s2c) /\ Below(s.inbound)
    /\ \A i \in s.imports : i.c <= Last

\* The replica holds o, or a queued page or broadcast brings it.
Queued(o) == o \in have \/ \E j \in DOMAIN s.inbound : o \in s.inbound[j].ops
Remote(f) == f.t \in {"sync_batch", "peer_ops"}
Coming(o, k) == Queued(o) \/ \E j \in 1 .. k : Remote(s2c[j]) /\ o \in s2c[j].ops

\* A queued page names a cursor up to which it, what is queued before it and the
\* replica are complete ...
InboundInv ==
    \A i \in DOMAIN s.inbound :
        /\ s.inbound[i].t \in {"sync_batch", "peer_ops", "ready"}
        /\ s.inbound[i].t = "ready" => s.inbound[i].ops = {}
        /\ s.inbound[i].t # "sync_batch" => s.inbound[i].c = None
        /\ \A o \in Prefix(s.inbound[i].c) :
              o \in have \/ \E j \in 1 .. i : o \in s.inbound[j].ops

\* ... and so does a page on its way.
PagesInv ==
    \A i \in DOMAIN s2c :
        /\ s2c[i].t = "peer_ops" => s2c[i].c = None
        /\ s2c[i].t = "sync_batch" => \A o \in Prefix(s2c[i].c) : Coming(o, i)

\* A catch-up starts from a durable cursor ...
RequestInv == \A i \in DOMAIN c2s : c2s[i].t = "sync_request" => c2s[i].c \in 0 .. dcur

\* ... and goes on from one that everything before it has reached; the one that
\* ends a join starts at the durable head and has nothing to send.
StreamInv ==
    /\ gw.durable # None =>
          gw.joining /\ gw.state = "authenticated" /\ \A o \in Ops : at[o] <= gw.durable
    /\ gw.stream # None => gw.state \in {"syncing", "ready"}
    /\ gw.stream # None /\ gw.joining => \A o \in Ops : at[o] <= gw.stream
    /\ gw.stream # None /\ ~gw.joining =>
          floor <= gw.stream /\ \A o \in Prefix(gw.stream) : Coming(o, Len(s2c))

\* After a failure nothing of the next connection is skipped: what it sends
\* comes behind `authenticated`, which ends the failure.
FailedInv ==
    s.failed =>
        /\ gw.state \in {"authenticated", "syncing", "ready"} =>
              \E j \in DOMAIN s2c : s2c[j].t = "authenticated"
        /\ \A i \in DOMAIN s2c : Remote(s2c[i]) => \E j \in 1 .. i : s2c[j].t = "authenticated"

CursorInv ==
    /\ GaplessCursor
    /\ \A i \in s.imports : i.k = "persist" => Prefix(i.c) \subseteq have

CatchupInv == Bounded /\ InboundInv /\ PagesInv /\ RequestInv /\ StreamInv /\ FailedInv /\ CursorInv
=============================================================================
