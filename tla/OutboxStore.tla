----------------------------- MODULE OutboxStore -----------------------------
(***************************************************************************)
(* The two IndexedDB databases a browser keeps for one account's document: *)
(* concord-crdt with the worker's operation log and sync cursor            *)
(* (worker/idb.ts), and concord-sync with the outbox (pending-store.ts).   *)
(* The first tab's namespace is <document>:user:<user>, a second tab's is  *)
(* that name followed by :replica:<id>, and the stores are shared.         *)
(*                                                                         *)
(* Compaction of an acknowledged row crosses the two databases in three    *)
(* transactions, and a page may be reloaded between any two of them.  The  *)
(* proof it relies on moved from a store of its own (version 2) onto the   *)
(* operation's log row (version 3).                                        *)
(***************************************************************************)
EXTENDS Integers, Sequences, SequencesExt, FiniteSets, FiniteSetsExt

CONSTANTS
    MaxOps,    \* bound on the operations typed in all tabs
    MaxBatch   \* MAX_BATCH of sync-session.ts

VARIABLES
    version,  \* the schema version of concord-crdt
    log,      \* its oplog: per namespace and counter coveredAtCursor, 0 for absent
    coverage, \* its version 2 store of proofs, in the same form
    cursor,   \* its syncState: per namespace the durable cursor
    rows,     \* the outbox, a record per operation: [tab, n, seq, state]
    seen,     \* the outbox's meta: per namespace the last counter recorded
    server,   \* the operations the server holds, in the order of its log
    session,  \* per tab the session that uses the stores, see Idle
    paged     \* the own operations a catch-up page brought back

vars == <<version, log, coverage, cursor, rows, seen, server, session, paged>>
crdtDb == <<version, log, coverage, cursor>>
outboxDb == <<rows, seen>>

Tabs == {"first", "second"}
Own(t) == {[tab |-> t, n |-> n] : n \in 1 .. MaxOps}
Op(r) == [tab |-> r.tab, n |-> r.n]
Row(op, seq, state) == [tab |-> op.tab, n |-> op.n, seq |-> seq, state |-> state]
Position(op) == IF op \in Range(server) THEN CHOOSE i \in DOMAIN server : server[i] = op ELSE 0

\* A session: the batch sent whose rows are still to be marked, the batches
\* the server was sent, the acks under way, and where clearAcked is.
Idle == [on |-> TRUE, toMark |-> {}, sent |-> {}, acks |-> {},
         clearing |-> "no", covered |-> {}]
Off == [Idle EXCEPT !.on = FALSE]
None == [t \in Tabs |-> [n \in 1 .. MaxOps |-> 0]]

\* A browser of version 2: the first tab typed k operations, the server holds
\* some, a page covered a prefix of those, and compaction is anywhere.
Init ==
    /\ version = 2 /\ session = [t \in Tabs |-> Off]
    /\ \E k \in 0 .. MaxOps : \E held \in 0 .. k : \E paid \in 0 .. held :
       \E removed \in SUBSET (1 .. paid) : \E acked \in SUBSET ((1 .. held) \ removed) :
           /\ log = None
           /\ coverage = [None EXCEPT !["first"] = [n \in 1 .. MaxOps |-> IF n <= paid /\ n \notin removed THEN paid ELSE 0]]
           /\ cursor = [first |-> paid, second |-> 0]
           /\ seen = [first |-> k, second |-> 0]
           /\ server = [n \in 1 .. held |-> [tab |-> "first", n |-> n]]
           /\ paged = {[tab |-> "first", n |-> n] : n \in 1 .. paid}
           /\ rows = {Row([tab |-> "first", n |-> n], n, IF n \in acked THEN "durably_acked" ELSE "sent") :
                         n \in (1 .. k) \ removed}

-----------------------------------------------------------------------------
(* concord-crdt.                                                           *)

\* onupgradeneeded: one versionchange transaction carries every proof over to
\* the log row and removes the old store.
Upgraded(old) == [t \in Tabs |-> [n \in 1 .. MaxOps |-> Max({log[t][n], old[t][n]})]]

Upgrade ==
    /\ version = 2 /\ version' = 3
    /\ log' = Upgraded(coverage) /\ coverage' = None
    /\ UNCHANGED <<cursor, outboxDb, server, session, paged>>

\* readCoveredOpIds: the rows whose proof is at or before the durable cursor.
\* Mutant: any acknowledged operation counts once there is a cursor.
CoveredByCursor(t, ids) == IF cursor[t] = 0 THEN {} ELSE ids
Covered(t, ids) == {op \in ids : log[t][op.n] # 0 /\ log[t][op.n] <= cursor[t]}

-----------------------------------------------------------------------------
(* concord-sync.                                                           *)

\* The range an index is read with: everything under "<namespace>:".  A
\* second tab's names continue the first one's.
InRange(t, r) == r.tab = t \/ t = "first"

\* unackedOps and ackedIds; an id read through another namespace's prefix is
\* not the key of any own record.
Unacked(t) == {r \in rows : InRange(t, r) /\ r.state # "durably_acked"}
AckedIds(t) == {Op(r) : r \in {r \in rows : r.tab = t /\ r.state = "durably_acked"}}

\* The first MaxBatch rows in the order of seq.
Oldest(unacked) == {r \in unacked : Cardinality({e \in unacked : e.seq < r.seq}) < MaxBatch}

\* transition: only the session's own keys are found, and a durable ack stays.
Transition(t, ids, state) ==
    {IF r.tab = t /\ Op(r) \in ids /\ r.state # "durably_acked" THEN [r EXCEPT !.state = state] ELSE r :
        r \in rows}

-----------------------------------------------------------------------------
(* A tab's session.                                                        *)

Open(t) ==
    /\ version = 3 /\ ~session[t].on /\ session' = [session EXCEPT ![t] = Idle]
    /\ t = "second" => session["first"].on
    /\ UNCHANGED <<crdtDb, outboxDb, server, paged>>

\* The page is reloaded or closed; only what a transaction wrote is left.
Reload(t) ==
    /\ session[t].on /\ session' = [session EXCEPT ![t] = Off]
    /\ UNCHANGED <<crdtDb, outboxDb, server, paged>>

\* addPending: the record and the counter in one transaction, for a new
\* operation and for one recovered from the log.
AddPending(t) ==
    /\ session[t].on /\ seen["first"] + seen["second"] < MaxOps
    /\ rows' = rows \cup {Row([tab |-> t, n |-> seen[t] + 1], seen["first"] + seen["second"] + 1, "pending")}
    /\ seen' = [seen EXCEPT ![t] = @ + 1]
    /\ UNCHANGED <<crdtDb, server, session, paged>>

\* flushOutbox: the oldest rows in one batch, which is marked afterwards.
Flush(t) ==
    LET batch == {Op(r) : r \in Oldest(Unacked(t))}
    IN /\ session[t].on /\ batch # {} /\ session[t].toMark = {}
       /\ session' = [session EXCEPT ![t].toMark = batch, ![t].sent = @ \cup batch]
       /\ UNCHANGED <<crdtDb, outboxDb, server, paged>>

MarkSent(t) ==
    /\ session[t].toMark # {}
    /\ rows' = Transition(t, session[t].toMark, "sent")
    /\ session' = [session EXCEPT ![t].toMark = {}]
    /\ UNCHANGED <<crdtDb, seen, server, paged>>

\* The gateway stores what it does not hold yet and acknowledges either way.
Commit(t, op) ==
    /\ op \in session[t].sent /\ \A earlier \in session[t].sent : op.n <= earlier.n
    /\ server' = IF Position(op) = 0 THEN Append(server, op) ELSE server
    /\ session' = [session EXCEPT ![t].sent = @ \ {op}, ![t].acks = @ \cup {op}]
    /\ UNCHANGED <<crdtDb, outboxDb, paged>>

MarkDurablyAcked(t) ==
    /\ session[t].acks # {}
    /\ rows' = Transition(t, session[t].acks, "durably_acked")
    /\ session' = [session EXCEPT ![t].acks = {}]
    /\ UNCHANGED <<crdtDb, seen, server, paged>>

\* The socket is lost with what was on it; the session goes on.
Disconnect(t) ==
    /\ session[t].on /\ session[t].sent \cup session[t].acks # {}
    /\ session' = [session EXCEPT ![t].sent = {}, ![t].acks = {}]
    /\ UNCHANGED <<crdtDb, outboxDb, server, paged>>

\* appendOps with a page: the cursor and the proof of each operation of the
\* page that the log holds, in one transaction.
Catchup(t, upto) ==
    LET page == {server[i] : i \in cursor[t] + 1 .. upto} \cap Own(t)
    IN /\ session[t].on /\ cursor[t] < upto /\ upto <= Len(server)
       /\ cursor' = [cursor EXCEPT ![t] = upto]
       /\ log' = [log EXCEPT ![t] = [n \in 1 .. MaxOps |->
                     IF [tab |-> t, n |-> n] \in page THEN Max({log[t][n], upto}) ELSE log[t][n]]]
       /\ paged' = paged \cup page
       /\ UNCHANGED <<version, coverage, outboxDb, server, session>>

\* saveSyncCursor: a snapshot moves the cursor and proves no operation.
SaveSyncCursor(t) ==
    /\ session[t].on /\ cursor[t] < Len(server)
    /\ cursor' = [cursor EXCEPT ![t] = Len(server)]
    /\ UNCHANGED <<version, log, coverage, outboxDb, server, session, paged>>

\* clearAcked, in three transactions: what is covered, the rows, the proofs.
ReadCovered(t) ==
    LET covered == Covered(t, AckedIds(t))
    IN /\ session[t].on /\ session[t].clearing = "no" /\ covered # {}
       /\ session' = [session EXCEPT ![t].clearing = "rows", ![t].covered = covered]
       /\ UNCHANGED <<crdtDb, outboxDb, server, paged>>

ClearingStep == [no |-> "no", rows |-> "rows", proofs |-> "proofs"]

DeleteRows(t) ==
    LET c == session[t].covered
    IN /\ ClearingStep[session[t].clearing] = "rows"
       /\ rows' = {r \in rows : ~(Op(r) \in c /\ r.state = "durably_acked")}
       /\ session' = [session EXCEPT ![t].clearing = IF @ = "rows" THEN "proofs" ELSE "no"]
       /\ UNCHANGED <<crdtDb, seen, server, paged>>

Prune(t) ==
    /\ ClearingStep[session[t].clearing] = "proofs"
    /\ log' = [log EXCEPT ![t] = [n \in 1 .. MaxOps |->
                  IF [tab |-> t, n |-> n] \in session[t].covered THEN 0 ELSE log[t][n]]]
    /\ session' = [session EXCEPT ![t].clearing = IF @ = "rows" THEN "proofs" ELSE "no"]
    /\ UNCHANGED <<version, coverage, cursor, outboxDb, server, paged>>

Next ==
    \/ Upgrade
    \/ \E t \in Tabs :
        \/ Open(t) \/ Reload(t) \/ AddPending(t)
        \/ Flush(t) \/ MarkSent(t) \/ MarkDurablyAcked(t) \/ Disconnect(t)
        \/ \E op \in session[t].sent : Commit(t, op)
        \/ \E upto \in 1 .. Len(server) : Catchup(t, upto)
        \/ SaveSyncCursor(t) \/ ReadCovered(t) \/ DeleteRows(t) \/ Prune(t)

Spec == Init /\ [][Next]_vars

-----------------------------------------------------------------------------
(* Properties.                                                             *)

ProofOf(op) == IF version = 2 THEN coverage[op.tab][op.n] ELSE log[op.tab][op.n]

\* An operation the outbox recorded leaves it only when a page at or before
\* the tab's durable cursor brought it back, and a row that says acknowledged
\* is on the server (clearAcked, transition).
RemovedIsCovered ==
    \A t \in Tabs : \A n \in 1 .. seen[t] :
        LET op == [tab |-> t, n |-> n]
        IN \/ \E r \in rows : Op(r) = op /\ (r.state = "durably_acked" => Position(op) > 0)
           \/ op \in paged /\ Position(op) <= cursor[t]

\* A row stays removable: once a page brought the operation back, its proof
\* is there as long as its row is, through the upgrade and a reload in the
\* middle of the compaction (onupgradeneeded, clearAcked).
StaysRemovable ==
    \A r \in rows :
        Op(r) \in paged =>
            ProofOf(Op(r)) # 0 /\ ProofOf(Op(r)) <= cursor[r.tab]

\* A tab has a namespace of its own: what a session sends are the operations
\* of its own outbox (the comment on acquireReplica).
SendsOwnRows == \A t \in Tabs : \A op \in session[t].sent : op.tab = t

-----------------------------------------------------------------------------
(* Why the outbox is safe.                                                 *)

Operations == [tab : Tabs, n : 1 .. MaxOps]
RowRecords == [tab : Tabs, n : 1 .. MaxOps, seq : Nat, state : {"pending", "sent", "durably_acked"}]
Sessions == [on : BOOLEAN, toMark : SUBSET Operations, sent : SUBSET Operations,
             acks : SUBSET Operations, clearing : {"no", "rows", "proofs"},
             covered : SUBSET Operations]

TypeOK ==
    /\ version \in {2, 3}
    /\ log \in [Tabs -> [1 .. MaxOps -> Nat]] /\ coverage \in [Tabs -> [1 .. MaxOps -> Nat]]
    /\ cursor \in [Tabs -> Nat] /\ seen \in [Tabs -> 0 .. MaxOps]
    /\ rows \subseteq RowRecords /\ server \in Seq(Operations)
    /\ session \in [Tabs -> Sessions] /\ paged \subseteq Operations

Recorded(op) == op.n <= seen[op.tab]

\* One row per key, of an operation that was recorded; an acknowledged one is
\* on the server.
RowsInv ==
    /\ \A r \in rows : Recorded(r) /\ (r.state = "durably_acked" => Op(r) \in Range(server))
    /\ \A r, q \in rows : Op(r) = Op(q) => r = q

\* The server holds an operation once; what a page brought is before the
\* cursor of its tab.
ServerInv ==
    /\ \A i \in DOMAIN server : Recorded(server[i])
    /\ \A i, j \in DOMAIN server : server[i] = server[j] => i = j
    /\ \A op \in paged : \E i \in DOMAIN server : server[i] = op /\ i <= cursor[op.tab]

\* A proof is of an operation that came in a page, and is there while the
\* row is.
ProofInv ==
    /\ version = 2 => log = None /\ session = [t \in Tabs |-> Off]
    /\ \A op \in Operations : ProofOf(op) <= cursor[op.tab] /\ (ProofOf(op) # 0 => op \in paged)
    /\ \A r \in rows : Op(r) \in paged => ProofOf(Op(r)) # 0

\* What a session sent was recorded, what is acknowledged is on the server,
\* and a compaction that is under way concerns acknowledged rows only, until
\* it has deleted them.
SessionInv ==
    \A t \in Tabs :
        /\ \A op \in session[t].sent : Recorded(op)
        /\ session[t].acks \subseteq Range(server)
        /\ \A op \in session[t].covered : op.tab = t /\ op \in paged
        /\ session[t].clearing = "rows" =>
               \A r \in rows : Op(r) \in session[t].covered => r.state = "durably_acked"
        /\ session[t].clearing = "proofs" => \A r \in rows : Op(r) \notin session[t].covered

\* What was recorded has its row, or came back in a page.
KeptInv == \A op \in Operations : Recorded(op) => op \in paged \/ \E r \in rows : Op(r) = op

OutboxInv == TypeOK /\ RowsInv /\ ServerInv /\ ProofInv /\ SessionInv /\ KeptInv

=============================================================================
