----------------------------- MODULE DocReaders -----------------------------
(***************************************************************************)
(* The two read paths that walk a document's history while DocStore keeps  *)
(* rewriting it.  Neither holds a transaction across its reads:            *)
(*                                                                         *)
(*  - history reconstruction (maintenance/history.rs): covering snapshot,  *)
(*    then compaction floor, then the tail page by page;                   *)
(*  - the gateway's answer to sync_request (ws/mod.rs): compaction floor,  *)
(*    then either snapshot_resync_required and a later fetch_snapshot, or  *)
(*    catch-up pages and sync_done.                                        *)
(***************************************************************************)
EXTENDS DocStore

VARIABLES
    hist,  \* one reconstruction at a boundary
    sync   \* one sync_request and the replica of the client that sent it

rvars == <<vars, hist, sync>>

HistState == [pc       : {"idle", "floor", "tail", "done", "pruned"},
              boundary : Seq0,
              cursor   : Seq0,
              acc      : SUBSET Ops,
              seen     : Seq0 \cup {NoFloor}]  \* history: floor when it started

SyncState == [pc     : {"idle", "page", "done", "announced", "installed", "refused"},
              cursor : Seq0,
              have   : SUBSET Ops,             \* the client's replica
              snap   : SnapIds \cup {NoSnap},  \* the announced snapshot
              seen   : Seq0 \cup {NoFloor}]    \* history: floor when checked

IdleHist == [pc |-> "idle", boundary |-> 0, cursor |-> 0, acc |-> {},
             seen |-> NoFloor]
IdleSync == [pc |-> "idle", cursor |-> 0, have |-> {}, snap |-> NoSnap,
             seen |-> NoFloor]

RInit == Init /\ hist = IdleHist /\ sync = IdleSync

-----------------------------------------------------------------------------
(* reconstruction_inputs_at_boundary *)

\* Step 1: the newest finalized snapshot at or below a revision target.
HistSelect(T) ==
    /\ hist.pc = "idle"
    /\ T \in revs
    /\ \E cov \in Seq0, base \in SUBSET Ops :
          /\ IsCovering(T, cov, base)
          /\ hist' = [pc |-> "floor", boundary |-> T, cursor |-> cov,
                      acc |-> base, seen |-> floor]
    /\ UNCHANGED <<vars, sync>>

\* The floor is read on another connection; a pruned prefix is refused.
HistFloor ==
    /\ hist.pc = "floor"
    /\ hist' = [hist EXCEPT !.pc =
          IF hist.cursor < floor /\ hist.cursor < hist.boundary
          THEN "pruned" ELSE "tail"]
    /\ UNCHANGED <<vars, sync>>

\* Mutant: the tail is read up to the durable head.
HistPageToHead ==
    /\ hist.pc = "tail"
    /\ hist' = [hist EXCEPT !.acc = @ \cup OpsAt(RowsIn(hist.cursor, MaxSeq)),
                            !.pc = "done"]
    /\ UNCHANGED <<vars, sync>>

\* Step 2: one ops_between page up to the fixed boundary.
HistPage ==
    /\ hist.pc = "tail"
    /\ LET left == RowsIn(hist.cursor, hist.boundary) IN
       \/ left = {} /\ hist' = [hist EXCEPT !.pc = "done"]
       \/ \E e \in left :
             hist' = [hist EXCEPT
                        !.acc = @ \cup OpsAt(RowsIn(hist.cursor, e)),
                        !.cursor = e,
                        !.pc = IF RowsIn(e, hist.boundary) = {} THEN "done" ELSE "tail"]
    /\ UNCHANGED <<vars, sync>>

HistReset ==
    /\ hist.pc \in {"done", "pruned"}
    /\ hist' = IdleHist
    /\ UNCHANGED <<vars, sync>>

-----------------------------------------------------------------------------
(* Frame::SyncRequest, handle_fetch_snapshot, stream_catchup *)

\* Mutant: the floor is not consulted.
SyncRequestUnchecked(c) ==
    /\ sync.pc = "idle"
    /\ c <= lastSeq
    /\ sync' = [IdleSync EXCEPT !.cursor = c, !.have = Exact(c), !.seen = floor,
                                !.pc = "page"]
    /\ UNCHANGED <<vars, hist>>

\* A client that was complete up to cursor c asks for the rest.  get_floor
\* decides between resync and delta catch-up.  An unreadable floor counts as
\* no floor (".ok().flatten()").
SyncRequest(c) ==
    /\ sync.pc = "idle"
    /\ c <= lastSeq
    /\ LET s == [IdleSync EXCEPT !.cursor = c, !.have = Exact(c), !.seen = floor]
       IN  IF c < floor
           THEN IF floorSnap \in Finalized
                THEN sync' = [s EXCEPT !.pc = "announced", !.snap = floorSnap]
                ELSE sync' = [s EXCEPT !.pc = "refused"]
           ELSE sync' = [s EXCEPT !.pc = "page"]
    /\ UNCHANGED <<vars, hist>>

\* The client fetches the announced snapshot in a request of its own; only a
\* finalized one is served.  It installs it and continues from its coverage.
FetchSnapshot ==
    /\ sync.pc = "announced"
    /\ sync' = IF sync.snap \in Finalized
               THEN [sync EXCEPT !.pc = "installed",
                                 !.have = @ \cup snaps[sync.snap].content,
                                 !.cursor = snaps[sync.snap].coverage]
               ELSE [sync EXCEPT !.pc = "refused"]
    /\ UNCHANGED <<vars, hist>>

\* One catchup_page, delivered to the client; the last one is followed by
\* sync_done.
CatchupPage ==
    /\ sync.pc = "page"
    /\ LET left == RowsIn(sync.cursor, MaxSeq) IN
       \/ left = {} /\ sync' = [sync EXCEPT !.pc = "done"]
       \/ \E e \in left :
             sync' = [sync EXCEPT
                        !.have = @ \cup OpsAt(RowsIn(sync.cursor, e)),
                        !.cursor = e,
                        !.pc = IF RowsIn(e, MaxSeq) = {} THEN "done" ELSE "page"]
    /\ UNCHANGED <<vars, hist>>

SyncReset ==
    /\ sync.pc \in {"done", "installed", "refused"}
    /\ sync' = IdleSync
    /\ UNCHANGED <<vars, hist>>

-----------------------------------------------------------------------------
HistNext == \/ \E T \in Seq0 : HistSelect(T)
            \/ HistFloor \/ HistPage \/ HistReset

SyncNext == \/ \E c \in Seq0 : SyncRequest(c)
            \/ FetchSnapshot \/ CatchupPage \/ SyncReset

RNext == (Next /\ UNCHANGED <<hist, sync>>) \/ HistNext \/ SyncNext

RSpec == RInit /\ [][RNext]_rvars

-----------------------------------------------------------------------------
(* Properties *)

\* history.rs: "Same boundary => same digest, ALWAYS (H2/R8)".  A finished
\* reconstruction is the state the document had at the boundary.
HistExact == hist.pc = "done" => hist.acc = Exact(hist.boundary)

\* The same, unless the compaction floor advanced while it ran: edits arriving
\* meanwhile, re-sent operations, new snapshots and retention never disturb it.
HistExactUnlessPruned ==
    hist.pc = "done" /\ hist.seen = floor => hist.acc = Exact(hist.boundary)

\* ws/mod.rs: "NEVER stream partial history silently".  After sync_done the
\* client holds every operation committed at or below its cursor.
CatchupComplete == sync.pc = "done" => Exact(sync.cursor) \subseteq sync.have

\* The same, unless the floor advanced after the gateway checked it; and a
\* client that installed an announced snapshot is always complete.
CatchupCompleteUnlessPruned ==
    /\ sync.pc = "done" /\ sync.seen = floor => Exact(sync.cursor) \subseteq sync.have
    /\ sync.pc = "installed" => Exact(sync.cursor) \subseteq sync.have

\* An announced resync snapshot is never refused, however late the client asks
\* for it and however far the floor and retention have moved by then.
ResyncServed == sync.pc # "refused"

\* What a joining client is served, by pages or by a snapshot, is complete and
\* not refused (ws/mod.rs sync_request, fetch_snapshot).
CatchupServed == CatchupCompleteUnlessPruned /\ ResyncServed
-----------------------------------------------------------------------------
(* The inductive invariant behind these properties; DocReadersProofs proves *)
(* it for every value of the constants.                                    *)

\* While the floor stays where a reconstruction found it, its fold is complete
\* up to its cursor, and nothing it has still to read is pruned.
HistInv ==
    /\ hist \in HistState
    /\ hist.seen <= floor
    /\ hist.pc # "idle" => hist.boundary \in revs /\ hist.acc \subseteq Exact(hist.boundary)
    /\ hist.pc \in {"floor", "tail"} => hist.cursor <= hist.boundary
    /\ hist.pc \in {"floor", "tail"} /\ hist.seen = floor =>
          /\ Holds(hist.acc, 0, hist.cursor)
          /\ floor <= hist.cursor \/ hist.cursor = hist.boundary
    /\ hist.pc = "done" /\ hist.seen = floor => Holds(hist.acc, 0, hist.boundary)

\* A client that is being served pages is complete up to its cursor, which is
\* not below the floor the gateway saw; an announced snapshot stays finalized
\* at or below the floor, where retention does not touch it.
SyncInv ==
    /\ sync \in SyncState
    /\ sync.seen <= floor
    /\ sync.cursor <= lastSeq
    /\ sync.pc = "page" => sync.seen <= sync.cursor
    /\ sync.pc \in {"page", "done"} /\ sync.seen = floor => Exact(sync.cursor) \subseteq sync.have
    /\ sync.pc = "announced" => sync.snap \in Finalized /\ snaps[sync.snap].coverage <= floor
    /\ sync.pc = "installed" => Exact(sync.cursor) \subseteq sync.have
    /\ sync.pc # "refused"

ReaderInv == DocInv /\ HistInv /\ SyncInv
=============================================================================
