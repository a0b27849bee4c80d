------------------------------ MODULE DocStore ------------------------------
(***************************************************************************)
(* The PostgreSQL state of ONE document and every maintenance path that    *)
(* rewrites it: durable ingestion (db/repo.rs), the snapshot pipeline      *)
(* (maintenance/pipeline.rs, db/snapshots.rs), compaction                  *)
(* (maintenance/compaction.rs), retention (maintenance/retention.rs), and  *)
(* revisions with their restore anchors (maintenance/history.rs).          *)
(*                                                                         *)
(* A CRDT state is the set of operations folded into it (module CrdtDoc    *)
(* checks that equal sets give equal documents), so a snapshot's content,  *)
(* a digest and a reconstruction are sets of operations.  One action is    *)
(* one SQL transaction or one autocommitted statement; everything between  *)
(* two of them may interleave with every other actor.                      *)
(***************************************************************************)
EXTENDS Integers, FiniteSets, Functions

CONSTANTS
    Ops,          \* operation identities (replica, counter)
    NoOp,         \* no operation was committed under this sequence number
    MaxSeq,       \* bound: largest bigserial id handed out
    SnapIds,      \* snapshot uuids, never reused
    NoSnap,       \* documents.compaction_floor_snapshot_id IS NULL
    Attempts,     \* attempt numbers a snapshot job may reach
    Builders,     \* concurrent executions of the snapshot pipeline
    Pruners       \* concurrent executions of prune_to_boundary

ASSUME MaxSeqAssumption  == MaxSeq \in Nat
ASSUME NoOpAssumption    == NoOp \notin Ops
ASSUME NoSnapAssumption  == NoSnap \notin SnapIds
ASSUME AttemptAssumption == Attempts \subseteq Nat /\ 1 \in Attempts

Seq0 == 0..MaxSeq
Seqs == 1..MaxSeq

NoFloor == -1     \* compaction_floor_seq IS NULL

VARIABLES
    log,       \* history: the operation committed under each sequence number
    rows,      \* sequence numbers whose crdt_operations row still exists
    lastSeq,   \* largest sequence number committed for the document
    acked,     \* operations some client got a durable_ack for
    floor,     \* documents.compaction_floor_seq
    floorSnap, \* documents.compaction_floor_snapshot_id
    snaps,     \* the crdt_snapshots rows
    revs,      \* crdt_revisions.target_seq of the document's revisions
    anchors,   \* crdt_revisions.snapshot_id of its restore events
    builder,   \* local state of each pipeline execution
    pruner     \* local state of each prune execution

vars == <<log, rows, lastSeq, acked, floor, floorSnap, snaps, revs, anchors,
          builder, pruner>>

-----------------------------------------------------------------------------
(* Shapes *)

SnapRow == [status   : {"absent", "building", "verifying", "finalized",
                        "superseded", "purged"},
            coverage : Seq0,
            attempt  : Attempts,
            content  : SUBSET Ops]

NoRow == [status |-> "absent", coverage |-> 0, attempt |-> 1, content |-> {}]

BuilderState == [pc       : {"idle", "build", "insert", "created", "verifying",
                             "refold", "compare", "finalize", "anchored"},
                 anchor   : BOOLEAN,     \* build_anchor, not a job
                 boundary : Seq0,
                 attempt  : Attempts,
                 cov      : Seq0,        \* coverage of the covering snapshot
                 cursor   : Seq0,        \* ops_between cursor
                 acc      : SUBSET Ops,  \* what has been folded so far
                 snap     : SnapIds \cup {NoSnap}]

IdleBuilder == [pc |-> "idle", anchor |-> FALSE, boundary |-> 0, attempt |-> 1,
                cov |-> 0, cursor |-> 0, acc |-> {}, snap |-> NoSnap]

PrunerState == [pc       : {"idle", "batch"},
                boundary : Seq0,
                snap     : SnapIds \cup {NoSnap},
                deleted  : BOOLEAN]      \* total_deleted > 0

IdlePruner == [pc |-> "idle", boundary |-> 0, snap |-> NoSnap, deleted |-> FALSE]

-----------------------------------------------------------------------------
(* Queries *)

\* The operations of a set of sequence numbers.
OpsAt(S) == {log[s] : s \in S}

\* SELECT ... WHERE id > lo AND id <= hi
RowsIn(lo, hi) == {s \in rows : lo < s /\ s <= hi}

\* The state the document had at sequence number T: every operation ever
\* committed at or below it, pruned since or not.
Exact(T) == {log[s] : s \in {s \in Seqs : s <= T /\ log[s] # NoOp}}

\* DURABLE_CURSOR_QUERY: GREATEST(MAX(id), floor).
IsHighWater(h) ==
    /\ h \in rows \cup {0, floor}
    /\ h >= 0 /\ h >= floor
    /\ \A s \in rows : s <= h

Finalized == {s \in SnapIds : snaps[s].status = "finalized"}

FinalizedUpTo(T) == {s \in Finalized : snaps[s].coverage <= T}

\* ORDER BY coverage_seq DESC, attempt DESC
NewerOrSame(s, t) ==
    \/ snaps[s].coverage > snaps[t].coverage
    \/ snaps[s].coverage = snaps[t].coverage /\ snaps[s].attempt >= snaps[t].attempt

\* latest_finalized_before(document, T)
IsLatest(s, T) ==
    /\ s \in FinalizedUpTo(T)
    /\ \A t \in FinalizedUpTo(T) : NewerOrSame(s, t)

\* A covering snapshot as reconstruction_inputs sees it: its coverage and its
\* operations, or (0, {}) when there is none.
IsCovering(T, cov, base) ==
    \/ \E s \in SnapIds : /\ IsLatest(s, T)
                          /\ cov = snaps[s].coverage
                          /\ base = snaps[s].content
    \/ FinalizedUpTo(T) = {} /\ cov = 0 /\ base = {}

-----------------------------------------------------------------------------
Init ==
    /\ log = [s \in Seqs |-> NoOp]
    /\ rows = {}
    /\ lastSeq = 0
    /\ acked = {}
    /\ floor = NoFloor
    /\ floorSnap = NoSnap
    /\ snaps = [s \in SnapIds |-> NoRow]
    /\ revs = {}
    /\ anchors = {}
    /\ builder = [b \in Builders |-> IdleBuilder]
    /\ pruner = [p \in Pruners |-> IdlePruner]

-----------------------------------------------------------------------------
(* Ingestion.  ingest_batch_in_tx holds the document's advisory lock from   *)
(* its first statement to COMMIT, so it is one step: rows already present   *)
(* are duplicates, the others get fresh increasing ids (with gaps: the      *)
(* sequence is shared by all documents).  The durable_ack follows COMMIT    *)
(* and may be lost with the connection or the gateway.                      *)

\* The transaction: append the operations of B that have no row.
Append(B) ==
    LET new == B \ OpsAt(rows) IN
    \E S \in SUBSET {s \in Seqs : s > lastSeq} : \E at \in Bijection(S, new) :
        /\ log' = [s \in Seqs |-> IF s \in S THEN at[s] ELSE log[s]]
        /\ rows' = rows \cup S
        /\ lastSeq' \in S \cup {lastSeq}
        /\ \A s \in S : s <= lastSeq'

IngestBatch(B) ==
    /\ B # {}
    /\ Append(B)
    /\ acked' \in {acked, acked \cup B}
    /\ UNCHANGED <<floor, floorSnap, snaps, revs, anchors, builder, pruner>>

-----------------------------------------------------------------------------
(* Revisions.  resolve_boundary takes the documents row FOR SHARE, so it    *)
(* and the insert are one step with respect to compaction and retention.    *)

CreateRevision(T) ==
    /\ \E h \in Seq0 : IsHighWater(h) /\ T <= h
    /\ T > 0 /\ T <= floor => \E s \in Finalized : snaps[s].coverage = T
    /\ revs' = revs \cup {T}
    /\ UNCHANGED <<log, rows, lastSeq, acked, floor, floorSnap, snaps, anchors,
                   builder, pruner>>

-----------------------------------------------------------------------------
(* The snapshot pipeline.  A job (execute_snapshot_job) or a restore anchor *)
(* (build_anchor, always attempt 1) builds at a revision's boundary: the    *)
(* callers in the repository pass no other boundary.                        *)

Goto(b, next) == builder' = [builder EXCEPT ![b].pc = next]

\* build_at_boundary: the covering snapshot is selected and loaded.
StartBuild(b, T, a) ==
    /\ builder[b].pc = "idle"
    /\ T \in revs /\ T > 0
    /\ \E cov \in Seq0, base \in SUBSET Ops :
          /\ IsCovering(T, cov, base)
          /\ builder' = [builder EXCEPT ![b] =
                [IdleBuilder EXCEPT !.pc = "build", !.boundary = T,
                                    !.attempt = a, !.cov = cov, !.cursor = cov,
                                    !.acc = base]]
    /\ UNCHANGED <<log, rows, lastSeq, acked, floor, floorSnap, snaps, revs,
                   anchors, pruner>>

\* One ops_between page: a prefix of what is left below the boundary.  The page
\* size is abstracted: the prefix may end at any row.  has_more comes from the
\* same query, so the loop ends with the page that reaches the last row.
ReadPage(b, done) ==
    LET r    == builder[b]
        left == RowsIn(r.cursor, r.boundary)
    IN  \/ /\ left = {}
           /\ Goto(b, done)
        \/ \E e \in left :
              LET page == RowsIn(r.cursor, e)
                  more == RowsIn(e, r.boundary) # {}
              IN  builder' = [builder EXCEPT
                                ![b].acc = @ \cup OpsAt(page),
                                ![b].cursor = e,
                                ![b].pc = IF more THEN r.pc ELSE done]

BuildPage(b) ==
    /\ builder[b].pc = "build"
    /\ ReadPage(b, "insert")
    /\ UNCHANGED <<log, rows, lastSeq, acked, floor, floorSnap, snaps, revs,
                   anchors, pruner>>

\* create_attempt: UNIQUE (document_id, coverage_seq, attempt) refuses a second
\* row for the slot, whatever became of the first.
SlotTaken(T, a) ==
    \E s \in SnapIds : /\ snaps[s].status \notin {"absent", "purged"}
                       /\ snaps[s].coverage = T
                       /\ snaps[s].attempt = a

CreateAttempt(b) ==
    /\ builder[b].pc = "insert"
    /\ \/ /\ SlotTaken(builder[b].boundary, builder[b].attempt)
          /\ builder' = [builder EXCEPT ![b] = IdleBuilder]
          /\ UNCHANGED snaps
       \/ /\ ~SlotTaken(builder[b].boundary, builder[b].attempt)
          /\ \E s \in SnapIds :
                /\ snaps[s].status = "absent"
                /\ snaps' = [snaps EXCEPT ![s] =
                      [status   |-> "building",
                       coverage |-> builder[b].boundary,
                       attempt  |-> builder[b].attempt,
                       content  |-> builder[b].acc]]
                /\ builder' = [builder EXCEPT ![b].pc = "created", ![b].snap = s]
    /\ UNCHANGED <<log, rows, lastSeq, acked, floor, floorSnap, revs, anchors,
                   pruner>>

\* transition_building_to_verifying
ToVerifying(b) ==
    /\ builder[b].pc = "created"
    /\ snaps[builder[b].snap].status = "building"
    /\ snaps' = [snaps EXCEPT ![builder[b].snap].status = "verifying"]
    /\ Goto(b, "verifying")
    /\ UNCHANGED <<log, rows, lastSeq, acked, floor, floorSnap, revs, anchors,
                   pruner>>

\* verify, oracle (b): a second, independent reconstruction.  It selects the
\* covering snapshot anew: a snapshot finalized since the build counts.
VerifySelect(b) ==
    /\ builder[b].pc = "verifying"
    /\ snaps[builder[b].snap].status = "verifying"
    /\ \E cov \in Seq0, base \in SUBSET Ops :
          /\ IsCovering(builder[b].boundary, cov, base)
          /\ builder' = [builder EXCEPT ![b].pc = "refold", ![b].cov = cov,
                                        ![b].cursor = cov, ![b].acc = base]
    /\ UNCHANGED <<log, rows, lastSeq, acked, floor, floorSnap, snaps, revs,
                   anchors, pruner>>

VerifyPage(b) ==
    /\ builder[b].pc = "refold"
    /\ ReadPage(b, "compare")
    /\ UNCHANGED <<log, rows, lastSeq, acked, floor, floorSnap, snaps, revs,
                   anchors, pruner>>

\* Mutant: the outcome of the comparison is ignored.
VerifyCompareIgnored(b) ==
    /\ builder[b].pc = "compare"
    /\ Goto(b, "finalize")
    /\ UNCHANGED <<log, rows, lastSeq, acked, floor, floorSnap, snaps, revs,
                   anchors, pruner>>

\* The refold must agree with the stored digest; a mismatch ends the job and
\* leaves the row as it is (no caller in the repository marks it failed).
VerifyCompare(b) ==
    /\ builder[b].pc = "compare"
    /\ builder' = [builder EXCEPT ![b] =
          IF builder[b].acc = snaps[builder[b].snap].content
          THEN [@ EXCEPT !.pc = "finalize"] ELSE IdleBuilder]
    /\ UNCHANGED <<log, rows, lastSeq, acked, floor, floorSnap, snaps, revs,
                   anchors, pruner>>

\* finalize: verifying -> finalized.  A job whose fence is refused ends here
\* without the update (see BuilderStops).
Finalize(b) ==
    /\ builder[b].pc = "finalize"
    /\ snaps[builder[b].snap].status = "verifying"
    /\ snaps' = [snaps EXCEPT ![builder[b].snap].status = "finalized"]
    /\ builder' = [builder EXCEPT ![b] =
          IF builder[b].anchor THEN [@ EXCEPT !.pc = "anchored"] ELSE IdleBuilder]
    /\ UNCHANGED <<log, rows, lastSeq, acked, floor, floorSnap, revs, anchors,
                   pruner>>

\* A crash of the gateway, a worker or database error, or a refused fence: the
\* execution ends, its rows stay.
BuilderStops(b) ==
    /\ builder[b].pc # "idle"
    /\ builder' = [builder EXCEPT ![b] = IdleBuilder]
    /\ UNCHANGED <<log, rows, lastSeq, acked, floor, floorSnap, snaps, revs,
                   anchors, pruner>>

-----------------------------------------------------------------------------
(* Restore.  The anchor is an existing finalized snapshot at exactly the    *)
(* boundary, else one built now; the forward operations and the            *)
(* restore_event revision then commit in one transaction.                   *)

StartRestore(b, T) ==
    /\ builder[b].pc = "idle"
    /\ T \in revs
    /\ \/ \E s \in Finalized :
             /\ snaps[s].coverage = T
             /\ builder' = [builder EXCEPT ![b] =
                   [IdleBuilder EXCEPT !.pc = "anchored", !.anchor = TRUE,
                                       !.boundary = T, !.snap = s]]
       \/ /\ ~\E s \in Finalized : snaps[s].coverage = T
          /\ \E cov \in Seq0, base \in SUBSET Ops :
                /\ IsCovering(T, cov, base)
                /\ builder' = [builder EXCEPT ![b] =
                      [IdleBuilder EXCEPT !.pc = "build", !.anchor = TRUE,
                                          !.boundary = T, !.cov = cov,
                                          !.cursor = cov, !.acc = base]]
    /\ UNCHANGED <<log, rows, lastSeq, acked, floor, floorSnap, snaps, revs,
                   anchors, pruner>>

RestoreCommit(b, B) ==
    /\ builder[b].pc = "anchored"
    /\ Append(B)
    /\ anchors' = anchors \cup {builder[b].snap}
    /\ revs' = revs \cup {builder[b].boundary}
    /\ builder' = [builder EXCEPT ![b] = IdleBuilder]
    /\ UNCHANGED <<acked, floor, floorSnap, snaps, pruner>>

-----------------------------------------------------------------------------
(* Compaction.  eligibility runs outside the prune transactions and is only *)
(* advisory; every batch is one transaction that locks the documents row,   *)
(* rechecks, deletes a bounded prefix and advances the floor.               *)

RevisionBelow(B) == \E T \in revs : T < B

\* eligibility: the newest finalized snapshot at or below the boundary covers
\* exactly the boundary, and no revision target lies below it.
PruneStart(p, s) ==
    /\ pruner[p].pc = "idle"
    /\ IsLatest(s, snaps[s].coverage)
    /\ ~RevisionBelow(snaps[s].coverage)
    /\ pruner' = [pruner EXCEPT ![p] =
          [pc |-> "batch", boundary |-> snaps[s].coverage, snap |-> s,
           deleted |-> FALSE]]
    /\ UNCHANGED <<log, rows, lastSeq, acked, floor, floorSnap, snaps, revs,
                   anchors, builder>>

\* Mutant: the recheck forgets the snapshot.
BatchAllowedAnySnapshot(p) == ~RevisionBelow(pruner[p].boundary)

\* Mutant: the recheck forgets revisions created since eligibility.
BatchAllowedAnyRevision(p) == snaps[pruner[p].snap].status = "finalized"

\* recheck_in_batch_tx
BatchAllowed(p) ==
    /\ ~RevisionBelow(pruner[p].boundary)
    /\ snaps[pruner[p].snap].status = "finalized"

\* UPDATE documents ... WHERE compaction_floor_seq IS NULL OR <= boundary
AdvanceFloor(p) ==
    IF floor <= pruner[p].boundary
    THEN /\ floor' = pruner[p].boundary
         /\ floorSnap' = pruner[p].snap
    ELSE UNCHANGED <<floor, floorSnap>>

\* One batch that deletes rows: a prefix of the covered rows.  A full batch
\* goes round the loop again, a short one (nothing left) ends it.
PruneBatch(p) ==
    /\ pruner[p].pc = "batch"
    /\ BatchAllowed(p)
    /\ \E e \in RowsIn(0, pruner[p].boundary) :
          /\ rows' = rows \ RowsIn(0, e)
          /\ \/ pruner' = [pruner EXCEPT ![p].deleted = TRUE]
             \/ /\ RowsIn(e, pruner[p].boundary) = {}
                /\ pruner' = [pruner EXCEPT ![p] = IdlePruner]
    /\ AdvanceFloor(p)
    /\ UNCHANGED <<log, lastSeq, acked, snaps, revs, anchors, builder>>

\* A batch that finds nothing to delete.  The floor is still set when an
\* earlier batch of this run deleted, and left alone otherwise.
PruneNothing(p) ==
    /\ pruner[p].pc = "batch"
    /\ BatchAllowed(p)
    /\ RowsIn(0, pruner[p].boundary) = {}
    /\ IF pruner[p].deleted THEN AdvanceFloor(p) ELSE UNCHANGED <<floor, floorSnap>>
    /\ pruner' = [pruner EXCEPT ![p] = IdlePruner]
    /\ UNCHANGED <<log, rows, lastSeq, acked, snaps, revs, anchors, builder>>

\* A refused recheck, a database error or a crash: the open transaction rolls
\* back, the committed batches stay.
PrunerStops(p) ==
    /\ pruner[p].pc # "idle"
    /\ pruner' = [pruner EXCEPT ![p] = IdlePruner]
    /\ UNCHANGED <<log, rows, lastSeq, acked, floor, floorSnap, snaps, revs,
                   anchors, builder>>

-----------------------------------------------------------------------------
(* Retention.  Each candidate is flipped in its own transaction under the   *)
(* documents lock, after still_unprotected; the unlocked candidate scan     *)
(* asks nothing that the recheck does not ask again.                        *)

\* Mutant: retention does not look at the compaction floor.
StillUnprotectedByFloor(s, expected) ==
    /\ snaps[s].status = expected
    /\ \E t \in SnapIds : IsLatest(t, MaxSeq) /\ t # s
    /\ s \notin anchors

StillUnprotected(s, expected) ==
    /\ snaps[s].status = expected
    /\ \E t \in SnapIds : IsLatest(t, MaxSeq) /\ t # s
    /\ s \notin anchors
    /\ s # floorSnap
    /\ snaps[s].coverage > floor

MarkSuperseded(s) ==
    /\ StillUnprotected(s, "finalized")
    /\ snaps' = [snaps EXCEPT ![s].status = "superseded"]
    /\ UNCHANGED <<log, rows, lastSeq, acked, floor, floorSnap, revs, anchors,
                   builder, pruner>>

Purge(s) ==
    /\ StillUnprotected(s, "superseded")
    /\ snaps' = [snaps EXCEPT ![s] = [NoRow EXCEPT !.status = "purged"]]
    /\ UNCHANGED <<log, rows, lastSeq, acked, floor, floorSnap, revs, anchors,
                   builder, pruner>>

-----------------------------------------------------------------------------
Next ==
    \/ \E B \in SUBSET Ops : IngestBatch(B)
    \/ \E T \in Seq0 : CreateRevision(T)
    \/ \E b \in Builders :
          \/ \E T \in Seq0, a \in Attempts : StartBuild(b, T, a)
          \/ BuildPage(b)
          \/ CreateAttempt(b)
          \/ ToVerifying(b)
          \/ VerifySelect(b)
          \/ VerifyPage(b)
          \/ VerifyCompare(b)
          \/ Finalize(b)
          \/ BuilderStops(b)
          \/ \E T \in Seq0 : StartRestore(b, T)
          \/ \E B \in SUBSET Ops : RestoreCommit(b, B)
    \/ \E p \in Pruners :
          \/ \E s \in SnapIds : PruneStart(p, s)
          \/ PruneBatch(p)
          \/ PruneNothing(p)
          \/ PrunerStops(p)
    \/ \E s \in SnapIds : MarkSuperseded(s) \/ Purge(s)

Spec == Init /\ [][Next]_vars

-----------------------------------------------------------------------------
(* Properties *)

\* Every variable has its declared shape.
TypeOK ==
    /\ log \in [Seqs -> Ops \cup {NoOp}]
    /\ rows \subseteq Seqs
    /\ lastSeq \in Seq0
    /\ acked \subseteq Ops
    /\ floor \in Seq0 \cup {NoFloor}
    /\ floorSnap \in SnapIds \cup {NoSnap}
    /\ snaps \in [SnapIds -> SnapRow]
    /\ revs \subseteq Seq0
    /\ anchors \subseteq SnapIds
    /\ builder \in [Builders -> BuilderState]
    /\ pruner \in [Pruners -> PrunerState]

\* FAILURE_MODEL 8.4: an operation some client holds a durable_ack for is never
\* lost: it is a row, or it is inside the finalized snapshot the compaction
\* floor names, whatever prune batches, crashes, rebuilds, retention passes and
\* retries came in between.
AckedDurable ==
    \A o \in acked :
        \/ o \in OpsAt(rows)
        \/ /\ floor # NoFloor
           /\ floorSnap \in Finalized
           /\ o \in snaps[floorSnap].content

\* A snapshot that was finalized holds exactly the operations committed at or
\* below its coverage: a prune that overtakes the build, or the refold that is
\* to check it, never lets a partial state through (pipeline.rs verify).
FinalizedExact ==
    \A s \in SnapIds :
        snaps[s].status \in {"finalized", "superseded"} =>
            snaps[s].content = Exact(snaps[s].coverage)

\* Reading the covering snapshot and the retained tail gives the state at T.
Reconstructs(T) ==
    \A cov \in {0} \cup {snaps[s].coverage : s \in SnapIds},
       base \in {{}} \cup {snaps[s].content : s \in SnapIds} :
        IsCovering(T, cov, base) => base \cup OpsAt(RowsIn(cov, T)) = Exact(T)

\* Every revision stays reconstructable, and so does the current state: what
\* compaction and retention leave behind is a basis for each revision target
\* and for the durable head (history.rs, recovery.rs).
RevisionsReconstructable ==
    /\ \A T \in revs : Reconstructs(T)
    /\ Reconstructs(lastSeq)

\* A step never takes a finalized snapshot at or below the floor away: one the
\* gateway announced in snapshot_resync_required can still be fetched after the
\* floor has moved on.
AnnouncedStaysServable ==
    [][\A s \in Finalized :
          snaps[s].coverage <= floor => snaps'[s].status = "finalized"]_vars

\* history.rs restore_revision, step 3: "reuse an existing finalized row at that
\* exact boundary, else build + verify + finalize one now".  Building one needs
\* the slot (boundary, attempt 1), which a superseded row keeps for good.
RestoreHasAnAnchor ==
    \A T \in revs :
        \/ \E s \in Finalized : snaps[s].coverage = T
        \/ ~\E s \in SnapIds : /\ snaps[s].status = "superseded"
                               /\ snaps[s].coverage = T
                               /\ snaps[s].attempt = 1

-----------------------------------------------------------------------------
(* The inductive invariant behind the safety properties; DocReadersProofs   *)
(* proves it for every value of the constants.                             *)

Logged == {s \in Seqs : log[s] # NoOp}

\* Rows are committed operations, and nothing above the floor was ever deleted.
LogInv ==
    /\ \A s \in Logged : s <= lastSeq
    /\ rows \subseteq Logged
    /\ \A s \in Logged : s > floor => s \in rows
    /\ acked \subseteq OpsAt(Logged)

\* The floor is the coverage of a finalized snapshot.
FloorInv ==
    floor # NoFloor => floorSnap \in Finalized /\ snaps[floorSnap].coverage = floor

\* A revision is at or above the floor, or pinned by a snapshot of its own.
RevInv ==
    /\ \A T \in revs : T <= lastSeq
    /\ \A T \in revs :
          T = 0 \/ floor <= T \/ \E s \in Finalized : snaps[s].coverage = T

SnapInv ==
    /\ \A s \in SnapIds : snaps[s].coverage <= lastSeq
    /\ FinalizedExact

\* X holds every operation committed in (lo, hi].
Holds(X, lo, hi) == \A s \in Logged : lo < s /\ s <= hi => log[s] \in X

\* What an execution of the pipeline knows.  Its first fold misses at most what
\* is at or below the floor; its second fold starts from a snapshot that is not
\* older than the floor was then, so the first has everything above it; hence
\* two equal folds are both complete.
BuilderInv(b) ==
    LET r == builder[b]
        s == snaps[r.snap]
    IN  /\ r.pc # "idle" => r.boundary \in revs
        /\ r.pc \in {"build", "refold"} => r.cursor <= r.boundary
        /\ r.pc \in {"build", "insert", "refold", "compare"} =>
              r.acc \subseteq Exact(r.boundary)
        /\ r.pc = "build"  => Holds(r.acc, floor, r.cursor)
        /\ r.pc = "insert" => Holds(r.acc, floor, r.boundary)
        /\ r.pc \in {"refold", "compare"} => r.cov <= r.boundary /\ Holds(r.acc, 0, r.cov)
        /\ r.pc \in {"created", "verifying", "refold", "compare", "finalize"} =>
              /\ r.snap \in SnapIds
              /\ s.status # "absent"
              /\ s.status \in {"building", "verifying"} =>
                    /\ s.coverage = r.boundary
                    /\ Holds(s.content, floor, r.boundary)
                    /\ r.pc \in {"refold", "compare"} => Holds(s.content, r.cov, r.boundary)
                    /\ r.pc = "finalize" => s.content = Exact(r.boundary)
        /\ r.pc = "anchored" => r.snap \in SnapIds

PrunerInv(p) ==
    pruner[p].pc = "batch" =>
        /\ pruner[p].snap \in SnapIds
        /\ snaps[pruner[p].snap].status \in {"finalized", "superseded", "purged"}
        /\ snaps[pruner[p].snap].status = "finalized" =>
              snaps[pruner[p].snap].coverage = pruner[p].boundary

\* Everything above, together.
DocInv ==
    /\ TypeOK
    /\ LogInv
    /\ FloorInv
    /\ RevInv
    /\ SnapInv
    /\ \A b \in Builders : BuilderInv(b)
    /\ \A p \in Pruners : PrunerInv(p)
=============================================================================
