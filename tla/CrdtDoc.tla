------------------------------ MODULE CrdtDoc ------------------------------
(***************************************************************************)
(* The native CRDT document engine (cpp/crdt/src/doc.cpp) on several       *)
(* replicas.  A replica holds the tombstone-inclusive item stream, the     *)
(* attribute registers, the set of applied operation ids, a buffer of      *)
(* causally early operations, its own counter and Lamport clock, and the   *)
(* contiguous-counter summary.  Operations it generates go into its        *)
(* durable log and from there, sooner or later, in any order and any       *)
(* number of times, to every other replica.  A replica may be reloaded     *)
(* from a snapshot and its log (worker/core.ts).                           *)
(*                                                                         *)
(* Texts and block types are left out: an item is its id and its anchors,  *)
(* and an item has one register, whose value is named by the write that    *)
(* put it there.                                                           *)
(***************************************************************************)
EXTENDS Integers, Sequences, FiniteSets, SequencesExt

CONSTANTS
    Replicas,      \* replica ids: positive numbers, ordered
    OpTypes,       \* bound: the types of operations a run generates
    MaxOps,        \* bound: operations generated in a run
    MaxReloads,    \* bound: reloads and snapshot imports in a run
    MaxBatch,      \* bound: operations in one applyRemote request
    PendingLimit   \* kPendingLimit

ASSUME ReplicasAssumption == Replicas \subseteq Nat \ {0}
ASSUME MaxOpsAssumption   == MaxOps \in Nat
ASSUME LimitAssumption    == PendingLimit \in Nat
ASSUME BatchAssumption    == MaxBatch \in Nat \ {0}

VARIABLES
    doc,    \* the engine of each replica
    saved,  \* the stored snapshot of each replica (IndexedDB)
    log,    \* the durable operation log of each replica (IndexedDB)
    ops,    \* every operation generated so far
    reloads \* bound: reloads and imports so far

vars == <<doc, saved, log, ops, reloads>>

-----------------------------------------------------------------------------
(* Shapes *)

Ids == Replicas \X (1..MaxOps)      \* OpId: (replica, counter)
None == <<0, 0>>                    \* std::nullopt

Clock == 0..(3 * MaxOps)            \* Lamport values a run can reach

Op == [type    : {"insert", "delete", "setattr"},
       id      : Ids,
       lamport : Clock,
       left    : Ids \cup {None},   \* insert: anchors
       right   : Ids \cup {None},
       init    : BOOLEAN,           \* insert: writes the register (delimiter)
       target  : Ids \cup {None}]   \* delete, setattr

Stamp == Clock \X (Replicas \cup {0})   \* (lamport, writer) of a register
Unset == <<0, 0>>

Doc == [order   : Seq([id : Ids, left : Ids \cup {None}]),
        tomb    : SUBSET Ids,
        reg     : [Ids -> Stamp],
        applied : SUBSET Ids,
        pending : Seq(Op),
        next    : 1..(MaxOps + 1),
        lamport : Clock,
        contig  : [Replicas -> 0..MaxOps],
        gaps    : [Replicas -> SUBSET (1..MaxOps)]]

EmptyDoc == [order |-> <<>>, tomb |-> {}, reg |-> [i \in Ids |-> Unset],
             applied |-> {}, pending |-> <<>>, next |-> 1, lamport |-> 0,
             contig |-> [r \in Replicas |-> 0], gaps |-> [r \in Replicas |-> {}]]

Items(d) == {d.order[i].id : i \in DOMAIN d.order}

-----------------------------------------------------------------------------
(* Integration *)

\* note_integrated: the clock, and the contiguous-counter summary.
NoteIntegrated(d, op) ==
    LET r    == op.id[1]
        c    == op.id[2]
        seen == d.gaps[r] \cup {c}
        top  == CHOOSE n \in d.contig[r]..MaxOps :
                    /\ \A k \in (d.contig[r] + 1)..n : k \in seen
                    /\ n + 1 \notin seen
    IN  [d EXCEPT !.lamport = IF op.lamport > @ THEN op.lamport ELSE @,
                  !.applied = @ \cup {op.id},
                  !.contig[r] = top,
                  !.gaps[r] = {k \in seen : k > top}]

\* apply_register: a strictly greater (lamport, writer) wins.
Later(s, t) == s[1] > t[1] \/ (s[1] = t[1] /\ s[2] > t[2])

\* Mutant: of two writes with the same clock the one that arrives last wins.
ApplyRegisterLast(d, item, stamp) ==
    IF stamp[1] >= d.reg[item][1] THEN [d EXCEPT !.reg[item] = stamp] ELSE d

ApplyRegister(d, item, stamp) ==
    IF Later(stamp, d.reg[item]) THEN [d EXCEPT !.reg[item] = stamp] ELSE d

StampOf(op) == <<op.lamport, op.id[1]>>

\* Position of an anchor in the stream; 0 stands for "before the first item".
Position(d, id) ==
    IF id = None THEN 0 ELSE CHOOSE i \in DOMAIN d.order : d.order[i].id = id

\* Mutant: direct siblings stay in the order in which they arrive.
ScanItemArrival(op, s, o) ==
    IF s.stop THEN s
    ELSE IF o.left = op.left
         THEN [s EXCEPT !.after = o.id, !.seen = @ \cup {o.id}, !.open = {}]
         ELSE IF o.left \in s.seen
              THEN [s EXCEPT !.after = o.id, !.seen = @ \cup {o.id}, !.open = {}]
              ELSE [s EXCEPT !.stop = TRUE]

\* One turn of the conflict scan over item o: where the new item would go,
\* which items the scan has seen, and which of them still compete with it.
ScanItem(op, s, o) ==
    LET seen == s.seen \cup {o.id}
        open == s.open \cup {o.id}
        past == [s EXCEPT !.after = o.id, !.seen = seen, !.open = {}]
        keep == [s EXCEPT !.seen = seen, !.open = open]
    IN  IF s.stop THEN s
        ELSE IF o.left = op.left
             THEN IF o.id[1] < op.id[1] THEN past ELSE keep
             ELSE IF o.left \in seen
                  THEN IF o.left \notin open THEN past ELSE keep
                  ELSE [s EXCEPT !.stop = TRUE]

\* The scan from the left anchor on, up to a position of the stream.
Scan(d, op, last) ==
    LET from == Position(d, op.left)
        scan[i \in from..last] ==
            IF i = from THEN [after |-> op.left, seen |-> {}, open |-> {}, stop |-> FALSE]
            ELSE ScanItem(op, scan[i - 1], d.order[i])
    IN  scan

\* Mutant: the scan does not stop at the right anchor.
BoundaryPastRight(d, op) == Scan(d, op, Len(d.order))[Len(d.order)].after

\* The item after which an insert is spliced in: the scan ends before the right
\* anchor if it meets it.
Boundary(d, op) ==
    LET left  == Position(d, op.left)
        right == Position(d, op.right)
        last  == IF right > left THEN right - 1 ELSE Len(d.order)
    IN  Scan(d, op, last)[last].after

Ready(d, op) ==
    IF op.type = "insert"
    THEN {op.left, op.right} \subseteq Items(d) \cup {None}
    ELSE op.target \in Items(d)

\* The body of integrate_insert, integrate_delete and integrate_set_attr for an
\* operation whose anchors or target are present, without the pending retry.
Place(d, op) ==
    NoteIntegrated(
        CASE op.type = "insert"  ->
                LET e == [d EXCEPT !.order =
                              InsertAt(@, Position(d, Boundary(d, op)) + 1,
                                       [id |-> op.id, left |-> op.left])]
                IN  IF op.init THEN ApplyRegister(e, op.id, StampOf(op)) ELSE e
          [] op.type = "delete"  -> [d EXCEPT !.tomb = @ \cup {op.target}]
          [] op.type = "setattr" -> ApplyRegister(d, op.target, StampOf(op)),
        op)

\* One pass of retry_pending: an operation that has become ready leaves the
\* buffer and is integrated unless it is a duplicate.
Retry(d, op) ==
    IF ~Ready(d, op) THEN [d EXCEPT !.pending = Append(@, op)]
    ELSE IF op.id \in d.applied THEN d
    ELSE Place(d, op)

Retried(d) ==
    LET pass[k \in 0..Len(d.pending)] ==
            IF k = 0 THEN [d EXCEPT !.pending = <<>>] ELSE Retry(pass[k - 1], d.pending[k])
    IN  pass

RetryPass(d) == Retried(d)[Len(d.pending)]

\* Mutant: one pass only.
RetryPendingOnce(d) == RetryPass(d)

\* Mutant: the buffer is never looked at again.
RetryPendingNever(d) == d

\* retry_pending: passes until one makes no progress; as many passes as there
\* were operations always suffice.
Passes(d) ==
    LET passes[k \in 0..Len(d.pending)] == IF k = 0 THEN d ELSE RetryPass(passes[k - 1])
    IN  passes

RetryPending(d) == Passes(d)[Len(d.pending)]

\* An operation that would be buffered, and the buffer is full.
Refused(d, op) ==
    /\ op.id \notin d.applied
    /\ ~Ready(d, op)
    /\ Len(d.pending) >= PendingLimit

\* apply_remote.  A full buffer throws and leaves the document as it was.
ApplyRemote(d, op) ==
    IF op.id \in d.applied THEN d
    ELSE IF Ready(d, op) THEN RetryPending(Place(d, op))
    ELSE IF Refused(d, op) THEN d
    ELSE [d EXCEPT !.pending = Append(@, op)]

-----------------------------------------------------------------------------
Init ==
    /\ doc = [r \in Replicas |-> EmptyDoc]
    /\ saved = [r \in Replicas |-> EmptyDoc]
    /\ log = [r \in Replicas |-> {}]
    /\ ops = {}
    /\ reloads = 0

\* allocate: the id and the clock of the next operation of replica r.
Allocate(r, type) ==
    [type |-> type, id |-> <<r, doc[r].next>>, lamport |-> doc[r].lamport + 1,
     left |-> None, right |-> None, init |-> FALSE, target |-> None]

\* The generator moves on.
Tick(d, op) == [d EXCEPT !.next = @ + 1, !.lamport = op.lamport]

\* A local operation is integrated, appended to the durable log and handed to
\* the sync session in one worker request.
Generate(r, op) ==
    /\ Cardinality(ops) < MaxOps
    /\ op.type \in OpTypes
    /\ doc' = [doc EXCEPT ![r] = RetryPending(Place(Tick(@, op), op))]
    /\ log' = [log EXCEPT ![r] = @ \cup {op}]
    /\ ops' = ops \cup {op}
    /\ UNCHANGED <<saved, reloads>>

\* local_insert_text, local_insert_delimiter: before the item now at index i.
LocalInsert(r, i, init) ==
    /\ i <= Len(doc[r].order)
    /\ init => "setattr" \in OpTypes
    /\ LET at(k) == IF k \in DOMAIN doc[r].order THEN doc[r].order[k].id ELSE None
       IN  Generate(r, [Allocate(r, "insert") EXCEPT
                            !.left = at(i), !.right = at(i + 1), !.init = init])

\* local_delete
LocalDelete(r, i) ==
    /\ i \in DOMAIN doc[r].order
    /\ doc[r].order[i].id \notin doc[r].tomb
    /\ Generate(r, [Allocate(r, "delete") EXCEPT !.target = doc[r].order[i].id])

\* local_set_attr
LocalSetAttr(r, i) ==
    /\ i \in DOMAIN doc[r].order
    /\ Generate(r, [Allocate(r, "setattr") EXCEPT !.target = doc[r].order[i].id])

\* Mutant: a causally early operation is logged only once it is integrated.
ApplyBatchReadyOnly(d, batch) ==
    FoldLeft(LAMBDA s, op :
                 IF s.thrown \/ Refused(s.doc, op) THEN [s EXCEPT !.thrown = TRUE]
                 ELSE [s EXCEPT !.doc = ApplyRemote(s.doc, op),
                                !.durable = IF Ready(s.doc, op) THEN @ \cup {op} ELSE @],
             [doc |-> d, durable |-> {}, thrown |-> FALSE], batch)

\* The loop of applyRemote over the frames of one request: it ends at the first
\* that throws; those that were no duplicates are to become durable.
TakeFrame(s, op) ==
    IF s.thrown \/ Refused(s.doc, op) THEN [s EXCEPT !.thrown = TRUE]
    ELSE [s EXCEPT !.doc = ApplyRemote(s.doc, op),
                   !.durable = IF op.id \in s.doc.applied THEN @ ELSE @ \cup {op}]

Taken(d, batch) ==
    LET s[k \in 0..Len(batch)] ==
            IF k = 0 THEN [doc |-> d, durable |-> {}, thrown |-> FALSE] ELSE TakeFrame(s[k - 1], batch[k])
    IN  s

ApplyBatch(d, batch) == Taken(d, batch)[Len(batch)]

\* One applyRemote request: operations reach a replica, for the first time or
\* again.  A throw skips the append to the log but not what came before it.
Deliver(r, batch) ==
    /\ \E result \in {ApplyBatch(doc[r], batch)} :
           /\ doc' = [doc EXCEPT ![r] = result.doc]
           /\ log' = IF result.thrown THEN log
                     ELSE [log EXCEPT ![r] = @ \cup result.durable]
    /\ UNCHANGED <<saved, ops, reloads>>

\* import_snapshot keeps everything of the exporting engine but its identity;
\* the log is replayed over it.
Replayed(d, seq) ==
    LET replayed[k \in 0..Len(seq)] == IF k = 0 THEN d ELSE ApplyRemote(replayed[k - 1], seq[k])
    IN  replayed

Replay(d, seq) == Replayed(d, seq)[Len(seq)]

Overflows(d, seq) == \E k \in 1..Len(seq) : Refused(Replayed(d, seq)[k - 1], seq[k])

\* The orders in which a set of operations may have been written.
Orders(S) ==
    {seq \in [1..Cardinality(S) -> S] : \A op \in S : \E i \in 1..Cardinality(S) : seq[i] = op}

\* replayAndRestoreAllocation: the log is replayed over the imported engine and
\* the generator moves past everything the log shows.
RestoreAllocation(d, r, L) ==
    LET own == {op.id[2] : op \in {o \in L : o.id[1] = r}}
        top(S) == CHOOSE n \in S \cup {0} : \A k \in S : k <= n
        next == top(own) + 1
        lam  == top({op.lamport : op \in L}) + 1
    IN  IF L = {} THEN d
        ELSE [d EXCEPT !.next = IF next > @ THEN next ELSE @,
                       !.lamport = IF lam > @ THEN lam ELSE @]

\* Export and store a snapshot: pending operations and counters go with it.
SaveSnapshot(r) ==
    /\ reloads < MaxReloads
    /\ saved[r] # doc[r]
    /\ saved' = [saved EXCEPT ![r] = doc[r]]
    /\ UNCHANGED <<doc, log, ops, reloads>>

\* The engine of r is rebuilt from base and r's own log, in the order in which
\* the log was written: any, since operations arrive in any order.  A replay
\* that overflows the buffer fails the request: importSnapshot then changes
\* nothing, and the half replayed engine that restore leaves is left out.
Rebuild(r, base) ==
    /\ reloads < MaxReloads
    /\ reloads' = reloads + 1
    /\ \E seq \in Orders(log[r]) :
          /\ ~Overflows(base, seq)
          /\ doc' = [doc EXCEPT ![r] = RestoreAllocation(Replay(base, seq), r, log[r])]
    /\ UNCHANGED <<log, ops>>

\* restore: the tab is opened again, or a failed append discarded the engine.
Reload(r) == Rebuild(r, saved[r]) /\ UNCHANGED saved

\* What the engine took in: integrated or buffered.
Held(d) == d.applied \cup {d.pending[i].id : i \in DOMAIN d.pending}

\* importSnapshot with preserveLocal: the snapshot another engine exported is
\* stored and becomes the base.  The gateway offers one only to a client that is
\* behind it, and holds what its earlier snapshots held.
Import(r, e) ==
    /\ Held(saved[r]) \subseteq Held(doc[e]) \cup {op.id : op \in log[r]}
    /\ Rebuild(r, doc[e])
    /\ saved' = [saved EXCEPT ![r] = doc[e]]

Next ==
    \E r \in Replicas :
        \/ \E i \in 0..MaxOps, init \in BOOLEAN : LocalInsert(r, i, init)
        \/ \E i \in 1..MaxOps : LocalDelete(r, i) \/ LocalSetAttr(r, i)
        \/ \E n \in 1..MaxBatch : \E batch \in [1..n -> ops] : Deliver(r, batch)
        \/ SaveSnapshot(r)
        \/ Reload(r)
        \/ \E e \in Replicas \ {r} : Import(r, e)

Spec == Init /\ [][Next]_vars

\* Catch-up keeps offering a replica operations that it has not applied.
Redeliver(r) == \E op \in ops : op.id \notin doc[r].applied /\ Deliver(r, <<op>>)

\* Some operation would be taken in if it were offered now.
Offerable(r) ==
    \E op \in ops : \E result \in {ApplyBatch(doc[r], <<op>>)} :
        /\ op.id \notin doc[r].applied
        /\ result.doc # doc[r] \/ (~result.thrown /\ ~(result.durable \subseteq log[r]))

\* Weak fairness of Redeliver(r), its enabling condition written out.
FairSpec == Spec /\ \A r \in Replicas : []<>(~Offerable(r)) \/ []<><<Redeliver(r)>>_vars

-----------------------------------------------------------------------------
(* Properties *)

\* Strong convergence: replicas that applied the same operations show the same
\* document, whatever the order, duplication and reloads in between.
SameView(d, e) == d.order = e.order /\ d.tomb = e.tomb /\ d.reg = e.reg

Converged ==
    \A r, s \in Replicas :
        doc[r].applied = doc[s].applied => SameView(doc[r], doc[s])

\* An operation identity is never given out twice, reloads included.
IdsUnique == \A o, p \in ops : o.id = p.id => o = p

\* Every item stands between the anchors its author saw.
BetweenAnchors ==
    \A r \in Replicas, o \in ops :
        o.type = "insert" /\ o.id \in Items(doc[r]) =>
            LET d == doc[r]
                p == Position(d, o.id)
            IN  /\ Position(d, o.left) < p
                /\ o.right # None => p < Position(d, o.right)

\* retry_pending leaves nothing behind that could be integrated.
NothingReadyIsPending ==
    \A r \in Replicas : \A i \in DOMAIN doc[r].pending :
        ~Ready(doc[r], doc[r].pending[i])

\* The state summary a client joins with claims exactly the prefix of each
\* writer's operations that has been applied.
SummaryExact ==
    \A r, w \in Replicas :
        LET d == doc[r] IN
        /\ \A c \in 1..d.contig[w] : <<w, c>> \in d.applied
        /\ <<w, d.contig[w] + 1>> \notin d.applied
        /\ d.gaps[w] = {c \in 1..MaxOps : c > d.contig[w] /\ <<w, c>> \in d.applied}

\* What has been integrated is all that could be, and the summary says so
\* (retry_pending, note_integrated).
IntegrationExact == NothingReadyIsPending /\ SummaryExact

\* A register holds the greatest write that was applied to its item, and a
\* write issued after another one was seen always beats it.
LastWriterWins ==
    \A r \in Replicas, item \in Ids :
        LET writes == {o \in ops : /\ o.id \in doc[r].applied
                                   /\ \/ o.type = "setattr" /\ o.target = item
                                      \/ o.type = "insert" /\ o.id = item /\ o.init}
        IN  /\ writes = {} => doc[r].reg[item] = Unset
            /\ writes # {} => \E o \in writes :
                  /\ doc[r].reg[item] = StampOf(o)
                  /\ \A p \in writes \ {o} : Later(StampOf(o), StampOf(p))

\* core.ts applyRemote: "a reload replays the full replica history (origin +
\* remote), so no received content is ever lost across a reload".  Whatever the
\* engine took in, integrated or buffered, is in the snapshot or in the log.
SurvivesReload ==
    \A r \in Replicas : Held(doc[r]) \subseteq Held(saved[r]) \cup {o.id : o \in log[r]}

\* A reload loses nothing and reuses no identity (core.ts restore, applyRemote).
ReloadIsFaithful == SurvivesReload /\ IdsUnique

\* A replica never takes back what it showed: the relative order of its items
\* is fixed, and a deleted item stays deleted.  (A reload starts over.)
Before(d, x, y) == x # None /\ Position(d, x) < Position(d, y)

StableView ==
    [][\A r \in Replicas :
          doc[r].applied \subseteq doc'[r].applied =>
              /\ doc[r].tomb \subseteq doc'[r].tomb
              /\ \A x, y \in Items(doc[r]) :
                    Before(doc[r], x, y) => Before(doc'[r], x, y)]_vars

\* No acknowledged edit depends on luck: every operation is finally applied
\* everywhere and nothing stays pending.
EventuallyApplied ==
    <>[](\A r \in Replicas : /\ doc[r].applied = {o.id : o \in ops}
                             /\ doc[r].pending = <<>>)

\* PROTOCOL 4.2: "direct siblings of the left anchor whose identity compares
\* greater than the incoming item are placed before it".
GreaterSiblingFirst ==
    \A r \in Replicas, o, p \in ops :
        /\ o.type = "insert" /\ p.type = "insert"
        /\ {o.id, p.id} \subseteq Items(doc[r])
        /\ o.left = p.left /\ o.right = p.right
        /\ o.id[1] > p.id[1]
        => Position(doc[r], o.id) < Position(doc[r], p.id)

-----------------------------------------------------------------------------
(* The invariant.                                                          *)
TypeOK ==
    /\ doc \in [Replicas -> Doc] /\ saved \in [Replicas -> Doc]
    /\ ops \subseteq Op /\ IsFiniteSet(ops) /\ Cardinality(ops) <= MaxOps
    /\ log \in [Replicas -> SUBSET ops]

Inserted(O) == {o.id : o \in {p \in O : p.type = "insert"}}

\* Operations are told apart by their ids and by their stamps, and each one is
\* younger than what it refers to.
Needs(o) == IF o.type = "insert" THEN {o.left, o.right} \ {None} ELSE {o.target}

OpsInv ==
    /\ IdsUnique
    /\ \A o, p \in ops : StampOf(o) = StampOf(p) => o = p
    /\ \A o \in ops : /\ o.lamport >= 1 /\ o.lamport < 3 * Cardinality(ops)
                      /\ o.id[2] <= Cardinality(ops)
    /\ \A o \in ops : \A x \in Needs(o) :
           \E p \in ops : p.type = "insert" /\ p.id = x /\ p.lamport < o.lamport

\* A generator is past everything it has made, which is in its log.
OwnInv ==
    \A r \in Replicas :
        /\ \A d \in {doc[r], saved[r]} : d.next <= Cardinality(ops) + 1 /\ d.lamport <= 3 * Cardinality(ops)
        /\ \A o \in ops : o.id[1] = r => /\ o \in log[r]
                                         /\ o.id[2] < doc[r].next /\ o.lamport <= doc[r].lamport

\* What an engine holds of the operations O it has applied: their items, each
\* once, the deleted ones, the registers, the summary.
StreamRight(d, O) ==
    /\ \A i, j \in DOMAIN d.order : d.order[i].id = d.order[j].id => i = j
    /\ Items(d) = Inserted({o \in O : o.id \in d.applied})
    /\ \A i \in DOMAIN d.order, o \in O : o.id = d.order[i].id => o.left = d.order[i].left

RegistersRight(d, O) ==
    \A item \in Ids :
        LET writes == {o \in O : /\ o.id \in d.applied
                                 /\ \/ o.type = "setattr" /\ o.target = item
                                    \/ o.type = "insert" /\ o.id = item /\ o.init}
        IN  /\ writes = {} => d.reg[item] = Unset
            /\ writes # {} => \E o \in writes :
                  /\ d.reg[item] = StampOf(o)
                  /\ \A p \in writes \ {o} : Later(StampOf(o), StampOf(p))

SummaryRight(d) ==
    \A w \in Replicas :
        /\ \A c \in 1..d.contig[w] : <<w, c>> \in d.applied
        /\ <<w, d.contig[w] + 1>> \notin d.applied
        /\ d.gaps[w] = {c \in 1..MaxOps : c > d.contig[w] /\ <<w, c>> \in d.applied}

Sound(d, O) ==
    /\ d.applied \subseteq {o.id : o \in O}
    /\ \A o \in O : o.id \in d.applied => Ready(d, o) /\ o.lamport <= d.lamport
    /\ \A i \in DOMAIN d.pending : d.pending[i] \in O
    /\ d.tomb = {o.target : o \in {p \in O : p.type = "delete" /\ p.id \in d.applied}}
    /\ StreamRight(d, O) /\ RegistersRight(d, O) /\ SummaryRight(d)

\* Nothing in the buffer could be integrated.
Settled(d) == \A i \in DOMAIN d.pending : ~Ready(d, d.pending[i])

EngineInv ==
    \A r \in Replicas : \A d \in {doc[r], saved[r]} : Sound(d, ops) /\ Settled(d)

CrdtInv == TypeOK /\ OpsInv /\ OwnInv /\ EngineInv

\* There is one order of all items, in which each stands between its anchors,
\* an item of the subtree of a left anchor stands with that subtree, and a
\* sibling that stands between an item and its right anchor is of a greater
\* replica; and every stream follows it.
Places(O) == Inserted(O) \cup {None}

Ordered(g, O) ==
    /\ g \subseteq Places(O) \X Places(O)
    /\ \A x \in Inserted(O) : <<None, x>> \in g
    /\ \A x \in Places(O) : <<x, x>> \notin g
    /\ \A x, y \in Places(O) : x = y \/ <<x, y>> \in g \/ <<y, x>> \in g
    /\ \A x, y, z \in Places(O) : <<x, y>> \in g /\ <<y, z>> \in g => <<x, z>> \in g

Canonical(g, O) ==
    LET I == {o \in O : o.type = "insert"} IN
    /\ Ordered(g, O)
    /\ \A o \in I : /\ <<o.left, o.id>> \in g
                    /\ o.right # None => <<o.id, o.right>> \in g
    /\ \A o, p \in I : ~(<<p.left, o.left>> \in g /\ <<o.left, p.id>> \in g /\ <<p.id, o.id>> \in g)
    /\ \A o, p \in I : o.left = p.left /\ <<o.id, p.id>> \in g
                           /\ (o.right # None => <<p.id, o.right>> \in g) => o.id[1] < p.id[1]
    /\ \A o, p \in I : o.right = p.id => p.left = o.left \/ <<p.left, o.left>> \in g

Follows(d, g) ==
    \A i, j \in DOMAIN d.order : i < j => <<d.order[i].id, d.order[j].id>> \in g

Agreed(g) ==
    /\ Canonical(g, ops)
    /\ \A r \in Replicas : Follows(doc[r], g) /\ Follows(saved[r], g)

\* A replica has all it made, in its engine and for the next one.
ReplicaInv ==
    /\ SurvivesReload
    /\ \A r \in Replicas, o \in ops : o.id[1] = r => o.id \in doc[r].applied

OneOrder == ReplicaInv /\ \E g \in SUBSET (Places(ops) \X Places(ops)) : Agreed(g)
=============================================================================
