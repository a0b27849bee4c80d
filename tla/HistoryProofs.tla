--------------------------- MODULE HistoryProofs ---------------------------
(***************************************************************************)
(* Signed history as the browser checks it: the inclusion proof of         *)
(* lib/crdt/proofs.ts (audit path, receipt, state digest) and the signed   *)
(* archive of lib/crdt/signed-concordpack.ts, against what the gateway     *)
(* exports of a document whose log is compacted and whose snapshots are    *)
(* pruned over time.  Hashes and signatures are free constructors, a       *)
(* document state is the set of its operations, and the state digest is    *)
(* the state itself.                                                       *)
(***************************************************************************)
EXTENDS Integers, Sequences, FiniteSets, SequencesExt, FiniteSetsExt

CONSTANTS MaxSeq,       \* bound: the largest sequence number
          MaxSnapshots, MaxRevisions, \* bounds
          Key           \* the gateway's signing key

VARIABLES log,       \* retained operations: their sequence numbers, ascending
          written,   \* every operation the document ever accepted
          floor,     \* compaction floor, 0 for none
          snapshots, \* finalized snapshots: their boundaries, ascending
          revisions  \* revisions: their boundaries, in order of creation

vars == <<log, written, floor, snapshots, revisions>>

None == {-1} \* no digest: the revision's state has been pruned

Greatest(a, b) == IF a > b THEN a ELSE b
Cursor == IF log = <<>> THEN floor ELSE Greatest(Last(log), floor)
UpTo(boundary) == {s \in written : s <= boundary}

\* How many rows of an ascending table lie up to a boundary.
Through(rows, boundary) ==
    CHOOSE n \in 0..Len(rows) : \A i \in 1..Len(rows) : rows[i] <= boundary <=> i <= n

-----------------------------------------------------------------------------
(* Merkle trees: leaves and nodes are distinguishable and collision-free.  *)
Leaf(seq) == <<"leaf", seq>>
Node(left, right) == <<"node", left, right>>
Empty == <<"zero">>

Pair(level, i) == Node(level[2*i - 1], IF 2*i <= Len(level) THEN level[2*i] ELSE level[2*i - 1])
NextLevel(level) == [i \in 1..((Len(level) + 1) \div 2) |-> Pair(level, i)]

\* The gateway's levels, bottom up; MaxSeq leaves never need more.
Levels(leaves) ==
    LET f[k \in 0..MaxSeq] == IF k = 0 THEN leaves
                              ELSE IF Len(f[k-1]) <= 1 THEN f[k-1] ELSE NextLevel(f[k-1])
    IN  f

ServerRoot(leaves) == IF leaves = <<>> THEN Empty ELSE Levels(leaves)[MaxSeq][1]

\* The level of the root, and where the node above an index is at each level.
Depth(leaves) ==
    CHOOSE k \in 0..MaxSeq : Len(Levels(leaves)[k]) <= 1 /\ \A j \in 0..(k-1) : Len(Levels(leaves)[j]) > 1

Above(index) == LET at[k \in 0..MaxSeq] == IF k = 0 THEN index ELSE at[k-1] \div 2 IN at

Sibling(level, i) ==
    LET s == IF i % 2 = 0 THEN i + 1 ELSE i - 1
    IN  IF s < Len(level) THEN level[s + 1] ELSE level[i + 1]

\* merkle_proof: the sibling at every level, the node itself at an odd end.
Path(leaves, index) ==
    [k \in 1..Depth(leaves) |-> Sibling(Levels(leaves)[k - 1], Above(index)[k - 1])]

\* Mutant: the side is taken from the original index at every level.
ReplayMerklePathFlat(leaf, index, proof) ==
    FoldLeft(LAMBDA acc, sibling : [at |-> acc.at,
                 hash |-> IF acc.at % 2 = 0 THEN Node(acc.hash, sibling) ELSE Node(sibling, acc.hash)],
             [at |-> index, hash |-> leaf], proof).hash

\* replayMerklePath: one node up for each sibling, on the side the index says.
Climb(leaf, index, proof) ==
    LET up[k \in 0..Len(proof)] ==
            IF k = 0 THEN [at |-> index, hash |-> leaf]
            ELSE [at |-> up[k-1].at \div 2,
                  hash |-> IF up[k-1].at % 2 = 0 THEN Node(up[k-1].hash, proof[k])
                           ELSE Node(proof[k], up[k-1].hash)]
    IN  up

ReplayMerklePath(leaf, index, proof) == Climb(leaf, index, proof)[Len(proof)].hash

\* operationRoot
ClientLevel(level) ==
    [i \in 1..((Len(level) + 1) \div 2) |->
        Node(level[2*i - 1], IF 2*i <= Len(level) THEN level[2*i] ELSE level[2*i - 1])]

ClientLevels(leaves) ==
    LET f[k \in 0..MaxSeq] == IF k = 0 THEN leaves ELSE IF Len(f[k-1]) > 1 THEN ClientLevel(f[k-1]) ELSE f[k-1]
    IN  f

OperationRoot(leaves) == IF leaves = <<>> THEN Empty ELSE ClientLevels(leaves)[MaxSeq][1]

Leaves(seqs) == [i \in 1..Len(seqs) |-> Leaf(seqs[i])]

-----------------------------------------------------------------------------
(* Inclusion proofs.                                                       *)
Message(receipt) == <<receipt.seq, receipt.root, receipt.digest, receipt.opCount, receipt.keyId>>
Sign(message) == <<Key, message>>

\* GET .../proof: the last retained leaf, and a signed receipt.
ProofOf(seqs) ==
    LET leaves == Leaves(seqs)
        receipt == [seq |-> Cursor, root |-> ServerRoot(leaves), digest |-> UpTo(Cursor),
                    opCount |-> Len(seqs), keyId |-> Key]
    IN  [leaf |-> IF leaves = <<>> THEN Empty ELSE Last(leaves),
         index |-> IF leaves = <<>> THEN 0 ELSE Len(leaves) - 1,
         proof |-> IF leaves = <<>> THEN <<>> ELSE Path(leaves, Len(leaves) - 1),
         root |-> ServerRoot(leaves), opCount |-> Len(seqs),
         receipt |-> receipt, signature |-> Sign(Message(receipt))]

\* verifyProofDocument, against the caller's own replica.
VerifyProof(p, local) ==
    LET replayed == ReplayMerklePath(p.leaf, p.index, p.proof)
    IN  [merkleOk |-> replayed = p.root /\ replayed = p.receipt.root
                      /\ (p.opCount = 0 => p.root = Empty),
         signatureOk |-> p.signature = Sign(Message(p.receipt)),
         stateMatch |-> local = p.receipt.digest]

-----------------------------------------------------------------------------
(* Archives.  A snapshot of boundary s holds the operations up to s.       *)
BaseSnapshot(archive, boundary) ==
    LET below == boundary < archive.floor
        fits == {i \in 1..Len(archive.snapshots) :
                    /\ archive.snapshots[i].seq = (IF below THEN boundary ELSE archive.floor)
                    /\ below \/ archive.floor > 0}
    IN  IF fits = {} THEN 0 ELSE Max(fits)

\* inputs: what the state at a boundary is rebuilt from, or nothing when it
\* has been pruned; the client's and the gateway's rule are the same.
Pruned(archive, boundary) == boundary # 0 /\ boundary < archive.floor /\ BaseSnapshot(archive, boundary) = 0

\* state: the snapshot's state and the operations after it.
StateAt(archive, boundary) ==
    LET base == IF boundary = 0 THEN 0 ELSE BaseSnapshot(archive, boundary)
        start == IF base = 0 THEN 0 ELSE archive.snapshots[base].seq
    IN  (IF base = 0 THEN {} ELSE archive.snapshots[base].state)
        \union {archive.operations[i] : i \in {j \in 1..Len(archive.operations) :
                    archive.operations[j] > start /\ archive.operations[j] <= boundary}}

\* export: the snapshots taken up to now; an empty document carries an empty
\* one, ...
Listed ==
    LET kept == SubSeq(snapshots, 1, Through(snapshots, Cursor))
        list == IF floor = 0 /\ kept = <<>> /\ log = <<>> THEN <<0>> ELSE kept
    IN  [i \in 1..Len(list) |-> [seq |-> list[i], state |-> UpTo(list[i])]]

\* ... the retained log and the revisions, each with its digest unless its
\* state is pruned.
Exported ==
    LET body == [floor |-> floor, operations |-> log, snapshots |-> Listed]
        digestAt(b) == IF Pruned(body, b) THEN None ELSE StateAt(body, b)
    IN  [floor |-> floor, seq |-> Cursor, base |-> floor, operations |-> log,
         snapshots |-> Listed, root |-> ServerRoot(Leaves(log)),
         digest |-> StateAt(body, Cursor),
         revisions |-> [i \in 1..Len(revisions) |->
             [seq |-> revisions[i], digest |-> digestAt(revisions[i])]]]

\* verifySignedConcordPack, after trust, signature and payload checksum: the
\* snapshot boundary, the operation log and its root, ...
LogAgrees(a) ==
    /\ a.floor <= a.seq /\ a.base = a.floor
    /\ a.floor > 0 => \E i \in 1..Len(a.snapshots) : a.snapshots[i].seq = a.floor
    /\ \A i \in 1..Len(a.operations) :
           /\ a.operations[i] > (IF i = 1 THEN 0 ELSE a.operations[i - 1])
           /\ a.operations[i] > a.floor /\ a.operations[i] <= a.seq
    /\ LET previous == IF a.operations = <<>> THEN 0 ELSE Last(a.operations)
       IN  a.seq = (IF previous > a.floor THEN previous ELSE a.floor)
    /\ OperationRoot(Leaves(a.operations)) = a.root

\* ... every snapshot, in order and as the log rebuilds it, ...
SnapshotsAgree(a) ==
    \A i \in 1..Len(a.snapshots) :
        /\ i > 1 => a.snapshots[i].seq >= a.snapshots[i - 1].seq
        /\ a.snapshots[i].seq <= a.seq
        /\ a.snapshots[i].seq >= a.floor \/ a.snapshots[i].seq = 0
               => StateAt(a, a.snapshots[i].seq) = a.snapshots[i].state

\* ... every revision, pruned exactly when it says so, and the head.
RevisionsAgree(a) ==
    /\ \A i \in 1..Len(a.revisions) :
           /\ a.revisions[i].seq <= a.seq
           /\ IF a.revisions[i].digest = None THEN Pruned(a, a.revisions[i].seq)
              ELSE ~Pruned(a, a.revisions[i].seq) /\ StateAt(a, a.revisions[i].seq) = a.revisions[i].digest
    /\ StateAt(a, a.seq) = a.digest

Verified(a) == LogAgrees(a) /\ SnapshotsAgree(a) /\ RevisionsAgree(a)

-----------------------------------------------------------------------------
(* The document's history (DocStore): only what an export can meet.        *)
Init ==
    log = <<>> /\ written = {} /\ floor = 0 /\ snapshots = <<>> /\ revisions = <<>>

Write(seq) ==
    /\ seq > Cursor
    /\ log' = Append(log, seq) /\ written' = written \union {seq}
    /\ UNCHANGED <<floor, snapshots, revisions>>

Snapshot ==
    /\ Len(snapshots) < MaxSnapshots
    /\ \A i \in 1..Len(snapshots) : snapshots[i] < Cursor
    /\ Cursor > 0
    /\ snapshots' = Append(snapshots, Cursor)
    /\ UNCHANGED <<log, written, floor, revisions>>

Compact(i) ==
    /\ snapshots[i] > floor
    /\ floor' = snapshots[i]
    /\ log' = SubSeq(log, Through(log, floor') + 1, Len(log))
    /\ UNCHANGED <<written, snapshots, revisions>>

PruneSnapshot(i) ==
    /\ snapshots[i] # floor
    /\ snapshots' = RemoveAt(snapshots, i)
    /\ UNCHANGED <<log, written, floor, revisions>>

CreateRevision ==
    /\ Len(revisions) < MaxRevisions
    /\ revisions' = Append(revisions, Cursor)
    /\ UNCHANGED <<log, written, floor, snapshots>>

Next ==
    \/ \E seq \in 1..MaxSeq : Write(seq)
    \/ Snapshot \/ CreateRevision
    \/ \E i \in 1..Len(snapshots) : Compact(i) \/ PruneSnapshot(i)

Spec == Init /\ [][Next]_vars

-----------------------------------------------------------------------------
(* An audit path proves one operation at one place: replayed in the        *)
(* browser it reaches the gateway's root for the operation at that index   *)
(* and for no other, and the proof document the gateway sends passes all   *)
(* three checks on an up-to-date replica and on no other.                  *)
ProofBinds ==
    /\ \A i \in 1..Len(log), s \in 1..MaxSeq :
           ReplayMerklePath(Leaf(s), i - 1, Path(Leaves(log), i - 1)) = ServerRoot(Leaves(log)) <=> s = log[i]
    /\ \A local \in {UpTo(b) : b \in 0..MaxSeq} :
           VerifyProof(ProofOf(log), local) = [merkleOk |-> TRUE, signatureOk |-> TRUE,
                                               stateMatch |-> local = written]

(* Whatever has been compacted and pruned, an archive the gateway exports  *)
(* passes the browser's verification, and each state it shows as retained  *)
(* is the document as it was at that boundary.                             *)
ExportVerifies ==
    /\ Verified(Exported)
    /\ \A i \in 1..Len(Exported.revisions) :
           Exported.revisions[i].digest \in {None, UpTo(revisions[i])}

-----------------------------------------------------------------------------
(* The invariant.                                                          *)
Ascending(rows) == \A i, j \in 1..Len(rows) : i < j => rows[i] < rows[j]

TypeOK ==
    /\ log \in Seq(1..MaxSeq) /\ written \subseteq 1..MaxSeq /\ floor \in 0..MaxSeq
    /\ snapshots \in Seq(1..MaxSeq) /\ revisions \in Seq(0..MaxSeq)

\* The log is what was written beyond the floor, in order, and what lies
\* below it is in the snapshot taken there.
LogIsWhole ==
    /\ Ascending(log) /\ \A i \in 1..Len(log) : log[i] >= i
    /\ \A i \in 1..Len(log) : log[i] \in written /\ log[i] > floor
    /\ \A s \in written : s <= Cursor /\ (s > floor => \E i \in 1..Len(log) : log[i] = s)
    /\ floor > 0 => \E i \in 1..Len(snapshots) : snapshots[i] = floor

\* No snapshot or revision is of a state the document has not reached.
NothingAhead ==
    /\ Ascending(snapshots) /\ \A i \in 1..Len(snapshots) : snapshots[i] <= Cursor
    /\ \A i \in 1..Len(revisions) : revisions[i] <= Cursor

ProofsInv == TypeOK /\ LogIsWhole /\ NothingAhead
=============================================================================
