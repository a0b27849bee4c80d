------------------------------ MODULE PackFile ------------------------------
(***************************************************************************)
(* Local Concord bundles (lib/crdt/concordpack.ts): the worker's snapshot, *)
(* operation log and digest are asked for one after the other while the    *)
(* user goes on typing, verified by rebuilding them, framed into a file,   *)
(* and later decoded and previewed from a file that may have been damaged. *)
(* A payload is a sequence of cells, one for each number and one or two    *)
(* for the bytes of an operation; a checksum is what it was taken of.      *)
(***************************************************************************)
EXTENDS Naturals, Sequences, FiniteSets, SequencesExt

CONSTANTS MaxOps,      \* bound: operations of the document
          MaxFrameOps, \* MAX_OP_COUNT
          MaxOpCells   \* MAX_OP_BYTES

VARIABLES held,    \* operations 1..held are in the worker's engine and log
          step,    \* exportConcordPack: what has been asked for
          wanted,  \* operations the user had made when the export began
          capture, \* the state captured so far
          file,    \* the file, as it was written and perhaps damaged
          shown    \* the preview of the file

vars == <<held, step, wanted, capture, file, shown>>

Nothing == [snapshot |-> 0, ops |-> 0, digest |-> {}]
NoFile == [payload |-> <<>>]
NotShown == [ok |-> FALSE, state |-> {}]

Bytes(op) == IF op % 2 = 0 THEN <<op, op>> ELSE <<op>>
Cells(n) == FlattenSeq([i \in 1..n |-> Bytes(i)])
State(cells) == {cells[i] : i \in 1..Len(cells)}

-----------------------------------------------------------------------------
\* validateState: something to bundle, and no more than a pack may hold.
Valid(c) == c.snapshot > 0 /\ c.ops <= MaxFrameOps /\ \A i \in 1..c.ops : Len(Bytes(i)) <= MaxOpCells

\* reconstructVerifiedState: import the snapshot, apply every operation, and
\* compare the digest.
Reconstructed(snapshot, ops, digest) ==
    LET state == State(snapshot) \union UNION {State(ops[i]) : i \in 1..Len(ops)}
    IN  [ok |-> state = digest, state |-> state]

OpsOf(c) == [i \in 1..c.ops |-> Bytes(i)]

\* encodeConcordPack
Encoded(c) ==
    LET snapshot == Cells(c.snapshot)
        payload == <<Len(snapshot)>> \o snapshot \o <<c.ops>>
                     \o FlattenSeq([i \in 1..c.ops |-> <<Len(Bytes(i))>> \o Bytes(i)])
    IN  [payload |-> payload, checksum |-> payload, snapshotBytes |-> Len(snapshot), opCount |-> c.ops,
         opsBytes |-> Len(Cells(c.ops)), digest |-> c.digest, bytesIntact |-> TRUE]

\* decodeConcordPack: manifest values, checksum, then the payload walked
\* length by length; whatever is missing, left over or different is refused.
Walked(f, from) ==
    LET walk[k \in 0..f.opCount] ==
            IF k = 0 THEN [ok |-> TRUE, at |-> from, ops |-> <<>>, bytes |-> 0]
            ELSE LET w == walk[k - 1]
                     length == IF w.ok /\ w.at <= Len(f.payload) THEN f.payload[w.at] ELSE 0
                     last == w.at + length
                 IN  IF length = 0 \/ length > MaxOpCells \/ last > Len(f.payload)
                     THEN [w EXCEPT !.ok = FALSE]
                     ELSE [ok |-> TRUE, at |-> last + 1, bytes |-> w.bytes + length,
                           ops |-> Append(w.ops, SubSeq(f.payload, w.at + 1, last))]
    IN  walk[f.opCount]

Refused == [ok |-> FALSE]

Decoded(f) ==
    IF \/ ~f.bytesIntact
       \/ f.snapshotBytes = 0 \/ f.opCount > MaxFrameOps
       \/ f.checksum # f.payload \/ Len(f.payload) < 2
       \/ f.payload[1] # f.snapshotBytes \/ f.payload[1] + 2 > Len(f.payload)
       \/ f.payload[f.payload[1] + 2] # f.opCount
    THEN Refused
    ELSE LET w == Walked(f, f.snapshotBytes + 3)
         IN  IF ~w.ok \/ w.at # Len(f.payload) + 1 \/ w.bytes # f.opsBytes THEN Refused
             ELSE [ok |-> TRUE, snapshot |-> SubSeq(f.payload, 2, f.snapshotBytes + 1), ops |-> w.ops]

-----------------------------------------------------------------------------
Init ==
    /\ held = 1 /\ step = "idle" /\ wanted = 0 /\ capture = Nothing
    /\ file = NoFile /\ shown = NotShown

\* The user types, or a peer's operation arrives.
Edit ==
    /\ held < MaxOps
    /\ held' = held + 1
    /\ UNCHANGED <<step, wanted, capture, file, shown>>

\* exportConcordPack's three requests to the worker.
ExportSnapshot ==
    /\ step = "idle" /\ file = NoFile
    /\ wanted' = held /\ capture' = [Nothing EXCEPT !.snapshot = held]
    /\ step' = "snapshot"
    /\ UNCHANGED <<held, file, shown>>

ExportOps ==
    /\ step = "snapshot"
    /\ capture' = [capture EXCEPT !.ops = held]
    /\ step' = "ops"
    /\ UNCHANGED <<held, wanted, file, shown>>

Digest ==
    /\ step = "ops"
    /\ capture' = [capture EXCEPT !.digest = 1..held]
    /\ step' = "captured"
    /\ UNCHANGED <<held, wanted, file, shown>>

\* The capture is verified before anything is written.
Write ==
    /\ step = "captured"
    /\ step' = "idle"
    /\ file' = IF Valid(capture) /\ Reconstructed(Cells(capture.snapshot), OpsOf(capture), capture.digest).ok
               THEN Encoded(capture) ELSE NoFile
    /\ UNCHANGED <<held, wanted, capture, shown>>

\* The file is damaged in one place: a cell of the payload, its end, one of
\* the manifest's values, or the framing around them.
Damage ==
    /\ step = "idle" /\ file # NoFile
    /\ file' \in {[file EXCEPT !.payload = ReplaceAt(@, i, v)] : i \in 1..Len(file.payload), v \in 0..MaxOps}
                 \union {[file EXCEPT !.payload = SubSeq(@, 1, Len(@) - 1)], [file EXCEPT !.payload = Append(@, 1)]}
                 \union {[file EXCEPT !.snapshotBytes = @ + 1], [file EXCEPT !.opCount = @ + 1],
                         [file EXCEPT !.opsBytes = @ + 1], [file EXCEPT !.checksum = Append(@, 1)],
                         [file EXCEPT !.digest = @ \union {MaxOps + 1}], [file EXCEPT !.bytesIntact = FALSE]}
    /\ step' = "damaged"
    /\ UNCHANGED <<held, wanted, capture, shown>>

\* previewConcordPack
Preview ==
    /\ file # NoFile /\ step \in {"idle", "damaged"}
    /\ LET d == Decoded(file)
       IN  shown' = IF ~d.ok THEN [ok |-> FALSE, state |-> {}]
                    ELSE Reconstructed(d.snapshot, d.ops, file.digest)
    /\ step' = IF step = "idle" THEN "shown" ELSE "shownDamaged"
    /\ UNCHANGED <<held, wanted, capture, file>>

Next == Edit \/ ExportSnapshot \/ ExportOps \/ Digest \/ Write \/ Damage \/ Preview

Spec == Init /\ [][Next]_vars

-----------------------------------------------------------------------------
(* A bundle that previews shows a state the document was in, with every    *)
(* edit made before the export began, although edits went on between the   *)
(* three requests; an undamaged one always previews, and no damage is      *)
(* shown as content.                                                       *)
PackShowsState ==
    /\ step = "shown" => shown.ok
    /\ step \in {"shown", "shownDamaged"} /\ shown.ok
           => shown.state = capture.digest /\ 1..wanted \subseteq shown.state
=============================================================================
