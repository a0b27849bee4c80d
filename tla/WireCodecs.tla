----------------------------- MODULE WireCodecs -----------------------------
(***************************************************************************)
(* What travels between a browser and the gateway: binary frames of        *)
(* operations (protocol.ts, data.rs), and snapshots as base64 text of a    *)
(* wrapper around the core's bytes (snapshot-resync.ts, db/snapshots.rs).  *)
(* The widths are parameters: a byte has ByteSize values and a base64      *)
(* character CharSize, with ByteSize^3 = CharSize^4 as 256^3 = 64^4; every *)
(* integer of a header takes one cell.                                     *)
(***************************************************************************)
EXTENDS Integers, Sequences, SequencesExt, FiniteSetsExt

CONSTANTS
    ByteSize, CharSize,
    MaxOps,        \* operations of a frame (1024)
    MaxOpBytes,    \* bytes of an operation (65536)
    MaxPayload,    \* bytes of a client's batch (4 MiB)
    MaxSafe,       \* the largest integer a number holds exactly (2^53 - 1)
    MaxU64,        \* the largest u64
    MaxDigits,     \* digits of a decimal (20)
    MaxInput,      \* bound on the cells that arrive
    MaxDamage      \* bound on the changes to a snapshot payload

VARIABLES
    medium,   \* what is received: "frame", "base64", "decimal", "wrapper", "snapshot"
    input,    \* the cells received so far
    envelope, \* the snapshot payload received, see Payload
    damage    \* how often it was changed on its way

vars == <<medium, input, envelope, damage>>

Refused == << >>
Accepted(value) == <<value>>
From(s, n) == SubSeq(s, n, Len(s))

-----------------------------------------------------------------------------
(* Frames of operations: version, kind, batch id or cursor, more flag      *)
(* (catch-up only), count, and the operations, each after its length.      *)

Version == 1
ClientOps == 2
SyncBatch == 3

Size(ops) == FoldSeq(LAMBDA op, n : n + Len(op) + 1, 0, ops)

\* Where each operation begins; past the end when a length or its bytes are
\* missing or out of range.
Starts(bytes, count) ==
    LET start[k \in 0 .. count] ==
            IF k = 0 THEN 1
            ELSE LET s == start[k - 1]
                 IN IF s \in DOMAIN bytes /\ bytes[s] \in 1 .. MaxOpBytes
                    THEN s + 1 + bytes[s] ELSE Len(bytes) + 2
    IN start

\* Mutant: what follows the counted operations is ignored.
ConsumedPrefix(end, bytes) == end <= Len(bytes) + 1

Consumed(end, bytes) == end = Len(bytes) + 1

ReadOps(bytes, count) ==
    LET start == Starts(bytes, count)
    IN IF count <= MaxOps /\ Consumed(start[count], bytes)
       THEN Accepted([k \in 1 .. count |-> SubSeq(bytes, start[k - 1] + 1, start[k] - 1)])
       ELSE Refused

DecodeClientOps(bytes) ==
    LET ops == IF Len(bytes) < 4 THEN Refused ELSE ReadOps(From(bytes, 5), bytes[4])
    IN IF ops # Refused /\ Size(ops[1]) <= MaxPayload
       THEN Accepted([kind |-> ClientOps, batchId |-> bytes[3], ops |-> ops[1]])
       ELSE Refused

DecodeSyncBatch(bytes) ==
    LET ops == IF Len(bytes) < 5 THEN Refused ELSE ReadOps(From(bytes, 6), bytes[5])
    IN IF ops # Refused /\ bytes[4] <= 1 /\ bytes[3] <= MaxSafe
       THEN Accepted([kind |-> SyncBatch, nextCursor |-> bytes[3],
                      hasMore |-> bytes[4] = 1, ops |-> ops[1]])
       ELSE Refused

DecodeDataFrame(bytes) ==
    IF Len(bytes) < 2 \/ bytes[1] # Version THEN Refused
    ELSE CASE bytes[2] = ClientOps -> DecodeClientOps(bytes)
           [] bytes[2] = SyncBatch -> DecodeSyncBatch(bytes)
           [] OTHER -> Refused

Body(ops) == FlattenSeq([k \in DOMAIN ops |-> <<Len(ops[k])>> \o ops[k]])

EncodeClientOps(f) == <<Version, ClientOps, f.batchId, Len(f.ops)>> \o Body(f.ops)

EncodeSyncBatch(f) ==
    <<Version, SyncBatch, f.nextCursor, IF f.hasMore THEN 1 ELSE 0, Len(f.ops)>> \o Body(f.ops)

-----------------------------------------------------------------------------
(* Base64.  Characters are numbers below CharSize, the padding character,  *)
(* and one that is outside the alphabet.                                   *)

Pad == CharSize
Outside == CharSize + 1

Canonical(n, spare) == n % spare = 0

Chunks(s, size) ==
    [k \in 1 .. (Len(s) + size - 1) \div size |->
         SubSeq(s, size * (k - 1) + 1, Min({size * k, Len(s)}))]

Number(digits, radix) == FoldLeft(LAMBDA n, d : n * radix + d, 0, digits)

\* What is left over when `chars` characters hold one byte less.
Spare(chars) == IF chars = 4 THEN 1 ELSE CharSize^chars \div ByteSize^(chars - 1)

Bytes(chunk) ==
    LET n == Number(chunk, CharSize)
        value == n \div Spare(Len(chunk))
        count == Len(chunk) - 1
    IN [k \in 1 .. count |-> (value \div ByteSize^(count - k)) % ByteSize]

DecodeBase64(text) ==
    LET Ends(pads) == Len(text) >= pads /\ \A k \in 1 .. pads : text[Len(text) + 1 - k] = Pad
        pads == Max({p \in 0 .. 2 : Ends(p)})
        chars == SubSeq(text, 1, Len(text) - pads)
        chunks == Chunks(chars, 4)
    IN IF /\ Len(text) % 4 = 0
          /\ \A k \in DOMAIN chars : chars[k] < CharSize
          /\ \A k \in DOMAIN chunks : Canonical(Number(chunks[k], CharSize), Spare(Len(chunks[k])))
       THEN Accepted(FlattenSeq([k \in DOMAIN chunks |-> Bytes(chunks[k])]))
       ELSE Refused

EncodeChunk(bytes) ==
    LET n == Number(bytes, ByteSize) * ByteSize^(3 - Len(bytes))
    IN [k \in 1 .. 4 |-> IF k <= Len(bytes) + 1 THEN (n \div CharSize^(4 - k)) % CharSize ELSE Pad]

EncodeBase64(bytes) ==
    FlattenSeq([k \in DOMAIN Chunks(bytes, 3) |-> EncodeChunk(Chunks(bytes, 3)[k])])

-----------------------------------------------------------------------------
(* Decimal u64s; a digit is below ByteSize.                                *)

ParseU64Decimal(digits) ==
    IF /\ Len(digits) \in 1 .. MaxDigits
       /\ digits[1] = 0 => Len(digits) = 1
       /\ Number(digits, ByteSize) <= MaxU64
    THEN Accepted(Number(digits, ByteSize)) ELSE Refused

Decimal(n) == IF n < ByteSize THEN <<n>> ELSE <<n \div ByteSize, n % ByteSize>>

-----------------------------------------------------------------------------
(* Snapshots.                                                              *)

DecodeWrapper(bytes) ==
    IF Len(bytes) >= 5 /\ bytes[1] = Version /\ Len(bytes) = 5 + bytes[5]
    THEN Accepted([document |-> bytes[2], coverageSeq |-> bytes[3],
                   opCount |-> bytes[4], inner |-> From(bytes, 6)])
    ELSE Refused

EncodeWrapper(w) ==
    <<Version, w.document, w.coverageSeq, w.opCount, Len(w.inner)>> \o w.inner

\* No two texts have one digest.
Sha256(bytes) == bytes

\* The gateway's snapshots: two of document 0 and one of document 1.
Snapshots ==
    <<[document |-> 0, coverageSeq |-> 2, opCount |-> 2, inner |-> <<1>>],
      [document |-> 0, coverageSeq |-> 3, opCount |-> 2, inner |-> <<1, 2>>],
      [document |-> 1, coverageSeq |-> 2, opCount |-> 2, inner |-> <<3>>]>>

Payload(id) ==
    LET w == Snapshots[id]
    IN [snapshotId |-> id, version |-> Version, coverageSeq |-> Decimal(w.coverageSeq),
        opCount |-> Decimal(w.opCount), checksum |-> Sha256(EncodeWrapper(w)),
        base64 |-> EncodeBase64(EncodeWrapper(w)), size |-> Decimal(Len(EncodeWrapper(w)))]

\* The signal the client remembers names the snapshot and repeats its metadata.
Agrees(p, signal) ==
    LET announced == Payload(signal)
    IN /\ p.snapshotId = announced.snapshotId /\ p.checksum = announced.checksum
       /\ p.coverageSeq = announced.coverageSeq /\ p.opCount = announced.opCount
       /\ p.version = announced.version

DigestMatches(bytes, checksum) == Sha256(bytes) = checksum

ValidateServerSnapshot(p, document) ==
    LET bytes == DecodeBase64(p.base64)
        wrapper == IF bytes = Refused THEN Refused ELSE DecodeWrapper(bytes[1])
        Is(digits, n) == ParseU64Decimal(digits) = Accepted(n)
    IN IF /\ p.version = Version /\ wrapper # Refused
          /\ Is(p.size, Len(bytes[1]))
          /\ wrapper[1].document = document
          /\ Is(p.coverageSeq, wrapper[1].coverageSeq)
          /\ Is(p.opCount, wrapper[1].opCount)
          /\ DigestMatches(bytes[1], p.checksum)
       THEN Accepted(wrapper[1].inner) ELSE Refused

-----------------------------------------------------------------------------
(* Any cells may arrive, and a snapshot payload with one part changed: cut, *)
(* altered in one character, or taken from another snapshot.               *)

Cells(m) == CASE m = "frame" -> 0 .. 3
              [] m = "base64" -> {0, 1, Pad, Outside}
              [] m = "decimal" -> {0, 1, ByteSize - 1}
              [] m = "wrapper" -> 0 .. 2
              [] OTHER -> {}

Init ==
    /\ medium \in {"frame", "base64", "decimal", "wrapper", "snapshot"}
    /\ input = << >> /\ damage = 0
    /\ \E id \in IF medium = "snapshot" THEN DOMAIN Snapshots ELSE {1} : envelope = Payload(id)

Arrive(cell) ==
    /\ medium # "snapshot" /\ Len(input) < MaxInput
    /\ input' = Append(input, cell)
    /\ UNCHANGED <<medium, envelope, damage>>

Damage(p) ==
    /\ medium = "snapshot" /\ damage < MaxDamage
    /\ envelope' = p /\ damage' = damage + 1
    /\ UNCHANGED <<medium, input>>

AlterText(k, c) == Damage([envelope EXCEPT !.base64[k] = c])
CutText(k) == Damage([envelope EXCEPT !.base64 = SubSeq(@, 1, k)])
Exchange(field, id) == Damage([envelope EXCEPT ![field] = Payload(id)[field]])

Next ==
    \/ \E cell \in Cells(medium) : Arrive(cell)
    \/ \E k \in DOMAIN envelope.base64, c \in {0, 1, CharSize - 1, Pad} : AlterText(k, c)
    \/ \E k \in DOMAIN envelope.base64 : CutText(k)
    \/ \E field \in DOMAIN envelope, id \in DOMAIN Snapshots : Exchange(field, id)

Spec == Init /\ [][Next]_vars

-----------------------------------------------------------------------------
Exact(decoded, Encode(_), text) == decoded # Refused => Encode(decoded[1]) = text

EncodeDataFrame(f) == IF f.kind = ClientOps THEN EncodeClientOps(f) ELSE EncodeSyncBatch(f)

\* Every decoder accepts exactly what the other side's encoder writes for the
\* value it returns, so nothing cut, extended or padded differently is taken
\* for something else, and what is encoded is decoded (decodeDataFrame, decodeBase64, parseU64Decimal and
\* decodeSnapshotWrapper against data.rs, base64_encode and encode_wrapper).
CodecsExact ==
    CASE medium = "frame" -> Exact(DecodeDataFrame(input), EncodeDataFrame, input)
      [] medium = "base64" -> Exact(DecodeBase64(input), EncodeBase64, input)
      [] medium = "decimal" -> Exact(ParseU64Decimal(input), Decimal, input)
      [] medium = "wrapper" -> /\ Exact(DecodeWrapper(input), EncodeWrapper, input)
                               /\ DecodeBase64(EncodeBase64(input)) = Accepted(input)
      [] OTHER -> TRUE

\* A snapshot is imported exactly when the payload is the announced one of this
\* document, unchanged (handleSnapshotPayload, validateServerSnapshot).
ImportsAnnounced ==
    medium = "snapshot" =>
        \A signal \in DOMAIN Snapshots :
            LET inner == ValidateServerSnapshot(envelope, 0)
                announced == Snapshots[signal]
            IN /\ Agrees(envelope, signal) /\ inner # Refused =>
                      announced.document = 0 /\ inner = Accepted(announced.inner)
               /\ envelope = Payload(signal) /\ announced.document = 0 => inner # Refused
=============================================================================
