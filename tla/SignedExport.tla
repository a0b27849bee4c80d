---------------------------- MODULE SignedExport ----------------------------
(***************************************************************************)
(* Exporting signed history (exportHistory in signed-pack-panel.tsx).  The *)
(* archive is made by the gateway of what it has stored; the panel must    *)
(* not offer one that lacks what was typed before the button was pressed.  *)
(* It waits for the bridge, looks at what the status store was last told   *)
(* of the outbox, and compares the archive's digest with the replica's.    *)
(* Typing, sending, other people's edits and the reports of the outbox all *)
(* go on meanwhile.  Edits are counted; each of the two authors' edits     *)
(* reach every place in order.                                             *)
(***************************************************************************)
EXTENDS Integers

CONSTANTS
    MaxEdits,   \* bound on the edits typed
    MaxOthers   \* bound on the edits of others

VARIABLES
    typed,     \* the edits in the editor
    engine,    \* those the worker's engine holds, and so its digest
    recorded,  \* those in the outbox
    durable,   \* those on the server
    acked,     \* those the outbox knows to be on the server
    told,      \* the outbox's unacknowledged rows as last reported, -1 for never
    others,    \* the edits of others on the server
    got,       \* those of them in the engine
    panel      \* the panel, see Idle

vars == <<typed, engine, recorded, durable, acked, told, others, got, panel>>
outbox == <<recorded, durable, acked, told>>

NoArchive == [mine |-> 0, others |-> 0]
\* The state of the export, the edits there were when it was pressed, the
\* archive received and whether it was offered.
Idle == [at |-> "idle", asked |-> 0, archive |-> NoArchive, offered |-> FALSE]

Init ==
    /\ typed = 0 /\ engine = 0 /\ recorded = 0 /\ durable = 0 /\ acked = 0
    /\ told = -1 /\ others = 0 /\ got = 0 /\ panel = Idle

-----------------------------------------------------------------------------
(* What goes on meanwhile.                                                 *)

Type ==
    /\ typed < MaxEdits /\ typed' = typed + 1
    /\ UNCHANGED <<engine, outbox, others, got, panel>>

\* The bridge's lane hands the editor's state to the engine.
Reconcile ==
    /\ engine < typed /\ engine' = typed
    /\ UNCHANGED <<typed, outbox, others, got, panel>>

Record ==
    /\ recorded < engine /\ recorded' = recorded + 1
    /\ UNCHANGED <<typed, engine, durable, acked, told, others, got, panel>>

Send ==
    /\ durable < recorded /\ durable' = durable + 1
    /\ UNCHANGED <<typed, engine, recorded, acked, told, others, got, panel>>

Ack ==
    /\ acked < durable /\ acked' = durable
    /\ UNCHANGED <<typed, engine, recorded, durable, told, others, got, panel>>

\* reportOutboxState: the rows counted reach the store some time later.
Report ==
    /\ told # recorded - acked /\ told' = recorded - acked
    /\ UNCHANGED <<typed, engine, recorded, durable, acked, others, got, panel>>

OtherEdits ==
    /\ others < MaxOthers /\ others' = others + 1
    /\ UNCHANGED <<typed, engine, outbox, got, panel>>

Receive ==
    /\ got < others /\ got' = got + 1
    /\ UNCHANGED <<typed, engine, outbox, others, panel>>

-----------------------------------------------------------------------------
(* exportHistory.                                                          *)

Move(p) == panel' = p /\ UNCHANGED <<typed, engine, outbox, others, got>>
Failed == Move([panel EXCEPT !.at = "idle"])

Export ==
    /\ panel.at = "idle"
    /\ Move([Idle EXCEPT !.at = "flushing", !.asked = typed])

\* flushEditorBridge: resolves when the engine has what the editor had.
Flushed == engine >= panel.asked

\* The outbox must have nothing left, as far as the store was told.
CheckOutbox ==
    /\ panel.at = "flushing" /\ Flushed
    /\ IF told = 0 THEN Move([panel EXCEPT !.at = "requested"]) ELSE Failed

\* The gateway's archive holds what is stored when it is made.
Serve ==
    /\ panel.at = "requested"
    /\ Move([panel EXCEPT !.at = "received",
                          !.archive = [mine |-> durable, others |-> others]])

\* A refusal of the gateway or a lost answer.
Refused == panel.at = "requested" /\ Failed

\* The digest names the state: the same edits of both.
\* Mutant: the archive's digest is not compared.
SameDigestAssumed(archive) == TRUE
SameDigest(archive) == archive = [mine |-> engine, others |-> got]

Offer ==
    /\ panel.at = "received"
    /\ IF SameDigest(panel.archive) THEN Move([panel EXCEPT !.at = "idle", !.offered = TRUE])
       ELSE Failed

Next ==
    \/ Type \/ Reconcile \/ Record \/ Send \/ Ack \/ Report \/ OtherEdits \/ Receive
    \/ Export \/ CheckOutbox \/ Serve \/ Refused \/ Offer

Spec == Init /\ [][Next]_vars

-----------------------------------------------------------------------------
(* Properties.                                                             *)

\* An archive that is offered holds every edit typed before the export was
\* asked for, although what the store says of the outbox may be old (the
\* flush and the comparison of the digests in exportHistory).
ExportHoldsEdits == panel.offered => panel.archive.mine >= panel.asked

-----------------------------------------------------------------------------
(* Why it holds.                                                         *)

Panels == [at : {"idle", "flushing", "requested", "received"}, asked : Nat,
           archive : [mine : Nat, others : Nat], offered : BOOLEAN]

\* Counts are natural numbers, and the panel is in one of its four states.
TypeOK ==
    /\ typed \in Nat /\ engine \in Nat /\ recorded \in Nat /\ durable \in Nat
    /\ acked \in Nat /\ told \in Int /\ others \in Nat /\ got \in Nat
    /\ panel \in Panels

\* Past the flush the engine holds what was typed before the export, and while an
\* export is under way nothing is offered.
FlushedFirst ==
    /\ panel.at \in {"requested", "received"} => engine >= panel.asked
    /\ panel.offered => panel.at = "idle"

ExportInv == TypeOK /\ FlushedFirst /\ ExportHoldsEdits
=============================================================================
