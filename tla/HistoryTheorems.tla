-------------------------- MODULE HistoryTheorems --------------------------
(***************************************************************************)
(* What holds of review branches, signed exports, signed imports, signed   *)
(* history and the deployment's configuration for any number of tabs,      *)
(* names, archives, edits, attempts, operations and snapshots.             *)
(***************************************************************************)
EXTENDS History, Integers, Sequences, WellFoundedInduction, TLAPS

-----------------------------------------------------------------------------
(* SignedExport: the engine, whose digest the archive has to match, was    *)
(* flushed before the request and never loses an edit; the report of the   *)
(* outbox is not needed.                                                   *)

\* It holds at the start.
LEMMA InitExport == Export!Init => Export!ExportInv
BY DEF Export!Init, Export!ExportInv, Export!TypeOK, Export!Panels, Export!Idle,
   Export!NoArchive, Export!FlushedFirst, Export!ExportHoldsEdits

\* Each step preserves it: typing and syncing only add to the engine, and the
\* panel moves from one state to the next.
LEMMA StepExport == Export!ExportInv /\ Export!Next => Export!ExportInv'
<1> SUFFICES ASSUME Export!ExportInv, Export!Next PROVE Export!ExportInv'
    OBVIOUS
<1> USE DEF Export!ExportInv, Export!TypeOK, Export!FlushedFirst, Export!ExportHoldsEdits
<1>1. CASE \/ Export!Type \/ Export!Reconcile \/ Export!Record \/ Export!Send
           \/ Export!Ack \/ Export!Report \/ Export!OtherEdits \/ Export!Receive
    <2>1. panel' = panel /\ engine' \in Nat /\ engine' >= engine
        BY <1>1 DEF Export!Type, Export!Reconcile, Export!Record, Export!Send, Export!Ack,
           Export!Report, Export!OtherEdits, Export!Receive, Export!outbox
    <2>2. /\ typed' \in Nat /\ recorded' \in Nat /\ durable' \in Nat
          /\ acked' \in Nat /\ told' \in Int /\ others' \in Nat /\ got' \in Nat
        BY <1>1 DEF Export!Type, Export!Reconcile, Export!Record, Export!Send, Export!Ack,
           Export!Report, Export!OtherEdits, Export!Receive, Export!outbox
    <2>3. panel.asked \in Nat
        BY DEF Export!Panels
    <2> QED
        BY <2>1, <2>2, <2>3
<1>2. CASE Export!Export
    BY <1>2 DEF Export!Export, Export!Move, Export!outbox, Export!Idle, Export!NoArchive,
       Export!Panels
<1>3. CASE Export!CheckOutbox
    BY <1>3 DEF Export!CheckOutbox, Export!Flushed, Export!Failed, Export!Move, Export!outbox,
       Export!Panels
<1>4. CASE Export!Serve
    BY <1>4 DEF Export!Serve, Export!Move, Export!outbox, Export!Panels
<1>5. CASE Export!Refused
    BY <1>5 DEF Export!Refused, Export!Failed, Export!Move, Export!outbox, Export!Panels
<1>6. CASE Export!Offer
    <2>1. CASE Export!SameDigest(panel.archive)
        <3>1. panel.archive.mine = engine
            BY <2>1 DEF Export!SameDigest
        <3> QED
            BY <1>6, <2>1, <3>1 DEF Export!Offer, Export!Move, Export!outbox, Export!Panels
    <2>2. CASE ~Export!SameDigest(panel.archive)
        BY <1>6, <2>2 DEF Export!Offer, Export!Failed, Export!Move, Export!outbox, Export!Panels
    <2> QED
        BY <2>1, <2>2
<1> QED
    BY <1>1, <1>2, <1>3, <1>4, <1>5, <1>6 DEF Export!Next

\* The inductive invariant of the export (exportHistory in signed-pack-panel.tsx).
THEOREM ExportInvariant == Spec => [](part = "SignedExport" => Export!ExportInv)
<1> DEFINE I == part = "SignedExport" => Export!ExportInv
<1>1. Init => I
  <2>1. Init /\ part = "SignedExport" => Export!Init
    BY DEF Init
  <2> QED BY <2>1, InitExport
<1>2. I /\ [Next]_vars => I'
  <2> SUFFICES ASSUME I, [Next]_vars, part' = "SignedExport" PROVE Export!ExportInv'
    OBVIOUS
  <2>1. CASE UNCHANGED vars
    BY <2>1 DEF vars, exportVars, Export!ExportInv, Export!TypeOK,
                Export!FlushedFirst, Export!ExportHoldsEdits
  <2>2. CASE Next
    <3>1. part = "SignedExport" /\ Export!Next
      BY <2>2 DEF Next
    <3> QED BY <3>1, StepExport
  <2> QED BY <2>1, <2>2
<1> QED BY <1>1, <1>2, PTL DEF Spec

\* The archive offered holds the edits typed before (exportHistory).
THEOREM OfferedHoldsEdits == Spec => [](part = "SignedExport" => Export!ExportHoldsEdits)
<1>1. Export!ExportInv => Export!ExportHoldsEdits
  BY DEF Export!ExportInv
<1> QED BY <1>1, ExportInvariant, PTL

-----------------------------------------------------------------------------
(* SignedImport: what localStorage keeps for an archive is set before      *)
(* anything is sent and never changed, so every request for that archive   *)
(* carries the same id.                                                    *)

\* A fresh panel has its type and claims nothing.
LEMMA FreshIsPanel ==
    Import!Fresh \in Import!Panels /\ \A records : Import!PanelOK(Import!Fresh, records)
BY DEF Import!Fresh, Import!Panels, Import!Files, Import!Details, Import!Texts, Import!Verdicts,
   Import!Queries, Import!NoVerdict, Import!NoQuery, Import!PanelOK

\* It holds at the start.
LEMMA InitImport == Import!Init => Import!ImportInv
<1> SUFFICES ASSUME Import!Init PROVE Import!ImportInv
    OBVIOUS
<1>1. Import!NoPending \in Import!Pendings
    BY DEF Import!NoPending, Import!Pendings, Import!Texts, Import!Details
<1>2. Import!TypeOK
    BY <1>1, FreshIsPanel DEF Import!Init, Import!TypeOK
<1>3. \A t \in Tabs : Import!PanelOK(panel[t], imports)
    BY FreshIsPanel DEF Import!Init
<1> QED
    BY <1>2, <1>3 DEF Import!ImportInv, Import!OneId, Import!Init

\* A step of one panel that stays sound, and leaves the rest alone.
LEMMA PanelStep ==
    ASSUME Import!ImportInv, NEW t \in Tabs, NEW p \in Import!Panels, Import!PanelOK(p, imports),
           panel' = [panel EXCEPT ![t] = p], UNCHANGED <<disk, drawn, queries, imports>>
    PROVE  Import!ImportInv'
<1>1. Import!TypeOK'
    BY DEF Import!ImportInv, Import!TypeOK
<1>2. ASSUME NEW u \in Tabs PROVE Import!PanelOK(panel'[u], imports')
    <2>1. CASE u = t
        BY <2>1 DEF Import!ImportInv, Import!TypeOK
    <2>2. CASE u # t
        <3>1. panel'[u] = panel[u]
            BY <2>2 DEF Import!ImportInv, Import!TypeOK
        <3> QED
            BY <3>1 DEF Import!ImportInv
    <2> QED
        BY <2>1, <2>2
<1>3. Import!OneId'
    BY DEF Import!ImportInv, Import!OneId
<1> QED
    BY <1>1, <1>2, <1>3 DEF Import!ImportInv

\* What the invariant says of one panel.
LEMMA PanelFields ==
    ASSUME Import!ImportInv, NEW t \in Tabs
    PROVE  panel[t] \in Import!Panels /\ Import!PanelOK(panel[t], imports)
BY DEF Import!ImportInv, Import!TypeOK

\* invalidate leaves the rest of the panel as it is.
LEMMA InvalidatedFields ==
    ASSUME NEW p \in Import!Panels
    PROVE  LET i == Import!Invalidated(p) IN
           /\ i \in Import!Panels /\ i.verified = Import!NoVerdict /\ i.restored = 0
           /\ i.file = p.file /\ i.busy = p.busy
BY DEF Import!Invalidated, Import!Panels, Import!Verdicts, Import!Files, Import!Details,
   Import!NoVerdict

\* Choosing and entering take back what was verified and restored.
LEMMA InputStep ==
    ASSUME Import!ImportInv, NEW t \in Tabs,
           \/ \E a \in Archives : Import!ChooseFile(t, a)
           \/ \E trust \in Import!Trusts : Import!EnterTrust(t, trust)
           \/ \E title \in Titles : Import!EnterTitle(t, title)
    PROVE  Import!ImportInv'
<1>1. CASE \E a \in Archives : Import!ChooseFile(t, a)
    <2>1. PICK a \in Archives : Import!ChooseFile(t, a)
        BY <1>1
    <2> DEFINE p == [Import!Invalidated(panel[t]) EXCEPT !.file = a]
    <2>2. p \in Import!Panels /\ Import!PanelOK(p, imports)
        <3> DEFINE i == Import!Invalidated(panel[t])
        <3>1. i \in Import!Panels /\ i.verified = Import!NoVerdict /\ i.restored = 0 /\ i.busy = "no"
            BY <2>1, PanelFields, InvalidatedFields DEF Import!ChooseFile, Import!Enabled
        <3> HIDE DEF i
        <3>2. p = [i EXCEPT !.file = a]
            BY DEF i
        <3> HIDE DEF p
        <3> QED
            BY <3>1, <3>2 DEF Import!Panels, Import!Files, Import!PanelOK
    <2>3. panel' = [panel EXCEPT ![t] = p] /\ UNCHANGED <<disk, drawn, queries, imports>>
        BY <2>1 DEF Import!ChooseFile, Import!Invalidated, Import!ImportInv, Import!TypeOK
    <2> QED
        BY <2>2, <2>3, PanelStep
<1>2. CASE \E trust \in Import!Trusts : Import!EnterTrust(t, trust)
    <2>1. PICK trust \in Import!Trusts : Import!EnterTrust(t, trust)
        BY <1>2
    <2> DEFINE p == [Import!Invalidated(panel[t]) EXCEPT !.trust = trust]
    <2>2. p \in Import!Panels /\ Import!PanelOK(p, imports)
        <3> DEFINE i == Import!Invalidated(panel[t])
        <3>1. i \in Import!Panels /\ i.verified = Import!NoVerdict /\ i.restored = 0 /\ i.busy = "no"
            BY <2>1, PanelFields, InvalidatedFields DEF Import!EnterTrust, Import!Enabled
        <3> HIDE DEF i
        <3>2. p = [i EXCEPT !.trust = trust]
            BY DEF i
        <3> HIDE DEF p
        <3> QED
            BY <3>1, <3>2 DEF Import!Panels, Import!Details, Import!PanelOK
    <2>3. panel' = [panel EXCEPT ![t] = p] /\ UNCHANGED <<disk, drawn, queries, imports>>
        BY <2>1 DEF Import!EnterTrust, Import!Invalidated, Import!ImportInv, Import!TypeOK
    <2> QED
        BY <2>2, <2>3, PanelStep
<1>3. CASE \E title \in Titles : Import!EnterTitle(t, title)
    <2>1. PICK title \in Titles : Import!EnterTitle(t, title)
        BY <1>3
    <2> DEFINE p == [panel[t] EXCEPT !.title = title]
    <2>2. p \in Import!Panels /\ Import!PanelOK(p, imports)
        BY <2>1, PanelFields DEF Import!Panels, Import!Texts, Import!PanelOK, Import!EnterTitle,
           Import!Enabled
    <2>3. panel' = [panel EXCEPT ![t] = p] /\ UNCHANGED <<disk, drawn, queries, imports>>
        BY <2>1 DEF Import!EnterTitle, Import!ImportInv, Import!TypeOK
    <2> QED
        BY <2>2, <2>3, PanelStep
<1> QED
    BY <1>1, <1>2, <1>3

\* Verification is of the file and details as they were when it was asked for.
LEMMA VerifyStep ==
    ASSUME Import!ImportInv, NEW t \in Tabs, Import!Verify(t) \/ Import!Verified(t)
    PROVE  Import!ImportInv'
<1>1. CASE Import!Verify(t)
    <2> DEFINE p == [Import!Invalidated(panel[t]) EXCEPT !.busy = "verifying",
                        !.checking = [archive |-> panel[t].file, trust |-> panel[t].trust]]
    <2>1. p \in Import!Panels /\ Import!PanelOK(p, imports)
        <3> DEFINE i == Import!Invalidated(panel[t])
                   c == [archive |-> panel[t].file, trust |-> panel[t].trust]
        <3>1. /\ i \in Import!Panels /\ i.verified = Import!NoVerdict /\ i.restored = 0
              /\ i.file = panel[t].file
            BY PanelFields, InvalidatedFields
        <3>2. c \in Import!Verdicts /\ c.archive = panel[t].file /\ panel[t].file \in Archives
            BY <1>1, PanelFields DEF Import!Verify, Import!Panels, Import!Verdicts, Import!Files
        <3> HIDE DEF i, c
        <3>3. p = [i EXCEPT !.busy = "verifying", !.checking = c]
            BY DEF i, c
        <3> HIDE DEF p
        <3> QED
            BY <3>1, <3>2, <3>3 DEF Import!Panels, Import!PanelOK
    <2>2. panel' = [panel EXCEPT ![t] = p] /\ UNCHANGED <<disk, drawn, queries, imports>>
        BY <1>1 DEF Import!Verify, Import!Invalidated, Import!ImportInv, Import!TypeOK
    <2> QED
        BY <2>1, <2>2, PanelStep
<1>2. CASE Import!Verified(t)
    <2> DEFINE v == IF Import!Matches(panel[t].checking) THEN panel[t].checking ELSE Import!NoVerdict
               p == [panel[t] EXCEPT !.busy = "no", !.checking = Import!NoVerdict, !.verified = v]
    <2>1. v \in Import!Verdicts /\ Import!NoVerdict \in Import!Verdicts
        BY PanelFields DEF Import!Panels, Import!Verdicts, Import!Files, Import!Details,
           Import!NoVerdict
    <2>2. p \in Import!Panels /\ Import!PanelOK(p, imports)
        BY <1>2, <2>1, PanelFields DEF Import!Panels, Import!PanelOK, Import!Verified
    <2>3. panel' = [panel EXCEPT ![t] = p] /\ UNCHANGED <<disk, drawn, queries, imports>>
        BY <1>2 DEF Import!Verified, Import!ImportInv, Import!TypeOK
    <2> QED
        BY <2>2, <2>3, PanelStep
<1> QED
    BY <1>1, <1>2

\* An answer, a failure and a reload.
LEMMA AnswerStep ==
    ASSUME Import!ImportInv, NEW t \in Tabs, Import!Restored(t) \/ Import!Fails(t) \/ Import!Reload(t)
    PROVE  Import!ImportInv'
<1>0. Import!NoQuery \in Import!Queries
    BY DEF Import!NoQuery, Import!Queries, Import!Files, Import!Details, Import!Texts
<1>1. CASE Import!Restored(t)
    <2> DEFINE q == panel[t].query
               p == [panel[t] EXCEPT !.busy = "no", !.restored = q.id, !.query = Import!NoQuery]
    <2>1. q \in imports /\ q \in Import!Queries
        BY <1>1, PanelFields DEF Import!Restored, Import!Panels
    <2>2. p \in Import!Panels
        BY <1>0, <2>1, PanelFields DEF Import!Panels, Import!Queries
    <2>4. Import!PanelOK(p, imports)
        <3> DEFINE old == panel[t]
        <3>1. /\ p.busy = "no" /\ p.restored = q.id /\ p.title = old.title
              /\ p.file = old.file /\ p.verified = old.verified
            BY PanelFields DEF Import!Panels
        <3>2. old.verified # Import!NoVerdict => old.verified.archive = old.file /\ old.file \in Archives
            BY PanelFields DEF Import!PanelOK
        <3>3. q.title = old.title /\ q.archive = old.verified.archive
            BY <1>1, PanelFields DEF Import!PanelOK, Import!Restored
        <3> HIDE DEF p, q, old
        <3> QED
            BY <2>1, <3>1, <3>2, <3>3 DEF Import!PanelOK
    <2>3. panel' = [panel EXCEPT ![t] = p] /\ UNCHANGED <<disk, drawn, queries, imports>>
        BY <1>1 DEF Import!Restored, Import!ImportInv, Import!TypeOK
    <2> QED
        BY <2>2, <2>3, <2>4, PanelStep
<1>2. CASE Import!Fails(t)
    <2> DEFINE p == [panel[t] EXCEPT !.busy = "no", !.query = Import!NoQuery]
    <2>1. p \in Import!Panels /\ Import!PanelOK(p, imports)
        BY <1>0, <1>2, PanelFields DEF Import!Panels, Import!PanelOK, Import!Fails
    <2>2. panel' = [panel EXCEPT ![t] = p] /\ UNCHANGED <<disk, drawn, queries, imports>>
        BY <1>2 DEF Import!Fails, Import!ImportInv, Import!TypeOK
    <2> QED
        BY <2>1, <2>2, PanelStep
<1>3. CASE Import!Reload(t)
    BY <1>3, FreshIsPanel, PanelStep DEF Import!Reload
<1> QED
    BY <1>1, <1>2, <1>3

\* A restore stores the pending import before it is sent: an archive that has an
\* id keeps it, and one without has no request yet.
LEMMA RestoreStep ==
    ASSUME Import!ImportInv, NEW t \in Tabs, Import!Restore(t)
    PROVE  Import!ImportInv'
<1> DEFINE old == panel[t]
           archive == old.verified.archive
           known == disk[archive]
           pending == IF known.id # 0 THEN known
                      ELSE [id |-> drawn + 1, title |-> old.title, trust |-> old.verified.trust]
           query == [id |-> pending.id, archive |-> old.file, trust |-> old.verified.trust,
                     title |-> old.title]
           p == [old EXCEPT !.busy = "restoring", !.query = query]
<1>1. /\ old.busy = "no" /\ old.verified # Import!NoVerdict /\ old.restored = 0
      /\ drawn' = IF known.id = 0 THEN drawn + 1 ELSE drawn
      /\ disk' = [disk EXCEPT ![archive] = pending] /\ queries' = queries \cup {query}
      /\ panel' = [panel EXCEPT ![t].busy = "restoring", ![t].query = query]
      /\ UNCHANGED imports
    BY DEF Import!Restore, Import!Stored
<1>2. old \in Import!Panels /\ Import!PanelOK(old, imports)
    BY PanelFields
<1>3. archive = old.file /\ archive \in Archives
    BY <1>1, <1>2 DEF Import!PanelOK
<1>4. known \in Import!Pendings
    BY <1>3 DEF Import!ImportInv, Import!TypeOK
<1>5. pending \in Import!Pendings /\ pending.id # 0
    BY <1>2, <1>4 DEF Import!Pendings, Import!Panels, Import!Verdicts, Import!ImportInv,
       Import!TypeOK
<1>6. query \in Import!Queries
    BY <1>2, <1>5 DEF Import!Queries, Import!Panels, Import!Pendings, Import!Verdicts
<1>7. p \in Import!Panels /\ Import!PanelOK(p, imports)
    BY <1>1, <1>2, <1>3, <1>6 DEF Import!Panels, Import!PanelOK
<1>8. panel' = [panel EXCEPT ![t] = p]
    BY <1>1 DEF Import!ImportInv, Import!TypeOK
<1>9. Import!TypeOK'
    <2>1. disk' \in [Archives -> Import!Pendings]
        BY <1>1, <1>3, <1>5 DEF Import!ImportInv, Import!TypeOK
    <2>2. drawn' \in Nat
        BY <1>1 DEF Import!ImportInv, Import!TypeOK
    <2>3. panel' \in [Tabs -> Import!Panels]
        BY <1>7, <1>8 DEF Import!ImportInv, Import!TypeOK
    <2>4. queries' \subseteq Import!Queries /\ imports' \subseteq queries'
        BY <1>1, <1>6 DEF Import!ImportInv, Import!TypeOK
    <2> QED
        BY <2>1, <2>2, <2>3, <2>4 DEF Import!TypeOK
<1>10. ASSUME NEW u \in Tabs PROVE Import!PanelOK(panel'[u], imports')
    <2>1. CASE u = t
        BY <1>1, <1>7, <1>8, <2>1 DEF Import!ImportInv, Import!TypeOK
    <2>2. CASE u # t
        <3>1. panel'[u] = panel[u] /\ imports' = imports
            BY <1>1, <1>8, <2>2 DEF Import!ImportInv, Import!TypeOK
        <3> QED
            BY <3>1 DEF Import!ImportInv
    <2> QED
        BY <2>1, <2>2
<1>11. ASSUME NEW q \in queries'
       PROVE  q.archive \in Archives /\ q.id # 0 /\ q.id = disk'[q.archive].id
    <2>1. CASE q = query
        BY <1>1, <1>3, <1>5, <2>1 DEF Import!ImportInv, Import!TypeOK
    <2>2. CASE q # query
        <3>1. q.archive \in Archives /\ q.id # 0 /\ q.id = disk[q.archive].id
            BY <1>1, <2>2 DEF Import!ImportInv, Import!OneId
        <3>2. CASE q.archive = archive
            <4>1. pending = known
                BY <3>1, <3>2
            <4> QED
                BY <1>1, <1>3, <3>1, <3>2, <4>1 DEF Import!ImportInv, Import!TypeOK
        <3>3. CASE q.archive # archive
            BY <1>1, <3>1, <3>3 DEF Import!ImportInv, Import!TypeOK
        <3> QED
            BY <3>2, <3>3
    <2> QED
        BY <2>1, <2>2
<1> QED
    BY <1>9, <1>10, <1>11 DEF Import!ImportInv, Import!OneId

\* The gateway adds a record of a request that was sent.
LEMMA ServeStep ==
    ASSUME Import!ImportInv, NEW q \in queries, Import!Import(q)
    PROVE  Import!ImportInv'
<1>1. imports' = imports \cup {q} /\ UNCHANGED <<disk, drawn, panel, queries>>
    BY DEF Import!Import
<1>2. ASSUME NEW t \in Tabs PROVE Import!PanelOK(panel'[t], imports')
    <2>1. Import!PanelOK(panel[t], imports)
        BY PanelFields
    <2> QED
        BY <1>1, <2>1 DEF Import!PanelOK
<1>3. Import!TypeOK' /\ Import!OneId'
    BY <1>1 DEF Import!ImportInv, Import!TypeOK, Import!OneId
<1> QED
    BY <1>2, <1>3 DEF Import!ImportInv

\* Every step preserves it, by the lemmas above.
LEMMA StepImport == Import!ImportInv /\ Import!Next => Import!ImportInv'
<1> SUFFICES ASSUME Import!ImportInv, Import!Next PROVE Import!ImportInv'
    OBVIOUS
<1>1. ASSUME NEW t \in Tabs,
             \/ \E a \in Archives : Import!ChooseFile(t, a)
             \/ \E trust \in Import!Trusts : Import!EnterTrust(t, trust)
             \/ \E title \in Titles : Import!EnterTitle(t, title)
      PROVE  Import!ImportInv'
    BY <1>1, InputStep
<1>2. ASSUME NEW t \in Tabs, Import!Verify(t) \/ Import!Verified(t) PROVE Import!ImportInv'
    BY <1>2, VerifyStep
<1>3. ASSUME NEW t \in Tabs, Import!Restore(t) PROVE Import!ImportInv'
    BY <1>3, RestoreStep
<1>4. ASSUME NEW t \in Tabs, Import!Restored(t) \/ Import!Fails(t) \/ Import!Reload(t)
      PROVE  Import!ImportInv'
    BY <1>4, AnswerStep
<1>5. ASSUME NEW q \in queries, Import!Import(q) PROVE Import!ImportInv'
    BY <1>5, ServeStep
<1> QED
    BY <1>1, <1>2, <1>3, <1>4, <1>5 DEF Import!Next

\* The inductive invariant of the import (restore, verify in signed-pack-panel.tsx,
\* import in concordpack.rs).
THEOREM ImportInvariant == Spec => [](part = "SignedImport" => Import!ImportInv)
<1> DEFINE I == part = "SignedImport" => Import!ImportInv
<1>1. Init => I
  <2>1. Init /\ part = "SignedImport" => Import!Init
    BY DEF Init
  <2> QED BY <2>1, InitImport
<1>2. I /\ [Next]_vars => I'
  <2> SUFFICES ASSUME I, [Next]_vars, part' = "SignedImport" PROVE Import!ImportInv'
    OBVIOUS
  <2>1. CASE UNCHANGED vars
    BY <2>1 DEF vars, importVars, Import!ImportInv, Import!TypeOK, Import!PanelOK, Import!OneId
  <2>2. CASE Next
    <3>1. part = "SignedImport" /\ Import!Next
      BY <2>2 DEF Next
    <3> QED BY <3>1, StepImport
  <2> QED BY <2>1, <2>2
<1> QED BY <1>1, <1>2, PTL DEF Spec

\* An archive is imported once, and the document linked to is the one its file
\* and title made (restore, invalidate, the gateway's import).
THEOREM ImportsAreSoundHolds == Spec => []ImportsAreSound
<1>1. Import!ImportInv => Import!ImportedOnce /\ Import!RestoredIsShown
  BY DEF Import!ImportInv, Import!TypeOK, Import!OneId, Import!ImportedOnce, Import!PanelOK,
         Import!RestoredIsShown
<1>2. (part = "SignedImport" => Import!ImportInv) => ImportsAreSound
  BY <1>1 DEF ImportsAreSound
<1> QED BY <1>2, ImportInvariant, PTL

-----------------------------------------------------------------------------
(* ReviewBranches: merging.  Whatever the panels, the calls and the        *)
(* committed merges speak of is saved in localStorage, or its end was told. *)

\* Nothing recoverable is forgotten as long as answers are only heard.
LEMMA StillRecoverable ==
    ASSUME NEW request, Branches!Recoverable(request), stored \subseteq stored', told \subseteq told'
    PROVE  Branches!Recoverable(request)'
BY DEF Branches!Recoverable

\* A step that leaves the merges, keeps what is stored, and puts nothing new
\* into a panel or a call.
LEMMA ReviewKept ==
    ASSUME Branches!ReviewInv, Branches!ReviewTypeOK',
           \A request : Branches!Recoverable(request) => Branches!Recoverable(request)',
           merges' = merges,
           \A c \in calls' : Branches!Recoverable(c.request)',
           \A t \in Tabs : \A request \in panel'[t].pending : Branches!Recoverable(request)'
    PROVE  Branches!ReviewInv'
BY DEF Branches!ReviewInv, Branches!MergeIsReviewed, Branches!RecoverInv

\* The panel of one tab changes, and nothing else of the review.
LEMMA PanelMoves ==
    ASSUME Branches!ReviewInv, NEW t \in Tabs, NEW p \in Branches!Panels,
           panel' = [panel EXCEPT ![t] = p],
           p.pending = panel[t].pending \/ p.pending = stored \/ p.pending = {},
           UNCHANGED <<head, allowed, merges, stored, calls, used, told>>
    PROVE  Branches!ReviewInv'
<1>1. Branches!ReviewTypeOK'
  BY DEF Branches!ReviewInv, Branches!ReviewTypeOK
<1>2. \A request : Branches!Recoverable(request) => Branches!Recoverable(request)'
  BY DEF Branches!Recoverable
<1>3. ASSUME NEW u \in Tabs, NEW request \in panel'[u].pending PROVE Branches!Recoverable(request)
  <2>1. panel'[u] = IF u = t THEN p ELSE panel[u]
    BY DEF Branches!ReviewInv, Branches!ReviewTypeOK
  <2>2. request \in panel[u].pending \/ request \in stored
    BY <1>3, <2>1
  <2> QED BY <2>2 DEF Branches!ReviewInv, Branches!RecoverInv, Branches!Recoverable
<1>4. \A c \in calls' : Branches!Recoverable(c.request)
  BY DEF Branches!ReviewInv, Branches!RecoverInv
<1> QED BY <1>1, <1>2, <1>3, <1>4, ReviewKept

\* The panel's fields.
LEMMA PanelTypes ==
    ASSUME Branches!ReviewInv, NEW t \in Tabs
    PROVE  /\ panel[t] \in Branches!Panels /\ stored \subseteq Branches!Requests
           /\ head.main \in Int /\ head.branch \in Int
<1>1. "main" \in Branches!Documents /\ "branch" \in Branches!Documents
  BY DEF Branches!Documents
<1> QED BY <1>1 DEF Branches!ReviewInv, Branches!ReviewTypeOK

LEMMA ReviewCompare ==
    ASSUME Branches!ReviewInv, NEW t \in Tabs,
           Branches!Compare(t) \/ Branches!Compared(t) \/ Branches!StartMerge(t) \/ Branches!VerifyFails(t)
    PROVE  Branches!ReviewInv'
<1>1. CASE Branches!Compare(t)
  <2> DEFINE s == [main |-> head.main, branch |-> -1]
             p == [panel[t] EXCEPT !.does = "comparing", !.pending = stored, !.seen = s]
  <2>0. s \in [main : Int, branch : Int]
    BY PanelTypes
  <2>1. p \in Branches!Panels /\ p.pending = stored
    <3> HIDE DEF s
    <3> QED BY <2>0, PanelTypes DEF Branches!Panels
  <2>2. panel' = [panel EXCEPT ![t] = p]
    BY <1>1 DEF Branches!Compare, Branches!ReviewInv, Branches!ReviewTypeOK
  <2> QED BY <1>1, <2>1, <2>2, PanelMoves DEF Branches!Compare
<1>2. CASE Branches!Compared(t)
  <2> DEFINE s == [panel[t].seen EXCEPT !.branch = head.branch]
             p == [panel[t] EXCEPT !.does = "nothing", !.seen = s]
             q == [panel[t] EXCEPT !.does = "nothing", !.seen = Branches!NoComparison]
  <2>1. s \in [main : Int, branch : Int] /\ Branches!NoComparison \in [main : Int, branch : Int]
    BY PanelTypes DEF Branches!Panels, Branches!NoComparison
  <2>2. p \in Branches!Panels /\ p.pending = panel[t].pending /\ q \in Branches!Panels /\ q.pending = panel[t].pending
    <3> HIDE DEF s
    <3> QED BY <2>1, PanelTypes DEF Branches!Panels
  <2>3. panel' = [panel EXCEPT ![t] = p] \/ panel' = [panel EXCEPT ![t] = q]
    <3>1. panel \in [Tabs -> Branches!Panels]
      BY DEF Branches!ReviewInv, Branches!ReviewTypeOK
    <3>2. \/ panel' = [panel EXCEPT ![t].does = "nothing", ![t].seen.branch = head.branch]
          \/ panel' = [panel EXCEPT ![t].does = "nothing", ![t].seen = Branches!NoComparison]
      BY <1>2 DEF Branches!Compared
    <3>3. CASE panel' = [panel EXCEPT ![t].does = "nothing", ![t].seen.branch = head.branch]
      BY <3>1, <3>3 DEF Branches!Panels
    <3>4. CASE panel' = [panel EXCEPT ![t].does = "nothing", ![t].seen = Branches!NoComparison]
      BY <3>1, <3>4
    <3> QED BY <3>2, <3>3, <3>4
  <2> HIDE DEF p, q
  <2>4. UNCHANGED <<head, allowed, merges, stored, calls, used, told>>
    BY <1>2 DEF Branches!Compared
  <2>5. CASE panel' = [panel EXCEPT ![t] = p]
    BY <2>2, <2>4, <2>5, PanelMoves
  <2>6. CASE panel' = [panel EXCEPT ![t] = q]
    BY <2>2, <2>4, <2>6, PanelMoves
  <2> QED BY <2>3, <2>5, <2>6
<1>3. CASE Branches!StartMerge(t)
  <2> DEFINE p == [panel[t] EXCEPT !.does = "verifying"]
  <2>1. p \in Branches!Panels /\ p.pending = panel[t].pending
    BY PanelTypes DEF Branches!Panels
  <2>2. panel' = [panel EXCEPT ![t] = p]
    BY <1>3 DEF Branches!StartMerge, Branches!ReviewInv, Branches!ReviewTypeOK
  <2> QED BY <1>3, <2>1, <2>2, PanelMoves DEF Branches!StartMerge
<1>4. CASE Branches!VerifyFails(t)
  <2> DEFINE p == [panel[t] EXCEPT !.does = "nothing", !.pending = stored]
  <2>1. p \in Branches!Panels /\ p.pending = stored
    BY PanelTypes DEF Branches!Panels
  <2>2. panel' = [panel EXCEPT ![t] = p]
    BY <1>4 DEF Branches!VerifyFails, Branches!ReviewInv, Branches!ReviewTypeOK
  <2> QED BY <1>4, <2>1, <2>2, PanelMoves DEF Branches!VerifyFails
<1> QED BY <1>1, <1>2, <1>3, <1>4

\* A request that is recoverable once it is saved goes out.
LEMMA ReviewSend ==
    ASSUME Branches!ReviewInv, NEW t \in Tabs, NEW request \in Branches!Requests, NEW storage,
           Branches!Send(t, request, storage), storage \subseteq Branches!Requests, stored \subseteq storage,
           request \in storage \/ Branches!Recoverable(request),
           used' \in [requests : Nat, calls : Nat, intents : Nat, ids : Nat],
           UNCHANGED <<head, allowed, merges, told>>
    PROVE  Branches!ReviewInv'
<1> DEFINE c == [n |-> used.calls + 1, to |-> t, request |-> request,
                 stage |-> "arrived", answer |-> "none"]
           p == [panel[t] EXCEPT !.does = "waiting", !.request = request]
<1>1. /\ stored' = storage /\ calls' = calls \cup {c}
      /\ panel' = [panel EXCEPT ![t] = p]
  BY DEF Branches!Send, Branches!ReviewInv, Branches!ReviewTypeOK
<1>2. c \in Branches!Calls /\ c.request = request
  <2>1. used.calls + 1 \in Nat
    BY DEF Branches!ReviewInv, Branches!ReviewTypeOK
  <2> QED BY <2>1 DEF Branches!Calls, Branches!Answers
<1>3. p \in Branches!Panels /\ p.pending = panel[t].pending
  BY PanelTypes DEF Branches!Panels
<1> HIDE DEF c, p
<1>4. Branches!ReviewTypeOK'
  BY <1>1, <1>2, <1>3 DEF Branches!ReviewInv, Branches!ReviewTypeOK
<1>5. \A r : Branches!Recoverable(r) => Branches!Recoverable(r)'
  BY <1>1 DEF Branches!Recoverable
<1>6. Branches!Recoverable(request)'
  BY <1>1, <1>5 DEF Branches!Recoverable
<1>7. \A d \in calls' : Branches!Recoverable(d.request)'
  BY <1>1, <1>2, <1>5, <1>6 DEF Branches!ReviewInv, Branches!RecoverInv
<1>8. \A u \in Tabs : panel'[u].pending = panel[u].pending
  BY <1>1, <1>3 DEF Branches!ReviewInv, Branches!ReviewTypeOK
<1>9. \A u \in Tabs : \A r \in panel'[u].pending : Branches!Recoverable(r)'
  BY <1>5, <1>8 DEF Branches!ReviewInv, Branches!RecoverInv
<1> QED BY <1>4, <1>5, <1>7, <1>9, ReviewKept

\* The counters, one of them advanced.
LEMMA Counters ==
    ASSUME NEW u \in [requests : Nat, calls : Nat, intents : Nat, ids : Nat]
    PROVE  /\ [u EXCEPT !.calls = u.calls + 1] \in [requests : Nat, calls : Nat, intents : Nat, ids : Nat]
           /\ [u EXCEPT !.requests = u.requests + 1, !.calls = u.calls + 1]
                \in [requests : Nat, calls : Nat, intents : Nat, ids : Nat]
<1> DEFINE a == u.calls + 1
           b == u.requests + 1
<1>1. a \in Nat /\ b \in Nat
  OBVIOUS
<1> HIDE DEF a, b
<1>2. /\ [u EXCEPT !.calls = a] \in [requests : Nat, calls : Nat, intents : Nat, ids : Nat]
      /\ [u EXCEPT !.requests = b, !.calls = a] \in [requests : Nat, calls : Nat, intents : Nat, ids : Nat]
  BY <1>1
<1> QED BY <1>2 DEF a, b

LEMMA ReviewMerge ==
    ASSUME Branches!ReviewInv, NEW t \in Tabs,
           Branches!Retry(t) \/ Branches!MergeSaved(t) \/ Branches!MergeNew(t)
    PROVE  Branches!ReviewInv'
<1>0. /\ used \in [requests : Nat, calls : Nat, intents : Nat, ids : Nat]
      /\ stored \subseteq Branches!Requests /\ panel[t] \in Branches!Panels
  BY DEF Branches!ReviewInv, Branches!ReviewTypeOK
<1>1. CASE Branches!Retry(t)
  <2>1. PICK request \in panel[t].pending : Branches!Send(t, request, stored)
    BY <1>1 DEF Branches!Retry
  <2>2. request \in Branches!Requests /\ Branches!Recoverable(request)
    BY <1>0 DEF Branches!Panels, Branches!ReviewInv, Branches!RecoverInv
  <2>3. used' \in [requests : Nat, calls : Nat, intents : Nat, ids : Nat]
        /\ UNCHANGED <<head, allowed, merges, told>>
    BY <1>0, <1>1, Counters DEF Branches!Retry
  <2> QED BY <1>0, <2>1, <2>2, <2>3, ReviewSend
<1>2. CASE Branches!MergeSaved(t)
  <2>1. PICK request \in stored : Branches!Send(t, request, stored)
    BY <1>2 DEF Branches!MergeSaved
  <2>3. used' \in [requests : Nat, calls : Nat, intents : Nat, ids : Nat]
        /\ UNCHANGED <<head, allowed, merges, told>>
    BY <1>0, <1>2, Counters DEF Branches!MergeSaved
  <2> QED BY <1>0, <2>1, <2>3, ReviewSend
<1>3. CASE Branches!MergeNew(t)
  <2> DEFINE request == [id |-> used.requests + 1, main |-> panel[t].seen.main,
                         branch |-> panel[t].seen.branch]
             storage == stored \cup {request}
  <2>1. request \in Branches!Requests
    BY <1>0 DEF Branches!Panels, Branches!Requests
  <2>2. Branches!Send(t, request, storage) /\ UNCHANGED <<head, allowed, merges, told>>
        /\ used' \in [requests : Nat, calls : Nat, intents : Nat, ids : Nat]
    BY <1>0, <1>3, Counters DEF Branches!MergeNew
  <2>3. storage \subseteq Branches!Requests /\ stored \subseteq storage /\ request \in storage
    BY <1>0, <2>1
  <2> HIDE DEF request, storage
  <2> QED BY <2>1, <2>2, <2>3, ReviewSend
<1> QED BY <1>1, <1>2, <1>3

\* The panel hears an answer: the request it takes out of localStorage is one
\* whose end it was told.
LEMMA ReviewHear ==
    ASSUME Branches!ReviewInv, NEW t \in Tabs, NEW answer \in Branches!Answers, Branches!Hear(t, answer),
           calls' \subseteq Branches!Calls, \A c \in calls' : \E d \in calls : c.request = d.request,
           UNCHANGED <<head, allowed, merges, used>>
    PROVE  Branches!ReviewInv'
<1> DEFINE request == panel[t].request
           kept == IF Branches!Forgets(answer) THEN stored \ {request} ELSE stored
           s == IF answer = "merged" THEN [main |-> head.main, branch |-> -1] ELSE panel[t].seen
           d == IF answer = "merged" THEN "comparing" ELSE "nothing"
           p == [panel[t] EXCEPT !.does = d, !.pending = kept, !.seen = s, !.request = Branches!NoRequest]
<1>1. /\ stored' = kept /\ panel' = [panel EXCEPT ![t] = p]
      /\ told' = IF Branches!Forgets(answer) THEN told \cup {[id |-> request.id, answer |-> answer]} ELSE told
  BY DEF Branches!Hear, Branches!ReviewInv, Branches!ReviewTypeOK
<1>2. kept \subseteq stored /\ stored \subseteq Branches!Requests
  BY DEF Branches!ReviewInv, Branches!ReviewTypeOK
<1>3. Branches!Forgets(answer) => answer \in {"merged", "review_is_stale"}
  BY DEF Branches!Forgets, Branches!Answers
<1>4. \A r : Branches!Recoverable(r) => Branches!Recoverable(r)'
  <2> SUFFICES ASSUME NEW r, Branches!Recoverable(r) PROVE Branches!Recoverable(r)'
    OBVIOUS
  <2>1. CASE Branches!Forgets(answer) /\ r = request
    <3> DEFINE a == [id |-> request.id, answer |-> answer]
    <3>1. a \in told' /\ a.id = r.id /\ a.answer \in {"merged", "review_is_stale"}
      BY <1>1, <1>3, <2>1
    <3> QED BY <3>1 DEF Branches!Recoverable
  <2>2. CASE ~(Branches!Forgets(answer) /\ r = request)
    BY <1>1, <2>2 DEF Branches!Recoverable
  <2> QED BY <2>1, <2>2
<1>5. p \in Branches!Panels /\ p.pending = kept
  <2>1. s \in [main : Int, branch : Int] /\ d \in {"nothing", "comparing"} /\ panel[t] \in Branches!Panels
    BY PanelTypes DEF Branches!Panels
  <2>2. Branches!NoRequest \in Branches!Requests
    BY DEF Branches!NoRequest, Branches!Requests
  <2> HIDE DEF s, d, kept
  <2> QED BY <1>2, <2>1, <2>2 DEF Branches!Panels
<1> HIDE DEF request, kept, p
<1>6. Branches!ReviewTypeOK'
  BY <1>1, <1>2, <1>5 DEF Branches!ReviewInv, Branches!ReviewTypeOK
<1>7. ASSUME NEW u \in Tabs, NEW r \in panel'[u].pending PROVE Branches!Recoverable(r)
  <2>1. panel'[u] = IF u = t THEN p ELSE panel[u]
    BY <1>1 DEF Branches!ReviewInv, Branches!ReviewTypeOK
  <2>2. r \in panel[u].pending \/ r \in stored
    BY <1>2, <1>5, <1>7, <2>1
  <2> QED BY <2>2 DEF Branches!ReviewInv, Branches!RecoverInv, Branches!Recoverable
<1>8. \A c \in calls' : Branches!Recoverable(c.request)
  BY DEF Branches!ReviewInv, Branches!RecoverInv
<1> QED BY <1>4, <1>6, <1>7, <1>8, ReviewKept

\* A call that is answered or proceeds is one of the calls there were.
LEMMA CallMoves ==
    ASSUME Branches!ReviewInv, NEW c \in calls,
           \/ \E answer \in Branches!Answers \ {"none"} : Branches!Answer(c, answer)
           \/ \E stage \in {"looked up", "generated"} : Branches!Proceed(c, stage)
    PROVE  calls' \subseteq Branches!Calls /\ \A d \in calls' : \E e \in calls : d.request = e.request
<1>1. calls \subseteq Branches!Calls
  BY DEF Branches!ReviewInv, Branches!ReviewTypeOK
<1>2. CASE \E answer \in Branches!Answers \ {"none"} : Branches!Answer(c, answer)
  <2>1. PICK answer \in Branches!Answers \ {"none"} : Branches!Answer(c, answer)
    BY <1>2
  <2> DEFINE d == [c EXCEPT !.stage = "over", !.answer = answer]
  <2>2. d \in Branches!Calls /\ d.request = c.request
    BY <1>1, <2>1 DEF Branches!Calls
  <2>3. calls' \subseteq calls \cup {d}
    BY <2>1 DEF Branches!Answer
  <2> HIDE DEF d
  <2> QED BY <1>1, <2>2, <2>3
<1>3. CASE \E stage \in {"looked up", "generated"} : Branches!Proceed(c, stage)
  <2>1. PICK stage \in {"looked up", "generated"} : Branches!Proceed(c, stage)
    BY <1>3
  <2> DEFINE d == [c EXCEPT !.stage = stage]
  <2>2. d \in Branches!Calls /\ d.request = c.request
    BY <1>1, <2>1 DEF Branches!Calls
  <2>3. calls' \subseteq calls \cup {d}
    BY <2>1 DEF Branches!Proceed
  <2> HIDE DEF d
  <2> QED BY <1>1, <2>2, <2>3
<1> QED BY <1>2, <1>3

\* A step of the calls alone.
LEMMA CallsKept ==
    ASSUME Branches!ReviewInv, UNCHANGED <<head, merges, stored, panel, used, told>>,
           calls' \subseteq Branches!Calls, \A d \in calls' : \E e \in calls : d.request = e.request
    PROVE  Branches!ReviewInv'
<1>1. Branches!ReviewTypeOK'
  BY DEF Branches!ReviewInv, Branches!ReviewTypeOK
<1>2. \A request : Branches!Recoverable(request) => Branches!Recoverable(request)'
  BY DEF Branches!Recoverable
<1>3. \A d \in calls' : Branches!Recoverable(d.request)
  BY DEF Branches!ReviewInv, Branches!RecoverInv
<1>4. \A t \in Tabs : \A request \in panel'[t].pending : Branches!Recoverable(request)
  BY DEF Branches!ReviewInv, Branches!RecoverInv
<1> QED BY <1>1, <1>2, <1>3, <1>4, ReviewKept

\* The gateway's first two steps, and a call that is given up.
LEMMA ReviewLookup ==
    ASSUME Branches!ReviewInv, NEW c \in calls,
           Branches!Lookup(c) \/ Branches!Generate(c) \/ Branches!Abandon(c)
    PROVE  Branches!ReviewInv'
<1>1. UNCHANGED <<head, merges, stored, panel, used, told>>
  BY DEF Branches!Lookup, Branches!Generate, Branches!Abandon, Branches!review
<1>2. \/ \E answer \in Branches!Answers \ {"none"} : Branches!Answer(c, answer)
      \/ \E stage \in {"looked up", "generated"} : Branches!Proceed(c, stage)
  <2>1. {"not_found", "merged", "review_is_stale", "branches_unavailable", "gateway_unavailable"}
          \subseteq Branches!Answers \ {"none"}
    BY DEF Branches!Answers
  <2>2. CASE Branches!Lookup(c)
    BY <2>1, <2>2 DEF Branches!Lookup
  <2>3. CASE Branches!Generate(c)
    BY <2>1, <2>3 DEF Branches!Generate
  <2>4. CASE Branches!Abandon(c)
    BY <2>1, <2>4 DEF Branches!Abandon
  <2> QED BY <2>2, <2>3, <2>4
<1> QED BY <1>1, <1>2, CallMoves, CallsKept

\* Under the locks the cursors are those that were compared, and the request
\* of the call is one that the browser keeps.
LEMMA ReviewCommit ==
    ASSUME Branches!ReviewInv, NEW c \in calls, Branches!Commit(c)
    PROVE  Branches!ReviewInv'
<1>1. UNCHANGED <<stored, panel, used, told>>
  BY DEF Branches!Commit
<1>2. \E answer \in Branches!Answers \ {"none"} : Branches!Answer(c, answer)
  <2>1. {"not_found", "merged", "review_is_stale"} \subseteq Branches!Answers \ {"none"}
    BY DEF Branches!Answers
  <2> QED BY <2>1 DEF Branches!Commit
<1>3. calls' \subseteq Branches!Calls /\ \A d \in calls' : \E e \in calls : d.request = e.request
  BY <1>2, CallMoves
<1>4. CASE UNCHANGED <<head, merges>>
  BY <1>1, <1>3, <1>4, CallsKept
<1>5. CASE ~UNCHANGED <<head, merges>>
  <2> DEFINE m == [request |-> c.request, result |-> head.main + 1, source |-> head.branch]
  <2>1. /\ head' = [head EXCEPT !.main = head.main + 1] /\ merges' = merges \cup {m} /\ Branches!Current(c)
    BY <1>5 DEF Branches!Commit
  <2>2. m.request = c.request /\ m.result = m.request.main + 1 /\ m.source = m.request.branch
    BY <2>1 DEF Branches!Current
  <2> HIDE DEF m
  <2>3. \A request : Branches!Recoverable(request) => Branches!Recoverable(request)'
    BY <1>1 DEF Branches!Recoverable
  <2>4. Branches!ReviewTypeOK'
    <3>1. head \in [Branches!Documents -> Nat] /\ head.main \in Nat
      <4>1. head \in [Branches!Documents -> Nat] /\ "main" \in Branches!Documents
        BY DEF Branches!ReviewInv, Branches!ReviewTypeOK, Branches!Documents
      <4> QED BY <4>1
    <3>2. head' \in [Branches!Documents -> Nat]
      BY <2>1, <3>1
    <3> QED BY <1>1, <1>3, <3>2 DEF Branches!ReviewInv, Branches!ReviewTypeOK
  <2>5. Branches!MergeIsReviewed'
    BY <2>1, <2>2 DEF Branches!ReviewInv, Branches!MergeIsReviewed
  <2>6. Branches!RecoverInv'
    <3>1. \A d \in calls' : Branches!Recoverable(d.request)'
      BY <1>3, <2>3 DEF Branches!ReviewInv, Branches!RecoverInv
    <3>2. \A t \in Tabs : \A request \in panel'[t].pending : Branches!Recoverable(request)'
      BY <1>1, <2>3 DEF Branches!ReviewInv, Branches!RecoverInv
    <3>3. \A n \in merges' : Branches!Recoverable(n.request)'
      BY <2>1, <2>2, <2>3 DEF Branches!ReviewInv, Branches!RecoverInv
    <3> QED BY <3>1, <3>2, <3>3 DEF Branches!RecoverInv
  <2> QED BY <2>4, <2>5, <2>6 DEF Branches!ReviewInv
<1> QED BY <1>4, <1>5

\* An answer reaches the browser, or its connection breaks.
LEMMA ReviewAnswered ==
    ASSUME Branches!ReviewInv, NEW c \in calls, Branches!Answered(c) \/ Branches!Lose(c)
    PROVE  Branches!ReviewInv'
<1>1. c \in Branches!Calls /\ calls \subseteq Branches!Calls
  BY DEF Branches!ReviewInv, Branches!ReviewTypeOK
<1>2. CASE Branches!Answered(c)
  <2>1. c.to \in Tabs /\ c.answer \in Branches!Answers /\ Branches!Hear(c.to, c.answer)
    BY <1>1, <1>2 DEF Branches!Answered, Branches!Calls
  <2>2. UNCHANGED <<head, allowed, merges, used>> /\ calls' \subseteq Branches!Calls
        /\ \A d \in calls' : \E e \in calls : d.request = e.request
    BY <1>1, <1>2 DEF Branches!Answered
  <2> QED BY <2>1, <2>2, ReviewHear
<1>3. CASE Branches!Lose(c)
  <2> DEFINE d == [c EXCEPT !.to = "nobody"]
  <2>1. c.to \in Tabs /\ "gateway_unavailable" \in Branches!Answers /\ Branches!Hear(c.to, "gateway_unavailable")
    BY <1>3 DEF Branches!Lose, Branches!Answers
  <2>2. d \in Branches!Calls /\ d.request = c.request
    BY <1>1 DEF Branches!Calls
  <2>3. calls' \subseteq calls \cup {d} /\ UNCHANGED <<head, allowed, merges, used>>
    BY <1>3 DEF Branches!Lose
  <2> HIDE DEF d
  <2>4. calls' \subseteq Branches!Calls /\ \A e \in calls' : \E f \in calls : e.request = f.request
    BY <1>1, <2>2, <2>3
  <2> QED BY <2>1, <2>3, <2>4, ReviewHear
<1> QED BY <1>2, <1>3

\* A page is loaded again: nobody waits for its calls.
LEMMA ReviewReload ==
    ASSUME Branches!ReviewInv, NEW t \in Tabs, Branches!Reload(t)
    PROVE  Branches!ReviewInv'
<1>1. /\ panel' = [panel EXCEPT ![t] = Branches!Idle] /\ UNCHANGED <<head, merges, stored, used, told>>
      /\ calls' = {IF c.to = t THEN [c EXCEPT !.to = "nobody"] ELSE c : c \in calls}
      /\ calls \subseteq Branches!Calls /\ panel \in [Tabs -> Branches!Panels]
  BY DEF Branches!Reload, Branches!ReviewInv, Branches!ReviewTypeOK
<1>2. Branches!Idle \in Branches!Panels /\ Branches!Idle.pending = {}
  BY DEF Branches!Idle, Branches!Panels, Branches!NoComparison, Branches!NoRequest, Branches!Requests
<1>3. ASSUME NEW c \in calls
      PROVE  [c EXCEPT !.to = "nobody"] \in Branches!Calls /\ [c EXCEPT !.to = "nobody"].request = c.request
  BY <1>1 DEF Branches!Calls
<1>4. calls' \subseteq Branches!Calls /\ \A d \in calls' : \E e \in calls : d.request = e.request
  BY <1>1, <1>3
<1>5. Branches!ReviewTypeOK'
  BY <1>1, <1>2, <1>4 DEF Branches!ReviewInv, Branches!ReviewTypeOK
<1>6. \A request : Branches!Recoverable(request) => Branches!Recoverable(request)'
  BY <1>1 DEF Branches!Recoverable
<1>7. \A u \in Tabs : \A request \in panel'[u].pending : Branches!Recoverable(request)'
  BY <1>1, <1>2, <1>6 DEF Branches!ReviewInv, Branches!RecoverInv
<1>8. \A d \in calls' : Branches!Recoverable(d.request)'
  BY <1>4, <1>6 DEF Branches!ReviewInv, Branches!RecoverInv
<1> QED BY <1>1, <1>5, <1>6, <1>7, <1>8, ReviewKept

\* Other people's edits, and an access that is taken away.
LEMMA ReviewOthers ==
    ASSUME Branches!ReviewInv, Branches!Revoke \/ \E d \in Branches!Documents : Branches!Edit(d)
    PROVE  Branches!ReviewInv'
<1>1. UNCHANGED <<merges, stored, panel, calls, used, told>> /\ head' \in [Branches!Documents -> Nat]
  <2>1. head \in [Branches!Documents -> Nat]
    BY DEF Branches!ReviewInv, Branches!ReviewTypeOK
  <2>2. CASE Branches!Revoke
    BY <2>1, <2>2 DEF Branches!Revoke
  <2>3. ASSUME NEW d \in Branches!Documents, Branches!Edit(d)
        PROVE  UNCHANGED <<merges, stored, panel, calls, used, told>> /\ head' \in [Branches!Documents -> Nat]
    BY <2>1, <2>3 DEF Branches!Edit
  <2> QED BY <2>2, <2>3
<1>2. Branches!ReviewTypeOK'
  BY <1>1 DEF Branches!ReviewInv, Branches!ReviewTypeOK
<1>3. \A request : Branches!Recoverable(request) => Branches!Recoverable(request)'
  BY <1>1 DEF Branches!Recoverable
<1>4. (\A c \in calls' : Branches!Recoverable(c.request))
      /\ \A t \in Tabs : \A request \in panel'[t].pending : Branches!Recoverable(request)
  BY <1>1 DEF Branches!ReviewInv, Branches!RecoverInv
<1> QED BY <1>1, <1>2, <1>3, <1>4, ReviewKept
-----------------------------------------------------------------------------
(* ReviewBranches: creating.  The id of an intent is drawn once and kept   *)
(* by the form it belongs to, and the gateway makes one branch of an id.   *)

\* What a form may become when nothing new is asked for.
SettledForm(before, after) ==
    \/ after = Branches!Blank
    \/ /\ after.name = before.name /\ after.intent = before.intent
       /\ after.creation = before.creation

\* IntentInv, of the ids that were asked for, the forms and the count of the
\* intents.
IntentsOf(asked, forms, k) ==
    /\ \A x, y \in asked : x.intent = y.intent => x.id = y.id
    /\ \A x \in asked : x.intent \in 1 .. k /\ x.id # 0
    /\ \A t \in Tabs :
           /\ forms[t].intent \in 0 .. k
           /\ forms[t].intent = 0 => forms[t].name = ""
           /\ \A x \in asked : x.intent = forms[t].intent =>
                  forms[t].creation = [id |-> x.id, name |-> forms[t].name]
    /\ \A t, u \in Tabs : forms[t].intent = forms[u].intent /\ forms[t].intent # 0 => t = u

LEMMA IntentsSettled ==
    ASSUME NEW A, NEW B, B \subseteq A, NEW k \in Nat, NEW f, NEW g, IntentsOf(A, f, k),
           \A t \in Tabs : SettledForm(f[t], g[t])
    PROVE  IntentsOf(B, g, k)
<1>0. k \in Nat
  OBVIOUS
<1>1. Branches!Blank.intent = 0 /\ Branches!Blank.name = ""
  BY DEF Branches!Blank
<1>2. ASSUME NEW t \in Tabs
      PROVE  /\ g[t].intent \in 0 .. k
             /\ g[t].intent = 0 => g[t].name = ""
             /\ g[t].intent # 0 => g[t].intent = f[t].intent
             /\ \A x \in B : x.intent = g[t].intent =>
                    g[t].creation = [id |-> x.id, name |-> g[t].name]
  <2>1. CASE g[t] = Branches!Blank
    <3>0. 0 \in 0 .. k
      BY <1>0
    <3>1. g[t].intent = 0 /\ g[t].name = "" /\ 0 \in 0 .. k
      BY <1>1, <2>1, <3>0
    <3>2. ASSUME NEW x \in B PROVE x.intent # 0
      <4>1. x.intent \in 1 .. k
        BY DEF IntentsOf
      <4> QED BY <1>0, <4>1
    <3> QED BY <3>1, <3>2
  <2>2. CASE g[t].name = f[t].name /\ g[t].intent = f[t].intent /\ g[t].creation = f[t].creation
    <3>1. /\ f[t].intent \in 0 .. k
          /\ f[t].intent = 0 => f[t].name = ""
          /\ \A x \in A : x.intent = f[t].intent => f[t].creation = [id |-> x.id, name |-> f[t].name]
      BY DEF IntentsOf
    <3> QED BY <2>2, <3>1
  <2> QED BY <2>1, <2>2 DEF SettledForm
<1>3. ASSUME NEW t \in Tabs, NEW u \in Tabs, g[t].intent = g[u].intent, g[t].intent # 0 PROVE t = u
  <2>1. f[t].intent = f[u].intent /\ f[t].intent # 0
    BY <1>2, <1>3
  <2> QED BY <2>1 DEF IntentsOf
<1>4. /\ \A x, y \in B : x.intent = y.intent => x.id = y.id
      /\ \A x \in B : x.intent \in 1 .. k /\ x.id # 0
  BY DEF IntentsOf
<1> QED BY <1>2, <1>3, <1>4 DEF IntentsOf

\* A form turns to a fresh intent.
LEMMA IntentStarts ==
    ASSUME NEW A, NEW k \in Nat, NEW f, NEW g, IntentsOf(A, f, k), NEW t \in Tabs,
           g[t].intent = k + 1, \A u \in Tabs \ {t} : g[u] = f[u]
    PROVE  IntentsOf(A, g, k + 1)
<1>1. /\ \A x, y \in A : x.intent = y.intent => x.id = y.id
      /\ \A x \in A : x.intent \in 1 .. k /\ x.id # 0
      /\ \A u \in Tabs :
             /\ f[u].intent \in 0 .. k
             /\ f[u].intent = 0 => f[u].name = ""
             /\ \A x \in A : x.intent = f[u].intent => f[u].creation = [id |-> x.id, name |-> f[u].name]
      /\ \A u, v \in Tabs : f[u].intent = f[v].intent /\ f[u].intent # 0 => u = v
  BY DEF IntentsOf
<1>0. k \in Nat
  OBVIOUS
<1>2. ASSUME NEW x \in A PROVE x.intent \in 1 .. (k + 1) /\ x.intent # k + 1
  <2>1. x.intent \in 1 .. k
    BY <1>1
  <2> QED BY <1>0, <2>1
<1>3. ASSUME NEW u \in Tabs \ {t} PROVE f[u].intent \in 0 .. (k + 1) /\ f[u].intent # k + 1
  <2>1. f[u].intent \in 0 .. k
    BY <1>1
  <2> QED BY <1>0, <2>1
<1>4. k + 1 \in 0 .. (k + 1) /\ k + 1 # 0
  BY <1>0
<1>5. ASSUME NEW u \in Tabs
      PROVE  /\ g[u].intent \in 0 .. (k + 1)
             /\ g[u].intent = 0 => g[u].name = ""
             /\ \A x \in A : x.intent = g[u].intent => g[u].creation = [id |-> x.id, name |-> g[u].name]
  <2>1. CASE u = t
    BY <1>2, <1>4, <2>1
  <2>2. CASE u # t
    <3>1. g[u] = f[u]
      BY <2>2
    <3> QED BY ZenonT(60), <1>1, <1>3, <2>2, <3>1
  <2> QED BY <2>1, <2>2
<1>6. ASSUME NEW u \in Tabs, NEW v \in Tabs, g[u].intent = g[v].intent, g[u].intent # 0 PROVE u = v
  <2>1. CASE u # t /\ v # t
    <3>1. g[u] = f[u] /\ g[v] = f[v]
      BY <2>1
    <3> QED BY ZenonT(60), <1>1, <1>6, <3>1
  <2>2. CASE u = t /\ v # t
    BY <1>3, <1>6, <2>2
  <2>3. CASE u # t /\ v = t
    BY <1>3, <1>6, <2>3
  <2> QED BY <2>1, <2>2, <2>3
<1> QED BY <1>1, <1>2, <1>5, <1>6 DEF IntentsOf

\* The form of tab t asks for its intent under the id i.
AsksFor(i, t, A, B, f, g) ==
    /\ i # 0 /\ f[t].name # "" /\ g[t].creation = [id |-> i, name |-> f[t].name]
    /\ \A x \in B : x \in A \/ (x.id = i /\ x.intent = f[t].intent)
    /\ \A x \in A : x.intent = f[t].intent => x.id = i
    /\ \A u \in Tabs : g[u].name = f[u].name /\ g[u].intent = f[u].intent
    /\ \A u \in Tabs \ {t} : g[u].creation = f[u].creation

LEMMA Positive ==
    ASSUME NEW k \in Nat, NEW n \in 0 .. k, n # 0
    PROVE  n \in 1 .. k
OBVIOUS

LEMMA IntentAsked ==
    ASSUME NEW A, NEW B, NEW k \in Nat, NEW f, NEW g, IntentsOf(A, f, k), NEW t \in Tabs, NEW i,
           AsksFor(i, t, A, B, f, g)
    PROVE  IntentsOf(B, g, k)
<1>1. /\ \A x, y \in A : x.intent = y.intent => x.id = y.id
      /\ \A x \in A : x.intent \in 1 .. k /\ x.id # 0
      /\ \A u \in Tabs :
             /\ f[u].intent \in 0 .. k
             /\ f[u].intent = 0 => f[u].name = ""
             /\ \A x \in A : x.intent = f[u].intent => f[u].creation = [id |-> x.id, name |-> f[u].name]
      /\ \A u, v \in Tabs : f[u].intent = f[v].intent /\ f[u].intent # 0 => u = v
  BY DEF IntentsOf
<1>0. /\ i # 0 /\ f[t].name # "" /\ g[t].creation = [id |-> i, name |-> f[t].name]
      /\ \A x \in B : x \in A \/ (x.id = i /\ x.intent = f[t].intent)
      /\ \A x \in A : x.intent = f[t].intent => x.id = i
      /\ \A u \in Tabs : g[u].name = f[u].name /\ g[u].intent = f[u].intent
      /\ \A u \in Tabs \ {t} : g[u].creation = f[u].creation
  BY DEF AsksFor
<1>2. f[t].intent \in 1 .. k /\ f[t].intent # 0
  <2>1. f[t].intent \in 0 .. k /\ f[t].intent # 0
    BY <1>0, <1>1
  <2> QED BY <2>1, Positive
<1>3. ASSUME NEW x \in B, NEW y \in B, x.intent = y.intent PROVE x.id = y.id
  <2>1. CASE x \in A /\ y \in A
    BY <1>1, <1>3, <2>1
  <2>2. CASE x \notin A \/ y \notin A
    <3>1. x.intent = f[t].intent /\ y.intent = f[t].intent
      BY <1>0, <1>3, <2>2
    <3>2. x.id = i /\ y.id = i
      BY <1>0, <3>1
    <3> QED BY <3>2
  <2> QED BY <2>1, <2>2
<1>4. \A x \in B : x.intent \in 1 .. k /\ x.id # 0
  BY <1>0, <1>1, <1>2
<1>5. ASSUME NEW u \in Tabs, NEW x \in B, x.intent = g[u].intent
      PROVE  g[u].creation = [id |-> x.id, name |-> g[u].name]
  <2>1. CASE u = t
    <3>1. x.id = i
      BY <1>0, <1>5, <2>1
    <3>2. g[u].name = f[t].name /\ g[u].creation = [id |-> i, name |-> f[t].name]
      BY <1>0, <2>1
    <3> QED BY <3>1, <3>2
  <2>2. CASE u # t
    <3>1. g[u].name = f[u].name /\ g[u].intent = f[u].intent /\ g[u].creation = f[u].creation
      BY <1>0, <2>2
    <3>2. f[u].intent # f[t].intent
      BY <1>1, <1>2, <2>2
    <3>3. x \in A /\ x.intent = f[u].intent
      BY <1>0, <1>5, <3>1, <3>2
    <3>4. f[u].creation = [id |-> x.id, name |-> f[u].name]
      BY <1>1, <3>3
    <3> QED BY <3>1, <3>4
  <2> QED BY <2>1, <2>2
<1>6. \A u \in Tabs : g[u].intent \in 0 .. k /\ (g[u].intent = 0 => g[u].name = "")
  BY <1>0, <1>1
<1>7. ASSUME NEW u \in Tabs, NEW v \in Tabs, g[u].intent = g[v].intent, g[u].intent # 0 PROVE u = v
  BY ZenonT(60), <1>0, <1>1, <1>7
<1> QED BY <1>3, <1>4, <1>5, <1>6, <1>7 DEF IntentsOf

\* A step that asks for nothing new.
LEMMA CreationKept ==
    ASSUME Branches!ReviewTypeOK, Branches!CreationInv,
           form' \in [Tabs -> Branches!Forms], attempts' \subseteq Branches!Attempts,
           \A t \in Tabs : SettledForm(form[t], form'[t]), used'.intents = used.intents,
           Branches!Asked' \subseteq Branches!Asked, Branches!OneBranch'
    PROVE  Branches!CreationInv'
<1>1. IntentsOf(Branches!Asked, form, used.intents)
  BY DEF Branches!CreationInv, Branches!IntentInv, IntentsOf
<1>2. used.intents \in Nat
  BY DEF Branches!ReviewTypeOK
<1>3. IntentsOf(Branches!Asked', form', used.intents)
  BY <1>1, <1>2, IntentsSettled
<1>4. Branches!IntentInv'
  BY <1>3 DEF Branches!IntentInv, IntentsOf
<1> QED BY <1>4 DEF Branches!CreationInv, Branches!CreationTypeOK

\* A step of the review.
LEMMA CreationUntouched ==
    ASSUME Branches!ReviewTypeOK, Branches!CreationInv, UNCHANGED <<form, attempts, branches>>, used'.intents = used.intents
    PROVE  Branches!CreationInv'
<1>1. Branches!Asked' \subseteq Branches!Asked
  BY DEF Branches!Asked
<1>2. Branches!OneBranch' /\ form \in [Tabs -> Branches!Forms] /\ attempts \subseteq Branches!Attempts
  BY DEF Branches!CreationInv, Branches!OneBranch, Branches!CreationTypeOK
<1>3. \A t \in Tabs : SettledForm(form[t], form'[t])
  BY DEF SettledForm
<1> QED BY <1>1, <1>2, <1>3, CreationKept

\* A panel hears of its attempt, or nobody does.
LEMMA SettleForms ==
    ASSUME Branches!CreationInv, NEW c \in attempts, NEW success, Branches!Settle(c, success)
    PROVE  /\ form' \in [Tabs -> Branches!Forms] /\ attempts' = attempts \ {c}
           /\ \A t \in Tabs : SettledForm(form[t], form'[t])
<1>1. form \in [Tabs -> Branches!Forms] /\ Branches!Blank \in Branches!Forms
  BY DEF Branches!CreationInv, Branches!CreationTypeOK, Branches!Blank, Branches!Forms,
         Branches!NoCreation, Branches!Creations
<1>2. attempts' = attempts \ {c}
  BY DEF Branches!Settle
<1>3. CASE \E t \in Tabs : form[t].waits = c.n
  <2> DEFINE t == CHOOSE u \in Tabs : form[u].waits = c.n
  <2>1. t \in Tabs
    BY <1>3
  <2>2. form' = [form EXCEPT ![t] = Branches!Blank] \/ form' = [form EXCEPT ![t].waits = 0]
    BY <1>3 DEF Branches!Settle, Branches!Created, Branches!NotCreated
  <2> HIDE DEF t
  <2>3. CASE form' = [form EXCEPT ![t] = Branches!Blank]
    BY <1>1, <1>2, <2>1, <2>3 DEF SettledForm
  <2>4. CASE form' = [form EXCEPT ![t].waits = 0]
    BY <1>1, <1>2, <2>1, <2>4 DEF SettledForm, Branches!Forms
  <2> QED BY <2>2, <2>3, <2>4
<1>4. CASE ~\E t \in Tabs : form[t].waits = c.n
  BY <1>1, <1>2, <1>4 DEF Branches!Settle, SettledForm
<1> QED BY <1>3, <1>4

\* The gateway looks the id up, and inserts the branch of an id it has not.
LEMMA CreationLookup ==
    ASSUME Branches!ReviewTypeOK, Branches!CreationInv, NEW c \in attempts, Branches!LookupBranch(c)
    PROVE  Branches!CreationInv'
<1>1. c \in Branches!Attempts /\ attempts \subseteq Branches!Attempts /\ form \in [Tabs -> Branches!Forms]
  BY DEF Branches!CreationInv, Branches!CreationTypeOK
<1>2. used' = used /\ branches' = branches
  BY DEF Branches!LookupBranch
<1>3. Branches!OneBranch'
  BY <1>2 DEF Branches!CreationInv, Branches!OneBranch
<1>4. CASE Branches!Settle(c, TRUE)
  <2>1. /\ form' \in [Tabs -> Branches!Forms] /\ attempts' = attempts \ {c}
        /\ \A t \in Tabs : SettledForm(form[t], form'[t])
    BY <1>4, SettleForms
  <2>2. Branches!Asked' \subseteq Branches!Asked
    BY <1>2, <2>1 DEF Branches!Asked
  <2> QED BY <1>1, <1>2, <1>3, <2>1, <2>2, CreationKept
<1>5. CASE attempts' = (attempts \ {c}) \cup {[c EXCEPT !.stage = "generated"]} /\ UNCHANGED form
  <2> DEFINE d == [c EXCEPT !.stage = "generated"]
  <2>1. d \in Branches!Attempts /\ d.branch = c.branch /\ d.intent = c.intent
    BY <1>1 DEF Branches!Attempts
  <2>2. attempts' \subseteq attempts \cup {d}
    BY <1>5
  <2> HIDE DEF d
  <2>3. Branches!Asked' \subseteq Branches!Asked
    BY <1>2, <2>1, <2>2 DEF Branches!Asked
  <2>4. \A t \in Tabs : SettledForm(form[t], form'[t])
    BY <1>5 DEF SettledForm
  <2> QED BY <1>1, <1>2, <1>3, <1>5, <2>1, <2>2, <2>3, <2>4, CreationKept
<1> QED BY <1>4, <1>5 DEF Branches!LookupBranch

LEMMA CreationInsert ==
    ASSUME Branches!ReviewTypeOK, Branches!CreationInv, NEW c \in attempts, Branches!InsertBranch(c)
    PROVE  Branches!CreationInv'
<1>1. attempts \subseteq Branches!Attempts
  BY DEF Branches!CreationInv, Branches!CreationTypeOK
<1>2. used' = used /\ \E success : Branches!Settle(c, success)
  BY DEF Branches!InsertBranch
<1>3. /\ form' \in [Tabs -> Branches!Forms] /\ attempts' = attempts \ {c}
      /\ \A t \in Tabs : SettledForm(form[t], form'[t])
  BY <1>2, SettleForms
<1> DEFINE b == [id |-> c.branch.id, name |-> c.branch.name, intent |-> c.intent]
<1>4. branches' = branches \/ (branches' = branches \cup {b} /\ ~Branches!Exists(c))
  BY DEF Branches!InsertBranch
<1>5. b.id = c.branch.id /\ b.intent = c.intent
  OBVIOUS
<1> HIDE DEF b
<1>6. Branches!Asked' \subseteq Branches!Asked
  BY <1>3, <1>4, <1>5 DEF Branches!Asked
<1>7. Branches!OneBranch'
  BY <1>4, <1>5 DEF Branches!CreationInv, Branches!OneBranch, Branches!Exists
<1> QED BY <1>1, <1>2, <1>3, <1>6, <1>7, CreationKept

\* The answer of an attempt is lost.
LEMMA CreationLost ==
    ASSUME Branches!ReviewTypeOK, Branches!CreationInv, NEW t \in Tabs, Branches!LoseCreation(t)
    PROVE  Branches!CreationInv'
<1>1. /\ form' = [form EXCEPT ![t].waits = 0] /\ attempts' \subseteq attempts
      /\ used' = used /\ branches' = branches
  BY DEF Branches!LoseCreation, Branches!NotCreated
<1>2. form \in [Tabs -> Branches!Forms] /\ attempts \subseteq Branches!Attempts
  BY DEF Branches!CreationInv, Branches!CreationTypeOK
<1>3. form' \in [Tabs -> Branches!Forms] /\ \A u \in Tabs : SettledForm(form[u], form'[u])
  BY <1>1, <1>2 DEF Branches!Forms, SettledForm
<1>4. Branches!Asked' \subseteq Branches!Asked
  BY <1>1 DEF Branches!Asked
<1>5. Branches!OneBranch'
  BY <1>1 DEF Branches!CreationInv, Branches!OneBranch
<1> QED BY <1>1, <1>2, <1>3, <1>4, <1>5, CreationKept

\* Another name is another intent.
LEMMA CreationType ==
    ASSUME Branches!ReviewTypeOK, Branches!CreationInv, NEW t \in Tabs, NEW name \in Names, Branches!Type(t, name)
    PROVE  Branches!CreationInv' /\ used' \in [requests : Nat, calls : Nat, intents : Nat, ids : Nat]
<1>1. PICK k : k = used.intents
  OBVIOUS
<1>2. PICK n : n = k + 1
  OBVIOUS
<1>3. /\ used' = [used EXCEPT !.intents = n] /\ UNCHANGED <<attempts, branches>>
      /\ form \in [Tabs -> Branches!Forms] /\ attempts \subseteq Branches!Attempts
      /\ used \in [requests : Nat, calls : Nat, intents : Nat, ids : Nat]
      /\ form' = [form EXCEPT ![t].name = name, ![t].intent = n]
  BY <1>1, <1>2 DEF Branches!Type, Branches!CreationInv, Branches!CreationTypeOK, Branches!ReviewTypeOK
<1>4. k \in Nat /\ n \in Nat
  BY <1>1, <1>2, <1>3
<1>5. used' \in [requests : Nat, calls : Nat, intents : Nat, ids : Nat] /\ used'.intents = n
  BY <1>3, <1>4
<1> DEFINE p == [form[t] EXCEPT !.name = name, !.intent = n]
<1>6. p \in Branches!Forms /\ p.intent = n
  BY <1>3, <1>4 DEF Branches!Forms
<1>7. form' = [form EXCEPT ![t] = p]
  BY <1>3 DEF Branches!Forms
<1> HIDE DEF p
<1>8. /\ form' \in [Tabs -> Branches!Forms]
      /\ form'[t].intent = n /\ \A u \in Tabs \ {t} : form'[u] = form[u]
  BY <1>3, <1>6, <1>7
<1>9. Branches!Asked' = Branches!Asked
  BY <1>3 DEF Branches!Asked
<1>10. Branches!OneBranch' /\ Branches!CreationTypeOK'
  BY <1>3, <1>8 DEF Branches!CreationInv, Branches!OneBranch, Branches!CreationTypeOK
<1>11. IntentsOf(Branches!Asked, form, k)
  BY <1>1 DEF Branches!CreationInv, Branches!IntentInv, IntentsOf
<1>12. IntentsOf(Branches!Asked, form', n)
  BY <1>2, <1>4, <1>8, <1>11, IntentStarts
<1>13. IntentsOf(Branches!Asked', form', used'.intents)
  BY <1>5, <1>9, <1>12
<1>14. Branches!IntentInv'
  BY <1>13 DEF Branches!IntentInv, IntentsOf
<1> QED BY <1>5, <1>10, <1>14 DEF Branches!CreationInv

\* The id an attempt goes out under.
LEMMA AttemptId ==
    ASSUME Branches!ReviewTypeOK, Branches!CreationInv, NEW t \in Tabs, NEW a, a = Branches!Attempt(t)
    PROVE  /\ a \in Branches!Creations /\ a.id # 0 /\ a = [id |-> a.id, name |-> form[t].name]
           /\ \A x \in Branches!Asked : x.intent = form[t].intent => x.id = a.id
<1>1. form[t] \in Branches!Forms /\ used.ids \in Nat
  BY DEF Branches!CreationInv, Branches!CreationTypeOK, Branches!ReviewTypeOK
<1>2. form[t].creation \in Branches!Creations /\ form[t].name \in Names \cup {""}
  BY <1>1 DEF Branches!Forms
<1>3. a \in Branches!Creations /\ a.id # 0 /\ a = [id |-> a.id, name |-> form[t].name]
  <2>1. CASE form[t].creation.id # 0 /\ form[t].creation.name = form[t].name
    <3>1. a = form[t].creation
      BY <2>1 DEF Branches!Attempt
    <3> QED BY <1>2, <2>1, <3>1 DEF Branches!Creations
  <2>2. CASE ~(form[t].creation.id # 0 /\ form[t].creation.name = form[t].name)
    <3>1. PICK n : n = used.ids + 1
      OBVIOUS
    <3>2. n \in Nat /\ n # 0
      BY <1>1, <3>1
    <3>3. a = [id |-> n, name |-> form[t].name]
      BY <2>2, <3>1 DEF Branches!Attempt
    <3>4. a.id = n /\ a.name = form[t].name
      BY <3>3
    <3> QED BY <1>2, <3>2, <3>3, <3>4 DEF Branches!Creations
  <2> QED BY <2>1, <2>2
<1>4. ASSUME NEW x \in Branches!Asked, x.intent = form[t].intent PROVE x.id = a.id
  <2>1. form[t].creation = [id |-> x.id, name |-> form[t].name] /\ x.id # 0
    BY <1>4 DEF Branches!CreationInv, Branches!IntentInv
  <2>2. a = form[t].creation
    BY <2>1 DEF Branches!Attempt
  <2> QED BY <2>1, <2>2
<1> QED BY <1>3, <1>4

\* An attempt goes out under the id of the intent, if it has one.
LEMMA CreationCreate ==
    ASSUME Branches!ReviewTypeOK, Branches!CreationInv, NEW t \in Tabs, Branches!Create(t)
    PROVE  Branches!CreationInv' /\ used' \in [requests : Nat, calls : Nat, intents : Nat, ids : Nat]
<1>1. PICK a : a = Branches!Attempt(t)
  OBVIOUS
<1>2. PICK w : w = used.calls + 1
  OBVIOUS
<1>3. PICK i : i = used.ids + 1
  OBVIOUS
<1> DEFINE c == [n |-> w, branch |-> a, intent |-> form[t].intent, stage |-> "arrived"]
           x0 == [id |-> a.id, intent |-> form[t].intent]
<1>4. /\ form' = [form EXCEPT ![t].creation = a, ![t].waits = w] /\ attempts' = attempts \cup {c}
      /\ used' = [used EXCEPT !.calls = w, !.ids = i] /\ UNCHANGED branches
      /\ form[t].name # "" /\ form \in [Tabs -> Branches!Forms] /\ attempts \subseteq Branches!Attempts
      /\ used \in [requests : Nat, calls : Nat, intents : Nat, ids : Nat]
  BY <1>1, <1>2, <1>3 DEF Branches!Create, Branches!CreationInv, Branches!CreationTypeOK, Branches!ReviewTypeOK
<1>5. w \in Nat /\ i \in Nat /\ used.intents \in Nat
  <2>1. used.calls \in Nat /\ used.ids \in Nat /\ used.intents \in Nat
    BY DEF Branches!ReviewTypeOK
  <2> QED BY <1>2, <1>3, <2>1
<1>6. used' \in [requests : Nat, calls : Nat, intents : Nat, ids : Nat] /\ used'.intents = used.intents
  BY <1>4, <1>5
<1>7. /\ a \in Branches!Creations /\ a.id # 0 /\ a = [id |-> a.id, name |-> form[t].name]
      /\ \A x \in Branches!Asked : x.intent = form[t].intent => x.id = a.id
  BY <1>1, AttemptId
<1> DEFINE p == [form[t] EXCEPT !.creation = a, !.waits = w]
<1>8. /\ p \in Branches!Forms /\ p.creation = a /\ p.name = form[t].name /\ p.intent = form[t].intent
      /\ c \in Branches!Attempts
  BY <1>4, <1>5, <1>7 DEF Branches!Forms, Branches!Attempts
<1>9. form' = [form EXCEPT ![t] = p]
  BY <1>4 DEF Branches!Forms
<1>10. \A x \in Branches!Asked' : x \in Branches!Asked \/ x = x0
  <2>1. c.branch = a /\ c.intent = form[t].intent
    OBVIOUS
  <2> HIDE DEF c
  <2> QED BY <1>4, <2>1 DEF Branches!Asked
<1>11. x0.id = a.id /\ x0.intent = form[t].intent
  OBVIOUS
<1> HIDE DEF c, x0, p
<1>12. /\ form' \in [Tabs -> Branches!Forms] /\ form'[t].creation = a
       /\ \A u \in Tabs : form'[u].name = form[u].name /\ form'[u].intent = form[u].intent
       /\ \A u \in Tabs \ {t} : form'[u].creation = form[u].creation
  BY <1>4, <1>8, <1>9
<1>13. IntentsOf(Branches!Asked, form, used.intents)
  BY DEF Branches!CreationInv, Branches!IntentInv, IntentsOf
<1>14. IntentsOf(Branches!Asked', form', used.intents)
  <2>1. form[t].name # ""
    BY <1>4
  <2>2. PICK j : j = a.id
    OBVIOUS
  <2>3. j # 0 /\ form'[t].creation = [id |-> j, name |-> form[t].name]
    BY <1>7, <1>12, <2>2
  <2>4. \A x \in Branches!Asked : x.intent = form[t].intent => x.id = j
    BY <1>7, <2>2
  <2>5. \A x \in Branches!Asked' : x \in Branches!Asked \/ (x.id = j /\ x.intent = form[t].intent)
    BY <1>10, <1>11, <2>2
  <2>6. \A u \in Tabs : form'[u].name = form[u].name /\ form'[u].intent = form[u].intent
    BY <1>12
  <2>7. \A u \in Tabs \ {t} : form'[u].creation = form[u].creation
    BY <1>12
  <2>8. AsksFor(j, t, Branches!Asked, Branches!Asked', form, form')
    BY <2>1, <2>3, <2>4, <2>5, <2>6, <2>7 DEF AsksFor
  <2> QED BY <1>5, <1>13, <2>8, IntentAsked
<1>15. Branches!IntentInv'
  BY <1>6, <1>14 DEF Branches!IntentInv, IntentsOf
<1>16. Branches!OneBranch' /\ Branches!CreationTypeOK'
  BY <1>4, <1>8, <1>12 DEF Branches!CreationInv, Branches!OneBranch, Branches!CreationTypeOK
<1> QED BY <1>6, <1>15, <1>16 DEF Branches!CreationInv

\* A step of the creation leaves the review alone, but for the counters.
LEMMA ReviewUntouched ==
    ASSUME Branches!ReviewInv, UNCHANGED <<Branches!review, calls>>,
           used' \in [requests : Nat, calls : Nat, intents : Nat, ids : Nat]
    PROVE  Branches!ReviewInv'
<1>1. UNCHANGED <<head, merges, stored, panel, calls, told>>
  BY DEF Branches!review
<1>2. Branches!ReviewTypeOK'
  BY <1>1 DEF Branches!ReviewInv, Branches!ReviewTypeOK
<1>3. \A request : Branches!Recoverable(request) => Branches!Recoverable(request)'
  BY <1>1 DEF Branches!Recoverable
<1>4. (\A c \in calls' : Branches!Recoverable(c.request))
      /\ \A t \in Tabs : \A request \in panel'[t].pending : Branches!Recoverable(request)
  BY <1>1 DEF Branches!ReviewInv, Branches!RecoverInv
<1> QED BY <1>1, <1>2, <1>3, <1>4, ReviewKept

LEMMA InitBranches == Branches!Init => Branches!BranchesInv
<1> SUFFICES ASSUME Branches!Init PROVE Branches!BranchesInv
  OBVIOUS
<1>1. Branches!Idle \in Branches!Panels
  BY DEF Branches!Idle, Branches!Panels, Branches!NoComparison, Branches!NoRequest, Branches!Requests
<1>2. Branches!ReviewTypeOK
  BY <1>1 DEF Branches!Init, Branches!ReviewTypeOK
<1>3. Branches!Idle.pending = {}
  BY DEF Branches!Idle
<1>4. Branches!ReviewInv
  BY <1>2, <1>3 DEF Branches!Init, Branches!ReviewInv, Branches!MergeIsReviewed, Branches!RecoverInv
<1>5. Branches!Blank \in Branches!Forms /\ Branches!Blank.intent = 0 /\ Branches!Blank.name = ""
  BY DEF Branches!Blank, Branches!Forms, Branches!NoCreation, Branches!Creations
<1>6. Branches!CreationTypeOK /\ Branches!OneBranch
  BY <1>5 DEF Branches!Init, Branches!CreationTypeOK, Branches!OneBranch
<1>7. Branches!Asked = {}
  BY DEF Branches!Init, Branches!Asked
<1>8. used.intents = 0 /\ 0 \in 0 .. used.intents
  BY DEF Branches!Init
<1>9. \A t \in Tabs : form[t] = Branches!Blank
  BY DEF Branches!Init
<1>10. Branches!IntentInv
  BY <1>5, <1>7, <1>8, <1>9 DEF Branches!IntentInv
<1> QED BY <1>4, <1>6, <1>10 DEF Branches!BranchesInv, Branches!CreationInv

\* The review's own steps.
LEMMA ReviewStep ==
    ASSUME Branches!BranchesInv, Branches!ReviewInv', UNCHANGED Branches!creation,
           used'.intents = used.intents
    PROVE  Branches!BranchesInv'
BY CreationUntouched DEF Branches!BranchesInv, Branches!ReviewInv, Branches!creation

LEMMA TabStep ==
    ASSUME Branches!BranchesInv, NEW t \in Tabs,
           \/ Branches!Compare(t) \/ Branches!Compared(t)
           \/ Branches!Retry(t) \/ Branches!MergeSaved(t) \/ Branches!StartMerge(t)
           \/ Branches!VerifyFails(t) \/ Branches!MergeNew(t) \/ Branches!Reload(t)
    PROVE  Branches!BranchesInv'
<1>0. Branches!ReviewInv
  BY DEF Branches!BranchesInv
<1>1. CASE Branches!Compare(t) \/ Branches!Compared(t) \/ Branches!StartMerge(t) \/ Branches!VerifyFails(t)
  <2>1. UNCHANGED <<used, Branches!creation>>
    BY <1>1 DEF Branches!Compare, Branches!Compared, Branches!StartMerge, Branches!VerifyFails
  <2> QED BY <1>0, <1>1, <2>1, ReviewCompare, ReviewStep
<1>2. CASE Branches!Retry(t) \/ Branches!MergeSaved(t) \/ Branches!MergeNew(t)
  <2>1. used \in [requests : Nat, calls : Nat, intents : Nat, ids : Nat]
    BY <1>0 DEF Branches!ReviewInv, Branches!ReviewTypeOK
  <2>2. UNCHANGED Branches!creation /\ used'.intents = used.intents
    BY <1>2, <2>1 DEF Branches!Retry, Branches!MergeSaved, Branches!MergeNew
  <2> QED BY <1>0, <1>2, <2>2, ReviewMerge, ReviewStep
<1>3. CASE Branches!Reload(t)
  <2>1. UNCHANGED <<used, Branches!creation>>
    BY <1>3 DEF Branches!Reload
  <2> QED BY <1>0, <1>3, <2>1, ReviewReload, ReviewStep
<1> QED BY <1>1, <1>2, <1>3

LEMMA CallStep ==
    ASSUME Branches!BranchesInv, NEW c \in calls,
           \/ Branches!Lookup(c) \/ Branches!Generate(c) \/ Branches!Commit(c)
           \/ Branches!Abandon(c) \/ Branches!Answered(c) \/ Branches!Lose(c)
    PROVE  Branches!BranchesInv'
<1>1. Branches!ReviewInv'
  BY ReviewLookup, ReviewCommit, ReviewAnswered DEF Branches!BranchesInv
<1>2. UNCHANGED <<used, Branches!creation>>
  BY DEF Branches!Lookup, Branches!Generate, Branches!Commit, Branches!Abandon, Branches!Answered, Branches!Lose
<1> QED BY <1>1, <1>2, ReviewStep

LEMMA CreationStep ==
    ASSUME Branches!BranchesInv,
           \/ \E t \in Tabs : \/ Branches!Create(t) \/ Branches!LoseCreation(t)
                              \/ \E name \in Names : Branches!Type(t, name)
           \/ \E c \in attempts : Branches!LookupBranch(c) \/ Branches!InsertBranch(c)
    PROVE  Branches!BranchesInv'
<1>0. Branches!ReviewInv /\ Branches!ReviewTypeOK /\ Branches!CreationInv
      /\ used \in [requests : Nat, calls : Nat, intents : Nat, ids : Nat]
  BY DEF Branches!BranchesInv, Branches!ReviewInv, Branches!ReviewTypeOK
<1>1. Branches!CreationInv' /\ used' \in [requests : Nat, calls : Nat, intents : Nat, ids : Nat]
      /\ UNCHANGED <<Branches!review, calls>>
  <2>1. ASSUME NEW t \in Tabs, Branches!Create(t)
        PROVE  /\ Branches!CreationInv' /\ used' \in [requests : Nat, calls : Nat, intents : Nat, ids : Nat]
               /\ UNCHANGED <<Branches!review, calls>>
    BY <1>0, <2>1, CreationCreate DEF Branches!Create
  <2>2. ASSUME NEW t \in Tabs, Branches!LoseCreation(t)
        PROVE  /\ Branches!CreationInv' /\ used' \in [requests : Nat, calls : Nat, intents : Nat, ids : Nat]
               /\ UNCHANGED <<Branches!review, calls>>
    BY <1>0, <2>2, CreationLost DEF Branches!LoseCreation
  <2>3. ASSUME NEW t \in Tabs, NEW name \in Names, Branches!Type(t, name)
        PROVE  /\ Branches!CreationInv' /\ used' \in [requests : Nat, calls : Nat, intents : Nat, ids : Nat]
               /\ UNCHANGED <<Branches!review, calls>>
    BY <1>0, <2>3, CreationType DEF Branches!Type
  <2>4. ASSUME NEW c \in attempts, Branches!LookupBranch(c)
        PROVE  /\ Branches!CreationInv' /\ used' \in [requests : Nat, calls : Nat, intents : Nat, ids : Nat]
               /\ UNCHANGED <<Branches!review, calls>>
    BY <1>0, <2>4, CreationLookup DEF Branches!LookupBranch
  <2>5. ASSUME NEW c \in attempts, Branches!InsertBranch(c)
        PROVE  /\ Branches!CreationInv' /\ used' \in [requests : Nat, calls : Nat, intents : Nat, ids : Nat]
               /\ UNCHANGED <<Branches!review, calls>>
    BY <1>0, <2>5, CreationInsert DEF Branches!InsertBranch
  <2> QED BY <2>1, <2>2, <2>3, <2>4, <2>5
<1> QED BY <1>0, <1>1, ReviewUntouched DEF Branches!BranchesInv

LEMMA StepBranches == Branches!BranchesInv /\ Branches!Next => Branches!BranchesInv'
<1> SUFFICES ASSUME Branches!BranchesInv, Branches!Next PROVE Branches!BranchesInv'
  OBVIOUS
<1>1. CASE Branches!Revoke \/ \E d \in Branches!Documents : Branches!Edit(d)
  <2>1. UNCHANGED <<used, Branches!creation>>
    BY <1>1 DEF Branches!Revoke, Branches!Edit
  <2> QED BY <1>1, <2>1, ReviewOthers, ReviewStep DEF Branches!BranchesInv
<1> QED BY <1>1, TabStep, CallStep, CreationStep DEF Branches!Next

\* The inductive invariant of the review branches (review-branches-panel.tsx,
\* branches.rs).
THEOREM BranchesInvariant == Spec => [](part = "ReviewBranches" => Branches!BranchesInv)
<1> DEFINE I == part = "ReviewBranches" => Branches!BranchesInv
<1>1. Init => I
  <2>1. Init /\ part = "ReviewBranches" => Branches!Init
    BY DEF Init
  <2> QED BY <2>1, InitBranches
<1>2. I /\ [Next]_vars => I'
  <2> SUFFICES ASSUME I, [Next]_vars, part' = "ReviewBranches" PROVE Branches!BranchesInv'
    OBVIOUS
  <2>1. CASE UNCHANGED vars
    <3>1. UNCHANGED <<Branches!review, Branches!creation, calls, used>> /\ Branches!BranchesInv
      BY <2>1 DEF vars, branchesVars, Branches!review, Branches!creation
    <3>2. used' \in [requests : Nat, calls : Nat, intents : Nat, ids : Nat]
      BY <3>1 DEF Branches!BranchesInv, Branches!ReviewInv, Branches!ReviewTypeOK
    <3>3. Branches!ReviewInv'
      BY <3>1, <3>2, ReviewUntouched DEF Branches!BranchesInv
    <3> QED BY <3>1, <3>3, ReviewStep
  <2>2. CASE Next
    <3>1. part = "ReviewBranches" /\ Branches!Next
      BY <2>2 DEF Next
    <3> QED BY <3>1, StepBranches
  <2> QED BY <2>1, <2>2
<1> QED BY <1>1, <1>2, PTL DEF Spec

\* A merge joins main as it was compared, a committed merge is told or can be
\* recovered, and a branch asked for once exists once (merge and create in
\* review-branches-panel.tsx and branches.rs).
THEOREM BranchesAreSoundHolds == Spec => []BranchesAreSound
<1>1. Branches!BranchesInv => Branches!MergeIsReviewed /\ Branches!MergeRecoverable
  BY DEF Branches!BranchesInv, Branches!ReviewInv, Branches!RecoverInv, Branches!Recoverable,
         Branches!MergeRecoverable
<1>2. ASSUME Branches!BranchesInv PROVE Branches!CreatedOnce
  <2>1. ASSUME NEW b \in branches, NEW d \in branches, b.intent = d.intent PROVE b = d
    <3> DEFINE x == [id |-> b.id, intent |-> b.intent]
               y == [id |-> d.id, intent |-> d.intent]
    <3>1. x \in Branches!Asked /\ y \in Branches!Asked
      BY DEF Branches!Asked
    <3>2. x.intent = y.intent /\ x.id = b.id /\ y.id = d.id
      BY <2>1
    <3> HIDE DEF x, y
    <3>3. b.id = d.id
      BY <1>2, <3>1, <3>2 DEF Branches!BranchesInv, Branches!CreationInv, Branches!IntentInv
    <3> QED BY <1>2, <3>3 DEF Branches!BranchesInv, Branches!CreationInv, Branches!OneBranch
  <2> QED BY <2>1 DEF Branches!CreatedOnce
<1>3. (part = "ReviewBranches" => Branches!BranchesInv) => BranchesAreSound
  BY <1>1, <1>2 DEF BranchesAreSound
<1> QED BY <1>3, BranchesInvariant, PTL

-----------------------------------------------------------------------------
(* DeployConfig: a service that is started refuses only what the check     *)
(* before it cannot see.                                                   *)

\* The numbers at the limits, in their order.
LEMMA RankOf == \A i \in 1 .. 12 : Config!IsNumber(Config!Numbers[i]) /\ Config!Rank(Config!Numbers[i]) = i
<1>1. DOMAIN Config!Numbers = 1 .. 12
  BY DEF Config!Numbers
<1>2. \A i, j \in 1 .. 12 : Config!Numbers[i] = Config!Numbers[j] => i = j
  BY DEF Config!Numbers
<1> QED BY <1>1, <1>2 DEF Config!Rank, Config!IsNumber

LEMMA Ranks ==
    /\ Config!Rank("0") = 1 /\ Config!Rank("1") = 2 /\ Config!Rank("1024") = 4
    /\ Config!Rank("10000") = 5 /\ Config!Rank("65535") = 7 /\ Config!Rank("2^32-1") = 9
    /\ Config!Rank("2^64-1") = 11 /\ Config!Rank("2^64") = 12
<1>1. /\ Config!Numbers[1] = "0" /\ Config!Numbers[2] = "1" /\ Config!Numbers[4] = "1024"
      /\ Config!Numbers[5] = "10000" /\ Config!Numbers[7] = "65535" /\ Config!Numbers[9] = "2^32-1"
      /\ Config!Numbers[11] = "2^64-1" /\ Config!Numbers[12] = "2^64"
  BY DEF Config!Numbers
<1> QED BY <1>1, RankOf

\* A number the check lets through and the gateway's type does not hold.
LEMMA LimitsAgree ==
    ASSUME NEW v \in DOMAIN Config!Limits, NEW c, c # "2^64-1",
           Config!Within(c, Config!Limits[v].check[1], Config!Limits[v].check[2])
    PROVE  \/ Config!Within(c, Config!Limits[v].parse[1], Config!Limits[v].parse[2])
           \/ c \in {"2^32", "2^64"}
<1>1. PICK i \in 1 .. 12 : Config!Numbers[i] = c /\ Config!Rank(c) = i /\ Config!IsNumber(c)
  <2>1. DOMAIN Config!Numbers = 1 .. 12 /\ Config!IsNumber(c)
    BY DEF Config!Numbers, Config!Within
  <2> QED BY <2>1, RankOf DEF Config!IsNumber
<1>2. i = 10 => c = "2^32"
  BY <1>1 DEF Config!Numbers
<1>3. i = 12 => c = "2^64"
  BY <1>1 DEF Config!Numbers
<1>4. i = 11 => c = "2^64-1"
  BY <1>1 DEF Config!Numbers
<1>5. CASE i >= 10
  BY <1>2, <1>3, <1>4, <1>5
<1>6. CASE i < 10
  <2>1. \A lo, hi : Config!Within(c, lo, hi) <=> Config!Rank(lo) <= i /\ i <= Config!Rank(hi)
    BY <1>1 DEF Config!Within
  <2>2. /\ Config!Rank(Config!Limits[v].check[1]) <= i /\ i <= Config!Rank(Config!Limits[v].check[2])
    BY <2>1
  <2>3. v \in {"GATEWAY_BIND_PORT", "GATEWAY_MAX_FRAME_SIZE", "GATEWAY_QUEUE_CAPACITY",
               "GATEWAY_IDLE_TIMEOUT_SECS", "GATEWAY_DB_POOL_SIZE", "GATEWAY_ID",
               "GATEWAY_RATE_CONNECT_PER_MIN"}
    BY DEF Config!Limits
  <2>4. /\ Config!Rank(Config!Limits[v].parse[1]) <= i /\ i <= Config!Rank(Config!Limits[v].parse[2])
    <3>1. CASE v = "GATEWAY_BIND_PORT"
      BY <1>6, <2>2, <3>1, Ranks DEF Config!Limits
    <3>2. CASE v = "GATEWAY_MAX_FRAME_SIZE"
      BY <1>6, <2>2, <3>2, Ranks DEF Config!Limits
    <3>3. CASE v = "GATEWAY_QUEUE_CAPACITY"
      BY <1>6, <2>2, <3>3, Ranks DEF Config!Limits
    <3>4. CASE v = "GATEWAY_IDLE_TIMEOUT_SECS"
      BY <1>6, <2>2, <3>4, Ranks DEF Config!Limits
    <3>5. CASE v = "GATEWAY_DB_POOL_SIZE"
      BY <1>6, <2>2, <3>5, Ranks DEF Config!Limits
    <3>6. CASE v = "GATEWAY_ID"
      BY <1>6, <2>2, <3>6, Ranks DEF Config!Limits
    <3>7. CASE v = "GATEWAY_RATE_CONNECT_PER_MIN"
      BY <1>6, <2>2, <3>7, Ranks DEF Config!Limits
    <3> QED BY <2>3, <3>1, <3>2, <3>3, <3>4, <3>5, <3>6, <3>7
  <2> QED BY <2>1, <2>4
<1> QED BY <1>5, <1>6

\* What a passed check says of the environment.
LEMMA PassedGateway ==
    ASSUME Config!ConfigInv, Config!Passed("gateway")
    PROVE  /\ \A v \in {"GATEWAY_DATABASE_URL", "GATEWAY_CLERK_ISSUER"} : Config!IsSet(Config!Effective[v])
           /\ \A v \in Config!OfGateway :
                 Config!IsSet(Config!Effective[v]) => Config!WellFormed(v, Config!Effective[v])
<1>1. PICK r \in report : r.service \in {"gateway", "all"} /\ r.missing = {} /\ r.malformed = {}
  BY DEF Config!Passed
<1>2. PICK scope, service : r = Config!Findings(scope, service)
  BY <1>1 DEF Config!ConfigInv
<1>3. service \in {"gateway", "all"} /\ service # "web"
  BY <1>1, <1>2 DEF Config!Findings
<1>4. /\ \A v \in Config!GatewayRequired(scope) : Config!IsSet(Config!Effective[v])
      /\ \A v \in Config!OfGateway : Config!IsSet(Config!Effective[v]) => Config!WellFormed(v, Config!Effective[v])
  BY <1>1, <1>2, <1>3 DEF Config!Findings
<1> QED BY <1>4 DEF Config!GatewayRequired

LEMMA PassedWeb ==
    ASSUME Config!ConfigInv, Config!Passed("web")
    PROVE  /\ \A v \in Config!WebRequired : Config!IsSet(Config!Effective[v])
           /\ \A v \in Config!OfWeb :
                 Config!IsSet(Config!Effective[v]) => Config!WellFormed(v, Config!Effective[v])
<1>1. PICK r \in report : r.service \in {"web", "all"} /\ r.missing = {} /\ r.malformed = {}
  BY DEF Config!Passed
<1>2. PICK scope, service : r = Config!Findings(scope, service)
  BY <1>1 DEF Config!ConfigInv
<1>3. service \in {"web", "all"} /\ service # "gateway"
  BY <1>1, <1>2 DEF Config!Findings
<1> QED BY <1>1, <1>2, <1>3 DEF Config!Findings

\* The two contracts of a variable of the web application (env.ts) ...
LEMMA WebAgrees ==
    ASSUME NEW env, NEW v \in Config!ServerEnvIssues(env),
           \A w \in Config!WebRequired : Config!IsSet(env[w]),
           \A w \in Config!OfWeb : Config!IsSet(env[w]) => Config!WellFormed(w, env[w])
    PROVE  Config!Unknown(v, env[v])
<1>1. CASE v \in Config!WebSecurityIssues(env)
  <2>1. v \in {"CONCORD_REQUIRE_TLS", "CONCORD_APP_ORIGIN", "NEXT_PUBLIC_SYNC_GATEWAY_URL"}
    BY <1>1 DEF Config!WebSecurityIssues
  <2> QED BY <2>1 DEF Config!Unknown
<1>2. v \notin {"CLERK_SECRET_KEY", "NEXT_PUBLIC_CLERK_PUBLISHABLE_KEY"} \/ v \in Config!WebSecurityIssues(env)
  <2>1. ASSUME v \in {"CLERK_SECRET_KEY", "NEXT_PUBLIC_CLERK_PUBLISHABLE_KEY"}, v \notin Config!WebSecurityIssues(env)
        PROVE  FALSE
    <3>1. ~Config!IsSet(env[v])
      BY <2>1 DEF Config!ServerEnvIssues
    <3> QED BY <2>1, <3>1 DEF Config!WebRequired
  <2> QED BY <2>1
<1>3. CASE v = "DATABASE_URL" /\ v \notin Config!WebSecurityIssues(env)
  <2>1. env[v] # "postgres://db"
    BY <1>3 DEF Config!ServerEnvIssues
  <2>2. Config!IsSet(env[v]) /\ Config!WellFormed(v, env[v])
    BY <1>3 DEF Config!WebRequired, Config!OfWeb
  <2>3. env[v] = "postgres://db"
    BY <1>3, <2>2 DEF Config!WellFormed, Config!Limits
  <2> QED BY <2>1, <2>3
<1>4. CASE v = "DATABASE_TEST_URL" /\ v \notin Config!WebSecurityIssues(env)
  <2>1. env[v] \notin {"postgres://db", "unset"}
    BY <1>4 DEF Config!ServerEnvIssues, Config!Unset
  <2>2. env[v] = Config!Empty \/ Config!WellFormed(v, env[v])
    BY <1>4, <2>1 DEF Config!OfWeb, Config!IsSet, Config!Unset
  <2>3. Config!WellFormed(v, env[v]) => env[v] = "postgres://db"
    BY <1>4 DEF Config!WellFormed, Config!Limits
  <2> QED BY <2>1, <2>2, <2>3 DEF Config!Unknown
<1>5. v \in {"DATABASE_URL", "DATABASE_TEST_URL"} \cup {"CLERK_SECRET_KEY", "NEXT_PUBLIC_CLERK_PUBLISHABLE_KEY"}
            \cup Config!WebSecurityIssues(env)
  BY DEF Config!ServerEnvIssues
<1> QED BY <1>1, <1>2, <1>3, <1>4, <1>5

\* ... and of one of the gateway (config.rs).
LEMMA GatewayAgrees ==
    ASSUME NEW env, NEW v \in Config!GatewayIssues(env),
           v \in DOMAIN Config!Limits => env[v] # "2^64-1",
           \A w \in {"GATEWAY_DATABASE_URL", "GATEWAY_CLERK_ISSUER"} : Config!IsSet(env[w]),
           \A w \in Config!OfGateway : Config!IsSet(env[w]) => Config!WellFormed(w, env[w])
    PROVE  Config!Unknown(v, env[v])
<1>1. v \in Config!OfGateway /\ DOMAIN Config!Limits = {"GATEWAY_BIND_PORT", "GATEWAY_MAX_FRAME_SIZE",
            "GATEWAY_QUEUE_CAPACITY", "GATEWAY_IDLE_TIMEOUT_SECS", "GATEWAY_DB_POOL_SIZE", "GATEWAY_ID",
            "GATEWAY_RATE_CONNECT_PER_MIN"}
  <2>1. v \in Config!OfGateway
    BY DEF Config!GatewayIssues
  <2> QED BY <2>1 DEF Config!Limits
<1>2. Config!Refuses(env, v, env[v])
  BY DEF Config!GatewayIssues
<1>3. SUFFICES ASSUME env[v] # Config!Empty PROVE Config!Unknown(v, env[v])
  BY DEF Config!Unknown
<1>4. env[v] = Config!Unset \/ Config!WellFormed(v, env[v])
  BY <1>1, <1>3 DEF Config!IsSet
<1>5. CASE v \in DOMAIN Config!Limits
  <2>1. /\ env[v] # Config!Unset
        /\ ~Config!Within(env[v], Config!Limits[v].parse[1], Config!Limits[v].parse[2])
    <3>1. PICK c, yes : c = env[v] /\ yes = Config!Within(c, Config!Limits[v].parse[1], Config!Limits[v].parse[2])
      OBVIOUS
    <3>2. Config!Refuses(env, v, c) = (c # Config!Unset /\ ~yes)
      BY <1>1, <1>5, <3>1, Zenon DEF Config!Refuses
    <3> QED BY <1>2, <3>1, <3>2
  <2>2. Config!Within(env[v], Config!Limits[v].check[1], Config!Limits[v].check[2])
    BY <1>1, <1>4, <1>5, <2>1 DEF Config!WellFormed
  <2> QED BY <1>5, <2>1, <2>2, LimitsAgree DEF Config!Unknown
<1>6. CASE v \in {"GATEWAY_DATABASE_URL", "GATEWAY_CLERK_ISSUER"}
  <2>1. v = "GATEWAY_DATABASE_URL" => env[v] = Config!Unset
    BY <1>1, <1>2 DEF Config!Refuses
  <2>2. v = "GATEWAY_CLERK_ISSUER" => env[v] = Config!Unset
    BY <1>1, <1>2 DEF Config!Refuses
  <2> QED BY <1>6, <2>1, <2>2 DEF Config!IsSet
<1>7. CASE v = "GATEWAY_OTEL_ENABLED"
  <2>1. env[v] \notin {Config!Unset, "true", "false"}
    BY <1>1, <1>7, <1>2 DEF Config!Refuses
  <2>2. Config!WellFormed(v, env[v]) => env[v] \in {"true", "false", "TRUE"}
    BY <1>1, <1>7 DEF Config!WellFormed
  <2> QED BY <1>4, <1>7, <2>1, <2>2 DEF Config!Unknown
<1>8. CASE v = "GATEWAY_BIND_HOST"
  <2>1. env[v] \notin {Config!Unset, "0.0.0.0", "[::1]"}
    BY <1>1, <1>8, <1>2 DEF Config!Refuses
  <2>2. Config!WellFormed(v, env[v]) => env[v] \in {"0.0.0.0", "01.2.3.4"}
    BY <1>1, <1>8 DEF Config!WellFormed
  <2> QED BY <1>4, <1>8, <2>1, <2>2 DEF Config!Unknown
<1>9. v # "GATEWAY_OTEL_SAMPLE_RATIO"
  <2> SUFFICES ASSUME v = "GATEWAY_OTEL_SAMPLE_RATIO" PROVE FALSE
    OBVIOUS
  <2>1. env[v] = "1.5"
    BY <1>1, <1>3, <1>2 DEF Config!Refuses
  <2>2. Config!WellFormed(v, env[v]) => env[v] = "0.5"
    BY <1>1 DEF Config!WellFormed
  <2> QED BY <1>4, <2>1, <2>2 DEF Config!Unset
<1>10. v # "GATEWAY_OTEL_EXPORTER"
  <2> SUFFICES ASSUME v = "GATEWAY_OTEL_EXPORTER" PROVE FALSE
    OBVIOUS
  <2>1. env[v] \notin {Config!Unset, "otlp", "OTLP"}
    BY <1>1, <1>2 DEF Config!Refuses
  <2>2. Config!WellFormed(v, env[v]) => env[v] \in {"otlp", "OTLP"}
    BY <1>1 DEF Config!WellFormed
  <2> QED BY <1>4, <2>1, <2>2
<1>11. v # "GATEWAY_WORKER_BINARY"
  <2> SUFFICES ASSUME v = "GATEWAY_WORKER_BINARY" PROVE FALSE
    OBVIOUS
  <2>1. env[v] = "nowhere"
    BY <1>1, <1>2 DEF Config!Refuses
  <2>2. Config!WellFormed(v, env[v]) => env[v] = "worker"
    BY <1>1 DEF Config!WellFormed
  <2> QED BY <1>4, <2>1, <2>2 DEF Config!Unset
<1>12. v # "GATEWAY_ALLOWED_ORIGINS"
  <2> SUFFICES ASSUME v = "GATEWAY_ALLOWED_ORIGINS" PROVE FALSE
    OBVIOUS
  <2>1. env[v] # env[v]
    BY <1>1, <1>2 DEF Config!Refuses
  <2> QED BY <2>1
<1>13. v \in {"GATEWAY_REQUIRE_INTERNAL_SERVICES", "GATEWAY_NATS_URL", "GATEWAY_REDIS_URL",
              "GATEWAY_CLERK_AUDIENCE", "GATEWAY_TRUSTED_PROXY_CIDRS"} => Config!Unknown(v, env[v])
  BY DEF Config!Unknown
<1> QED BY <1>1, <1>5, <1>6, <1>7, <1>8, <1>9, <1>10, <1>11, <1>12, <1>13 DEF Config!OfGateway

\* Once there is a report, nothing is edited any more.
LEMMA NothingStarted ==
    ASSUME Config!ConfigInv, report = {}
    PROVE  web = {} /\ gateway = {}
BY DEF Config!ConfigInv, Config!Passed

LEMMA EditStep ==
    ASSUME Config!ConfigInv, Config!Edit, DOMAIN file' = Config!Vars, DOMAIN proc' = Config!Vars,
           \A v \in DOMAIN Config!Limits : Config!Effective'[v] # "2^64-1"
    PROVE  Config!ConfigInv'
BY NothingStarted DEF Config!Edit, Config!ConfigInv

\* A step that changes neither the environment nor a report that is there.
LEMMA ReportStep ==
    ASSUME Config!ConfigInv, UNCHANGED <<file, proc>>, report' = report,
           \A w \in web' : w \in web \/ (Config!Passed("web") /\ w = Config!Started(Config!Effective)),
           \A g \in gateway' : g \in gateway \/ (Config!Passed("gateway") /\ g = Config!GatewayIssues(Config!Effective))
    PROVE  Config!ConfigInv'
<1>1. Config!Effective' = Config!Effective
  BY DEF Config!Effective
<1>2. \A scope, service : Config!Findings(scope, service)' = Config!Findings(scope, service)
  BY <1>1 DEF Config!Findings
<1>3. \A service : Config!Passed(service)' <=> Config!Passed(service)
  BY DEF Config!Passed
<1> QED BY <1>1, <1>2, <1>3 DEF Config!ConfigInv

LEMMA CheckStep ==
    ASSUME Config!ConfigInv, NEW scope \in Config!Scopes, NEW service \in Config!Services,
           Config!Check(scope, service)
    PROVE  Config!ConfigInv'
<1>1. Config!Effective' = Config!Effective
  BY DEF Config!Effective, Config!Check
<1>2. Config!Findings(scope, service)' = Config!Findings(scope, service)
  BY <1>1 DEF Config!Findings
<1>3. web' = {} /\ gateway' = {}
  BY NothingStarted DEF Config!Check
<1>4. report' = {Config!Findings(scope, service)'}
  BY <1>2 DEF Config!Check
<1> QED BY <1>1, <1>3, <1>4 DEF Config!ConfigInv, Config!Check

LEMMA ConfigStep ==
    ASSUME Config!ConfigInv, Config!Next
    PROVE  Config!ConfigInv'
<1>1. /\ DOMAIN file = Config!Vars /\ DOMAIN proc = Config!Vars
      /\ \A v \in DOMAIN Config!Limits : Config!Effective[v] # "2^64-1"
      /\ DOMAIN Config!Limits \subseteq Config!Vars
  BY DEF Config!ConfigInv, Config!Vars, Config!OfGateway
<1>2. ASSUME NEW v \in Config!Vars, Config!Remove(v) PROVE Config!ConfigInv'
  <2>1. file' = [file EXCEPT ![v] = Config!Unset] /\ proc' = proc /\ Config!Edit
    BY <1>2 DEF Config!Remove
  <2>2. \A w \in Config!Vars : Config!Effective'[w] \in {Config!Effective[w], Config!Unset}
    BY <1>1, <2>1 DEF Config!Effective
  <2>3. \A w \in DOMAIN Config!Limits : Config!Effective'[w] # "2^64-1"
    BY <1>1, <2>2 DEF Config!Unset
  <2> QED BY <1>1, <2>1, <2>3, EditStep
<1>3. ASSUME NEW v \in Config!Vars, NEW c \in Config!Domain(v) \cup {Config!Empty}, Config!Export(v, c)
      PROVE  Config!ConfigInv'
  <2>1. proc' = [proc EXCEPT ![v] = c] /\ file' = file /\ Config!Edit
    BY <1>3 DEF Config!Export
  <2>2. ASSUME NEW w \in DOMAIN Config!Limits PROVE Config!Effective'[w] # "2^64-1"
    <3>1. CASE w # v
      <4>1. Config!Effective'[w] = Config!Effective[w]
        BY <1>1, <2>1, <3>1 DEF Config!Effective
      <4> QED BY <1>1, <4>1
    <3>2. CASE w = v
      <4>1. c \in {"0", "1", "1024", "10001", "65536", "2^32", "2^64", "text"} \cup {Config!Empty} /\ c # Config!Unset
        <5>1. v \in {"GATEWAY_BIND_PORT", "GATEWAY_MAX_FRAME_SIZE", "GATEWAY_QUEUE_CAPACITY",
                     "GATEWAY_IDLE_TIMEOUT_SECS", "GATEWAY_DB_POOL_SIZE", "GATEWAY_ID",
                     "GATEWAY_RATE_CONNECT_PER_MIN"}
          BY <3>2 DEF Config!Limits
        <5>2. Config!Domain(v) = {"0", "1", "1024", "10001", "65536", "2^32", "2^64", "text"}
          BY <3>2, <5>1, Zenon DEF Config!Domain
        <5> QED BY <5>2 DEF Config!Unset, Config!Empty
      <4>2. Config!Effective'[w] = c
        BY <1>1, <2>1, <3>2, <4>1 DEF Config!Effective
      <4> QED BY <4>1, <4>2 DEF Config!Empty
    <3> QED BY <3>1, <3>2
  <2> QED BY <1>1, <2>1, <2>2, EditStep
<1>4. ASSUME Config!StartWeb \/ Config!StartGateway PROVE Config!ConfigInv'
  <2>1. UNCHANGED <<file, proc>> /\ report' = report
    BY <1>4 DEF Config!StartWeb, Config!StartGateway
  <2>2. \A w \in web' : w \in web \/ (Config!Passed("web") /\ w = Config!Started(Config!Effective))
    BY <1>4 DEF Config!StartWeb, Config!StartGateway
  <2>3. \A g \in gateway' : \/ g \in gateway
                            \/ Config!Passed("gateway") /\ g = Config!GatewayIssues(Config!Effective)
    BY <1>4 DEF Config!StartWeb, Config!StartGateway
  <2> QED BY <2>1, <2>2, <2>3, ReportStep
<1> QED BY <1>2, <1>3, <1>4, CheckStep DEF Config!Next

\* With TLS required, nothing but the secure origins gets past the checks.
LEMMA SecureHeaders ==
    ASSUME NEW env, env["CONCORD_REQUIRE_TLS"] = "1", Config!WebSecurityIssues(env) = {},
           NEW h, h = Config!SecurityHeaders(env)
    PROVE  h.connect = {"wss"} /\ h.parties = {"https"} /\ h.hsts
<1>1. Config!AppOrigin(env["CONCORD_APP_ORIGIN"]) = "https"
  BY DEF Config!WebSecurityIssues
<1>2. Config!SyncGatewayOrigin(env["NEXT_PUBLIC_SYNC_GATEWAY_URL"]) = "wss"
  BY DEF Config!WebSecurityIssues
<1> QED BY <1>1, <1>2 DEF Config!SecurityHeaders

\* Whatever an operator sets or leaves out, a service that starts after its
\* check passed refuses only what the check does not know, and with TLS
\* required pages keep the browser to the secure origins
\* (validate-env.mjs, env.ts, proxy.ts, config.rs).
THEOREM ConfigurationIsCheckedHolds == Spec => []ConfigurationIsChecked
<1> DEFINE I == part = "DeployConfig" => Config!ConfigInv
<1>1. Init => I
  <2>1. Init /\ part = "DeployConfig" => Config!Init
    BY Zenon DEF Init
  <2>2. Config!Init => Config!ConfigInv
    <3>1. SUFFICES ASSUME Config!Init PROVE Config!ConfigInv
      OBVIOUS
    <3>2. /\ file = Config!Complete /\ DOMAIN file = Config!Vars /\ DOMAIN proc = Config!Vars
          /\ \A v \in Config!Vars : proc[v] = Config!Unset
          /\ report = {} /\ web = {} /\ gateway = {}
      BY <3>1 DEF Config!Init, Config!Complete
    <3>3. ASSUME NEW v \in DOMAIN Config!Limits PROVE Config!Effective[v] # "2^64-1"
      <4>1. v \in Config!Vars
        BY DEF Config!Vars, Config!OfGateway
      <4>2. Config!Effective[v] = Config!Complete[v]
        BY <3>2, <4>1 DEF Config!Effective
      <4>3. Config!Complete[v] = Config!Unset
        BY <4>1 DEF Config!Complete, Config!Limits
      <4> QED BY <4>2, <4>3 DEF Config!Unset
    <3> QED BY <3>2, <3>3 DEF Config!ConfigInv
  <2> QED BY <2>1, <2>2
<1>2. I /\ [Next]_vars => I'
  <2> SUFFICES ASSUME I, [Next]_vars, part' = "DeployConfig" PROVE Config!ConfigInv'
    OBVIOUS
  <2>1. CASE UNCHANGED vars
    <3>1. part = "DeployConfig" /\ Config!ConfigInv /\ UNCHANGED <<file, proc, report, web, gateway>>
      BY <2>1 DEF vars, configVars
    <3> QED BY <3>1, ReportStep
  <2>2. CASE Next
    <3>1. part = "DeployConfig" /\ Config!Next
      BY <2>2 DEF Next
    <3> QED BY <3>1, ConfigStep
  <2> QED BY <2>1, <2>2
<1>3. ASSUME Config!ConfigInv PROVE Config!PassedStarts
  <2>1. ASSUME NEW w \in web, NEW v \in w.issues PROVE Config!Unknown(v, Config!Effective[v])
    <3>1. Config!Passed("web") /\ w.issues = Config!ServerEnvIssues(Config!Effective)
      BY <1>3 DEF Config!ConfigInv, Config!Started
    <3> QED BY <1>3, <2>1, <3>1, PassedWeb, WebAgrees
  <2>2. ASSUME NEW g \in gateway, NEW v \in g PROVE Config!Unknown(v, Config!Effective[v])
    <3>1. Config!Passed("gateway") /\ g = Config!GatewayIssues(Config!Effective)
      BY <1>3 DEF Config!ConfigInv
    <3>2. v \in DOMAIN Config!Limits => Config!Effective[v] # "2^64-1"
      BY <1>3 DEF Config!ConfigInv
    <3> QED BY <1>3, <2>2, <3>1, <3>2, PassedGateway, GatewayAgrees
  <2> QED BY <2>1, <2>2 DEF Config!PassedStarts, Config!Refused
<1>4. ASSUME Config!ConfigInv PROVE Config!TlsIsWhole
  <2>1. ASSUME NEW w \in web, NEW h \in w.headers
        PROVE  Config!WebSecurityIssues(Config!Effective) = {} /\ h = Config!SecurityHeaders(Config!Effective)
    BY <1>4 DEF Config!ConfigInv, Config!Started
  <2> QED BY <2>1, SecureHeaders DEF Config!TlsIsWhole
<1>5. I => ConfigurationIsChecked
  BY <1>3, <1>4 DEF ConfigurationIsChecked
<1> QED BY <1>1, <1>2, <1>5, PTL DEF Spec

-----------------------------------------------------------------------------
(* Induction, by the least counterexample.                                 *)

\* Every set of natural numbers that has an element has a least one.
LEMMA Least == ASSUME NEW S \in SUBSET Nat, S # {} PROVE \E n \in S : \A m \in S : n <= m
<1>1. OpToRel(<, Nat) = {ss \in Nat \X Nat : ss[1] < ss[2]}
  BY DEF OpToRel
<1>2. IsWellFoundedOn({ss \in Nat \X Nat : ss[1] < ss[2]}, Nat)
  BY <1>1, NatLessThanWellFounded
<1>3. PICK n \in S : \A m \in S : ~(<<m, n>> \in {ss \in Nat \X Nat : ss[1] < ss[2]})
  BY <1>2, WFMin
<1>4. ASSUME NEW m \in S PROVE n <= m
  <2>1. m \in Nat /\ n \in Nat
    OBVIOUS
  <2>2. ~(m < n)
    BY <1>3, <2>1
  <2> QED BY <2>1, <2>2
<1> QED BY <1>4

\* A set that has 0, and with each number the next one, has them all.
LEMMA Induction ==
    ASSUME NEW n \in Nat, NEW S, 0 \in S, \A k \in 0 .. n : k \in S /\ k < n => k + 1 \in S
    PROVE  \A k \in 0 .. n : k \in S
<1> DEFINE B == {k \in 0 .. n : k \notin S}
<1> SUFFICES ASSUME B # {} PROVE FALSE
  OBVIOUS
<1>1. PICK k \in B : \A m \in B : k <= m
  <2>1. B \in SUBSET Nat
    OBVIOUS
  <2> HIDE DEF B
  <2> QED BY <2>1, Least
<1>2. k # 0 /\ k \in 0 .. n /\ k - 1 \in 0 .. n /\ k - 1 < n
  OBVIOUS
<1>3. k - 1 \notin B
  BY <1>1, <1>2
<1>4. k - 1 \in S
  BY <1>2, <1>3
<1>5. (k - 1) + 1 \in S
  BY <1>2, <1>4
<1> QED BY <1>2, <1>5

-----------------------------------------------------------------------------
(* HistoryProofs: the levels of a Merkle tree and the path through them.   *)

\* The step from one level to the next.
NextOf(level) == IF Len(level) <= 1 THEN level ELSE Proofs!NextLevel(level)

\* The recursive definition of the levels has a solution, ...
LEMMA LevelsAre ==
    ASSUME NEW leaves
    PROVE  Proofs!Levels(leaves) = [k \in 0 .. MaxSeq |->
               IF k = 0 THEN leaves ELSE NextOf(Proofs!Levels(leaves)[k - 1])]
<1> DEFINE P(k, g) == g = [n \in 0 .. k |-> IF n = 0 THEN leaves ELSE NextOf(g[n - 1])]
<1> DEFINE S == {k \in Nat : \E g : P(k, g)}
<1>1. 0 \in S
  <2>1. P(0, [n \in 0 .. 0 |-> leaves])
    OBVIOUS
  <2> QED BY <2>1
<1>2. ASSUME NEW k \in Nat, k \in S PROVE k + 1 \in S
  <2>1. PICK g : P(k, g)
    BY <1>2
  <2>2. P(k + 1, [n \in 0 .. (k + 1) |-> IF n = k + 1 THEN NextOf(g[k]) ELSE g[n]])
    BY <2>1
  <2>3. \E h : P(k + 1, h)
    BY <2>2
  <2> QED BY <2>3
<1>3. \A k \in 0 .. MaxSeq : k \in S
  <2> HIDE DEF S
  <2> QED BY <1>1, <1>2, Induction, SeqAssumption
<1>4. \E g : P(MaxSeq, g)
  BY <1>3, SeqAssumption
<1> QED BY <1>4 DEF Proofs!Levels, NextOf

\* ... so does that of the places above an index, ...
LEMMA AboveIs ==
    ASSUME NEW index
    PROVE  Proofs!Above(index) = [k \in 0 .. MaxSeq |->
               IF k = 0 THEN index ELSE Proofs!Above(index)[k - 1] \div 2]
<1> DEFINE P(k, g) == g = [n \in 0 .. k |-> IF n = 0 THEN index ELSE g[n - 1] \div 2]
<1> DEFINE S == {k \in Nat : \E g : P(k, g)}
<1>1. 0 \in S
  <2>1. P(0, [n \in 0 .. 0 |-> index])
    OBVIOUS
  <2> QED BY <2>1
<1>2. ASSUME NEW k \in Nat, k \in S PROVE k + 1 \in S
  <2>1. PICK g : P(k, g)
    BY <1>2
  <2>2. P(k + 1, [n \in 0 .. (k + 1) |-> IF n = k + 1 THEN g[k] \div 2 ELSE g[n]])
    BY <2>1
  <2>3. \E h : P(k + 1, h)
    BY <2>2
  <2> QED BY <2>3
<1>3. \A k \in 0 .. MaxSeq : k \in S
  <2> HIDE DEF S
  <2> QED BY <1>1, <1>2, Induction, SeqAssumption
<1>4. \E g : P(MaxSeq, g)
  BY <1>3, SeqAssumption
<1> QED BY <1>4 DEF Proofs!Above

\* ... and that of the climb along a proof.
Up(up, proof, k) ==
    [at |-> up.at \div 2,
     hash |-> IF up.at % 2 = 0 THEN Proofs!Node(up.hash, proof[k]) ELSE Proofs!Node(proof[k], up.hash)]

LEMMA ClimbIs ==
    ASSUME NEW leaf, NEW index, NEW proof, Len(proof) \in Nat
    PROVE  Proofs!Climb(leaf, index, proof) = [k \in 0 .. Len(proof) |->
               IF k = 0 THEN [at |-> index, hash |-> leaf]
               ELSE Up(Proofs!Climb(leaf, index, proof)[k - 1], proof, k)]
<1> DEFINE P(k, g) == g = [n \in 0 .. k |-> IF n = 0 THEN [at |-> index, hash |-> leaf]
                                            ELSE Up(g[n - 1], proof, n)]
<1> DEFINE S == {k \in Nat : \E g : P(k, g)}
<1>1. 0 \in S
  <2>1. P(0, [n \in 0 .. 0 |-> [at |-> index, hash |-> leaf]])
    OBVIOUS
  <2> QED BY <2>1
<1>2. ASSUME NEW k \in Nat, k \in S PROVE k + 1 \in S
  <2>1. PICK g : P(k, g)
    BY <1>2
  <2>2. P(k + 1, [n \in 0 .. (k + 1) |-> IF n = k + 1 THEN Up(g[k], proof, n) ELSE g[n]])
    BY <2>1
  <2>3. \E h : P(k + 1, h)
    BY <2>2
  <2> QED BY <2>3
<1>3. \A k \in 0 .. Len(proof) : k \in S
  <2> HIDE DEF S
  <2> QED BY <1>1, <1>2, Induction
<1>4. \E g : P(Len(proof), g)
  BY <1>3
<1> QED BY <1>4 DEF Proofs!Climb, Up

LEMMA NextLevelIs ==
    ASSUME NEW level, Len(level) \in Nat, Len(level) > 1
    PROVE  /\ Len(Proofs!NextLevel(level)) = (Len(level) + 1) \div 2
           /\ Len(Proofs!NextLevel(level)) \in Nat \ {0} /\ Len(Proofs!NextLevel(level)) < Len(level)
           /\ \A i \in 1 .. Len(Proofs!NextLevel(level)) :
                  Proofs!NextLevel(level)[i] = Proofs!Pair(level, i)
<1>1. (Len(level) + 1) \div 2 \in Nat \ {0} /\ (Len(level) + 1) \div 2 < Len(level)
  OBVIOUS
<1>2. Len(Proofs!NextLevel(level)) = (Len(level) + 1) \div 2
  BY <1>1 DEF Proofs!NextLevel
<1> QED BY <1>1, <1>2 DEF Proofs!NextLevel

\* The levels get shorter until there is one node.
LEMMA LevelsShrink ==
    ASSUME NEW leaves, Len(leaves) \in 1 .. MaxSeq
    PROVE  \A k \in 0 .. MaxSeq :
               /\ Len(Proofs!Levels(leaves)[k]) \in Nat \ {0}
               /\ Len(Proofs!Levels(leaves)[k]) = 1 \/ Len(Proofs!Levels(leaves)[k]) <= MaxSeq - k
<1> DEFINE f == Proofs!Levels(leaves)
           n(k) == Len(f[k])
           S == {k \in 0 .. MaxSeq : n(k) \in Nat \ {0} /\ (n(k) = 1 \/ n(k) <= MaxSeq - k)}
<1>1. f = [k \in 0 .. MaxSeq |-> IF k = 0 THEN leaves ELSE NextOf(f[k - 1])]
  BY LevelsAre
<1> HIDE DEF f
<1>2. n(0) \in 1 .. MaxSeq
  BY <1>1, SeqAssumption
<1>3. ASSUME NEW k \in 0 .. MaxSeq, k < MaxSeq, n(k) \in Nat \ {0}
      PROVE  n(k + 1) \in Nat \ {0} /\ ((n(k + 1) = n(k) /\ n(k) = 1) \/ n(k + 1) < n(k))
  <2>1. f[k + 1] = NextOf(f[k])
    BY <1>1, <1>3, SeqAssumption
  <2>2. CASE n(k) <= 1
    <3>1. f[k + 1] = f[k]
      BY <2>1, <2>2 DEF NextOf
    <3> HIDE DEF n
    <3>2. n(k + 1) = n(k)
      BY <3>1 DEF n
    <3> QED BY <1>3, <2>2, <3>2
  <2>3. CASE n(k) > 1
    <3>1. f[k + 1] = Proofs!NextLevel(f[k])
      <4>1. ~(n(k) <= 1)
        <5> HIDE DEF n
        <5> QED BY <1>3, <2>3
      <4> QED BY <2>1, <4>1 DEF NextOf
    <3> QED BY <1>3, <2>3, <3>1, NextLevelIs
  <2> HIDE DEF n
  <2> QED BY <1>3, <2>2, <2>3
<1> HIDE DEF n
<1>4. 0 \in S
  BY <1>2, SeqAssumption
<1>5. ASSUME NEW k \in 0 .. MaxSeq, k \in S, k < MaxSeq PROVE k + 1 \in S
  BY <1>3, <1>5, SeqAssumption
<1>6. \A k \in 0 .. MaxSeq : k \in S
  <2> HIDE DEF S
  <2> QED BY <1>4, <1>5, Induction, SeqAssumption
<1> QED BY <1>6 DEF f, n

\* The root is the only node of the level at Depth, which no level below has.
LEMMA DepthIs ==
    ASSUME NEW leaves, Len(leaves) \in 1 .. MaxSeq
    PROVE  /\ Proofs!Depth(leaves) \in 0 .. MaxSeq
           /\ Len(Proofs!Levels(leaves)[Proofs!Depth(leaves)]) = 1
           /\ \A j \in 0 .. (Proofs!Depth(leaves) - 1) :
                  /\ Len(Proofs!Levels(leaves)[j]) \in Nat /\ Len(Proofs!Levels(leaves)[j]) > 1
                  /\ Proofs!Levels(leaves)[j + 1] = Proofs!NextLevel(Proofs!Levels(leaves)[j])
<1> DEFINE f == Proofs!Levels(leaves)
           n(k) == Len(f[k])
           d == Proofs!Depth(leaves)
           S == {k \in 0 .. MaxSeq : n(k) <= 1}
<1>1. \A k \in 0 .. MaxSeq : n(k) \in Nat \ {0} /\ (n(k) = 1 \/ n(k) <= MaxSeq - k)
  BY LevelsShrink
<1>2. f = [k \in 0 .. MaxSeq |-> IF k = 0 THEN leaves ELSE NextOf(f[k - 1])]
  BY LevelsAre
<1>3. d = CHOOSE k \in 0 .. MaxSeq : n(k) <= 1 /\ \A j \in 0 .. (k - 1) : n(j) > 1
  BY DEF Proofs!Depth
<1> HIDE DEF f, n, d
<1>4. PICK k \in S : \A m \in S : k <= m
  <2>1. MaxSeq \in S
    BY <1>1, SeqAssumption
  <2>2. S \in SUBSET Nat
    OBVIOUS
  <2> HIDE DEF S
  <2> QED BY <2>1, <2>2, Least
<1>5. k \in 0 .. MaxSeq /\ n(k) <= 1 /\ \A j \in 0 .. (k - 1) : n(j) > 1
  BY <1>1, <1>4, SeqAssumption
<1>6. d \in 0 .. MaxSeq /\ n(d) <= 1 /\ \A j \in 0 .. (d - 1) : n(j) > 1
  BY <1>3, <1>5
<1>7. ASSUME NEW j \in 0 .. (d - 1) PROVE n(j) \in Nat /\ n(j) > 1 /\ f[j + 1] = Proofs!NextLevel(f[j])
  <2>1. j \in 0 .. MaxSeq /\ j + 1 \in 0 .. MaxSeq /\ j + 1 # 0 /\ (j + 1) - 1 = j
    BY <1>6, SeqAssumption
  <2>2. f[j + 1] = NextOf(f[j])
    BY <1>2, <2>1
  <2>3. ~(n(j) <= 1) /\ n(j) \in Nat /\ n(j) > 1
    BY <1>1, <1>6, <2>1
  <2> QED BY <2>2, <2>3 DEF NextOf, n
<1>8. n(d) = 1
  BY <1>1, <1>6
<1> QED BY <1>6, <1>7, <1>8 DEF f, n, d

\* Above it nothing changes.
LEMMA TopIs ==
    ASSUME NEW leaves, Len(leaves) \in 1 .. MaxSeq
    PROVE  Proofs!ServerRoot(leaves) = Proofs!Levels(leaves)[Proofs!Depth(leaves)][1]
<1> DEFINE f == Proofs!Levels(leaves)
           d == Proofs!Depth(leaves)
           S == {k \in Nat : f[d + k] = f[d]}
<1>1. d \in 0 .. MaxSeq /\ Len(f[d]) = 1
  BY DepthIs
<1>2. f = [k \in 0 .. MaxSeq |-> IF k = 0 THEN leaves ELSE NextOf(f[k - 1])]
  BY LevelsAre
<1> HIDE DEF f, d
<1>3. 0 \in S
  BY <1>1
<1>4. ASSUME NEW k \in 0 .. (MaxSeq - d), k \in S, k < MaxSeq - d PROVE k + 1 \in S
  <2>1. d + k + 1 \in 0 .. MaxSeq /\ d + k + 1 # 0 /\ (d + k + 1) - 1 = d + k /\ d + (k + 1) = d + k + 1
    BY <1>1, <1>4, SeqAssumption
  <2>2. f[d + k + 1] = NextOf(f[d])
    BY <1>2, <1>4, <2>1
  <2>3. f[d + k + 1] = f[d]
    BY <1>1, <2>2 DEF NextOf
  <2> QED BY <2>1, <2>3
<1>5. MaxSeq - d \in Nat /\ MaxSeq - d \in 0 .. (MaxSeq - d) /\ d + (MaxSeq - d) = MaxSeq
  BY <1>1, SeqAssumption
<1>6. MaxSeq - d \in S
  <2> HIDE DEF S
  <2> QED BY <1>3, <1>4, <1>5, Induction
<1>7. f[MaxSeq] = f[d]
  BY <1>5, <1>6
<1>8. leaves # <<>>
  OBVIOUS
<1> QED BY <1>7, <1>8 DEF Proofs!ServerRoot, f, d

LEMMA NodesDiffer ==
    ASSUME NEW a, NEW b, NEW c, NEW e
    PROVE  Proofs!Node(a, b) = Proofs!Node(c, e) <=> a = c /\ b = e
BY DEF Proofs!Node

\* A node and its sibling make the node above, on the side the place says.
LEMMA PairIs ==
    ASSUME NEW level, Len(level) \in Nat, Len(level) > 1, NEW i \in 0 .. (Len(level) - 1)
    PROVE  /\ i \div 2 \in 0 .. (Len(Proofs!NextLevel(level)) - 1)
           /\ Proofs!NextLevel(level)[(i \div 2) + 1] =
                  IF i % 2 = 0 THEN Proofs!Node(level[i + 1], Proofs!Sibling(level, i))
                  ELSE Proofs!Node(Proofs!Sibling(level, i), level[i + 1])
<1> DEFINE h == i \div 2
<1>1. h \in 0 .. (Len(Proofs!NextLevel(level)) - 1)
  BY NextLevelIs
<1>2. Proofs!NextLevel(level)[h + 1] = Proofs!Pair(level, h + 1)
  BY <1>1, NextLevelIs
<1>3. CASE i % 2 = 0
  <2>1. i = 2 * h /\ 2 * (h + 1) - 1 = i + 1 /\ 2 * (h + 1) = i + 2 /\ (i + 1) + 1 = i + 2
    BY <1>3
  <2>2. Proofs!Sibling(level, i) = IF i + 1 < Len(level) THEN level[i + 2] ELSE level[i + 1]
    BY <1>3, <2>1 DEF Proofs!Sibling
  <2>3. i + 2 <= Len(level) <=> i + 1 < Len(level)
    OBVIOUS
  <2> QED BY <1>1, <1>2, <1>3, <2>1, <2>2, <2>3 DEF Proofs!Pair
<1>4. CASE i % 2 # 0
  <2>1. i = 2 * h + 1 /\ 2 * (h + 1) - 1 = i /\ 2 * (h + 1) = i + 1 /\ (i - 1) + 1 = i
    BY <1>4
  <2>2. Proofs!Sibling(level, i) = level[i]
    BY <1>4, <2>1 DEF Proofs!Sibling
  <2> QED BY <1>1, <1>2, <1>4, <2>1, <2>2 DEF Proofs!Pair
<1> QED BY <1>3, <1>4

\* Along the path of an index the climb is at the node above it, and has that
\* node's hash exactly when it began with the leaf at the index.
LEMMA PathClimbs ==
    ASSUME NEW leaves, Len(leaves) \in 1 .. MaxSeq, NEW index \in 0 .. (Len(leaves) - 1), NEW leaf
    PROVE  Proofs!ReplayMerklePath(leaf, index, Proofs!Path(leaves, index)) = Proofs!ServerRoot(leaves)
               <=> leaf = leaves[index + 1]
<1> DEFINE f == Proofs!Levels(leaves)
           n(k) == Len(f[k])
           d == Proofs!Depth(leaves)
           at == Proofs!Above(index)
           p == Proofs!Path(leaves, index)
           up == Proofs!Climb(leaf, index, p)
           S == {k \in 0 .. d : /\ at[k] \in 0 .. (n(k) - 1) /\ up[k].at = at[k]
                                /\ up[k].hash = f[k][at[k] + 1] <=> leaf = leaves[index + 1]}
<1>1. d \in 0 .. MaxSeq /\ n(d) = 1
  BY DepthIs
<1>2. \A j \in 0 .. (d - 1) : n(j) \in Nat /\ n(j) > 1 /\ f[j + 1] = Proofs!NextLevel(f[j])
  BY DepthIs
<1>3. f = [k \in 0 .. MaxSeq |-> IF k = 0 THEN leaves ELSE NextOf(f[k - 1])]
  BY LevelsAre
<1>4. at = [k \in 0 .. MaxSeq |-> IF k = 0 THEN index ELSE at[k - 1] \div 2]
  BY AboveIs
<1>5. Len(p) = d /\ \A k \in 1 .. d : p[k] = Proofs!Sibling(f[k - 1], at[k - 1])
  BY <1>1 DEF Proofs!Path
<1>6. up = [k \in 0 .. d |-> IF k = 0 THEN [at |-> index, hash |-> leaf] ELSE Up(up[k - 1], p, k)]
  BY <1>1, <1>5, ClimbIs
<1>7. n(0) = Len(leaves)
  BY <1>3, SeqAssumption
<1> HIDE DEF f, d, at, p, up
<1>8. 0 \in S
  BY <1>1, <1>3, <1>4, <1>6, <1>7, SeqAssumption
<1>9. ASSUME NEW k \in 0 .. d, k \in S, k < d PROVE k + 1 \in S
  <2>1. /\ k \in 0 .. (d - 1) /\ k + 1 \in 1 .. d /\ k + 1 \in 0 .. MaxSeq /\ k + 1 \in 0 .. d
        /\ k + 1 # 0 /\ (k + 1) - 1 = k
    <3> HIDE DEF S, n
    <3> QED BY <1>1, <1>9, SeqAssumption
  <2>2. n(k) \in Nat /\ n(k) > 1 /\ f[k + 1] = Proofs!NextLevel(f[k])
    BY <1>2, <2>1
  <2>3. at[k] \in 0 .. (n(k) - 1) /\ up[k].at = at[k]
    BY <1>9
  <2>4. at[k + 1] = at[k] \div 2
    BY <1>4, <2>1
  <2>5. up[k + 1] = Up(up[k], p, k + 1) /\ p[k + 1] = Proofs!Sibling(f[k], at[k])
    BY <1>5, <1>6, <2>1
  <2> DEFINE above == Proofs!NextLevel(f[k])
             node == above[(at[k] \div 2) + 1]
  <2>10. at[k] \div 2 \in 0 .. (Len(above) - 1)
    <3> HIDE DEF S
    <3> QED BY <2>2, <2>3, PairIs
  <2>11. node = IF at[k] % 2 = 0 THEN Proofs!Node(f[k][at[k] + 1], Proofs!Sibling(f[k], at[k]))
                ELSE Proofs!Node(Proofs!Sibling(f[k], at[k]), f[k][at[k] + 1])
    <3> HIDE DEF S
    <3> QED BY <2>2, <2>3, PairIs
  <2>6. /\ at[k + 1] \in 0 .. (n(k + 1) - 1)
        /\ f[k + 1][at[k + 1] + 1] =
               IF at[k] % 2 = 0 THEN Proofs!Node(f[k][at[k] + 1], p[k + 1])
               ELSE Proofs!Node(p[k + 1], f[k][at[k] + 1])
    <3>1. f[k + 1] = above /\ n(k + 1) = Len(above) /\ node = f[k + 1][at[k + 1] + 1]
      BY <2>2, <2>4
    <3> HIDE DEF above, node, S, n
    <3> QED BY <2>4, <2>5, <2>10, <2>11, <3>1
  <2>7. /\ up[k + 1].at = at[k + 1]
        /\ up[k + 1].hash = IF at[k] % 2 = 0 THEN Proofs!Node(up[k].hash, p[k + 1])
                            ELSE Proofs!Node(p[k + 1], up[k].hash)
    BY <2>3, <2>4, <2>5 DEF Up
  <2>8. up[k + 1].hash = f[k + 1][at[k + 1] + 1] <=> up[k].hash = f[k][at[k] + 1]
    BY <2>6, <2>7, NodesDiffer
  <2>9. up[k + 1].hash = f[k + 1][at[k + 1] + 1] <=> leaf = leaves[index + 1]
    BY <1>9, <2>8
  <2> HIDE DEF n
  <2> QED BY <2>1, <2>6, <2>7, <2>9
<1>10. d \in S
  <2> HIDE DEF S
  <2>1. d \in Nat /\ d \in 0 .. d
    BY <1>1, SeqAssumption
  <2> QED BY <1>8, <1>9, <2>1, Induction
<1>11. at[d] = 0 /\ (up[d].hash = f[d][1] <=> leaf = leaves[index + 1])
  <2>1. at[d] \in 0 .. (n(d) - 1) /\ (up[d].hash = f[d][at[d] + 1] <=> leaf = leaves[index + 1])
    BY <1>10
  <2> HIDE DEF n, S
  <2>2. at[d] = 0
    BY <1>1, <2>1
  <2> QED BY <2>1, <2>2
<1>12. Proofs!ServerRoot(leaves) = f[d][1]
  BY TopIs DEF f, d
<1>13. Proofs!ReplayMerklePath(leaf, index, p) = up[d].hash
  BY <1>5 DEF Proofs!ReplayMerklePath, up
<1> QED BY <1>11, <1>12, <1>13 DEF p

\* The browser's own tree has the same levels.
LEMMA RootsAgree ==
    ASSUME NEW leaves, leaves = <<>> \/ Len(leaves) \in 1 .. MaxSeq
    PROVE  Proofs!OperationRoot(leaves) = Proofs!ServerRoot(leaves)
<1>1. CASE leaves = <<>>
  BY <1>1 DEF Proofs!OperationRoot, Proofs!ServerRoot
<1>2. CASE Len(leaves) \in 1 .. MaxSeq
  <2> DEFINE f == Proofs!Levels(leaves)
             n(k) == Len(f[k])
             Client(level) == IF Len(level) > 1 THEN Proofs!ClientLevel(level) ELSE level
             P(g) == g = [k \in 0 .. MaxSeq |-> IF k = 0 THEN leaves ELSE Client(g[k - 1])]
  <2>1. f = [k \in 0 .. MaxSeq |-> IF k = 0 THEN leaves ELSE NextOf(f[k - 1])]
    BY LevelsAre
  <2>2. ASSUME NEW k \in 0 .. MaxSeq PROVE Client(f[k]) = NextOf(f[k])
    <3>1. n(k) \in Nat
      BY <1>2, LevelsShrink
    <3>2. n(k) > 1 <=> ~(n(k) <= 1)
      <4> HIDE DEF n
      <4> QED BY <3>1
    <3>3. Proofs!ClientLevel(f[k]) = Proofs!NextLevel(f[k])
      BY DEF Proofs!ClientLevel, Proofs!NextLevel, Proofs!Pair
    <3> QED BY <3>2, <3>3 DEF NextOf
  <2> HIDE DEF f, Client
  <2>3. P(f)
    <3>1. \A k \in 0 .. MaxSeq : k # 0 => Client(f[k - 1]) = NextOf(f[k - 1])
      BY <2>2, SeqAssumption
    <3> QED BY <2>1, <3>1
  <2>4. ASSUME NEW g, P(g) PROVE g = f
    <3> DEFINE S == {k \in Nat : g[k] = f[k]}
    <3>1. 0 \in S
      BY <2>1, <2>4, SeqAssumption
    <3>2. ASSUME NEW k \in 0 .. MaxSeq, k \in S, k < MaxSeq PROVE k + 1 \in S
      <4>1. k + 1 \in 0 .. MaxSeq /\ k + 1 # 0 /\ (k + 1) - 1 = k
        BY <3>2, SeqAssumption
      <4>2. g[k + 1] = Client(f[k]) /\ f[k + 1] = NextOf(f[k])
        BY <2>1, <2>4, <3>2, <4>1
      <4> QED BY <2>2, <4>1, <4>2
    <3>3. \A k \in 0 .. MaxSeq : k \in S
      <4> HIDE DEF S
      <4> QED BY <3>1, <3>2, Induction, SeqAssumption
    <3> QED BY <2>1, <2>4, <3>3
  <2>5. Proofs!ClientLevels(leaves) = CHOOSE g : P(g)
    BY DEF Proofs!ClientLevels, Client
  <2>6. Proofs!ClientLevels(leaves) = f
    BY <2>3, <2>4, <2>5
  <2> QED BY <1>2, <2>6 DEF Proofs!OperationRoot, Proofs!ServerRoot, f
<1> QED BY <1>1, <1>2

-----------------------------------------------------------------------------
(* HistoryProofs: what is kept of a document whose log is compacted and    *)
(* whose snapshots are pruned.                                             *)

LEMMA ElementsAre ==
    ASSUME NEW S, NEW rows \in Seq(S)
    PROVE  Len(rows) \in Nat /\ \A i \in 1 .. Len(rows) : rows[i] \in S
OBVIOUS

LEMMA PartIs ==
    ASSUME NEW rows \in Seq(1 .. MaxSeq), NEW m \in Int, NEW n \in Int, 1 <= m, m <= n + 1, n <= Len(rows)
    PROVE  /\ SubSeq(rows, m, n) \in Seq(1 .. MaxSeq) /\ Len(SubSeq(rows, m, n)) = n + 1 - m
           /\ \A j \in 1 .. (n + 1 - m) : SubSeq(rows, m, n)[j] = rows[m + j - 1]
<1>1. Len(rows) \in Nat /\ \A i \in 1 .. Len(rows) : rows[i] \in 1 .. MaxSeq
  BY ElementsAre
<1>2. m \in Int /\ n \in Int /\ n + 1 - m \in Nat /\ \A j \in 1 .. (n + 1 - m) : m + j - 1 \in 1 .. Len(rows)
  BY <1>1
<1>3. Len(SubSeq(rows, m, n)) = n + 1 - m /\ \A j \in 1 .. (n + 1 - m) : SubSeq(rows, m, n)[j] = rows[m + j - 1]
  BY <1>1, <1>2
<1>4. SubSeq(rows, m, n) \in Seq(1 .. MaxSeq)
  BY <1>1, <1>2
<1> QED BY <1>3, <1>4

LEMMA JoinIs ==
    ASSUME NEW a \in Seq(1 .. MaxSeq), NEW b \in Seq(1 .. MaxSeq)
    PROVE  /\ a \o b \in Seq(1 .. MaxSeq) /\ Len(a \o b) = Len(a) + Len(b)
           /\ \A j \in 1 .. (Len(a) + Len(b)) :
                  (a \o b)[j] = IF j <= Len(a) THEN a[j] ELSE b[j - Len(a)]
OBVIOUS

LEMMA ThroughIs ==
    ASSUME NEW rows \in Seq(1 .. MaxSeq), Proofs!Ascending(rows), NEW b \in Nat
    PROVE  /\ Proofs!Through(rows, b) \in 0 .. Len(rows)
           /\ \A i \in 1 .. Len(rows) : rows[i] <= b <=> i <= Proofs!Through(rows, b)
<1> DEFINE S == {k \in 0 .. Len(rows) : \A i \in 1 .. Len(rows) : i > k => rows[i] > b}
<1>1. PICK n \in S : \A m \in S : n <= m
  <2>1. Len(rows) \in S
    OBVIOUS
  <2>2. S \in SUBSET Nat
    OBVIOUS
  <2> HIDE DEF S
  <2> QED BY <2>1, <2>2, Least
<1>2. \A i \in 1 .. Len(rows) : rows[i] \in Nat
  BY SeqAssumption
<1>3. ASSUME NEW i \in 1 .. Len(rows), i <= n PROVE rows[i] <= b
  <2> SUFFICES ASSUME rows[i] > b PROVE FALSE
    BY <1>2
  <2>1. \A j \in 1 .. Len(rows) : j > i - 1 => rows[j] > b
    BY <1>2 DEF Proofs!Ascending
  <2>2. i - 1 \in S
    BY <2>1
  <2> QED BY <1>1, <1>3, <2>2
<1>4. \A i \in 1 .. Len(rows) : rows[i] <= b <=> i <= n
  BY <1>1, <1>2, <1>3
<1> QED BY <1>4 DEF Proofs!Through

LEMMA CursorIs ==
    ASSUME Proofs!ProofsInv
    PROVE  /\ Proofs!Cursor = IF Len(log) = 0 THEN floor ELSE log[Len(log)]
           /\ Proofs!Cursor \in 0 .. MaxSeq /\ floor <= Proofs!Cursor
           /\ Len(log) \in 0 .. MaxSeq /\ Len(log) <= Proofs!Cursor
           /\ \A i \in 1 .. Len(log) : log[i] \in 1 .. MaxSeq /\ log[i] <= Proofs!Cursor
<1> USE DEF Proofs!ProofsInv, Proofs!TypeOK, Proofs!LogIsWhole
<1>1. \A i \in 1 .. Len(log) : log[i] \in 1 .. MaxSeq
  OBVIOUS
<1>2. log = <<>> <=> Len(log) = 0
  OBVIOUS
<1>3. CASE Len(log) = 0
  BY <1>2, <1>3, SeqAssumption DEF Proofs!Cursor
<1>4. CASE Len(log) # 0
  <2>1. /\ Len(log) \in 1 .. Len(log) /\ log[Len(log)] \in 1 .. MaxSeq
        /\ log[Len(log)] > floor /\ log[Len(log)] >= Len(log)
    BY <1>1, <1>4
  <2>2. Proofs!Cursor = log[Len(log)]
    BY <1>2, <1>4, <2>1 DEF Proofs!Cursor, Proofs!Greatest, Proofs!Last
  <2>3. \A i \in 1 .. Len(log) : log[i] <= log[Len(log)]
    BY <1>1, <2>1 DEF Proofs!Ascending
  <2> QED BY <1>1, <1>4, <2>1, <2>2, <2>3, SeqAssumption
<1> QED BY <1>3, <1>4

LEMMA InitProofs == Proofs!Init => Proofs!ProofsInv
<1> SUFFICES ASSUME Proofs!Init PROVE Proofs!ProofsInv
  OBVIOUS
<1>1. log = <<>> /\ written = {} /\ floor = 0 /\ snapshots = <<>> /\ revisions = <<>>
  BY DEF Proofs!Init
<1>2. Proofs!TypeOK
  BY <1>1, SeqAssumption DEF Proofs!TypeOK
<1>3. Proofs!LogIsWhole
  BY <1>1 DEF Proofs!LogIsWhole, Proofs!Ascending
<1>4. Proofs!NothingAhead
  BY <1>1 DEF Proofs!NothingAhead, Proofs!Ascending
<1> QED BY <1>2, <1>3, <1>4 DEF Proofs!ProofsInv

\* An operation beyond the cursor is the new end of the log.
LEMMA WriteStep ==
    ASSUME Proofs!ProofsInv, NEW seq \in 1 .. MaxSeq, Proofs!Write(seq)
    PROVE  Proofs!ProofsInv'
<1> DEFINE N == Len(log)
<1>1. /\ log' = Append(log, seq) /\ written' = written \union {seq} /\ floor' = floor
      /\ snapshots' = snapshots /\ revisions' = revisions /\ seq > Proofs!Cursor
  BY DEF Proofs!Write
<1>2. /\ Proofs!Cursor \in 0 .. MaxSeq /\ floor <= Proofs!Cursor /\ N \in 0 .. MaxSeq
      /\ N <= Proofs!Cursor /\ \A i \in 1 .. N : log[i] \in 1 .. MaxSeq /\ log[i] <= Proofs!Cursor
  BY CursorIs
<1>3. /\ Len(log') = N + 1 /\ log'[N + 1] = seq /\ \A i \in 1 .. N : log'[i] = log[i]
      /\ log' # <<>>
  BY <1>1 DEF Proofs!ProofsInv, Proofs!TypeOK
<1>4. Proofs!TypeOK'
  <2>1. Proofs!TypeOK
    BY DEF Proofs!ProofsInv
  <2>2. log' \in Seq(1 .. MaxSeq)
    BY <1>1, <2>1 DEF Proofs!TypeOK
  <2> QED BY <1>1, <2>1, <2>2 DEF Proofs!TypeOK
<1>5. Proofs!Cursor' = seq
  <2>1. Proofs!Cursor' = IF seq > floor THEN seq ELSE floor
    BY <1>1, <1>3 DEF Proofs!Cursor, Proofs!Greatest, Proofs!Last
  <2>2. floor \in 0 .. MaxSeq
    BY DEF Proofs!ProofsInv, Proofs!TypeOK
  <2> QED BY <1>1, <1>2, <2>1, <2>2, SeqAssumption
<1> HIDE DEF N
<1>6. Proofs!LogIsWhole'
  <2>1. /\ Proofs!Ascending(log) /\ \A i \in 1 .. N : log[i] >= i
        /\ \A i \in 1 .. N : log[i] \in written /\ log[i] > floor
        /\ \A s \in written : s <= Proofs!Cursor /\ (s > floor => \E i \in 1 .. N : log[i] = s)
        /\ floor > 0 => \E i \in 1 .. Len(snapshots) : snapshots[i] = floor
    BY DEF Proofs!ProofsInv, Proofs!LogIsWhole, N
  <2>2. Proofs!Ascending(log')
    BY SMTT(30), <1>1, <1>2, <1>3, <2>1 DEF Proofs!Ascending, N
  <2>3. \A i \in 1 .. Len(log') : log'[i] >= i
    BY <1>1, <1>2, <1>3, <2>1, SeqAssumption
  <2>4. \A i \in 1 .. Len(log') : log'[i] \in written' /\ log'[i] > floor'
    BY <1>1, <1>2, <1>3, <2>1, SeqAssumption DEF Proofs!ProofsInv, Proofs!TypeOK
  <2>5. ASSUME NEW s \in written' PROVE s <= Proofs!Cursor' /\ (s > floor' => \E i \in 1 .. Len(log') : log'[i] = s)
    <3>1. CASE s = seq
      BY <1>2, <1>3, <1>5, <3>1
    <3>2. CASE s \in written
      <4>1. s \in 1 .. MaxSeq /\ s <= Proofs!Cursor
        BY <2>1, <3>2 DEF Proofs!ProofsInv, Proofs!TypeOK
      <4>2. s <= Proofs!Cursor'
        BY <1>1, <1>2, <1>5, <4>1, SeqAssumption
      <4>3. ASSUME s > floor PROVE \E i \in 1 .. Len(log') : log'[i] = s
        <5>1. PICK i \in 1 .. N : log[i] = s
          BY <2>1, <3>2, <4>3
        <5>2. i \in 1 .. Len(log') /\ log'[i] = s
          BY <1>2, <1>3, <5>1
        <5> QED BY <5>2
      <4> QED BY <1>1, <4>2, <4>3
    <3> QED BY <1>1, <3>1, <3>2
  <2> QED BY <1>1, <2>1, <2>2, <2>3, <2>4, <2>5 DEF Proofs!LogIsWhole
<1>7. Proofs!NothingAhead'
  <2>1. /\ Proofs!Ascending(snapshots) /\ \A i \in 1 .. Len(snapshots) : snapshots[i] <= Proofs!Cursor
        /\ \A i \in 1 .. Len(revisions) : revisions[i] <= Proofs!Cursor
    BY DEF Proofs!ProofsInv, Proofs!NothingAhead
  <2>2. /\ \A i \in 1 .. Len(snapshots) : snapshots[i] \in 0 .. MaxSeq
        /\ \A i \in 1 .. Len(revisions) : revisions[i] \in 0 .. MaxSeq
    <3>1. snapshots \in Seq(1 .. MaxSeq) /\ revisions \in Seq(0 .. MaxSeq)
      BY DEF Proofs!ProofsInv, Proofs!TypeOK
    <3>2. \A i \in 1 .. Len(snapshots) : snapshots[i] \in 1 .. MaxSeq
      BY <3>1, ElementsAre
    <3>3. \A i \in 1 .. Len(revisions) : revisions[i] \in 0 .. MaxSeq
      BY <3>1, ElementsAre
    <3> QED BY <3>2, <3>3, SeqAssumption
  <2>3. \A c \in 0 .. MaxSeq : c <= Proofs!Cursor => c <= seq
    BY <1>1, <1>2, SeqAssumption
  <2>4. /\ \A i \in 1 .. Len(snapshots) : snapshots[i] <= seq
        /\ \A i \in 1 .. Len(revisions) : revisions[i] <= seq
    BY <2>1, <2>2, <2>3
  <2> QED BY <1>1, <1>5, <2>1, <2>4 DEF Proofs!NothingAhead, Proofs!Ascending
<1> QED BY <1>4, <1>6, <1>7 DEF Proofs!ProofsInv

\* A snapshot and a revision are of the cursor; neither changes the log.
LEMMA TakeStep ==
    ASSUME Proofs!ProofsInv, Proofs!Snapshot \/ Proofs!CreateRevision
    PROVE  Proofs!ProofsInv'
<1>1. log' = log /\ written' = written /\ floor' = floor
  BY DEF Proofs!Snapshot, Proofs!CreateRevision
<1>2. Proofs!Cursor' = Proofs!Cursor
  BY <1>1 DEF Proofs!Cursor
<1>3. Proofs!Cursor \in 0 .. MaxSeq
  BY CursorIs
<1>4. Proofs!TypeOK /\ Proofs!LogIsWhole /\ Proofs!NothingAhead
  BY DEF Proofs!ProofsInv
<1>5. CASE Proofs!CreateRevision
  <2>1. revisions' = Append(revisions, Proofs!Cursor) /\ snapshots' = snapshots
    BY <1>5 DEF Proofs!CreateRevision
  <2>2. revisions \in Seq(0 .. MaxSeq)
    BY <1>4 DEF Proofs!TypeOK
  <2>3. revisions' \in Seq(0 .. MaxSeq)
    BY <1>3, <2>1, <2>2
  <2>4. Proofs!TypeOK'
    BY <1>1, <1>4, <2>1, <2>3 DEF Proofs!TypeOK
  <2>5. Proofs!LogIsWhole'
    BY <1>1, <1>2, <1>4, <2>1 DEF Proofs!LogIsWhole, Proofs!Ascending
  <2>6. \A i \in 1 .. Len(revisions') : revisions'[i] <= Proofs!Cursor
    <3>1. \A i \in 1 .. Len(revisions) : revisions[i] <= Proofs!Cursor
      BY <1>4 DEF Proofs!NothingAhead
    <3> QED BY <1>3, <2>1, <2>2, <3>1
  <2>7. Proofs!NothingAhead'
    BY <1>2, <1>4, <2>1, <2>6 DEF Proofs!NothingAhead, Proofs!Ascending
  <2> QED BY <2>4, <2>5, <2>7 DEF Proofs!ProofsInv
<1>6. CASE Proofs!Snapshot
  <2>1. /\ snapshots' = Append(snapshots, Proofs!Cursor) /\ revisions' = revisions
        /\ Proofs!Cursor > 0 /\ \A i \in 1 .. Len(snapshots) : snapshots[i] < Proofs!Cursor
    BY <1>6 DEF Proofs!Snapshot
  <2>2. snapshots \in Seq(1 .. MaxSeq)
    BY <1>4 DEF Proofs!TypeOK
  <2>3. snapshots' \in Seq(1 .. MaxSeq)
    BY <1>3, <2>1, <2>2
  <2>4. Proofs!TypeOK'
    BY <1>1, <1>4, <2>1, <2>3 DEF Proofs!TypeOK
  <2>5. /\ Len(snapshots') = Len(snapshots) + 1 /\ snapshots'[Len(snapshots) + 1] = Proofs!Cursor
        /\ Len(snapshots) \in Nat /\ \A i \in 1 .. Len(snapshots) : snapshots'[i] = snapshots[i]
    BY <2>1, <2>2
  <2>6. Proofs!Ascending(snapshots)
    BY <1>4 DEF Proofs!NothingAhead
  <2>7. Proofs!Ascending(snapshots')
    BY <2>1, <2>5, <2>6 DEF Proofs!Ascending
  <2>8. \A i \in 1 .. Len(snapshots') : snapshots'[i] <= Proofs!Cursor
    <3>1. \A i \in 1 .. Len(snapshots) : snapshots[i] <= Proofs!Cursor
      BY <1>4 DEF Proofs!NothingAhead
    <3> QED BY <1>3, <2>5, <3>1
  <2>9. Proofs!LogIsWhole'
    <3>1. floor > 0 => \E i \in 1 .. Len(snapshots') : snapshots'[i] = floor
      BY <1>4, <2>5 DEF Proofs!LogIsWhole
    <3> QED BY <1>1, <1>2, <1>4, <3>1 DEF Proofs!LogIsWhole, Proofs!Ascending
  <2>10. Proofs!NothingAhead'
    BY <1>2, <1>4, <2>1, <2>7, <2>8 DEF Proofs!NothingAhead, Proofs!Ascending
  <2> QED BY <2>4, <2>9, <2>10 DEF Proofs!ProofsInv
<1> QED BY <1>5, <1>6

\* A snapshot that is pruned is not the one at the floor.
LEMMA PruneStep ==
    ASSUME Proofs!ProofsInv, NEW i \in 1 .. Len(snapshots), Proofs!PruneSnapshot(i)
    PROVE  Proofs!ProofsInv'
<1> DEFINE N == Len(snapshots)
<1>1. /\ log' = log /\ written' = written /\ floor' = floor /\ revisions' = revisions
      /\ snapshots[i] # floor /\ snapshots' = SubSeq(snapshots, 1, i - 1) \o SubSeq(snapshots, i + 1, N)
  BY DEF Proofs!PruneSnapshot, Proofs!RemoveAt
<1>2. Proofs!Cursor' = Proofs!Cursor
  BY <1>1 DEF Proofs!Cursor
<1>3. Proofs!TypeOK /\ Proofs!LogIsWhole /\ Proofs!NothingAhead
  BY DEF Proofs!ProofsInv
<1>4. snapshots \in Seq(1 .. MaxSeq) /\ N \in Nat
  BY <1>3 DEF Proofs!TypeOK
<1>5. /\ SubSeq(snapshots, 1, i - 1) \in Seq(1 .. MaxSeq) /\ Len(SubSeq(snapshots, 1, i - 1)) = i - 1
      /\ \A j \in 1 .. (i - 1) : SubSeq(snapshots, 1, i - 1)[j] = snapshots[j]
  <2> DEFINE m == i - 1
  <2>1. m \in Int /\ 1 <= m + 1 /\ m <= N /\ m + 1 - 1 = m /\ \A j \in 1 .. m : 1 + j - 1 = j
    BY <1>4
  <2> HIDE DEF m
  <2>2. /\ SubSeq(snapshots, 1, m) \in Seq(1 .. MaxSeq) /\ Len(SubSeq(snapshots, 1, m)) = m + 1 - 1
        /\ \A j \in 1 .. (m + 1 - 1) : SubSeq(snapshots, 1, m)[j] = snapshots[1 + j - 1]
    BY <1>4, <2>1, PartIs
  <2>3. \A j \in 1 .. m : SubSeq(snapshots, 1, m)[j] = snapshots[j]
    BY <2>1, <2>2
  <2> QED BY <2>1, <2>2, <2>3 DEF m
<1>6. /\ SubSeq(snapshots, i + 1, N) \in Seq(1 .. MaxSeq) /\ Len(SubSeq(snapshots, i + 1, N)) = N - i
      /\ \A j \in 1 .. (N - i) : SubSeq(snapshots, i + 1, N)[j] = snapshots[i + j]
  <2> DEFINE m == i + 1
  <2>1. m \in Int /\ 1 <= m /\ m <= N + 1 /\ N + 1 - m = N - i /\ \A j \in 1 .. (N - i) : m + j - 1 = i + j
    BY <1>4
  <2> HIDE DEF m
  <2>2. /\ SubSeq(snapshots, m, N) \in Seq(1 .. MaxSeq) /\ Len(SubSeq(snapshots, m, N)) = N + 1 - m
        /\ \A j \in 1 .. (N + 1 - m) : SubSeq(snapshots, m, N)[j] = snapshots[m + j - 1]
    BY <1>4, <2>1, PartIs
  <2>3. \A j \in 1 .. (N - i) : SubSeq(snapshots, m, N)[j] = snapshots[i + j]
    BY <2>1, <2>2
  <2> QED BY <2>1, <2>2, <2>3 DEF m
<1>7. /\ snapshots' \in Seq(1 .. MaxSeq) /\ Len(snapshots') = N - 1
      /\ \A j \in 1 .. (N - 1) : snapshots'[j] = IF j < i THEN snapshots[j] ELSE snapshots[j + 1]
  <2> DEFINE a == SubSeq(snapshots, 1, i - 1)
             b == SubSeq(snapshots, i + 1, N)
  <2>1. /\ snapshots' \in Seq(1 .. MaxSeq) /\ Len(snapshots') = (i - 1) + (N - i)
        /\ \A j \in 1 .. ((i - 1) + (N - i)) : snapshots'[j] = IF j <= i - 1 THEN a[j] ELSE b[j - (i - 1)]
    <3>1. a \in Seq(1 .. MaxSeq) /\ b \in Seq(1 .. MaxSeq) /\ Len(a) = i - 1 /\ Len(b) = N - i /\ snapshots' = a \o b
      BY <1>1, <1>5, <1>6
    <3> HIDE DEF a, b, N
    <3>2. /\ a \o b \in Seq(1 .. MaxSeq) /\ Len(a \o b) = Len(a) + Len(b)
          /\ \A j \in 1 .. (Len(a) + Len(b)) : (a \o b)[j] = IF j <= Len(a) THEN a[j] ELSE b[j - Len(a)]
      BY <3>1, JoinIs
    <3> QED BY <3>1, <3>2
  <2>2. (i - 1) + (N - i) = N - 1
    BY <1>4
  <2>3. ASSUME NEW j \in 1 .. (N - 1) PROVE snapshots'[j] = IF j < i THEN snapshots[j] ELSE snapshots[j + 1]
    <3>1. snapshots'[j] = IF j <= i - 1 THEN a[j] ELSE b[j - (i - 1)]
      BY <2>1, <2>2
    <3>2. CASE j < i
      <4>1. j <= i - 1 /\ j \in 1 .. (i - 1)
        BY <1>4, <3>2
      <4> QED BY <1>5, <3>1, <3>2, <4>1
    <3>3. CASE ~(j < i)
      <4>1. ~(j <= i - 1) /\ j - (i - 1) \in 1 .. (N - i) /\ i + (j - (i - 1)) = j + 1
        BY <1>4, <3>3
      <4> QED BY <1>6, <3>1, <3>3, <4>1
    <3> QED BY <3>2, <3>3
  <2> QED BY <2>1, <2>2, <2>3
<1>8. Proofs!TypeOK'
  BY <1>1, <1>3, <1>7 DEF Proofs!TypeOK
<1>9. Proofs!LogIsWhole'
  <2>1. ASSUME floor > 0 PROVE \E j \in 1 .. Len(snapshots') : snapshots'[j] = floor
    <3>1. PICK j \in 1 .. N : snapshots[j] = floor
      BY <1>3, <2>1 DEF Proofs!LogIsWhole
    <3>2. j # i
      BY <1>1, <3>1
    <3>3. CASE j < i
      <4>1. j \in 1 .. (N - 1) /\ snapshots'[j] = floor
        BY <1>4, <1>7, <3>1, <3>3
      <4> QED BY <1>7, <4>1
    <3>4. CASE j > i
      <4>1. j - 1 \in 1 .. (N - 1) /\ ~(j - 1 < i) /\ (j - 1) + 1 = j
        BY <1>4, <3>4
      <4> QED BY <1>7, <3>1, <4>1
    <3> QED BY <3>2, <3>3, <3>4
  <2> QED BY <1>1, <1>2, <1>3, <2>1 DEF Proofs!LogIsWhole, Proofs!Ascending
<1>10. Proofs!NothingAhead'
  <2>1. /\ \A j, k \in 1 .. N : j < k => snapshots[j] < snapshots[k]
        /\ \A j \in 1 .. N : snapshots[j] <= Proofs!Cursor
        /\ \A j \in 1 .. Len(revisions) : revisions[j] <= Proofs!Cursor
    BY <1>3 DEF Proofs!NothingAhead, Proofs!Ascending
  <2>2. Proofs!Ascending(snapshots')
    <3> SUFFICES ASSUME NEW j \in 1 .. (N - 1), NEW k \in 1 .. (N - 1), j < k
                 PROVE  snapshots'[j] < snapshots'[k]
      BY <1>7 DEF Proofs!Ascending
    <3>1. j \in 1 .. N /\ k \in 1 .. N /\ j + 1 \in 1 .. N /\ k + 1 \in 1 .. N
      BY <1>4
    <3>2. snapshots'[j] = (IF j < i THEN snapshots[j] ELSE snapshots[j + 1])
      BY <1>7
    <3>3. snapshots'[k] = (IF k < i THEN snapshots[k] ELSE snapshots[k + 1])
      BY <1>7
    <3>4. /\ j < k /\ k < k + 1 /\ j < k + 1 /\ j + 1 < k + 1
          /\ k < i => j < i
      BY <1>4
    <3>5. /\ snapshots[j] < snapshots[k] /\ snapshots[j] < snapshots[k + 1]
          /\ snapshots[j + 1] < snapshots[k + 1]
      BY <2>1, <3>1, <3>4
    <3> QED BY <3>2, <3>3, <3>4, <3>5
  <2>3. \A j \in 1 .. Len(snapshots') : snapshots'[j] <= Proofs!Cursor
    BY <1>4, <1>7, <2>1
  <2> QED BY <1>1, <1>2, <2>1, <2>2, <2>3 DEF Proofs!NothingAhead
<1> QED BY <1>8, <1>9, <1>10 DEF Proofs!ProofsInv

\* Compaction removes the operations up to the new floor, where a snapshot is.
LEMMA CompactStep ==
    ASSUME Proofs!ProofsInv, NEW i \in 1 .. Len(snapshots), Proofs!Compact(i)
    PROVE  Proofs!ProofsInv'
<1> DEFINE N == Len(log)
           b == snapshots[i]
           n == Proofs!Through(log, b)
<1>1. /\ written' = written /\ floor' = b /\ revisions' = revisions /\ snapshots' = snapshots
      /\ b > floor /\ log' = SubSeq(log, n + 1, N)
  BY DEF Proofs!Compact
<1>2. Proofs!TypeOK /\ Proofs!LogIsWhole /\ Proofs!NothingAhead
  BY DEF Proofs!ProofsInv
<1>3. log \in Seq(1 .. MaxSeq) /\ N \in Nat /\ b \in 1 .. MaxSeq /\ floor \in 0 .. MaxSeq
  <2>1. log \in Seq(1 .. MaxSeq) /\ snapshots \in Seq(1 .. MaxSeq) /\ floor \in 0 .. MaxSeq
    BY <1>2 DEF Proofs!TypeOK
  <2> QED BY <2>1, ElementsAre
<1>4. /\ Proofs!Ascending(log) /\ \A j \in 1 .. N : log[j] >= j /\ log[j] \in written /\ log[j] > floor
      /\ \A s \in written : s <= Proofs!Cursor /\ (s > floor => \E j \in 1 .. N : log[j] = s)
  BY <1>2 DEF Proofs!LogIsWhole
<1>5. n \in 0 .. N /\ \A j \in 1 .. N : log[j] <= b <=> j <= n
  <2>1. b \in Nat
    BY <1>3, SeqAssumption
  <2> HIDE DEF b
  <2> QED BY <1>3, <1>4, <2>1, ThroughIs
<1>6. /\ Proofs!Cursor = IF N = 0 THEN floor ELSE log[N]
      /\ Proofs!Cursor \in 0 .. MaxSeq /\ floor <= Proofs!Cursor
      /\ \A j \in 1 .. N : log[j] \in 1 .. MaxSeq /\ log[j] <= Proofs!Cursor
  BY CursorIs
<1>7. b <= Proofs!Cursor
  BY <1>2 DEF Proofs!NothingAhead
<1> HIDE DEF N, b, n
<1>8. /\ log' \in Seq(1 .. MaxSeq) /\ Len(log') = N - n
      /\ \A j \in 1 .. (N - n) : log'[j] = log[n + j]
  <2> DEFINE m == n + 1
  <2>1. m \in Int /\ 1 <= m /\ m <= N + 1 /\ N + 1 - m = N - n /\ \A j \in 1 .. (N - n) : m + j - 1 = n + j
    BY <1>3, <1>5
  <2>2. log' = SubSeq(log, m, N)
    BY <1>1
  <2> HIDE DEF m
  <2>3. /\ SubSeq(log, m, N) \in Seq(1 .. MaxSeq) /\ Len(SubSeq(log, m, N)) = N + 1 - m
        /\ \A j \in 1 .. (N + 1 - m) : SubSeq(log, m, N)[j] = log[m + j - 1]
    <3>1. N \in Int /\ N <= Len(log)
      BY <1>3 DEF N
    <3> QED BY <1>3, <2>1, <3>1, PartIs
  <2>4. \A j \in 1 .. (N - n) : log'[j] = log[n + j]
    BY <2>1, <2>2, <2>3
  <2> QED BY <2>1, <2>2, <2>3, <2>4
<1>9. Proofs!TypeOK'
  <2>1. b \in 0 .. MaxSeq
    BY <1>3, SeqAssumption
  <2> QED BY <1>1, <1>2, <1>8, <2>1 DEF Proofs!TypeOK
<1>10. Proofs!Cursor' = Proofs!Cursor
  <2>1. CASE N = n
    <3>1. log' = <<>>
      BY <1>3, <1>8, <2>1
    <3>2. Proofs!Cursor' = b
      BY <1>1, <3>1 DEF Proofs!Cursor
    <3>3. N # 0 => log[N] <= b
      BY <1>3, <1>5, <2>1
    <3>4. b \in Int /\ floor \in Int /\ Proofs!Cursor \in Int
      BY <1>3, <1>6, SeqAssumption
    <3> QED BY <1>1, <1>6, <1>7, <3>2, <3>3, <3>4
  <2>2. CASE N # n
    <3>1. /\ N - n \in 1 .. (N - n) /\ n + (N - n) = N /\ N \in 1 .. N /\ N > n
      BY <1>3, <1>5, <2>2
    <3>2. log'[Len(log')] = log[N] /\ log' # <<>> /\ ~(log[N] <= b)
      BY <1>5, <1>8, <3>1
    <3>3. Proofs!Cursor' = IF log[N] > b THEN log[N] ELSE b
      BY <1>1, <3>2 DEF Proofs!Cursor, Proofs!Greatest, Proofs!Last
    <3>4. b \in Int /\ log[N] \in Int /\ N # 0
      BY <1>3, <1>6, <3>1, SeqAssumption
    <3> QED BY <1>6, <3>2, <3>3, <3>4
  <2> QED BY <2>1, <2>2
<1>11. Proofs!LogIsWhole'
  <2>1. Proofs!Ascending(log')
    <3> SUFFICES ASSUME NEW j \in 1 .. (N - n), NEW k \in 1 .. (N - n), j < k PROVE log'[j] < log'[k]
      BY <1>8 DEF Proofs!Ascending
    <3>1. n + j \in 1 .. N /\ n + k \in 1 .. N /\ n + j < n + k
      BY <1>3, <1>5
    <3> QED BY <1>4, <1>8, <3>1 DEF Proofs!Ascending, N
  <2>2. ASSUME NEW j \in 1 .. (N - n) PROVE log'[j] >= j /\ log'[j] \in written /\ log'[j] > b
    <3>1. n + j \in 1 .. N /\ n + j >= j /\ ~(n + j <= n)
      BY <1>3, <1>5
    <3>2. log'[j] = log[n + j]
      BY <1>8
    <3> QED BY <1>3, <1>4, <1>5, <1>6, <3>1, <3>2, SeqAssumption
  <2>3. ASSUME NEW s \in written, s > b PROVE \E j \in 1 .. (N - n) : log'[j] = s
    <3>1. s \in 1 .. MaxSeq
      BY <1>2 DEF Proofs!TypeOK
    <3>2. s > floor
      BY <1>1, <1>3, <2>3, <3>1, SeqAssumption
    <3>3. PICK j \in 1 .. N : log[j] = s
      BY <1>4, <3>2
    <3>4. ~(j <= n)
      BY <1>3, <1>5, <2>3, <3>1, <3>3, SeqAssumption
    <3>5. j - n \in 1 .. (N - n) /\ n + (j - n) = j
      BY <1>3, <1>5, <3>4
    <3> QED BY <1>8, <3>3, <3>5
  <2>4. \E j \in 1 .. Len(snapshots) : snapshots[j] = b
    BY DEF b
  <2> QED BY <1>1, <1>4, <1>8, <1>10, <2>1, <2>2, <2>3, <2>4 DEF Proofs!LogIsWhole
<1>12. Proofs!NothingAhead'
  BY <1>1, <1>2, <1>10 DEF Proofs!NothingAhead, Proofs!Ascending
<1> QED BY <1>9, <1>11, <1>12 DEF Proofs!ProofsInv

LEMMA ProofsStep ==
    ASSUME Proofs!ProofsInv, Proofs!Next
    PROVE  Proofs!ProofsInv'
<1>1. ASSUME NEW i \in 1 .. Len(snapshots), Proofs!Compact(i) \/ Proofs!PruneSnapshot(i) PROVE Proofs!ProofsInv'
  BY <1>1, CompactStep, PruneStep
<1>2. ASSUME NEW seq \in 1 .. MaxSeq, Proofs!Write(seq) PROVE Proofs!ProofsInv'
  BY <1>2, WriteStep
<1>3. CASE Proofs!Snapshot \/ Proofs!CreateRevision
  BY <1>3, TakeStep
<1> QED BY <1>1, <1>2, <1>3 DEF Proofs!Next

\* A proof of an operation the log does not hold at that place is refused, and
\* the gateway's own proof passes.
LEMMA BindsHolds ==
    ASSUME Proofs!ProofsInv
    PROVE  Proofs!ProofBinds
<1> DEFINE N == Len(log)
           L == Proofs!Leaves(log)
           p == Proofs!ProofOf(log)
<1>1. N \in 0 .. MaxSeq /\ Proofs!Cursor \in 0 .. MaxSeq
  BY CursorIs
<1>2. N \in Nat /\ Len(L) = N /\ \A i \in 1 .. N : L[i] = Proofs!Leaf(log[i])
  BY <1>1, SeqAssumption DEF Proofs!Leaves
<1>3. (N = 0 <=> log = <<>>) /\ (N = 0 <=> L = <<>>)
  <2>1. log \in Seq(1 .. MaxSeq)
    BY DEF Proofs!ProofsInv, Proofs!TypeOK
  <2>2. N = 0 <=> log = <<>>
    BY <2>1
  <2>3. N = 0 => L = <<>>
    BY DEF Proofs!Leaves
  <2> QED BY <1>2, <2>2, <2>3
<1>4. ASSUME NEW i \in 1 .. N, NEW s
      PROVE  Proofs!ReplayMerklePath(Proofs!Leaf(s), i - 1, Proofs!Path(L, i - 1)) = Proofs!ServerRoot(L)
                 <=> s = log[i]
  <2>1. Len(L) \in 1 .. MaxSeq /\ i - 1 \in 0 .. (Len(L) - 1) /\ (i - 1) + 1 = i
    BY <1>1, <1>2, SeqAssumption
  <2>2. Proofs!Leaf(s) = L[i] <=> s = log[i]
    BY <1>2 DEF Proofs!Leaf
  <2> HIDE DEF L, N
  <2> QED BY <2>1, <2>2, PathClimbs
<1>5. Proofs!ReplayMerklePath(p.leaf, p.index, p.proof) = Proofs!ServerRoot(L)
      /\ (p.opCount = 0 => Proofs!ServerRoot(L) = Proofs!Empty)
  <2>1. CASE N = 0
    <3>1. p.leaf = Proofs!Empty /\ p.index = 0 /\ p.proof = <<>> /\ Proofs!ServerRoot(L) = Proofs!Empty
      BY <1>3, <2>1 DEF Proofs!ProofOf, Proofs!ServerRoot
    <3>2. Len(<<>>) = 0
      OBVIOUS
    <3>3. Proofs!Climb(Proofs!Empty, 0, <<>>)[0] = [at |-> 0, hash |-> Proofs!Empty]
      <4> DEFINE none == <<>>
      <4>1. Len(none) = 0
        OBVIOUS
      <4> HIDE DEF none
      <4>2. Proofs!Climb(Proofs!Empty, 0, none) = [k \in 0 .. Len(none) |->
               IF k = 0 THEN [at |-> 0, hash |-> Proofs!Empty]
               ELSE Up(Proofs!Climb(Proofs!Empty, 0, none)[k - 1], none, k)]
        BY <4>1, ClimbIs
      <4> QED BY <4>1, <4>2 DEF none
    <3> QED BY <3>1, <3>2, <3>3 DEF Proofs!ReplayMerklePath
  <2>2. CASE N # 0
    <3>1. N \in 1 .. N /\ ~(L = <<>>)
      BY <1>2, <1>3, <2>2
    <3>2. p.leaf = L[N] /\ p.index = N - 1 /\ p.proof = Proofs!Path(L, N - 1) /\ p.opCount = N
      BY <1>2, <3>1 DEF Proofs!ProofOf, Proofs!Last
    <3>3. p.leaf = Proofs!Leaf(log[N])
      BY <1>2, <3>1, <3>2
    <3> QED BY <1>4, <2>2, <3>1, <3>2, <3>3
  <2> QED BY <2>1, <2>2
<1>6. Proofs!UpTo(Proofs!Cursor) = written
  BY DEF Proofs!UpTo, Proofs!ProofsInv, Proofs!LogIsWhole
<1>7. ASSUME NEW local
      PROVE  Proofs!VerifyProof(p, local) = [merkleOk |-> TRUE, signatureOk |-> TRUE, stateMatch |-> local = written]
  <2>1. /\ p.root = Proofs!ServerRoot(L) /\ p.receipt.root = Proofs!ServerRoot(L)
        /\ p.signature = Proofs!Sign(Proofs!Message(p.receipt))
        /\ p.receipt.digest = written
    BY <1>6 DEF Proofs!ProofOf
  <2>2. (Proofs!ReplayMerklePath(p.leaf, p.index, p.proof) = p.root
         /\ Proofs!ReplayMerklePath(p.leaf, p.index, p.proof) = p.receipt.root
         /\ (p.opCount = 0 => p.root = Proofs!Empty)) = TRUE
    BY <1>5, <2>1
  <2>3. (p.signature = Proofs!Sign(Proofs!Message(p.receipt))) = TRUE
    BY <2>1
  <2>4. (local = p.receipt.digest) = (local = written)
    BY <2>1
  <2> HIDE DEF p
  <2> QED BY <2>2, <2>3, <2>4 DEF Proofs!VerifyProof
<1> HIDE DEF L, p
<1> QED BY <1>4, <1>7 DEF Proofs!ProofBinds, N, L, p

LEMMA GreatestIs ==
    ASSUME NEW n \in Nat, NEW S \in SUBSET (1 .. n), S # {}
    PROVE  Proofs!Max(S) \in S
<1> DEFINE T == {m \in 0 .. n : \A x \in S : x <= m}
<1>1. PICK m \in T : \A k \in T : m <= k
  <2>1. n \in T
    OBVIOUS
  <2>2. T \in SUBSET Nat
    OBVIOUS
  <2> HIDE DEF T
  <2> QED BY <2>1, <2>2, Least
<1>2. m \in S
  <2> SUFFICES ASSUME m \notin S PROVE FALSE
    OBVIOUS
  <2>1. PICK x \in S : TRUE
    OBVIOUS
  <2>2. m # 0
    BY <1>1, <2>1
  <2>3. \A y \in S : y <= m - 1
    BY <1>1
  <2>4. m - 1 \in T
    BY <1>1, <2>2, <2>3
  <2> QED BY <1>1, <2>2, <2>4
<1>3. \A y \in S : m >= y
  BY <1>1
<1> QED BY <1>2, <1>3 DEF Proofs!Max

\* What an exported archive lists of a document.
Archive(a) ==
    /\ a.floor = floor /\ a.operations = log
    /\ Len(a.snapshots) \in Nat /\ \A i \in 1 .. Len(a.snapshots) : a.snapshots[i].state = Proofs!UpTo(a.snapshots[i].seq)
    /\ floor > 0 => \E i \in 1 .. Len(a.snapshots) : a.snapshots[i].seq = floor

\* The state at a boundary is rebuilt from the snapshot at it or at the floor.
LEMMA StateIs ==
    ASSUME Proofs!ProofsInv, NEW a, Archive(a), NEW b \in 0 .. MaxSeq, ~Proofs!Pruned(a, b)
    PROVE  Proofs!StateAt(a, b) = Proofs!UpTo(b)
<1> DEFINE N == Len(log)
           M == Len(a.snapshots)
           below == b < floor
           fits == {i \in 1 .. M : /\ a.snapshots[i].seq = (IF below THEN b ELSE floor)
                                   /\ below \/ floor > 0}
           last == Proofs!BaseSnapshot(a, b)
           Later(start) == {log[i] : i \in {j \in 1 .. N : log[j] > start /\ log[j] <= b}}
<1>1. /\ written \subseteq 1 .. MaxSeq /\ floor \in 0 .. MaxSeq
      /\ \A i \in 1 .. N : log[i] \in written /\ log[i] > floor
      /\ \A s \in written : s > floor => \E i \in 1 .. N : log[i] = s
  BY DEF Proofs!ProofsInv, Proofs!TypeOK, Proofs!LogIsWhole
<1>2. /\ a.floor = floor /\ a.operations = log /\ M \in Nat
      /\ \A i \in 1 .. M : a.snapshots[i].state = Proofs!UpTo(a.snapshots[i].seq)
      /\ floor > 0 => \E i \in 1 .. M : a.snapshots[i].seq = floor
  BY DEF Archive
<1>3. last = IF fits = {} THEN 0 ELSE Proofs!Max(fits)
  BY <1>2 DEF Proofs!BaseSnapshot
<1>4. Proofs!StateAt(a, b) =
          LET at == IF b = 0 THEN 0 ELSE last
              start == IF at = 0 THEN 0 ELSE a.snapshots[at].seq
          IN  (IF at = 0 THEN {} ELSE a.snapshots[at].state) \union Later(start)
  BY <1>2 DEF Proofs!StateAt
<1>5. ~(b # 0 /\ below /\ last = 0)
  BY <1>2 DEF Proofs!Pruned
<1>6. fits # {} => last \in fits
  <2>1. fits \in SUBSET (1 .. M)
    OBVIOUS
  <2> HIDE DEF fits, last
  <2> QED BY <1>2, <1>3, <2>1, GreatestIs
<1>10. ASSUME NEW start PROVE Later(start) = {s \in written : s > floor /\ s > start /\ s <= b}
  <2>1. ASSUME NEW s \in written, s > floor, s > start, s <= b PROVE s \in Later(start)
    <3>1. PICK i \in 1 .. N : log[i] = s
      BY <1>1, <2>1
    <3> QED BY <2>1, <3>1
  <2>2. \A s \in Later(start) : s \in written /\ s > floor /\ s > start /\ s <= b
    BY <1>1
  <2> QED BY <2>1, <2>2
<1>11. \A s \in written : s \in Int /\ s >= 1
  BY <1>1, SeqAssumption
<1>12. floor \in Int /\ b \in Int /\ floor >= 0 /\ b >= 0
  BY <1>1, SeqAssumption
<1> HIDE DEF last, M, N, Later
<1>7. CASE b = 0
  <2>1. Proofs!StateAt(a, b) = Later(0)
    BY <1>4, <1>7
  <2>2. Later(0) = {}
    BY <1>7, <1>10, <1>11
  <2>3. Proofs!UpTo(b) = {}
    BY <1>7, <1>11 DEF Proofs!UpTo
  <2> QED BY <2>1, <2>2, <2>3
<1>8. CASE b # 0 /\ fits # {}
  <2>1. last \in 1 .. M /\ last # 0 /\ a.snapshots[last].seq = (IF below THEN b ELSE floor)
    BY <1>2, <1>6, <1>8
  <2>2. Proofs!StateAt(a, b) = Proofs!UpTo(IF below THEN b ELSE floor) \union Later(IF below THEN b ELSE floor)
    BY <1>2, <1>4, <1>8, <2>1
  <2>3. CASE below
    <3>1. Later(b) = {}
      BY <1>10, <1>11, <1>12
    <3> QED BY <2>2, <2>3, <3>1
  <2>4. CASE ~below
    <3>1. \A s \in written : s <= b <=> s <= floor \/ (s > floor /\ s <= b)
      BY <1>11, <1>12, <2>4
    <3>2. Later(floor) = {s \in written : s > floor /\ s <= b}
      BY <1>10
    <3> QED BY <2>2, <2>4, <3>1, <3>2 DEF Proofs!UpTo
  <2> QED BY <2>3, <2>4
<1>9. CASE b # 0 /\ fits = {}
  <2>1. last = 0 /\ ~below
    BY <1>3, <1>5, <1>9
  <2>2. floor = 0
    BY <1>1, <1>2, <1>9, <2>1, SeqAssumption
  <2>3. Proofs!StateAt(a, b) = Later(0)
    BY <1>4, <1>9, <2>1
  <2>4. Later(0) = {s \in written : s <= b}
    BY <1>10, <1>11, <2>2
  <2> QED BY <2>3, <2>4 DEF Proofs!UpTo
<1> QED BY <1>7, <1>8, <1>9

\* The archive lists every snapshot, since none is ahead of the document.
LEMMA ListedIs ==
    ASSUME Proofs!ProofsInv
    PROVE  /\ Len(Proofs!Listed) \in Nat
           /\ \A i \in 1 .. Len(Proofs!Listed) :
                  /\ Proofs!Listed[i].seq \in 0 .. Proofs!Cursor
                  /\ Proofs!Listed[i].state = Proofs!UpTo(Proofs!Listed[i].seq)
                  /\ i > 1 => Proofs!Listed[i].seq >= Proofs!Listed[i - 1].seq
           /\ floor > 0 => \E i \in 1 .. Len(Proofs!Listed) : Proofs!Listed[i].seq = floor
<1> DEFINE N == Len(snapshots)
           kept == SubSeq(snapshots, 1, Proofs!Through(snapshots, Proofs!Cursor))
           list == IF floor = 0 /\ kept = <<>> /\ log = <<>> THEN <<0>> ELSE kept
<1>1. snapshots \in Seq(1 .. MaxSeq) /\ N \in Nat /\ floor \in 0 .. MaxSeq
  BY DEF Proofs!ProofsInv, Proofs!TypeOK
<1>2. Proofs!Ascending(snapshots) /\ \A i \in 1 .. N : snapshots[i] <= Proofs!Cursor
  BY DEF Proofs!ProofsInv, Proofs!NothingAhead
<1>3. Proofs!Cursor \in 0 .. MaxSeq /\ Proofs!Cursor \in Nat
  BY CursorIs, SeqAssumption
<1>4. Proofs!Through(snapshots, Proofs!Cursor) = N
  <2> DEFINE n == Proofs!Through(snapshots, Proofs!Cursor)
  <2>1. n \in 0 .. N /\ \A i \in 1 .. N : snapshots[i] <= Proofs!Cursor <=> i <= n
    BY <1>1, <1>2, <1>3, ThroughIs
  <2> HIDE DEF n
  <2>2. n = N
    <3>1. N # 0 => N \in 1 .. N
      BY <1>1
    <3>2. N # 0 => N <= n
      BY <1>2, <2>1, <3>1
    <3> QED BY <1>1, <2>1, <3>2
  <2> QED BY <2>2 DEF n
<1>5. kept = snapshots
  BY <1>1, <1>4
<1>6. /\ Len(list) \in Nat
      /\ \A i \in 1 .. Len(list) : list[i] \in 0 .. Proofs!Cursor
      /\ \A i \in 1 .. Len(list) : i > 1 => list[i] >= list[i - 1]
      /\ floor > 0 => list = snapshots
  <2>1. CASE floor = 0 /\ kept = <<>> /\ log = <<>>
    <3>1. list = <<0>>
      BY <2>1
    <3> HIDE DEF list
    <3> QED BY <1>1, <1>3, <2>1, <3>1
  <2>2. CASE ~(floor = 0 /\ kept = <<>> /\ log = <<>>)
    <3>1. list = snapshots
      BY <1>5, <2>2
    <3>2. \A i \in 1 .. N : snapshots[i] \in 0 .. Proofs!Cursor
      <4>1. \A i \in 1 .. N : snapshots[i] \in 1 .. MaxSeq
        BY <1>1, ElementsAre
      <4> QED BY <1>2, <1>3, <4>1, SeqAssumption
    <3>3. ASSUME NEW i \in 1 .. N, i > 1 PROVE snapshots[i] >= snapshots[i - 1]
      <4>1. i - 1 \in 1 .. N /\ i - 1 < i
        BY <1>1, <3>3
      <4>2. snapshots[i - 1] < snapshots[i]
        BY <1>2, <4>1 DEF Proofs!Ascending
      <4>3. snapshots[i] \in Int /\ snapshots[i - 1] \in Int
        BY <1>3, <3>2, <4>1
      <4> QED BY <4>2, <4>3
    <3> HIDE DEF list, kept
    <3> QED BY <1>1, <3>1, <3>2, <3>3
  <2> QED BY <2>1, <2>2
<1>7. Proofs!Listed = [i \in 1 .. Len(list) |-> [seq |-> list[i], state |-> Proofs!UpTo(list[i])]]
  BY DEF Proofs!Listed
<1> HIDE DEF list, kept
<1>8. /\ Len(Proofs!Listed) = Len(list)
      /\ \A i \in 1 .. Len(list) : Proofs!Listed[i].seq = list[i] /\ Proofs!Listed[i].state = Proofs!UpTo(list[i])
  BY <1>6, <1>7
<1>9. ASSUME floor > 0 PROVE \E i \in 1 .. Len(list) : list[i] = floor
  BY <1>6, <1>9 DEF Proofs!ProofsInv, Proofs!LogIsWhole
<1>10. ASSUME NEW i \in 1 .. Len(list), i > 1 PROVE Proofs!Listed[i].seq >= Proofs!Listed[i - 1].seq
  <2>1. i - 1 \in 1 .. Len(list)
    BY <1>6, <1>10
  <2> QED BY <1>6, <1>8, <1>10, <2>1
<1>11. \A i \in 1 .. Len(list) : Proofs!Listed[i].seq \in 0 .. Proofs!Cursor /\ Proofs!Listed[i].state = Proofs!UpTo(Proofs!Listed[i].seq)
  BY <1>6, <1>8
<1> HIDE DEF N
<1> QED BY <1>6, <1>8, <1>9, <1>10, <1>11

\* What an exported archive says, field by field.
LEMMA ExportedIs ==
    ASSUME Proofs!ProofsInv
    PROVE  /\ Archive(Proofs!Exported)
           /\ Proofs!Exported.seq = Proofs!Cursor /\ Proofs!Exported.base = floor
           /\ Proofs!Exported.root = Proofs!ServerRoot(Proofs!Leaves(log))
           /\ Proofs!Exported.snapshots = Proofs!Listed
           /\ Proofs!Exported.digest = Proofs!UpTo(Proofs!Cursor)
           /\ Len(Proofs!Exported.revisions) = Len(revisions)
           /\ \A i \in 1 .. Len(revisions) :
                  /\ Proofs!Exported.revisions[i].seq = revisions[i]
                  /\ Proofs!Exported.revisions[i].digest =
                         IF Proofs!Pruned(Proofs!Exported, revisions[i]) THEN Proofs!None
                         ELSE Proofs!UpTo(revisions[i])
<1> DEFINE body == [floor |-> floor, operations |-> log, snapshots |-> Proofs!Listed]
           digestAt(b) == IF Proofs!Pruned(body, b) THEN Proofs!None ELSE Proofs!StateAt(body, b)
           E == Proofs!Exported
<1>1. E = [floor |-> floor, seq |-> Proofs!Cursor, base |-> floor, operations |-> log,
           snapshots |-> Proofs!Listed, root |-> Proofs!ServerRoot(Proofs!Leaves(log)),
           digest |-> Proofs!StateAt(body, Proofs!Cursor),
           revisions |-> [i \in 1 .. Len(revisions) |-> [seq |-> revisions[i], digest |-> digestAt(revisions[i])]]]
  BY DEF Proofs!Exported
<1>2. /\ E.floor = floor /\ E.seq = Proofs!Cursor /\ E.base = floor /\ E.operations = log
      /\ E.snapshots = Proofs!Listed /\ E.root = Proofs!ServerRoot(Proofs!Leaves(log))
      /\ E.digest = Proofs!StateAt(body, Proofs!Cursor)
      /\ E.revisions = [i \in 1 .. Len(revisions) |-> [seq |-> revisions[i], digest |-> digestAt(revisions[i])]]
  BY <1>1
<1>3. body.floor = floor /\ body.operations = log /\ body.snapshots = Proofs!Listed
  OBVIOUS
<1> HIDE DEF body, E
<1>4. Archive(body) /\ Archive(E)
  BY <1>2, <1>3, ListedIs DEF Archive
<1>5. ASSUME NEW b PROVE Proofs!Pruned(body, b) <=> Proofs!Pruned(E, b)
  BY <1>2, <1>3 DEF Proofs!Pruned, Proofs!BaseSnapshot
<1>6. Len(revisions) \in Nat /\ \A i \in 1 .. Len(revisions) : revisions[i] \in 0 .. MaxSeq
  BY ElementsAre DEF Proofs!ProofsInv, Proofs!TypeOK
<1>7. Proofs!Cursor \in 0 .. MaxSeq /\ floor \in 0 .. MaxSeq /\ ~(Proofs!Cursor < floor)
  BY CursorIs, SeqAssumption DEF Proofs!ProofsInv, Proofs!TypeOK
<1>8. E.digest = Proofs!UpTo(Proofs!Cursor)
  <2>1. ~Proofs!Pruned(body, Proofs!Cursor)
    BY <1>3, <1>7 DEF Proofs!Pruned
  <2> QED BY <1>2, <1>4, <1>7, <2>1, StateIs
<1>9. ASSUME NEW i \in 1 .. Len(revisions)
      PROVE  /\ E.revisions[i].seq = revisions[i]
             /\ E.revisions[i].digest = IF Proofs!Pruned(E, revisions[i]) THEN Proofs!None
                                        ELSE Proofs!UpTo(revisions[i])
  <2>1. E.revisions[i] = [seq |-> revisions[i], digest |-> digestAt(revisions[i])]
    BY <1>2
  <2>2. ~Proofs!Pruned(body, revisions[i]) => Proofs!StateAt(body, revisions[i]) = Proofs!UpTo(revisions[i])
    BY <1>4, <1>6, StateIs
  <2> QED BY <1>5, <2>1, <2>2
<1>10. Len(E.revisions) = Len(revisions)
  BY <1>2, <1>6
<1> QED BY <1>2, <1>4, <1>8, <1>9, <1>10 DEF E

\* Whatever was compacted and pruned, an archive verifies.
LEMMA ExportHolds ==
    ASSUME Proofs!ProofsInv
    PROVE  Proofs!ExportVerifies
<1> DEFINE E == Proofs!Exported
           N == Len(log)
           L == Proofs!Leaves(log)
<1>1. /\ Archive(E)
      /\ E.seq = Proofs!Cursor /\ E.base = floor /\ E.root = Proofs!ServerRoot(L)
      /\ E.snapshots = Proofs!Listed /\ E.digest = Proofs!UpTo(Proofs!Cursor)
      /\ Len(E.revisions) = Len(revisions)
      /\ \A i \in 1 .. Len(revisions) :
             /\ E.revisions[i].seq = revisions[i]
             /\ E.revisions[i].digest = IF Proofs!Pruned(E, revisions[i]) THEN Proofs!None
                                        ELSE Proofs!UpTo(revisions[i])
  BY ExportedIs
<1> HIDE DEF E
<1>2. E.floor = floor /\ E.operations = log
  BY <1>1 DEF Archive
<1>3. /\ N \in 0 .. MaxSeq /\ Proofs!Cursor \in 0 .. MaxSeq /\ floor \in 0 .. MaxSeq /\ floor <= Proofs!Cursor
      /\ Proofs!Cursor = IF N = 0 THEN floor ELSE log[N]
      /\ \A i \in 1 .. N : log[i] \in 1 .. MaxSeq /\ log[i] <= Proofs!Cursor
  BY CursorIs DEF Proofs!ProofsInv, Proofs!TypeOK
<1>4. N = 0 <=> log = <<>>
  BY DEF Proofs!ProofsInv, Proofs!TypeOK
<1>5. /\ Proofs!Ascending(log) /\ \A i \in 1 .. N : log[i] > floor
      /\ \A i \in 1 .. Len(revisions) : revisions[i] \in 0 .. MaxSeq /\ revisions[i] <= Proofs!Cursor
      /\ written \subseteq 1 .. MaxSeq
  <2>1. \A i \in 1 .. Len(revisions) : revisions[i] \in 0 .. MaxSeq
    BY ElementsAre DEF Proofs!ProofsInv, Proofs!TypeOK
  <2> QED BY <2>1 DEF Proofs!ProofsInv, Proofs!TypeOK, Proofs!LogIsWhole, Proofs!NothingAhead
<1>6. Proofs!LogAgrees(E)
  <2>1. ASSUME NEW i \in 1 .. N
        PROVE  log[i] > (IF i = 1 THEN 0 ELSE log[i - 1]) /\ log[i] > floor /\ log[i] <= Proofs!Cursor
    <3>1. CASE i = 1
      BY <1>3, <1>5, <3>1, SeqAssumption
    <3>2. CASE i # 1
      <4>1. i - 1 \in 1 .. N /\ i - 1 < i
        BY <1>3, <3>2, SeqAssumption
      <4>2. log[i - 1] < log[i]
        BY <1>5, <4>1 DEF Proofs!Ascending
      <4> QED BY <1>3, <1>5, <3>2, <4>1, <4>2, SeqAssumption
    <3> QED BY <3>1, <3>2
  <2>2. Proofs!Cursor = (IF (IF log = <<>> THEN 0 ELSE Proofs!Last(log)) > floor
                         THEN (IF log = <<>> THEN 0 ELSE Proofs!Last(log)) ELSE floor)
    <3>1. CASE N = 0
      BY <1>3, <1>4, <3>1, SeqAssumption
    <3>2. CASE N # 0
      <4>1. N \in 1 .. N /\ Proofs!Last(log) = log[N]
        BY <1>3, <3>2, SeqAssumption DEF Proofs!Last
      <4> QED BY <1>3, <1>4, <1>5, <3>2, <4>1
    <3> QED BY <3>1, <3>2
  <2>3. Proofs!OperationRoot(L) = Proofs!ServerRoot(L)
    <3>1. Len(L) = N /\ (N = 0 => L = <<>>)
      BY <1>3, SeqAssumption DEF Proofs!Leaves
    <3>2. L = <<>> \/ Len(L) \in 1 .. MaxSeq
      BY <1>3, <3>1, SeqAssumption
    <3> HIDE DEF L
    <3> QED BY <3>2, RootsAgree
  <2>4. floor > 0 => \E i \in 1 .. Len(E.snapshots) : E.snapshots[i].seq = floor
    BY <1>1, ListedIs
  <2> HIDE DEF N
  <2> QED BY <1>1, <1>2, <1>3, <2>1, <2>2, <2>3, <2>4 DEF Proofs!LogAgrees, L, N
<1>7. Proofs!SnapshotsAgree(E)
  <2>1. ASSUME NEW i \in 1 .. Len(E.snapshots)
        PROVE  /\ i > 1 => E.snapshots[i].seq >= E.snapshots[i - 1].seq
               /\ E.snapshots[i].seq \in 0 .. Proofs!Cursor
               /\ E.snapshots[i].state = Proofs!UpTo(E.snapshots[i].seq)
    BY <1>1, ListedIs
  <2>2. ASSUME NEW i \in 1 .. Len(E.snapshots), E.snapshots[i].seq >= floor \/ E.snapshots[i].seq = 0
        PROVE  Proofs!StateAt(E, E.snapshots[i].seq) = E.snapshots[i].state
    <3>1. E.snapshots[i].seq \in 0 .. MaxSeq
      BY <1>3, <2>1, SeqAssumption
    <3>2. ~Proofs!Pruned(E, E.snapshots[i].seq)
      BY <1>2, <1>3, <2>2, <3>1, SeqAssumption DEF Proofs!Pruned
    <3> QED BY <1>1, <2>1, <3>1, <3>2, StateIs
  <2>3. \A i \in 1 .. Len(E.snapshots) : E.snapshots[i].seq <= Proofs!Cursor
    BY <1>3, <2>1, SeqAssumption
  <2> QED BY <1>1, <1>2, <2>1, <2>2, <2>3 DEF Proofs!SnapshotsAgree
<1>8. \A b : Proofs!UpTo(b) # Proofs!None
  <2>1. -1 \notin written
    BY <1>5, SeqAssumption
  <2> QED BY <2>1 DEF Proofs!UpTo, Proofs!None
<1>9. Proofs!RevisionsAgree(E)
  <2>1. ASSUME NEW i \in 1 .. Len(E.revisions)
        PROVE  /\ E.revisions[i].seq <= E.seq
               /\ IF E.revisions[i].digest = Proofs!None THEN Proofs!Pruned(E, E.revisions[i].seq)
                  ELSE /\ ~Proofs!Pruned(E, E.revisions[i].seq)
                       /\ Proofs!StateAt(E, E.revisions[i].seq) = E.revisions[i].digest
    <3>1. i \in 1 .. Len(revisions) /\ E.revisions[i].seq = revisions[i]
      BY <1>1
    <3>2. revisions[i] \in 0 .. MaxSeq /\ revisions[i] <= Proofs!Cursor
      BY <1>5, <3>1
    <3>3. ~Proofs!Pruned(E, revisions[i]) => Proofs!StateAt(E, revisions[i]) = Proofs!UpTo(revisions[i])
      BY <1>1, <3>2, StateIs
    <3> QED BY <1>1, <1>8, <3>1, <3>2, <3>3
  <2>2. Proofs!StateAt(E, E.seq) = E.digest
    <3>1. ~Proofs!Pruned(E, Proofs!Cursor)
      BY <1>2, <1>3, SeqAssumption DEF Proofs!Pruned
    <3> QED BY <1>1, <1>3, <3>1, StateIs
  <2> QED BY <2>1, <2>2 DEF Proofs!RevisionsAgree
<1>10. \A i \in 1 .. Len(E.revisions) : E.revisions[i].digest \in {Proofs!None, Proofs!UpTo(revisions[i])}
  BY <1>1
<1> QED BY <1>6, <1>7, <1>9, <1>10 DEF Proofs!ExportVerifies, Proofs!Verified, E

\* A step that leaves the document alone leaves the invariant alone.
LEMMA ProofsStutter ==
    ASSUME Proofs!ProofsInv, UNCHANGED proofsVars
    PROVE  Proofs!ProofsInv'
BY DEF proofsVars, Proofs!ProofsInv, Proofs!TypeOK, Proofs!LogIsWhole, Proofs!NothingAhead,
       Proofs!Ascending, Proofs!Cursor, Proofs!Greatest, Proofs!Last

-----------------------------------------------------------------------------
(* Signed history (lib/crdt/proofs.ts, signed-concordpack.ts): an audit    *)
(* path, for a log of any length, proves one operation at one place and no *)
(* other; the gateway's own proof passes on an up-to-date replica and on   *)
(* no other; and every archive it exports verifies in the browser,         *)
(* whatever has been compacted and pruned.                                 *)
THEOREM ProofsAreSoundHolds == Spec => []ProofsAreSound
<1> DEFINE I == part = "HistoryProofs" => Proofs!ProofsInv
<1>1. Init => I
  <2>1. Init /\ part = "HistoryProofs" => Proofs!Init
    BY Zenon DEF Init
  <2> QED BY <2>1, InitProofs
<1>2. I /\ [Next]_vars => I'
  <2> SUFFICES ASSUME I, [Next]_vars, part' = "HistoryProofs" PROVE Proofs!ProofsInv'
    OBVIOUS
  <2>1. CASE UNCHANGED vars
    <3>1. part = "HistoryProofs" /\ Proofs!ProofsInv /\ UNCHANGED proofsVars
      BY <2>1 DEF vars
    <3> QED BY <3>1, ProofsStutter
  <2>2. CASE Next
    <3>1. part = "HistoryProofs" /\ Proofs!Next
      BY <2>2 DEF Next
    <3> QED BY <3>1, ProofsStep
  <2> QED BY <2>1, <2>2
<1>3. I => ProofsAreSound
  BY BindsHolds, ExportHolds DEF ProofsAreSound
<1> HIDE DEF I
<1> QED BY <1>1, <1>2, <1>3, PTL DEF Spec
=============================================================================
