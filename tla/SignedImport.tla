---------------------------- MODULE SignedImport ----------------------------
(***************************************************************************)
(* Restoring a signed history archive as a new document                    *)
(* (signed-pack-panel.tsx, through gateway-history-proxy.ts).  The person  *)
(* chooses a file and pastes the trusted details, the browser verifies     *)
(* one under the other, and the restore is sent under a request id that    *)
(* localStorage keeps per archive.  Answers are lost, pages are reloaded   *)
(* and the same archive is restored from several tabs.                     *)
(***************************************************************************)
EXTENDS Integers, FiniteSets

CONSTANTS
    Tabs,      \* the tabs of one account in one browser
    Archives,  \* exports of the same document at the same sequence
    Titles,
    MaxIds     \* bound on the request ids drawn

VARIABLES
    disk,     \* localStorage: per archive the pending import
    drawn,    \* how many request ids were drawn
    panel,    \* per tab the panel, see Fresh
    queries,  \* the import requests sent; a server may be slow with them
    imports   \* the gateway's import records; a record's id names its document

vars == <<disk, drawn, panel, queries, imports>>

\* The details that match every archive of Archives, and some others.
Trusts == {"matching", "other"}
NoPending == [id |-> 0, title |-> "none", trust |-> "none"]
NoVerdict == [archive |-> "none", trust |-> "none"]
NoQuery == [id |-> 0, archive |-> "none", trust |-> "none", title |-> "none"]

\* The title is what the field holds at first, the file and details empty.
Fresh == [file |-> "none", trust |-> "none", title |-> CHOOSE t \in Titles : t # "",
          busy |-> "no", checking |-> NoVerdict, verified |-> NoVerdict,
          query |-> NoQuery, restored |-> 0]

Init ==
    /\ disk = [a \in Archives |-> NoPending] /\ drawn = 0
    /\ panel = [t \in Tabs |-> Fresh] /\ queries = {} /\ imports = {}

-----------------------------------------------------------------------------
(* The panel.                                                              *)

\* Every input is disabled while something is on its way.
Enabled(t) == panel[t].busy = "no"

\* invalidate: what was verified and restored is not what is chosen now.
Invalidated(p) == [p EXCEPT !.verified = NoVerdict, !.restored = 0]

ChooseFile(t, a) ==
    /\ Enabled(t) /\ panel' = [panel EXCEPT ![t] = [Invalidated(@) EXCEPT !.file = a]]
    /\ UNCHANGED <<disk, drawn, queries, imports>>

EnterTrust(t, trust) ==
    /\ Enabled(t) /\ panel' = [panel EXCEPT ![t] = [Invalidated(@) EXCEPT !.trust = trust]]
    /\ UNCHANGED <<disk, drawn, queries, imports>>

EnterTitle(t, title) ==
    /\ Enabled(t) /\ panel[t].restored = 0
    /\ panel' = [panel EXCEPT ![t].title = title]
    /\ UNCHANGED <<disk, drawn, queries, imports>>

\* verify: of the file and the details as they were when it was pressed.
Verify(t) ==
    LET p == panel[t]
    IN /\ p.busy = "no" /\ p.file # "none" /\ p.trust # "none"
       /\ panel' = [panel EXCEPT ![t] = [Invalidated(@) EXCEPT
              !.busy = "verifying", !.checking = [archive |-> p.file, trust |-> p.trust]]]
       /\ UNCHANGED <<disk, drawn, queries, imports>>

\* The details name the key, the document, the sequence and the snapshot
\* boundary, and not the file.
Matches(verdict) == verdict.trust = "matching"

Verified(t) ==
    /\ panel[t].busy = "verifying"
    /\ panel' = [panel EXCEPT ![t].busy = "no", ![t].checking = NoVerdict,
                              ![t].verified = 
                  IF Matches(panel[t].checking) THEN panel[t].checking ELSE NoVerdict]
    /\ UNCHANGED <<disk, drawn, queries, imports>>

\* restore: the pending import of this archive, or a new one, which is stored
\* before anything is sent.
\* Mutant: nothing is stored until the import has succeeded.
StoredLater(archive, pending) == disk
Stored(archive, pending) == [disk EXCEPT ![archive] = pending]

Restore(t) ==
    LET p == panel[t]
        archive == p.verified.archive
        known == disk[archive]
        pending == IF known.id # 0 THEN known
                   ELSE [id |-> drawn + 1, title |-> p.title, trust |-> p.verified.trust]
        query == [id |-> pending.id, archive |-> p.file, trust |-> p.verified.trust, title |-> p.title]
    IN /\ p.busy = "no" /\ p.verified # NoVerdict /\ p.restored = 0 /\ p.title # ""
       /\ pending.title = p.title /\ pending.trust = p.verified.trust
       /\ pending.id <= MaxIds /\ drawn' = IF known.id = 0 THEN drawn + 1 ELSE drawn
       /\ disk' = Stored(archive, pending) /\ queries' = queries \cup {query}
       /\ panel' = [panel EXCEPT ![t].busy = "restoring", ![t].query = query]
       /\ UNCHANGED imports

\* The gateway's answer: the record with the request's id, when it is the
\* same import.
Restored(t) ==
    LET q == panel[t].query
    IN /\ panel[t].busy = "restoring" /\ q \in imports
       /\ panel' = [panel EXCEPT ![t].busy = "no", ![t].restored = q.id, ![t].query = NoQuery]
       /\ UNCHANGED <<disk, drawn, queries, imports>>

\* A refusal, a timeout or a lost answer; the pending import stays.
Fails(t) ==
    /\ panel[t].busy = "restoring"
    /\ panel' = [panel EXCEPT ![t].busy = "no", ![t].query = NoQuery]
    /\ UNCHANGED <<disk, drawn, queries, imports>>

Reload(t) ==
    /\ panel[t] # Fresh /\ panel' = [panel EXCEPT ![t] = Fresh]
    /\ UNCHANGED <<disk, drawn, queries, imports>>

-----------------------------------------------------------------------------
(* The proxy and the gateway.                                              *)

\* The proxy forwards a request that names every field it knows, once.
Forwarded(q) == q.id # 0 /\ q.title # "" /\ q.trust # "none" /\ q.archive # "none"

\* Under a lock on the request id: an id that has a record imports nothing,
\* an archive that does not match the details neither.
Import(q) ==
    /\ Forwarded(q) /\ Matches(q) /\ \A r \in imports : r.id # q.id
    /\ imports' = imports \cup {q}
    /\ UNCHANGED <<disk, drawn, panel, queries>>

Next ==
    \/ \E t \in Tabs :
        \/ \E a \in Archives : ChooseFile(t, a)
        \/ \E trust \in Trusts : EnterTrust(t, trust)
        \/ \E title \in Titles : EnterTitle(t, title)
        \/ Verify(t) \/ Verified(t) \/ Restore(t) \/ Restored(t) \/ Fails(t) \/ Reload(t)
    \/ \E q \in queries : Import(q)

Spec == Init /\ [][Next]_vars

-----------------------------------------------------------------------------
(* Properties.                                                             *)

\* However often and from however many tabs an archive is restored, one
\* document is made of it (restore, import).
ImportedOnce == \A r, s \in imports : r.archive = s.archive => r.id = s.id

\* The document a panel links to was made of the archive and under the title
\* it shows (invalidate, the disabled inputs).
RestoredIsShown ==
    \A t \in Tabs : panel[t].restored # 0 =>
        \E r \in imports : /\ r.id = panel[t].restored /\ r.title = panel[t].title
                           /\ r.archive = panel[t].verified.archive

-----------------------------------------------------------------------------
(* Why it holds.                                                         *)

Texts == Titles \cup {Fresh.title, "none"}
Files == Archives \cup {"none"}
Details == Trusts \cup {"none"}
Pendings == [id : Nat, title : Texts, trust : Details]
Verdicts == [archive : Files, trust : Details]
Queries == [id : Nat, archive : Files, trust : Details, title : Texts]
Panels == [file : Files, trust : Details, title : Texts,
           busy : {"no", "verifying", "restoring"}, checking : Verdicts,
           verified : Verdicts, query : Queries, restored : Nat]

\* The types of the pending imports, panels and requests.
TypeOK ==
    /\ disk \in [Archives -> Pendings] /\ drawn \in Nat /\ panel \in [Tabs -> Panels]
    /\ queries \subseteq Queries /\ imports \subseteq queries

\* What is verified is the file chosen, what is asked for is what is shown, and
\* a document is linked to only with the record that made it.
PanelOK(p, records) ==
    /\ p.busy = "verifying" => p.checking.archive = p.file /\ p.file \in Archives
    /\ p.verified # NoVerdict => p.verified.archive = p.file /\ p.file \in Archives
    /\ p.busy # "no" => p.restored = 0
    /\ p.busy = "restoring" => p.query.title = p.title /\ p.query.archive = p.verified.archive
    /\ p.restored # 0 =>
           \E r \in records : /\ r.id = p.restored /\ r.title = p.title
                              /\ r.archive = p.verified.archive

\* Every request carries the id that localStorage keeps for its archive.
OneId == \A q \in queries : q.archive \in Archives /\ q.id # 0 /\ q.id = disk[q.archive].id

ImportInv == TypeOK /\ (\A t \in Tabs : PanelOK(panel[t], imports)) /\ OneId
=============================================================================
