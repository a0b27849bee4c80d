---------------------------- MODULE LocalDrafts ----------------------------
(***************************************************************************)
(* The parallel drafts of components/drafts-panel.tsx and their storage in *)
(* lib/drafts.ts: an array of drafts per account and document, edited in   *)
(* memory and written to localStorage on blur, on some clicks, on pagehide *)
(* and when the panel moves to another document or account.  One tab; two  *)
(* tabs on one document overwrite each other's array (README).  What a     *)
(* draft merges into the document is BlockMerge.                           *)
(***************************************************************************)
EXTENDS Naturals, Sequences, FiniteSets, SequencesExt

CONSTANTS Scopes,     \* accounts x documents
          MaxDrafts,  \* MAX_LOCAL_DRAFTS
          MaxBytes,   \* MAX_DRAFT_STORAGE_BYTES, in blocks
          MaxMade, MaxFaults \* bounds: drafts created, storage failures

VARIABLES scope,    \* the panel's document and account, "" signed out
          drafts,   \* draftsRef
          dirty,    \* dirtyRef
          selected, \* selectedDraftId, 0 for none
          status,   \* storageStatus
          stored,   \* localStorage, by scope
          meant,    \* the drafts the user last saw under each scope
          excused,  \* scopes whose last change could not be saved
          made, faults

vars == <<scope, drafts, dirty, selected, status, stored, meant, excused, made, faults>>

Signed == scope \in Scopes

\* draftStorageKey: one key per account and document.
StorageKey(s) == s

Size(list) == FoldLeft(LAMBDA n, d : n + d.blocks, 0, list)

\* saveLocalDrafts refuses an oversize or foreign array before it writes.
Storable(s, list) ==
    /\ Len(list) <= MaxDrafts
    /\ \A i \in 1..Len(list) : list[i].of = s
    /\ Size(list) <= MaxBytes

\* loadLocalDrafts: the drafts of this document, or an error.
Loadable(s) == Size(stored[StorageKey(s)]) <= MaxBytes /\ Len(stored[StorageKey(s)]) <= MaxDrafts

FirstId(list) == IF list = <<>> THEN 0 ELSE Head(list).id

Init ==
    /\ scope = "" /\ drafts = <<>> /\ dirty = FALSE /\ selected = 0 /\ status = "signedOut"
    /\ stored = [s \in Scopes |-> <<>>] /\ meant = [s \in Scopes |-> <<>>]
    /\ excused = {} /\ made = 0 /\ faults = 0

\* Mutant: the flag is cleared although storage refused.
FlushedTrusting(s, list, unsaved, works) ==
    [saved |-> IF unsaved /\ works /\ Storable(s, list) THEN [stored EXCEPT ![s] = list] ELSE stored,
     dirty |-> FALSE, status |-> IF unsaved THEN "saved" ELSE status]

\* flushDrafts: an unsaved array is written under the key of its scope; it
\* stays unsaved when storage refuses it.
Flushed(s, list, unsaved, works) ==
    LET fits == s \in Scopes /\ unsaved /\ works /\ Storable(s, list)
    IN  [saved |-> IF fits THEN [stored EXCEPT ![StorageKey(s)] = list] ELSE stored,
         dirty |-> unsaved /\ ~fits,
         status |-> IF s \notin Scopes \/ ~unsaved THEN status ELSE IF fits THEN "saved" ELSE "failed"]

\* Storage works, or this is one of the failures counted.
Storage(works) ==
    /\ works \/ faults < MaxFaults
    /\ faults' = IF works THEN faults ELSE faults + 1

-----------------------------------------------------------------------------
\* replaceDrafts, written at once or left for the next flush.
Replace(next, now, works) ==
    LET after == Flushed(scope, next, TRUE, works)
    IN  /\ drafts' = next
        /\ meant' = [meant EXCEPT ![scope] = next]
        /\ stored' = IF now THEN after.saved ELSE stored
        /\ dirty' = (~now \/ after.dirty)
        /\ status' = IF now THEN after.status ELSE "waiting"
        /\ UNCHANGED scope

CreateDraft(blocks, works) ==
    /\ Signed /\ made < MaxMade /\ Len(drafts) < MaxDrafts
    /\ Storage(works)
    /\ Replace(<<[id |-> made + 1, of |-> scope, blocks |-> blocks]>> \o drafts, TRUE, works)
    /\ selected' = made + 1 /\ made' = made + 1
    /\ UNCHANGED excused

\* updateDraft: the selected draft, its blocks typed over, added or removed.
Updated(n) ==
    [i \in 1..Len(drafts) |-> IF drafts[i].id = selected THEN [drafts[i] EXCEPT !.blocks = n] ELSE drafts[i]]

\* Typing (a name, a block's text) is written on blur only; addParagraph and
\* a block's Delete button write at once.
UpdateDraft(n, now, works) ==
    /\ Signed /\ selected # 0
    /\ Storage(works)
    /\ Replace(Updated(n), now, works)
    /\ UNCHANGED <<selected, excused, made>>

Remaining == SelectSeq(drafts, LAMBDA d : d.id # selected)

DeleteDraft(works) ==
    /\ Signed /\ selected # 0
    /\ Storage(works)
    /\ Replace(Remaining, TRUE, works) /\ selected' = FirstId(Remaining)
    /\ UNCHANGED <<excused, made>>

Select(i) ==
    /\ selected' = drafts[i].id
    /\ UNCHANGED <<scope, drafts, dirty, status, stored, meant, excused, made, faults>>

Blur(works) ==
    /\ Signed /\ dirty
    /\ Storage(works)
    /\ LET after == Flushed(scope, drafts, dirty, works)
       IN  stored' = after.saved /\ dirty' = after.dirty /\ status' = after.status
    /\ UNCHANGED <<scope, drafts, selected, meant, excused, made>>

\* The effect's cleanup, and pagehide, flush under the key of the scope the
\* effect was set up for.
Left(old, new, works) == Flushed(old, drafts, dirty, works)

\* Moving to another document or account, signing out, or reloading: the old
\* scope is flushed, memory is forgotten and the new scope loaded.
Move(to, works, reads) ==
    LET after == Left(scope, to, works)
        list == IF to \in Scopes /\ reads /\ Loadable(to) THEN after.saved[StorageKey(to)] ELSE <<>>
    IN  /\ Storage(works /\ reads)
        /\ stored' = after.saved
        /\ excused' = (IF after.dirty THEN excused \union {scope} ELSE excused)
                         \union (IF reads THEN {} ELSE {to})
        /\ drafts' = list /\ selected' = FirstId(list)
        /\ scope' = to /\ dirty' = FALSE
        /\ status' = IF to \notin Scopes THEN "signedOut" ELSE IF reads /\ Loadable(to) THEN "loaded" ELSE "failed"
        /\ UNCHANGED <<meant, made>>

\* The tab dies without pagehide; it is opened again on nothing.
Kill ==
    /\ scope # "" /\ faults < MaxFaults
    /\ faults' = faults + 1
    /\ excused' = IF dirty THEN excused \union {scope} ELSE excused
    /\ scope' = "" /\ drafts' = <<>> /\ dirty' = FALSE /\ selected' = 0 /\ status' = "signedOut"
    /\ UNCHANGED <<stored, meant, made>>

Next ==
    \E works \in BOOLEAN :
        \/ \E n \in 1..MaxBytes : CreateDraft(n, works) \/ \E now \in BOOLEAN : UpdateDraft(n, now, works)
        \/ DeleteDraft(works)
        \/ \E i \in 1..Len(drafts) : Select(i)
        \/ Blur(works)
        \/ \E to \in Scopes \union {""}, reads \in BOOLEAN : Move(to, works, reads)
        \/ Kill

Spec == Init /\ [][Next]_vars

-----------------------------------------------------------------------------
(* "Saved on this device." and the drafts kept for a document are what the *)
(* user last made of them: the status is never shown over an array that    *)
(* storage does not hold, and a draft left behind by switching documents,  *)
(* accounts or pages is found again, under its own account and document,   *)
(* unless storage failed or the tab died.                                  *)
DraftsSurvive ==
    /\ status = "saved" => stored[scope] = drafts
    /\ \A s \in Scopes \ excused : (IF s = scope /\ dirty THEN drafts ELSE stored[s]) = meant[s]
-----------------------------------------------------------------------------
\* Why they survive: what is unsaved is what the user sees, "saved" is shown
\* over what storage holds, and everything else lies in storage as it was
\* last seen.
ByScope(f) == f = [s \in Scopes |-> f[s]]

DraftsInv ==
    /\ ByScope(stored) /\ ByScope(meant)
    /\ dirty \in BOOLEAN
    /\ dirty => scope \in Scopes /\ drafts = meant[scope]
    /\ status = "saved" => scope \in Scopes /\ ~dirty /\ stored[scope] = drafts
    /\ \A s \in Scopes \ excused : (s = scope /\ dirty) \/ stored[s] = meant[s]
=============================================================================
