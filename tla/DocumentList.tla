---------------------------- MODULE DocumentList ----------------------------
(***************************************************************************)
(* The home page.  The server renders the first page of the documents the  *)
(* user may see in the workspace or shared collection; the browser appends *)
(* further pages by offset (documents-view.tsx), and adopts a fresh first  *)
(* page when the window is focused, comes online or something was changed. *)
(* A row's menu renames the document under the version the row shows, or   *)
(* removes it.  Others change, share and remove documents meanwhile.       *)
(***************************************************************************)
EXTENDS Integers, Sequences, SequencesExt, FiniteSets, FiniteSetsExt

CONSTANTS
    Docs,
    Kinds,       \* who owns a document, in which organization, the user's grant
    PageSize,
    MaxChanges,  \* bound on the changes of others
    MaxRenames   \* bound on the user's renames

VARIABLES
    order,    \* the documents on the server, the last updated first
    kind,     \* their owner, organization and the user's grant
    version,  \* their metadata versions; each stands for a title of its own
    org,      \* the organization the user has chosen, "none" for personal
    epoch,    \* how often anything above changed
    list,     \* the list on the page, see Shown
    load,     \* the page asked for with "Load more"
    refresh,  \* the first page asked for afresh
    dialog,   \* the rename dialog
    renames,  \* how many renames were sent
    blind     \* the renames accepted: the title replaced and the one seen

vars == <<order, kind, version, org, epoch, list, load, refresh, dialog, renames, blind>>
server == <<order, kind, version, org, epoch>>

Roles == {"OWNER", "EDITOR", "COMMENTER", "VIEWER"}
Scopes == {"workspace", "shared"}
None == [at |-> "none", offset |-> 0, rows |-> << >>, more |-> FALSE, epoch |-> 0]
Closed == [at |-> "closed", doc |-> "none", expected |-> 0, seen |-> 0]

\* The elements of a sequence that are in a set, in their order: an element's
\* place is the number of such elements up to it (SelectSeq, not recursive).
Keep(s, good) ==
    LET in == {i \in DOMAIN s : s[i] \in good}
    IN [k \in 1 .. Cardinality(in) |->
           s[CHOOSE i \in in : Cardinality({j \in in : j <= i}) = k]]

-----------------------------------------------------------------------------
(* The server.                                                             *)

\* resolveEffectiveRole: the owner, then the direct grant, then the editor an
\* organization makes of its members.
Resolve(d) ==
    CASE kind[d].owner = "user" -> "OWNER"
      [] kind[d].owner # "user" /\ kind[d].grant # "none" -> kind[d].grant
      [] OTHER -> IF kind[d].org # "none" /\ kind[d].org = org THEN "EDITOR" ELSE "none"

\* The query's scope and the role it selects in the same statement.
InScope(d, scope) ==
    IF scope = "shared" THEN kind[d].grant # "none" /\ kind[d].owner # "user"
    ELSE IF org # "none" THEN kind[d].org = org ELSE kind[d].owner = "user"

ListedRole(d) ==
    IF kind[d].owner = "user" THEN "OWNER"
    ELSE IF kind[d].grant # "none" THEN kind[d].grant ELSE "EDITOR"

Row(d) == [id |-> d, role |-> ListedRole(d), version |-> version[d]]
Listed(scope) == LET in == Keep(order, {d \in Docs : InScope(d, scope)})
                 IN [i \in DOMAIN in |-> Row(in[i])]

Slice(s, from, upto) == SubSeq(s, from, Min({upto, Len(s)}))

\* listDocuments: one row more than the page tells whether there are more.
Answer(scope, offset) ==
    LET limited == Slice(Listed(scope), offset + 1, offset + PageSize + 1)
    IN [at |-> "answered", offset |-> offset, epoch |-> epoch,
        rows |-> Slice(limited, 1, PageSize), more |-> Len(limited) > PageSize]

\* A page that is shown: its rows, the epochs they were read in, and whether
\* a page was on its way when the first one was replaced.
Shown(scope, page, raced) ==
    [scope |-> scope, rows |-> page.rows, more |-> page.more,
     epochs |-> {page.epoch}, raced |-> raced]

Init ==
    /\ order = SetToSeq(Docs) /\ kind \in [Docs -> Kinds] /\ version = [d \in Docs |-> 1]
    /\ org \in {"none"} \cup {kind[d].org : d \in Docs} /\ epoch = 0
    /\ list = Shown("workspace", Answer("workspace", 0), FALSE)
    /\ load = None /\ refresh = None /\ dialog = Closed /\ renames = 0 /\ blind = {}

Others == epoch < MaxChanges + renames /\ epoch' = epoch + 1
Without(d) == Keep(order, Docs \ {d})
First(d) == <<d>> \o Without(d)

\* Somebody saves a document's content, renames it, or removes it; an owner
\* changes what the user is granted; the user chooses another workspace.
OtherSaves(d) ==
    /\ Others /\ order' = First(d)
    /\ UNCHANGED <<kind, version, org, list, load, refresh, dialog, renames, blind>>

OtherRenames(d) ==
    /\ Others /\ order' = First(d) /\ version' = [version EXCEPT ![d] = @ + 1]
    /\ UNCHANGED <<kind, org, list, load, refresh, dialog, renames, blind>>

OtherRemoves(d) ==
    /\ Others /\ kind[d].owner # "user" /\ order' = Without(d)
    /\ UNCHANGED <<kind, version, org, list, load, refresh, dialog, renames, blind>>

OtherGrants(d, grant) ==
    /\ Others /\ kind[d].owner # "user" /\ kind[d].grant # grant
    /\ kind' = [kind EXCEPT ![d].grant = grant]
    /\ UNCHANGED <<order, version, org, list, load, refresh, dialog, renames, blind>>

ChooseOrg(o) ==
    /\ Others /\ o # org /\ org' = o
    /\ UNCHANGED <<order, kind, version, list, load, refresh, dialog, renames, blind>>

-----------------------------------------------------------------------------
(* The list.                                                               *)

\* A link to the other collection mounts a list of its own.
Go(scope) ==
    /\ scope # list.scope /\ list' = Shown(scope, Answer(scope, 0), FALSE)
    /\ load' = None /\ refresh' = None /\ dialog' = Closed
    /\ UNCHANGED <<server, renames, blind>>

\* loadMore: from as many rows as are shown.
\* Mutant: from the page after the one the rows fill.
OffsetByPage == PageSize * (1 + Len(list.rows) \div PageSize)
Offset == Len(list.rows)

LoadMore ==
    /\ load.at = "none" /\ list.more
    /\ load' = [None EXCEPT !.at = "asked", !.offset = Offset]
    /\ UNCHANGED <<server, list, refresh, dialog, renames, blind>>

ServeLoad ==
    /\ load.at = "asked" /\ load' = Answer(list.scope, load.offset)
    /\ UNCHANGED <<server, list, refresh, dialog, renames, blind>>

Loaded ==
    /\ load.at = "answered" /\ load' = None
    /\ list' = [list EXCEPT !.rows = @ \o load.rows, !.more = load.more,
                            !.epochs = @ \cup {load.epoch}]
    /\ UNCHANGED <<server, refresh, dialog, renames, blind>>

LoadFails ==
    /\ load.at # "none" /\ load' = None
    /\ UNCHANGED <<server, list, refresh, dialog, renames, blind>>

\* The window is focused or online again, or "Refresh documents".
Refresh ==
    /\ refresh.at = "none" /\ refresh' = [None EXCEPT !.at = "asked"]
    /\ UNCHANGED <<server, list, load, dialog, renames, blind>>

ServeRefresh ==
    /\ refresh.at = "asked" /\ refresh' = Answer(list.scope, 0)
    /\ UNCHANGED <<server, list, load, dialog, renames, blind>>

\* Fresh data replaces the rows; a page that is on its way stays on its way.
Adopt ==
    /\ refresh.at = "answered" /\ refresh' = None
    /\ list' = Shown(list.scope, refresh, load.at # "none")
    /\ UNCHANGED <<server, load, dialog, renames, blind>>

-----------------------------------------------------------------------------
(* A row's menu.                                                           *)

\* The rename dialog opens on what the row shows; the version that goes with
\* the save is the row's when it is pressed.
OpenRename(i) ==
    /\ dialog.at = "closed" /\ list.rows[i].role \in {"OWNER", "EDITOR"}
    /\ dialog' = [Closed EXCEPT !.at = "open", !.doc = list.rows[i].id, !.seen = list.rows[i].version]
    /\ UNCHANGED <<server, list, load, refresh, renames, blind>>

SaveRename(i) ==
    /\ dialog.at = "open" /\ list.rows[i].id = dialog.doc /\ renames < MaxRenames
    /\ dialog' = [dialog EXCEPT !.at = "saving", !.expected = list.rows[i].version]
    /\ renames' = renames + 1
    /\ UNCHANGED <<server, list, load, refresh, blind>>

Cancel ==
    /\ dialog.at = "open" /\ dialog' = Closed
    /\ UNCHANGED <<server, list, load, refresh, renames, blind>>

\* renameDocument: the capability, then the write under the expected version.
Accepts(d) ==
    /\ d \in Range(order) /\ Resolve(d) \in {"OWNER", "EDITOR"}
    /\ version[d] = dialog.expected

\* The dialog closes on every outcome, and the list is refreshed on success.
Rename ==
    LET d == dialog.doc
    IN /\ dialog.at = "saving" /\ dialog' = Closed
       /\ IF Accepts(d)
          THEN /\ order' = First(d) /\ version' = [version EXCEPT ![d] = @ + 1]
               /\ blind' = blind \cup {[replaced |-> version[d], seen |-> dialog.seen]}
               /\ refresh' = [None EXCEPT !.at = "asked"] /\ epoch' = epoch + 1
          ELSE UNCHANGED <<order, version, blind, refresh, epoch>>
       /\ UNCHANGED <<kind, org, list, load, renames>>

\* RemoveDialog: the document, then its row, then a fresh page.
RemoveDocument(i) ==
    LET d == list.rows[i].id
    IN /\ list.rows[i].role = "OWNER" /\ d \in Range(order) /\ Resolve(d) = "OWNER"
       /\ order' = Without(d) /\ epoch' = epoch + 1
       /\ list' = [list EXCEPT !.rows = Keep(@, {r \in Range(@) : r.id # d})]
       /\ refresh' = [None EXCEPT !.at = "asked"]
       /\ dialog' = IF dialog.doc = d THEN Closed ELSE dialog
       /\ UNCHANGED <<kind, version, org, load, renames, blind>>

Next ==
    \/ \E d \in Range(order) :
        \/ OtherSaves(d) \/ OtherRenames(d) \/ OtherRemoves(d)
        \/ \E grant \in {"none", "VIEWER"} : OtherGrants(d, grant)
    \/ \E o \in {"none", "team"} : ChooseOrg(o)
    \/ \E scope \in Scopes : Go(scope)
    \/ LoadMore \/ ServeLoad \/ Loaded \/ LoadFails
    \/ Refresh \/ ServeRefresh \/ Adopt
    \/ \E i \in DOMAIN list.rows : OpenRename(i) \/ SaveRename(i) \/ RemoveDocument(i)
    \/ Cancel \/ Rename

Spec == Init /\ [][Next]_vars

-----------------------------------------------------------------------------
(* Properties.                                                             *)

\* The list's statement and the authorization policy agree: what is listed
\* may be read, in the role that is listed, and what others let the user read
\* is in one of the two collections (listAccessible, resolveEffectiveRole).
ListFollowsPolicy ==
    \A d \in Range(order) :
        /\ \A scope \in Scopes : InScope(d, scope) => ListedRole(d) = Resolve(d)
        /\ kind[d].owner # "user" => (Resolve(d) # "none" <=> \E scope \in Scopes : InScope(d, scope))

Prefix == \/ list.epochs # {epoch} \/ load.at # "none"
          \/ /\ list.rows = Slice(Listed(list.scope), 1, Len(list.rows))
             /\ list.more <=> Len(list.rows) < Len(Listed(list.scope))

\* Unless a page was on its way when a fresh first page was adopted, the rows
\* of an unchanged server are the first ones, and the list ends where the
\* documents end (loadMore, listDocuments).
ListIsWhole == list.raced \/ Prefix

\* The same without the exception: what "End of results" says.
EndOfResults == Prefix

\* A rename replaces the title its user saw on opening the dialog (the
\* comment on RenameDialog).
RenameReplacesSeen == \A b \in blind : b.replaced = b.seen

\* The invariant.  A page that was read under the server's present state is a
\* part of the list, and a list of such pages is its beginning; the page that
\* is on its way then goes on where the rows end.
IsSeq(s) == s \in Seq({s[k] : k \in DOMAIN s})

All == Listed(list.scope)

PartOf(page, all, now) ==
    /\ page.offset \in Nat /\ page.epoch \in 0 .. now /\ IsSeq(page.rows)
    /\ page.epoch = now =>
        /\ page.rows = Slice(all, page.offset + 1, page.offset + PageSize)
        /\ page.more <=> Len(all) > page.offset + PageSize

Begins(view, asked, all) ==
    /\ view.rows = Slice(all, 1, Len(view.rows)) /\ Len(view.rows) <= Len(all)
    /\ view.more <=> Len(view.rows) < Len(all)
    /\ asked.at # "none" => asked.offset = Len(view.rows)

IsView(view) ==
    view = [scope |-> view.scope, rows |-> view.rows, more |-> view.more,
            epochs |-> view.epochs, raced |-> view.raced]

TypeOK ==
    /\ IsSeq(order) /\ epoch \in Nat
    /\ IsView(list) /\ IsSeq(list.rows) /\ list.epochs \subseteq 0 .. epoch /\ list.epochs # {}
    /\ load.at \in {"none", "asked", "answered"} /\ load.offset \in Nat
    /\ refresh.at \in {"none", "asked", "answered"}

PagesInv ==
    /\ load.at = "answered" => PartOf(load, All, epoch)
    /\ refresh.at = "answered" => PartOf(refresh, All, epoch) /\ refresh.offset = 0

RowsInv == ~list.raced /\ list.epochs = {epoch} => Begins(list, load, All)

ListInv == TypeOK /\ PagesInv /\ RowsInv
=============================================================================
