---------------------------- MODULE DocumentPage ----------------------------
(* Browser tabs with an open document, over the services of ControlPlane:     *)
(* the content mirror of documents without a CRDT session, the title field,   *)
(* the comment outbox in the localStorage that tabs of one account share,     *)
(* the suggestions panel, sharing, and the poll for role changes.  Responses  *)
(* get lost, tabs are closed and reloaded, peers edit the text meanwhile.     *)
EXTENDS ControlPlane, Sequences, SequencesExt

CONSTANTS
    Plans,        \* which parts of the page a behaviour uses, and its bounds
    OutboxLimit   \* MAX_OUTBOX_ITEMS

\* A tab belongs to one account.
ASSUME PlansAssumption == \A p \in Plans : p.user \in [Tabs -> Users]

VARIABLES
    plan,      \* the scenario
    tab,       \* per tab: what the components of the page hold in memory
    storage,   \* per user: the comment outbox in localStorage
    body,      \* the items of the text, as the synchronised editors show it
    applied,   \* replacements made for accepted suggestions
    made       \* counts of requests, keystrokes, losses, edits and reloads

pageVars == <<plan, tab, storage, body, applied, made>>
vars == <<serverVars, calls, pageVars>>

User(t) == plan.user[t]

\* Mirror: the whole-document save of provider.tsx.  base is the content the
\* version belongs to.
FreshMirror == [version |-> document.contentVersion, base |-> document.content,
                shown |-> document.content, pending |-> None, sending |-> None,
                timer |-> FALSE, halted |-> FALSE, status |-> "idle"]

FreshTitle == [seen |-> document.metadataVersion, base |-> document.title,
               prop |-> document.title, value |-> document.title, typed |-> None]

FreshOutbox == [queue |-> {}, attempted |-> {}, item |-> None,
                saved |-> FALSE, pc |-> "idle"]

FreshPanel == [pc |-> "idle", id |-> None, from |-> 0, to |-> 0]

\* page.tsx and the components as they mount; role is what the tab was told.
FreshTab(u) == [role |-> EffectiveRole(u), mirror |-> FreshMirror, title |-> FreshTitle,
                outbox |-> FreshOutbox, panel |-> FreshPanel]

-----------------------------------------------------------------------------
(* Requests *)

Uses(part) == part \in plan.parts
Within(counter) == made[counter] < plan.bound[counter]
Count(counter) == made' = [made EXCEPT ![counter] = @ + 1]

Send(t, op, arg) ==
    /\ Within("calls")
    /\ calls' = calls \cup {Request(made.calls, t, User(t), op, arg)}

\* The replies of op that wait for tab t.
Replies(t, ops) == {c \in calls : c.at = "done" /\ c.tab = t /\ c.op \in ops}

\* The connection of a request breaks: the caller sees a network failure, and
\* what the server has got of the request goes on without it.
Lose(c) ==
    /\ Within("losses") /\ Count("losses")
    /\ c.tab # None /\ c.status = 0
    /\ LET failed == [c EXCEPT !.at = "done"] IN
       \/ calls' = (calls \ {c}) \cup {failed, [c EXCEPT !.tab = None]}
       \/ c.at = "sent" /\ calls' = (calls \ {c}) \cup {failed}
    /\ UNCHANGED <<serverVars, plan, tab, storage, body, applied>>

\* The tab is closed and opened again: memory is lost, requests go on.
Reload(t) ==
    /\ Within("reloads") /\ Count("reloads")
    /\ document.exists /\ EffectiveRole(User(t)) # None
    /\ tab' = [tab EXCEPT ![t] = FreshTab(User(t))]
    /\ calls' = {IF c.tab = t THEN [c EXCEPT !.tab = None] ELSE c :
                    c \in {d \in calls : ~(d.tab = t /\ d.at = "done")}}
    /\ UNCHANGED <<serverVars, plan, storage, body, applied>>

-----------------------------------------------------------------------------
(* The content mirror *)

WithMirror(t, m) == tab' = [tab EXCEPT ![t].mirror = m]

\* saveContent: a keystroke, and the debounce timer.
Type(t) ==
    /\ Uses("content") /\ tab[t].role \in Editors
    /\ Within("typed") /\ Count("typed")
    /\ LET m == tab[t].mirror
           text == made.typed + 1
       IN  WithMirror(t, IF m.halted THEN [m EXCEPT !.shown = text]
                         ELSE [m EXCEPT !.shown = text, !.pending = text,
                                        !.status = "saving", !.timer = TRUE])
    /\ UNCHANGED <<serverVars, calls, plan, storage, body, applied>>

\* flush, from the timer or beforeunload: one save at a time.
Flush(t) ==
    /\ Uses("content")
    /\ LET m == tab[t].mirror IN
       /\ m.timer \/ m.pending # None
       /\ IF m.halted \/ m.pending = None \/ m.sending # None
          THEN /\ m.timer
               /\ WithMirror(t, [m EXCEPT !.timer = FALSE])
               /\ UNCHANGED <<calls, made>>
          ELSE /\ WithMirror(t, [m EXCEPT !.timer = FALSE, !.sending = m.pending])
               /\ Send(t, "save", [content |-> m.pending, expected |-> m.version,
                                   base |-> m.base])
               /\ Count("calls")
    /\ UNCHANGED <<serverVars, plan, storage, body, applied>>

\* Mutant: whatever is pending when the reply arrives counts as saved.
AfterSaveForgetful(m, c) ==
    CASE c.status = 200 ->
            [m EXCEPT !.version = c.value, !.base = m.sending, !.pending = None, !.status = "saved"]
      [] c.status = 409 -> [m EXCEPT !.halted = TRUE, !.pending = None, !.status = "conflict"]
      [] c.status \in {401, 403, 404} ->
            [m EXCEPT !.halted = TRUE, !.pending = None, !.status = "error"]
      [] OTHER -> [m EXCEPT !.status = "error"]

\* What the reply to a save means to the mirror.
AfterSave(m, c) ==
    CASE c.status = 200 ->
            LET newer == m.pending # m.sending IN
            [m EXCEPT !.version = c.value, !.base = m.sending,
                      !.pending = IF newer THEN @ ELSE None,
                      !.status = IF newer THEN "saving" ELSE "saved"]
      [] c.status = 409 -> [m EXCEPT !.halted = TRUE, !.pending = None, !.status = "conflict"]
      [] c.status \in {401, 403, 404} ->
            [m EXCEPT !.halted = TRUE, !.pending = None, !.status = "error"]
      [] OTHER -> [m EXCEPT !.status = "error"]

\* The rest of flush: what is still pending is tried again after two seconds.
SaveReplied(t) ==
    /\ \E c \in Replies(t, {"save"}) :
         /\ calls' = calls \ {c}
         /\ LET m == AfterSave(tab[t].mirror, c) IN
            WithMirror(t, [m EXCEPT !.sending = None,
                                    !.timer = @ \/ (m.pending # None /\ ~m.halted)])
    /\ UNCHANGED <<serverVars, plan, storage, body, applied, made>>

-----------------------------------------------------------------------------
(* The title field *)

WithTitle(t, x) == tab' = [tab EXCEPT ![t].title = x]

TypeTitle(t) ==
    /\ Uses("title") /\ tab[t].role \in Editors
    /\ Within("typed") /\ Count("typed")
    /\ WithTitle(t, [tab[t].title EXCEPT !.value = made.typed + 1, !.typed = made.typed + 1])
    /\ UNCHANGED <<serverVars, calls, plan, storage, body, applied>>

Rename(t, text) ==
    /\ Send(t, "rename", [title |-> text, expected |-> tab[t].title.seen,
                          base |-> tab[t].title.base])
    /\ Count("calls")

\* persistTitle, once typing has paused.
DebouncedRename(t) ==
    /\ Uses("title") /\ tab[t].title.typed # None
    /\ WithTitle(t, [tab[t].title EXCEPT !.typed = None])
    /\ IF tab[t].title.typed = tab[t].title.prop THEN UNCHANGED <<calls, made>>
       ELSE Rename(t, tab[t].title.typed)
    /\ UNCHANGED <<serverVars, plan, storage, body, applied>>

\* commitTitle: the form is submitted; a debounced call may still be due.
SubmitTitle(t) ==
    /\ Uses("title") /\ tab[t].role \in Editors
    /\ Rename(t, tab[t].title.value)
    /\ UNCHANGED <<serverVars, plan, tab, storage, body, applied>>

\* A success advances the version; router.refresh brings the stored title.
RenameReplied(t) ==
    /\ \E c \in Replies(t, {"rename"}) :
         /\ calls' = calls \ {c}
         /\ IF c.status = 200
            THEN WithTitle(t, [tab[t].title EXCEPT !.seen = c.value, !.base = c.arg.title,
                                                   !.prop = document.title])
            ELSE UNCHANGED tab
    /\ UNCHANGED <<serverVars, plan, storage, body, applied, made>>

-----------------------------------------------------------------------------
(* The comment outbox *)

\* updatePersistedItem; a full outbox refuses an item it does not hold.
Stored(u, item) ==
    IF item \notin storage[u] /\ Cardinality(storage[u]) >= OutboxLimit THEN storage[u]
    ELSE storage[u] \cup {item}

\* readCommentOutbox: the newest OutboxLimit.  Items are numbered in the order they
\* were written, which is the order of every queue.
ReadOutbox(u) == {i \in storage[u] : Cardinality({j \in storage[u] : j.id > i.id}) < OutboxLimit}

\* The loop of flushOutbox up to its next await: the first item not yet tried,
\* then a refresh if something was saved.
NextAttempt(o) ==
    LET left == {i \in o.queue : i.id \notin o.attempted} IN
    IF left # {}
    THEN LET first == CHOOSE i \in left : \A j \in left : i.id <= j.id IN
         [o EXCEPT !.pc = "sending", !.item = first, !.attempted = @ \cup {first.id}]
    ELSE [o EXCEPT !.pc = IF o.saved THEN "refreshing" ELSE "idle", !.item = None]

Restarted(o) == NextAttempt([o EXCEPT !.attempted = {}, !.saved = FALSE])

WithOutbox(t, o) == tab' = [tab EXCEPT ![t].outbox = o]

\* The outbox of t becomes o, and what o waits for is requested.
Await(t, o) ==
    /\ WithOutbox(t, o)
    /\ CASE o.pc = "sending" ->
              Send(t, o.item.kind, [message |-> o.item.id, thread |-> o.item.thread])
         [] o.pc = "refreshing" -> Send(t, "list", None)
         [] OTHER -> UNCHANGED calls
    /\ IF o.pc = "idle" THEN UNCHANGED made ELSE Count("calls")

\* The panel mounts, or the browser comes online, or Retry is clicked.
MountPanel(t) ==
    /\ Uses("comments") /\ tab[t].outbox.pc = "idle"
    /\ ReadOutbox(User(t)) # {}
    /\ Await(t, Restarted([tab[t].outbox EXCEPT !.queue = ReadOutbox(User(t))]))
    /\ UNCHANGED <<serverVars, plan, storage, body, applied>>

RetryOutbox(t) ==
    /\ Uses("comments") /\ tab[t].outbox.pc = "idle" /\ tab[t].outbox.queue # {}
    /\ Await(t, Restarted(tab[t].outbox))
    /\ UNCHANGED <<serverVars, plan, storage, body, applied>>

\* createThread and createReply: the item is in localStorage before anything is
\* sent; a flush that is under way picks it up if it has not left its loop.
Write(t, kind, thread) ==
    /\ Uses("comments") /\ tab[t].role \in Capabilities["comment"]
    /\ Within("items")
    /\ LET item == [id |-> made.items + 1, kind |-> kind, thread |-> thread]
           o == [tab[t].outbox EXCEPT !.queue = @ \cup {item}]
       IN  /\ item \in Stored(User(t), item)
           /\ storage' = [storage EXCEPT ![User(t)] = Stored(User(t), item)]
           /\ LET next == IF o.pc = "idle" THEN Restarted(o) ELSE o IN
              /\ WithOutbox(t, next)
              /\ IF o.pc = "idle"
                 THEN Send(t, next.item.kind, [message |-> next.item.id, thread |-> next.item.thread])
                 ELSE UNCHANGED calls
              /\ made' = [made EXCEPT !.items = @ + 1,
                                      !.calls = @ + (IF o.pc = "idle" THEN 1 ELSE 0)]
    /\ UNCHANGED <<serverVars, plan, body, applied>>

WriteThread(t) == Write(t, "thread", made.items + 1)

WriteReply(t) == \E x \in DOMAIN threads : Write(t, "reply", x)

\* Mutant: an item is given up when its delivery fails.
KeptAfterDropped(u, item, ok) == storage[u] \ {item}

\* What the reply leaves in localStorage: a failed item is written again.
KeptAfter(u, item, ok) == IF ok THEN storage[u] \ {item} ELSE Stored(u, item)

\* One round of the loop ends.
ItemReplied(t) ==
    /\ \E c \in Replies(t, {"thread", "reply"}) :
         LET o == tab[t].outbox
             ok == c.status = 200
             after == IF ok THEN [o EXCEPT !.saved = TRUE,
                                           !.queue = @ \ {o.item}]
                      ELSE o
             next == NextAttempt(after)
         IN  /\ storage' = [storage EXCEPT ![User(t)] = KeptAfter(User(t), o.item, ok)]
             /\ WithOutbox(t, next)
             /\ next.pc # "idle" => Within("calls")
             /\ calls' = (calls \ {c}) \cup
                   (CASE next.pc = "sending" ->
                            {Request(made.calls, t, User(t), next.item.kind,
                                     [message |-> next.item.id, thread |-> next.item.thread])}
                      [] next.pc = "refreshing" ->
                            {Request(made.calls, t, User(t), "list", None)}
                      [] OTHER -> {})
             /\ IF next.pc = "idle" THEN UNCHANGED made ELSE Count("calls")
    /\ UNCHANGED <<serverVars, plan, body, applied>>

\* The refresh is over, well or not.
Refreshed(t) ==
    /\ \E c \in Replies(t, {"list"}) : calls' = calls \ {c}
    /\ WithOutbox(t, [tab[t].outbox EXCEPT !.pc = "idle"])
    /\ UNCHANGED <<serverVars, plan, storage, body, applied, made>>

\* setThreadStatus
ChangeStatus(t) ==
    /\ Uses("comments") /\ tab[t].role \in Editors
    /\ \E x \in DOMAIN threads :
          Send(t, "status", [thread |-> x,
                             status |-> IF threads[x].status = "open" THEN "resolved" ELSE "open"])
    /\ Count("calls")
    /\ UNCHANGED <<serverVars, plan, tab, storage, body, applied>>

-----------------------------------------------------------------------------
(* The suggestions panel.  An item of the text stands for its CRDT identity;  *)
(* the item at position i lies between the editor positions i and i + 1.      *)

WithPanel(t, p) == tab' = [tab EXCEPT ![t].panel = p]

\* resolveFromItems: the range of the anchor in the text as it is, <<0, 0>> if an
\* end of it was deleted.
Attached(anchor) ==
    IF anchor.first \in Range(body) /\ anchor.last \in Range(body)
    THEN LET at(x) == CHOOSE i \in DOMAIN body : body[i] = x IN <<at(anchor.first), at(anchor.last) + 1>>
    ELSE <<0, 0>>

\* propose: the selection is never empty.
Propose(t) ==
    /\ Uses("suggestions") /\ tab[t].role \in Capabilities["comment"]
    /\ tab[t].panel.pc = "idle" /\ Within("proposed")
    /\ \E i, j \in DOMAIN body :
         /\ i <= j
         /\ Send(t, "propose", [id |-> made.proposed + 1,
                                anchor |-> [first |-> body[i], last |-> body[j]]])
    /\ WithPanel(t, [tab[t].panel EXCEPT !.pc = "proposing"])
    /\ made' = [made EXCEPT !.proposed = @ + 1, !.calls = @ + 1]
    /\ UNCHANGED <<serverVars, plan, storage, body, applied>>

Resolve(t, x, action, panel) ==
    /\ Send(t, "resolve", [id |-> x, action |-> action])
    /\ Count("calls")
    /\ WithPanel(t, panel)

\* resolveSuggestion up to its first request.  The list on the screen may be old:
\* a suggestion it shows as proposed can be resolved by now.
Accept(t) ==
    /\ Uses("suggestions") /\ tab[t].role \in Editors /\ tab[t].panel.pc = "idle"
    /\ \E x \in DOMAIN suggestions :
         LET range == Attached(suggestions[x].anchor) IN
         IF range = <<0, 0>>
         THEN Resolve(t, x, "discharge", [tab[t].panel EXCEPT !.pc = "closing"])
         ELSE Resolve(t, x, "accept", [pc |-> "accepting", id |-> x,
                                       from |-> range[1], to |-> range[2]])
    /\ UNCHANGED <<serverVars, plan, storage, body, applied>>

Decline(t) ==
    /\ Uses("suggestions") /\ tab[t].panel.pc = "idle"
    /\ \E x \in DOMAIN suggestions, action \in {"reject", "discharge"} :
         Resolve(t, x, action, [tab[t].panel EXCEPT !.pc = "closing"])
    /\ UNCHANGED <<serverVars, plan, storage, body, applied>>

\* applyReplacement at the positions of panel p, an ordinary edit of the text.
Replaced(p) ==
    SubSeq(body, 1, p.from - 1) \o <<100 + p.id>> \o SubSeq(body, p.to, Len(body))

\* The answer to an accept: the positions are those from before the request.  An
\* edit that throws asks for a discharge.
AcceptReplied(t) ==
    LET p == tab[t].panel IN
    /\ p.pc = "accepting"
    /\ \E c \in Replies(t, {"resolve"}) :
         IF c.status # 200
         THEN /\ calls' = calls \ {c}
              /\ WithPanel(t, FreshPanel)
              /\ UNCHANGED <<body, applied, made>>
         ELSE IF tab[t].role \in Editors /\ p.to <= Len(body) + 1
         THEN /\ calls' = calls \ {c}
              /\ WithPanel(t, FreshPanel)
              /\ body' = Replaced(p)
              /\ applied' = applied \cup {p.id}
              /\ UNCHANGED made
         ELSE /\ Within("calls") /\ Count("calls")
              /\ calls' = (calls \ {c}) \cup
                    {Request(made.calls, t, User(t), "resolve", [id |-> p.id, action |-> "discharge"])}
              /\ WithPanel(t, [p EXCEPT !.pc = "closing"])
              /\ UNCHANGED <<body, applied>>
    /\ UNCHANGED <<serverVars, plan, storage>>

\* The other replies only end the work; that of a failed discharge is ignored.
PanelReplied(t) ==
    /\ tab[t].panel.pc \in {"proposing", "closing"}
    /\ \E c \in Replies(t, {"propose", "resolve"}) : calls' = calls \ {c}
    /\ WithPanel(t, FreshPanel)
    /\ UNCHANGED <<serverVars, plan, storage, body, applied, made>>

\* Another editor's edit arrives: a new item, or one item less.
PeerEdit ==
    /\ Uses("suggestions") /\ Within("edits") /\ Count("edits")
    /\ \/ \E i \in 0..Len(body) : body' = InsertAt(body, i + 1, 50 + made.edits)
       \/ \E i \in DOMAIN body : body' = RemoveAt(body, i)
    /\ UNCHANGED <<serverVars, calls, plan, tab, storage, applied>>

-----------------------------------------------------------------------------
(* Sharing, and the role the page believes it has *)

\* mutate of the sharing panel, and the delete of the document menu: one at a time.
Manage(t) ==
    /\ Uses("sharing") /\ tab[t].role = "OWNER"
    /\ ~\E c \in calls : c.tab = t /\ c.op \in {"grant", "revoke", "delete"}
    /\ \/ \E u \in Users \ {Owner}, role \in {"EDITOR", "VIEWER"} :
            Send(t, "grant", [user |-> u, role |-> role])
       \/ \E u \in Users \ {Owner} : Send(t, "revoke", [user |-> u])
       \/ Send(t, "delete", None)
    /\ Count("calls")
    /\ UNCHANGED <<serverVars, plan, tab, storage, body, applied>>

\* Replies that change nothing the page keeps.
Acknowledged(t) ==
    /\ \E c \in Replies(t, {"grant", "revoke", "delete", "status"}) : calls' = calls \ {c}
    /\ UNCHANGED <<serverVars, pageVars>>

\* check, every ten seconds and on focus; the owner does not ask.
Poll(t) ==
    /\ Uses("sharing") /\ tab[t].role \notin {"OWNER", None}
    /\ ~\E c \in calls : c.tab = t /\ c.op = "sharing"
    /\ Send(t, "sharing", None) /\ Count("calls")
    /\ UNCHANGED <<serverVars, plan, tab, storage, body, applied>>

\* A role that changed reloads the page's data; without one the page is not found.
PollReplied(t) ==
    /\ \E c \in Replies(t, {"sharing"}) :
         /\ calls' = calls \ {c}
         /\ IF c.status = 404 \/ (c.status = 200 /\ c.role # tab[t].role)
            THEN tab' = [tab EXCEPT ![t].title.prop = document.title, ![t].role =
                            IF document.exists THEN EffectiveRole(User(t)) ELSE None]
            ELSE UNCHANGED tab
    /\ UNCHANGED <<serverVars, plan, storage, body, applied, made>>

-----------------------------------------------------------------------------
Counters == {"calls", "typed", "losses", "reloads", "items", "proposed", "edits"}

Init ==
    /\ plan \in Plans
    /\ ServerInit(plan.grants)
    /\ tab = [t \in Tabs |-> FreshTab(User(t))]
    /\ storage = [u \in Users |-> {}]
    /\ body = <<1, 2>> /\ applied = {}
    /\ made = [counter \in Counters |-> 0]

Next ==
    \/ ServerStep /\ UNCHANGED pageVars
    \/ \E c \in calls : Lose(c)
    \/ PeerEdit
    \/ \E t \in Tabs :
         \/ Reload(t)
         \/ Type(t) \/ Flush(t) \/ SaveReplied(t)
         \/ TypeTitle(t) \/ DebouncedRename(t) \/ SubmitTitle(t) \/ RenameReplied(t)
         \/ MountPanel(t) \/ RetryOutbox(t) \/ WriteThread(t) \/ WriteReply(t)
         \/ ItemReplied(t) \/ Refreshed(t) \/ ChangeStatus(t)
         \/ Propose(t) \/ Accept(t) \/ Decline(t) \/ AcceptReplied(t) \/ PanelReplied(t)
         \/ Manage(t) \/ Acknowledged(t) \/ Poll(t) \/ PollReplied(t)

Spec == Init /\ [][Next]_vars

-----------------------------------------------------------------------------
(* Properties *)

\* The stored text and title are replaced only by a call whose writer had seen
\* exactly what it replaces: neither another tab's save nor a rename is
\* overwritten unseen, however old the version a tab holds (services/documents.ts,
\* saveDocumentContent and renameDocument).
Knowing ==
    \A c \in calls : c \notin calls' /\ c.at = "checked" =>
        /\ c.op = "save" /\ document'.content # document.content => c.arg.base = document.content
        /\ c.op = "rename" /\ document'.title # document.title => c.arg.base = document.title

NoBlindOverwrite == [][Knowing]_vars

\* A tab that reports its text as saved, with nothing due, shows what it stored
\* last: no keystroke typed during a save is taken for saved (provider.tsx flush).
SavedIsHonest ==
    \A t \in Tabs : LET m == tab[t].mirror IN
        m.status = "saved" => m.shown = m.base

\* A comment its author was shown as written is in the account's outbox or in
\* the database, whatever was lost, reloaded, refused or resolved in between
\* (comments-panel.tsx flushOutbox, outbox.ts, services/comments.ts).
CommentKept ==
    Uses("comments") /\ document.exists =>
        \A n \in 1..made.items :
            \/ \E u \in Users : \E i \in storage[u] : i.id = n
            \/ \E m \in messages : m.id = n

\* What was written into the text for a suggestion is on record as accepted,
\* whoever else resolved it meanwhile (suggestions-panel.tsx resolveSuggestion,
\* services/suggestions.ts resolve).
AppliedWasAccepted ==
    document.exists => \A x \in applied : suggestions[x].status = "accepted"

\* What the page shows as done is done: saved text is stored and an applied
\* suggestion is on record (provider.tsx, suggestions-panel.tsx).
PageIsHonest == SavedIsHonest /\ AppliedWasAccepted

\* suggestions-panel.tsx: "If the application fails, discharge so the record
\* never claims success."  A suggestion on record as accepted, with no work on it
\* left, was written into the text.
HonestRecord ==
    (\A t \in Tabs : tab[t].panel.pc = "idle") =>
        \A x \in DOMAIN suggestions : suggestions[x].status = "accepted" => x \in applied

-----------------------------------------------------------------------------
(* The inductive invariant behind the properties; DocumentPageProofs proves   *)
(* it for every plan.                                                         *)

IsItem(i) == i.id \in Nat /\ i.kind \in {"thread", "reply"}

IsTab(x) ==
    /\ x = [role |-> x.role, mirror |-> x.mirror, title |-> x.title, outbox |-> x.outbox,
            panel |-> x.panel]
    /\ LET m == x.mirror IN
       m = [version |-> m.version, base |-> m.base, shown |-> m.shown, pending |-> m.pending,
            sending |-> m.sending, timer |-> m.timer, halted |-> m.halted, status |-> m.status]
    /\ LET f == x.title IN
       f = [seen |-> f.seen, base |-> f.base, prop |-> f.prop, value |-> f.value, typed |-> f.typed]
    /\ LET o == x.outbox IN
       /\ o = [queue |-> o.queue, attempted |-> o.attempted, item |-> o.item, saved |-> o.saved,
               pc |-> o.pc]
       /\ \A i \in o.queue : IsItem(i)
    /\ x.panel = [pc |-> x.panel.pc, id |-> x.panel.id, from |-> x.panel.from, to |-> x.panel.to]

IsCall(c) ==
    /\ c = [n |-> c.n, tab |-> c.tab, by |-> c.by, op |-> c.op, arg |-> c.arg, at |-> c.at,
            role |-> c.role, status |-> c.status, value |-> c.value]
    /\ c.tab \in Tabs \cup {None}

IsRecords(f) ==
    /\ f = [x \in DOMAIN f |-> f[x]]
    /\ \A x \in DOMAIN f : f[x] = [by |-> f[x].by, status |-> f[x].status, anchor |-> f[x].anchor]

\* The database's and the page's records have their fields.
ServerTypeOK ==
    /\ document = [exists |-> document.exists, content |-> document.content,
                   contentVersion |-> document.contentVersion, title |-> document.title,
                   metadataVersion |-> document.metadataVersion]
    /\ document.contentVersion \in Nat /\ document.metadataVersion \in Nat
    /\ IsRecords(suggestions)

PageTypeOK ==
    /\ plan \in Plans /\ ServerTypeOK
    /\ \A c \in calls : IsCall(c)
    /\ tab = [t \in Tabs |-> tab[t]] /\ \A t \in Tabs : IsTab(tab[t])
    /\ storage = [u \in Users |-> storage[u]] /\ \A u \in Users : \A i \in storage[u] : IsItem(i)
    /\ made \in [Counters -> Nat]

\* Whoever holds a version holds the text that the version belongs to.
Current(version, text) ==
    /\ version \in Nat /\ version <= document.contentVersion
    /\ version = document.contentVersion => text = document.content

CurrentTitle(version, text) ==
    /\ version \in Nat /\ version <= document.metadataVersion
    /\ version = document.metadataVersion => text = document.title

\* What a request was told, and what it carries, agrees with the database.
Told(op, arg, value) ==
    /\ op = "save" => Current(value, arg.content)
    /\ op = "rename" => CurrentTitle(value, arg.title)
    /\ op \in {"thread", "reply"} /\ document.exists => \E m \in messages : m.id = arg.message
    /\ op = "resolve" /\ arg.action = "accept" /\ document.exists =>
          arg.id \in DOMAIN suggestions /\ suggestions[arg.id].status = "accepted"

CallInv(c) ==
    /\ c.at = "found" => c.op = "grant"
    /\ c.op = "save" => c.arg.content # None /\ Current(c.arg.expected, c.arg.base)
    /\ c.op = "rename" => CurrentTitle(c.arg.expected, c.arg.base)
    /\ c.at = "done" /\ c.status = 200 => Told(c.op, c.arg, c.value)

CallsInv == \A c \in calls : CallInv(c)

\* A component of the page has one request under way.
OneAtATime(t, ops) ==
    \A c, d \in calls : c.tab = t /\ d.tab = t /\ c.op \in ops /\ d.op \in ops => c = d

\* The mirror knows what its save carries, and its status what is still due.
MirrorInv(t) ==
    LET m == tab[t].mirror IN
    /\ Current(m.version, m.base)
    /\ m.status = "saved" => m.shown = m.base
    /\ m.halted => m.sending = None /\ m.status # "saved"
    /\ m.pending # None => m.shown = m.pending /\ ~m.halted
    /\ OneAtATime(t, {"save"})
    /\ \A c \in calls : c.tab = t /\ c.op = "save" => c.arg.content = m.sending

TitleInv(t) == CurrentTitle(tab[t].title.seen, tab[t].title.base)

\* The item on its way is the one the loop waits for.
BoxOps == {"thread", "reply", "list"}

OutboxInv(t) ==
    LET o == tab[t].outbox IN
    /\ OneAtATime(t, BoxOps)
    /\ \A c \in calls : c.tab = t /\ c.op \in BoxOps =>
          IF c.op = "list" THEN o.pc = "refreshing"
          ELSE o.pc = "sending" /\ IsItem(o.item) /\ c.arg.message = o.item.id

\* The panel waits for the answer about the suggestion it will apply.
PanelOps == {"propose", "resolve"}

PanelInv(t) ==
    LET p == tab[t].panel IN
    /\ OneAtATime(t, PanelOps)
    /\ \A c \in calls : c.tab = t /\ c.op \in PanelOps =>
          /\ p.pc # "idle"
          /\ p.pc = "accepting" =>
                c.op = "resolve" /\ c.arg.id = p.id /\ c.arg.action = "accept"

AppliedInv ==
    document.exists => \A x \in applied : x \in DOMAIN suggestions /\ suggestions[x].status = "accepted"

TabsInv == \A t \in Tabs : MirrorInv(t) /\ TitleInv(t) /\ OutboxInv(t) /\ PanelInv(t)

PageInv == PageTypeOK /\ CallsInv /\ TabsInv /\ AppliedInv /\ CommentKept
=============================================================================
