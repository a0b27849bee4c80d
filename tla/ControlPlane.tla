---------------------------- MODULE ControlPlane ----------------------------
(* The services behind the Next.js routes and server actions, for one         *)
(* document: content and title with optimistic versions, grants, comment      *)
(* threads, suggestions, and the audit events written with each change.       *)
(* A request is authorised first and runs its one transaction later; nothing  *)
(* holds the role, or the document, still in between.                         *)
EXTENDS Naturals, FiniteSets

CONSTANTS
    Users,      \* accounts
    Owner,      \* documents.owner_user_id
    Members,    \* users whose active organization is the document's
    Tabs,       \* browser tabs, the callers
    None        \* no role, no call, no text

ASSUME OwnerAssumption == Owner \in Users /\ Members \subseteq Users
ASSUME NoneAssumption == None \notin Nat /\ None \notin Tabs

VARIABLES
    document,     \* the documents row
    grants,       \* document_user_permissions, None for no row
    threads,      \* comment_threads: id -> author and status
    messages,     \* comment_messages
    suggestions,  \* document_suggestions: id -> author, anchor and status
    audit,        \* audit_events
    calls         \* requests between their sending and the handling of their reply

serverVars == <<document, grants, threads, messages, suggestions, audit>>

-----------------------------------------------------------------------------
(* Authorisation *)

Roles == {"OWNER", "EDITOR", "COMMENTER", "VIEWER"}
Editors == {"OWNER", "EDITOR"}

\* Owner, then the direct grant, then the organization.
EffectiveRole(u) ==
    IF u = Owner THEN "OWNER"
    ELSE IF grants[u] # None THEN grants[u]
    ELSE IF u \in Members THEN "EDITOR" ELSE None

Capabilities ==
    [read              |-> Roles,
     editContent       |-> Editors,
     rename            |-> Editors,
     delete            |-> {"OWNER"},
     managePermissions |-> {"OWNER"},
     comment           |-> Roles \ {"VIEWER"}]

\* The capability the handler of an operation asks for; without it the document
\* is as good as missing.
Needed(op) ==
    CASE op = "save"   -> "editContent"
      [] op = "rename" -> "rename"
      [] op = "delete" -> "delete"
      [] op \in {"grant", "revoke"} -> "managePermissions"
      [] OTHER         -> "read"

\* The roles that pass the second check, whose failure is a 403.
Admitted(op) ==
    CASE op \in {"thread", "reply", "propose"} -> Capabilities["comment"]
      [] op = "status" -> Editors
      [] OTHER         -> Roles

-----------------------------------------------------------------------------
(* Requests and replies *)

\* A request of a tab.  Of two requests with the same fields one is lost to the
\* caller: n tells them apart.  role is the role found, or the grant found.
Request(n, t, u, op, arg) ==
    [n |-> n, tab |-> t, by |-> u, op |-> op, arg |-> arg,
     at |-> "sent", role |-> None, status |-> 0, value |-> None]

\* The reply of c, for nobody if its connection was lost.
Reply(c, status, value) ==
    calls' = (calls \ {c}) \cup
             (IF c.tab = None THEN {}
              ELSE {[c EXCEPT !.at = "done", !.status = status, !.value = value]})

Fails(c, status) == Reply(c, status, None) /\ UNCHANGED serverVars

\* The status a route answers with for an error of its service.
ErrorStatus == [notFound |-> 404, forbidden |-> 403, conflict |-> 409, other |-> 500]

\* The event written in the transaction of c.
Audited(c, action) ==
    audit' = audit \cup {[n |-> c.n, by |-> c.by, action |-> action]}

\* requireAccess or getDocument, then the role check of the service.
Authorize(c) ==
    /\ c.at = "sent"
    /\ LET role == EffectiveRole(c.by) IN
       IF ~document.exists \/ role \notin Capabilities[Needed(c.op)] THEN Reply(c, ErrorStatus.notFound, None)
       ELSE IF role \notin Admitted(c.op) THEN Reply(c, ErrorStatus.forbidden, None)
       ELSE calls' = (calls \ {c}) \cup {[c EXCEPT !.at = "checked", !.role = role]}
    /\ UNCHANGED serverVars

Runs(c, op) == c.at = "checked" /\ c.op = op

-----------------------------------------------------------------------------
(* Documents *)

\* Mutant: the version is bumped but not compared.
MatchesAny(version, expected) == document.exists

\* The WHERE clause of the conditional updates.
Matches(version, expected) == document.exists /\ version = expected

\* A conditional update that changed no row.
Stale(c) == Fails(c, IF document.exists THEN ErrorStatus.conflict ELSE ErrorStatus.notFound)

\* updateContentConditional and renameConditional, the update itself.
UpdateContent(text) ==
    document' = [document EXCEPT !.content = text, !.contentVersion = @ + 1]

UpdateTitle(text) ==
    document' = [document EXCEPT !.title = text, !.metadataVersion = @ + 1]

SaveContent(c) ==
    /\ Runs(c, "save")
    /\ IF Matches(document.contentVersion, c.arg.expected)
       THEN /\ UpdateContent(c.arg.content)
            /\ Reply(c, 200, document.contentVersion + 1)
            /\ UNCHANGED <<grants, threads, messages, suggestions, audit>>
       ELSE Stale(c)

RenameDocument(c) ==
    /\ Runs(c, "rename")
    /\ IF Matches(document.metadataVersion, c.arg.expected)
       THEN /\ UpdateTitle(c.arg.title)
            /\ Audited(c, "document.rename")
            /\ Reply(c, 200, document.metadataVersion + 1)
            /\ UNCHANGED <<grants, threads, messages, suggestions>>
       ELSE Stale(c)

\* deleteById: the rows that refer to the document go with it, the audit events
\* stay.
DeleteById ==
    /\ document' = [document EXCEPT !.exists = FALSE]
    /\ grants' = [u \in Users |-> None]
    /\ threads' = <<>> /\ messages' = {} /\ suggestions' = <<>>

DeleteDocument(c) ==
    /\ Runs(c, "delete")
    /\ DeleteById
    /\ Audited(c, "document.delete")
    /\ Reply(c, 200, None)

\* getDocument, the lists and the sharing status: the role is in the reply.
ReadDocument(c) ==
    /\ c.at = "checked" /\ c.op \in {"list", "sharing"}
    /\ Reply(c, 200, None)
    /\ UNCHANGED serverVars

-----------------------------------------------------------------------------
(* Grants.  The existing row is read before the upsert, without a lock. *)

WriteGrant(u, role) == grants' = [grants EXCEPT ![u] = role]

FindGrant(c) ==
    /\ Runs(c, "grant")
    /\ calls' = (calls \ {c}) \cup {[c EXCEPT !.at = "found", !.role = grants[c.arg.user]]}
    /\ UNCHANGED serverVars

\* A document that is gone fails the foreign key.
UpsertGrant(c) ==
    /\ c.at = "found"
    /\ IF ~document.exists THEN Fails(c, ErrorStatus.other)
       ELSE /\ WriteGrant(c.arg.user, c.arg.role)
            /\ Audited(c, IF c.role = None THEN "document.permission.granted"
                          ELSE "document.permission.updated")
            /\ Reply(c, 200, None)
            /\ UNCHANGED <<document, threads, messages, suggestions>>

RevokePermission(c) ==
    /\ Runs(c, "revoke")
    /\ WriteGrant(c.arg.user, None)
    /\ IF grants[c.arg.user] # None THEN Audited(c, "document.permission.revoked")
       ELSE UNCHANGED audit
    /\ Reply(c, 200, None)
    /\ UNCHANGED <<document, threads, messages, suggestions>>

-----------------------------------------------------------------------------
(* Comments.  The identifiers come from the client and make retries safe. *)

Message(c) == [id |-> c.arg.message, thread |-> c.arg.thread, by |-> c.by]

\* findThread and findThreadForUpdate
Exists(c) == c.arg.thread \in DOMAIN threads

\* findMessage
Taken(c) == \E m \in messages : m.id = c.arg.message

\* The transaction of createThread; a concurrent retry waits for its insert.
CreateThread(c) ==
    /\ Runs(c, "thread")
    /\ CASE Exists(c) ->
              Fails(c, IF Message(c) \in messages /\ threads[c.arg.thread].by = c.by
                       THEN 200 ELSE ErrorStatus.conflict)
         [] ~Exists(c) /\ ~document.exists -> Fails(c, ErrorStatus.other)
         [] OTHER ->
              /\ threads' = [x \in DOMAIN threads \cup {c.arg.thread} |->
                                IF x = c.arg.thread THEN [by |-> c.by, status |-> "open"]
                                ELSE threads[x]]
              /\ messages' = messages \cup {Message(c)}
              /\ Audited(c, "document.comment.created")
              /\ Reply(c, 200, None)
              /\ UNCHANGED <<document, grants, suggestions>>

\* The transaction of addMessage, under the row lock of the thread: a retry of a
\* committed message succeeds whatever the thread has become.
AddMessage(c) ==
    /\ Runs(c, "reply")
    /\ CASE ~Exists(c) -> Fails(c, ErrorStatus.notFound)
         [] Exists(c) /\ Taken(c) ->
              Fails(c, IF Message(c) \in messages THEN 200 ELSE ErrorStatus.conflict)
         [] Exists(c) /\ ~Taken(c)
            /\ threads[c.arg.thread].status = "resolved" -> Fails(c, ErrorStatus.conflict)
         [] OTHER ->
              /\ messages' = messages \cup {Message(c)}
              /\ Audited(c, "document.comment.replied")
              /\ Reply(c, 200, None)
              /\ UNCHANGED <<document, grants, threads, suggestions>>

SetStatus(c) ==
    /\ Runs(c, "status")
    /\ CASE ~Exists(c) -> Fails(c, ErrorStatus.notFound)
         [] Exists(c) /\ threads[c.arg.thread].status = c.arg.status ->
              Fails(c, 200)
         [] OTHER ->
              /\ threads' = [threads EXCEPT ![c.arg.thread].status = c.arg.status]
              /\ Audited(c, "document.comment.resolved")
              /\ Reply(c, 200, None)
              /\ UNCHANGED <<document, grants, messages, suggestions>>

-----------------------------------------------------------------------------
(* Suggestions *)

\* create: the same identifier again is a duplicate, from someone else a conflict.
ProposeSuggestion(c) ==
    /\ Runs(c, "propose")
    /\ CASE c.arg.id \in DOMAIN suggestions ->
              Fails(c, IF suggestions[c.arg.id].by = c.by THEN 200 ELSE ErrorStatus.conflict)
         [] c.arg.id \notin DOMAIN suggestions /\ ~document.exists -> Fails(c, ErrorStatus.other)
         [] OTHER ->
              /\ suggestions' = [x \in DOMAIN suggestions \cup {c.arg.id} |->
                                    IF x = c.arg.id
                                    THEN [by |-> c.by, status |-> "proposed", anchor |-> c.arg.anchor]
                                    ELSE suggestions[x]]
              /\ Audited(c, "document.suggestion.created")
              /\ Reply(c, 200, None)
              /\ UNCHANGED <<document, grants, threads, messages>>

Outcome(action) ==
    CASE action = "accept" -> "accepted"
      [] action = "reject" -> "rejected"
      [] action = "discharge" -> "discharged"

\* What resolve answers without a change: a resolved suggestion stays as it is,
\* and only an editor accepts.  None when it goes ahead.
Refusal(c, s) ==
    IF s.status # "proposed" THEN IF s.status = Outcome(c.arg.action) THEN 200 ELSE 409
    ELSE IF c.role \in Editors \/ (c.arg.action # "accept" /\ s.by = c.by) THEN None
    ELSE 403

\* resolve, under the row lock of the suggestion.
ResolveSuggestion(c) ==
    /\ Runs(c, "resolve")
    /\ IF c.arg.id \notin DOMAIN suggestions THEN Fails(c, ErrorStatus.notFound)
       ELSE LET refusal == Refusal(c, suggestions[c.arg.id]) IN
            IF refusal # None THEN Fails(c, refusal)
            ELSE /\ suggestions' = [suggestions EXCEPT ![c.arg.id].status = Outcome(c.arg.action)]
                 /\ Audited(c, "document.suggestion.resolved")
                 /\ Reply(c, 200, None)
                 /\ UNCHANGED <<document, grants, threads, messages>>

-----------------------------------------------------------------------------
ServerStep ==
    \E c \in calls :
        \/ Authorize(c) \/ ReadDocument(c)
        \/ SaveContent(c) \/ RenameDocument(c) \/ DeleteDocument(c)
        \/ FindGrant(c) \/ UpsertGrant(c) \/ RevokePermission(c)
        \/ CreateThread(c) \/ AddMessage(c) \/ SetStatus(c)
        \/ ProposeSuggestion(c) \/ ResolveSuggestion(c)

\* The document as it was created, with the grants of G.
ServerInit(G) ==
    /\ document = [exists |-> TRUE, content |-> 0, contentVersion |-> 1,
                   title |-> 0, metadataVersion |-> 1]
    /\ grants = G
    /\ threads = <<>> /\ messages = {} /\ suggestions = <<>>
    /\ audit = {} /\ calls = {}
=============================================================================
