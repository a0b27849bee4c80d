------------------------- MODULE DocumentPageProofs -------------------------
(***************************************************************************)
(* Proofs about DocumentPage over ControlPlane, for every set of accounts  *)
(* and tabs, every outbox limit and every plan: PageInv is inductive, and  *)
(* the three properties of the page follow from it.                        *)
(***************************************************************************)
EXTENDS DocumentPage, WellFoundedInduction, TLAPS

USE OwnerAssumption, NoneAssumption, PlansAssumption

-----------------------------------------------------------------------------
(* What a step of a service does to what callers know *)

\* Texts and titles change with their versions only; while the document exists
\* messages stay and an accepted suggestion stays accepted.
ServerGrown ==
    /\ document'.contentVersion \in Nat /\ document'.contentVersion >= document.contentVersion
    /\ document'.contentVersion = document.contentVersion => document'.content = document.content
    /\ document'.metadataVersion \in Nat /\ document'.metadataVersion >= document.metadataVersion
    /\ document'.metadataVersion = document.metadataVersion => document'.title = document.title
    /\ document'.exists =>
          /\ document.exists /\ messages \subseteq messages'
          /\ \A x \in DOMAIN suggestions : suggestions[x].status = "accepted" =>
                x \in DOMAIN suggestions' /\ suggestions'[x].status = "accepted"

\* A step of the page leaves the database alone.
LEMMA GrownIdle ==
    ASSUME ServerTypeOK, UNCHANGED serverVars
    PROVE  ServerGrown /\ ServerTypeOK'
<1>1. UNCHANGED <<document, suggestions, messages>>
  BY DEF serverVars
<1>2. ServerTypeOK'
  BY <1>1 DEF ServerTypeOK, IsRecords
<1>3. ServerGrown
  BY <1>1 DEF ServerTypeOK, ServerGrown
<1> QED BY <1>2, <1>3

\* A version never comes to stand for another text.
LEMMA CurrentKept ==
    ASSUME ServerTypeOK, ServerGrown
    PROVE  /\ \A v, x : Current(v, x) => v \in Nat /\ v <= document'.contentVersion
                     /\ (v = document'.contentVersion => x = document'.content)
           /\ \A v, x : CurrentTitle(v, x) => v \in Nat /\ v <= document'.metadataVersion
                     /\ (v = document'.metadataVersion => x = document'.title)
BY DEF ServerTypeOK, ServerGrown, Current, CurrentTitle

\* What a reply told stays true.
LEMMA ToldKept ==
    ASSUME ServerTypeOK, ServerGrown, NEW op, NEW arg, NEW value, Told(op, arg, value)
    PROVE  Told(op, arg, value)'
<1>1. op = "save" => Current(value, arg.content)'
  BY CurrentKept DEF Told, Current
<1>2. op = "rename" => CurrentTitle(value, arg.title)'
  BY CurrentKept DEF Told, CurrentTitle
<1>3. op \in {"thread", "reply"} /\ document'.exists => \E m \in messages' : m.id = arg.message
  BY DEF Told, ServerGrown
<1>4. op = "resolve" /\ arg.action = "accept" /\ document'.exists =>
         arg.id \in DOMAIN suggestions' /\ suggestions'[arg.id].status = "accepted"
  BY DEF Told, ServerGrown
<1> QED BY <1>1, <1>2, <1>3, <1>4 DEF Told

\* A request and its reply stay in agreement with the database.
LEMMA CallKept ==
    ASSUME ServerTypeOK, ServerGrown, NEW c, CallInv(c)
    PROVE  CallInv(c)'
<1>1. c.op = "save" => c.arg.content # None /\ Current(c.arg.expected, c.arg.base)'
  BY CurrentKept DEF CallInv, Current
<1>2. c.op = "rename" => CurrentTitle(c.arg.expected, c.arg.base)'
  <2>1. c.op = "rename" => CurrentTitle(c.arg.expected, c.arg.base)
    BY DEF CallInv
  <2> QED BY <2>1, CurrentKept DEF CurrentTitle
<1>3. c.at = "done" /\ c.status = 200 => Told(c.op, c.arg, c.value)'
  BY ToldKept DEF CallInv
<1>4. c.at = "found" => c.op = "grant"
  BY DEF CallInv
<1> QED BY <1>1, <1>2, <1>3, <1>4 DEF CallInv

-----------------------------------------------------------------------------
(* Steps of the services *)

\* The request c goes on: what is left of it carries what it carried, and one of
\* the two at most is the caller's.
Served(c) ==
    \E R : /\ calls' = (calls \ {c}) \cup R
           /\ \A d \in R : /\ IsCall(d) /\ d.op = c.op /\ d.arg = c.arg /\ d.tab \in {c.tab, None}
                           /\ CallInv(d)'
           /\ \A d, e \in R : d.tab # None /\ e.tab # None => d = e

\* One request that goes on.
LEMMA OneServed ==
    ASSUME ServerTypeOK, ServerGrown, NEW c, IsCall(c), CallInv(c),
           NEW d, IsCall(d), d.op = c.op, d.arg = c.arg, d.tab = c.tab,
           d.at = "found" => d.op = "grant",
           d.at = "done" /\ d.status = 200 => Told(d.op, d.arg, d.value)',
           calls' = (calls \ {c}) \cup {d} \/ calls' = calls \ {c}
    PROVE  Served(c)
<1>1. CallInv(c)'
  BY CallKept
<1>2. CallInv(d)'
  BY <1>1 DEF CallInv
<1>3. CASE calls' = (calls \ {c}) \cup {d}
  BY <1>2, <1>3 DEF Served
<1>4. CASE calls' = calls \ {c}
  <2>1. PICK R : R = {}
    OBVIOUS
  <2>2. calls' = (calls \ {c}) \cup R /\ \A e \in R : FALSE
    BY <1>4, <2>1
  <2> QED BY <2>2 DEF Served
<1> QED BY <1>3, <1>4

\* The answer to c.
LEMMA ReplyServed ==
    ASSUME ServerTypeOK, ServerGrown, NEW c, IsCall(c), CallInv(c), NEW status, NEW value,
           Reply(c, status, value), status = 200 => Told(c.op, c.arg, value)'
    PROVE  Served(c)
<1>0. PICK d : d = [c EXCEPT !.at = "done", !.status = status, !.value = value]
  OBVIOUS
<1>1. /\ IsCall(d) /\ d.op = c.op /\ d.arg = c.arg /\ d.tab = c.tab
      /\ d.at = "done" /\ d.status = status /\ d.value = value
  BY <1>0 DEF IsCall
<1>2. calls' = (calls \ {c}) \cup {d} \/ calls' = calls \ {c}
  <2>1. CASE c.tab = None
    BY <2>1 DEF Reply
  <2>2. CASE c.tab # None
    BY <1>0, <2>2 DEF Reply
  <2> QED BY <2>1, <2>2
<1> QED BY <1>1, <1>2, OneServed

\* An error, or a success that changes nothing.
LEMMA FailServed ==
    ASSUME ServerTypeOK, NEW c, IsCall(c), CallInv(c), NEW status,
           Fails(c, status), status = 200 => Told(c.op, c.arg, None)
    PROVE  Served(c) /\ ServerGrown /\ ServerTypeOK'
<1>1. Reply(c, status, None) /\ ServerGrown /\ ServerTypeOK'
  BY GrownIdle DEF Fails
<1>2. status = 200 => Told(c.op, c.arg, None)'
  BY <1>1, ToldKept
<1> QED BY <1>1, <1>2, ReplyServed

\* The statuses of errors.
LEMMA Statuses ==
    /\ ErrorStatus.notFound = 404 /\ ErrorStatus.forbidden = 403
    /\ ErrorStatus.conflict = 409 /\ ErrorStatus.other = 500
BY DEF ErrorStatus

\* Authorisation, and the reads.
LEMMA AuthorizeServes ==
    ASSUME ServerTypeOK, NEW c \in calls, IsCall(c), CallInv(c), Authorize(c) \/ ReadDocument(c)
    PROVE  Served(c) /\ ServerGrown /\ ServerTypeOK'
<1>1. ServerGrown /\ ServerTypeOK'
  BY GrownIdle DEF Authorize, ReadDocument
<1>2. CASE Reply(c, 404, None) \/ Reply(c, 403, None)
  BY <1>1, <1>2, ReplyServed
<1>3. CASE ReadDocument(c)
  <2>1. c.op \in {"list", "sharing"} /\ Reply(c, 200, None)
    BY <1>3 DEF ReadDocument
  <2>2. Told(c.op, c.arg, None)'
    BY <2>1 DEF Told
  <2> QED BY <1>1, <2>1, <2>2, ReplyServed
<1>4. CASE \E role : calls' = (calls \ {c}) \cup {[c EXCEPT !.at = "checked", !.role = role]}
  <2>1. PICK role : calls' = (calls \ {c}) \cup {[c EXCEPT !.at = "checked", !.role = role]}
    BY <1>4
  <2>2. PICK d : d = [c EXCEPT !.at = "checked", !.role = role]
    OBVIOUS
  <2>3. IsCall(d) /\ d.op = c.op /\ d.arg = c.arg /\ d.tab = c.tab /\ d.at = "checked"
    BY <2>2 DEF IsCall
  <2> QED BY <1>1, <2>1, <2>2, <2>3, OneServed
<1> QED BY <1>2, <1>3, <1>4, Statuses DEF Authorize

\* The conditional updates of the text and of the title.
LEMMA UpdateServes ==
    ASSUME ServerTypeOK, NEW c \in calls, IsCall(c), CallInv(c), SaveContent(c) \/ RenameDocument(c)
    PROVE  Served(c) /\ ServerGrown /\ ServerTypeOK'
<1>1. CASE Stale(c)
  <2>1. Fails(c, 409) \/ Fails(c, 404)
    BY <1>1, Statuses DEF Stale
  <2> QED BY <2>1, FailServed
<1>2. CASE /\ SaveContent(c) /\ UpdateContent(c.arg.content)
           /\ Reply(c, 200, document.contentVersion + 1)
           /\ UNCHANGED <<grants, threads, messages, suggestions, audit>>
  <2>1. /\ document'.content = c.arg.content /\ document'.title = document.title
        /\ document'.contentVersion = document.contentVersion + 1
        /\ document'.metadataVersion = document.metadataVersion /\ document'.exists = document.exists
        /\ document' = [exists |-> document'.exists, content |-> document'.content,
                        contentVersion |-> document'.contentVersion, title |-> document'.title,
                        metadataVersion |-> document'.metadataVersion]
    BY <1>2 DEF ServerTypeOK, UpdateContent
  <2>2. ServerGrown /\ ServerTypeOK'
    BY <1>2, <2>1 DEF ServerGrown, ServerTypeOK, IsRecords
  <2>3. PICK v : v = document.contentVersion + 1
    OBVIOUS
  <2>4. c.op = "save" /\ Told(c.op, c.arg, v)'
    BY <1>2, <2>1, <2>2, <2>3 DEF SaveContent, Runs, Told, Current, ServerTypeOK
  <2> QED BY <1>2, <2>2, <2>3, <2>4, ReplyServed
<1>3. CASE /\ RenameDocument(c) /\ UpdateTitle(c.arg.title)
           /\ Reply(c, 200, document.metadataVersion + 1)
           /\ UNCHANGED <<grants, threads, messages, suggestions>>
  <2>1. /\ document'.content = document.content /\ document'.title = c.arg.title
        /\ document'.contentVersion = document.contentVersion
        /\ document'.metadataVersion = document.metadataVersion + 1
        /\ document'.exists = document.exists
        /\ document' = [exists |-> document'.exists, content |-> document'.content,
                        contentVersion |-> document'.contentVersion, title |-> document'.title,
                        metadataVersion |-> document'.metadataVersion]
    BY <1>3 DEF ServerTypeOK, UpdateTitle
  <2>2. ServerGrown /\ ServerTypeOK'
    BY <1>3, <2>1 DEF ServerGrown, ServerTypeOK, IsRecords
  <2>3. PICK v : v = document.metadataVersion + 1
    OBVIOUS
  <2>4. c.op = "rename" /\ Told(c.op, c.arg, v)'
    BY <1>3, <2>1, <2>2, <2>3 DEF RenameDocument, Runs, Told, CurrentTitle, ServerTypeOK
  <2> QED BY <1>3, <2>2, <2>3, <2>4, ReplyServed
<1> QED BY <1>1, <1>2, <1>3 DEF SaveContent, RenameDocument

\* The document is deleted: there is nothing left to say about it.
LEMMA DeleteServes ==
    ASSUME ServerTypeOK, NEW c \in calls, IsCall(c), CallInv(c), DeleteDocument(c)
    PROVE  Served(c) /\ ServerGrown /\ ServerTypeOK'
<1>1. /\ document' = [document EXCEPT !.exists = FALSE] /\ suggestions' = <<>>
      /\ c.op = "delete" /\ Reply(c, 200, None)
  BY DEF DeleteDocument, DeleteById, Runs
<1>2. /\ document'.content = document.content /\ document'.title = document.title
      /\ document'.contentVersion = document.contentVersion
      /\ document'.metadataVersion = document.metadataVersion /\ document'.exists = FALSE
      /\ document' = [exists |-> document'.exists, content |-> document'.content,
                      contentVersion |-> document'.contentVersion, title |-> document'.title,
                      metadataVersion |-> document'.metadataVersion]
  BY <1>1 DEF ServerTypeOK
<1>3. ServerGrown
  BY <1>2 DEF ServerTypeOK, ServerGrown
<1>4. IsRecords(suggestions)'
  BY <1>1 DEF IsRecords
<1>5. ServerTypeOK'
  BY <1>2, <1>4 DEF ServerTypeOK
<1>6. Told(c.op, c.arg, None)'
  BY <1>1 DEF Told
<1> QED BY <1>1, <1>3, <1>5, <1>6, ReplyServed

\* Sharing: no reply of it tells the caller anything that could go stale.
LEMMA GrantServes ==
    ASSUME ServerTypeOK, NEW c \in calls, IsCall(c), CallInv(c),
           FindGrant(c) \/ UpsertGrant(c) \/ RevokePermission(c)
    PROVE  Served(c) /\ ServerGrown /\ ServerTypeOK'
<1>1. c.op \in {"grant", "revoke"}
  BY DEF FindGrant, UpsertGrant, RevokePermission, Runs, CallInv
<1>2. Told(c.op, c.arg, None)
  BY <1>1 DEF Told
<1>3. CASE Fails(c, 500)
  BY <1>2, <1>3, FailServed
<1>4. CASE Reply(c, 200, None) /\ UNCHANGED <<document, threads, messages, suggestions>>
  <2>1. ServerTypeOK'
    BY <1>4 DEF ServerTypeOK, IsRecords
  <2>2. ServerGrown
    BY <1>4 DEF ServerTypeOK, ServerGrown
  <2>3. Told(c.op, c.arg, None)'
    BY <1>1 DEF Told
  <2> QED BY <1>4, <2>1, <2>2, <2>3, ReplyServed
<1>5. CASE FindGrant(c)
  <2>1. PICK d : d = [c EXCEPT !.at = "found", !.role = grants[c.arg.user]]
    OBVIOUS
  <2>2. IsCall(d) /\ d.op = c.op /\ d.arg = c.arg /\ d.tab = c.tab /\ d.at = "found"
    BY <2>1 DEF IsCall
  <2>3. calls' = (calls \ {c}) \cup {d} /\ c.op = "grant"
    BY <1>5, <2>1 DEF FindGrant, Runs
  <2>4. ServerGrown /\ ServerTypeOK'
    BY <1>5, GrownIdle DEF FindGrant
  <2> QED BY <2>2, <2>3, <2>4, OneServed
<1> QED BY <1>3, <1>4, <1>5, Statuses DEF UpsertGrant, RevokePermission

\* Comments: a success leaves the message in the database.
LEMMA CommentServes ==
    ASSUME ServerTypeOK, NEW c \in calls, IsCall(c), CallInv(c),
           CreateThread(c) \/ AddMessage(c) \/ SetStatus(c)
    PROVE  Served(c) /\ ServerGrown /\ ServerTypeOK'
<1>1. Message(c).id = c.arg.message
  BY DEF Message
<1>2. c.op \in {"thread", "reply", "status"}
  BY DEF CreateThread, AddMessage, SetStatus, Runs
<1>3. CASE Fails(c, 404) \/ Fails(c, 409) \/ Fails(c, 500)
  BY <1>3, FailServed
<1>4. CASE Fails(c, 200) /\ (Message(c) \in messages \/ c.op = "status")
  <2>1. Told(c.op, c.arg, None)
    BY <1>1, <1>2, <1>4 DEF Told
  <2> QED BY <1>4, <2>1, FailServed
<1>5. CASE /\ Reply(c, 200, None) /\ messages \subseteq messages'
           /\ Message(c) \in messages' \/ c.op = "status"
           /\ UNCHANGED <<document, suggestions>>
  <2>1. ServerTypeOK'
    BY <1>5 DEF ServerTypeOK, IsRecords
  <2>2. ServerGrown
    BY <1>5 DEF ServerTypeOK, ServerGrown
  <2>3. Told(c.op, c.arg, None)'
    BY <1>1, <1>2, <1>5 DEF Told
  <2> QED BY <1>5, <2>1, <2>2, <2>3, ReplyServed
<1>6. CASE CreateThread(c)
  <2>1. CASE Exists(c)
    BY <1>3, <1>4, <1>6, <2>1, Statuses DEF CreateThread
  <2>2. CASE ~Exists(c) /\ ~document.exists
    BY <1>3, <1>6, <2>2, Statuses DEF CreateThread
  <2>3. CASE ~Exists(c) /\ document.exists
    BY <1>5, <1>6, <2>3 DEF CreateThread
  <2> QED BY <2>1, <2>2, <2>3
<1>7. CASE AddMessage(c)
  <2>1. CASE ~Exists(c)
    BY <1>3, <1>7, <2>1, Statuses DEF AddMessage
  <2>2. CASE Exists(c) /\ Taken(c)
    BY <1>3, <1>4, <1>7, <2>2, Statuses DEF AddMessage
  <2>3. CASE Exists(c) /\ ~Taken(c) /\ threads[c.arg.thread].status = "resolved"
    BY <1>3, <1>7, <2>3, Statuses DEF AddMessage
  <2>4. CASE Exists(c) /\ ~Taken(c) /\ threads[c.arg.thread].status # "resolved"
    BY <1>5, <1>7, <2>4 DEF AddMessage
  <2> QED BY <2>1, <2>2, <2>3, <2>4
<1>8. CASE SetStatus(c)
  <2>0. c.op = "status"
    BY <1>8 DEF SetStatus, Runs
  <2>1. CASE ~Exists(c)
    BY <1>3, <1>8, <2>1, Statuses DEF SetStatus
  <2>2. CASE Exists(c) /\ threads[c.arg.thread].status = c.arg.status
    BY <1>4, <1>8, <2>0, <2>2 DEF SetStatus
  <2>3. CASE Exists(c) /\ threads[c.arg.thread].status # c.arg.status
    BY <1>5, <1>8, <2>0, <2>3 DEF SetStatus
  <2> QED BY <2>1, <2>2, <2>3
<1> QED BY <1>6, <1>7, <1>8

\* A new suggestion.
LEMMA ProposeServes ==
    ASSUME ServerTypeOK, NEW c \in calls, IsCall(c), CallInv(c), ProposeSuggestion(c)
    PROVE  Served(c) /\ ServerGrown /\ ServerTypeOK'
<1>1. c.op = "propose"
  BY DEF ProposeSuggestion, Runs
<1>2. Told(c.op, c.arg, None) /\ Told(c.op, c.arg, None)'
  BY <1>1 DEF Told
<1>3. CASE \E status : Fails(c, status)
  BY <1>2, <1>3, FailServed
<1>4. CASE /\ c.arg.id \notin DOMAIN suggestions
           /\ suggestions' = [x \in DOMAIN suggestions \cup {c.arg.id} |->
                                 IF x = c.arg.id
                                 THEN [by |-> c.by, status |-> "proposed", anchor |-> c.arg.anchor]
                                 ELSE suggestions[x]]
           /\ Reply(c, 200, None) /\ UNCHANGED <<document, messages>>
  <2>1. IsRecords(suggestions)'
    BY <1>4 DEF ServerTypeOK, IsRecords
  <2>2. \A x \in DOMAIN suggestions : x \in DOMAIN suggestions' /\ suggestions'[x] = suggestions[x]
    BY <1>4
  <2>3. ServerTypeOK'
    BY <1>4, <2>1 DEF ServerTypeOK
  <2>4. ServerGrown
    BY <1>4, <2>2 DEF ServerTypeOK, ServerGrown
  <2> QED BY <1>2, <1>4, <2>3, <2>4, ReplyServed
<1>5. CASE c.arg.id \in DOMAIN suggestions
  BY <1>3, <1>5 DEF ProposeSuggestion
<1>6. CASE c.arg.id \notin DOMAIN suggestions /\ ~document.exists
  BY <1>3, <1>6 DEF ProposeSuggestion
<1>7. CASE c.arg.id \notin DOMAIN suggestions /\ document.exists
  BY <1>4, <1>7 DEF ProposeSuggestion
<1> QED BY <1>5, <1>6, <1>7

\* A suggestion is resolved once, and a success tells the outcome on record.
LEMMA ResolveServes ==
    ASSUME ServerTypeOK, NEW c \in calls, IsCall(c), CallInv(c), ResolveSuggestion(c)
    PROVE  Served(c) /\ ServerGrown /\ ServerTypeOK'
<1>1. c.op = "resolve"
  BY DEF ResolveSuggestion, Runs
<1>2. CASE c.arg.id \notin DOMAIN suggestions
  <2>1. Fails(c, 404)
    BY <1>2, Statuses DEF ResolveSuggestion
  <2> QED BY <2>1, FailServed
<1> SUFFICES ASSUME c.arg.id \in DOMAIN suggestions
             PROVE  Served(c) /\ ServerGrown /\ ServerTypeOK'
  BY <1>2
<1>3. PICK s : s = suggestions[c.arg.id]
  OBVIOUS
<1>4. PICK r : r = Refusal(c, s)
  OBVIOUS
<1>5. /\ s.status # "proposed" => (r = 200 /\ s.status = Outcome(c.arg.action)) \/ r = 409
      /\ s.status = "proposed" => r \in {None, 403}
  BY <1>4 DEF Refusal
<1>6. c.arg.action = "accept" => Outcome(c.arg.action) = "accepted"
  BY DEF Outcome
<1>7. CASE r # None /\ r # 200
  <2>1. Fails(c, r)
    BY <1>3, <1>4, <1>7 DEF ResolveSuggestion
  <2> QED BY <1>7, <2>1, FailServed
<1>8. CASE r # None /\ r = 200
  <2>1. Fails(c, 200)
    BY <1>3, <1>4, <1>8 DEF ResolveSuggestion
  <2>2. s.status = Outcome(c.arg.action)
    BY <1>5, <1>8
  <2>3. Told(c.op, c.arg, None)
    BY <1>1, <1>3, <1>6, <2>2 DEF Told
  <2> QED BY <2>1, <2>3, FailServed
<1>9. CASE r = None
  <2>1. /\ suggestions' = [suggestions EXCEPT ![c.arg.id].status = Outcome(c.arg.action)]
        /\ Reply(c, 200, None) /\ UNCHANGED <<document, grants, threads, messages>>
    BY <1>3, <1>4, <1>9 DEF ResolveSuggestion
  <2>2. s.status = "proposed"
    BY <1>5, <1>9
  <2>3. DOMAIN suggestions' = DOMAIN suggestions
    BY <2>1 DEF ServerTypeOK, IsRecords
  <2>4. \A x \in DOMAIN suggestions : x # c.arg.id => suggestions'[x] = suggestions[x]
    BY <2>1 DEF ServerTypeOK, IsRecords
  <2>5. /\ suggestions'[c.arg.id].status = Outcome(c.arg.action)
        /\ suggestions'[c.arg.id] = [by |-> suggestions'[c.arg.id].by,
                                     status |-> suggestions'[c.arg.id].status,
                                     anchor |-> suggestions'[c.arg.id].anchor]
    BY <2>1 DEF ServerTypeOK, IsRecords
  <2>6. IsRecords(suggestions)'
    <3>1. suggestions' = [x \in DOMAIN suggestions' |-> suggestions'[x]]
      BY <2>1 DEF ServerTypeOK, IsRecords
    <3> QED BY <2>3, <2>4, <2>5, <3>1 DEF ServerTypeOK, IsRecords
  <2>7. ServerTypeOK'
    BY <2>1, <2>6 DEF ServerTypeOK
  <2>8. ServerGrown
    BY <1>3, <2>1, <2>2, <2>3, <2>4 DEF ServerTypeOK, ServerGrown
  <2>9. Told(c.op, c.arg, None)'
    BY <1>1, <1>6, <2>3, <2>5 DEF Told
  <2> QED BY <2>1, <2>7, <2>8, <2>9, ReplyServed
<1> QED BY <1>7, <1>8, <1>9

\* Every step of a service.
LEMMA ServerServes ==
    ASSUME PageTypeOK, CallsInv, ServerStep
    PROVE  \E c \in calls : Served(c) /\ ServerGrown /\ ServerTypeOK'
<1>1. ServerTypeOK /\ \A c \in calls : IsCall(c) /\ CallInv(c)
  BY DEF PageTypeOK, CallsInv
<1>2. PICK c \in calls :
        \/ Authorize(c) \/ ReadDocument(c)
        \/ SaveContent(c) \/ RenameDocument(c) \/ DeleteDocument(c)
        \/ FindGrant(c) \/ UpsertGrant(c) \/ RevokePermission(c)
        \/ CreateThread(c) \/ AddMessage(c) \/ SetStatus(c)
        \/ ProposeSuggestion(c) \/ ResolveSuggestion(c)
  BY DEF ServerStep
<1> QED BY <1>1, <1>2, AuthorizeServes, UpdateServes, DeleteServes, GrantServes, CommentServes,
           ProposeServes, ResolveServes

-----------------------------------------------------------------------------
(* What a step leaves of a tab *)

\* The requests of tab v for G are those it had, at most one if it had one.
Carried(v, G) ==
    /\ OneAtATime(v, G) => OneAtATime(v, G)'
    /\ \A d \in calls' : d.tab = v /\ d.op \in G =>
          \E c \in calls : c.tab = v /\ c.op = d.op /\ c.arg = d.arg

\* Requests that go, and requests of others.
LEMMA CarriedAway ==
    ASSUME NEW v, NEW G, \A d \in calls' : d.tab = v /\ d.op \in G => d \in calls
    PROVE  Carried(v, G)
BY DEF Carried, OneAtATime

\* A request that is served, or lost.
LEMMA CarriedOn ==
    ASSUME NEW c \in calls, Served(c), NEW v, v # None, NEW G
    PROVE  Carried(v, G)
<1>1. PICK R : /\ calls' = (calls \ {c}) \cup R
               /\ \A d \in R : d.op = c.op /\ d.arg = c.arg /\ d.tab \in {c.tab, None}
               /\ \A d, e \in R : d.tab # None /\ e.tab # None => d = e
  BY DEF Served
<1>2. ASSUME OneAtATime(v, G), NEW d \in calls', NEW e \in calls',
             d.tab = v, e.tab = v, d.op \in G, e.op \in G
      PROVE  d = e
  <2>1. CASE d \in calls /\ e \in calls
    BY <1>2, <2>1 DEF OneAtATime
  <2>2. CASE d \in R /\ e \in R
    BY <1>1, <1>2, <2>2
  <2>3. CASE d \in R /\ e \in calls \ {c}
    <3>1. c.tab = v /\ c.op \in G
      BY <1>1, <1>2, <2>3
    <3> QED BY <1>2, <2>3, <3>1 DEF OneAtATime
  <2>4. CASE e \in R /\ d \in calls \ {c}
    <3>1. c.tab = v /\ c.op \in G
      BY <1>1, <1>2, <2>4
    <3> QED BY <1>2, <2>4, <3>1 DEF OneAtATime
  <2> QED BY <1>1, <2>1, <2>2, <2>3, <2>4
<1>3. OneAtATime(v, G) => OneAtATime(v, G)'
  BY <1>2 DEF OneAtATime
<1>4. \A d \in calls' : d.tab = v /\ d.op \in G =>
         \E b \in calls : b.tab = v /\ b.op = d.op /\ b.arg = d.arg
  BY <1>1
<1> QED BY <1>3, <1>4 DEF Carried

\* The parts of a tab whose memory and requests are what they were.
LEMMA MirrorKept ==
    ASSUME ServerTypeOK, ServerGrown, NEW t, MirrorInv(t), tab'[t].mirror = tab[t].mirror,
           Carried(t, {"save"})
    PROVE  MirrorInv(t)'
<1>1. PICK m : m = tab[t].mirror
  OBVIOUS
<1>2. Current(m.version, m.base)'
  BY <1>1, CurrentKept DEF MirrorInv, Current
<1>3. /\ m.status = "saved" => m.shown = m.base
      /\ m.halted => m.sending = None /\ m.status # "saved"
      /\ m.pending # None => m.shown = m.pending /\ ~m.halted
  BY <1>1 DEF MirrorInv
<1>4. OneAtATime(t, {"save"})'
  BY DEF MirrorInv, Carried
<1>5. \A c \in calls' : c.tab = t /\ c.op = "save" => c.arg.content = m.sending
  BY <1>1 DEF MirrorInv, Carried
<1> QED BY <1>1, <1>2, <1>3, <1>4, <1>5 DEF MirrorInv

LEMMA TitleKept ==
    ASSUME ServerTypeOK, ServerGrown, NEW t, TitleInv(t),
           tab'[t].title.seen = tab[t].title.seen, tab'[t].title.base = tab[t].title.base
    PROVE  TitleInv(t)'
BY CurrentKept DEF TitleInv, CurrentTitle

LEMMA OutboxKept ==
    ASSUME NEW t, OutboxInv(t), tab'[t].outbox = tab[t].outbox, Carried(t, BoxOps)
    PROVE  OutboxInv(t)'
<1>1. OneAtATime(t, BoxOps)'
  BY DEF OutboxInv, Carried
<1>2. \A c \in calls' : c.tab = t /\ c.op \in BoxOps =>
         IF c.op = "list" THEN tab[t].outbox.pc = "refreshing"
         ELSE /\ tab[t].outbox.pc = "sending" /\ IsItem(tab[t].outbox.item)
              /\ c.arg.message = tab[t].outbox.item.id
  BY DEF OutboxInv, Carried
<1> QED BY <1>1, <1>2 DEF OutboxInv, IsItem, BoxOps

LEMMA PanelKept ==
    ASSUME NEW t, PanelInv(t), tab'[t].panel = tab[t].panel, Carried(t, PanelOps)
    PROVE  PanelInv(t)'
<1>1. OneAtATime(t, PanelOps)'
  BY DEF PanelInv, Carried
<1>2. \A c \in calls' : c.tab = t /\ c.op \in PanelOps =>
         /\ tab[t].panel.pc # "idle"
         /\ tab[t].panel.pc = "accepting" =>
               c.op = "resolve" /\ c.arg.id = tab[t].panel.id /\ c.arg.action = "accept"
  BY DEF PanelInv, Carried
<1> QED BY <1>1, <1>2 DEF PanelInv, PanelOps

\* What was written and what was applied stays on record.
LEMMA RecordKept ==
    ASSUME ServerTypeOK, ServerGrown, plan' = plan
    PROVE  /\ AppliedInv /\ applied' = applied => AppliedInv'
           /\ CommentKept /\ made'.items = made.items
              /\ (\A u \in Users : storage[u] \subseteq storage'[u]) => CommentKept'
<1>1. AppliedInv /\ applied' = applied => AppliedInv'
  BY DEF ServerGrown, AppliedInv
<1>2. ASSUME CommentKept, made'.items = made.items,
             \A u \in Users : storage[u] \subseteq storage'[u]
      PROVE  CommentKept'
  <2>1. ASSUME Uses("comments"), document'.exists, NEW n \in 1..made.items
        PROVE  \/ \E u \in Users : \E i \in storage'[u] : i.id = n
               \/ \E m \in messages' : m.id = n
    <3>1. \/ \E u \in Users : \E i \in storage[u] : i.id = n
          \/ \E m \in messages : m.id = n
      BY <1>2, <2>1 DEF CommentKept, ServerGrown
    <3>2. messages \subseteq messages'
      BY <2>1 DEF ServerGrown
    <3> QED BY <1>2, <3>1, <3>2
  <2> QED BY <1>2, <2>1 DEF CommentKept, Uses
<1> QED BY <1>1, <1>2

-----------------------------------------------------------------------------
(* Steps that leave every tab's memory alone *)

\* What is asked goes on, and nothing else of the page moves.
LEMMA SteadyKeepsPage ==
    ASSUME PageInv, ServerGrown, ServerTypeOK', UNCHANGED <<plan, tab, storage, applied>>,
           made' \in [Counters -> Nat], made'.items = made.items,
           \A d \in calls' : IsCall(d) /\ CallInv(d)',
           \A t \in Tabs : Carried(t, {"save"}) /\ Carried(t, BoxOps) /\ Carried(t, PanelOps)
    PROVE  PageInv'
<1>1. ServerTypeOK /\ PageTypeOK /\ TabsInv
  BY DEF PageInv, PageTypeOK
<1>2. PageTypeOK'
  BY <1>1 DEF PageTypeOK, IsCall, IsTab, IsItem
<1>3. CallsInv'
  BY DEF CallsInv
<1>4. AppliedInv' /\ CommentKept'
  BY <1>1, RecordKept DEF PageInv
<1>5. ASSUME NEW t \in Tabs
      PROVE  MirrorInv(t)' /\ TitleInv(t)' /\ OutboxInv(t)' /\ PanelInv(t)'
  <2>1. MirrorInv(t) /\ TitleInv(t) /\ OutboxInv(t) /\ PanelInv(t)
    BY <1>1 DEF TabsInv
  <2> QED BY <1>1, <2>1, MirrorKept, TitleKept, OutboxKept, PanelKept
<1>6. TabsInv'
  BY <1>5 DEF TabsInv
<1> QED BY <1>2, <1>3, <1>4, <1>6 DEF PageInv

\* A request is served or lost.
LEMMA ServedKeepsPage ==
    ASSUME PageInv, NEW c \in calls, Served(c), ServerGrown, ServerTypeOK',
           UNCHANGED <<plan, tab, storage, applied>>,
           made' \in [Counters -> Nat], made'.items = made.items
    PROVE  PageInv'
<1>1. ServerTypeOK /\ CallsInv /\ \A d \in calls : IsCall(d)
  BY DEF PageInv, PageTypeOK
<1>2. PICK R : calls' = (calls \ {c}) \cup R /\ \A d \in R : IsCall(d) /\ CallInv(d)'
  BY DEF Served
<1>3. \A d \in calls : CallInv(d)'
  BY <1>1, CallKept DEF CallsInv
<1>4. \A d \in calls' : IsCall(d) /\ CallInv(d)'
  BY <1>1, <1>2, <1>3
<1>5. \A t \in Tabs : Carried(t, {"save"}) /\ Carried(t, BoxOps) /\ Carried(t, PanelOps)
  BY CarriedOn
<1> QED BY <1>4, <1>5, SteadyKeepsPage

LEMMA ServerKeepsPage ==
    ASSUME PageInv, ServerStep, UNCHANGED pageVars
    PROVE  PageInv'
<1>1. PageTypeOK /\ CallsInv /\ made \in [Counters -> Nat]
  BY DEF PageInv, PageTypeOK
<1>2. PICK c \in calls : Served(c) /\ ServerGrown /\ ServerTypeOK'
  BY <1>1, ServerServes
<1> QED BY <1>1, <1>2, ServedKeepsPage DEF pageVars

\* A counter goes up by one.
LEMMA Counting ==
    ASSUME made \in [Counters -> Nat], NEW counter \in Counters, Count(counter)
    PROVE  /\ made' \in [Counters -> Nat]
           /\ counter # "items" => made'.items = made.items
BY DEF Count, Counters

\* A lost connection: the caller is told nothing, and the request may go on.
LEMMA LoseKeepsPage ==
    ASSUME PageInv, NEW c \in calls, Lose(c)
    PROVE  PageInv'
<1>1. ServerTypeOK /\ IsCall(c) /\ CallInv(c) /\ made \in [Counters -> Nat]
  BY DEF PageInv, PageTypeOK, CallsInv
<1>2. ServerGrown /\ ServerTypeOK'
  BY <1>1, GrownIdle DEF Lose
<1>3. PICK f : f = [c EXCEPT !.at = "done"]
  OBVIOUS
<1>4. PICK o : o = [c EXCEPT !.tab = None]
  OBVIOUS
<1>5. /\ IsCall(f) /\ f.op = c.op /\ f.arg = c.arg /\ f.tab = c.tab /\ f.at = "done"
      /\ f.status = c.status /\ c.status = 0
  BY <1>1, <1>3 DEF IsCall, Lose
<1>6. /\ IsCall(o) /\ o.op = c.op /\ o.arg = c.arg /\ o.tab = None /\ o.at = c.at
      /\ o.status = c.status
  BY <1>1, <1>4, <1>5 DEF IsCall
<1>7. CallInv(f) /\ CallInv(o)
  BY <1>1, <1>5, <1>6 DEF CallInv
<1>8. CallInv(f)' /\ CallInv(o)'
  BY <1>1, <1>2, <1>7, CallKept
<1>9. \/ calls' = (calls \ {c}) \cup {f, o}
      \/ calls' = (calls \ {c}) \cup {f}
  BY <1>3, <1>4 DEF Lose
<1>10. PICK R : calls' = (calls \ {c}) \cup R /\ R \subseteq {f, o}
  BY <1>9
<1>11. Served(c)
  <2>1. \A d \in R : /\ IsCall(d) /\ d.op = c.op /\ d.arg = c.arg /\ d.tab \in {c.tab, None}
                     /\ CallInv(d)'
    BY <1>5, <1>6, <1>8, <1>10
  <2>2. \A d, e \in R : d.tab # None /\ e.tab # None => d = e
    BY <1>6, <1>10
  <2> QED BY <1>10, <2>1, <2>2 DEF Served
<1>12. made' \in [Counters -> Nat] /\ made'.items = made.items
  BY <1>1, Counting DEF Lose, Counters
<1> QED BY <1>2, <1>11, <1>12, ServedKeepsPage DEF Lose

-----------------------------------------------------------------------------
(* Steps of one tab *)

\* The requests that are new are those of tab t for ops, and what became nobody's.
Called(t, ops) ==
    \A d \in calls' : \/ d \in calls
                      \/ IsCall(d) /\ CallInv(d) /\ (d.tab = None \/ (d.tab = t /\ d.op \in ops))

\* A step of tab t keeps the invariant if the parts it touches keep theirs.
LEMMA TabAction ==
    ASSUME PageInv, NEW t \in Tabs, UNCHANGED <<serverVars, plan>>,
           NEW ops, Called(t, ops),
           NEW x, IsTab(x), tab' = [tab EXCEPT ![t] = x],
           storage' = [u \in Users |-> storage'[u]],
           \A u \in Users : \A i \in storage'[u] : IsItem(i),
           made' \in [Counters -> Nat],
           MirrorInv(t)' \/ (x.mirror = tab[t].mirror /\ "save" \notin ops),
           TitleInv(t)' \/ (x.title.seen = tab[t].title.seen /\ x.title.base = tab[t].title.base),
           OutboxInv(t)' \/ (x.outbox = tab[t].outbox /\ ops \cap BoxOps = {}),
           PanelInv(t)' \/ (x.panel = tab[t].panel /\ ops \cap PanelOps = {}),
           AppliedInv', CommentKept'
    PROVE  PageInv'
<1>1. ServerTypeOK /\ PageTypeOK /\ CallsInv /\ TabsInv
  BY DEF PageInv, PageTypeOK
<1>2. ServerGrown /\ ServerTypeOK'
  BY <1>1, GrownIdle
<1>3. \A d \in calls' : IsCall(d) /\ CallInv(d)
  BY <1>1 DEF Called, CallsInv, PageTypeOK
<1>4. \A d \in calls' : CallInv(d)'
  <2>1. ASSUME NEW d, CallInv(d) PROVE CallInv(d)'
    BY <1>1, <1>2, <2>1, CallKept
  <2> QED BY <1>3, <2>1
<1>5. CallsInv'
  BY <1>4 DEF CallsInv
<1>6. /\ tab'[t] = x /\ \A v \in Tabs : v # t => tab'[v] = tab[v]
      /\ tab' = [v \in Tabs |-> tab'[v]]
  BY <1>1 DEF PageTypeOK
<1>7. \A v \in Tabs : IsTab(tab'[v])
  BY <1>1, <1>6 DEF PageTypeOK
<1>8. PageTypeOK'
  BY <1>1, <1>2, <1>3, <1>6, <1>7 DEF PageTypeOK, IsCall, IsTab, IsItem
<1>9. \A G : \A v \in Tabs : v # t \/ G \cap ops = {} => Carried(v, G)
  BY CarriedAway DEF Called
<1>10. ASSUME NEW v \in Tabs
       PROVE  MirrorInv(v)' /\ TitleInv(v)' /\ OutboxInv(v)' /\ PanelInv(v)'
  <2>1. MirrorInv(v) /\ TitleInv(v) /\ OutboxInv(v) /\ PanelInv(v)
    BY <1>1 DEF TabsInv
  <2>2. MirrorInv(v)'
    <3>1. tab'[v].mirror = tab[v].mirror /\ (v # t \/ {"save"} \cap ops = {}) => MirrorInv(v)'
      BY <1>1, <1>2, <1>9, <2>1, MirrorKept
    <3> QED BY <1>6, <3>1
  <2>3. TitleInv(v)'
    BY <1>1, <1>2, <1>6, <2>1, TitleKept
  <2>4. OutboxInv(v)'
    <3>1. tab'[v].outbox = tab[v].outbox /\ (v # t \/ BoxOps \cap ops = {}) => OutboxInv(v)'
      BY <1>9, <2>1, OutboxKept
    <3> QED BY <1>6, <3>1
  <2>5. PanelInv(v)'
    <3>1. tab'[v].panel = tab[v].panel /\ (v # t \/ PanelOps \cap ops = {}) => PanelInv(v)'
      BY <1>9, <2>1, PanelKept
    <3> QED BY <1>6, <3>1
  <2> QED BY <2>2, <2>3, <2>4, <2>5
<1>11. TabsInv'
  BY <1>10 DEF TabsInv
<1> QED BY <1>5, <1>8, <1>11 DEF PageInv

\* What has to be said of the records when a step leaves them alone.
LEMMA RecordsIdle ==
    ASSUME PageInv, UNCHANGED <<serverVars, plan>>
    PROVE  /\ applied' = applied => AppliedInv'
           /\ storage' = storage /\ made'.items = made.items => CommentKept'
           /\ storage' = storage => storage' = [u \in Users |-> storage'[u]]
           /\ storage' = storage => \A u \in Users : \A i \in storage'[u] : IsItem(i)
<1>1. ServerTypeOK /\ PageTypeOK /\ AppliedInv /\ CommentKept
  BY DEF PageInv, PageTypeOK
<1>2. ServerGrown
  BY <1>1, GrownIdle
<1>3. /\ applied' = applied => AppliedInv'
      /\ storage' = storage /\ made'.items = made.items => CommentKept'
  BY <1>1, <1>2, RecordKept
<1>4. /\ storage' = storage => storage' = [u \in Users |-> storage'[u]]
      /\ storage' = storage => \A u \in Users : \A i \in storage'[u] : IsItem(i)
  BY <1>1 DEF PageTypeOK
<1> QED BY <1>3, <1>4

\* Steps on one part of a tab.
LEMMA MirrorAction ==
    ASSUME PageInv, NEW t \in Tabs, UNCHANGED <<serverVars, plan, storage, applied>>,
           NEW m,
           m = [version |-> m.version, base |-> m.base, shown |-> m.shown, pending |-> m.pending,
                sending |-> m.sending, timer |-> m.timer, halted |-> m.halted,
                status |-> m.status],
           WithMirror(t, m), Called(t, {"save"}),
           made' \in [Counters -> Nat], made'.items = made.items,
           tab'[t].mirror = m => MirrorInv(t)'
    PROVE  PageInv'
<1>1. IsTab(tab[t]) /\ tab = [v \in Tabs |-> tab[v]]
  BY DEF PageInv, PageTypeOK
<1>2. PICK x : x = [tab[t] EXCEPT !.mirror = m]
  OBVIOUS
<1>3. /\ x.mirror = m /\ x.title = tab[t].title /\ x.outbox = tab[t].outbox
      /\ x.panel = tab[t].panel /\ x.role = tab[t].role
      /\ x = [role |-> x.role, mirror |-> x.mirror, title |-> x.title, outbox |-> x.outbox,
              panel |-> x.panel]
  BY <1>1, <1>2 DEF IsTab
<1>4. IsTab(x)
  BY <1>1, <1>3 DEF IsTab
<1>5. tab' = [tab EXCEPT ![t] = x] /\ tab'[t] = x
  BY <1>1, <1>2 DEF WithMirror
<1>6. MirrorInv(t)'
  BY <1>3, <1>5
<1>7. {"save"} \cap BoxOps = {} /\ {"save"} \cap PanelOps = {}
  BY DEF BoxOps, PanelOps
<1> QED BY <1>3, <1>4, <1>5, <1>6, <1>7, RecordsIdle, TabAction

LEMMA TitleAction ==
    ASSUME PageInv, NEW t \in Tabs, UNCHANGED <<serverVars, plan, storage, applied>>,
           NEW f,
           f = [seen |-> f.seen, base |-> f.base, prop |-> f.prop, value |-> f.value,
                typed |-> f.typed],
           WithTitle(t, f), Called(t, {"rename"}),
           made' \in [Counters -> Nat], made'.items = made.items,
           CurrentTitle(f.seen, f.base)
    PROVE  PageInv'
<1>1. ServerTypeOK /\ IsTab(tab[t]) /\ tab = [v \in Tabs |-> tab[v]]
  BY DEF PageInv, PageTypeOK
<1>2. PICK x : x = [tab[t] EXCEPT !.title = f]
  OBVIOUS
<1>3. /\ x.mirror = tab[t].mirror /\ x.title = f /\ x.outbox = tab[t].outbox
      /\ x.panel = tab[t].panel /\ x.role = tab[t].role
      /\ x = [role |-> x.role, mirror |-> x.mirror, title |-> x.title, outbox |-> x.outbox,
              panel |-> x.panel]
  BY <1>1, <1>2 DEF IsTab
<1>4. IsTab(x)
  BY <1>1, <1>3 DEF IsTab
<1>5. tab' = [tab EXCEPT ![t] = x] /\ tab'[t] = x
  BY <1>1, <1>2 DEF WithTitle
<1>6. TitleInv(t)'
  <2>1. document' = document
    BY DEF serverVars
  <2> QED BY <1>3, <1>5, <2>1 DEF TitleInv, CurrentTitle
<1>7. {"rename"} \cap BoxOps = {} /\ {"rename"} \cap PanelOps = {} /\ "save" \notin {"rename"}
  BY DEF BoxOps, PanelOps
<1> QED BY <1>3, <1>4, <1>5, <1>6, <1>7, RecordsIdle, TabAction

LEMMA OutboxAction ==
    ASSUME PageInv, NEW t \in Tabs, UNCHANGED <<serverVars, plan, applied>>,
           storage' = [u \in Users |-> storage'[u]],
           \A u \in Users : \A i \in storage'[u] : IsItem(i),
           NEW o,
           o = [queue |-> o.queue, attempted |-> o.attempted, item |-> o.item,
                saved |-> o.saved, pc |-> o.pc],
           \A i \in o.queue : IsItem(i),
           WithOutbox(t, o), Called(t, BoxOps),
           made' \in [Counters -> Nat], CommentKept',
           tab'[t].outbox = o => OutboxInv(t)'
    PROVE  PageInv'
<1>1. IsTab(tab[t]) /\ tab = [v \in Tabs |-> tab[v]]
  BY DEF PageInv, PageTypeOK
<1>2. PICK x : x = [tab[t] EXCEPT !.outbox = o]
  OBVIOUS
<1>3. /\ x.mirror = tab[t].mirror /\ x.title = tab[t].title /\ x.outbox = o
      /\ x.panel = tab[t].panel /\ x.role = tab[t].role
      /\ x = [role |-> x.role, mirror |-> x.mirror, title |-> x.title, outbox |-> x.outbox,
              panel |-> x.panel]
  BY <1>1, <1>2 DEF IsTab
<1>4. IsTab(x)
  BY <1>1, <1>3 DEF IsTab
<1>5. tab' = [tab EXCEPT ![t] = x] /\ tab'[t] = x
  BY <1>1, <1>2 DEF WithOutbox
<1>6. OutboxInv(t)'
  BY <1>3, <1>5
<1>7. BoxOps \cap PanelOps = {} /\ "save" \notin BoxOps
  BY DEF BoxOps, PanelOps
<1> QED BY <1>3, <1>4, <1>5, <1>6, <1>7, RecordsIdle, TabAction

LEMMA PanelAction ==
    ASSUME PageInv, NEW t \in Tabs, UNCHANGED <<serverVars, plan, storage>>,
           NEW p, p = [pc |-> p.pc, id |-> p.id, from |-> p.from, to |-> p.to],
           WithPanel(t, p), Called(t, PanelOps), AppliedInv',
           made' \in [Counters -> Nat], made'.items = made.items,
           tab'[t].panel = p => PanelInv(t)'
    PROVE  PageInv'
<1>1. IsTab(tab[t]) /\ tab = [v \in Tabs |-> tab[v]]
  BY DEF PageInv, PageTypeOK
<1>2. PICK x : x = [tab[t] EXCEPT !.panel = p]
  OBVIOUS
<1>3. /\ x.mirror = tab[t].mirror /\ x.title = tab[t].title /\ x.outbox = tab[t].outbox
      /\ x.panel = p /\ x.role = tab[t].role
      /\ x = [role |-> x.role, mirror |-> x.mirror, title |-> x.title, outbox |-> x.outbox,
              panel |-> x.panel]
  BY <1>1, <1>2 DEF IsTab
<1>4. IsTab(x)
  BY <1>1, <1>3 DEF IsTab
<1>5. tab' = [tab EXCEPT ![t] = x] /\ tab'[t] = x
  BY <1>1, <1>2 DEF WithPanel
<1>6. PanelInv(t)'
  BY <1>3, <1>5
<1>7. PanelOps \cap BoxOps = {} /\ "save" \notin PanelOps
  BY DEF BoxOps, PanelOps
<1> QED BY <1>3, <1>4, <1>5, <1>6, <1>7, RecordsIdle, TabAction

\* Steps that leave the memory of the tab alone, and its four parts without a
\* request of theirs.
LEMMA StillAction ==
    ASSUME PageInv, NEW t \in Tabs, UNCHANGED <<serverVars, plan, tab, storage, applied>>,
           NEW ops, Called(t, ops), ops \cap (BoxOps \cup PanelOps \cup {"save"}) = {},
           made' \in [Counters -> Nat], made'.items = made.items
    PROVE  PageInv'
<1>1. IsTab(tab[t]) /\ tab = [v \in Tabs |-> tab[v]]
  BY DEF PageInv, PageTypeOK
<1>2. PICK x : x = tab[t]
  OBVIOUS
<1>3. tab' = [tab EXCEPT ![t] = x] /\ IsTab(x)
  BY <1>1, <1>2
<1>4. "save" \notin ops /\ ops \cap BoxOps = {} /\ ops \cap PanelOps = {}
  OBVIOUS
<1> QED BY <1>2, <1>3, <1>4, RecordsIdle, TabAction

\* Another editor's edit.
LEMMA PeerEditKeepsPage ==
    ASSUME PageInv, PeerEdit
    PROVE  PageInv'
<1>1. ServerTypeOK /\ CallsInv /\ \A d \in calls : IsCall(d)
  BY DEF PageInv, PageTypeOK
<1>2. ServerGrown /\ ServerTypeOK'
  BY <1>1, GrownIdle DEF PeerEdit
<1>3. made' \in [Counters -> Nat] /\ made'.items = made.items
  BY Counting DEF PeerEdit, Counters, PageInv, PageTypeOK
<1>4. \A d \in calls : CallInv(d)'
  BY <1>1, <1>2, CallKept DEF CallsInv
<1>5. calls' = calls
  BY DEF PeerEdit
<1>6. \A t, G : Carried(t, G)
  BY <1>5, CarriedAway
<1> QED BY <1>1, <1>2, <1>3, <1>4, <1>5, <1>6, SteadyKeepsPage DEF PeerEdit

\* The facts of the invariant about one tab and one request.
LEMMA PageFacts ==
    ASSUME PageInv
    PROVE  /\ ServerTypeOK /\ made \in [Counters -> Nat] /\ plan \in Plans
           /\ tab = [t \in Tabs |-> tab[t]]
           /\ \A t \in Tabs : IsTab(tab[t]) /\ MirrorInv(t) /\ TitleInv(t) /\ OutboxInv(t) /\ PanelInv(t)
           /\ \A c \in calls : IsCall(c) /\ CallInv(c)
BY DEF PageInv, PageTypeOK, TabsInv, CallsInv

\* A request as it is sent.
LEMMA Requested ==
    ASSUME NEW t \in Tabs, NEW n, NEW u, NEW op, NEW arg,
           op = "save" => arg.content # None /\ Current(arg.expected, arg.base),
           op = "rename" => CurrentTitle(arg.expected, arg.base),
           NEW d, d = Request(n, t, u, op, arg)
    PROVE  IsCall(d) /\ CallInv(d) /\ d.tab = t /\ d.op = op /\ d.arg = arg
<1>1. /\ d.tab = t /\ d.op = op /\ d.arg = arg /\ d.at = "sent"
      /\ d = [n |-> d.n, tab |-> d.tab, by |-> d.by, op |-> d.op, arg |-> d.arg, at |-> d.at,
              role |-> d.role, status |-> d.status, value |-> d.value]
  BY DEF Request
<1> QED BY <1>1 DEF IsCall, CallInv

\* Requests that only go.
LEMMA Answered ==
    ASSUME calls' \subseteq calls, NEW t, NEW ops
    PROVE  Called(t, ops)
BY DEF Called

\* A request that joins the others.
LEMMA Asked ==
    ASSUME NEW t, NEW ops, NEW d, IsCall(d), CallInv(d), d.tab = t, d.op \in ops,
           calls' \subseteq calls \cup {d}
    PROVE  Called(t, ops)
BY DEF Called

-----------------------------------------------------------------------------
(* The content mirror *)

LEMMA TypeKeepsPage ==
    ASSUME PageInv, NEW t \in Tabs, Type(t)
    PROVE  PageInv'
<1>1. PICK m : m = tab[t].mirror
  OBVIOUS
<1>2. PICK n : n = IF m.halted THEN [m EXCEPT !.shown = made.typed + 1]
                   ELSE [m EXCEPT !.shown = made.typed + 1, !.pending = made.typed + 1,
                                  !.status = "saving", !.timer = TRUE]
  OBVIOUS
<1>3. m = [version |-> m.version, base |-> m.base, shown |-> m.shown, pending |-> m.pending,
           sending |-> m.sending, timer |-> m.timer, halted |-> m.halted, status |-> m.status]
  BY <1>1, PageFacts DEF IsTab
<1>4. n = [version |-> n.version, base |-> n.base, shown |-> n.shown, pending |-> n.pending,
           sending |-> n.sending, timer |-> n.timer, halted |-> n.halted, status |-> n.status]
  BY <1>2, <1>3
<1>5. /\ n.version = m.version /\ n.base = m.base /\ n.sending = m.sending /\ n.halted = m.halted
      /\ m.halted => n.pending = m.pending /\ n.status = m.status
      /\ ~m.halted => n.pending = n.shown /\ n.status = "saving"
  BY <1>2, <1>3
<1>6. WithMirror(t, n)
  BY <1>1, <1>2 DEF Type
<1>7. MirrorInv(t) /\ UNCHANGED <<document, calls>>
  BY PageFacts DEF Type, serverVars
<1>8. Current(n.version, n.base)'
  BY <1>1, <1>5, <1>7 DEF MirrorInv, Current
<1>9. OneAtATime(t, {"save"})'
  BY <1>7 DEF MirrorInv, OneAtATime
<1>10. tab'[t].mirror = n => MirrorInv(t)'
  BY <1>1, <1>5, <1>7, <1>8, <1>9 DEF MirrorInv
<1>11. made' \in [Counters -> Nat] /\ made'.items = made.items
  BY PageFacts, Counting DEF Type, Counters
<1>12. Called(t, {"save"})
  BY <1>7, Answered
<1> QED BY <1>4, <1>6, <1>10, <1>11, <1>12, MirrorAction DEF Type

\* One save at a time: none is on its way when the next is sent.
LEMMA FlushKeepsPage ==
    ASSUME PageInv, NEW t \in Tabs, Flush(t)
    PROVE  PageInv'
<1>1. PICK m : m = tab[t].mirror
  OBVIOUS
<1>2. m = [version |-> m.version, base |-> m.base, shown |-> m.shown, pending |-> m.pending,
           sending |-> m.sending, timer |-> m.timer, halted |-> m.halted, status |-> m.status]
  BY <1>1, PageFacts DEF IsTab
<1>3. MirrorInv(t) /\ UNCHANGED document
  BY PageFacts DEF Flush, serverVars
<1>4. CASE m.halted \/ m.pending = None \/ m.sending # None
  <2>1. PICK n : n = [m EXCEPT !.timer = FALSE]
    OBVIOUS
  <2>2. n = [version |-> n.version, base |-> n.base, shown |-> n.shown, pending |-> n.pending,
             sending |-> n.sending, timer |-> n.timer, halted |-> n.halted, status |-> n.status]
    BY <1>2, <2>1
  <2>3. /\ n.version = m.version /\ n.base = m.base /\ n.sending = m.sending
        /\ n.halted = m.halted /\ n.pending = m.pending /\ n.status = m.status /\ n.shown = m.shown
    BY <1>2, <2>1
  <2>4. WithMirror(t, n) /\ UNCHANGED <<calls, made>>
    BY <1>1, <1>4, <2>1 DEF Flush
  <2>5. Current(n.version, n.base)'
    BY <1>1, <1>3, <2>3 DEF MirrorInv, Current
  <2>6. OneAtATime(t, {"save"})'
    BY <1>3, <2>4 DEF MirrorInv, OneAtATime
  <2>7. tab'[t].mirror = n => MirrorInv(t)'
    BY <1>1, <1>3, <2>3, <2>4, <2>5, <2>6 DEF MirrorInv
  <2>8. made' \in [Counters -> Nat] /\ made'.items = made.items /\ Called(t, {"save"})
    BY <2>4, PageFacts, Answered
  <2> QED BY <2>2, <2>4, <2>7, <2>8, MirrorAction DEF Flush
<1>5. CASE ~m.halted /\ m.pending # None /\ m.sending = None
  <2>1. PICK n : n = [m EXCEPT !.timer = FALSE, !.sending = m.pending]
    OBVIOUS
  <2>2. n = [version |-> n.version, base |-> n.base, shown |-> n.shown, pending |-> n.pending,
             sending |-> n.sending, timer |-> n.timer, halted |-> n.halted, status |-> n.status]
    BY <1>2, <2>1
  <2>3. /\ n.version = m.version /\ n.base = m.base /\ n.sending = m.pending
        /\ n.halted = m.halted /\ n.pending = m.pending /\ n.status = m.status /\ n.shown = m.shown
    BY <1>2, <2>1
  <2>4. PICK arg : arg = [content |-> m.pending, expected |-> m.version, base |-> m.base]
    OBVIOUS
  <2>5. PICK d : d = Request(made.calls, t, User(t), "save", arg)
    OBVIOUS
  <2>6. WithMirror(t, n) /\ calls' = calls \cup {d} /\ Count("calls")
    BY <1>1, <1>5, <2>1, <2>4, <2>5 DEF Flush, Send
  <2>7. arg.content = m.pending /\ arg.content # None /\ Current(arg.expected, arg.base)
    BY <1>1, <1>3, <1>5, <2>4 DEF MirrorInv
  <2>8. IsCall(d) /\ CallInv(d) /\ d.tab = t /\ d.op = "save" /\ d.arg = arg
    BY <2>5, <2>7, Requested
  <2>9. \A c \in calls : ~(c.tab = t /\ c.op = "save")
    BY <1>1, <1>3, <1>5, PageFacts DEF MirrorInv, CallInv
  <2>10. \A c \in calls' : c.tab = t /\ c.op = "save" => c = d
    BY <2>6, <2>9
  <2>11. OneAtATime(t, {"save"})'
    BY <2>10 DEF OneAtATime
  <2>12. \A c \in calls' : c.tab = t /\ c.op = "save" => c.arg.content = n.sending
    BY <2>3, <2>7, <2>8, <2>10
  <2>13. Current(n.version, n.base)'
    BY <1>1, <1>3, <2>3 DEF MirrorInv, Current
  <2>14. tab'[t].mirror = n => MirrorInv(t)'
    BY <1>1, <1>3, <1>5, <2>3, <2>11, <2>12, <2>13 DEF MirrorInv
  <2>15. made' \in [Counters -> Nat] /\ made'.items = made.items
    BY <2>6, PageFacts, Counting DEF Counters
  <2>16. Called(t, {"save"})
    BY <2>6, <2>8, Asked
  <2> QED BY <2>2, <2>6, <2>14, <2>15, <2>16, MirrorAction DEF Flush
<1> QED BY <1>4, <1>5

\* What the reply to a save makes of the mirror.
LEMMA AfterSaveCases ==
    ASSUME NEW m, NEW c, NEW a, a = AfterSave(m, c),
           m = [version |-> m.version, base |-> m.base, shown |-> m.shown,
                pending |-> m.pending, sending |-> m.sending, timer |-> m.timer,
                halted |-> m.halted, status |-> m.status]
    PROVE  /\ a = [version |-> a.version, base |-> a.base, shown |-> a.shown,
                   pending |-> a.pending, sending |-> a.sending, timer |-> a.timer,
                   halted |-> a.halted, status |-> a.status]
           /\ a.shown = m.shown
           /\ \/ /\ c.status = 200 /\ a.version = c.value /\ a.base = m.sending
                 /\ a.halted = m.halted
                 /\ m.pending # m.sending => a.pending = m.pending /\ a.status = "saving"
                 /\ m.pending = m.sending => a.pending = None /\ a.status = "saved"
              \/ /\ a.version = m.version /\ a.base = m.base /\ a.status # "saved"
                 /\ a.pending = None \/ (a.pending = m.pending /\ a.halted = m.halted)
<1>1. CASE c.status = 200
  <2>1. ~(c.status = 409) /\ ~(c.status \in {401, 403, 404})
    BY <1>1
  <2>2. a = [m EXCEPT !.version = c.value, !.base = m.sending,
                      !.pending = IF m.pending # m.sending THEN @ ELSE None,
                      !.status = IF m.pending # m.sending THEN "saving" ELSE "saved"]
    BY <1>1, <2>1, Zenon DEF AfterSave
  <2>3. PICK p, s : /\ p = IF m.pending # m.sending THEN m.pending ELSE None
                    /\ s = IF m.pending # m.sending THEN "saving" ELSE "saved"
    OBVIOUS
  <2>4. a = [m EXCEPT !.version = c.value, !.base = m.sending, !.pending = p, !.status = s]
    BY <2>2, <2>3
  <2>5. /\ a = [version |-> a.version, base |-> a.base, shown |-> a.shown,
                pending |-> a.pending, sending |-> a.sending, timer |-> a.timer,
                halted |-> a.halted, status |-> a.status]
        /\ a.shown = m.shown /\ a.version = c.value /\ a.base = m.sending
        /\ a.halted = m.halted /\ a.pending = p /\ a.status = s
    BY <2>4
  <2> QED BY <1>1, <2>3, <2>5
<1>2. CASE c.status = 409
  <2>1. ~(c.status = 200) /\ ~(c.status \in {401, 403, 404})
    BY <1>2
  <2>2. a = [m EXCEPT !.halted = TRUE, !.pending = None, !.status = "conflict"]
    BY <1>2, <2>1, Zenon DEF AfterSave
  <2> QED BY <2>2
<1>3. CASE c.status \in {401, 403, 404}
  <2>1. ~(c.status = 200) /\ ~(c.status = 409)
    BY <1>3
  <2>2. a = [m EXCEPT !.halted = TRUE, !.pending = None, !.status = "error"]
    BY <1>3, <2>1, Zenon DEF AfterSave
  <2> QED BY <2>2
<1>4. CASE ~(c.status = 200) /\ ~(c.status = 409) /\ ~(c.status \in {401, 403, 404})
  <2>1. a = [m EXCEPT !.status = "error"]
    BY <1>4, Zenon DEF AfterSave
  <2> QED BY <2>1
<1> QED BY <1>1, <1>2, <1>3, <1>4

\* The reply tells what was stored; what was typed since is still due.
LEMMA SaveRepliedKeepsPage ==
    ASSUME PageInv, NEW t \in Tabs, SaveReplied(t)
    PROVE  PageInv'
<1>1. PICK m : m = tab[t].mirror
  OBVIOUS
<1>2. m = [version |-> m.version, base |-> m.base, shown |-> m.shown, pending |-> m.pending,
           sending |-> m.sending, timer |-> m.timer, halted |-> m.halted, status |-> m.status]
  BY <1>1, PageFacts DEF IsTab
<1>3. PICK c \in Replies(t, {"save"}) :
        /\ calls' = calls \ {c}
        /\ LET a == AfterSave(tab[t].mirror, c) IN
           WithMirror(t, [a EXCEPT !.sending = None,
                                   !.timer = @ \/ (a.pending # None /\ ~a.halted)])
  BY DEF SaveReplied
<1>4. c \in calls /\ c.at = "done" /\ c.tab = t /\ c.op = "save"
  BY <1>3 DEF Replies
<1>5. MirrorInv(t) /\ CallInv(c) /\ UNCHANGED document
  BY <1>4, PageFacts DEF SaveReplied, serverVars
<1>6. c.arg.content # None /\ c.arg.content = m.sending /\ ~m.halted
  BY <1>1, <1>4, <1>5 DEF CallInv, MirrorInv
<1>7. c.status = 200 => Current(c.value, m.sending)
  BY <1>4, <1>5, <1>6 DEF CallInv, Told
<1>8. PICK a : a = AfterSave(m, c)
  OBVIOUS
<1>9. /\ a = [version |-> a.version, base |-> a.base, shown |-> a.shown, pending |-> a.pending,
              sending |-> a.sending, timer |-> a.timer, halted |-> a.halted, status |-> a.status]
      /\ Current(a.version, a.base) /\ a.shown = m.shown
      /\ a.halted => a.status # "saved"
      /\ a.pending # None => a.pending = m.pending /\ ~a.halted
      /\ a.status = "saved" => a.shown = a.base
  <2>1. /\ a = [version |-> a.version, base |-> a.base, shown |-> a.shown,
                pending |-> a.pending, sending |-> a.sending, timer |-> a.timer,
                halted |-> a.halted, status |-> a.status]
        /\ a.shown = m.shown
        /\ \/ /\ c.status = 200 /\ a.version = c.value /\ a.base = m.sending
              /\ a.halted = m.halted
              /\ m.pending # m.sending => a.pending = m.pending /\ a.status = "saving"
              /\ m.pending = m.sending => a.pending = None /\ a.status = "saved"
           \/ /\ a.version = m.version /\ a.base = m.base /\ a.status # "saved"
              /\ a.pending = None \/ (a.pending = m.pending /\ a.halted = m.halted)
    BY <1>2, <1>8, AfterSaveCases
  <2>2. m.pending = m.sending => m.shown = m.sending
    BY <1>1, <1>5, <1>6 DEF MirrorInv
  <2>3. Current(m.version, m.base)
    BY <1>1, <1>5 DEF MirrorInv
  <2> QED BY <1>6, <1>7, <2>1, <2>2, <2>3
<1>10. PICK n : n = [a EXCEPT !.sending = None, !.timer = @ \/ (a.pending # None /\ ~a.halted)]
  OBVIOUS
<1>11. /\ n = [version |-> n.version, base |-> n.base, shown |-> n.shown, pending |-> n.pending,
               sending |-> n.sending, timer |-> n.timer, halted |-> n.halted, status |-> n.status]
       /\ n.version = a.version /\ n.base = a.base /\ n.shown = a.shown
       /\ n.pending = a.pending /\ n.sending = None /\ n.halted = a.halted
       /\ n.status = a.status
  BY <1>9, <1>10
<1>12. WithMirror(t, n) /\ calls' = calls \ {c}
  BY <1>1, <1>3, <1>8, <1>10
<1>13. \A d \in calls' : ~(d.tab = t /\ d.op = "save")
  BY <1>4, <1>5, <1>12 DEF MirrorInv, OneAtATime
<1>14. OneAtATime(t, {"save"})'
  BY <1>13 DEF OneAtATime
<1>15. Current(n.version, n.base)'
  BY <1>5, <1>9, <1>11 DEF Current
<1>16. n.pending # None => n.shown = n.pending
  BY <1>1, <1>5, <1>9, <1>11 DEF MirrorInv
<1>17. tab'[t].mirror = n => MirrorInv(t)'
  BY <1>9, <1>11, <1>13, <1>14, <1>15, <1>16 DEF MirrorInv
<1>18. made' \in [Counters -> Nat] /\ made'.items = made.items
  BY PageFacts DEF SaveReplied
<1>19. Called(t, {"save"})
  BY <1>12, Answered
<1> QED BY <1>11, <1>12, <1>17, <1>18, <1>19, MirrorAction DEF SaveReplied

-----------------------------------------------------------------------------
(* The title *)

LEMMA TitleStepsKeepPage ==
    ASSUME PageInv, NEW t \in Tabs, TypeTitle(t) \/ DebouncedRename(t)
    PROVE  PageInv'
<1>1. PICK f : f = tab[t].title
  OBVIOUS
<1>2. /\ f = [seen |-> f.seen, base |-> f.base, prop |-> f.prop, value |-> f.value,
              typed |-> f.typed]
      /\ CurrentTitle(f.seen, f.base)
  BY <1>1, PageFacts DEF IsTab, TitleInv
<1>3. CASE TypeTitle(t)
  <2>1. PICK n : n = [f EXCEPT !.value = made.typed + 1, !.typed = made.typed + 1]
    OBVIOUS
  <2>2. /\ n = [seen |-> n.seen, base |-> n.base, prop |-> n.prop, value |-> n.value,
                typed |-> n.typed]
        /\ n.seen = f.seen /\ n.base = f.base
    BY <1>2, <2>1
  <2>3. WithTitle(t, n) /\ Called(t, {"rename"})
    BY <1>1, <1>3, <2>1, Answered DEF TypeTitle
  <2>4. made' \in [Counters -> Nat] /\ made'.items = made.items
    BY <1>3, PageFacts, Counting DEF TypeTitle, Counters
  <2> QED BY <1>2, <1>3, <2>2, <2>3, <2>4, TitleAction DEF TypeTitle
<1>4. CASE DebouncedRename(t)
  <2>1. PICK n : n = [f EXCEPT !.typed = None]
    OBVIOUS
  <2>2. /\ n = [seen |-> n.seen, base |-> n.base, prop |-> n.prop, value |-> n.value,
                typed |-> n.typed]
        /\ n.seen = f.seen /\ n.base = f.base
    BY <1>2, <2>1
  <2>3. WithTitle(t, n)
    BY <1>1, <1>4, <2>1 DEF DebouncedRename
  <2>4. PICK arg : arg = [title |-> f.typed, expected |-> f.seen, base |-> f.base]
    OBVIOUS
  <2>5. PICK d : d = Request(made.calls, t, User(t), "rename", arg)
    OBVIOUS
  <2>6. IsCall(d) /\ CallInv(d) /\ d.tab = t /\ d.op = "rename"
    <3>1. CurrentTitle(arg.expected, arg.base)
      BY <1>2, <2>4
    <3> QED BY <2>5, <3>1, Requested
  <2>7. \/ UNCHANGED <<calls, made>>
        \/ calls' = calls \cup {d} /\ Count("calls")
    BY <1>1, <1>4, <2>4, <2>5 DEF DebouncedRename, Rename, Send
  <2>8. Called(t, {"rename"})
    BY <2>6, <2>7, Asked
  <2>9. made' \in [Counters -> Nat] /\ made'.items = made.items
    BY <2>7, PageFacts, Counting DEF Counters
  <2> QED BY <1>2, <1>4, <2>2, <2>3, <2>8, <2>9, TitleAction DEF DebouncedRename
<1> QED BY <1>3, <1>4

LEMMA SubmitTitleKeepsPage ==
    ASSUME PageInv, NEW t \in Tabs, SubmitTitle(t)
    PROVE  PageInv'
<1>1. CurrentTitle(tab[t].title.seen, tab[t].title.base)
  BY PageFacts DEF TitleInv
<1>2. PICK arg : arg = [title |-> tab[t].title.value, expected |-> tab[t].title.seen,
                        base |-> tab[t].title.base]
  OBVIOUS
<1>3. PICK d : d = Request(made.calls, t, User(t), "rename", arg)
  OBVIOUS
<1>4. IsCall(d) /\ CallInv(d) /\ d.tab = t /\ d.op = "rename"
  <2>1. CurrentTitle(arg.expected, arg.base)
    BY <1>1, <1>2
  <2> QED BY <1>3, <2>1, Requested
<1>5. calls' = calls \cup {d} /\ Count("calls")
  BY <1>2, <1>3 DEF SubmitTitle, Rename, Send
<1>6. Called(t, {"rename"}) /\ {"rename"} \cap (BoxOps \cup PanelOps \cup {"save"}) = {}
  BY <1>4, <1>5, Asked DEF BoxOps, PanelOps
<1>7. made' \in [Counters -> Nat] /\ made'.items = made.items
  BY <1>5, PageFacts, Counting DEF Counters
<1> QED BY <1>6, <1>7, StillAction DEF SubmitTitle

\* The version of a reply comes with the title it answers.
LEMMA RenameRepliedKeepsPage ==
    ASSUME PageInv, NEW t \in Tabs, RenameReplied(t)
    PROVE  PageInv'
<1>1. PICK c \in Replies(t, {"rename"}) :
        /\ calls' = calls \ {c}
        /\ IF c.status = 200
           THEN WithTitle(t, [tab[t].title EXCEPT !.seen = c.value, !.base = c.arg.title,
                                                  !.prop = document.title])
           ELSE UNCHANGED tab
  BY DEF RenameReplied
<1>2. c \in calls /\ c.at = "done" /\ c.op = "rename"
  BY <1>1 DEF Replies
<1>3. made' \in [Counters -> Nat] /\ made'.items = made.items
  BY PageFacts DEF RenameReplied
<1>4. Called(t, {"rename"}) /\ {"rename"} \cap (BoxOps \cup PanelOps \cup {"save"}) = {}
  BY <1>1, Answered DEF BoxOps, PanelOps
<1>5. CASE c.status # 200
  BY <1>1, <1>3, <1>4, <1>5, StillAction DEF RenameReplied
<1>6. CASE c.status = 200
  <2>1. CurrentTitle(c.value, c.arg.title)
    BY <1>2, <1>6, PageFacts DEF CallInv, Told
  <2>2. PICK f : f = tab[t].title
    OBVIOUS
  <2>3. f = [seen |-> f.seen, base |-> f.base, prop |-> f.prop, value |-> f.value,
             typed |-> f.typed]
    BY <2>2, PageFacts DEF IsTab
  <2>4. PICK n : n = [f EXCEPT !.seen = c.value, !.base = c.arg.title, !.prop = document.title]
    OBVIOUS
  <2>5. /\ n = [seen |-> n.seen, base |-> n.base, prop |-> n.prop, value |-> n.value,
                typed |-> n.typed]
        /\ n.seen = c.value /\ n.base = c.arg.title
    BY <2>3, <2>4
  <2>6. WithTitle(t, n)
    BY <1>1, <1>6, <2>2, <2>4
  <2> QED BY <1>3, <1>4, <2>1, <2>5, <2>6, TitleAction DEF RenameReplied
<1> QED BY <1>5, <1>6

-----------------------------------------------------------------------------
(* The comment outbox *)

\* A set of items has a first one.
LEMMA FirstItem ==
    ASSUME NEW S, S # {}, \A i \in S : i.id \in Nat
    PROVE  \E i \in S : \A j \in S : i.id <= j.id
<1>1. PICK I : I = {i.id : i \in S}
  OBVIOUS
<1>2. I \subseteq Nat /\ I # {}
  BY <1>1
<1>3. IsWellFoundedOn(OpToRel(<, Nat), Nat)
  BY NatLessThanWellFounded
<1>4. \E x \in I : \A y \in I : ~(<<y, x>> \in OpToRel(<, Nat))
  BY <1>2, <1>3, WFMin
<1>5. PICK x \in I : \A y \in I : ~(<<y, x>> \in OpToRel(<, Nat))
  BY <1>4
<1>6. \A y \in I : x <= y
  <2> SUFFICES ASSUME NEW y \in I PROVE ~(y < x)
    BY <1>2
  <2>1. <<y, x>> \in Nat \X Nat /\ <<y, x>>[1] = y /\ <<y, x>>[2] = x
    BY <1>2
  <2> QED BY <1>5, <2>1 DEF OpToRel
<1> QED BY <1>1, <1>5, <1>6

\* The loop stops at a first item that was not tried, or has none.
LEMMA NextAttemptIs ==
    ASSUME NEW o, o = [queue |-> o.queue, attempted |-> o.attempted, item |-> o.item,
                       saved |-> o.saved, pc |-> o.pc],
           \A i \in o.queue : IsItem(i),
           NEW n, n = NextAttempt(o)
    PROVE  /\ n = [queue |-> n.queue, attempted |-> n.attempted, item |-> n.item,
                   saved |-> n.saved, pc |-> n.pc]
           /\ n.queue = o.queue
           /\ n.pc \in {"sending", "refreshing", "idle"}
           /\ n.pc = "sending" => IsItem(n.item)
           /\ (\E i \in o.queue : i.id \notin o.attempted) => n.pc = "sending"
<1>1. PICK left : left = {i \in o.queue : i.id \notin o.attempted}
  OBVIOUS
<1>2. CASE left = {}
  <2>1. PICK s : s = IF o.saved THEN "refreshing" ELSE "idle"
    OBVIOUS
  <2>2. n = [o EXCEPT !.pc = s, !.item = None] /\ s \in {"refreshing", "idle"}
    BY <1>1, <1>2, <2>1 DEF NextAttempt
  <2> QED BY <1>1, <1>2, <2>2
<1>3. CASE left # {}
  <2>1. \E i \in left : \A j \in left : i.id <= j.id
    BY <1>1, <1>3, FirstItem DEF IsItem
  <2>2. PICK first : first = CHOOSE i \in left : \A j \in left : i.id <= j.id
    OBVIOUS
  <2>3. first \in left
    BY <2>1, <2>2
  <2>4. n = [o EXCEPT !.pc = "sending", !.item = first, !.attempted = @ \cup {first.id}]
    BY <1>1, <1>3, <2>2 DEF NextAttempt
  <2>5. /\ n = [queue |-> n.queue, attempted |-> n.attempted, item |-> n.item,
                saved |-> n.saved, pc |-> n.pc]
        /\ n.queue = o.queue /\ n.pc = "sending" /\ n.item = first
    BY <2>4
  <2> QED BY <1>1, <2>3, <2>5
<1> QED BY <1>2, <1>3

\* The loop from its start.
LEMMA RestartedIs ==
    ASSUME NEW o, o = [queue |-> o.queue, attempted |-> o.attempted, item |-> o.item,
                       saved |-> o.saved, pc |-> o.pc],
           \A i \in o.queue : IsItem(i),
           NEW n, n = Restarted(o)
    PROVE  /\ n = [queue |-> n.queue, attempted |-> n.attempted, item |-> n.item,
                   saved |-> n.saved, pc |-> n.pc]
           /\ n.queue = o.queue
           /\ n.pc \in {"sending", "refreshing", "idle"}
           /\ n.pc = "sending" => IsItem(n.item)
           /\ o.queue # {} => n.pc = "sending"
<1>1. PICK p : p = [o EXCEPT !.attempted = {}, !.saved = FALSE]
  OBVIOUS
<1>2. /\ p = [queue |-> p.queue, attempted |-> p.attempted, item |-> p.item,
              saved |-> p.saved, pc |-> p.pc]
      /\ p.queue = o.queue /\ p.attempted = {}
  BY <1>1
<1>3. n = NextAttempt(p)
  BY <1>1 DEF Restarted
<1> QED BY <1>2, <1>3, NextAttemptIs

\* The requests of an outbox that goes on from its await with n, where K are the
\* other requests.
Turned(t, n, K) ==
    /\ n.pc = "sending" =>
          calls' = K \cup {Request(made.calls, t, User(t), n.item.kind,
                                   [message |-> n.item.id, thread |-> n.item.thread])}
    /\ n.pc = "refreshing" => calls' = K \cup {Request(made.calls, t, User(t), "list", None)}
    /\ n.pc = "idle" => calls' = K

LEMMA OutboxTurns ==
    ASSUME NEW t \in Tabs, NEW n, n.pc \in {"sending", "refreshing", "idle"},
           n.pc = "sending" => IsItem(n.item),
           NEW K, K \subseteq calls, \A c \in K : ~(c.tab = t /\ c.op \in BoxOps),
           Turned(t, n, K)
    PROVE  Called(t, BoxOps) /\ (tab'[t].outbox = n => OutboxInv(t)')
<1>1. CASE n.pc = "idle"
  <2>1. calls' = K /\ Called(t, BoxOps)
    BY <1>1, Answered DEF Turned
  <2>2. OutboxInv(t)'
    BY <2>1 DEF OutboxInv, OneAtATime, BoxOps
  <2> QED BY <2>1, <2>2
<1>2. CASE n.pc = "refreshing"
  <2>1. PICK arg : arg = None
    OBVIOUS
  <2>2. PICK d : d = Request(made.calls, t, User(t), "list", arg)
    OBVIOUS
  <2>3. IsCall(d) /\ CallInv(d) /\ d.tab = t /\ d.op = "list"
    BY <2>2, Requested
  <2>4. calls' = K \cup {d}
    BY <1>2, <2>1, <2>2 DEF Turned
  <2>5. Called(t, BoxOps)
    <3>1. d.op \in BoxOps /\ calls' \subseteq calls \cup {d}
      BY <2>3, <2>4 DEF BoxOps
    <3> QED BY <2>3, <3>1, Asked
  <2>6. \A c \in calls' : c.tab = t /\ c.op \in BoxOps => c = d
    BY <2>4
  <2>7. OneAtATime(t, BoxOps)'
    BY <2>6 DEF OneAtATime, BoxOps
  <2>8. tab'[t].outbox = n => OutboxInv(t)'
    BY <1>2, <2>3, <2>6, <2>7 DEF OutboxInv, BoxOps
  <2> QED BY <2>5, <2>8
<1>3. CASE n.pc = "sending"
  <2>1. PICK arg : arg = [message |-> n.item.id, thread |-> n.item.thread]
    OBVIOUS
  <2>2. PICK d : d = Request(made.calls, t, User(t), n.item.kind, arg)
    OBVIOUS
  <2>3. n.item.kind \in {"thread", "reply"} /\ IsItem(n.item)
    BY <1>3 DEF IsItem
  <2>4. IsCall(d) /\ CallInv(d) /\ d.tab = t /\ d.op = n.item.kind /\ d.arg = arg
    BY <2>2, <2>3, Requested
  <2>5. calls' = K \cup {d}
    BY <1>3, <2>1, <2>2 DEF Turned
  <2>6. Called(t, BoxOps)
    <3>1. d.op \in BoxOps /\ calls' \subseteq calls \cup {d}
      BY <2>3, <2>4, <2>5 DEF BoxOps
    <3> QED BY <2>4, <3>1, Asked
  <2>7. \A c \in calls' : c.tab = t /\ c.op \in BoxOps => c = d
    BY <2>5
  <2>8. OneAtATime(t, BoxOps)'
    BY <2>7 DEF OneAtATime, BoxOps
  <2>9. d.arg.message = n.item.id /\ d.op # "list"
    BY <2>1, <2>3, <2>4
  <2>10. tab'[t].outbox = n => OutboxInv(t)'
    BY <1>3, <2>3, <2>7, <2>8, <2>9 DEF OutboxInv, BoxOps, IsItem
  <2> QED BY <2>6, <2>10
<1> QED BY <1>1, <1>2, <1>3

LEMMA AwaitTurns ==
    ASSUME NEW t, NEW o, Await(t, o), o.pc \in {"sending", "refreshing", "idle"},
           made \in [Counters -> Nat]
    PROVE  /\ WithOutbox(t, o) /\ Turned(t, o, calls)
           /\ made' \in [Counters -> Nat] /\ made'.items = made.items
<1>1. WithOutbox(t, o)
  BY DEF Await
<1>2. made' \in [Counters -> Nat] /\ made'.items = made.items
  BY Counting DEF Await, Counters
<1>3. CASE o.pc = "sending"
  <2>1. ~(o.pc = "refreshing") /\ ~(o.pc = "idle")
    BY <1>3
  <2>2. Send(t, o.item.kind, [message |-> o.item.id, thread |-> o.item.thread])
    BY <1>3, <2>1, Zenon DEF Await
  <2> QED BY <1>1, <1>2, <1>3, <2>2 DEF Send, Turned
<1>4. CASE o.pc = "refreshing"
  <2>1. ~(o.pc = "sending") /\ ~(o.pc = "idle")
    BY <1>4
  <2>2. Send(t, "list", None)
    BY <1>4, <2>1, Zenon DEF Await
  <2> QED BY <1>1, <1>2, <1>4, <2>2 DEF Send, Turned
<1>5. CASE o.pc = "idle"
  <2>1. ~(o.pc = "sending") /\ ~(o.pc = "refreshing")
    BY <1>5
  <2>2. UNCHANGED calls
    BY <1>5, <2>1, Zenon DEF Await
  <2> QED BY <1>1, <1>2, <1>5, <2>2 DEF Turned
<1> QED BY <1>3, <1>4, <1>5

\* The panel mounts, or what failed is tried again.
LEMMA RetryKeepsPage ==
    ASSUME PageInv, NEW t \in Tabs, MountPanel(t) \/ RetryOutbox(t)
    PROVE  PageInv'
<1>1. PICK old : old = tab[t].outbox
  OBVIOUS
<1>2. /\ old = [queue |-> old.queue, attempted |-> old.attempted, item |-> old.item,
                saved |-> old.saved, pc |-> old.pc]
      /\ \A i \in old.queue : IsItem(i)
  BY <1>1, PageFacts DEF IsTab
<1>3. PICK Q : Q = IF MountPanel(t) THEN ReadOutbox(User(t)) ELSE old.queue
  OBVIOUS
<1>4. \A i \in Q : IsItem(i)
  <2>1. User(t) \in Users
    BY PageFacts DEF User
  <2>2. \A i \in storage[User(t)] : IsItem(i)
    BY <2>1 DEF PageInv, PageTypeOK
  <2>3. ReadOutbox(User(t)) \subseteq storage[User(t)]
    BY DEF ReadOutbox
  <2> QED BY <1>2, <1>3, <2>2, <2>3
<1>5. PICK o : o = [old EXCEPT !.queue = Q]
  OBVIOUS
<1>6. /\ o = [queue |-> o.queue, attempted |-> o.attempted, item |-> o.item,
              saved |-> o.saved, pc |-> o.pc]
      /\ o.queue = Q
  BY <1>2, <1>5
<1>7. PICK n : n = Restarted(o)
  OBVIOUS
<1>8. /\ n = [queue |-> n.queue, attempted |-> n.attempted, item |-> n.item,
              saved |-> n.saved, pc |-> n.pc]
      /\ n.queue = Q /\ n.pc \in {"sending", "refreshing", "idle"}
      /\ n.pc = "sending" => IsItem(n.item)
  BY <1>4, <1>6, <1>7, RestartedIs
<1>9. Await(t, n) /\ old.pc = "idle" /\ UNCHANGED <<serverVars, plan, storage, body, applied>>
  <2>1. CASE MountPanel(t)
    BY <1>1, <1>3, <1>5, <1>7, <2>1 DEF MountPanel
  <2>2. CASE ~MountPanel(t)
    <3>1. o = old
      BY <1>2, <1>3, <1>5, <2>2
    <3> QED BY <1>1, <1>7, <2>2, <3>1 DEF RetryOutbox
  <2> QED BY <2>1, <2>2
<1>10. \A c \in calls : ~(c.tab = t /\ c.op \in BoxOps)
  BY <1>1, <1>9, PageFacts DEF OutboxInv
<1>11. /\ WithOutbox(t, n) /\ Turned(t, n, calls)
       /\ made' \in [Counters -> Nat] /\ made'.items = made.items
  BY <1>8, <1>9, PageFacts, AwaitTurns
<1>12. Called(t, BoxOps) /\ (tab'[t].outbox = n => OutboxInv(t)')
  BY <1>8, <1>10, <1>11, OutboxTurns
<1>13. /\ CommentKept' /\ storage' = [u \in Users |-> storage'[u]]
       /\ \A u \in Users : \A i \in storage'[u] : IsItem(i)
  BY <1>9, <1>11, RecordsIdle
<1> QED BY <1>4, <1>8, <1>9, <1>11, <1>12, <1>13, OutboxAction

\* The reply to the list ends the work of the outbox.
LEMMA RefreshedKeepsPage ==
    ASSUME PageInv, NEW t \in Tabs, Refreshed(t)
    PROVE  PageInv'
<1>1. PICK c \in Replies(t, {"list"}) : calls' = calls \ {c}
  BY DEF Refreshed
<1>2. c \in calls /\ c.tab = t /\ c.op = "list" /\ c.op \in BoxOps
  BY <1>1 DEF Replies, BoxOps
<1>3. PICK o : o = tab[t].outbox
  OBVIOUS
<1>4. /\ o = [queue |-> o.queue, attempted |-> o.attempted, item |-> o.item,
              saved |-> o.saved, pc |-> o.pc]
      /\ \A i \in o.queue : IsItem(i)
  BY <1>3, PageFacts DEF IsTab
<1>5. PICK n : n = [o EXCEPT !.pc = "idle"]
  OBVIOUS
<1>6. /\ n = [queue |-> n.queue, attempted |-> n.attempted, item |-> n.item,
              saved |-> n.saved, pc |-> n.pc]
      /\ n.queue = o.queue /\ n.pc = "idle"
  BY <1>4, <1>5
<1>7. OneAtATime(t, BoxOps)
  BY PageFacts DEF OutboxInv
<1>8. PICK K : K = calls'
  OBVIOUS
<1>9. K \subseteq calls /\ \A d \in K : ~(d.tab = t /\ d.op \in BoxOps)
  BY <1>1, <1>2, <1>7, <1>8 DEF OneAtATime
<1>10. Turned(t, n, K)
  BY <1>6, <1>8 DEF Turned
<1>11. Called(t, BoxOps) /\ (tab'[t].outbox = n => OutboxInv(t)')
  BY <1>6, <1>9, <1>10, OutboxTurns
<1>12. WithOutbox(t, n) /\ UNCHANGED <<serverVars, plan, storage, body, applied, made>>
  BY <1>3, <1>5 DEF Refreshed
<1>13. made' \in [Counters -> Nat] /\ made'.items = made.items
  BY <1>12, PageFacts
<1>14. /\ CommentKept' /\ storage' = [u \in Users |-> storage'[u]]
       /\ \A u \in Users : \A i \in storage'[u] : IsItem(i)
  BY <1>12, <1>13, RecordsIdle
<1> QED BY <1>4, <1>6, <1>11, <1>12, <1>13, <1>14, OutboxAction

\* A comment that is written is stored before it is sent.
LEMMA WriteKeepsPage ==
    ASSUME PageInv, NEW t \in Tabs, NEW kind \in {"thread", "reply"}, NEW thread,
           Write(t, kind, thread)
    PROVE  PageInv'
<1>1. PICK u : u = User(t)
  OBVIOUS
<1>2. u \in Users
  BY <1>1, PageFacts DEF User
<1>3. PICK item : item = [id |-> made.items + 1, kind |-> kind, thread |-> thread]
  OBVIOUS
<1>4. made.items \in Nat
  BY PageFacts DEF Counters
<1>5. IsItem(item) /\ item.id = made.items + 1
  BY <1>3, <1>4 DEF IsItem
<1>6. PICK old : old = tab[t].outbox
  OBVIOUS
<1>7. /\ old = [queue |-> old.queue, attempted |-> old.attempted, item |-> old.item,
                saved |-> old.saved, pc |-> old.pc]
      /\ \A i \in old.queue : IsItem(i)
  BY <1>6, PageFacts DEF IsTab
<1>8. PICK o : o = [old EXCEPT !.queue = @ \cup {item}]
  OBVIOUS
<1>9. /\ o = [queue |-> o.queue, attempted |-> o.attempted, item |-> o.item,
              saved |-> o.saved, pc |-> o.pc]
      /\ o.queue = old.queue \cup {item} /\ o.pc = old.pc /\ o.item = old.item
      /\ \A i \in o.queue : IsItem(i)
  BY <1>5, <1>7, <1>8
<1>10. PICK n : n = IF o.pc = "idle" THEN Restarted(o) ELSE o
  OBVIOUS
<1>11. /\ item \in Stored(u, item)
       /\ storage' = [storage EXCEPT ![u] = Stored(u, item)]
       /\ WithOutbox(t, n)
       /\ IF o.pc = "idle"
          THEN Send(t, n.item.kind, [message |-> n.item.id, thread |-> n.item.thread])
          ELSE UNCHANGED calls
       /\ made' = [made EXCEPT !.items = @ + 1,
                               !.calls = @ + (IF o.pc = "idle" THEN 1 ELSE 0)]
       /\ UNCHANGED <<serverVars, plan, body, applied>>
  BY <1>1, <1>3, <1>6, <1>8, <1>10 DEF Write
<1>12. Stored(u, item) = storage[u] \cup {item}
  BY <1>11 DEF Stored
<1>13. /\ storage' = [v \in Users |-> storage'[v]]
       /\ storage'[u] = storage[u] \cup {item}
       /\ \A v \in Users : v # u => storage'[v] = storage[v]
  BY <1>2, <1>11, <1>12 DEF PageInv, PageTypeOK
<1>14. \A v \in Users : \A i \in storage'[v] : IsItem(i)
  <2>1. \A v \in Users : \A i \in storage[v] : IsItem(i)
    BY DEF PageInv, PageTypeOK
  <2> QED BY <1>5, <1>13, <2>1
<1>15. made' \in [Counters -> Nat] /\ made'.items = made.items + 1
  <2>1. PICK k \in {0, 1} : k = IF o.pc = "idle" THEN 1 ELSE 0
    OBVIOUS
  <2>2. PICK a, b : a = made.items + 1 /\ b = made.calls + k
    OBVIOUS
  <2>3. made' = [made EXCEPT !.items = a, !.calls = b]
    BY <1>11, <2>1, <2>2
  <2>4. a \in Nat /\ b \in Nat /\ made \in [Counters -> Nat]
    BY <1>4, <2>1, <2>2, PageFacts DEF Counters
  <2> QED BY <2>2, <2>3, <2>4 DEF Counters
<1>16. CommentKept'
  <2>1. ServerGrown
    BY <1>11, PageFacts, GrownIdle
  <2>2. ASSUME Uses("comments"), document'.exists, NEW k \in 1..made'.items
        PROVE  \/ \E v \in Users : \E i \in storage'[v] : i.id = k
               \/ \E m \in messages' : m.id = k
    <3>1. CASE k = made.items + 1
      BY <1>2, <1>5, <1>13, <3>1
    <3>2. CASE k # made.items + 1
      <4>1. k \in 1..made.items
        BY <1>4, <1>15, <3>2
      <4>2. document.exists /\ messages \subseteq messages'
        BY <2>1, <2>2 DEF ServerGrown
      <4>3. \/ \E v \in Users : \E i \in storage[v] : i.id = k
            \/ \E m \in messages : m.id = k
        BY <2>2, <4>1, <4>2 DEF PageInv, CommentKept
      <4>4. \A v \in Users : storage[v] \subseteq storage'[v]
        BY <1>13
      <4> QED BY <4>2, <4>3, <4>4
    <3> QED BY <3>1, <3>2
  <2>3. plan' = plan
    BY <1>11
  <2> QED BY <2>2, <2>3 DEF CommentKept, Uses
<1>17. CASE o.pc = "idle"
  <2>1. n = Restarted(o)
    BY <1>10, <1>17
  <2>2. /\ n = [queue |-> n.queue, attempted |-> n.attempted, item |-> n.item,
                saved |-> n.saved, pc |-> n.pc]
        /\ n.queue = o.queue /\ n.pc \in {"sending", "refreshing", "idle"}
        /\ n.pc = "sending" => IsItem(n.item)
        /\ o.queue # {} => n.pc = "sending"
    BY <1>9, <2>1, RestartedIs
  <2>3. n.pc = "sending"
    BY <1>9, <2>2
  <2>4. \A c \in calls : ~(c.tab = t /\ c.op \in BoxOps)
    BY <1>6, <1>9, <1>17, PageFacts DEF OutboxInv
  <2>5. Turned(t, n, calls)
    BY <1>11, <1>17, <2>3 DEF Turned, Send
  <2>6. Called(t, BoxOps) /\ (tab'[t].outbox = n => OutboxInv(t)')
    BY <2>2, <2>4, <2>5, OutboxTurns
  <2> QED BY <1>9, <1>11, <1>13, <1>14, <1>15, <1>16, <2>2, <2>6, OutboxAction
<1>18. CASE o.pc # "idle"
  <2>1. n = o /\ UNCHANGED calls
    BY <1>10, <1>11, <1>18
  <2>2. Called(t, BoxOps)
    BY <2>1, Answered
  <2>3. OutboxInv(t)
    BY PageFacts
  <2>4. tab'[t].outbox = n => OutboxInv(t)'
    <3>1. OneAtATime(t, BoxOps)'
      BY <2>1, <2>3 DEF OutboxInv, OneAtATime, BoxOps
    <3>2. \A c \in calls' : c.tab = t /\ c.op \in BoxOps =>
             IF c.op = "list" THEN o.pc = "refreshing"
             ELSE o.pc = "sending" /\ IsItem(o.item) /\ c.arg.message = o.item.id
      BY <1>6, <1>9, <2>1, <2>3 DEF OutboxInv
    <3> QED BY <2>1, <3>1, <3>2 DEF OutboxInv, BoxOps, IsItem
  <2> QED BY <1>9, <1>11, <1>13, <1>14, <1>15, <1>16, <2>1, <2>2, <2>4, OutboxAction
<1> QED BY <1>17, <1>18

\* A reply to an item: it leaves localStorage once it is in the database.
LEMMA ItemRepliedKeepsPage ==
    ASSUME PageInv, NEW t \in Tabs, ItemReplied(t)
    PROVE  PageInv'
<1>1. PICK u : u = User(t)
  OBVIOUS
<1>2. u \in Users
  BY <1>1, PageFacts DEF User
<1>3. PICK o : o = tab[t].outbox
  OBVIOUS
<1>4. PICK c \in Replies(t, {"thread", "reply"}) :
        LET old == tab[t].outbox
            ok == c.status = 200
            after == IF ok THEN [old EXCEPT !.saved = TRUE, !.queue = @ \ {old.item}] ELSE old
            next == NextAttempt(after)
        IN  /\ storage' = [storage EXCEPT ![User(t)] = KeptAfter(User(t), old.item, ok)]
            /\ WithOutbox(t, next)
            /\ calls' = (calls \ {c}) \cup
                  (CASE next.pc = "sending" ->
                           {Request(made.calls, t, User(t), next.item.kind,
                                    [message |-> next.item.id, thread |-> next.item.thread])}
                     [] next.pc = "refreshing" ->
                           {Request(made.calls, t, User(t), "list", None)}
                     [] OTHER -> {})
            /\ IF next.pc = "idle" THEN UNCHANGED made ELSE Count("calls")
  BY ZenonT(30) DEF ItemReplied
<1>5. c \in calls /\ c.at = "done" /\ c.tab = t /\ c.op \in {"thread", "reply"}
  BY <1>4 DEF Replies
<1>6. OutboxInv(t) /\ CallInv(c)
  BY <1>5, PageFacts
<1>7. IsItem(o.item) /\ c.arg.message = o.item.id
  BY <1>3, <1>5, <1>6 DEF OutboxInv, BoxOps
<1>8. /\ o = [queue |-> o.queue, attempted |-> o.attempted, item |-> o.item,
              saved |-> o.saved, pc |-> o.pc]
      /\ \A i \in o.queue : IsItem(i)
  BY <1>3, PageFacts DEF IsTab
<1>9. PICK a : a = IF c.status = 200
                   THEN [o EXCEPT !.saved = TRUE, !.queue = @ \ {o.item}] ELSE o
  OBVIOUS
<1>10. /\ a = [queue |-> a.queue, attempted |-> a.attempted, item |-> a.item,
               saved |-> a.saved, pc |-> a.pc]
       /\ \A i \in a.queue : IsItem(i)
  BY <1>8, <1>9
<1>11. PICK n : n = NextAttempt(a)
  OBVIOUS
<1>12. /\ n = [queue |-> n.queue, attempted |-> n.attempted, item |-> n.item,
               saved |-> n.saved, pc |-> n.pc]
       /\ n.queue = a.queue /\ n.pc \in {"sending", "refreshing", "idle"}
       /\ n.pc = "sending" => IsItem(n.item)
  BY <1>10, <1>11, NextAttemptIs
<1>13. PICK K : K = calls \ {c}
  OBVIOUS
<1>14. /\ storage' = [storage EXCEPT ![u] = KeptAfter(u, o.item, c.status = 200)]
       /\ WithOutbox(t, n)
       /\ calls' = K \cup
             (CASE n.pc = "sending" ->
                      {Request(made.calls, t, User(t), n.item.kind,
                               [message |-> n.item.id, thread |-> n.item.thread])}
                [] n.pc = "refreshing" ->
                      {Request(made.calls, t, User(t), "list", None)}
                [] OTHER -> {})
       /\ IF n.pc = "idle" THEN UNCHANGED made ELSE Count("calls")
       /\ UNCHANGED <<serverVars, plan, body, applied>>
  BY <1>1, <1>3, <1>4, <1>9, <1>11, <1>13 DEF ItemReplied
<1>15. Turned(t, n, K)
  <2>1. CASE n.pc = "sending"
    <3>1. ~(n.pc = "refreshing") /\ ~(n.pc = "idle")
      BY <2>1
    <3>2. calls' = K \cup {Request(made.calls, t, User(t), n.item.kind,
                               [message |-> n.item.id, thread |-> n.item.thread])}
      BY <1>14, <2>1, <3>1, Zenon
    <3> QED BY <3>1, <3>2 DEF Turned
  <2>2. CASE n.pc = "refreshing"
    <3>1. ~(n.pc = "sending") /\ ~(n.pc = "idle")
      BY <2>2
    <3>2. calls' = K \cup {Request(made.calls, t, User(t), "list", None)}
      BY <1>14, <2>2, <3>1, Zenon
    <3> QED BY <3>1, <3>2 DEF Turned
  <2>3. CASE n.pc = "idle"
    <3>1. ~(n.pc = "sending") /\ ~(n.pc = "refreshing")
      BY <2>3
    <3>2. calls' = K \cup {}
      BY <1>14, <3>1, Zenon
    <3> QED BY <3>1, <3>2 DEF Turned
  <2> QED BY <1>12, <2>1, <2>2, <2>3
<1>16. K \subseteq calls /\ \A d \in K : ~(d.tab = t /\ d.op \in BoxOps)
  BY <1>5, <1>6, <1>13 DEF OutboxInv, OneAtATime, BoxOps
<1>17. Called(t, BoxOps) /\ (tab'[t].outbox = n => OutboxInv(t)')
  BY <1>12, <1>15, <1>16, OutboxTurns
<1>18. made' \in [Counters -> Nat] /\ made'.items = made.items
  BY <1>14, PageFacts, Counting DEF Counters
<1>19. /\ storage' = [v \in Users |-> storage'[v]]
       /\ storage'[u] = KeptAfter(u, o.item, c.status = 200)
       /\ \A v \in Users : v # u => storage'[v] = storage[v]
  BY <1>2, <1>14 DEF PageInv, PageTypeOK
<1>20. /\ storage'[u] \subseteq storage[u] \cup {o.item}
       /\ c.status # 200 => storage[u] \subseteq storage'[u]
       /\ c.status = 200 => storage[u] \ {o.item} \subseteq storage'[u]
  BY <1>19 DEF KeptAfter, Stored
<1>21. \A v \in Users : \A i \in storage'[v] : IsItem(i)
  <2>1. \A v \in Users : \A i \in storage[v] : IsItem(i)
    BY DEF PageInv, PageTypeOK
  <2> QED BY <1>7, <1>19, <1>20, <2>1
<1>22. CommentKept'
  <2>1. ServerTypeOK /\ ServerGrown /\ plan' = plan /\ messages' = messages
        /\ document' = document
    BY <1>14, PageFacts, GrownIdle DEF serverVars
  <2>2. CASE c.status # 200
    BY <1>18, <1>19, <1>20, <2>1, <2>2, RecordKept DEF PageInv
  <2>3. CASE c.status = 200
    <3>1. document.exists => \E m \in messages : m.id = o.item.id
      BY <1>5, <1>6, <1>7, <2>3 DEF CallInv, Told
    <3>2. ASSUME Uses("comments"), document.exists, NEW k \in 1..made.items
          PROVE  \/ \E v \in Users : \E i \in storage'[v] : i.id = k
                 \/ \E m \in messages : m.id = k
      <4>1. \/ \E v \in Users : \E i \in storage[v] : i.id = k
            \/ \E m \in messages : m.id = k
        BY <3>2 DEF PageInv, CommentKept
      <4> QED BY <1>19, <1>20, <2>3, <3>1, <3>2, <4>1
    <3> QED BY <1>18, <2>1, <3>2 DEF CommentKept, Uses
  <2> QED BY <2>2, <2>3
<1> QED BY <1>10, <1>12, <1>14, <1>17, <1>18, <1>19, <1>21, <1>22, OutboxAction

-----------------------------------------------------------------------------
(* The suggestions panel *)

\* The panel has one request under way, or none.
LEMMA PanelAsks ==
    ASSUME NEW t \in Tabs, NEW p, p.pc # "idle",
           NEW op \in PanelOps, NEW arg, NEW n, NEW u, NEW d, d = Request(n, t, u, op, arg),
           p.pc = "accepting" => op = "resolve" /\ arg.id = p.id /\ arg.action = "accept",
           NEW K, K \subseteq calls, \A c \in K : ~(c.tab = t /\ c.op \in PanelOps),
           calls' = K \cup {d}
    PROVE  Called(t, PanelOps) /\ (tab'[t].panel = p => PanelInv(t)')
<1>1. op # "save" /\ op # "rename"
  BY DEF PanelOps
<1>2. IsCall(d) /\ CallInv(d) /\ d.tab = t /\ d.op = op /\ d.arg = arg
  BY <1>1, Requested
<1>3. Called(t, PanelOps)
  <2>1. d.op \in PanelOps /\ calls' \subseteq calls \cup {d}
    BY <1>2
  <2> QED BY <1>2, <2>1, Asked
<1>4. \A c \in calls' : c.tab = t /\ c.op \in PanelOps => c = d
  OBVIOUS
<1>5. OneAtATime(t, PanelOps)'
  BY <1>4 DEF OneAtATime, PanelOps
<1>6. tab'[t].panel = p => PanelInv(t)'
  BY <1>2, <1>4, <1>5 DEF PanelInv, PanelOps
<1> QED BY <1>3, <1>6

LEMMA PanelEnds ==
    ASSUME NEW t, calls' \subseteq calls, \A c \in calls' : ~(c.tab = t /\ c.op \in PanelOps)
    PROVE  Called(t, PanelOps) /\ PanelInv(t)'
<1>1. Called(t, PanelOps)
  BY Answered
<1>2. OneAtATime(t, PanelOps)'
  BY DEF OneAtATime, PanelOps
<1>3. PanelInv(t)'
  BY <1>2 DEF PanelInv, PanelOps
<1> QED BY <1>1, <1>3

\* A suggestion is made, accepted, rejected or discharged.
LEMMA PanelSendsKeepPage ==
    ASSUME PageInv, NEW t \in Tabs, Propose(t) \/ Accept(t) \/ Decline(t)
    PROVE  PageInv'
<1>1. PICK old : old = tab[t].panel
  OBVIOUS
<1>2. old = [pc |-> old.pc, id |-> old.id, from |-> old.from, to |-> old.to]
  BY <1>1, PageFacts DEF IsTab
<1>3. old.pc = "idle" /\ UNCHANGED <<serverVars, plan, storage, applied>>
  BY <1>1 DEF Propose, Accept, Decline
<1>4. \A c \in calls : ~(c.tab = t /\ c.op \in PanelOps)
  BY <1>1, <1>3, PageFacts DEF PanelInv
<1>5. AppliedInv'
  BY <1>3, RecordsIdle
<1>6. ASSUME NEW p, p = [pc |-> p.pc, id |-> p.id, from |-> p.from, to |-> p.to],
             WithPanel(t, p), p.pc # "idle",
             NEW op \in PanelOps, NEW arg, Send(t, op, arg),
             p.pc = "accepting" => op = "resolve" /\ arg.id = p.id /\ arg.action = "accept",
             made' \in [Counters -> Nat], made'.items = made.items
      PROVE  PageInv'
  <2>1. PICK d : d = Request(made.calls, t, User(t), op, arg)
    OBVIOUS
  <2>2. calls' = calls \cup {d}
    BY <1>6, <2>1 DEF Send
  <2>3. Called(t, PanelOps) /\ (tab'[t].panel = p => PanelInv(t)')
    BY <1>4, <1>6, <2>1, <2>2, PanelAsks
  <2> QED BY <1>3, <1>5, <1>6, <2>3, PanelAction
<1>7. CASE Propose(t)
  <2>1. PICK arg : Send(t, "propose", arg)
    BY <1>7 DEF Propose
  <2>2. PICK p : p = [old EXCEPT !.pc = "proposing"]
    OBVIOUS
  <2>3. p = [pc |-> p.pc, id |-> p.id, from |-> p.from, to |-> p.to] /\ p.pc = "proposing"
    BY <1>2, <2>2
  <2>4. WithPanel(t, p)
    BY <1>1, <1>7, <2>2 DEF Propose
  <2>5. made' \in [Counters -> Nat] /\ made'.items = made.items
    <3>1. PICK a, b : a = made.proposed + 1 /\ b = made.calls + 1
      OBVIOUS
    <3>2. made' = [made EXCEPT !.proposed = a, !.calls = b]
      BY <1>7, <3>1 DEF Propose
    <3>3. a \in Nat /\ b \in Nat /\ made \in [Counters -> Nat]
      BY <3>1, PageFacts DEF Counters
    <3> QED BY <3>2, <3>3 DEF Counters
  <2> QED BY <1>6, <2>1, <2>3, <2>4, <2>5 DEF PanelOps
<1>8. ASSUME NEW x, NEW action, NEW p, Resolve(t, x, action, p),
             p = [pc |-> p.pc, id |-> p.id, from |-> p.from, to |-> p.to], p.pc # "idle",
             p.pc = "accepting" => x = p.id /\ action = "accept"
      PROVE  PageInv'
  <2>1. PICK arg : arg = [id |-> x, action |-> action]
    OBVIOUS
  <2>2. Send(t, "resolve", arg) /\ WithPanel(t, p) /\ Count("calls")
    BY <1>8, <2>1 DEF Resolve
  <2>3. made' \in [Counters -> Nat] /\ made'.items = made.items
    BY <2>2, PageFacts, Counting DEF Counters
  <2>4. p.pc = "accepting" => arg.id = p.id /\ arg.action = "accept"
    BY <1>8, <2>1
  <2>5. "resolve" \in PanelOps
    BY DEF PanelOps
  <2> QED BY <1>6, <1>8, <2>2, <2>3, <2>4, <2>5
<1>9. PICK q : q = [old EXCEPT !.pc = "closing"]
  OBVIOUS
<1>10. q = [pc |-> q.pc, id |-> q.id, from |-> q.from, to |-> q.to] /\ q.pc = "closing"
  BY <1>2, <1>9
<1>11. CASE Accept(t)
  <2>1. PICK x \in DOMAIN suggestions :
          LET range == Attached(suggestions[x].anchor) IN
          IF range = <<0, 0>>
          THEN Resolve(t, x, "discharge", [tab[t].panel EXCEPT !.pc = "closing"])
          ELSE Resolve(t, x, "accept", [pc |-> "accepting", id |-> x,
                                        from |-> range[1], to |-> range[2]])
    BY <1>11, Zenon DEF Accept
  <2>2. PICK range : range = Attached(suggestions[x].anchor)
    OBVIOUS
  <2>3. PICK p : p = [pc |-> "accepting", id |-> x, from |-> range[1], to |-> range[2]]
    OBVIOUS
  <2>4. /\ p = [pc |-> p.pc, id |-> p.id, from |-> p.from, to |-> p.to]
        /\ p.pc = "accepting" /\ p.id = x
    BY <2>3
  <2>5. Resolve(t, x, "discharge", q) \/ Resolve(t, x, "accept", p)
    <3>1. CASE range = <<0, 0>>
      <4>1. Resolve(t, x, "discharge", [tab[t].panel EXCEPT !.pc = "closing"])
        BY <2>1, <2>2, <3>1, Zenon
      <4> QED BY <1>1, <1>9, <4>1
    <3>2. CASE ~(range = <<0, 0>>)
      <4>1. Resolve(t, x, "accept", [pc |-> "accepting", id |-> x,
                                     from |-> range[1], to |-> range[2]])
        BY <2>1, <2>2, <3>2, Zenon
      <4> QED BY <2>3, <4>1
    <3> QED BY <3>1, <3>2
  <2> QED BY <1>8, <1>10, <2>4, <2>5
<1>12. CASE Decline(t)
  <2>1. PICK x, action : Resolve(t, x, action, q)
    BY <1>1, <1>9, <1>12 DEF Decline
  <2> QED BY <1>8, <1>10, <2>1
<1> QED BY <1>7, <1>11, <1>12

\* The work of the panel ends.
LEMMA PanelRepliedKeepsPage ==
    ASSUME PageInv, NEW t \in Tabs, PanelReplied(t)
    PROVE  PageInv'
<1>1. PICK c \in Replies(t, {"propose", "resolve"}) : calls' = calls \ {c}
  BY DEF PanelReplied
<1>2. c \in calls /\ c.tab = t /\ c.op \in PanelOps
  BY <1>1 DEF Replies, PanelOps
<1>3. PICK p : p = FreshPanel
  OBVIOUS
<1>4. p = [pc |-> p.pc, id |-> p.id, from |-> p.from, to |-> p.to]
  BY <1>3 DEF FreshPanel
<1>5. calls' \subseteq calls /\ \A d \in calls' : ~(d.tab = t /\ d.op \in PanelOps)
  BY <1>1, <1>2, PageFacts DEF PanelInv, OneAtATime
<1>6. Called(t, PanelOps) /\ PanelInv(t)'
  BY <1>5, PanelEnds
<1>7. made' \in [Counters -> Nat] /\ made'.items = made.items /\ WithPanel(t, p)
  BY <1>3, PageFacts DEF PanelReplied
<1>8. AppliedInv'
  BY RecordsIdle DEF PanelReplied
<1> QED BY <1>4, <1>6, <1>7, <1>8, PanelAction DEF PanelReplied

\* An accepted suggestion is applied when the record says so.
LEMMA AcceptRepliedKeepsPage ==
    ASSUME PageInv, NEW t \in Tabs, AcceptReplied(t)
    PROVE  PageInv'
<1>1. PICK p : p = tab[t].panel
  OBVIOUS
<1>2. p = [pc |-> p.pc, id |-> p.id, from |-> p.from, to |-> p.to]
  BY <1>1, PageFacts DEF IsTab
<1>3. PICK c \in Replies(t, {"resolve"}) :
         IF c.status # 200
         THEN /\ calls' = calls \ {c}
              /\ WithPanel(t, FreshPanel)
              /\ UNCHANGED <<body, applied, made>>
         ELSE IF tab[t].role \in Editors /\ p.to <= Len(body) + 1
         THEN /\ calls' = calls \ {c}
              /\ WithPanel(t, FreshPanel)
              /\ body' = Replaced(p)
              /\ applied' = applied \cup {p.id}
              /\ UNCHANGED made
         ELSE /\ Within("calls") /\ Count("calls")
              /\ calls' = (calls \ {c}) \cup
                    {Request(made.calls, t, User(t), "resolve", [id |-> p.id, action |-> "discharge"])}
              /\ WithPanel(t, [p EXCEPT !.pc = "closing"])
              /\ UNCHANGED <<body, applied>>
  BY <1>1 DEF AcceptReplied
<1>4. /\ c \in calls /\ c.at = "done" /\ c.tab = t /\ c.op = "resolve" /\ c.op \in PanelOps
      /\ p.pc = "accepting" /\ UNCHANGED <<serverVars, plan, storage>>
  BY <1>1, <1>3 DEF Replies, PanelOps, AcceptReplied
<1>5. PanelInv(t) /\ CallInv(c)
  BY <1>4, PageFacts
<1>6. c.arg.id = p.id /\ c.arg.action = "accept"
  BY <1>1, <1>4, <1>5 DEF PanelInv
<1>7. PICK K : K = calls \ {c}
  OBVIOUS
<1>8. K \subseteq calls /\ \A d \in K : ~(d.tab = t /\ d.op \in PanelOps)
  BY <1>4, <1>5, <1>7 DEF PanelInv, OneAtATime
<1>9. CASE calls' = K /\ WithPanel(t, FreshPanel) /\ UNCHANGED made /\ AppliedInv'
  <2>1. PICK f : f = FreshPanel
    OBVIOUS
  <2>2. f = [pc |-> f.pc, id |-> f.id, from |-> f.from, to |-> f.to]
    BY <2>1 DEF FreshPanel
  <2>3. Called(t, PanelOps) /\ PanelInv(t)'
    BY <1>8, <1>9, PanelEnds
  <2>4. made' \in [Counters -> Nat] /\ made'.items = made.items
    BY <1>9, PageFacts
  <2> QED BY <1>4, <1>9, <2>1, <2>2, <2>3, <2>4, PanelAction
<1>10. CASE c.status # 200
  <2>1. AppliedInv'
    BY <1>3, <1>4, <1>10, RecordsIdle
  <2> QED BY <1>3, <1>7, <1>9, <1>10, <2>1
<1>11. CASE c.status = 200 /\ applied' = applied \cup {p.id} /\ calls' = K
            /\ WithPanel(t, FreshPanel) /\ UNCHANGED made
  <2>1. document.exists => p.id \in DOMAIN suggestions /\ suggestions[p.id].status = "accepted"
    BY <1>4, <1>5, <1>6, <1>11 DEF CallInv, Told
  <2>2. AppliedInv /\ document' = document /\ suggestions' = suggestions
    BY <1>4 DEF PageInv, serverVars
  <2>3. AppliedInv'
    BY <1>11, <2>1, <2>2 DEF AppliedInv
  <2> QED BY <1>9, <1>11, <2>3
<1>12. CASE /\ Count("calls") /\ WithPanel(t, [p EXCEPT !.pc = "closing"])
            /\ calls' = K \cup
                 {Request(made.calls, t, User(t), "resolve", [id |-> p.id, action |-> "discharge"])}
            /\ UNCHANGED applied
  <2>1. PICK q : q = [p EXCEPT !.pc = "closing"]
    OBVIOUS
  <2>2. q = [pc |-> q.pc, id |-> q.id, from |-> q.from, to |-> q.to] /\ q.pc = "closing"
    BY <1>2, <2>1
  <2>3. PICK arg : arg = [id |-> p.id, action |-> "discharge"]
    OBVIOUS
  <2>4. PICK d : d = Request(made.calls, t, User(t), "resolve", arg)
    OBVIOUS
  <2>5. "resolve" \in PanelOps /\ calls' = K \cup {d} /\ WithPanel(t, q)
    BY <1>12, <2>1, <2>3, <2>4 DEF PanelOps
  <2>6. Called(t, PanelOps) /\ (tab'[t].panel = q => PanelInv(t)')
    BY <1>8, <2>2, <2>4, <2>5, PanelAsks
  <2>7. made' \in [Counters -> Nat] /\ made'.items = made.items
    BY <1>12, PageFacts, Counting DEF Counters
  <2>8. AppliedInv'
    BY <1>4, <1>12, RecordsIdle
  <2> QED BY <1>4, <2>2, <2>5, <2>6, <2>7, <2>8, PanelAction
<1> QED BY <1>3, <1>7, <1>10, <1>11, <1>12

-----------------------------------------------------------------------------
(* Sharing, the role, and the page as it opens *)

\* Requests whose replies change nothing but the role.
LEMMA SharingKeepsPage ==
    ASSUME PageInv, NEW t \in Tabs, ChangeStatus(t) \/ Manage(t) \/ Poll(t)
    PROVE  PageInv'
<1>1. PICK ops : ops = {"status", "grant", "revoke", "delete", "sharing"}
  OBVIOUS
<1>2. PICK op, arg : op \in ops /\ Send(t, op, arg)
  BY <1>1, Zenon DEF ChangeStatus, Manage, Poll
<1>3. PICK d : d = Request(made.calls, t, User(t), op, arg)
  OBVIOUS
<1>4. op # "save" /\ op # "rename" /\ ops \cap (BoxOps \cup PanelOps \cup {"save"}) = {}
  BY <1>1, <1>2 DEF BoxOps, PanelOps
<1>5. IsCall(d) /\ CallInv(d) /\ d.tab = t /\ d.op \in ops
  BY <1>2, <1>3, <1>4, Requested
<1>6. calls' \subseteq calls \cup {d}
  BY <1>2, <1>3 DEF Send
<1>7. Called(t, ops)
  BY <1>5, <1>6, Asked
<1>8. Count("calls") /\ UNCHANGED <<serverVars, plan, tab, storage, applied>>
  BY DEF ChangeStatus, Manage, Poll
<1>9. made' \in [Counters -> Nat] /\ made'.items = made.items
  BY <1>8, PageFacts, Counting DEF Counters
<1> QED BY <1>4, <1>7, <1>8, <1>9, StillAction

LEMMA AcknowledgedKeepsPage ==
    ASSUME PageInv, NEW t \in Tabs, Acknowledged(t)
    PROVE  PageInv'
<1>1. PICK ops : ops = {}
  OBVIOUS
<1>2. calls' \subseteq calls
  BY DEF Acknowledged
<1>3. Called(t, ops) /\ ops \cap (BoxOps \cup PanelOps \cup {"save"}) = {}
  BY <1>1, <1>2, Answered
<1>4. UNCHANGED <<serverVars, plan, tab, storage, applied, made>>
  BY DEF Acknowledged, pageVars
<1>5. made' \in [Counters -> Nat] /\ made'.items = made.items
  BY <1>4, PageFacts
<1> QED BY <1>3, <1>4, <1>5, StillAction

\* The role and the title come with the page's data.
LEMMA PollRepliedKeepsPage ==
    ASSUME PageInv, NEW t \in Tabs, PollReplied(t)
    PROVE  PageInv'
<1>1. PICK c \in Replies(t, {"sharing"}) :
         /\ calls' = calls \ {c}
         /\ IF c.status = 404 \/ (c.status = 200 /\ c.role # tab[t].role)
            THEN tab' = [tab EXCEPT ![t].title.prop = document.title, ![t].role =
                            IF document.exists THEN EffectiveRole(User(t)) ELSE None]
            ELSE UNCHANGED tab
  BY DEF PollReplied
<1>2. PICK ops : ops = {}
  OBVIOUS
<1>3. /\ Called(t, ops) /\ ops \cap (BoxOps \cup PanelOps \cup {"save"}) = {}
      /\ "save" \notin ops /\ ops \cap BoxOps = {} /\ ops \cap PanelOps = {}
  BY <1>1, <1>2, Answered
<1>4. /\ UNCHANGED <<serverVars, plan, storage, applied, made>>
      /\ made' \in [Counters -> Nat] /\ made'.items = made.items
  BY PageFacts DEF PollReplied
<1>5. CASE UNCHANGED tab
  BY <1>3, <1>4, <1>5, StillAction
<1>6. CASE \E r : tab' = [tab EXCEPT ![t].title.prop = document.title, ![t].role = r]
  <2>1. PICK r : tab' = [tab EXCEPT ![t].title.prop = document.title, ![t].role = r]
    BY <1>6
  <2>2. PICK y : y = tab[t]
    OBVIOUS
  <2>3. IsTab(y)
    BY <2>2, PageFacts
  <2>4. PICK f : f = [y.title EXCEPT !.prop = document.title]
    OBVIOUS
  <2>5. /\ f = [seen |-> f.seen, base |-> f.base, prop |-> f.prop, value |-> f.value,
                typed |-> f.typed]
        /\ f.seen = y.title.seen /\ f.base = y.title.base
    BY <2>3, <2>4 DEF IsTab
  <2>6. PICK x : x = [y EXCEPT !.title = f, !.role = r]
    OBVIOUS
  <2>7. /\ x.mirror = y.mirror /\ x.title = f /\ x.outbox = y.outbox /\ x.panel = y.panel
        /\ x = [role |-> x.role, mirror |-> x.mirror, title |-> x.title, outbox |-> x.outbox,
                panel |-> x.panel]
    BY <2>3, <2>6 DEF IsTab
  <2>8. IsTab(x)
    BY <2>3, <2>5, <2>7 DEF IsTab
  <2>9. tab' = [tab EXCEPT ![t] = x]
    BY <2>1, <2>2, <2>4, <2>6, PageFacts
  <2> QED BY <1>3, <1>4, <2>2, <2>5, <2>7, <2>8, <2>9, RecordsIdle, TabAction
<1> QED BY <1>1, <1>5, <1>6

\* What a tab holds when it opens.
LEMMA FreshTabIs ==
    ASSUME ServerTypeOK, NEW u, NEW x, x = FreshTab(u)
    PROVE  /\ IsTab(x)
           /\ Current(x.mirror.version, x.mirror.base)
           /\ x.mirror.status = "idle" /\ ~x.mirror.halted /\ x.mirror.pending = None
           /\ CurrentTitle(x.title.seen, x.title.base)
<1>1. PICK m : m = FreshMirror
  OBVIOUS
<1>2. PICK f : f = FreshTitle
  OBVIOUS
<1>3. PICK o : o = FreshOutbox
  OBVIOUS
<1>4. PICK p : p = FreshPanel
  OBVIOUS
<1>5. /\ m = [version |-> m.version, base |-> m.base, shown |-> m.shown, pending |-> m.pending,
              sending |-> m.sending, timer |-> m.timer, halted |-> m.halted, status |-> m.status]
      /\ m.version = document.contentVersion /\ m.base = document.content
      /\ m.status = "idle" /\ ~m.halted /\ m.pending = None
  BY <1>1 DEF FreshMirror
<1>6. /\ f = [seen |-> f.seen, base |-> f.base, prop |-> f.prop, value |-> f.value,
              typed |-> f.typed]
      /\ f.seen = document.metadataVersion /\ f.base = document.title
  BY <1>2 DEF FreshTitle
<1>7. /\ o = [queue |-> o.queue, attempted |-> o.attempted, item |-> o.item,
              saved |-> o.saved, pc |-> o.pc]
      /\ o.queue = {}
  BY <1>3 DEF FreshOutbox
<1>8. p = [pc |-> p.pc, id |-> p.id, from |-> p.from, to |-> p.to]
  BY <1>4 DEF FreshPanel
<1>9. /\ x = [role |-> x.role, mirror |-> x.mirror, title |-> x.title, outbox |-> x.outbox,
              panel |-> x.panel]
      /\ x.mirror = m /\ x.title = f /\ x.outbox = o /\ x.panel = p
  BY <1>1, <1>2, <1>3, <1>4 DEF FreshTab
<1>10. IsTab(x)
  BY <1>5, <1>6, <1>7, <1>8, <1>9 DEF IsTab
<1>11. Current(x.mirror.version, x.mirror.base) /\ CurrentTitle(x.title.seen, x.title.base)
  BY <1>5, <1>6, <1>9 DEF Current, CurrentTitle, ServerTypeOK
<1> QED BY <1>5, <1>9, <1>10, <1>11

\* A tab without a request is what its memory says.
LEMMA FreshTabInv ==
    ASSUME ServerTypeOK, UNCHANGED document, NEW t, NEW u, tab'[t] = FreshTab(u),
           \A c \in calls' : c.tab # t
    PROVE  MirrorInv(t)' /\ TitleInv(t)' /\ OutboxInv(t)' /\ PanelInv(t)'
<1>1. PICK x : x = FreshTab(u)
  OBVIOUS
<1>2. /\ Current(x.mirror.version, x.mirror.base)
      /\ x.mirror.status = "idle" /\ ~x.mirror.halted /\ x.mirror.pending = None
      /\ CurrentTitle(x.title.seen, x.title.base)
  BY <1>1, FreshTabIs
<1>3. Current(x.mirror.version, x.mirror.base)' /\ CurrentTitle(x.title.seen, x.title.base)'
  BY <1>2 DEF Current, CurrentTitle
<1>4. tab'[t] = x
  BY <1>1
<1>5. OneAtATime(t, {"save"})' /\ OneAtATime(t, BoxOps)' /\ OneAtATime(t, PanelOps)'
  BY DEF OneAtATime, BoxOps, PanelOps
<1>6. MirrorInv(t)'
  BY <1>2, <1>3, <1>4, <1>5 DEF MirrorInv
<1>7. TitleInv(t)'
  BY <1>3, <1>4 DEF TitleInv
<1>8. OutboxInv(t)' /\ PanelInv(t)'
  BY <1>5 DEF OutboxInv, PanelInv
<1> QED BY <1>6, <1>7, <1>8

\* The tab is opened again; its requests are nobody's.
LEMMA ReloadKeepsPage ==
    ASSUME PageInv, NEW t \in Tabs, Reload(t)
    PROVE  PageInv'
<1>1. PICK x : x = FreshTab(User(t))
  OBVIOUS
<1>2. ServerTypeOK /\ tab = [v \in Tabs |-> tab[v]] /\ \A c \in calls : IsCall(c) /\ CallInv(c)
  BY PageFacts
<1>3. IsTab(x) /\ tab' = [tab EXCEPT ![t] = x] /\ tab'[t] = FreshTab(User(t))
  BY <1>1, <1>2, FreshTabIs DEF Reload
<1>4. ASSUME NEW d \in calls'
      PROVE  d.tab # t /\ (d \in calls \/ (IsCall(d) /\ CallInv(d) /\ d.tab = None))
  <2>1. PICK c \in calls : d = IF c.tab = t THEN [c EXCEPT !.tab = None] ELSE c
    BY DEF Reload
  <2>2. CASE c.tab # t
    BY <2>1, <2>2
  <2>3. CASE c.tab = t
    <3>1. /\ IsCall(d) /\ d.tab = None /\ d.op = c.op /\ d.arg = c.arg /\ d.at = c.at
          /\ d.status = c.status /\ d.value = c.value
      BY <1>2, <2>1, <2>3 DEF IsCall
    <3>2. CallInv(d)
      BY <1>2, <3>1 DEF CallInv
    <3> QED BY <3>1, <3>2
  <2> QED BY <2>2, <2>3
<1>5. PICK ops : ops = {}
  OBVIOUS
<1>6. Called(t, ops)
  BY <1>4 DEF Called
<1>7. UNCHANGED document
  BY DEF Reload, serverVars
<1>8. MirrorInv(t)' /\ TitleInv(t)' /\ OutboxInv(t)' /\ PanelInv(t)'
  BY <1>2, <1>3, <1>4, <1>7, FreshTabInv
<1>9. made' \in [Counters -> Nat] /\ made'.items = made.items
  BY PageFacts, Counting DEF Reload, Counters
<1> QED BY <1>3, <1>6, <1>8, <1>9, RecordsIdle, TabAction DEF Reload

-----------------------------------------------------------------------------
(* The invariant *)

LEMMA PageStarts == Init => PageInv
<1> SUFFICES ASSUME Init PROVE PageInv
  OBVIOUS
<1>1. /\ document = [exists |-> TRUE, content |-> 0, contentVersion |-> 1,
                     title |-> 0, metadataVersion |-> 1]
      /\ messages = {} /\ suggestions = <<>> /\ calls = {}
      /\ plan \in Plans /\ tab = [t \in Tabs |-> FreshTab(User(t))]
      /\ storage = [u \in Users |-> {}] /\ applied = {}
      /\ made = [counter \in Counters |-> 0]
  BY DEF Init, ServerInit
<1>2. ServerTypeOK
  <2>1. IsRecords(suggestions)
    BY <1>1 DEF IsRecords
  <2> QED BY <1>1, <2>1 DEF ServerTypeOK
<1>3. ASSUME NEW t \in Tabs
      PROVE  IsTab(tab[t]) /\ MirrorInv(t) /\ TitleInv(t) /\ OutboxInv(t) /\ PanelInv(t)
  <2>1. PICK x : x = FreshTab(User(t))
    OBVIOUS
  <2>2. /\ IsTab(x) /\ Current(x.mirror.version, x.mirror.base)
        /\ x.mirror.status = "idle" /\ ~x.mirror.halted /\ x.mirror.pending = None
        /\ CurrentTitle(x.title.seen, x.title.base)
    BY <1>2, <2>1, FreshTabIs
  <2>3. tab[t] = x
    BY <1>1, <2>1
  <2>4. OneAtATime(t, {"save"}) /\ OneAtATime(t, BoxOps) /\ OneAtATime(t, PanelOps)
    BY <1>1 DEF OneAtATime
  <2>5. MirrorInv(t)
    BY <1>1, <2>2, <2>3, <2>4 DEF MirrorInv
  <2>6. TitleInv(t)
    BY <2>2, <2>3 DEF TitleInv
  <2>7. OutboxInv(t) /\ PanelInv(t)
    BY <1>1, <2>4 DEF OutboxInv, PanelInv
  <2> QED BY <2>2, <2>3, <2>5, <2>6, <2>7
<1>4. PageTypeOK
  <2>1. made \in [Counters -> Nat]
    BY <1>1
  <2> QED BY <1>1, <1>2, <1>3, <2>1 DEF PageTypeOK
<1>5. CallsInv /\ TabsInv /\ AppliedInv
  BY <1>1, <1>3 DEF CallsInv, TabsInv, AppliedInv
<1>6. CommentKept
  <2>1. made.items = 0
    BY <1>1 DEF Counters
  <2>2. 1..made.items = {}
    BY <2>1
  <2> QED BY <2>2 DEF CommentKept
<1> QED BY <1>4, <1>5, <1>6 DEF PageInv

\* Every step of the page and of the services.
LEMMA PageStep == PageInv /\ [Next]_vars => PageInv'
<1> SUFFICES ASSUME PageInv, [Next]_vars PROVE PageInv'
  OBVIOUS
<1>1. CASE ServerStep /\ UNCHANGED pageVars
  BY <1>1, ServerKeepsPage
<1>2. ASSUME NEW c \in calls, Lose(c) PROVE PageInv'
  BY <1>2, LoseKeepsPage
<1>3. CASE PeerEdit
  BY <1>3, PeerEditKeepsPage
<1>4. ASSUME NEW t \in Tabs, WriteThread(t) \/ WriteReply(t) PROVE PageInv'
  <2>1. PICK kind \in {"thread", "reply"} : \E x : Write(t, kind, x)
    BY <1>4 DEF WriteThread, WriteReply
  <2> QED BY <2>1, WriteKeepsPage
<1>5. ASSUME NEW t \in Tabs,
             \/ Reload(t)
             \/ Type(t) \/ Flush(t) \/ SaveReplied(t)
             \/ TypeTitle(t) \/ DebouncedRename(t) \/ SubmitTitle(t) \/ RenameReplied(t)
             \/ MountPanel(t) \/ RetryOutbox(t)
             \/ ItemReplied(t) \/ Refreshed(t) \/ ChangeStatus(t)
             \/ Propose(t) \/ Accept(t) \/ Decline(t) \/ AcceptReplied(t) \/ PanelReplied(t)
             \/ Manage(t) \/ Acknowledged(t) \/ Poll(t) \/ PollReplied(t)
      PROVE  PageInv'
  <2>1. CASE Reload(t) \/ Type(t) \/ Flush(t) \/ SaveReplied(t)
    BY <2>1, ReloadKeepsPage, TypeKeepsPage, FlushKeepsPage, SaveRepliedKeepsPage
  <2>2. CASE TypeTitle(t) \/ DebouncedRename(t) \/ SubmitTitle(t) \/ RenameReplied(t)
    BY <2>2, TitleStepsKeepPage, SubmitTitleKeepsPage, RenameRepliedKeepsPage
  <2>3. CASE MountPanel(t) \/ RetryOutbox(t) \/ ItemReplied(t) \/ Refreshed(t)
    BY <2>3, RetryKeepsPage, ItemRepliedKeepsPage, RefreshedKeepsPage
  <2>4. CASE Propose(t) \/ Accept(t) \/ Decline(t) \/ AcceptReplied(t) \/ PanelReplied(t)
    BY <2>4, PanelSendsKeepPage, AcceptRepliedKeepsPage, PanelRepliedKeepsPage
  <2>5. CASE ChangeStatus(t) \/ Manage(t) \/ Acknowledged(t) \/ Poll(t) \/ PollReplied(t)
    BY <2>5, SharingKeepsPage, AcknowledgedKeepsPage, PollRepliedKeepsPage
  <2> QED BY <1>5, <2>1, <2>2, <2>3, <2>4, <2>5
<1>6. CASE UNCHANGED vars
  <2>1. PageTypeOK /\ CallsInv /\ ServerTypeOK
    BY DEF PageInv, PageTypeOK
  <2>2. UNCHANGED <<serverVars, calls, plan, tab, storage, applied, made>>
    BY <1>6 DEF vars, pageVars
  <2>3. ServerGrown /\ ServerTypeOK'
    BY <2>1, <2>2, GrownIdle
  <2>4. \A d \in calls' : IsCall(d) /\ CallInv(d)'
    <3>1. \A d \in calls : CallInv(d)'
      BY <2>1, <2>3, CallKept DEF CallsInv
    <3> QED BY <2>1, <2>2, <3>1 DEF PageTypeOK
  <2>5. \A t, G : Carried(t, G)
    BY <2>2, CarriedAway
  <2>6. made' \in [Counters -> Nat] /\ made'.items = made.items
    BY <2>2, PageFacts
  <2> QED BY <2>2, <2>3, <2>4, <2>5, <2>6, SteadyKeepsPage
<1> QED BY <1>1, <1>2, <1>3, <1>4, <1>5, <1>6 DEF Next

\* What callers were told, what tabs show and what is stored agree in every state
\* that the page and the services reach.
THEOREM PageInvariant == Spec => []PageInv
<1>1. Init => PageInv
  BY PageStarts
<1>2. PageInv /\ [Next]_vars => PageInv'
  BY PageStep
<1> QED BY <1>1, <1>2, PTL DEF Spec

\* What the page shows as saved or applied is so: AfterSave counts what was sent,
\* and a replacement waits for the record (provider.tsx flush, suggestions-panel.tsx
\* resolveSuggestion).
THEOREM PageHonest == Spec => []PageIsHonest
<1>1. PageInv => PageIsHonest
  BY DEF PageInv, TabsInv, MirrorInv, AppliedInv, PageIsHonest, SavedIsHonest, AppliedWasAccepted
<1> QED BY <1>1, PageInvariant, PTL

\* A comment shown as written is in the outbox of its account or in the database
\* (comments-panel.tsx flushOutbox, outbox.ts, services/comments.ts).
THEOREM CommentsKept == Spec => []CommentKept
<1>1. PageInv => CommentKept
  BY DEF PageInv
<1> QED BY <1>1, PageInvariant, PTL

-----------------------------------------------------------------------------
(* The conditional updates *)

\* Each step of a service takes one request away: a save that reached its update
\* leaves calls when it changes the text, and no other request does.
LEMMA ServerKnowing ==
    ASSUME PageInv, ServerStep
    PROVE  Knowing
<1>1. SUFFICES ASSUME NEW c \in calls, c \notin calls', c.at = "checked"
               PROVE  /\ c.op = "save" /\ document'.content # document.content =>
                            c.arg.base = document.content
                      /\ c.op = "rename" /\ document'.title # document.title =>
                            c.arg.base = document.title
  BY DEF Knowing
<1>2. ServerTypeOK /\ CallInv(c)
  BY PageFacts
<1>3. PICK d \in calls :
        \/ Authorize(d) \/ ReadDocument(d)
        \/ SaveContent(d) \/ RenameDocument(d) \/ DeleteDocument(d)
        \/ FindGrant(d) \/ UpsertGrant(d) \/ RevokePermission(d)
        \/ CreateThread(d) \/ AddMessage(d) \/ SetStatus(d)
        \/ ProposeSuggestion(d) \/ ResolveSuggestion(d)
  BY DEF ServerStep
<1>4. CASE document'.content = document.content /\ document'.title = document.title
  BY <1>4
<1>5. CASE SaveContent(d)
  <2>1. \E s, v : Reply(d, s, v)
    BY <1>5, Zenon DEF SaveContent, Stale, Fails
  <2>2. c = d
    BY <1>1, <2>1 DEF Reply
  <2>3. CASE /\ Matches(document.contentVersion, d.arg.expected)
             /\ UpdateContent(d.arg.content)
    BY <1>2, <1>5, <2>2, <2>3 DEF SaveContent, Runs, Matches, CallInv, Current
  <2>4. CASE Stale(d)
    BY <1>4, <2>4 DEF Stale, Fails, serverVars
  <2> QED BY <1>5, <2>3, <2>4 DEF SaveContent
<1>6. CASE RenameDocument(d)
  <2>1. \E s, v : Reply(d, s, v)
    BY <1>6, Zenon DEF RenameDocument, Stale, Fails
  <2>2. c = d
    BY <1>1, <2>1 DEF Reply
  <2>3. CASE /\ Matches(document.metadataVersion, d.arg.expected)
             /\ UpdateTitle(d.arg.title)
    BY <1>2, <1>6, <2>2, <2>3 DEF RenameDocument, Runs, Matches, CallInv, CurrentTitle
  <2>4. CASE Stale(d)
    BY <1>4, <2>4 DEF Stale, Fails, serverVars
  <2> QED BY <1>6, <2>3, <2>4 DEF RenameDocument
<1>7. CASE DeleteDocument(d)
  <2>1. document' = [document EXCEPT !.exists = FALSE]
    BY <1>7 DEF DeleteDocument, DeleteById
  <2> QED BY <1>2, <1>4, <2>1 DEF ServerTypeOK
<1>8. CASE ~(SaveContent(d) \/ RenameDocument(d) \/ DeleteDocument(d))
  <2>1. document' = document
    <3>1. CASE Authorize(d) \/ ReadDocument(d) \/ FindGrant(d) \/ UpsertGrant(d) \/ RevokePermission(d)
      BY <3>1 DEF Authorize, ReadDocument, FindGrant, UpsertGrant, RevokePermission, Fails, serverVars
    <3>2. CASE CreateThread(d)
      BY <3>2 DEF CreateThread, Fails, serverVars
    <3>3. CASE AddMessage(d)
      BY <3>3 DEF AddMessage, Fails, serverVars
    <3>4. CASE SetStatus(d)
      BY <3>4 DEF SetStatus, Fails, serverVars
    <3>5. CASE ProposeSuggestion(d)
      BY <3>5 DEF ProposeSuggestion, Fails, serverVars
    <3>6. CASE ResolveSuggestion(d)
      BY <3>6 DEF ResolveSuggestion, Fails, serverVars
    <3> QED BY <1>3, <1>8, <3>1, <3>2, <3>3, <3>4, <3>5, <3>6
  <2> QED BY <1>4, <2>1
<1> QED BY <1>5, <1>6, <1>7, <1>8

\* The steps of the page leave the document alone.
LEMMA PageLeavesDocument ==
    ASSUME Next, ~ServerStep
    PROVE  document' = document
<1>1. ASSUME NEW c \in calls, Lose(c) PROVE document' = document
  BY <1>1 DEF Lose, serverVars
<1>2. CASE PeerEdit
  BY <1>2 DEF PeerEdit, serverVars
<1>3. ASSUME NEW t \in Tabs, WriteThread(t) \/ WriteReply(t) PROVE document' = document
  BY <1>3 DEF WriteThread, WriteReply, Write, serverVars
<1>4. ASSUME NEW t \in Tabs,
             \/ Reload(t)
             \/ Type(t) \/ Flush(t) \/ SaveReplied(t)
             \/ TypeTitle(t) \/ DebouncedRename(t) \/ SubmitTitle(t) \/ RenameReplied(t)
             \/ MountPanel(t) \/ RetryOutbox(t)
             \/ ItemReplied(t) \/ Refreshed(t) \/ ChangeStatus(t)
             \/ Propose(t) \/ Accept(t) \/ Decline(t) \/ AcceptReplied(t) \/ PanelReplied(t)
             \/ Manage(t) \/ Acknowledged(t) \/ Poll(t) \/ PollReplied(t)
      PROVE  UNCHANGED serverVars
  BY <1>4 DEF Reload, Type, Flush, SaveReplied, TypeTitle, DebouncedRename, SubmitTitle,
              RenameReplied, MountPanel, RetryOutbox, ItemReplied, Refreshed, ChangeStatus,
              Propose, Accept, Decline, AcceptReplied, PanelReplied, Manage, Acknowledged,
              Poll, PollReplied
<1> QED BY <1>1, <1>2, <1>3, <1>4 DEF Next, serverVars

\* The stored text and title are replaced only by a request whose writer had seen
\* what it replaces (services/documents.ts, saveDocumentContent and renameDocument).
THEOREM NoOverwrite == Spec => NoBlindOverwrite
<1>1. PageInv /\ [Next]_vars => [Knowing]_vars
  <2> SUFFICES ASSUME PageInv, Next PROVE Knowing
    OBVIOUS
  <2>1. CASE ServerStep
    BY <2>1, ServerKnowing
  <2>2. CASE ~ServerStep
    BY <2>2, PageLeavesDocument DEF Knowing
  <2> QED BY <2>1, <2>2
<1> QED BY <1>1, PageInvariant, PTL DEF Spec, NoBlindOverwrite
=============================================================================
