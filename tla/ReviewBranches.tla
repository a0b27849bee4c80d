--------------------------- MODULE ReviewBranches ---------------------------
(***************************************************************************)
(* Shared review branches: the browser panel that compares, merges and     *)
(* recovers an interrupted merge (review-branches-panel.tsx and            *)
(* lib/review-branches.ts), the web proxy, and the gateway handlers        *)
(* (maintenance/branches.rs).  One reviewer works in several tabs of one   *)
(* browser, which share localStorage; other people edit main and the       *)
(* branch.  What a plan contains is BlockMerge's business: here a document *)
(* is the number of edits it holds, and a comparison the two numbers.      *)
(***************************************************************************)
EXTENDS Integers, FiniteSets

CONSTANTS
    Tabs,
    Names,        \* branch names the reviewer may type
    MaxEdits,     \* bound on the edits of a document
    MaxIntents,   \* bound on the branches the reviewer wants
    MaxAttempts,  \* bound on the calls sent, a merge's first call counting twice
    MaxBranches   \* the gateway's limit of branches per main document

VARIABLES
    work,       \* what the reviewer does: "merge" or "create"
    head,       \* head.main and head.branch: the durable cursors
    allowed,    \* the reviewer may edit main and read the branch
    merges,     \* review_merges: the committed records
    stored,     \* localStorage: the requests saved under their ids
    panel,      \* the state of the panel in each tab
    calls,      \* calls of merge, from the browser to their end
    used,       \* how many requests and calls there were
    told,       \* the answers that made the browser forget a request: [id, answer]
    branches,   \* review_branches
    form,       \* each tab's creation form
    attempts    \* calls of create

vars == <<work, head, allowed, merges, stored, panel, calls, used, told, branches, form, attempts>>

Documents == {"main", "branch"}
NoComparison == [main |-> -1, branch |-> -1]
NoRequest == [id |-> 0, main |-> -1, branch |-> -1]
Idle == [does |-> "nothing", seen |-> NoComparison, pending |-> {},
         request |-> NoRequest]
NoCreation == [id |-> 0, name |-> ""]
Blank == [name |-> "", intent |-> 0, creation |-> NoCreation, waits |-> 0]

Init ==
    /\ work \in {"merge", "create"}
    /\ head = [d \in Documents |-> 0]
    /\ allowed = TRUE
    /\ merges = {} /\ stored = {} /\ calls = {} /\ told = {} /\ branches = {} /\ attempts = {}
    /\ panel = [t \in Tabs |-> Idle]
    /\ used = [requests |-> 0, calls |-> 0, intents |-> 0, ids |-> 0]
    /\ form = [t \in Tabs |-> Blank]

Merging == work = "merge"
Creating == work = "create"
creation == <<branches, form, attempts>>
review == <<head, allowed, merges, stored, panel, told>>

-----------------------------------------------------------------------------
(* Other people.                                                           *)

Edit(d) ==
    /\ Merging /\ head[d] < MaxEdits
    /\ head' = [head EXCEPT ![d] = @ + 1]
    /\ UNCHANGED <<work, allowed, merges, stored, panel, calls, used, told, creation>>

Revoke ==
    /\ Merging /\ allowed /\ allowed' = FALSE
    /\ UNCHANGED <<work, head, merges, stored, panel, calls, used, told, creation>>

-----------------------------------------------------------------------------
(* The panel: comparing.                                                   *)

\* A click on Compare or Refresh comparison.
Compare(t) ==
    /\ Merging /\ panel[t].does = "nothing"
    /\ panel' = [panel EXCEPT ![t].does = "comparing", ![t].pending = stored,
                              ![t].seen = [main |-> head.main, branch |-> -1]]
    /\ UNCHANGED <<work, head, allowed, merges, stored, calls, used, told, creation>>

\* The comparison arrives; main's cursor was read before the branch's.  A
\* failed one, or one without access, leaves nothing to merge.
Compared(t) ==
    /\ panel[t].does = "comparing"
    /\ \/ /\ allowed
          /\ panel' = [panel EXCEPT ![t].does = "nothing", ![t].seen.branch = head.branch]
       \/ panel' = [panel EXCEPT ![t].does = "nothing", ![t].seen = NoComparison]
    /\ UNCHANGED <<work, head, allowed, merges, stored, calls, used, told, creation>>

-----------------------------------------------------------------------------
(* The panel: merging.                                                     *)

\* The request goes to the gateway through the proxy.
Send(t, request, storage) ==
    /\ used.calls + used.requests + (IF storage = stored THEN 1 ELSE 2) <= MaxAttempts
    /\ stored' = storage
    /\ panel' = [panel EXCEPT ![t].does = "waiting", ![t].request = request]
    /\ calls' = calls \cup {[n |-> used.calls + 1, to |-> t, request |-> request,
                             stage |-> "arrived", answer |-> "none"]}

\* Retry saved merge: the first of the requests the panel has loaded.
Retry(t) ==
    /\ Merging /\ panel[t].does = "nothing"
    /\ \E request \in panel[t].pending : Send(t, request, stored)
    /\ used' = [used EXCEPT !.calls = @ + 1]
    /\ UNCHANGED <<work, head, allowed, merges, told, creation>>

\* Merge selected changes, in a panel that knows of no saved request.
MayMerge(t) == /\ Merging /\ panel[t].does = "nothing"
               /\ panel[t].pending = {} /\ panel[t].seen.branch # -1

\* If another tab has saved one meanwhile, that one is sent.
MergeSaved(t) ==
    /\ MayMerge(t)
    /\ \E request \in stored : Send(t, request, stored)
    /\ used' = [used EXCEPT !.calls = @ + 1]
    /\ UNCHANGED <<work, head, allowed, merges, told, creation>>

\* Otherwise the editor is flushed and its digest compared with the
\* comparison's.  The replica may stand where the comparison does, or not.
StartMerge(t) ==
    /\ MayMerge(t) /\ stored = {}
    /\ panel' = [panel EXCEPT ![t].does = "verifying"]
    /\ UNCHANGED <<work, head, allowed, merges, stored, calls, used, told, creation>>

VerifyFails(t) ==
    /\ panel[t].does = "verifying"
    /\ panel' = [panel EXCEPT ![t].does = "nothing", ![t].pending = stored]
    /\ UNCHANGED <<work, head, allowed, merges, stored, calls, used, told, creation>>

\* The new request is saved before it is sent.
MergeNew(t) ==
    LET request == [id |-> used.requests + 1, main |-> panel[t].seen.main,
                    branch |-> panel[t].seen.branch]
    IN /\ panel[t].does = "verifying"
       /\ Send(t, request, stored \cup {request})
       /\ used' = [used EXCEPT !.requests = @ + 1, !.calls = @ + 1]
       /\ UNCHANGED <<work, head, allowed, merges, told, creation>>

\* The answers after which the browser removes a saved request.
Forgets(answer) == answer \in {"merged", "review_is_stale", "resolve_conflict_explicitly",
                               "invalid_request"}

\* An answer reaches the panel.  After a merge it compares again.
Hear(t, answer) ==
    LET request == panel[t].request
        kept == IF Forgets(answer) THEN stored \ {request} ELSE stored
    IN /\ stored' = kept
       /\ told' = IF Forgets(answer) THEN told \cup {[id |-> request.id, answer |-> answer]}
                  ELSE told
       /\ panel' = [panel EXCEPT ![t].does = IF answer = "merged" THEN "comparing" ELSE "nothing",
                                 ![t].pending = kept,
                                 ![t].seen = IF answer = "merged" THEN [main |-> head.main, branch |-> -1] ELSE @,
                                 ![t].request = NoRequest]

Answered(c) ==
    /\ c.answer # "none" /\ c.to \in Tabs
    /\ Hear(c.to, c.answer)
    /\ calls' = calls \ {c}
    /\ UNCHANGED <<work, head, allowed, merges, used, creation>>

\* The connection to the browser breaks; the proxy's own call goes on.
Lose(c) ==
    /\ Merging /\ c.to \in Tabs
    /\ Hear(c.to, "gateway_unavailable")
    /\ calls' = (calls \ {c}) \cup (IF c.answer = "none" THEN {[c EXCEPT !.to = "nobody"]} ELSE {})
    /\ UNCHANGED <<work, head, allowed, merges, used, creation>>

Reload(t) ==
    /\ Merging /\ panel[t].does # "nothing"
    /\ panel' = [panel EXCEPT ![t] = Idle]
    /\ calls' = {IF c.to = t THEN [c EXCEPT !.to = "nobody"] ELSE c : c \in calls}
    /\ UNCHANGED <<work, head, allowed, merges, stored, used, told, creation>>

-----------------------------------------------------------------------------
(* The gateway: merge.                                                     *)

\* A call nobody waits for ends silently.
Answer(c, answer) ==
    calls' = (calls \ {c}) \cup
                 (IF c.to = "nobody" THEN {} ELSE {[c EXCEPT !.stage = "over", !.answer = answer]})

Proceed(c, stage) == calls' = (calls \ {c}) \cup {[c EXCEPT !.stage = stage]}

Retried(c) == \E m \in merges : m.request = c.request

Current(c) == head.main = c.request.main /\ head.branch = c.request.branch

\* First transaction: access, then the lookup of an earlier run.
Lookup(c) ==
    /\ Merging /\ c.stage = "arrived"
    /\ IF ~allowed THEN Answer(c, "not_found")
       ELSE IF Retried(c) THEN Answer(c, "merged")
       ELSE Proceed(c, "looked up")
    /\ UNCHANGED <<work, review, used, creation>>

\* Without a lock: the cursors, the plan and the worker's batch.
Generate(c) ==
    /\ c.stage = "looked up"
    /\ IF Current(c) THEN Proceed(c, "generated") \/ Answer(c, "branches_unavailable")
       ELSE Answer(c, "review_is_stale")
    /\ UNCHANGED <<work, review, used, creation>>

\* Mutant: the heads are not read again under the locks.
UnlockedCommit(c) ==
    /\ c.stage = "generated"
    /\ \/ /\ allowed /\ ~Retried(c)
          /\ head' = [head EXCEPT !.main = @ + 1]
          /\ merges' = merges \cup {[request |-> c.request, result |-> head.main + 1,
                                     source |-> head.branch]}
          /\ Answer(c, "merged")
       \/ /\ ~allowed /\ Answer(c, "not_found") /\ UNCHANGED <<head, merges>>
       \/ /\ Retried(c) /\ Answer(c, "merged") /\ UNCHANGED <<head, merges>>
    /\ UNCHANGED <<work, allowed, stored, panel, used, told, creation>>

\* Second transaction, under both documents' locks: the edits, the two named
\* revisions and the record, together.
Commit(c) ==
    /\ c.stage = "generated"
    /\ IF allowed /\ ~Retried(c) /\ Current(c)
       THEN /\ head' = [head EXCEPT !.main = @ + 1]
            /\ merges' = merges \cup {[request |-> c.request, result |-> head.main + 1,
                                       source |-> head.branch]}
            /\ Answer(c, "merged")
       ELSE /\ Answer(c, IF ~allowed THEN "not_found"
                         ELSE IF Retried(c) THEN "merged" ELSE "review_is_stale")
            /\ UNCHANGED <<head, merges>>
    /\ UNCHANGED <<work, allowed, stored, panel, used, told, creation>>

\* The proxy gives up after its minute, or the gateway stops: the handler ends
\* where it is, and an open transaction is rolled back.
Abandon(c) ==
    /\ Merging /\ c.stage # "over"
    /\ Answer(c, "gateway_unavailable")
    /\ UNCHANGED <<work, review, used, creation>>

-----------------------------------------------------------------------------
(* Creating a branch.  An intent is one branch the reviewer wants: until   *)
(* it is created or the form is changed.                                   *)

Type(t, name) ==
    /\ Creating /\ form[t].waits = 0 /\ name # form[t].name /\ used.intents < MaxIntents
    /\ used' = [used EXCEPT !.intents = @ + 1]
    /\ form' = [form EXCEPT ![t].name = name, ![t].intent = used.intents + 1]
    /\ UNCHANGED <<work, review, calls, attempts, branches>>

\* An attempt with an unchanged form keeps the id of the failed one.
Attempt(t) ==
    IF form[t].creation.id # 0 /\ form[t].creation.name = form[t].name THEN form[t].creation
    ELSE [id |-> used.ids + 1, name |-> form[t].name]

Create(t) ==
    /\ Creating /\ form[t].name # "" /\ form[t].waits = 0 /\ used.calls < MaxAttempts
    /\ LET attempt == Attempt(t)
       IN /\ form' = [form EXCEPT ![t].creation = attempt, ![t].waits = used.calls + 1]
          /\ attempts' = attempts \cup {[n |-> used.calls + 1, branch |-> attempt,
                                   intent |-> form[t].intent, stage |-> "arrived"]}
    /\ used' = [used EXCEPT !.calls = @ + 1, !.ids = @ + 1]
    /\ UNCHANGED <<work, review, calls, branches>>

\* The panel hears of its attempt; the name typed is gone after a success.
Created(t) == form' = [form EXCEPT ![t] = Blank]
NotCreated(t) == form' = [form EXCEPT ![t].waits = 0]

Settle(c, success) ==
    /\ attempts' = attempts \ {c}
    /\ IF \E t \in Tabs : form[t].waits = c.n
       THEN LET t == CHOOSE u \in Tabs : form[u].waits = c.n
            IN IF success THEN Created(t) ELSE NotCreated(t)
       ELSE UNCHANGED form

Exists(c) == \E b \in branches : b.id = c.branch.id

\* First the lookup by id, then the base revision is read and replayed.
LookupBranch(c) ==
    /\ Creating /\ c.stage = "arrived"
    /\ IF Exists(c) THEN Settle(c, TRUE)
       ELSE /\ attempts' = (attempts \ {c}) \cup {[c EXCEPT !.stage = "generated"]}
            /\ UNCHANGED form
    /\ UNCHANGED <<work, review, calls, used, branches>>

\* Under main's lock: the lookup again, the limit, the document and its row.
InsertBranch(c) ==
    /\ Creating /\ c.stage = "generated"
    /\ IF ~Exists(c) /\ Cardinality(branches) < MaxBranches
       THEN /\ branches' = branches \cup {[id |-> c.branch.id, name |-> c.branch.name,
                                           intent |-> c.intent]}
            /\ Settle(c, TRUE)
       ELSE Settle(c, Exists(c)) /\ UNCHANGED branches
    /\ UNCHANGED <<work, review, calls, used>>

\* The answer is lost, with the handler going on or abandoned.
LoseCreation(t) ==
    /\ Creating /\ form[t].waits # 0
    /\ NotCreated(t)
    /\ \/ attempts' = {c \in attempts : c.n # form[t].waits}
       \/ UNCHANGED attempts
    /\ UNCHANGED <<work, review, calls, used, branches>>

-----------------------------------------------------------------------------
Next ==
    \/ \E d \in Documents : Edit(d)
    \/ Revoke
    \/ \E t \in Tabs :
           \/ Compare(t) \/ Compared(t)
           \/ Retry(t) \/ MergeSaved(t) \/ StartMerge(t) \/ VerifyFails(t) \/ MergeNew(t) \/ Reload(t)
           \/ Create(t) \/ LoseCreation(t) \/ \E name \in Names : Type(t, name)
    \/ \E c \in calls :
           Lookup(c) \/ Generate(c) \/ Commit(c) \/ Abandon(c) \/ Answered(c) \/ Lose(c)
    \/ \E c \in attempts : LookupBranch(c) \/ InsertBranch(c)

Spec == Init /\ [][Next]_vars

-----------------------------------------------------------------------------
(* What review branches promise.                                           *)

\* A merge joins main directly after the state the reviewer compared, from
\* the branch as it was compared: no edit of anyone came between (the cursor
\* checks of merge() in branches.rs).
MergeIsReviewed ==
    \A m \in merges : m.result = m.request.main + 1 /\ m.source = m.request.branch

\* A merge that committed is one the browser was told of or can still
\* recover: its request stays in localStorage over lost answers, reloads and
\* failures (merge() in review-branches-panel.tsx).
MergeRecoverable ==
    \A m \in merges :
        \/ m.request \in stored
        \/ \E a \in told : a.id = m.request.id /\ a.answer \in {"merged", "review_is_stale"}

\* A branch the reviewer asked for once exists once, however often the call
\* was repeated (create() in review-branches-panel.tsx and branches.rs).
CreatedOnce == \A b, d \in branches : b.intent = d.intent => b = d

\* A request refused as stale has not been merged, nor will it be
\* (docs/REVIEW_BRANCHES.md, "Recovering an interrupted merge").
RefusedIsNotMerged ==
    \A a \in told : a.answer = "review_is_stale" =>
        \A m \in merges : m.request.id # a.id

-----------------------------------------------------------------------------
(* Why the promises are kept.                                              *)

Requests == [id : Nat, main : Int, branch : Int]
Answers == {"none", "merged", "review_is_stale", "not_found", "branches_unavailable",
            "gateway_unavailable"}
Panels == [does : {"nothing", "comparing", "verifying", "waiting"},
           seen : [main : Int, branch : Int], pending : SUBSET Requests, request : Requests]
Calls == [n : Nat, to : Tabs \cup {"nobody"}, request : Requests,
          stage : {"arrived", "looked up", "generated", "over"}, answer : Answers]

ReviewTypeOK ==
    /\ head \in [Documents -> Nat] /\ stored \subseteq Requests
    /\ panel \in [Tabs -> Panels] /\ calls \subseteq Calls
    /\ used \in [requests : Nat, calls : Nat, intents : Nat, ids : Nat]

Creations == [id : Nat, name : Names \cup {""}]
Forms == [name : Names \cup {""}, intent : Nat, creation : Creations, waits : Nat]
Attempts == [n : Nat, branch : Creations, intent : Nat, stage : {"arrived", "generated"}]

CreationTypeOK == form \in [Tabs -> Forms] /\ attempts \subseteq Attempts

\* What the browser saved, or was told the end of.
Recoverable(request) ==
    \/ request \in stored
    \/ \E a \in told : a.id = request.id /\ a.answer \in {"merged", "review_is_stale"}

\* Whatever may still be sent or committed is recoverable.
RecoverInv ==
    /\ \A m \in merges : Recoverable(m.request)
    /\ \A c \in calls : Recoverable(c.request)
    /\ \A t \in Tabs : \A request \in panel[t].pending : Recoverable(request)

\* The ids under which the branch of an intent was asked for or made.
Asked == {[id |-> c.branch.id, intent |-> c.intent] : c \in attempts}
             \cup {[id |-> b.id, intent |-> b.intent] : b \in branches}

\* One id for each intent; the form that the intent belongs to keeps the id
\* and the name it was asked for under.
IntentInv ==
    /\ \A x, y \in Asked : x.intent = y.intent => x.id = y.id
    /\ \A x \in Asked : x.intent \in 1 .. used.intents /\ x.id # 0
    /\ \A t \in Tabs :
           /\ form[t].intent \in 0 .. used.intents
           /\ form[t].intent = 0 => form[t].name = ""
           /\ \A x \in Asked : x.intent = form[t].intent =>
                  form[t].creation = [id |-> x.id, name |-> form[t].name]
    /\ \A t, u \in Tabs : form[t].intent = form[u].intent /\ form[t].intent # 0 => t = u

\* An id names one branch.
OneBranch == \A b, d \in branches : b.id = d.id => b = d

ReviewInv == ReviewTypeOK /\ MergeIsReviewed /\ RecoverInv
CreationInv == CreationTypeOK /\ IntentInv /\ OneBranch
BranchesInv == ReviewInv /\ CreationInv
=============================================================================
