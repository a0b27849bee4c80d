----------------------------- MODULE EditorBridge -----------------------------
(***************************************************************************)
(* The bridge between one editor and its CRDT worker (editor-bridge.ts,    *)
(* worker/client.ts, worker/core.ts), once start() is over.                *)
(*                                                                         *)
(* Handlers run on one thread and are cut where they await a reply of the  *)
(* worker, which serves requests in order.  Three activities interleave:   *)
(* the mutation lane (local diffs and remote batches, one job at a time),  *)
(* the snapshot import, which renders outside the lane, and the user.      *)
(***************************************************************************)
EXTENDS EditorDiff

CONSTANTS
    Letters,         \* what the user and the peers type
    Documents,       \* the streams an editor is opened on
    MaxItems,        \* bound on the length of a stream
    Plans,           \* how often each event happens
    Careful          \* no key while a render reconciles

Events == {"key", "peer", "import", "slow", "write"}

ASSUME BridgeAssumption ==
    /\ MaxItems \in Nat /\ Plans \subseteq [Events -> Nat] /\ Careful \in BOOLEAN

VARIABLES
    doc,             \* the stream of the worker's engine, equal to its durable log
    replies,         \* the worker's answers, in order
    ed,              \* the editor's document
    b,               \* what the bridge keeps in memory, and its requests
    budget           \* what may still happen

vars == <<doc, replies, ed, b, budget>>

Spend(kind) == budget[kind] > 0 /\ budget' = [budget EXCEPT ![kind] = @ - 1]

\* TipTap ends every document with a paragraph.
Closed(blocks) == IF Last(blocks).type = Paragraph THEN blocks ELSE Append(blocks, Blank)

\* start() over an existing replica: the editor shows its stream.
Init ==
    /\ doc \in Documents
    /\ replies = <<>>
    /\ ed = Closed(Blocks(doc))
    /\ b = [view |-> doc, last |-> ed, mode |-> "crdt", calls |-> <<>>,
            jobs |-> <<>>, lane |-> "idle",                       \* mutationTail
            pass |-> FALSE, target |-> <<>>, rerun |-> FALSE,     \* reconciling, reconcileRequested
            render |-> "off", owner |-> "none", prior |-> <<>>,   \* renderInFlight
            more |-> FALSE,                                       \* renderRequested
            import |-> "off",
            abandoned |-> FALSE,   \* a render timed out and none has ended since
            exact |-> TRUE]        \* no diff met one of the cases of Misfiled
    /\ budget \in Plans

----------------------------------------------------------------------------
(* Reconciliation.  At most one pass; whoever finds one running joins it.  *)

Call(k, ops, base) == [k |-> k, ops |-> ops, base |-> base]
Post(c, call) == [c EXCEPT !.calls = Append(@, call)]

\* Two cases that reconcile gets wrong.  The first block has no delimiter, and the
\* diff leaves it without text or puts a block before it: the next delimiter of
\* the stream then counts as the first block's.
FirstBlockLost(before, after, st) ==
    /\ ~HasDelim(st, 1) /\ Len(after) > 1
    /\ IF Kept(before, after) = 0 THEN Suffix(before, after) = Len(before)
       ELSE before[1].type = after[1].type /\ after[1].chars = <<>>

\* A last block that only the editor has is changed into fewer or more blocks: the
\* whole document is deleted, or the block is missing in front of the new ones.
LastBlockLost(before, after, st) ==
    /\ ~InStream(st, Len(before))
    /\ Suffix(before, after) = 0 /\ Len(after) # Len(before)

Misfiled(before, after, st) ==
    FirstBlockLost(before, after, st) \/ LastBlockLost(before, after, st)

\* Mutant: the diff is made for the worker's stream, whatever the view shows.
DiffToWorker(c) == Call("reconcile", Reconcile(c.last, ed, doc), doc)

\* The diff of the editor as it is now against the view.
Diff(c) == Call("reconcile", Reconcile(c.last, ed, c.view), c.view)

EndJob(c) == [c EXCEPT !.jobs = Tail(@), !.lane = "idle"]

EndRender(c) ==
    LET off == [c EXCEPT !.render = "off", !.owner = "none", !.prior = <<>>]
    IN  IF c.owner = "lane" THEN EndJob(off) ELSE [off EXCEPT !.import = "off"]

\* What follows a reconciliation, for each caller.
Passed(c, who) ==
    IF who = "render" THEN Post([c EXCEPT !.render = "read", !.prior = ed], Call("read", <<>>, <<>>))
    ELSE IF Head(c.jobs) = "local" THEN EndJob(c)
    ELSE Post([c EXCEPT !.lane = "apply"], Call("apply", <<>>, <<>>))

Joined(c, who) == IF who = "render" THEN [c EXCEPT !.render = "pass"] ELSE [c EXCEPT !.lane = "pass"]

\* One round of runReconciliation; nothing is sent when nothing changed.
Round(c, diff) ==
    LET d == [c EXCEPT !.rerun = FALSE, !.target = ed,
                       !.exact = @ /\ ~Misfiled(c.last, ed, c.view)]
    IN  IF diff.ops = <<>> THEN [d EXCEPT !.last = ed] ELSE Post(d, diff)

Began(c, who, diff) ==
    IF diff.ops = <<>> THEN Passed([c EXCEPT !.pass = FALSE], who) ELSE Joined(c, who)

Reconciles(c, who) ==
    LET Begins(diff) == Began(Round([c EXCEPT !.pass = TRUE], diff), who, diff)
    IN  IF c.pass THEN Joined([c EXCEPT !.rerun = TRUE], who)
        ELSE IF c.mode # "crdt" THEN Passed(c, who)
        ELSE Begins(Diff(c))

----------------------------------------------------------------------------
(* Rendering.                                                              *)

RenderRound(c) == Reconciles([c EXCEPT !.more = FALSE], "render")

Return(c, who) == IF who = "lane" THEN EndJob(c) ELSE [c EXCEPT !.import = "off"]

\* renderRemote behind its first await.
Renders(c, who) ==
    IF c.mode # "crdt" THEN Return(c, who)
    ELSE IF c.render # "off" THEN Return([c EXCEPT !.more = TRUE], who)
    ELSE RenderRound(IF who = "lane" THEN [c EXCEPT !.owner = who, !.lane = "render"]
                     ELSE [c EXCEPT !.owner = who, !.import = "render"])

\* renderRemote: a pass in flight comes first.
RenderRemote(c, who) ==
    IF ~c.pass THEN Renders(c, who)
    ELSE IF who = "lane" THEN [c EXCEPT !.lane = "meet"] ELSE [c EXCEPT !.import = "meet"]

\* A key arrived while the worker was read.
Stale(c) == ed # c.prior \/ c.pass

\* Mutant: a stale render is dropped.
GivesUp(c) == EndRender(c)

\* A stale render is repeated.
Retries(c) == RenderRound(c)

\* The editor normalises what it is given; that is the next diff's baseline.
Baseline(blocks) == Closed(blocks)

ReadReply ==
    /\ replies # <<>> /\ Head(replies).k = "read"
    /\ replies' = Tail(replies)
    /\ LET st == Head(replies).base
           shown == [b EXCEPT !.view = st, !.last = Baseline(Blocks(st)), !.abandoned = FALSE]
       IN  IF Stale(b) THEN b' = Retries(b) /\ UNCHANGED ed
           ELSE IF b.mode # "crdt" THEN b' = EndRender(b) /\ UNCHANGED ed
           ELSE /\ ed' = Closed(Blocks(st))
                /\ b' = IF ~b.more THEN EndRender(shown)
                        ELSE Post([shown EXCEPT !.more = FALSE, !.prior = ed'], Call("read", <<>>, <<>>))
    /\ UNCHANGED <<doc, budget>>

\* The watchdog: the pass is abandoned, its answer will be ignored.
Ignored(queue) == [i \in DOMAIN queue |->
                      IF queue[i].k = "read" THEN [queue[i] EXCEPT !.k = "late"] ELSE queue[i]]

RenderTimesOut ==
    /\ b.render = "read"
    /\ b' = EndRender([b EXCEPT !.calls = Ignored(@), !.abandoned = TRUE])
    /\ replies' = Ignored(replies)
    /\ Spend("slow")
    /\ UNCHANGED <<doc, ed>>

LateReply ==
    /\ replies # <<>> /\ Head(replies).k = "late"
    /\ replies' = Tail(replies)
    /\ UNCHANGED <<doc, ed, b, budget>>

----------------------------------------------------------------------------
(* The end of a pass.                                                      *)

\* Those who wait for it go on, or fail with it.
Woken(c, who, failed) ==
    CASE who = "lane" /\ b.lane = "pass"     -> IF failed THEN EndJob(c) ELSE Passed(c, "lane")
      [] who = "lane" /\ b.lane = "meet"     -> IF failed THEN EndJob(c) ELSE RenderRemote(c, "lane")
      [] who = "render" /\ b.render = "pass" -> IF failed THEN EndRender(c) ELSE Passed(c, "render")
      [] who = "import" /\ b.import = "meet" ->
             IF failed THEN [c EXCEPT !.import = "off"] ELSE RenderRemote(c, "import")
      [] OTHER -> c

PassEnds(c, order, failed) ==
    FoldLeft(LAMBDA d, who : Woken(d, who, failed),
             [c EXCEPT !.pass = FALSE, !.rerun = FALSE, !.target = <<>>], order)

Orders == SetToSeqs({"lane", "render", "import"})

\* Mutant: the baseline is the editor at the time of the answer.
BaselineAtReply == ed

\* What the pass that just ended had read.
PassBaseline == b.target

\* The batch is durable; another round if someone joined meanwhile.
PassReply ==
    /\ replies # <<>> /\ Head(replies).k = "reconcile"
    /\ replies' = Tail(replies)
    /\ LET saved == [b EXCEPT !.view = Head(replies).base, !.last = PassBaseline]
           Goes(diff, order) ==
               LET next == IF b.rerun THEN Round(saved, diff) ELSE saved
               IN  IF b.rerun /\ diff.ops # <<>> THEN next ELSE PassEnds(next, order, FALSE)
       IN  \E order \in Orders : b' = Goes(Diff(saved), order)
    /\ UNCHANGED <<doc, ed, budget>>

\* A batch that was not stored ends the session's CRDT path.
PassFails ==
    /\ replies # <<>> /\ Head(replies).k = "refused"
    /\ replies' = Tail(replies)
    /\ \E order \in Orders : b' = PassEnds([b EXCEPT !.mode = "fallback"], order, TRUE)
    /\ UNCHANGED <<doc, ed, budget>>

----------------------------------------------------------------------------
(* The user, the peers and the lane.                                       *)

\* Type, erase or mark a character, break a paragraph, join two, change a type.
Typed(bs) ==
    LET Replaced(i, n, new) == SubSeq(bs, 1, i - 1) \o new \o SubSeq(bs, i + n, Len(bs))
        Edited(i) ==
            LET cs == bs[i].chars
                With(chars) == Replaced(i, 1, <<Block(bs[i].type, chars)>>)
            IN  {With(InsertAt(cs, p, Char(c, Plain))) : p \in 1 .. Len(cs) + 1, c \in Letters}
                \union {With(RemoveAt(cs, p)) : p \in DOMAIN cs}
                \union {With([cs EXCEPT ![p].a = "bold"]) : p \in DOMAIN cs}
                \union {Replaced(i, 1, <<Block(bs[i].type, SubSeq(cs, 1, p)),
                                         Block(bs[i].type, SubSeq(cs, p + 1, Len(cs)))>>)
                            : p \in 0 .. Len(cs)}
                \union {Replaced(i, 1, <<Block(t, cs)>>) : t \in {Paragraph, "h"}}
                \union {Replaced(i, 2, <<Block(bs[i].type, cs \o bs[j].chars)>>)
                            : j \in {i + 1} \intersect DOMAIN bs}
    IN  UNION {Edited(i) : i \in DOMAIN bs}

\* onUpdate: onLocalTransaction queues a local job.
Key ==
    /\ b.mode = "crdt" /\ Len(doc) < MaxItems
    /\ Careful => b.render # "pass"
    /\ ed' \in {Closed(bs) : bs \in Typed(ed)} \ {ed}
    /\ b' = [b EXCEPT !.jobs = Append(@, "local")]
    /\ Spend("key")
    /\ UNCHANGED <<doc, replies>>

\* The session hands a batch of a peer to the bridge.
RemoteBatch ==
    /\ b' = [b EXCEPT !.jobs = Append(@, "remote")]
    /\ Spend("peer")
    /\ UNCHANGED <<doc, replies, ed>>

\* The session imports a snapshot.
ImportStarts ==
    /\ b.import = "off"
    /\ b' = Post([b EXCEPT !.import = "call"], Call("import", <<>>, <<>>))
    /\ Spend("import")
    /\ UNCHANGED <<doc, replies, ed>>

LaneStarts ==
    /\ b.lane = "idle" /\ b.jobs # <<>>
    /\ b' = Reconciles(b, "lane")
    /\ UNCHANGED <<doc, replies, ed, budget>>

ApplyReply ==
    /\ replies # <<>> /\ Head(replies).k = "apply"
    /\ replies' = Tail(replies)
    /\ b' = RenderRemote(b, "lane")
    /\ UNCHANGED <<doc, ed, budget>>

ImportReply ==
    /\ replies # <<>> /\ Head(replies).k = "import"
    /\ replies' = Tail(replies)
    /\ b' = RenderRemote(b, "import")
    /\ UNCHANGED <<doc, ed, budget>>

----------------------------------------------------------------------------
(* The worker.                                                             *)

\* A peer's insertion or deletion, anywhere in the stream.
PeerEdits(st) ==
    {InsertAt(st, p, Item(FreshId(st), "text", c, Plain)) : p \in 1 .. Len(st) + 1, c \in Letters}
    \union {InsertAt(st, p, Item(FreshId(st), "delim", None, Paragraph)) : p \in 1 .. Len(st) + 1}
    \union {[st EXCEPT ![p].dead = TRUE] : p \in Live(st)}

Answers(k, base) ==
    /\ b' = [b EXCEPT !.calls = Tail(@)]
    /\ replies' = Append(replies, Call(k, <<>>, base))
    /\ UNCHANGED ed

Serves(k) == b.calls # <<>> /\ Head(b.calls).k \in k

\* Local operations: applied, logged, answered with the base they were made for.
WorkerReconciles ==
    /\ Serves({"reconcile"})
    /\ LET r == Rebase(Head(b.calls).ops, Head(b.calls).base, doc) IN
         /\ doc' = IF r.ok THEN r.cur ELSE doc
         /\ IF r.ok THEN Answers("reconcile", r.base) ELSE Answers("refused", <<>>)
    /\ UNCHANGED budget

\* appendOrReset: the log fails, the engine is rebuilt from it.
WorkerRefuses ==
    /\ Serves({"reconcile"})
    /\ Answers("refused", <<>>)
    /\ Spend("write")
    /\ UNCHANGED doc

WorkerMerges ==
    /\ Serves({"apply", "import"})
    /\ doc' \in PeerEdits(doc)
    /\ Answers(Head(b.calls).k, <<>>)
    /\ UNCHANGED budget

WorkerReads ==
    /\ Serves({"read", "late"})
    /\ Answers(Head(b.calls).k, doc)
    /\ UNCHANGED <<doc, budget>>

----------------------------------------------------------------------------
WorkerNext == WorkerReconciles \/ WorkerMerges \/ WorkerReads
BridgeNext == LaneStarts \/ ApplyReply \/ ImportReply \/ ReadReply \/ LateReply \/ PassReply \/ PassFails
OutsideNext == Key \/ RemoteBatch \/ ImportStarts \/ RenderTimesOut \/ WorkerRefuses

Next == WorkerNext \/ BridgeNext \/ OutsideNext

Spec == Init /\ [][Next]_vars

\* Weak fairness, with what enables each action spelled out: the worker answers and
\* the page's event loop turns; nobody has to type.
FairSpec ==
    /\ Spec
    /\ []<>(b.calls = <<>>) \/ []<><<WorkerNext>>_vars
    /\ []<>(replies = <<>> /\ (b.lane # "idle" \/ b.jobs = <<>>)) \/ []<><<BridgeNext>>_vars

----------------------------------------------------------------------------
(* Properties.                                                             *)

\* Without the empty paragraphs at the end, which only the editor may have.
Trimmed(blocks) ==
    SubSeq(blocks, 1, Max({1} \cup {i \in DOMAIN blocks : blocks[i] # Blank}))

\* Whenever no pass is in flight, the stream the bridge diffs against shows the
\* document it diffs from: otherwise the next diff addresses wrong items.
ViewShowsLast ==
    b.exact /\ b.mode = "crdt" /\ ~b.pass => Trimmed(Blocks(b.view)) = Trimmed(b.last)

\* What the doc comment of reconcile promises, without exception: the operations
\* turn the stream into the document the editor shows.
DiffIsExact ==
    b.mode = "crdt" /\ ~b.pass => Trimmed(Blocks(b.view)) = Trimmed(b.last)

\* Once no local job is left, everything typed has been reconciled.
QuietIsSaved ==
    b.mode = "crdt" /\ (\A i \in DOMAIN b.jobs : b.jobs[i] # "local") => ed = b.last

\* Between two passes the bridge's baseline is what the worker was told and, with
\* no job left, what was typed (reconcile, runPass).
BaselineIsShown == ViewShowsLast /\ QuietIsSaved

\* A local batch never deletes an item that the editor has not shown: a peer's text
\* that arrived meanwhile survives the rebase.
PeerTextKept ==
    [][Serves({"reconcile"}) =>
         \A i \in Live(doc) :
            Position(b.view, doc[i].id) = 0 => ~doc'[Position(doc', doc[i].id)].dead]_vars

\* A render replaces only what has been saved: a key typed meanwhile is not
\* overwritten.
RenderKeepsKeys ==
    [][replies # <<>> /\ replies' = Tail(replies) /\ ed' # ed => ed = b.last]_vars

\* Neither a peer's text nor a key of the user is overwritten by the rebase of the
\* other's (reconcile in core.ts, renderRemote).
NothingOverwritten == PeerTextKept /\ RenderKeepsKeys

\* In the end the editor shows all that the worker has, unless its last render was
\* abandoned: then it waits for the next remote batch.
Settles == <>[](\/ b.mode # "crdt"
                \/ ed = b.last /\ b.jobs = <<>> /\ (b.view = doc \/ b.abandoned))

\* A render asked for while another was in flight is not forgotten.
TrailingRender == [][b.render # "off" /\ b'.render = "off" /\ b.mode = "crdt" => ~b'.more]_vars
=============================================================================
