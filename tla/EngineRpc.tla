----------------------------- MODULE EngineRpc -----------------------------
(***************************************************************************)
(* The engine behind its worker: lib/crdt/runtime.ts (the calls across the *)
(* WASM boundary and their output buffer), worker/core.ts (one request:    *)
(* engine, generation, durable append), worker/crdt-worker.ts (the request *)
(* queue) and worker/client.ts (the page's RPC, its correlation ids and    *)
(* the bounded table of calls in flight).  The page's bridge initialises   *)
(* the worker and edits; a panel may read at any moment, and both may be   *)
(* the first caller.  Operation contents are abstracted to identity and    *)
(* encoded length; merging is CrdtDoc's subject.                           *)
(***************************************************************************)
EXTENDS Integers, Sequences, FiniteSets, SequencesExt

CONSTANTS MaxPending,  \* MAX_PENDING
          FirstBuffer, \* the output buffer a generating call starts with
          ErrBase, ErrWindow, \* ERR_BASE, and the codes reserved below it
          Sizes,       \* encoded lengths of an operation
          MaxCalls, MaxFaults \* bounds: calls of the page; failures

VARIABLES bridge,   \* the editor bridge: "none", "asked" (init called), "live"
          worker,   \* client: the thread calls are posted to, 0 for none
          fetching, \* client: calls waiting for the worker's source
          pending,  \* client: calls in flight, by correlation id
          calls,    \* calls made so far
          heard,    \* operations the local-ops listeners were given
          threads,  \* the worker threads created, oldest first
          log,      \* IndexedDB: the durable operation log
          faults    \* failures so far

vars == <<bridge, worker, fetching, pending, calls, heard, threads, log, faults>>

Generating == {"local", "delete", "reconcile", "seed"}
Reading == {"view", "export", "since"}
Kinds == {"init"} \union Generating \union Reading

NoEngine == [live |-> FALSE, ops |-> <<>>, next |-> 0, cap |-> 0]
Idle == [id |-> 0, kind |-> "none", ops |-> <<>>]
NewThread == [core |-> FALSE, engine |-> NoEngine, failed |-> FALSE, inbox |-> <<>>,
              busy |-> Idle, outbox |-> <<>>, dead |-> FALSE]

Init ==
    /\ bridge = "none" /\ worker = 0 /\ fetching = {} /\ pending = {} /\ calls = 0
    /\ heard = <<>> /\ threads = <<>> /\ log = <<>> /\ faults = 0

-----------------------------------------------------------------------------
(* The ABI.  An output call given no buffer answers the length it needs;   *)
(* given one too small, minus that length; error codes lie below ErrBase.  *)
Written(needed, hasBuffer, cap) ==
    IF ~hasBuffer THEN needed ELSE IF cap < needed THEN -needed ELSE needed

IsError(status) == status < ErrBase + ErrWindow

Larger(a, b) == IF a < b THEN b ELSE a

\* A read is sized by a probe and repeated; it changes the buffer only.
RunReadCall(engine, needed) ==
    LET probe == Written(needed, FALSE, 0)
        cap == Larger(engine.cap, probe)
        status == Written(needed, TRUE, cap)
    IN  [ok |-> probe >= 0 /\ status >= 0,
         length |-> IF probe <= 0 THEN 0 ELSE status,
         engine |-> IF probe > 0 THEN [engine EXCEPT !.cap = cap] ELSE engine]

\* A generating call integrates one operation each time it is invoked, so a
\* short buffer is answered from the stash (_concord_last_op), never by
\* invoking it again.  A length in the error range would be taken for one.
RunGeneratingCall(engine, size) ==
    LET cap == Larger(engine.cap, FirstBuffer)
        op == [own |-> TRUE, id |-> engine.next, size |-> size]
        made == [engine EXCEPT !.ops = Append(@, op), !.next = @ + 1, !.cap = cap]
        status == Written(size, TRUE, cap)
    IN  IF IsError(status) THEN [ok |-> FALSE, engine |-> made, op |-> op]
        ELSE IF status >= 0 THEN [ok |-> TRUE, engine |-> made, op |-> op]
        ELSE [ok |-> TRUE, engine |-> [made EXCEPT !.cap = Larger(cap, -status)], op |-> op]

\* applyRemote: an operation the engine already holds is a duplicate.
Holds(engine, op) == \E i \in 1..Len(engine.ops) : engine.ops[i].own = op.own /\ engine.ops[i].id = op.id

Integrate(engine, op) ==
    IF Holds(engine, op) THEN engine ELSE [engine EXCEPT !.ops = Append(@, op)]

\* restore: a fresh engine, the whole log replayed, and the counter moved
\* past every operation of its own the log shows.
Own(ops) == SelectSeq(ops, LAMBDA op : op.own)

Restored(ops) ==
    LET replayed == FoldLeft(Integrate, [NoEngine EXCEPT !.live = TRUE], ops)
    IN  [replayed EXCEPT !.next = FoldLeft(LAMBDA n, op : Larger(n, op.id), 0, Own(ops)) + 1]

-----------------------------------------------------------------------------
(* The client.                                                             *)
Request(kind, id) == [kind |-> kind, id |-> id]

\* Who calls: the bridge initialises once and edits after the answer; the
\* selection panel exports the stream as soon as the editor exists.
MayCall(kind) ==
    CASE kind = "export" -> TRUE
      [] kind = "init" -> bridge = "none"
      [] OTHER -> bridge = "live"

\* call: refused when the table is full; the first one fetches the worker.
\* The bound and the worker are looked at before the fetch is awaited.
Call(kind) ==
    /\ calls < MaxCalls
    /\ MayCall(kind)
    /\ bridge' = IF kind = "init" THEN "asked" ELSE bridge
    /\ Cardinality(pending) < MaxPending
    /\ calls' = calls + 1
    /\ IF worker = 0
       THEN /\ fetching' = fetching \union {Request(kind, calls')}
            /\ UNCHANGED <<pending, threads>>
       ELSE /\ pending' = pending \union {Request(kind, calls')}
            /\ threads' = [threads EXCEPT ![worker].inbox = Append(@, Request(kind, calls'))]
            /\ UNCHANGED fetching
    /\ UNCHANGED <<worker, heard, log, faults>>

\* ensureWorker's fetch answers: a worker is created and takes the call,
\* whatever another call has created meanwhile.
Fetched(f) ==
    /\ worker' = Len(threads) + 1
    /\ threads' = Append(threads, [NewThread EXCEPT !.inbox = <<f>>])
    /\ fetching' = fetching \ {f}
    /\ pending' = pending \union {f}
    /\ UNCHANGED <<bridge, calls, heard, log, faults>>

FetchFails(f) ==
    /\ faults < MaxFaults
    /\ faults' = faults + 1
    /\ fetching' = fetching \ {f}
    /\ UNCHANGED <<bridge, worker, pending, calls, heard, threads, log>>

\* onmessage: an answer settles the call of its id; a notification goes to
\* the listeners.
Receive(t) ==
    /\ threads[t].outbox # <<>>
    /\ LET message == Head(threads[t].outbox)
       IN  /\ pending' = {p \in pending : p.id # message.id}
           /\ heard' = IF message.kind = "notice" THEN heard \o message.ops ELSE heard
           /\ bridge' = IF message.kind = "init" /\ message.ok THEN "live" ELSE bridge
    /\ threads' = [threads EXCEPT ![t].outbox = Tail(@)]
    /\ UNCHANGED <<worker, fetching, calls, log, faults>>

\* onerror: every call in flight is failed; the client keeps the worker.
Crash(t) ==
    /\ faults < MaxFaults
    /\ ~threads[t].dead
    /\ faults' = faults + 1
    /\ pending' = {}
    /\ threads' = [threads EXCEPT ![t] = [NewThread EXCEPT !.dead = TRUE]]
    /\ UNCHANGED <<bridge, worker, fetching, calls, heard, log>>

-----------------------------------------------------------------------------
(* The worker thread.  A request is answered before the next one begins.   *)
Answer(id, kind, ok, ops) == [id |-> id, kind |-> kind, ok |-> ok, ops |-> ops]

Says(thread, answer) == [thread EXCEPT !.outbox = Append(@, answer)]

Refuses(thread, request) == Says(thread, Answer(request.id, request.kind, FALSE, <<>>))

Dropped(thread) == [thread EXCEPT !.engine = NoEngine, !.failed = FALSE]

\* visibleJson, digest, exportSnapshot, streamJson: the whole document.
ViewSize(engine) == FoldLeft(LAMBDA n, op : n + op.size, 0, engine.ops)

\* localOpsSince, from the log.
LocalOpsSince == Own(log)

\* The read handlers: view and stream come from the engine through the
\* buffer, the session's own operations from the log.
Read(thread, request) ==
    LET read == RunReadCall(thread.engine, ViewSize(thread.engine))
    IN  IF request.kind = "since" THEN Says(thread, Answer(request.id, "since", TRUE, LocalOpsSince))
        ELSE IF ~read.ok THEN Refuses(thread, request)
        ELSE Says([thread EXCEPT !.engine = read.engine],
                  Answer(request.id, request.kind, TRUE,
                         IF read.length = ViewSize(thread.engine) THEN thread.engine.ops ELSE <<>>))

\* The local handlers and reconcile: the operations are generated one after
\* the other and then wait for the append.  A batch that fails in the
\* middle gives up the engine; a single refused operation changed nothing.
Generate(thread, request, sizes) ==
    LET step(acc, size) ==
            LET call == RunGeneratingCall(acc.engine, size)
            IN  [ok |-> acc.ok /\ call.ok, engine |-> call.engine, ops |-> Append(acc.ops, call.op)]
        batch == FoldLeft(step, [ok |-> TRUE, engine |-> thread.engine, ops |-> <<>>], sizes)
    IN  IF batch.ok
        THEN [thread EXCEPT !.engine = batch.engine,
                            !.busy = [id |-> request.id, kind |-> request.kind, ops |-> batch.ops]]
        ELSE Refuses(IF request.kind = "reconcile" THEN Dropped(thread)
                     ELSE [thread EXCEPT !.engine = batch.engine], request)

\* seed: the operations of the document's own origin, applied here; what the
\* engine already holds is neither applied nor logged again.
SeedOps == <<[own |-> FALSE, id |-> 1, size |-> 1]>>

Seed(thread, request) ==
    LET fresh == SelectSeq(SeedOps, LAMBDA op : ~Holds(thread.engine, op))
    IN  [thread EXCEPT !.engine = FoldLeft(Integrate, @, fresh),
                       !.busy = [id |-> request.id, kind |-> "seed", ops |-> fresh]]

\* handle, up to its answer or its append.  The engine is there.
Served(thread, request) ==
    CASE request.kind = "init" -> {Says(thread, Answer(request.id, "init", TRUE, <<>>))}
      [] request.kind \in Reading -> {Read(thread, request)}
      [] request.kind = "seed" -> {Seed(thread, request)}
      [] request.kind = "delete" -> \* already deleted, or one operation
            {Says(thread, Answer(request.id, "delete", TRUE, <<>>))}
            \union {Generate(thread, request, <<s>>) : s \in Sizes}
      [] request.kind = "local" -> \* an index out of range is refused
            {Refuses(thread, request)}
            \union {Generate(thread, request, <<s>>) : s \in Sizes}
      [] request.kind = "reconcile" -> \* an unavailable item ends the batch
            {Refuses(Dropped(thread), request)}
            \union {Generate(thread, request, <<s, r>>) : s, r \in Sizes}

\* Mutant: the next request begins while an append is awaited.
MayBegin(thread) == thread.inbox # <<>>

\* requestTail: one request at a time.
Begins(thread) == thread.inbox # <<>> /\ thread.busy = Idle

Took(thread) == [thread EXCEPT !.inbox = Tail(@)]

\* A worker's first request must be init; a failed restore is remembered.
Begin(t) ==
    /\ Begins(threads[t])
    /\ LET thread == Took(threads[t])
           request == Head(threads[t].inbox)
           started == [thread EXCEPT !.core = TRUE,
                           !.engine = IF @.live THEN @ ELSE Restored(log)]
       IN  IF (~thread.core /\ request.kind # "init") \/ (~thread.engine.live /\ thread.failed)
           THEN threads' = [threads EXCEPT ![t] = Refuses(thread, request)]
           ELSE \E next \in Served(started, request) : threads' = [threads EXCEPT ![t] = next]
    /\ UNCHANGED <<bridge, worker, fetching, pending, calls, heard, log, faults>>

RestoreFails(t) ==
    /\ faults < MaxFaults
    /\ Begins(threads[t]) /\ ~threads[t].engine.live /\ ~threads[t].failed
    /\ threads[t].core \/ Head(threads[t].inbox).kind = "init"
    /\ faults' = faults + 1
    /\ threads' = [threads EXCEPT ![t] =
           Refuses([Took(@) EXCEPT !.core = TRUE, !.failed = TRUE], Head(@.inbox))]
    /\ UNCHANGED <<bridge, worker, fetching, pending, calls, heard, log>>

\* A localOps result with operations is also pushed to the listeners; a
\* seed's operations are not the user's and never reach the outbox.
Notifies(thread) == thread.busy.kind # "seed"

\* appendOrReset: the answer, and for local operations the notification,
\* follow the append.
Appended(t) ==
    LET thread == threads[t]
        done == Says([thread EXCEPT !.busy = Idle],
                     Answer(thread.busy.id, thread.busy.kind, TRUE, thread.busy.ops))
    IN  /\ thread.busy # Idle
        /\ log' = log \o thread.busy.ops
        /\ threads' = [threads EXCEPT ![t] =
               IF Notifies(thread) THEN Says(done, Answer(0, "notice", TRUE, thread.busy.ops))
               ELSE done]
        /\ UNCHANGED <<bridge, worker, fetching, pending, calls, heard, faults>>

\* A failed append frees the engine, which holds what the log does not.
AppendFails(t) ==
    /\ faults < MaxFaults
    /\ threads[t].busy # Idle
    /\ faults' = faults + 1
    /\ threads' = [threads EXCEPT ![t] =
           Refuses(Dropped([@ EXCEPT !.busy = Idle]), Request(@.busy.kind, @.busy.id))]
    /\ UNCHANGED <<bridge, worker, fetching, pending, calls, heard, log>>

Next ==
    \/ \E kind \in Kinds : Call(kind)
    \/ \E f \in fetching : Fetched(f) \/ FetchFails(f)
    \/ \E t \in 1..Len(threads) :
           Receive(t) \/ Crash(t) \/ Begin(t) \/ RestoreFails(t) \/ Appended(t) \/ AppendFails(t)

Spec == Init /\ [][Next]_vars

-----------------------------------------------------------------------------
(* What a panel is shown survives a reload: every operation in the answer  *)
(* of a read is in the durable log, although a read may be asked between a *)
(* generation and its append, and the append may fail (crdt-worker.ts: "No *)
(* RPC may interleave ... or observe an uncommitted engine mutation").     *)
ReadsAreDurable ==
    \A t \in 1..Len(threads) : \A i \in 1..Len(threads[t].outbox) :
        LET answer == threads[t].outbox[i]
        IN  answer.ok /\ answer.kind \in Reading => ToSet(answer.ops) \subseteq ToSet(log)

(* The sync session hears each durable operation of this page once and in  *)
(* log order, and no operation that is not durable: what was heard, with   *)
(* what the worker still has to deliver, is the log's own operations; a    *)
(* crashed worker may take the rest with it.                               *)
Undelivered(t) ==
    FoldLeft(LAMBDA acc, m : IF m.kind = "notice" THEN acc \o m.ops ELSE acc, <<>>, threads[t].outbox)

HeardIsTheLog ==
    \/ heard \o FlattenSeq([t \in 1..Len(threads) |-> Undelivered(t)]) = Own(log)
    \/ \E t \in 1..Len(threads) : threads[t].dead
=============================================================================
