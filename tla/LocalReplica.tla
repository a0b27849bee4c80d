---------------------------- MODULE LocalReplica ----------------------------
(***************************************************************************)
(* Who may write a browser's local replica.  Every mounted document page   *)
(* takes a lease on a replica id with a Web Lock (acquireReplica in        *)
(* editor-bridge.ts), starts a worker of its own that restores its         *)
(* allocation from the replica's operation log (worker/core.ts), and       *)
(* appends to that log in IndexedDB (worker/idb.ts).  Tabs are opened,     *)
(* duplicated, reloaded and closed, pages are left and entered again; a    *)
(* page that was left gives the lease back, but its worker is never        *)
(* terminated and finishes what it was asked.  Catch-up stores the pages   *)
(* of the server's log together with the cursor they end at.               *)
(***************************************************************************)
EXTENDS Integers, Sequences, FiniteSetsExt

CONSTANTS
    Tabs,
    MaxIds,      \* bound on the replica ids drawn; 64 random bits never repeat
    MaxMounts,   \* bound on the pages mounted
    MaxEdits,    \* bound on the edits typed
    MaxRemote    \* bound on the operations of others

VARIABLES
    primary,  \* localStorage: the browser's id for the document, 0 before the first
    session,  \* sessionStorage: each tab's id, 0 for none
    opened,   \* the tabs that are open
    drawn,    \* how many ids were drawn
    locks,    \* the Web Locks held: <<id, mount>>
    mounts,   \* the pages mounted so far, see Page
    log,      \* IndexedDB: per id the operations of the replica and of others
    cursor,   \* IndexedDB: per id the sync cursor
    shared,   \* localStorage: the sync cursor of the document
    remote,   \* how many operations the server holds
    edits,    \* how many edits were typed
    late      \* a page was left with edits that were not yet in the log

vars == <<primary, session, opened, drawn, locks, mounts, log, cursor, shared, remote, edits, late>>
browser == <<primary, session, opened, drawn>>
server == <<shared, remote>>

\* A page: the bridge's state, the id it asks for or holds, its worker's next
\* counter (0 before the log is restored), the edits in the bridge's lane and
\* the operation on its way to IndexedDB.
Page(tab, id) == [tab |-> tab, bridge |-> "asking", id |-> id, runs |-> TRUE,
                  next |-> 0, todo |-> << >>, job |-> {}]

\* An operation: its identity, and the edit it stands for.
Op(id, c, edit) == [id |-> id, c |-> c, edit |-> edit]

Ids == 1 .. MaxIds

Init ==
    /\ primary = 0 /\ session = [t \in Tabs |-> 0] /\ opened = {} /\ drawn = 0
    /\ locks = {} /\ mounts = << >>
    /\ log = [i \in Ids |-> {}]
    /\ cursor = [i \in Ids |-> 0] /\ shared = 0 /\ remote = 0
    /\ edits = 0 /\ late = FALSE

Pages == DOMAIN mounts
Mounted(t) == \E m \in Pages : mounts[m].tab = t /\ mounts[m].runs /\ mounts[m].bridge # "left"
Busy(m) == mounts[m].todo # << >> \/ mounts[m].job # {}
Held(id) == \E m \in Pages : <<id, m>> \in locks

\* The operations of the replica itself, among those in its log.
Own(id) == {o \in log[id] : o.id = id}

-----------------------------------------------------------------------------
(* Tabs.                                                                   *)

\* A new tab, or a duplicate that starts with a copy of the other's
\* sessionStorage.
Open(t) ==
    /\ t \notin opened /\ opened' = opened \cup {t}
    /\ UNCHANGED <<primary, session, drawn, locks, mounts, log, cursor, server, edits, late>>

Duplicate(t, u) ==
    /\ t \in opened /\ u \notin opened /\ opened' = opened \cup {u}
    /\ session' = [session EXCEPT ![u] = session[t]]
    /\ UNCHANGED <<primary, drawn, locks, mounts, log, cursor, server, edits, late>>

\* The tab's pages stop where they are; an append that was issued may still
\* be carried out.  A reload keeps sessionStorage, a close does not.
Stop(t, kept) ==
    LET dead == {m \in Pages : mounts[m].tab = t /\ mounts[m].runs}
    IN /\ t \in opened
       /\ \E finished \in SUBSET {m \in dead : mounts[m].job # {}} :
              log' = [i \in Ids |->
                  log[i] \cup UNION {mounts[m].job : m \in {n \in finished : mounts[n].id = i}}]
       /\ mounts' = [m \in Pages |-> IF m \in dead
                        THEN [Page(t, 0) EXCEPT !.runs = FALSE]
                        ELSE mounts[m]]
       /\ locks' = {l \in locks : l[2] \notin dead}
       /\ opened' = IF kept THEN opened ELSE opened \ {t}
       /\ session' = IF kept THEN session ELSE [session EXCEPT ![t] = 0]
       /\ UNCHANGED <<primary, drawn, cursor, server, edits, late>>

Close(t) == Stop(t, FALSE)
Reload(t) == Stop(t, TRUE)

-----------------------------------------------------------------------------
(* The page takes its lease.                                               *)

\* The stored ids are read, a first one drawn, and the lock asked for.
Mount(t) ==
    /\ t \in opened /\ ~Mounted(t) /\ Len(mounts) < MaxMounts
    /\ primary' = IF primary = 0 THEN drawn + 1 ELSE primary
    /\ drawn' = IF primary = 0 THEN drawn + 1 ELSE drawn
    /\ mounts' = Append(mounts, Page(t, IF session[t] = 0 THEN primary' ELSE session[t]))
    /\ UNCHANGED <<session, opened, locks, log, cursor, server, edits, late>>

\* Mutant: the lock is asked for in shared mode.
GrantedShared(m) ==
    /\ mounts[m].runs /\ mounts[m].bridge = "asking"
    /\ locks' = locks \cup {<<mounts[m].id, m>>}
    /\ session' = [session EXCEPT ![mounts[m].tab] = mounts[m].id]
    /\ mounts' = [mounts EXCEPT ![m].bridge = "held"]
    /\ UNCHANGED <<primary, opened, drawn, log, cursor, server, edits, late>>

\* The lock is free: the tab remembers the id.
Granted(m) ==
    /\ mounts[m].runs /\ mounts[m].bridge = "asking" /\ ~Held(mounts[m].id)
    /\ locks' = locks \cup {<<mounts[m].id, m>>}
    /\ session' = [session EXCEPT ![mounts[m].tab] = mounts[m].id]
    /\ mounts' = [mounts EXCEPT ![m].bridge = "held"]
    /\ UNCHANGED <<primary, opened, drawn, log, cursor, server, edits, late>>

\* It is not: another id is drawn and asked for.
Refused(m) ==
    /\ mounts[m].runs /\ mounts[m].bridge = "asking" /\ Held(mounts[m].id)
    /\ drawn < MaxIds /\ drawn' = drawn + 1
    /\ mounts' = [mounts EXCEPT ![m].id = drawn + 1]
    /\ UNCHANGED <<primary, session, opened, locks, log, cursor, server, edits, late>>

\* A page left while it asked gets the lease and gives it back: the tab
\* remembers the id all the same.
GrantedTooLate(m) ==
    /\ mounts[m].runs /\ mounts[m].bridge = "left asking"
    /\ session' = IF Held(mounts[m].id) THEN session
                  ELSE [session EXCEPT ![mounts[m].tab] = mounts[m].id]
    /\ mounts' = [mounts EXCEPT ![m].bridge = "left"]
    /\ UNCHANGED <<primary, opened, drawn, locks, log, cursor, server, edits, late>>

-----------------------------------------------------------------------------
(* The worker.                                                             *)

LoadLocalState(id) == log[id]

\* The log is replayed, and the allocation starts past every own counter.
Restored(id) == 1 + Max({0} \cup {o.c : o \in {p \in LoadLocalState(id) : p.id = id}})

\* init: the engine is restored from the log, and the page is ready to edit.
Load(m) ==
    /\ mounts[m].runs /\ mounts[m].bridge = "held"
    /\ mounts' = [mounts EXCEPT ![m].bridge = "live", ![m].next = Restored(mounts[m].id)]
    /\ UNCHANGED <<browser, locks, log, cursor, server, edits, late>>

Type(m) ==
    /\ mounts[m].runs /\ mounts[m].bridge = "live" /\ edits < MaxEdits
    /\ edits' = edits + 1
    /\ mounts' = [mounts EXCEPT ![m].todo = Append(@, edits + 1)]
    /\ UNCHANGED <<browser, locks, log, cursor, server, late>>

\* The bridge's lane hands the next edit to the worker, which makes an
\* operation of it; a page that was left does the same.
Generate(m) ==
    /\ mounts[m].runs /\ mounts[m].bridge \in {"live", "left"}
    /\ mounts[m].todo # << >> /\ mounts[m].job = {}
    /\ mounts' = [mounts EXCEPT
           ![m].job = {Op(mounts[m].id, mounts[m].next, Head(mounts[m].todo))},
           ![m].next = @ + 1, ![m].todo = Tail(@)]
    /\ UNCHANGED <<browser, locks, log, cursor, server, edits, late>>

Appended(id, ops) == [log EXCEPT ![id] = @ \cup ops]

\* The append is durable.
Commit(m) ==
    /\ mounts[m].runs /\ mounts[m].job # {}
    /\ log' = Appended(mounts[m].id, mounts[m].job)
    /\ mounts' = [mounts EXCEPT ![m].job = {}]
    /\ UNCHANGED <<browser, locks, cursor, server, edits, late>>

\* The append fails: the engine is dropped, and the page gives CRDT editing up.
Fail(m) ==
    /\ mounts[m].runs /\ mounts[m].job # {}
    /\ mounts' = [mounts EXCEPT ![m].job = {}, ![m].todo = << >>, ![m].next = 0,
                                ![m].bridge = IF @ = "left" THEN "left" ELSE "fallback"]
    /\ UNCHANGED <<browser, locks, log, cursor, server, edits, late>>

-----------------------------------------------------------------------------
(* Catch-up.                                                               *)

RemoteOp ==
    /\ remote < MaxRemote /\ remote' = remote + 1
    /\ UNCHANGED <<browser, locks, mounts, log, cursor, shared, edits, late>>

\* A session starts from the cursor stored with the replica's own log.
StartCursor(id) == cursor[id]

\* The operations past it and the cursor are stored in one transaction.
CatchUp(m) ==
    /\ mounts[m].runs /\ mounts[m].bridge = "live"
    /\ LET id == mounts[m].id
           page == {Op(0, n, 0) : n \in StartCursor(id) + 1 .. remote}
       IN /\ log' = Appended(id, page)
          /\ cursor' = [cursor EXCEPT ![id] = remote]
    /\ shared' = remote
    /\ UNCHANGED <<browser, locks, mounts, remote, edits, late>>

-----------------------------------------------------------------------------
(* The page is left: its bridge is disposed, its worker lives on.          *)

Leave(m) ==
    /\ mounts[m].runs /\ mounts[m].bridge \notin {"left", "left asking"}
    /\ mounts' = [mounts EXCEPT ![m].bridge = IF @ = "asking" THEN "left asking" ELSE "left"]
    /\ locks' = {l \in locks : l[2] # m}
    /\ late' = (late \/ Busy(m))
    /\ UNCHANGED <<browser, log, cursor, server, edits>>

Next ==
    \/ RemoteOp
    \/ \E t \in Tabs :
           Open(t) \/ Close(t) \/ Reload(t) \/ Mount(t) \/ \E u \in Tabs : Duplicate(t, u)
    \/ \E m \in Pages :
           \/ Granted(m) \/ Refused(m) \/ GrantedTooLate(m)
           \/ Load(m) \/ Type(m) \/ Generate(m) \/ Commit(m) \/ Fail(m)
           \/ CatchUp(m) \/ Leave(m)

Spec == Init /\ [][Next]_vars

-----------------------------------------------------------------------------
\* Two durable operations never carry the same identity, whatever tabs were
\* duplicated, reloaded or closed and whatever appends failed (editor-bridge.ts:
\* "One writer per persisted replica").
IdentityOnce ==
    \A i \in Ids : \A o, p \in Own(i) : o.c = p.c => o = p

\* The same, as long as no page was left with edits in its lane.
IdentityOnceUnlessLate == late \/ IdentityOnce

\* Every replica holds all the operations its sync cursor covers, although the
\* tabs of a browser share their localStorage (runRecovery in sync-session.ts
\* prefers the cursor of the replica's own database).
CursorCovered ==
    \A i \in Ids : \A n \in 1 .. cursor[i] : Op(0, n, 0) \in log[i]

-----------------------------------------------------------------------------
\* The invariant, and why it is inductive.  A lock has one holder, and a page
\* that may append holds the lock of its id, as long as no page was left with
\* edits in its lane.  Its counter is past every own operation in the log,
\* and so is the operation it is about to append.
Bridges == {"asking", "held", "live", "fallback", "left asking", "left"}
Ops == [id : 0 .. MaxIds, c : Nat, edit : Nat]
PageStates ==
    [tab : Tabs, bridge : Bridges, id : 0 .. MaxIds, runs : BOOLEAN, next : Nat,
     todo : Seq(Nat), job : SUBSET Ops]

TypeOK ==
    /\ primary \in 0 .. drawn /\ session \in [Tabs -> 0 .. MaxIds] /\ drawn \in 0 .. MaxIds
    /\ opened \subseteq Tabs /\ locks \subseteq Ids \X Pages /\ mounts \in Seq(PageStates)
    /\ log \in [Ids -> SUBSET Ops] /\ cursor \in [Ids -> Nat]
    /\ remote \in Nat /\ edits \in Nat /\ late \in BOOLEAN

IdInv ==
    /\ primary = 0 => drawn = 0 /\ mounts = << >>
    /\ \A m \in Pages : mounts[m].runs => mounts[m].id \in Ids

LockInv ==
    /\ \A l \in locks : mounts[l[2]].runs /\ mounts[l[2]].id = l[1]
                       /\ mounts[l[2]].bridge \in {"held", "live", "fallback"}
    /\ \A k, l \in locks : k[1] = l[1] => k = l
    /\ \A m \in Pages : mounts[m].runs /\ mounts[m].bridge \in {"held", "live", "fallback"}
           => <<mounts[m].id, m>> \in locks

WriterInv ==
    ~late => \A m \in Pages : LET p == mounts[m] IN
        /\ p.todo # << >> \/ p.job # {} => p.runs /\ p.bridge = "live"
        /\ p.runs /\ p.bridge = "live" => p.next > 0 /\ \A o \in Own(p.id) : o.c < p.next
        /\ \A o \in p.job : o.id = p.id /\ o.c = p.next - 1 /\ \A q \in Own(p.id) : q.c < o.c
        /\ \A o, q \in p.job : o = q

\* Every counter is at most the number of edits, so the log has a largest one.
CounterInv ==
    /\ \A m \in Pages :
           /\ mounts[m].next + Len(mounts[m].todo) <= edits + 1
           /\ \A o \in mounts[m].job : o.c <= edits
           /\ mounts[m].bridge \notin {"live", "left"} => mounts[m].todo = << >> /\ mounts[m].job = {}
    /\ \A i \in Ids : \A o \in Own(i) : o.c <= edits

CursorInv == CursorCovered /\ \A i \in Ids : cursor[i] <= remote

ReplicaInv ==
    /\ TypeOK /\ IdInv /\ LockInv /\ WriterInv /\ CounterInv /\ CursorInv
    /\ IdentityOnceUnlessLate
=============================================================================
