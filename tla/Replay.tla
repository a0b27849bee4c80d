------------------------------- MODULE Replay -------------------------------
(***************************************************************************)
(* Time travel through the local operation log: DocumentReplay             *)
(* (src/lib/crdt/replay.ts) folds a prefix of the log in an engine of its  *)
(* own and steps back from checkpoints; the replay panel                   *)
(* (document-tools.tsx) serves a slider with it, one fold at a time, while *)
(* the panel may be closed and opened again at any await.                  *)
(***************************************************************************)
EXTENDS Integers, Sequences, FiniteSetsExt

CONSTANTS
    Log,       \* the number of operations in the log
    Stride,    \* the distance of checkpoints; the code's is at least 8
    MaxOpens,  \* bound on how often the panel opens the log
    MaxMoves   \* bound on the slider's moves

VARIABLES
    replays,  \* the DocumentReplay objects, in the order they were opened
    current,  \* replayRef: the one in use, 0 for none
    opening,  \* the panel waits for the log and the engine
    runner,   \* runnerRef: is a loop running, and the index asked for last
    call,     \* the at() the loop waits for
    slider, shown, error, \* what the panel displays
    moves

vars == <<replays, current, opening, runner, call, slider, shown, error, moves>>

Positions == 0 .. Log
None == -1
NoCall == [replay |-> 0, index |-> None, stage |-> "none", base |-> 0]
Nothing == [index |-> None, ops |-> {}]

Fresh == [engine |-> [live |-> TRUE, ops |-> {}], position |-> 0, closed |-> FALSE,
          checkpoints |-> [p \in {0} |-> {}], states |-> [p \in {} |-> {}]]

\* A map with one more entry.
With(map, p, ops) == [q \in DOMAIN map \cup {p} |-> IF q = p THEN ops ELSE map[q]]

Init ==
    /\ replays = << >> /\ current = 0 /\ opening = TRUE
    /\ runner = [running |-> FALSE, target |-> None] /\ call = NoCall
    /\ slider = 0 /\ shown = Nothing /\ error = FALSE /\ moves = 0

display == <<slider, shown, error>>

-----------------------------------------------------------------------------
(* The panel.                                                              *)

\* A request replaces the one before; a running loop will find it.
RequestAt(index) == runner' = [running |-> TRUE, target |-> index]

\* The log and an engine are there: the slider starts at the end.
Opened ==
    /\ opening /\ Len(replays) < MaxOpens
    /\ replays' = Append(replays, Fresh)
    /\ current' = Len(replays) + 1
    /\ opening' = FALSE /\ slider' = Log
    /\ RequestAt(Log)
    /\ UNCHANGED <<call, shown, error, moves>>

OpenFails ==
    /\ opening /\ opening' = FALSE /\ error' = TRUE
    /\ UNCHANGED <<replays, current, runner, call, slider, shown, moves>>

Closed(r) == [r EXCEPT !.closed = TRUE, !.engine = [live |-> FALSE, ops |-> {}],
                       !.position = -1, !.checkpoints = [p \in {} |-> {}],
                       !.states = [p \in {} |-> {}]]

\* The client changes: the replay is closed and the log opened again.
Reopen ==
    /\ Len(replays) < MaxOpens /\ (current # 0 \/ opening)
    /\ replays' = IF current = 0 THEN replays
                  ELSE [replays EXCEPT ![current] = Closed(@)]
    /\ current' = 0 /\ opening' = TRUE
    /\ UNCHANGED <<runner, call, display, moves>>

Move(index) ==
    /\ replays # << >> /\ moves < MaxMoves /\ index # slider
    /\ slider' = index /\ moves' = moves + 1
    /\ RequestAt(index)
    /\ UNCHANGED <<replays, current, opening, call, shown, error>>

\* The loop takes the latest request, or ends.
Serve ==
    /\ runner.running /\ call = NoCall
    /\ IF runner.target # None /\ current # 0
       THEN /\ call' = [replay |-> current, index |-> runner.target, stage |-> "at", base |-> 0]
            /\ runner' = [runner EXCEPT !.target = None]
       ELSE /\ runner' = [running |-> FALSE, target |-> None]
            /\ UNCHANGED call
    /\ UNCHANGED <<replays, current, opening, display, moves>>

-----------------------------------------------------------------------------
(* DocumentReplay.at() of the call in flight.                              *)

Self == replays[call.replay]

Resolve(ops) ==
    /\ shown' = [index |-> call.index, ops |-> ops] /\ error' = FALSE /\ call' = NoCall

Reject == error' = TRUE /\ call' = NoCall /\ UNCHANGED shown

\* Mutant: the index is rounded up to a multiple of the stride, not down.
RoundedUpBase(r, index) ==
    LET later == {p \in DOMAIN r.checkpoints : p >= index}
    IN IF later = {} THEN 0 ELSE Min(later)

\* The last checkpoint at or before the index.
Base(r, index) == Max({p \in DOMAIN r.checkpoints : p <= index})

\* at() up to its first await.
At ==
    /\ call.stage = "at"
    /\ IF Self.closed
       THEN Reject /\ UNCHANGED replays
       ELSE IF Self.position = call.index /\ call.index \in DOMAIN Self.states
       THEN Resolve(Self.states[call.index]) /\ UNCHANGED replays
       ELSE IF Self.position > call.index
       THEN /\ call' = [call EXCEPT !.stage = "importing", !.base = Base(Self, call.index)]
            /\ replays' = [replays EXCEPT ![call.replay].engine.live = FALSE]
            /\ UNCHANGED <<shown, error>>
       ELSE /\ call' = [call EXCEPT !.stage = "folding"]
            /\ UNCHANGED <<replays, shown, error>>
    /\ UNCHANGED <<current, opening, runner, slider, moves>>

\* The checkpoint is imported.  A close that came first wins.
Imported ==
    /\ call.stage = "importing"
    /\ \/ Reject /\ UNCHANGED replays
       \/ /\ ~Self.closed
          /\ replays' = [replays EXCEPT
                 ![call.replay].engine = [live |-> TRUE, ops |-> Self.checkpoints[call.base]],
                 ![call.replay].position = call.base]
          /\ call' = [call EXCEPT !.stage = "folding"]
          /\ UNCHANGED <<shown, error>>
    /\ UNCHANGED <<current, opening, runner, slider, moves>>

\* Where the fold next waits: at a new checkpoint, or at the index.
Stop(r, index) ==
    Min({index} \cup {p \in r.position + 1 .. index :
                          p % Stride = 0 /\ p \notin DOMAIN r.checkpoints})

\* Operations are applied up to the next stop.  A freed engine throws.
Fold ==
    LET stop == Stop(Self, call.index)
        ops == Self.engine.ops \cup (Self.position + 1 .. stop)
        new == stop # Self.position /\ stop % Stride = 0 /\ stop \notin DOMAIN Self.checkpoints
    IN /\ call.stage = "folding"
       /\ IF ~Self.engine.live
          THEN Reject /\ UNCHANGED replays
          ELSE /\ replays' = [replays EXCEPT ![call.replay] =
                      [Self EXCEPT !.engine.ops = ops, !.position = stop,
                                   !.checkpoints = IF new THEN With(@, stop, ops) ELSE @,
                                   !.states = IF new THEN @ ELSE With(@, stop, ops)]]
               /\ IF new THEN UNCHANGED <<call, shown, error>> ELSE Resolve(ops)
       /\ UNCHANGED <<current, opening, runner, slider, moves>>

Next ==
    \/ Opened \/ OpenFails \/ Reopen \/ Serve \/ At \/ Imported \/ Fold
    \/ \E index \in Positions : Move(index)

Spec == Init /\ [][Next]_vars

-----------------------------------------------------------------------------
\* A state shown for a prefix is the fold of exactly that prefix, whatever
\* was in flight when the slider moved or the panel was opened again; and when
\* the panel rests without an error it shows the slider's prefix (at() and
\* positionAt() in replay.ts, requestAt() in document-tools.tsx).
ReplayExact ==
    /\ shown # Nothing => shown.ops = 1 .. shown.index
    /\ ~runner.running /\ current # 0 /\ ~error => shown.index = slider

-----------------------------------------------------------------------------
(* What it rests on.                                                       *)

TypeOK ==
    /\ current \in 0 .. Len(replays)
    /\ runner \in [running : BOOLEAN, target : Positions \cup {None}]
    /\ slider \in Positions
    /\ call \in [replay : Nat, index : Positions \cup {None}, base : Positions,
                 stage : {"none", "at", "importing", "folding"}]

\* Whatever a replay keeps for a position is the fold up to there.  A closed one
\* keeps nothing.
IsFold(map) == \A p \in DOMAIN map : p \in Positions /\ map[p] = 1 .. p
FoldsExactly(r) ==
    /\ r.closed \in BOOLEAN /\ IsFold(r.checkpoints) /\ IsFold(r.states)
    /\ IF r.closed THEN ~r.engine.live
       ELSE r.position \in Positions /\ 0 \in DOMAIN r.checkpoints
    /\ r.engine.live => r.engine.ops = 1 .. r.position

\* A call waits where its replay, unless closed, can go on to the index.
CallInv ==
    \/ call = NoCall
    \/ /\ call.replay \in 1 .. Len(replays) /\ call.index \in Positions
       /\ call.stage \in {"at", "importing", "folding"}
       /\ call.stage = "importing" =>
              \/ Self.closed
              \/ call.base \in DOMAIN Self.checkpoints /\ call.base <= call.index
       /\ call.stage = "folding" /\ Self.engine.live => Self.position <= call.index

\* The request for the slider's position is to be taken, in flight or answered.
RunnerInv ==
    /\ runner.target # None => runner.running /\ runner.target = slider
    /\ call # NoCall => runner.running
    /\ runner.target = None /\ call # NoCall => call.index = slider
    /\ runner.target = None /\ call = NoCall /\ current # 0 /\ ~error => shown.index = slider

ShownInv == shown # Nothing => shown.ops = 1 .. shown.index

ReplayInv ==
    /\ TypeOK
    /\ \A i \in 1 .. Len(replays) : FoldsExactly(replays[i])
    /\ CallInv /\ RunnerInv /\ ShownInv
=============================================================================
