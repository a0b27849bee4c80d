-------------------------- MODULE DocReadersProofs --------------------------
(***************************************************************************)
(* Proofs about DocStore and its readers.  DocInv, the inductive invariant *)
(* of the store, comes first, with what it keeps true.  Then DocReaders: a *)
(* reconstruction and a client that is being caught up stay exact while    *)
(* ingestion, the snapshot pipeline, compaction and retention rewrite the  *)
(* history under them; the lemmas there say what one step of the store may *)
(* change of what a reader has seen.                                       *)
(***************************************************************************)
EXTENDS DocReaders, TLAPS

USE MaxSeqAssumption, NoOpAssumption, NoSnapAssumption, AttemptAssumption

-----------------------------------------------------------------------------
(* Type correctness *)

\* The idle records and the empty snapshot row have their declared shapes.
LEMMA ConstantsTyped ==
    /\ IdleBuilder \in BuilderState
    /\ IdlePruner \in PrunerState
    /\ NoRow \in SnapRow
    /\ [NoRow EXCEPT !.status = "purged"] \in SnapRow
    /\ Seqs \subseteq Seq0 /\ Seq0 \subseteq Int /\ 0 \in Seq0
BY DEF IdleBuilder, BuilderState, IdlePruner, PrunerState, NoRow, SnapRow, Seqs, Seq0

\* Whatever a transaction appends, logged operations keep their number, the new
\* ones come above lastSeq and have a row, and no state at or below lastSeq
\* changes.
LEMMA AppendFacts ==
    ASSUME log \in [Seqs -> Ops \cup {NoOp}], rows \subseteq Seqs, lastSeq \in Seq0,
           NEW B \in SUBSET Ops, Append(B)
    PROVE  /\ log' \in [Seqs -> Ops \cup {NoOp}]
           /\ rows' \subseteq Seqs
           /\ lastSeq' \in Seq0 /\ lastSeq <= lastSeq'
           /\ rows \subseteq rows'
           /\ \A s \in Seqs : s <= lastSeq => log'[s] = log[s] /\ (s \in rows' => s \in rows)
           /\ \A s \in rows' : s \notin rows => log'[s] # NoOp /\ s <= lastSeq' /\ s > lastSeq
           /\ \A s \in Seqs : s > lastSeq /\ s \notin rows' => log'[s] = log[s]
           /\ \A o \in B : (\E s \in rows : log[s] = o) \/ (\E s \in rows' : log'[s] = o)
<1> DEFINE new == B \ OpsAt(rows)
<1>1. PICK S \in SUBSET {s \in Seqs : s > lastSeq} : \E at \in Bijection(S, new) :
        /\ log' = [s \in Seqs |-> IF s \in S THEN at[s] ELSE log[s]]
        /\ rows' = rows \cup S
        /\ lastSeq' \in S \cup {lastSeq}
        /\ \A s \in S : s <= lastSeq'
  BY DEF Append
<1>2. PICK at \in Bijection(S, new) :
        /\ log' = [s \in Seqs |-> IF s \in S THEN at[s] ELSE log[s]]
        /\ rows' = rows \cup S
        /\ lastSeq' \in S \cup {lastSeq}
        /\ \A s \in S : s <= lastSeq'
  BY <1>1
<1>3. /\ at \in [S -> new]
      /\ \A o \in new : \E s \in S : at[s] = o
  BY DEF Bijection, Injection, Surjection
<1>4. \A s \in S : s \in Seqs /\ s > lastSeq /\ s \in Int /\ at[s] \in Ops /\ at[s] # NoOp
  BY <1>3 DEF Seqs
<1>5. log' \in [Seqs -> Ops \cup {NoOp}] /\ rows' \subseteq Seqs
  BY <1>2, <1>4
<1>6. lastSeq' \in Seq0 /\ lastSeq <= lastSeq'
  BY <1>2, <1>4 DEF Seqs, Seq0
<1>7. \A s \in Seqs : s <= lastSeq => log'[s] = log[s] /\ (s \in rows' => s \in rows)
  BY <1>2, <1>4 DEF Seqs, Seq0
<1>8. \A s \in rows' : s \notin rows => log'[s] # NoOp /\ s <= lastSeq' /\ s > lastSeq
  BY <1>2, <1>4
<1>9. \A s \in Seqs : s > lastSeq /\ s \notin rows' => log'[s] = log[s]
  BY <1>2
<1>10. \A o \in B : (\E s \in rows : log[s] = o) \/ (\E s \in rows' : log'[s] = o)
  <2> SUFFICES ASSUME NEW o \in B, ~ \E s \in rows : log[s] = o
               PROVE  \E s \in rows' : log'[s] = o
    OBVIOUS
  <2>1. o \in new
    BY DEF OpsAt
  <2>2. PICK s \in S : at[s] = o
    BY <2>1, <1>3
  <2>3. s \in rows' /\ log'[s] = o
    BY <2>2, <1>2, <1>4
  <2> QED BY <2>3
<1> QED BY <1>2, <1>5, <1>6, <1>7, <1>8, <1>9, <1>10

-----------------------------------------------------------------------------
(* Frames: what an action that touches one part of the state leaves true *)

\* Only the record of execution b changed.
LEMMA BuilderOnly ==
    ASSUME DocInv,
           UNCHANGED <<log, rows, lastSeq, acked, floor, floorSnap, snaps, revs,
                       anchors, pruner>>,
           NEW b \in Builders,
           builder' \in [Builders -> BuilderState],
           \A c \in Builders : c # b => builder'[c] = builder[c],
           BuilderInv(b)'
    PROVE  DocInv'
<1>1. TypeOK' /\ LogInv' /\ FloorInv' /\ RevInv' /\ SnapInv'
  <2>1. TypeOK'
    BY DEF DocInv, TypeOK
  <2>2. LogInv' /\ FloorInv' /\ RevInv'
    BY DEF DocInv, LogInv, FloorInv, RevInv, Logged, OpsAt, Finalized
  <2>3. SnapInv'
    BY DEF DocInv, SnapInv, FinalizedExact, Exact
  <2> QED BY <2>1, <2>2, <2>3
<1>2. \A c \in Builders : BuilderInv(c)'
  <2> SUFFICES ASSUME NEW c \in Builders, c # b PROVE BuilderInv(c)'
    OBVIOUS
  <2>1. BuilderInv(c) /\ builder'[c] = builder[c]
    BY DEF DocInv
  <2> QED BY <2>1 DEF BuilderInv, Holds, Exact, Logged
<1>3. \A p \in Pruners : PrunerInv(p)'
  BY DEF DocInv, PrunerInv
<1> QED BY <1>1, <1>2, <1>3 DEF DocInv

\* A crash, an error or a finished execution.
LEMMA BuilderIdles ==
    ASSUME DocInv, NEW b \in Builders,
           UNCHANGED <<log, rows, lastSeq, acked, floor, floorSnap, snaps, revs,
                       anchors, pruner>>,
           builder' = [builder EXCEPT ![b] = IdleBuilder]
    PROVE  DocInv'
<1>1. builder' \in [Builders -> BuilderState] /\ builder'[b] = IdleBuilder
  BY ConstantsTyped DEF DocInv, TypeOK
<1>2. BuilderInv(b)'
  BY <1>1 DEF BuilderInv, IdleBuilder
<1> QED BY <1>1, <1>2, BuilderOnly

-----------------------------------------------------------------------------
(* Covering snapshots *)

\* The covering snapshot of a revision target, or of the durable head, is exact
\* and is not older than the floor, or else it sits at the target itself.
LEMMA CoveringBasis ==
    ASSUME DocInv, NEW T \in Seq0, T \in revs \/ T = lastSeq,
           NEW cov, NEW base, IsCovering(T, cov, base)
    PROVE  /\ cov \in Seq0 /\ cov <= T
           /\ base = Exact(cov) /\ base \subseteq Ops
           /\ floor <= cov \/ cov = T
<1>1. /\ floor \in Int /\ T \in Int /\ T >= 0
      /\ floor # NoFloor => floor >= 0
      /\ \A s \in SnapIds : snaps[s].coverage \in Seq0 /\ snaps[s].content \subseteq Ops
  BY DEF DocInv, TypeOK, SnapRow, Seq0, NoFloor
<1>2. floor # NoFloor => /\ floorSnap \in Finalized
                         /\ snaps[floorSnap].coverage = floor
                         /\ floor <= lastSeq
  BY DEF DocInv, FloorInv, SnapInv, Finalized
<1>3. T = 0 \/ floor <= T \/ \E s \in Finalized : snaps[s].coverage = T
  BY <1>1, <1>2 DEF DocInv, RevInv, NoFloor
<1>4. CASE FinalizedUpTo(T) = {} /\ cov = 0 /\ base = {}
  <2>1. Exact(0) = {}
    BY DEF Exact, Seqs
  <2>2. ~\E s \in Finalized : snaps[s].coverage <= T
    BY <1>4 DEF FinalizedUpTo
  <2>3. floor <= 0 \/ T = 0
    BY <1>1, <1>2, <1>3, <2>2 DEF NoFloor, Seq0
  <2> QED BY <1>4, <1>1, <2>1, <2>3 DEF Seq0
<1>5. CASE \E s \in SnapIds : /\ IsLatest(s, T)
                              /\ cov = snaps[s].coverage
                              /\ base = snaps[s].content
  <2>1. PICK s \in SnapIds : /\ IsLatest(s, T)
                             /\ cov = snaps[s].coverage
                             /\ base = snaps[s].content
    BY <1>5
  <2>2. s \in Finalized /\ cov <= T /\ cov \in Seq0 /\ cov \in Int
    BY <2>1, <1>1 DEF IsLatest, FinalizedUpTo, Seq0
  <2>3. base = Exact(cov) /\ base \subseteq Ops
    BY <2>1, <2>2, <1>1 DEF DocInv, SnapInv, FinalizedExact, Finalized
  <2>4. \A t \in Finalized : snaps[t].coverage <= T => snaps[t].coverage <= cov
    BY <2>1, <1>1, <2>2 DEF IsLatest, FinalizedUpTo, Finalized, NewerOrSame, Seq0
  <2>5. floor <= cov \/ cov = T
    BY <2>2, <2>4, <1>1, <1>2, <1>3 DEF NoFloor, Seq0
  <2> QED BY <2>2, <2>3, <2>5
<1> QED BY <1>4, <1>5 DEF IsCovering

\* Reading a covering snapshot starts a fold that knows everything up to the
\* snapshot's coverage.
LEMMA ExactHolds ==
    ASSUME NEW T \in Seq0, NEW U \in Seq0, T <= U
    PROVE  /\ Holds(Exact(T), 0, T)
           /\ Exact(T) \subseteq Exact(U)
           /\ \A lo \in Int : Holds(Exact(T), lo, T)
BY DEF Holds, Exact, Logged, Seqs, Seq0
-----------------------------------------------------------------------------
(* The steps of one execution of the pipeline *)

\* A job selects and loads its covering snapshot.
LEMMA StartBuildInv ==
    ASSUME DocInv, NEW b \in Builders, NEW T \in Seq0, NEW a \in Attempts,
           StartBuild(b, T, a)
    PROVE  DocInv'
<1>1. PICK cov \in Seq0, base \in SUBSET Ops :
          /\ IsCovering(T, cov, base)
          /\ builder' = [builder EXCEPT ![b] =
                [IdleBuilder EXCEPT !.pc = "build", !.boundary = T,
                                    !.attempt = a, !.cov = cov, !.cursor = cov,
                                    !.acc = base]]
  BY DEF StartBuild
<1>2. /\ builder' \in [Builders -> BuilderState]
      /\ \A c \in Builders : c # b => builder'[c] = builder[c]
  BY <1>1 DEF DocInv, TypeOK, BuilderState, IdleBuilder
<1>3. /\ builder'[b].pc = "build" /\ builder'[b].boundary = T
      /\ builder'[b].cursor = cov /\ builder'[b].acc = base
  BY <1>1 DEF DocInv, TypeOK, BuilderState, IdleBuilder
<1>4. T \in revs /\ floor \in Int
  BY DEF StartBuild, DocInv, TypeOK, Seq0, NoFloor
<1>5. cov <= T /\ base = Exact(cov)
  BY <1>1, <1>4, CoveringBasis
<1>6. Holds(base, floor, cov) /\ base \subseteq Exact(T)
  BY <1>4, <1>5, ExactHolds
<1>7. UNCHANGED <<log, rows, lastSeq, acked, floor, floorSnap, snaps, revs,
                  anchors, pruner>>
  BY DEF StartBuild
<1>8. BuilderInv(b)'
  BY <1>3, <1>4, <1>5, <1>6, <1>7 DEF BuilderInv, Holds, Exact, Logged
<1> QED BY <1>2, <1>7, <1>8, BuilderOnly

\* A restore finds its anchor, or begins to build one.
LEMMA StartRestoreInv ==
    ASSUME DocInv, NEW b \in Builders, NEW T \in Seq0, StartRestore(b, T)
    PROVE  DocInv'
<1>1. /\ T \in revs
      /\ UNCHANGED <<log, rows, lastSeq, acked, floor, floorSnap, snaps, revs,
                     anchors, pruner>>
  BY DEF StartRestore
<1>0. floor \in Int
  BY DEF DocInv, TypeOK, Seq0, NoFloor
<1>2. CASE \E s \in Finalized :
             /\ snaps[s].coverage = T
             /\ builder' = [builder EXCEPT ![b] =
                   [IdleBuilder EXCEPT !.pc = "anchored", !.anchor = TRUE,
                                       !.boundary = T, !.snap = s]]
  <2>0. PICK s \in SnapIds :
            builder' = [builder EXCEPT ![b] =
                   [IdleBuilder EXCEPT !.pc = "anchored", !.anchor = TRUE,
                                       !.boundary = T, !.snap = s]]
    BY <1>2 DEF Finalized
  <2>1. /\ builder' \in [Builders -> BuilderState]
        /\ \A c \in Builders : c # b => builder'[c] = builder[c]
    BY <2>0, ConstantsTyped DEF DocInv, TypeOK, BuilderState, IdleBuilder
  <2>2. /\ builder'[b].pc = "anchored" /\ builder'[b].boundary = T
        /\ builder'[b].snap \in SnapIds
    BY <2>0 DEF DocInv, TypeOK, BuilderState, IdleBuilder
  <2>3. BuilderInv(b)'
    BY <2>2, <1>1 DEF BuilderInv
  <2> QED BY <2>1, <2>3, <1>1, BuilderOnly
<1>3. CASE \E cov \in Seq0, base \in SUBSET Ops :
                /\ IsCovering(T, cov, base)
                /\ builder' = [builder EXCEPT ![b] =
                      [IdleBuilder EXCEPT !.pc = "build", !.anchor = TRUE,
                                          !.boundary = T, !.cov = cov,
                                          !.cursor = cov, !.acc = base]]
  <2>1. PICK cov \in Seq0, base \in SUBSET Ops :
                /\ IsCovering(T, cov, base)
                /\ builder' = [builder EXCEPT ![b] =
                      [IdleBuilder EXCEPT !.pc = "build", !.anchor = TRUE,
                                          !.boundary = T, !.cov = cov,
                                          !.cursor = cov, !.acc = base]]
    BY <1>3
  <2>2. /\ builder' \in [Builders -> BuilderState]
        /\ \A c \in Builders : c # b => builder'[c] = builder[c]
    BY <2>1 DEF DocInv, TypeOK, BuilderState, IdleBuilder
  <2>3. /\ builder'[b].pc = "build" /\ builder'[b].boundary = T
        /\ builder'[b].cursor = cov /\ builder'[b].acc = base
    BY <2>1 DEF DocInv, TypeOK, BuilderState, IdleBuilder
  <2>4. cov <= T /\ base = Exact(cov)
    BY <2>1, <1>1, CoveringBasis
  <2>5. Holds(base, floor, cov) /\ base \subseteq Exact(T)
    BY <1>0, <1>1, <2>4, ExactHolds
  <2>6. BuilderInv(b)'
    BY <2>3, <2>4, <2>5, <1>1 DEF BuilderInv, Holds, Exact, Logged
  <2> QED BY <2>2, <2>6, <1>1, BuilderOnly
<1> QED BY <1>2, <1>3 DEF StartRestore

\* One page: what is added was committed at or below the boundary, and every
\* operation above the floor up to the page's end is now in the fold.
LEMMA PageFacts ==
    ASSUME DocInv, NEW lo \in Seq0, NEW hi \in Seq0, NEW e \in RowsIn(lo, hi)
    PROVE  /\ e \in Seq0 /\ lo < e /\ e <= hi
           /\ OpsAt(RowsIn(lo, e)) \subseteq Exact(hi)
           /\ OpsAt(RowsIn(lo, e)) \subseteq Ops
           /\ \A s \in Logged : s > floor /\ lo < s /\ s <= e =>
                  log[s] \in OpsAt(RowsIn(lo, e))
<1>1. /\ rows \subseteq Logged /\ \A s \in Logged : s > floor => s \in rows
      /\ Logged \subseteq Seqs /\ Seqs \subseteq Seq0 /\ Seq0 \subseteq Int
      /\ \A s \in Logged : log[s] \in Ops /\ log[s] # NoOp
  BY DEF DocInv, TypeOK, LogInv, Logged, Seqs, Seq0
<1>2. e \in Seq0 /\ lo < e /\ e <= hi
  BY <1>1 DEF RowsIn
<1>3. \A s \in RowsIn(lo, e) : s \in Logged /\ s <= hi
  BY <1>1, <1>2 DEF RowsIn
<1>4. OpsAt(RowsIn(lo, e)) \subseteq Exact(hi) /\ OpsAt(RowsIn(lo, e)) \subseteq Ops
  BY <1>1, <1>3 DEF OpsAt, Exact
<1>5. \A s \in Logged : s > floor /\ lo < s /\ s <= e => s \in RowsIn(lo, e)
  BY <1>1 DEF RowsIn
<1> QED BY <1>2, <1>4, <1>5 DEF OpsAt

\* The first fold.
LEMMA BuildPageInv ==
    ASSUME DocInv, NEW b \in Builders, BuildPage(b)
    PROVE  DocInv'
<1> DEFINE r == builder[b]
           left == RowsIn(r.cursor, r.boundary)
<1>1. /\ r.pc = "build" /\ r \in BuilderState
      /\ r.boundary \in revs /\ r.cursor <= r.boundary
      /\ r.acc \subseteq Exact(r.boundary) /\ Holds(r.acc, floor, r.cursor)
      /\ r.cursor \in Seq0 /\ r.boundary \in Seq0 /\ r.acc \subseteq Ops
  BY DEF BuildPage, DocInv, BuilderInv, TypeOK, BuilderState
<1>2. UNCHANGED <<log, rows, lastSeq, acked, floor, floorSnap, snaps, revs,
                  anchors, pruner>>
  BY DEF BuildPage
<1>3. /\ \A s \in Logged : s > floor => s \in rows
      /\ Logged \subseteq Int /\ Seq0 \subseteq Int /\ floor \in Int
  BY DEF DocInv, TypeOK, LogInv, Logged, Seqs, Seq0, NoFloor
<1>4. CASE left = {} /\ Goto(b, "insert")
  <2>1. /\ builder' \in [Builders -> BuilderState]
        /\ \A c \in Builders : c # b => builder'[c] = builder[c]
        /\ builder'[b] = [r EXCEPT !.pc = "insert"]
    BY <1>4, <1>1 DEF Goto, DocInv, TypeOK, BuilderState
  <2>2. Holds(r.acc, floor, r.boundary)
    <3> SUFFICES ASSUME NEW s \in Logged, floor < s, s <= r.boundary
                 PROVE  log[s] \in r.acc
      BY DEF Holds
    <3>1. s \in Int /\ floor \in Int /\ r.cursor \in Int /\ r.boundary \in Int
      BY <1>1, <1>3
    <3>2. s \in rows
      BY <3>1, <1>3
    <3>3. s <= r.cursor
      BY <3>1, <3>2, <1>4 DEF RowsIn
    <3> QED BY <3>3, <1>1 DEF Holds
  <2>3. /\ builder'[b].pc = "insert" /\ builder'[b].boundary = r.boundary
        /\ builder'[b].acc = r.acc
    BY <2>1, <1>1 DEF BuilderState
  <2>4. BuilderInv(b)'
    BY <2>2, <2>3, <1>1, <1>2 DEF BuilderInv, Holds, Exact, Logged
  <2> QED BY <2>1, <2>4, <1>2, BuilderOnly
<1>5. CASE \E e \in left :
              builder' = [builder EXCEPT
                            ![b].acc = @ \cup OpsAt(RowsIn(r.cursor, e)),
                            ![b].cursor = e,
                            ![b].pc = IF RowsIn(e, r.boundary) # {} THEN r.pc
                                                                    ELSE "insert"]
  <2>1. PICK e \in left :
              builder' = [builder EXCEPT
                            ![b].acc = @ \cup OpsAt(RowsIn(r.cursor, e)),
                            ![b].cursor = e,
                            ![b].pc = IF RowsIn(e, r.boundary) # {} THEN r.pc
                                                                    ELSE "insert"]
    BY <1>5
  <2> DEFINE page == OpsAt(RowsIn(r.cursor, e))
  <2>2. /\ e \in Seq0 /\ r.cursor < e /\ e <= r.boundary
        /\ page \subseteq Exact(r.boundary) /\ page \subseteq Ops
        /\ \A s \in Logged : s > floor /\ r.cursor < s /\ s <= e => log[s] \in page
    BY <1>1, PageFacts
  <2> HIDE DEF page
  <2>3. /\ builder'[b].acc = r.acc \cup page
        /\ builder'[b].cursor = e
        /\ builder'[b].boundary = r.boundary
        /\ \/ builder'[b].pc = "build"
           \/ builder'[b].pc = "insert" /\ RowsIn(e, r.boundary) = {}
    BY <2>1, <1>1 DEF BuilderState, DocInv, TypeOK, page
  <2>4. /\ builder' \in [Builders -> BuilderState]
        /\ \A c \in Builders : c # b => builder'[c] = builder[c]
    BY <2>1, <2>2, <1>1 DEF BuilderState, DocInv, TypeOK, page
  <2>5. Holds(r.acc \cup page, floor, e)
    <3> SUFFICES ASSUME NEW s \in Logged, floor < s, s <= e
                 PROVE  log[s] \in r.acc \cup page
      BY DEF Holds
    <3>1. s \in Int /\ floor \in Int /\ r.cursor \in Int /\ e \in Int
      BY <1>1, <1>3, <2>2
    <3>2. CASE s <= r.cursor
      BY <3>2, <1>1 DEF Holds
    <3>3. CASE r.cursor < s
      BY <3>1, <3>3, <2>2
    <3> QED BY <3>1, <3>2, <3>3
  <2>6. RowsIn(e, r.boundary) = {} => Holds(r.acc \cup page, floor, r.boundary)
    BY <2>2, <2>5, <1>1, <1>3 DEF Holds, RowsIn
  <2>7. BuilderInv(b)'
    BY <2>2, <2>3, <2>5, <2>6, <1>1, <1>2 DEF BuilderInv, Holds, Exact, Logged
  <2> QED BY <2>4, <2>7, <1>2, BuilderOnly
<1> QED BY <1>1, <1>4, <1>5 DEF BuildPage, ReadPage

\* The second fold starts from a snapshot that is no older than the floor, so
\* the stored content already has everything above that snapshot.
LEMMA VerifySelectInv ==
    ASSUME DocInv, NEW b \in Builders, VerifySelect(b)
    PROVE  DocInv'
<1> DEFINE r == builder[b]
           s == snaps[r.snap]
<1>1. /\ r.pc = "verifying" /\ r \in BuilderState /\ r.boundary \in revs
      /\ r.boundary \in Seq0 /\ s.status = "verifying"
      /\ r.snap \in SnapIds /\ s.coverage = r.boundary
      /\ Holds(s.content, floor, r.boundary)
  BY DEF VerifySelect, DocInv, BuilderInv, TypeOK, BuilderState
<1>2. UNCHANGED <<log, rows, lastSeq, acked, floor, floorSnap, snaps, revs,
                  anchors, pruner>>
  BY DEF VerifySelect
<1>3. PICK cov \in Seq0, base \in SUBSET Ops :
          /\ IsCovering(r.boundary, cov, base)
          /\ builder' = [builder EXCEPT ![b].pc = "refold", ![b].cov = cov,
                                        ![b].cursor = cov, ![b].acc = base]
  BY DEF VerifySelect
<1>4. /\ cov <= r.boundary /\ base = Exact(cov)
      /\ floor <= cov \/ cov = r.boundary
  BY <1>1, <1>3, CoveringBasis
<1>5. Holds(base, 0, cov) /\ base \subseteq Exact(r.boundary)
  BY <1>1, <1>4, ExactHolds
<1>6. Holds(s.content, cov, r.boundary)
  <2>1. floor \in Int /\ Logged \subseteq Int /\ Seq0 \subseteq Int
    BY DEF DocInv, TypeOK, Logged, Seqs, Seq0, NoFloor
  <2> QED BY <2>1, <1>1, <1>4 DEF Holds
<1>7. /\ builder' \in [Builders -> BuilderState]
      /\ \A c \in Builders : c # b => builder'[c] = builder[c]
  BY <1>3, <1>1 DEF BuilderState, DocInv, TypeOK
<1>8. /\ builder'[b].pc = "refold" /\ builder'[b].boundary = r.boundary
      /\ builder'[b].cov = cov /\ builder'[b].cursor = cov
      /\ builder'[b].acc = base /\ builder'[b].snap = r.snap
  BY <1>3, <1>1 DEF BuilderState, DocInv, TypeOK
<1>9. BuilderInv(b)'
  BY <1>1, <1>2, <1>4, <1>5, <1>6, <1>8 DEF BuilderInv, Holds, Exact, Logged
<1> QED BY <1>2, <1>7, <1>9, BuilderOnly

\* The second fold only has to be complete up to the snapshot it started from.
LEMMA VerifyPageInv ==
    ASSUME DocInv, NEW b \in Builders, VerifyPage(b)
    PROVE  DocInv'
<1> DEFINE r == builder[b]
           left == RowsIn(r.cursor, r.boundary)
<1>1. /\ r.pc = "refold" /\ r \in BuilderState
      /\ r.boundary \in revs /\ r.cursor <= r.boundary
      /\ r.acc \subseteq Exact(r.boundary)
      /\ r.cursor \in Seq0 /\ r.boundary \in Seq0 /\ r.acc \subseteq Ops
  BY DEF VerifyPage, DocInv, BuilderInv, TypeOK, BuilderState
<1>2. UNCHANGED <<log, rows, lastSeq, acked, floor, floorSnap, snaps, revs,
                  anchors, pruner>>
  BY DEF VerifyPage
<1>3. BuilderInv(b)
  BY DEF DocInv
<1>4. CASE left = {} /\ Goto(b, "compare")
  <2>1. /\ builder' \in [Builders -> BuilderState]
        /\ \A c \in Builders : c # b => builder'[c] = builder[c]
        /\ builder'[b] = [r EXCEPT !.pc = "compare"]
    BY <1>4, <1>1 DEF Goto, DocInv, TypeOK, BuilderState
  <2>2. /\ builder'[b].pc = "compare" /\ builder'[b].boundary = r.boundary
        /\ builder'[b].acc = r.acc /\ builder'[b].cov = r.cov
        /\ builder'[b].snap = r.snap
    BY <2>1, <1>1 DEF BuilderState
  <2>3. BuilderInv(b)'
    BY <2>2, <1>1, <1>2, <1>3 DEF BuilderInv, Holds, Exact, Logged
  <2> QED BY <2>1, <2>3, <1>2, BuilderOnly
<1>5. CASE \E e \in left :
              builder' = [builder EXCEPT
                            ![b].acc = @ \cup OpsAt(RowsIn(r.cursor, e)),
                            ![b].cursor = e,
                            ![b].pc = IF RowsIn(e, r.boundary) # {} THEN r.pc
                                                                    ELSE "compare"]
  <2>1. PICK e \in left :
              builder' = [builder EXCEPT
                            ![b].acc = @ \cup OpsAt(RowsIn(r.cursor, e)),
                            ![b].cursor = e,
                            ![b].pc = IF RowsIn(e, r.boundary) # {} THEN r.pc
                                                                    ELSE "compare"]
    BY <1>5
  <2> DEFINE page == OpsAt(RowsIn(r.cursor, e))
  <2>2. /\ e \in Seq0 /\ r.cursor < e /\ e <= r.boundary
        /\ page \subseteq Exact(r.boundary) /\ page \subseteq Ops
    BY <1>1, PageFacts
  <2> HIDE DEF page
  <2>3. /\ builder'[b].acc = r.acc \cup page
        /\ builder'[b].cursor = e /\ builder'[b].cov = r.cov
        /\ builder'[b].boundary = r.boundary /\ builder'[b].snap = r.snap
        /\ builder'[b].pc \in {"refold", "compare"}
    BY <2>1, <1>1 DEF BuilderState, DocInv, TypeOK, page
  <2>4. /\ builder' \in [Builders -> BuilderState]
        /\ \A c \in Builders : c # b => builder'[c] = builder[c]
    BY <2>1, <2>2, <1>1 DEF BuilderState, DocInv, TypeOK, page
  <2>5. BuilderInv(b)'
    BY <2>2, <2>3, <1>1, <1>2, <1>3 DEF BuilderInv, Holds, Exact, Logged
  <2> QED BY <2>4, <2>5, <1>2, BuilderOnly
<1> QED BY <1>1, <1>4, <1>5 DEF VerifyPage, ReadPage

\* Two equal folds: the first has everything above cov, the second everything
\* up to cov, and neither has anything else.
LEMMA VerifyCompareInv ==
    ASSUME DocInv, NEW b \in Builders, VerifyCompare(b)
    PROVE  DocInv'
<1> DEFINE r == builder[b]
           s == snaps[r.snap]
<1>1. /\ r.pc = "compare" /\ r \in BuilderState /\ r.boundary \in revs
      /\ r.snap \in SnapIds /\ s.status # "absent"
      /\ r.acc \subseteq Exact(r.boundary) /\ Holds(r.acc, 0, r.cov)
      /\ s.status \in {"building", "verifying"} =>
            /\ s.coverage = r.boundary
            /\ Holds(s.content, floor, r.boundary)
            /\ Holds(s.content, r.cov, r.boundary)
  BY DEF VerifyCompare, DocInv, BuilderInv, TypeOK
<1>2. UNCHANGED <<log, rows, lastSeq, acked, floor, floorSnap, snaps, revs,
                  anchors, pruner>>
  BY DEF VerifyCompare
<1>3. CASE r.acc = s.content
  <2>1. /\ builder' \in [Builders -> BuilderState]
        /\ \A c \in Builders : c # b => builder'[c] = builder[c]
        /\ builder'[b] = [r EXCEPT !.pc = "finalize"]
    BY <1>1, <1>3 DEF VerifyCompare, DocInv, TypeOK, BuilderState
  <2>2. /\ builder'[b].pc = "finalize" /\ builder'[b].boundary = r.boundary
        /\ builder'[b].snap = r.snap
    BY <2>1, <1>1 DEF BuilderState
  <2>3. s.status \in {"building", "verifying"} => s.content = Exact(r.boundary)
    <3> SUFFICES ASSUME s.status \in {"building", "verifying"},
                        NEW t \in Logged, t <= r.boundary
                 PROVE  log[t] \in s.content
      BY <1>1, <1>3 DEF Exact, Logged
    <3>1. t \in Int /\ t > 0 /\ r.cov \in Int
      BY <1>1 DEF Logged, Seqs, BuilderState, Seq0
    <3>2. CASE t <= r.cov
      BY <3>1, <3>2, <1>1, <1>3 DEF Holds
    <3>3. CASE r.cov < t
      BY <3>1, <3>3, <1>1 DEF Holds
    <3> QED BY <3>1, <3>2, <3>3
  <2>4. BuilderInv(b)'
    BY <2>2, <2>3, <1>1, <1>2 DEF BuilderInv, Holds, Exact, Logged
  <2> QED BY <2>1, <2>4, <1>2, BuilderOnly
<1>4. CASE r.acc # s.content
  BY <1>2, <1>4, BuilderIdles DEF VerifyCompare
<1> QED BY <1>3, <1>4

-----------------------------------------------------------------------------
(* Steps that rewrite crdt_snapshots *)

\* What no step does to the snapshot rows: bring one back from a later status,
\* change what an unfinished attempt holds, or touch a finalized snapshot that
\* the floor may need.
SnapsEvolve ==
    \A s \in SnapIds :
        /\ snaps[s].status # "absent" => snaps'[s].status # "absent"
        /\ snaps[s].status # "absent" /\ snaps'[s].status \in {"building", "verifying"} =>
              /\ snaps[s].status \in {"building", "verifying"}
              /\ snaps'[s].coverage = snaps[s].coverage
              /\ snaps'[s].content = snaps[s].content
        /\ snaps[s].status \in {"finalized", "superseded", "purged"} =>
              /\ snaps'[s].status \in {"finalized", "superseded", "purged"}
              /\ snaps'[s].status = "finalized" => snaps[s].status = "finalized"
        /\ snaps[s].status = "finalized" /\ snaps'[s].status = "finalized" =>
              snaps'[s].coverage = snaps[s].coverage
        /\ snaps[s].status = "finalized" /\ snaps[s].coverage <= floor =>
              snaps'[s].status = "finalized"

\* A step that rewrites snapshot rows within SnapsEvolve keeps what every
\* execution of the pipeline and every prune knows.
LEMMA SnapsOnly ==
    ASSUME DocInv, SnapsEvolve, SnapInv',
           snaps' \in [SnapIds -> SnapRow],
           UNCHANGED <<log, rows, lastSeq, acked, floor, floorSnap, revs, anchors,
                       pruner>>,
           builder' \in [Builders -> BuilderState],
           \A c \in Builders : builder'[c] = builder[c] \/ BuilderInv(c)'
    PROVE  DocInv'
<1>1. TypeOK' /\ LogInv'
  BY DEF DocInv, TypeOK, LogInv, Logged, OpsAt
<1>2. FloorInv'
  <2> SUFFICES ASSUME floor # NoFloor
               PROVE  floorSnap \in Finalized' /\ snaps'[floorSnap].coverage = floor
    BY DEF FloorInv
  <2>1. floorSnap \in Finalized /\ snaps[floorSnap].coverage = floor /\ floor \in Int
    BY DEF DocInv, FloorInv, TypeOK, Seq0, NoFloor
  <2> QED BY <2>1 DEF SnapsEvolve, Finalized
<1>3. RevInv'
  <2>1. /\ floor \in Int /\ revs \subseteq Int
        /\ \A s \in SnapIds : snaps[s].coverage \in Int
    BY DEF DocInv, TypeOK, SnapRow, Seq0, NoFloor
  <2>2. \A T \in revs : T <= lastSeq
    BY DEF DocInv, RevInv
  <2>3. ASSUME NEW T \in revs, T # 0, ~(floor <= T)
        PROVE  \E s \in Finalized' : snaps'[s].coverage = T
    <3>1. PICK s \in Finalized : snaps[s].coverage = T
      BY <2>3 DEF DocInv, RevInv
    <3> QED BY <2>1, <2>3, <3>1 DEF SnapsEvolve, Finalized
  <2> QED BY <2>2, <2>3 DEF RevInv
<1>4. \A c \in Builders : BuilderInv(c)'
  <2> SUFFICES ASSUME NEW c \in Builders, builder'[c] = builder[c]
               PROVE  BuilderInv(c)'
    OBVIOUS
  <2>1. BuilderInv(c)
    BY DEF DocInv
  <2> QED BY <2>1 DEF BuilderInv, Holds, Exact, Logged, SnapsEvolve
<1>5. \A p \in Pruners : PrunerInv(p)'
  BY DEF DocInv, PrunerInv, SnapsEvolve
<1> QED BY <1>1, <1>2, <1>3, <1>4, <1>5 DEF DocInv

\* create_attempt: the fold is stored in a new row, or the slot is taken.
LEMMA CreateAttemptInv ==
    ASSUME DocInv, NEW b \in Builders, CreateAttempt(b)
    PROVE  DocInv' /\ SnapsEvolve
<1> DEFINE r == builder[b]
<1>1. /\ r.pc = "insert" /\ r \in BuilderState /\ r.boundary \in revs
      /\ Holds(r.acc, floor, r.boundary)
      /\ UNCHANGED <<log, rows, lastSeq, acked, floor, floorSnap, revs, anchors,
                     pruner>>
  BY DEF CreateAttempt, DocInv, BuilderInv, TypeOK
<1>2. CASE UNCHANGED snaps /\ builder' = [builder EXCEPT ![b] = IdleBuilder]
  BY <1>1, <1>2, BuilderIdles DEF SnapsEvolve
<1>3. CASE \E s \in SnapIds :
                /\ snaps[s].status = "absent"
                /\ snaps' = [snaps EXCEPT ![s] =
                      [status   |-> "building",
                       coverage |-> r.boundary,
                       attempt  |-> r.attempt,
                       content  |-> r.acc]]
                /\ builder' = [builder EXCEPT ![b].pc = "created", ![b].snap = s]
  <2>1. PICK s \in SnapIds :
                /\ snaps[s].status = "absent"
                /\ snaps' = [snaps EXCEPT ![s] =
                      [status   |-> "building",
                       coverage |-> r.boundary,
                       attempt  |-> r.attempt,
                       content  |-> r.acc]]
                /\ builder' = [builder EXCEPT ![b].pc = "created", ![b].snap = s]
    BY <1>3
  <2>2. /\ snaps' \in [SnapIds -> SnapRow]
        /\ snaps'[s] = [status   |-> "building", coverage |-> r.boundary,
                        attempt  |-> r.attempt, content  |-> r.acc]
        /\ \A t \in SnapIds : t # s => snaps'[t] = snaps[t]
    BY <2>1, <1>1 DEF DocInv, TypeOK, SnapRow, BuilderState
  <2>3. /\ builder' \in [Builders -> BuilderState]
        /\ \A c \in Builders : c # b => builder'[c] = builder[c]
        /\ builder'[b].pc = "created" /\ builder'[b].snap = s
        /\ builder'[b].boundary = r.boundary
    BY <2>1, <1>1 DEF DocInv, TypeOK, BuilderState
  <2>4. SnapsEvolve
    BY <2>1, <2>2 DEF SnapsEvolve
  <2>5. SnapInv'
    <3>1. r.boundary <= lastSeq
      BY <1>1 DEF DocInv, RevInv
    <3> QED BY <3>1, <2>2, <1>1 DEF DocInv, SnapInv, FinalizedExact, Exact
  <2>6. BuilderInv(b)'
    BY <2>2, <2>3, <1>1 DEF BuilderInv, Holds, Exact, Logged
  <2> QED BY <2>2, <2>3, <2>4, <2>5, <2>6, <1>1, SnapsOnly
<1> QED BY <1>2, <1>3 DEF CreateAttempt

\* building -> verifying.
LEMMA ToVerifyingInv ==
    ASSUME DocInv, NEW b \in Builders, ToVerifying(b)
    PROVE  DocInv' /\ SnapsEvolve
<1> DEFINE r == builder[b]
<1>1. /\ r.pc = "created" /\ r \in BuilderState /\ r.boundary \in revs
      /\ r.snap \in SnapIds /\ snaps[r.snap].status = "building"
      /\ BuilderInv(b) /\ snaps \in [SnapIds -> SnapRow]
      /\ UNCHANGED <<log, rows, lastSeq, acked, floor, floorSnap, revs, anchors,
                     pruner>>
  BY DEF ToVerifying, DocInv, BuilderInv, TypeOK
<1>2. /\ snaps' \in [SnapIds -> SnapRow]
      /\ snaps'[r.snap] = [snaps[r.snap] EXCEPT !.status = "verifying"]
      /\ \A t \in SnapIds : t # r.snap => snaps'[t] = snaps[t]
  BY <1>1 DEF ToVerifying, SnapRow
<1>3. /\ snaps'[r.snap].status = "verifying"
      /\ snaps'[r.snap].coverage = snaps[r.snap].coverage
      /\ snaps'[r.snap].content = snaps[r.snap].content
  BY <1>1, <1>2 DEF SnapRow
<1>4. /\ builder' \in [Builders -> BuilderState]
      /\ \A c \in Builders : c # b => builder'[c] = builder[c]
      /\ builder'[b].pc = "verifying" /\ builder'[b].snap = r.snap
      /\ builder'[b].boundary = r.boundary
  BY <1>1 DEF ToVerifying, Goto, DocInv, TypeOK, BuilderState
<1>5. SnapsEvolve
  BY <1>1, <1>2, <1>3 DEF SnapsEvolve
<1>6. SnapInv'
  <2>1. \A t \in SnapIds :
            /\ snaps[t].coverage <= lastSeq
            /\ snaps[t].status \in {"finalized", "superseded"} =>
                  snaps[t].content = Exact(snaps[t].coverage)
    BY DEF DocInv, SnapInv, FinalizedExact
  <2>2. \A T : Exact(T)' = Exact(T)
    BY <1>1 DEF Exact
  <2>3. \A t \in SnapIds :
            /\ snaps'[t].coverage <= lastSeq
            /\ snaps'[t].status \in {"finalized", "superseded"} =>
                  snaps'[t].content = Exact(snaps'[t].coverage)
    BY <2>1, <1>1, <1>2, <1>3
  <2> QED BY <2>2, <2>3, <1>1 DEF SnapInv, FinalizedExact
<1>7. BuilderInv(b)'
  BY <1>1, <1>3, <1>4 DEF BuilderInv, Holds, Exact, Logged
<1> QED BY <1>1, <1>2, <1>4, <1>5, <1>6, <1>7, SnapsOnly

\* verifying -> finalized: only content that was compared gets here.
LEMMA FinalizeInv ==
    ASSUME DocInv, NEW b \in Builders, Finalize(b)
    PROVE  DocInv' /\ SnapsEvolve
<1> DEFINE r == builder[b]
<1>1. /\ r.pc = "finalize" /\ r \in BuilderState /\ r.boundary \in revs
      /\ r.snap \in SnapIds /\ snaps[r.snap].status = "verifying"
      /\ snaps[r.snap].coverage = r.boundary
      /\ snaps[r.snap].content = Exact(r.boundary)
      /\ snaps \in [SnapIds -> SnapRow]
      /\ UNCHANGED <<log, rows, lastSeq, acked, floor, floorSnap, revs, anchors,
                     pruner>>
  BY DEF Finalize, DocInv, BuilderInv, TypeOK
<1>2. /\ snaps' \in [SnapIds -> SnapRow]
      /\ snaps'[r.snap] = [snaps[r.snap] EXCEPT !.status = "finalized"]
      /\ \A t \in SnapIds : t # r.snap => snaps'[t] = snaps[t]
  BY <1>1 DEF Finalize, SnapRow
<1>3. /\ snaps'[r.snap].status = "finalized"
      /\ snaps'[r.snap].coverage = r.boundary
      /\ snaps'[r.snap].content = Exact(r.boundary)
  BY <1>1, <1>2 DEF SnapRow
<1>4. /\ builder' \in [Builders -> BuilderState]
      /\ \A c \in Builders : c # b => builder'[c] = builder[c]
      /\ \/ builder'[b].pc = "anchored" /\ builder'[b].snap = r.snap
            /\ builder'[b].boundary = r.boundary
         \/ builder'[b].pc = "idle"
  BY <1>1, ConstantsTyped DEF Finalize, DocInv, TypeOK, BuilderState, IdleBuilder
<1>5. SnapsEvolve
  BY <1>1, <1>2, <1>3 DEF SnapsEvolve
<1>6. SnapInv'
  <2>1. \A t \in SnapIds :
            /\ snaps[t].coverage <= lastSeq
            /\ snaps[t].status \in {"finalized", "superseded"} =>
                  snaps[t].content = Exact(snaps[t].coverage)
    BY DEF DocInv, SnapInv, FinalizedExact
  <2>2. \A T : Exact(T)' = Exact(T)
    BY <1>1 DEF Exact
  <2>3. \A t \in SnapIds :
            /\ snaps'[t].coverage <= lastSeq
            /\ snaps'[t].status \in {"finalized", "superseded"} =>
                  snaps'[t].content = Exact(snaps'[t].coverage)
    BY <2>1, <1>1, <1>2, <1>3
  <2> QED BY <2>2, <2>3, <1>1 DEF SnapInv, FinalizedExact
<1>7. BuilderInv(b)'
  BY <1>1, <1>3, <1>4 DEF BuilderInv
<1> QED BY <1>1, <1>2, <1>4, <1>5, <1>6, <1>7, SnapsOnly

\* Superseding and purging leave the floor snapshot and the pins alone.
LEMMA RetentionInv ==
    ASSUME DocInv, NEW s \in SnapIds, MarkSuperseded(s) \/ Purge(s)
    PROVE  DocInv' /\ SnapsEvolve
<1>1. /\ UNCHANGED <<log, rows, lastSeq, acked, floor, floorSnap, revs, anchors,
                     builder, pruner>>
      /\ snaps[s].coverage > floor
      /\ snaps \in [SnapIds -> SnapRow] /\ builder \in [Builders -> BuilderState]
      /\ floor \in Int /\ snaps[s].coverage \in Int
      /\ lastSeq \in Int /\ lastSeq >= 0
  BY DEF MarkSuperseded, Purge, StillUnprotected, DocInv, TypeOK, SnapRow, Seq0, NoFloor
<1>2. CASE MarkSuperseded(s)
  <2>1. /\ snaps' \in [SnapIds -> SnapRow]
        /\ snaps[s].status = "finalized" /\ snaps'[s].status = "superseded"
        /\ snaps'[s].coverage = snaps[s].coverage
        /\ snaps'[s].content = snaps[s].content
        /\ \A t \in SnapIds : t # s => snaps'[t] = snaps[t]
    BY <1>1, <1>2 DEF MarkSuperseded, StillUnprotected, SnapRow
  <2>2. SnapsEvolve
    BY <2>1, <1>1 DEF SnapsEvolve
  <2>3. SnapInv'
    BY <2>1, <1>1 DEF DocInv, SnapInv, FinalizedExact, Exact
  <2> QED BY <2>1, <2>2, <2>3, <1>1, SnapsOnly
<1>3. CASE Purge(s)
  <2>1. /\ snaps' \in [SnapIds -> SnapRow]
        /\ snaps[s].status = "superseded" /\ snaps'[s].status = "purged"
        /\ snaps'[s].coverage = 0
        /\ \A t \in SnapIds : t # s => snaps'[t] = snaps[t]
    BY <1>1, <1>3, ConstantsTyped DEF Purge, StillUnprotected, NoRow
  <2>2. SnapsEvolve
    BY <2>1, <1>1 DEF SnapsEvolve
  <2>3. SnapInv'
    BY <2>1, <1>1 DEF DocInv, SnapInv, FinalizedExact, Exact
  <2> QED BY <2>1, <2>2, <2>3, <1>1, SnapsOnly
<1> QED BY <1>2, <1>3

-----------------------------------------------------------------------------
(* Compaction *)

\* Only the record of prune p changed.
LEMMA PrunerOnly ==
    ASSUME DocInv, NEW p \in Pruners,
           UNCHANGED <<log, rows, lastSeq, acked, floor, floorSnap, snaps, revs,
                       anchors, builder>>,
           pruner' \in [Pruners -> PrunerState],
           \A q \in Pruners : q # p => pruner'[q] = pruner[q],
           PrunerInv(p)'
    PROVE  DocInv'
<1>1. TypeOK' /\ LogInv' /\ FloorInv' /\ RevInv'
  BY DEF DocInv, TypeOK, LogInv, FloorInv, RevInv, Logged, OpsAt, Finalized
<1>2. SnapInv'
  BY DEF DocInv, SnapInv, FinalizedExact, Exact
<1>3. \A c \in Builders : BuilderInv(c)'
  BY DEF DocInv, BuilderInv, Holds, Exact, Logged
<1>4. \A q \in Pruners : PrunerInv(q)'
  BY DEF DocInv, PrunerInv
<1> QED BY <1>1, <1>2, <1>3, <1>4 DEF DocInv

\* A prune passes eligibility.
LEMMA PruneStartInv ==
    ASSUME DocInv, NEW p \in Pruners, NEW s \in SnapIds, PruneStart(p, s)
    PROVE  DocInv'
<1>1. /\ s \in Finalized /\ snaps[s].coverage \in Seq0
      /\ pruner' = [pruner EXCEPT ![p] =
            [pc |-> "batch", boundary |-> snaps[s].coverage, snap |-> s,
             deleted |-> FALSE]]
      /\ UNCHANGED <<log, rows, lastSeq, acked, floor, floorSnap, snaps, revs,
                     anchors, builder>>
  BY DEF PruneStart, IsLatest, FinalizedUpTo, DocInv, TypeOK, SnapRow
<1>2. /\ pruner' \in [Pruners -> PrunerState]
      /\ \A q \in Pruners : q # p => pruner'[q] = pruner[q]
      /\ pruner'[p].boundary = snaps[s].coverage /\ pruner'[p].snap = s
  BY <1>1 DEF DocInv, TypeOK, PrunerState
<1>3. PrunerInv(p)'
  BY <1>1, <1>2 DEF PrunerInv, Finalized
<1> QED BY <1>1, <1>2, <1>3, PrunerOnly

\* A prune is refused, fails or crashes.
LEMMA PrunerStopsInv ==
    ASSUME DocInv, NEW p \in Pruners, PrunerStops(p)
    PROVE  DocInv'
<1>1. /\ pruner' \in [Pruners -> PrunerState]
      /\ \A q \in Pruners : q # p => pruner'[q] = pruner[q]
      /\ pruner'[p].pc = "idle"
  BY ConstantsTyped DEF PrunerStops, DocInv, TypeOK, PrunerState, IdlePruner
<1> QED BY <1>1, PrunerOnly DEF PrunerStops, PrunerInv

\* A batch deletes rows at or below its boundary and leaves the floor at or
\* above it, on a finalized snapshot; no revision lies below the boundary.
LEMMA BatchInv ==
    ASSUME DocInv, NEW p \in Pruners, PruneBatch(p) \/ PruneNothing(p)
    PROVE  DocInv'
<1> DEFINE B == pruner[p].boundary
           k == pruner[p].snap
<1>1. /\ B \in Seq0 /\ k \in Finalized /\ snaps[k].coverage = B
      /\ \A T \in revs : B <= T
      /\ UNCHANGED <<log, lastSeq, acked, snaps, revs, anchors, builder>>
  <2>1. revs \subseteq Int /\ pruner[p] \in PrunerState /\ B \in Int
    BY DEF DocInv, TypeOK, PrunerState, Seq0
  <2>2. /\ pruner[p].pc = "batch" /\ ~(\E T \in revs : T < B)
        /\ snaps[k].status = "finalized"
        /\ UNCHANGED <<log, lastSeq, acked, snaps, revs, anchors, builder>>
    BY DEF PruneBatch, PruneNothing, BatchAllowed, RevisionBelow
  <2>3. k \in SnapIds /\ snaps[k].coverage = B
    BY <2>2 DEF DocInv, PrunerInv
  <2> QED BY <2>1, <2>2, <2>3 DEF Finalized, PrunerState
<1>2. /\ floor \in Int /\ Seq0 \subseteq Int /\ rows \subseteq Int
      /\ Logged \subseteq Int
  BY DEF DocInv, TypeOK, Seq0, Seqs, NoFloor, Logged
<1>3. /\ floor <= floor' /\ floor' \in Seq0 \cup {NoFloor}
      /\ floorSnap' \in SnapIds \cup {NoSnap}
      /\ \/ floor' = B /\ floorSnap' = k
         \/ floor' = floor /\ floorSnap' = floorSnap
      /\ rows' \subseteq rows
      /\ \A s \in rows : s > floor' => s \in rows'
  <2>0. floor \in Seq0 \cup {NoFloor} /\ floorSnap \in SnapIds \cup {NoSnap}
    BY DEF DocInv, TypeOK
  <2>1. CASE PruneBatch(p)
    <3>1. PICK e \in RowsIn(0, B) : rows' = rows \ RowsIn(0, e)
      BY <2>1 DEF PruneBatch
    <3>2. e \in Int /\ e <= B /\ rows' \subseteq rows
      BY <3>1, <1>2 DEF RowsIn
    <3>3. /\ \/ floor' = B /\ floorSnap' = k /\ floor <= B
             \/ floor' = floor /\ floorSnap' = floorSnap /\ ~(floor <= B)
      BY <2>1 DEF PruneBatch, AdvanceFloor
    <3>4. floor' \in Int /\ B \in Int /\ B <= floor' /\ floor <= floor'
      <4>1. B \in Int /\ floor \in Int
        BY <1>1, <1>2
      <4> HIDE DEF B
      <4> QED BY <4>1, <3>3
    <3>5. \A s \in rows : s > floor' => s \in rows'
      <4> SUFFICES ASSUME NEW s \in rows, s > floor' PROVE s \in rows'
        OBVIOUS
      <4>1. s \in Int /\ B \in Int /\ s > e
        <5>1. s \in Int
          BY <1>2
        <5> HIDE DEF B
        <5> QED BY <5>1, <3>2, <3>4
      <4> QED BY <4>1, <3>1, <3>2 DEF RowsIn
    <3>6. floor' \in Seq0 \cup {NoFloor} /\ floorSnap' \in SnapIds \cup {NoSnap}
      BY <3>3, <2>0, <1>1 DEF Finalized
    <3> QED BY <3>2, <3>3, <3>4, <3>5, <3>6
  <2>2. CASE PruneNothing(p)
    <3>1. rows' = rows
      BY <2>2 DEF PruneNothing
    <3>2. /\ \/ floor' = B /\ floorSnap' = k /\ floor <= B
             \/ floor' = floor /\ floorSnap' = floorSnap
      BY <2>2 DEF PruneNothing, AdvanceFloor
    <3> QED BY <3>1, <3>2, <2>0, <1>1, <1>2 DEF Finalized
  <2> QED BY <2>1, <2>2
<1>4. TypeOK' /\ PrunerInv(p)' /\ (\A q \in Pruners : q # p => pruner'[q] = pruner[q])
  <2>1. /\ \/ pruner' = [pruner EXCEPT ![p].deleted = TRUE]
           \/ pruner' = [pruner EXCEPT ![p] = IdlePruner]
    BY DEF PruneBatch, PruneNothing
  <2>2. /\ pruner \in [Pruners -> PrunerState]
        /\ PrunerInv(p)
    BY DEF DocInv, TypeOK
  <2>3. /\ pruner' \in [Pruners -> PrunerState]
        /\ \A q \in Pruners : q # p => pruner'[q] = pruner[q]
        /\ \/ pruner'[p].pc = "idle"
           \/ /\ pruner'[p].pc = pruner[p].pc /\ pruner'[p].snap = k
              /\ pruner'[p].boundary = B
    <3>1. CASE pruner' = [pruner EXCEPT ![p].deleted = TRUE]
      BY <3>1, <2>2 DEF PrunerState
    <3>2. CASE pruner' = [pruner EXCEPT ![p] = IdlePruner]
      BY <3>2, <2>2, ConstantsTyped DEF IdlePruner
    <3> QED BY <2>1, <3>1, <3>2
  <2>4. PrunerInv(p)'
    BY <2>2, <2>3, <1>1 DEF PrunerInv
  <2>5. rows' \subseteq Seqs
    BY <1>3 DEF DocInv, TypeOK
  <2> QED BY <2>3, <2>4, <2>5, <1>1, <1>3 DEF DocInv, TypeOK
<1>5. LogInv'
  <2>1. Logged' = Logged /\ OpsAt(Logged)' = OpsAt(Logged)
    BY <1>1 DEF Logged, OpsAt
  <2>2. \A s \in Logged : s > floor' => s \in rows'
    <3> SUFFICES ASSUME NEW s \in Logged, s > floor' PROVE s \in rows'
      OBVIOUS
    <3>1. s > floor
      <4>1. s \in Int /\ floor \in Int /\ floor' \in Int
        BY <1>2, <1>3 DEF NoFloor
      <4>2. floor <= floor'
        BY <1>3
      <4> QED BY <4>1, <4>2
    <3>2. s \in rows
      BY <3>1 DEF DocInv, LogInv
    <3> QED BY <3>2, <1>3
  <2> QED BY <2>1, <2>2, <1>1, <1>3 DEF DocInv, LogInv
<1>6. FloorInv' /\ RevInv'
  BY <1>1, <1>3 DEF DocInv, FloorInv, RevInv, Finalized
<1>7. SnapInv'
  BY <1>1 DEF DocInv, SnapInv, FinalizedExact, Exact
<1>8. \A c \in Builders : BuilderInv(c)'
  <2> SUFFICES ASSUME NEW c \in Builders PROVE BuilderInv(c)'
    OBVIOUS
  <2>1. BuilderInv(c) /\ builder'[c] = builder[c] /\ floor' \in Int
    BY <1>1, <1>2, <1>3 DEF DocInv
  <2> QED BY <2>1, <1>1, <1>2, <1>3 DEF BuilderInv, Holds, Exact, Logged
<1>9. \A q \in Pruners : PrunerInv(q)'
  BY <1>1, <1>4 DEF DocInv, PrunerInv
<1> QED BY <1>4, <1>5, <1>6, <1>7, <1>8, <1>9 DEF DocInv

-----------------------------------------------------------------------------
(* Ingestion, restores and revisions *)

\* Appending disturbs nothing that was known about sequence numbers up to
\* lastSeq: exact states, folds and finalized snapshots stay what they are.
LEMMA AppendInv ==
    ASSUME DocInv, NEW B \in SUBSET Ops, Append(B),
           UNCHANGED <<floor, floorSnap, snaps, revs, pruner>>,
           acked' \in {acked, acked \cup B},
           anchors' \subseteq SnapIds,
           builder' \in [Builders -> BuilderState],
           \A c \in Builders : builder'[c] = builder[c] \/ builder'[c] = IdleBuilder
    PROVE  DocInv'
<1>1. /\ log' \in [Seqs -> Ops \cup {NoOp}]
      /\ rows' \subseteq Seqs
      /\ lastSeq' \in Seq0 /\ lastSeq <= lastSeq'
      /\ rows \subseteq rows'
      /\ \A s \in Seqs : s <= lastSeq => log'[s] = log[s] /\ (s \in rows' => s \in rows)
      /\ \A s \in rows' : s \notin rows => log'[s] # NoOp /\ s <= lastSeq' /\ s > lastSeq
      /\ \A s \in Seqs : s > lastSeq /\ s \notin rows' => log'[s] = log[s]
      /\ \A o \in B : (\E s \in rows : log[s] = o) \/ (\E s \in rows' : log'[s] = o)
  BY AppendFacts DEF DocInv, TypeOK
<1>2. /\ Seqs \subseteq Int /\ Seq0 \subseteq Int /\ lastSeq \in Seq0 /\ lastSeq \in Int
      /\ floor \in Int
      /\ \A s \in Logged : s <= lastSeq
      /\ rows \subseteq Logged
      /\ \A s \in Logged : s > floor => s \in rows
      /\ acked \subseteq OpsAt(Logged)
  BY DEF DocInv, TypeOK, LogInv, Seqs, Seq0, NoFloor
<1>3. /\ Logged \subseteq Logged'
      /\ \A s \in Logged : log'[s] = log[s]
      /\ \A s \in Logged' : s <= lastSeq => s \in Logged
      /\ \A s \in Logged' : s \notin Logged => s \in rows' /\ s <= lastSeq' /\ s > lastSeq
  <2>1. \A s \in Logged : s \in Seqs /\ log'[s] = log[s]
    BY <1>1, <1>2 DEF Logged
  <2>2. \A s \in Logged' : s <= lastSeq => s \in Logged
    BY <1>1 DEF Logged
  <2>3. ASSUME NEW s \in Logged', s \notin Logged
        PROVE  s \in rows' /\ s <= lastSeq' /\ s > lastSeq
    <3>0. s \in Seqs /\ log'[s] # NoOp /\ log[s] = NoOp
      BY <2>3 DEF Logged
    <3>1. s \in Int /\ s > lastSeq
      BY <3>0, <2>2, <2>3, <1>2
    <3>2. s \in rows'
      BY <3>0, <3>1, <1>1
    <3>3. s \notin rows
      BY <2>3, <1>2
    <3> QED BY <3>0, <3>1, <3>2, <3>3, <1>1
  <2>4. Logged \subseteq Logged'
    BY <2>1 DEF Logged
  <2> QED BY <2>1, <2>2, <2>3, <2>4
<1>4. \A T \in Seq0 : T <= lastSeq => Exact(T)' = Exact(T)
  <2> SUFFICES ASSUME NEW T \in Seq0, T <= lastSeq PROVE Exact(T)' = Exact(T)
    OBVIOUS
  <2>1. \A s \in Seqs : s <= T => log'[s] = log[s]
    BY <1>1, <1>2
  <2> QED BY <2>1 DEF Exact
<1>5. TypeOK'
  BY <1>1 DEF DocInv, TypeOK
<1>6. LogInv'
  <2>1. rows' \subseteq Logged'
    BY <1>1, <1>2, <1>3 DEF Logged
  <2>2. \A s \in Logged' : s <= lastSeq'
    <3> SUFFICES ASSUME NEW s \in Logged' PROVE s <= lastSeq'
      OBVIOUS
    <3>1. s \in Int /\ lastSeq' \in Int
      BY <1>1, <1>2 DEF Logged
    <3> QED BY <3>1, <1>1, <1>2, <1>3
  <2>3. \A s \in Logged' : s > floor => s \in rows'
    BY <1>1, <1>2, <1>3
  <2>4. B \subseteq OpsAt(Logged)'
    BY <1>1, <1>2, <1>3, <2>1 DEF OpsAt
  <2>5. OpsAt(Logged) \subseteq OpsAt(Logged)'
    BY <1>3 DEF OpsAt
  <2> QED BY <2>1, <2>2, <2>3, <2>4, <2>5, <1>2 DEF LogInv
<1>7. FloorInv'
  BY DEF DocInv, FloorInv, Finalized
<1>8. RevInv'
  <2>1. \A T \in revs : T \in Int /\ T <= lastSeq
    BY <1>2 DEF DocInv, RevInv, TypeOK
  <2>2. \A T \in revs : T <= lastSeq'
    BY <2>1, <1>1, <1>2
  <2> QED BY <2>2 DEF DocInv, RevInv, Finalized
<1>9. SnapInv'
  <2>1. \A s \in SnapIds : snaps[s].coverage \in Seq0 /\ snaps[s].coverage <= lastSeq
    BY DEF DocInv, SnapInv, TypeOK, SnapRow
  <2>2. \A s \in SnapIds : snaps[s].coverage <= lastSeq'
    <3> SUFFICES ASSUME NEW s \in SnapIds PROVE snaps[s].coverage <= lastSeq'
      OBVIOUS
    <3>1. /\ snaps[s].coverage \in Int /\ lastSeq \in Int /\ lastSeq' \in Int
          /\ snaps[s].coverage <= lastSeq /\ lastSeq <= lastSeq'
      BY <2>1, <1>1, <1>2
    <3> QED BY <3>1
  <2>3. FinalizedExact'
    <3>1. \A s \in SnapIds : snaps[s].status \in {"finalized", "superseded"} =>
              snaps[s].content = {log'[t] : t \in {t \in Seqs :
                                    t <= snaps[s].coverage /\ log'[t] # NoOp}}
      BY <2>1, <1>4 DEF DocInv, SnapInv, FinalizedExact, Exact
    <3> QED BY <3>1 DEF FinalizedExact, Exact
  <2> QED BY <2>2, <2>3 DEF SnapInv
<1>10. \A c \in Builders : BuilderInv(c)'
  <2> SUFFICES ASSUME NEW c \in Builders PROVE BuilderInv(c)'
    OBVIOUS
  <2>1. CASE builder'[c] = IdleBuilder
    BY <2>1 DEF BuilderInv, IdleBuilder
  <2>2. CASE builder'[c] = builder[c] /\ builder[c].pc = "idle"
    BY <2>2 DEF BuilderInv
  <2>3. CASE builder'[c] = builder[c] /\ builder[c].pc # "idle"
    <3> DEFINE r == builder[c]
    <3>1. BuilderInv(c) /\ r \in BuilderState
      BY DEF DocInv, TypeOK
    <3>2. /\ r.boundary \in revs /\ r.boundary \in Seq0 /\ r.boundary <= lastSeq
          /\ r.cursor \in Seq0 /\ r.cov \in Seq0
      BY <2>3, <3>1 DEF BuilderInv, DocInv, RevInv, BuilderState
    <3>3. Exact(r.boundary)' = Exact(r.boundary)
      BY <3>2, <1>4, <2>3
    <3>4. \A X, lo : \A hi \in Seq0 : hi <= lastSeq /\ Holds(X, lo, hi) =>
              \A s \in Logged' : lo < s /\ s <= hi => log'[s] \in X
      <4> SUFFICES ASSUME NEW X, NEW lo, NEW hi \in Seq0, hi <= lastSeq,
                          Holds(X, lo, hi), NEW s \in Logged', lo < s, s <= hi
                   PROVE  log'[s] \in X
        OBVIOUS
      <4>1. s \in Int /\ hi \in Int
        BY <1>2 DEF Logged
      <4>2. s <= lastSeq
        BY <4>1, <1>2
      <4> QED BY <4>2, <1>3 DEF Holds
    <3>5. CASE r.pc \in {"build", "insert"}
      <4>1. r.pc = "build" => r.cursor <= lastSeq
        <5>1. r.pc = "build" => r.cursor <= r.boundary
          BY <3>1 DEF BuilderInv
        <5>2. r.cursor \in Int /\ r.boundary \in Int
          BY <3>2, <1>2
        <5> QED BY <5>1, <5>2, <3>2, <1>2
      <4> QED BY <2>3, <3>1, <3>2, <3>3, <3>4, <3>5, <4>1 DEF BuilderInv, Holds
    <3>6. CASE r.pc \in {"refold", "compare"}
      <4>1. \A s \in Logged' : 0 < s /\ s <= r.cov => log'[s] \in r.acc
        <5>1. Holds(r.acc, 0, r.cov)
          BY <3>1, <3>6 DEF BuilderInv
        <5>2. r.cov <= lastSeq
          <6>1. r.cov <= r.boundary
            BY <3>1, <3>6 DEF BuilderInv
          <6>2. r.cov \in Int /\ r.boundary \in Int
            BY <3>2, <1>2
          <6> QED BY <6>1, <6>2, <3>2, <1>2
        <5> QED BY <5>1, <5>2, <3>2, <3>4
      <4> QED BY <2>3, <3>1, <3>2, <3>3, <3>4, <3>6, <4>1 DEF BuilderInv, Holds
    <3>7. CASE r.pc \in {"created", "verifying", "finalize"}
      BY <2>3, <3>1, <3>2, <3>3, <3>4, <3>7 DEF BuilderInv, Holds
    <3>8. CASE r.pc = "anchored"
      BY <2>3, <3>1, <3>2, <3>8 DEF BuilderInv
    <3> QED BY <2>3, <3>1, <3>5, <3>6, <3>7, <3>8 DEF BuilderState
  <2> QED BY <2>1, <2>2, <2>3
<1>11. \A p \in Pruners : PrunerInv(p)'
  BY DEF DocInv, PrunerInv
<1> QED BY <1>5, <1>6, <1>7, <1>8, <1>9, <1>10, <1>11 DEF DocInv

\* One ingested batch.
LEMMA IngestInv ==
    ASSUME DocInv, NEW B \in SUBSET Ops, IngestBatch(B)
    PROVE  DocInv'
<1>1. /\ Append(B) /\ acked' \in {acked, acked \cup B}
      /\ UNCHANGED <<floor, floorSnap, snaps, revs, anchors, builder, pruner>>
  BY DEF IngestBatch
<1>2. anchors \subseteq SnapIds /\ builder \in [Builders -> BuilderState]
  BY DEF DocInv, TypeOK
<1> QED BY <1>1, <1>2, AppendInv

\* The forward operations of a restore and its restore_event.
LEMMA RestoreCommitInv ==
    ASSUME DocInv, NEW b \in Builders, NEW B \in SUBSET Ops, RestoreCommit(b, B)
    PROVE  DocInv'
<1>1. /\ Append(B) /\ builder[b].pc = "anchored"
      /\ anchors' = anchors \cup {builder[b].snap}
      /\ revs' = revs \cup {builder[b].boundary}
      /\ builder' = [builder EXCEPT ![b] = IdleBuilder]
      /\ UNCHANGED <<acked, floor, floorSnap, snaps, pruner>>
  BY DEF RestoreCommit
<1>2. /\ builder[b].boundary \in revs /\ builder[b].snap \in SnapIds
      /\ anchors \subseteq SnapIds /\ builder \in [Builders -> BuilderState]
  BY <1>1 DEF DocInv, BuilderInv, TypeOK
<1>3. revs' = revs /\ anchors' \subseteq SnapIds
  BY <1>1, <1>2
<1>4. /\ builder' \in [Builders -> BuilderState]
      /\ \A c \in Builders : builder'[c] = builder[c] \/ builder'[c] = IdleBuilder
  BY <1>1, <1>2, ConstantsTyped
<1> QED BY <1>1, <1>3, <1>4, AppendInv

\* A revision at or above the floor, or at a finalized snapshot.
LEMMA CreateRevisionInv ==
    ASSUME DocInv, NEW T \in Seq0, CreateRevision(T)
    PROVE  DocInv'
<1>1. /\ revs' = revs \cup {T}
      /\ UNCHANGED <<log, rows, lastSeq, acked, floor, floorSnap, snaps, anchors,
                     builder, pruner>>
      /\ T > 0 /\ T <= floor => \E s \in Finalized : snaps[s].coverage = T
  BY DEF CreateRevision
<1>2. /\ floor \in Int /\ T \in Int /\ T >= 0 /\ lastSeq \in Int /\ lastSeq >= 0
      /\ rows \subseteq Int
  BY DEF DocInv, TypeOK, Seq0, Seqs, NoFloor
<1>3. T <= lastSeq
  <2>1. PICK h \in Seq0 : IsHighWater(h) /\ T <= h
    BY DEF CreateRevision
  <2>2. h \in Int /\ (h \in rows \/ h = 0 \/ h = floor)
    BY <2>1 DEF IsHighWater, Seq0
  <2>3. h \in rows => h <= lastSeq
    BY DEF DocInv, LogInv
  <2>4. h = floor /\ h >= 0 => h <= lastSeq
    BY DEF DocInv, FloorInv, SnapInv, Finalized, NoFloor
  <2>5. h >= 0
    BY <2>1 DEF IsHighWater
  <2>6. h <= lastSeq
    BY <2>2, <2>3, <2>4, <2>5, <1>2
  <2> QED BY <2>1, <2>2, <2>6, <1>2
<1>4. TypeOK' /\ LogInv' /\ FloorInv'
  BY <1>1 DEF DocInv, TypeOK, LogInv, FloorInv, Logged, OpsAt, Finalized
<1>5. RevInv'
  <2>1. T = 0 \/ floor <= T \/ \E s \in Finalized : snaps[s].coverage = T
    BY <1>1, <1>2
  <2> QED BY <2>1, <1>1, <1>3 DEF DocInv, RevInv, Finalized
<1>6. SnapInv'
  BY <1>1 DEF DocInv, SnapInv, FinalizedExact, Exact
<1>7. \A c \in Builders : BuilderInv(c)'
  BY <1>1 DEF DocInv, BuilderInv, Holds, Exact, Logged
<1>8. \A p \in Pruners : PrunerInv(p)'
  BY <1>1 DEF DocInv, PrunerInv
<1> QED BY <1>4, <1>5, <1>6, <1>7, <1>8 DEF DocInv

-----------------------------------------------------------------------------
(* The invariant is inductive *)

\* The empty document.
LEMMA InitInv == Init => DocInv
<1> SUFFICES ASSUME Init PROVE DocInv
  OBVIOUS
<1>1. TypeOK
  BY ConstantsTyped DEF Init, TypeOK, NoFloor
<1>2. LogInv /\ FloorInv /\ RevInv
  BY DEF Init, LogInv, FloorInv, RevInv, Logged, OpsAt, Seqs
<1>3. SnapInv
  BY DEF Init, SnapInv, FinalizedExact, NoRow
<1>4. \A b \in Builders : BuilderInv(b)
  BY DEF Init, BuilderInv, IdleBuilder
<1>5. \A p \in Pruners : PrunerInv(p)
  BY DEF Init, PrunerInv, IdlePruner
<1> QED BY <1>1, <1>2, <1>3, <1>4, <1>5 DEF DocInv

\* One step per action.  Each also shows that finalized snapshots the floor may
\* need are left alone.
LEMMA NextInv ==
    ASSUME DocInv, [Next]_vars
    PROVE  DocInv' /\ SnapsEvolve
<1>1. CASE UNCHANGED snaps
  <2>1. SnapsEvolve
    BY <1>1 DEF SnapsEvolve
  <2>2. ASSUME UNCHANGED vars PROVE DocInv'
    <3>1. TypeOK' /\ LogInv' /\ FloorInv' /\ RevInv'
      BY <2>2 DEF vars, DocInv, TypeOK, LogInv, FloorInv, RevInv, Logged, OpsAt, Finalized
    <3>2. SnapInv'
      BY <2>2 DEF vars, DocInv, SnapInv, FinalizedExact, Exact
    <3>3. \A c \in Builders : BuilderInv(c)'
      BY <2>2 DEF vars, DocInv, BuilderInv, Holds, Exact, Logged
    <3>4. \A p \in Pruners : PrunerInv(p)'
      BY <2>2 DEF vars, DocInv, PrunerInv
    <3> QED BY <3>1, <3>2, <3>3, <3>4 DEF DocInv
  <2>3. ASSUME NEW B \in SUBSET Ops, IngestBatch(B) PROVE DocInv'
    BY <2>3, IngestInv
  <2>4. ASSUME NEW T \in Seq0, CreateRevision(T) PROVE DocInv'
    BY <2>4, CreateRevisionInv
  <2>5. ASSUME NEW b \in Builders, NEW T \in Seq0, NEW a \in Attempts, StartBuild(b, T, a)
        PROVE  DocInv'
    BY <2>5, StartBuildInv
  <2>6. ASSUME NEW b \in Builders, BuildPage(b) PROVE DocInv'
    BY <2>6, BuildPageInv
  <2>7. ASSUME NEW b \in Builders, CreateAttempt(b) PROVE DocInv'
    BY <2>7, CreateAttemptInv
  <2>8. ASSUME NEW b \in Builders, ToVerifying(b) PROVE DocInv'
    BY <2>8, ToVerifyingInv
  <2>9. ASSUME NEW b \in Builders, VerifySelect(b) PROVE DocInv'
    BY <2>9, VerifySelectInv
  <2>10. ASSUME NEW b \in Builders, VerifyPage(b) PROVE DocInv'
    BY <2>10, VerifyPageInv
  <2>11. ASSUME NEW b \in Builders, VerifyCompare(b) PROVE DocInv'
    BY <2>11, VerifyCompareInv
  <2>12. ASSUME NEW b \in Builders, Finalize(b) PROVE DocInv'
    BY <2>12, FinalizeInv
  <2>13. ASSUME NEW b \in Builders, BuilderStops(b) PROVE DocInv'
    BY <2>13, BuilderIdles DEF BuilderStops
  <2>14. ASSUME NEW b \in Builders, NEW T \in Seq0, StartRestore(b, T) PROVE DocInv'
    BY <2>14, StartRestoreInv
  <2>15. ASSUME NEW b \in Builders, NEW B \in SUBSET Ops, RestoreCommit(b, B) PROVE DocInv'
    BY <2>15, RestoreCommitInv
  <2>16. ASSUME NEW p \in Pruners, NEW s \in SnapIds, PruneStart(p, s) PROVE DocInv'
    BY <2>16, PruneStartInv
  <2>17. ASSUME NEW p \in Pruners, PruneBatch(p) \/ PruneNothing(p) PROVE DocInv'
    BY <2>17, BatchInv
  <2>18. ASSUME NEW p \in Pruners, PrunerStops(p) PROVE DocInv'
    BY <2>18, PrunerStopsInv
  <2>19. ASSUME NEW s \in SnapIds, MarkSuperseded(s) \/ Purge(s) PROVE DocInv'
    BY <2>19, RetentionInv
  <2> QED
    BY <2>1, <2>2, <2>3, <2>4, <2>5, <2>6, <2>7, <2>8, <2>9, <2>10, <2>11, <2>12,
       <2>13, <2>14, <2>15, <2>16, <2>17, <2>18, <2>19 DEF Next
<1>2. CASE ~UNCHANGED snaps
  <2>1. \/ \E b \in Builders : CreateAttempt(b) \/ ToVerifying(b) \/ Finalize(b)
        \/ \E s \in SnapIds : MarkSuperseded(s) \/ Purge(s)
    BY <1>2 DEF Next, vars, IngestBatch, CreateRevision, StartBuild, BuildPage,
       VerifySelect, VerifyPage, VerifyCompare, BuilderStops, StartRestore,
       RestoreCommit, PruneStart, PruneBatch, PruneNothing, PrunerStops
  <2> QED BY <2>1, CreateAttemptInv, ToVerifyingInv, FinalizeInv, RetentionInv
<1> QED BY <1>1, <1>2

-----------------------------------------------------------------------------
(* The theorems *)

\* The inductive invariant holds in every reachable state: the conjunction of
\* what ingestion, the pipeline, compaction and retention keep true together.
THEOREM DocInvariant == Spec => []DocInv
<1>1. Init => DocInv
  BY InitInv
<1>2. DocInv /\ [Next]_vars => DocInv'
  BY NextInv
<1> QED BY <1>1, <1>2, PTL DEF Spec

\* Every variable keeps its declared shape.
THEOREM TypeCorrect == Spec => []TypeOK
<1>1. DocInv => TypeOK
  BY DEF DocInv
<1> QED BY <1>1, DocInvariant, PTL

\* A finalized snapshot holds exactly the operations at or below its coverage,
\* however prunes, rebuilds and retries interleave with its build.
THEOREM FinalizedIsExact == Spec => []FinalizedExact
<1>1. DocInv => FinalizedExact
  BY DEF DocInv, SnapInv
<1> QED BY <1>1, DocInvariant, PTL

\* No durably acknowledged operation is ever lost to compaction or retention.
THEOREM AckedNeverLost == Spec => []AckedDurable
<1>1. ASSUME DocInv PROVE AckedDurable
  <2>1. SUFFICES ASSUME NEW o \in acked, o \notin OpsAt(rows)
                 PROVE  /\ floor # NoFloor
                        /\ floorSnap \in Finalized
                        /\ o \in snaps[floorSnap].content
    BY DEF AckedDurable
  <2>2. PICK s \in Logged : o = log[s]
    BY <1>1, <2>1 DEF DocInv, LogInv, OpsAt
  <2>3. s \notin rows
    BY <2>1, <2>2 DEF OpsAt
  <2>4. s \in Seqs /\ s \in Int /\ s > 0 /\ log[s] # NoOp
    BY <2>2, MaxSeqAssumption DEF Logged, Seqs
  <2>5. floor \in Int /\ s <= floor
    BY <1>1, <2>2, <2>3, <2>4, MaxSeqAssumption
    DEF DocInv, TypeOK, LogInv, Seq0, NoFloor
  <2>6. floor # NoFloor
    BY <2>4, <2>5 DEF NoFloor
  <2>7. floorSnap \in Finalized /\ snaps[floorSnap].coverage = floor
    BY <1>1, <2>6 DEF DocInv, FloorInv
  <2>8. snaps[floorSnap].content = Exact(floor)
    BY <1>1, <2>7 DEF DocInv, SnapInv, FinalizedExact, Finalized
  <2>9. o \in Exact(floor)
    BY <2>2, <2>4, <2>5 DEF Exact
  <2> QED BY <2>6, <2>7, <2>8, <2>9
<1> QED BY <1>1, DocInvariant, PTL

\* Compaction and retention always leave a basis from which every revision
\* target and the current head can be rebuilt exactly.
THEOREM RevisionsStayReconstructable == Spec => []RevisionsReconstructable
<1>1. ASSUME DocInv PROVE RevisionsReconstructable
  <2>1. ASSUME NEW T \in Seq0, T \in revs \/ T = lastSeq PROVE Reconstructs(T)
    <3>1. SUFFICES ASSUME NEW cov \in {0} \cup {snaps[s].coverage : s \in SnapIds},
                          NEW base \in {{}} \cup {snaps[s].content : s \in SnapIds},
                          IsCovering(T, cov, base)
                   PROVE  base \cup OpsAt(RowsIn(cov, T)) = Exact(T)
      BY DEF Reconstructs
    <3>2. /\ cov \in Seq0 /\ cov <= T
          /\ base = Exact(cov)
          /\ floor <= cov \/ cov = T
      BY <1>1, <2>1, <3>1, CoveringBasis
    <3>3. /\ cov \in Int /\ T \in Int /\ floor \in Int
          /\ rows \subseteq Seqs
          /\ \A s \in Seqs : s \in Int
      BY <1>1, <3>2, MaxSeqAssumption DEF DocInv, TypeOK, Seq0, Seqs, NoFloor
    <3>4. OpsAt(RowsIn(cov, T)) \subseteq Exact(T)
      BY <1>1, <3>3 DEF OpsAt, RowsIn, Exact, DocInv, LogInv, Logged
    <3>5. Exact(cov) \subseteq Exact(T)
      BY <3>2, <3>3 DEF Exact
    <3>6. ASSUME NEW s \in Seqs, s <= T, log[s] # NoOp
          PROVE  log[s] \in Exact(cov) \cup OpsAt(RowsIn(cov, T))
      <4>1. CASE s <= cov
        BY <3>6, <4>1 DEF Exact
      <4>2. CASE ~(s <= cov)
        <5>1. s \in Logged /\ s > cov /\ s > floor
          BY <3>2, <3>3, <3>6, <4>2 DEF Logged
        <5>2. s \in rows
          BY <1>1, <5>1 DEF DocInv, LogInv
        <5> QED BY <3>6, <5>1, <5>2 DEF OpsAt, RowsIn
      <4> QED BY <4>1, <4>2
    <3>7. Exact(T) \subseteq Exact(cov) \cup OpsAt(RowsIn(cov, T))
      BY <3>6 DEF Exact
    <3> QED BY <3>2, <3>4, <3>5, <3>7
  <2>2. revs \subseteq Seq0 /\ lastSeq \in Seq0
    BY <1>1 DEF DocInv, TypeOK
  <2> QED BY <2>1, <2>2 DEF RevisionsReconstructable
<1> QED BY <1>1, DocInvariant, PTL

\* A snapshot that may have been announced to a client is never taken away.
THEOREM AnnouncedStays == Spec => AnnouncedStaysServable
<1>1. DocInv /\ [Next]_vars
         => [\A s \in Finalized :
                snaps[s].coverage <= floor => snaps'[s].status = "finalized"]_vars
  BY NextInv DEF SnapsEvolve, Finalized
<1> QED BY <1>1, DocInvariant, PTL DEF Spec, AnnouncedStaysServable

-----------------------------------------------------------------------------
(* What a step of the store leaves to its readers *)

\* A batch never moves the compaction floor down.
LEMMA FloorGrows ==
    ASSUME DocInv, [Next]_vars
    PROVE  floor <= floor'
<1>1. floor \in Int
  BY DEF DocInv, TypeOK, Seq0, NoFloor
<1>2. CASE UNCHANGED floor
  BY <1>1, <1>2
<1>3. CASE ~UNCHANGED floor
  <2>1. \E p \in Pruners : PruneBatch(p) \/ PruneNothing(p)
    BY <1>3 DEF Next, vars, IngestBatch, CreateRevision, StartBuild, BuildPage,
       CreateAttempt, ToVerifying, VerifySelect, VerifyPage, VerifyCompare, Finalize,
       BuilderStops, StartRestore, RestoreCommit, PruneStart, PrunerStops,
       MarkSuperseded, Purge
  <2>2. PICK p \in Pruners : AdvanceFloor(p)
    BY <2>1, <1>3 DEF PruneBatch, PruneNothing
  <2> QED BY <2>2, <1>3 DEF AdvanceFloor
<1> QED BY <1>2, <1>3

\* What was committed up to the head keeps its number and its operation; new
\* operations come above the head, and no revision is dropped.
LEMMA HistoryKeeps ==
    ASSUME DocInv, [Next]_vars
    PROVE  /\ lastSeq <= lastSeq'
           /\ \A n \in Seqs : n <= lastSeq => log'[n] = log[n]
           /\ revs \subseteq revs'
<1>1. /\ log \in [Seqs -> Ops \cup {NoOp}] /\ rows \subseteq Seqs /\ lastSeq \in Seq0
      /\ lastSeq \in Int
  BY DEF DocInv, TypeOK, Seq0
<1>2. CASE UNCHANGED <<log, lastSeq>>
  <2>1. revs \subseteq revs'
    BY DEF Next, vars, IngestBatch, CreateRevision, StartBuild, BuildPage,
       CreateAttempt, ToVerifying, VerifySelect, VerifyPage, VerifyCompare, Finalize,
       BuilderStops, StartRestore, RestoreCommit, PruneStart, PruneBatch, PruneNothing,
       PrunerStops, MarkSuperseded, Purge
  <2> QED BY <1>1, <1>2, <2>1
<1>3. CASE ~UNCHANGED <<log, lastSeq>>
  <2>1. PICK B \in SUBSET Ops : Append(B) /\ revs \subseteq revs'
    BY <1>3 DEF Next, vars, IngestBatch, CreateRevision, StartBuild, BuildPage,
       CreateAttempt, ToVerifying, VerifySelect, VerifyPage, VerifyCompare, Finalize,
       BuilderStops, StartRestore, RestoreCommit, PruneStart, PruneBatch, PruneNothing,
       PrunerStops, MarkSuperseded, Purge
  <2> QED BY <1>1, <2>1, AppendFacts
<1> QED BY <1>2, <1>3

\* The state at a sequence number up to the head is what it was.
LEMMA ExactKeeps ==
    ASSUME DocInv, [Next]_vars, NEW T \in Seq0, T <= lastSeq
    PROVE  /\ Exact(T)' = Exact(T)
           /\ \A X, lo : Holds(X, lo, T) => \A n \in Logged' : lo < n /\ n <= T => log'[n] \in X
<1>1. T \in Int /\ lastSeq \in Int /\ \A n \in Seqs : n \in Int
  BY DEF DocInv, TypeOK, Seq0, Seqs
<1>2. \A n \in Seqs : n <= T => log'[n] = log[n]
  BY <1>1, HistoryKeeps
<1>3. Exact(T)' = Exact(T)
  BY <1>2 DEF Exact
<1> QED BY <1>2, <1>3 DEF Holds, Logged

\* A finalized snapshot at or below the floor keeps its status and coverage.
LEMMA AnnouncedKeeps ==
    ASSUME DocInv, [Next]_vars, NEW x \in Finalized, snaps[x].coverage <= floor
    PROVE  x \in Finalized' /\ snaps'[x].coverage = snaps[x].coverage
BY NextInv DEF SnapsEvolve, Finalized

-----------------------------------------------------------------------------
(* A step of the store preserves what the readers know *)

\* A step of the store leaves a reconstruction as exact as it was.
LEMMA StoreKeepsHist ==
    ASSUME DocInv, HistInv, [Next]_vars, UNCHANGED hist
    PROVE  HistInv'
<1>1. /\ hist \in HistState /\ hist.seen <= floor
      /\ hist.seen \in Int /\ floor \in Int /\ floor' \in Int /\ floor <= floor'
      /\ hist.cursor \in Seq0 /\ hist.boundary \in Seq0
      /\ hist.cursor \in Int /\ hist.boundary \in Int /\ lastSeq \in Int
  <2>1. DocInv' /\ floor <= floor'
    BY NextInv, FloorGrows
  <2> QED BY <2>1 DEF HistInv, HistState, DocInv, TypeOK, Seq0, NoFloor
<1>2. hist.seen <= floor' /\ (hist.seen = floor' => hist.seen = floor)
  BY <1>1
<1>3. hist.pc # "idle" =>
          /\ hist.boundary \in revs' /\ hist.boundary <= lastSeq
          /\ Exact(hist.boundary)' = Exact(hist.boundary)
          /\ hist.acc \subseteq Exact(hist.boundary)
  <2> SUFFICES ASSUME hist.pc # "idle"
               PROVE  /\ hist.boundary \in revs' /\ hist.boundary <= lastSeq
                      /\ Exact(hist.boundary)' = Exact(hist.boundary)
                      /\ hist.acc \subseteq Exact(hist.boundary)
    OBVIOUS
  <2>1. hist.boundary \in revs /\ hist.boundary <= lastSeq
        /\ hist.acc \subseteq Exact(hist.boundary)
    BY DEF HistInv, DocInv, RevInv
  <2> QED BY <2>1, <1>1, HistoryKeeps, ExactKeeps
<1>4. ASSUME hist.pc \in {"floor", "tail"}, hist.seen = floor'
      PROVE  Holds(hist.acc, 0, hist.cursor)' /\ (floor' <= hist.cursor \/ hist.cursor = hist.boundary)
  <2>1. /\ Holds(hist.acc, 0, hist.cursor)
        /\ floor <= hist.cursor \/ hist.cursor = hist.boundary
        /\ hist.cursor <= hist.boundary
    BY <1>2, <1>4 DEF HistInv
  <2>2. hist.cursor <= lastSeq
    BY <1>1, <1>3, <1>4, <2>1
  <2>3. \A n \in Logged' : 0 < n /\ n <= hist.cursor => log'[n] \in hist.acc
    BY <1>1, <2>1, <2>2, ExactKeeps
  <2> QED BY <1>2, <1>4, <2>1, <2>3 DEF Holds
<1>5. ASSUME hist.pc = "done", hist.seen = floor'
      PROVE  Holds(hist.acc, 0, hist.boundary)'
  <2>1. Holds(hist.acc, 0, hist.boundary)
    BY <1>2, <1>5 DEF HistInv
  <2>2. \A n \in Logged' : 0 < n /\ n <= hist.boundary => log'[n] \in hist.acc
    BY <1>1, <1>3, <1>5, <2>1, ExactKeeps
  <2> QED BY <2>2 DEF Holds
<1> QED BY <1>1, <1>2, <1>3, <1>4, <1>5 DEF HistInv

\* A step of the store leaves a client's replica, and what it was announced, as they were.
LEMMA StoreKeepsSync ==
    ASSUME DocInv, SyncInv, [Next]_vars, UNCHANGED sync
    PROVE  SyncInv'
<1>1. /\ sync \in SyncState /\ sync.seen <= floor /\ sync.cursor <= lastSeq
      /\ sync.seen \in Int /\ floor \in Int /\ floor' \in Int /\ floor <= floor'
      /\ sync.cursor \in Seq0 /\ sync.cursor \in Int
      /\ lastSeq \in Int /\ lastSeq' \in Int /\ lastSeq <= lastSeq'
  <2>1. DocInv' /\ floor <= floor' /\ lastSeq <= lastSeq'
    BY NextInv, FloorGrows, HistoryKeeps
  <2> QED BY <2>1 DEF SyncInv, SyncState, DocInv, TypeOK, Seq0, NoFloor
<1>2. sync.seen <= floor' /\ (sync.seen = floor' => sync.seen = floor) /\ sync.cursor <= lastSeq'
  BY <1>1
<1>3. Exact(sync.cursor)' = Exact(sync.cursor)
  BY <1>1, ExactKeeps
<1>4. sync.pc = "announced" => sync.snap \in Finalized' /\ snaps'[sync.snap].coverage <= floor'
  <2> SUFFICES ASSUME sync.pc = "announced"
               PROVE  sync.snap \in Finalized' /\ snaps'[sync.snap].coverage <= floor'
    OBVIOUS
  <2>1. sync.snap \in Finalized /\ snaps[sync.snap].coverage <= floor
    BY DEF SyncInv
  <2>2. snaps[sync.snap].coverage \in Int
    BY <2>1 DEF Finalized, DocInv, TypeOK, SnapRow, Seq0
  <2> QED BY <1>1, <2>1, <2>2, AnnouncedKeeps
<1> QED BY <1>1, <1>2, <1>3, <1>4 DEF SyncInv

\* The readers change nothing that the store's invariant is about.
LEMMA StoreUnread ==
    ASSUME DocInv, UNCHANGED vars
    PROVE  DocInv'
BY NextInv

-----------------------------------------------------------------------------
(* The steps of a reconstruction *)

\* The covering snapshot starts a fold that is complete up to its coverage.
LEMMA HistSelectInv ==
    ASSUME DocInv, HistInv, NEW T \in Seq0, HistSelect(T)
    PROVE  HistInv'
<1>1. PICK cov \in Seq0, base \in SUBSET Ops :
          /\ IsCovering(T, cov, base)
          /\ hist' = [pc |-> "floor", boundary |-> T, cursor |-> cov,
                      acc |-> base, seen |-> floor]
  BY DEF HistSelect
<1>2. T \in revs /\ UNCHANGED vars /\ T <= lastSeq
  BY DEF HistSelect, DocInv, RevInv
<1>3. cov <= T /\ base = Exact(cov) /\ (floor <= cov \/ cov = T)
  BY <1>1, <1>2, CoveringBasis
<1>4. Holds(base, 0, cov) /\ base \subseteq Exact(T)
  BY <1>2, <1>3, ExactHolds
<1>5. hist' \in HistState /\ floor \in Int
  BY <1>1 DEF HistState, DocInv, TypeOK, Seq0, NoFloor
<1>6. Exact(T)' = Exact(T) /\ Holds(base, 0, cov)' /\ floor' = floor /\ revs' = revs
  BY <1>2, <1>4 DEF Exact, Holds, Logged, vars
<1>7. /\ hist'.pc = "floor" /\ hist'.boundary = T /\ hist'.cursor = cov
      /\ hist'.acc = base /\ hist'.seen = floor
  BY <1>1
<1>8. Holds(hist.acc, 0, hist.cursor)'
  BY <1>2, <1>4, <1>7 DEF Holds, Logged, vars
<1>9. Exact(hist.boundary)' = Exact(T)
  BY <1>6, <1>7 DEF Exact
<1> QED BY <1>2, <1>3, <1>4, <1>5, <1>6, <1>7, <1>8, <1>9 DEF HistInv

\* The floor check lets a reconstruction go on or refuses it, and changes nothing else.
LEMMA HistFloorInv ==
    ASSUME DocInv, HistInv, HistFloor
    PROVE  HistInv'
<1>1. /\ hist \in HistState /\ hist.pc = "floor" /\ UNCHANGED vars
      /\ hist' = [hist EXCEPT !.pc =
            IF hist.cursor < floor /\ hist.cursor < hist.boundary
            THEN "pruned" ELSE "tail"]
  BY DEF HistFloor, HistInv
<1>2. /\ hist'.pc \in {"tail", "pruned"} /\ hist' \in HistState
      /\ hist'.boundary = hist.boundary /\ hist'.cursor = hist.cursor
      /\ hist'.acc = hist.acc /\ hist'.seen = hist.seen
  BY <1>1 DEF HistState
<1> QED BY <1>1, <1>2 DEF HistInv, Holds, Exact, Logged, vars

\* While the floor has not moved, the rows of a page are all that was committed
\* behind the cursor.
LEMMA HistPageInv ==
    ASSUME DocInv, HistInv, HistPage
    PROVE  HistInv'
<1> DEFINE left == RowsIn(hist.cursor, hist.boundary)
<1>0. hist \in HistState /\ hist.pc = "tail" /\ UNCHANGED vars
  BY DEF HistPage, HistInv
<1>1. /\ hist.boundary \in revs /\ hist.acc \subseteq Exact(hist.boundary)
      /\ hist.cursor <= hist.boundary /\ hist.seen <= floor
      /\ hist.seen = floor => /\ Holds(hist.acc, 0, hist.cursor)
                              /\ floor <= hist.cursor \/ hist.cursor = hist.boundary
      /\ hist.cursor \in Seq0 /\ hist.boundary \in Seq0 /\ hist.acc \subseteq Ops
      /\ hist.cursor \in Int /\ hist.boundary \in Int
  BY <1>0 DEF HistInv, HistState, Seq0
<1>2. /\ \A n \in Logged : n > floor => n \in rows
      /\ Logged \subseteq Int /\ floor \in Int
  BY DEF DocInv, TypeOK, LogInv, Logged, Seqs, Seq0, NoFloor
<1>3. \A n \in Logged : hist.seen = floor /\ n > hist.cursor /\ n <= hist.boundary => n \in rows
  BY <1>1, <1>2
<1>4. floor' = floor /\ revs' = revs /\ Logged' = Logged /\ log' = log
  BY <1>0 DEF vars, Logged
<1>5. CASE left = {} /\ hist' = [hist EXCEPT !.pc = "done"]
  <2>1. /\ hist' \in HistState /\ hist'.pc = "done" /\ hist'.boundary = hist.boundary
        /\ hist'.acc = hist.acc /\ hist'.seen = hist.seen
    BY <1>0, <1>1, <1>5 DEF HistState
  <2>2. ASSUME hist.seen = floor PROVE Holds(hist.acc, 0, hist.boundary)
    BY <1>1, <1>2, <1>3, <1>5, <2>2 DEF Holds, RowsIn
  <2>3. hist.seen = floor => Holds(hist.acc, 0, hist.boundary)'
    BY <1>4, <2>1, <2>2 DEF Holds
  <2>4. Exact(hist.boundary)' = Exact(hist.boundary)
    BY <1>4, <2>1 DEF Exact
  <2> QED BY <1>0, <1>1, <1>4, <2>1, <2>3, <2>4 DEF HistInv
<1>6. CASE \E e \in left :
             hist' = [hist EXCEPT
                        !.acc = @ \cup OpsAt(RowsIn(hist.cursor, e)),
                        !.cursor = e,
                        !.pc = IF RowsIn(e, hist.boundary) = {} THEN "done" ELSE "tail"]
  <2>1. PICK e \in left :
             hist' = [hist EXCEPT
                        !.acc = @ \cup OpsAt(RowsIn(hist.cursor, e)),
                        !.cursor = e,
                        !.pc = IF RowsIn(e, hist.boundary) = {} THEN "done" ELSE "tail"]
    BY <1>6
  <2> DEFINE page == OpsAt(RowsIn(hist.cursor, e))
  <2>2. /\ e \in Seq0 /\ e \in Int /\ hist.cursor < e /\ e <= hist.boundary
        /\ page \subseteq Exact(hist.boundary) /\ page \subseteq Ops
    BY <1>1, PageFacts DEF Seq0
  <2>3. /\ hist' \in HistState /\ hist'.boundary = hist.boundary /\ hist'.seen = hist.seen
        /\ hist'.acc = hist.acc \cup page /\ hist'.cursor = e
        /\ hist'.pc = IF RowsIn(e, hist.boundary) = {} THEN "done" ELSE "tail"
    BY <1>0, <1>1, <2>1, <2>2 DEF HistState
  <2>4. ASSUME hist.seen = floor PROVE Holds(hist.acc \cup page, 0, e)
    <3>1. \A n \in Logged : n <= hist.cursor /\ 0 < n => log[n] \in hist.acc
      BY <1>1, <2>4 DEF Holds
    <3>2. \A n \in Logged : n > hist.cursor /\ n <= e => n \in RowsIn(hist.cursor, e)
      BY <1>1, <1>2, <1>3, <2>2, <2>4 DEF RowsIn
    <3>3. \A n \in Logged : n > hist.cursor /\ n <= e => log[n] \in page
      BY <3>2 DEF OpsAt
    <3>4. \A n \in Logged : n <= hist.cursor \/ n > hist.cursor
      BY <1>1, <1>2
    <3>5. \A n \in Logged : 0 < n /\ n <= e => log[n] \in hist.acc \cup page
      BY <3>1, <3>3, <3>4
    <3> QED BY <3>5 DEF Holds
  <2>5. ASSUME hist.seen = floor, RowsIn(e, hist.boundary) = {}
        PROVE  Holds(hist.acc \cup page, 0, hist.boundary)
    BY <1>1, <1>2, <1>3, <2>2, <2>4, <2>5 DEF Holds, RowsIn
  <2>6. hist.seen = floor =>
          /\ hist'.pc = "done" => Holds(hist.acc, 0, hist.boundary)'
          /\ Holds(hist.acc, 0, hist.cursor)'
          /\ floor <= e
    BY <1>1, <1>2, <1>4, <2>2, <2>3, <2>4, <2>5 DEF Holds
  <2>7. Exact(hist.boundary)' = Exact(hist.boundary)
    BY <1>4, <2>3 DEF Exact
  <2> QED BY <1>0, <1>1, <1>4, <2>2, <2>3, <2>6, <2>7 DEF HistInv
<1> QED BY <1>5, <1>6 DEF HistPage

-----------------------------------------------------------------------------
(* The steps of a catch-up *)

\* What the idle states of both readers satisfy.
LEMMA IdleTyped ==
    ASSUME DocInv
    PROVE  /\ IdleHist \in HistState /\ IdleSync \in SyncState
           /\ NoFloor <= floor /\ 0 <= lastSeq
<1>1. NoFloor <= floor /\ 0 <= lastSeq
  BY DEF DocInv, TypeOK, Seq0, NoFloor
<1>2. IdleHist \in HistState /\ IdleSync \in SyncState
  BY ConstantsTyped DEF IdleHist, IdleSync, HistState, SyncState
<1> QED BY <1>1, <1>2

\* The gateway's choice between pages and a snapshot.
LEMMA SyncRequestInv ==
    ASSUME DocInv, SyncInv, NEW c \in Seq0, SyncRequest(c)
    PROVE  SyncInv'
<1> DEFINE s == [IdleSync EXCEPT !.cursor = c, !.have = Exact(c), !.seen = floor]
<1>0. UNCHANGED vars /\ c <= lastSeq
  BY DEF SyncRequest
<1>1. sync' = IF c < floor
              THEN IF floorSnap \in Finalized
                   THEN [s EXCEPT !.pc = "announced", !.snap = floorSnap]
                   ELSE [s EXCEPT !.pc = "refused"]
              ELSE [s EXCEPT !.pc = "page"]
  BY DEF SyncRequest
<1>2. /\ floor \in Seq0 \cup {NoFloor} /\ floor \in Int /\ c \in Int /\ c >= 0
      /\ Exact(c) \subseteq Ops
      /\ c < floor => /\ floorSnap \in Finalized /\ floorSnap \in SnapIds
                      /\ snaps[floorSnap].coverage = floor
  <2>1. floor \in Seq0 \cup {NoFloor} /\ floor \in Int /\ c \in Int /\ c >= 0
    BY DEF DocInv, TypeOK, Seq0, NoFloor
  <2>2. Exact(c) \subseteq Ops
    BY DEF DocInv, TypeOK, Exact
  <2>3. c < floor => floor # NoFloor
    BY <2>1 DEF NoFloor
  <2> QED BY <2>1, <2>2, <2>3 DEF DocInv, FloorInv, Finalized
<1>3. /\ s \in SyncState /\ s.cursor = c /\ s.have = Exact(c) /\ s.seen = floor
      /\ \A n \in Seqs : log'[n] = log[n]
  <2>1. IdleSync \in SyncState
    BY IdleTyped
  <2> QED BY <1>0, <1>2, <2>1 DEF SyncState, vars
<1> HIDE DEF s
<1>4. CASE c < floor
  <2>1. sync' = [s EXCEPT !.pc = "announced", !.snap = floorSnap]
    BY <1>1, <1>2, <1>4
  <2>2. /\ sync' \in SyncState /\ sync'.pc = "announced" /\ sync'.cursor = c
        /\ sync'.snap = floorSnap /\ sync'.seen = floor
    BY <1>2, <1>3, <1>4, <2>1 DEF SyncState
  <2>3. floorSnap \in Finalized' /\ snaps'[floorSnap].coverage <= floor'
    BY <1>0, <1>2, <1>4 DEF vars, Finalized
  <2> QED BY <1>0, <1>2, <2>2, <2>3 DEF SyncInv, vars
<1>5. CASE ~(c < floor)
  <2>1. sync' = [s EXCEPT !.pc = "page"]
    BY <1>1, <1>5
  <2>2. /\ sync' \in SyncState /\ sync'.pc = "page" /\ sync'.cursor = c
        /\ sync'.have = Exact(c) /\ sync'.seen = floor
    BY <1>2, <1>3, <2>1 DEF SyncState
  <2>3. (Exact(sync.cursor) \subseteq sync.have)'
    BY <1>3, <2>2 DEF Exact
  <2> QED BY <1>0, <1>2, <1>5, <2>2, <2>3 DEF SyncInv, vars
<1> QED BY <1>4, <1>5

\* The announced snapshot is served, and its content is the state at its coverage.
LEMMA FetchSnapshotInv ==
    ASSUME DocInv, SyncInv, FetchSnapshot
    PROVE  SyncInv'
<1>0. UNCHANGED vars /\ sync.pc = "announced" /\ sync \in SyncState /\ sync.seen <= floor
  BY DEF FetchSnapshot, SyncInv
<1>1. sync.snap \in Finalized
  BY <1>0 DEF SyncInv
<1> DEFINE t == snaps[sync.snap]
<1>2. /\ t.coverage \in Seq0 /\ t.coverage <= lastSeq
      /\ t.content = Exact(t.coverage) /\ t.content \subseteq Ops
  BY <1>1 DEF Finalized, DocInv, TypeOK, SnapRow, SnapInv, FinalizedExact
<1>3. sync' = [sync EXCEPT !.pc = "installed", !.have = @ \cup t.content,
                           !.cursor = t.coverage]
  BY <1>1 DEF FetchSnapshot
<1>4. /\ sync' \in SyncState /\ sync'.pc = "installed" /\ sync'.cursor = t.coverage
      /\ sync'.have = sync.have \cup t.content /\ sync'.seen = sync.seen
  BY <1>0, <1>2, <1>3 DEF SyncState
<1>5. Exact(t.coverage) \subseteq sync'.have
  BY <1>2, <1>4
<1>6. (Exact(sync.cursor) \subseteq sync.have)'
  BY <1>0, <1>4, <1>5 DEF vars, Exact
<1> QED BY <1>0, <1>2, <1>4, <1>6 DEF SyncInv, vars

\* A page starts at a cursor that is not below the floor the gateway saw: while
\* the floor stays there, its rows are all that was committed behind the cursor.
LEMMA CatchupPageInv ==
    ASSUME DocInv, SyncInv, CatchupPage
    PROVE  SyncInv'
<1> DEFINE left == RowsIn(sync.cursor, MaxSeq)
<1>0. sync \in SyncState /\ sync.pc = "page" /\ UNCHANGED vars
  BY DEF CatchupPage, SyncInv
<1>1. /\ sync.seen <= floor /\ sync.cursor <= lastSeq /\ sync.seen <= sync.cursor
      /\ sync.seen = floor => Exact(sync.cursor) \subseteq sync.have
      /\ sync.cursor \in Seq0 /\ sync.cursor \in Int /\ sync.have \subseteq Ops
  BY <1>0 DEF SyncInv, SyncState, Seq0
<1>2. /\ \A n \in Logged : n > floor => n \in rows
      /\ rows \subseteq Logged /\ \A n \in Logged : n <= lastSeq
      /\ Logged \subseteq Int /\ floor \in Int /\ lastSeq \in Int /\ MaxSeq \in Seq0
      /\ Logged = {n \in Seqs : log[n] # NoOp}
  BY DEF DocInv, TypeOK, LogInv, Logged, Seqs, Seq0, NoFloor
<1>3. floor' = floor /\ lastSeq' = lastSeq /\ Seqs' = Seqs /\ log' = log
  BY <1>0 DEF vars, Seqs
<1>4. CASE left = {} /\ sync' = [sync EXCEPT !.pc = "done"]
  <2>1. /\ sync' \in SyncState /\ sync'.pc = "done" /\ sync'.cursor = sync.cursor
        /\ sync'.have = sync.have /\ sync'.seen = sync.seen
    BY <1>0, <1>4 DEF SyncState
  <2>2. sync.seen = floor => (Exact(sync.cursor) \subseteq sync.have)'
    BY <1>1, <1>3, <2>1 DEF Exact
  <2> QED BY <1>1, <1>3, <2>1, <2>2 DEF SyncInv
<1>5. CASE \E e \in left :
             sync' = [sync EXCEPT
                        !.have = @ \cup OpsAt(RowsIn(sync.cursor, e)),
                        !.cursor = e,
                        !.pc = IF RowsIn(e, MaxSeq) = {} THEN "done" ELSE "page"]
  <2>1. PICK e \in left :
             sync' = [sync EXCEPT
                        !.have = @ \cup OpsAt(RowsIn(sync.cursor, e)),
                        !.cursor = e,
                        !.pc = IF RowsIn(e, MaxSeq) = {} THEN "done" ELSE "page"]
    BY <1>5
  <2> DEFINE page == OpsAt(RowsIn(sync.cursor, e))
  <2>2. /\ e \in Seq0 /\ e \in Int /\ sync.cursor < e /\ e <= lastSeq /\ page \subseteq Ops
    <3>1. e \in Seq0 /\ sync.cursor < e /\ page \subseteq Ops
      BY <1>1, <1>2, PageFacts
    <3>2. e \in rows
      BY DEF RowsIn
    <3>3. e \in Int /\ e <= lastSeq
      BY <1>2, <3>2
    <3> QED BY <3>1, <3>3
  <2>3. /\ sync' \in SyncState /\ sync'.pc \in {"done", "page"} /\ sync'.cursor = e
        /\ sync'.have = sync.have \cup page /\ sync'.seen = sync.seen
    BY <1>0, <1>1, <2>1, <2>2 DEF SyncState
  <2>4. ASSUME sync.seen = floor PROVE Exact(e) \subseteq sync.have \cup page
    <3>1. \A n \in Logged : n > sync.cursor /\ n <= e => log[n] \in page
      BY <1>1, <1>2, <2>2, <2>4 DEF OpsAt, RowsIn
    <3>2. \A n \in Logged : n <= sync.cursor => log[n] \in sync.have
      BY <1>1, <2>4 DEF Exact, Logged
    <3>3. \A n \in Logged : n <= sync.cursor \/ n > sync.cursor
      BY <1>1, <1>2
    <3>4. \A n \in Logged : n <= e => log[n] \in sync.have \cup page
      BY <3>1, <3>2, <3>3
    <3> QED BY <3>4, <1>2 DEF Exact
  <2>5. sync.seen = floor => (Exact(sync.cursor) \subseteq sync.have)'
    BY <1>3, <2>3, <2>4 DEF Exact
  <2>6. sync.seen <= e
    BY <1>0, <1>1, <2>2 DEF SyncState, Seq0, NoFloor
  <2> QED BY <1>1, <1>3, <2>2, <2>3, <2>5, <2>6 DEF SyncInv
<1> QED BY <1>4, <1>5 DEF CatchupPage

-----------------------------------------------------------------------------
(* The invariant is inductive *)

\* One step per action of either reader; a step of the store leaves both alone.
LEMMA ReaderNextInv ==
    ASSUME ReaderInv, [RNext]_rvars
    PROVE  ReaderInv'
<1>1. DocInv /\ HistInv /\ SyncInv
  BY DEF ReaderInv
<1> USE <1>1
<1>2. CASE [Next]_vars /\ UNCHANGED <<hist, sync>>
  BY <1>1, <1>2, NextInv, StoreKeepsHist, StoreKeepsSync DEF ReaderInv
<1>3. CASE HistNext
  <2>1. UNCHANGED vars /\ UNCHANGED sync
    BY <1>3 DEF HistNext, HistSelect, HistFloor, HistPage, HistReset
  <2>2. DocInv' /\ SyncInv'
    BY <1>1, <2>1, StoreUnread, StoreKeepsSync
  <2>3. HistReset => HistInv'
    BY <2>1, IdleTyped DEF HistReset, HistInv, IdleHist, vars
  <2> QED BY <1>1, <1>3, <2>2, <2>3, HistSelectInv, HistFloorInv, HistPageInv
          DEF HistNext, ReaderInv
<1>4. CASE SyncNext
  <2>1. UNCHANGED vars /\ UNCHANGED hist
    BY <1>4 DEF SyncNext, SyncRequest, FetchSnapshot, CatchupPage, SyncReset
  <2>2. DocInv' /\ HistInv'
    BY <1>1, <2>1, StoreUnread, StoreKeepsHist
  <2>3. SyncReset => SyncInv'
    BY <2>1, IdleTyped DEF SyncReset, SyncInv, IdleSync, vars
  <2> QED BY <1>1, <1>4, <2>2, <2>3, SyncRequestInv, FetchSnapshotInv, CatchupPageInv
          DEF SyncNext, ReaderInv
<1> QED BY <1>2, <1>3, <1>4 DEF RNext, rvars

-----------------------------------------------------------------------------
(* The theorems *)

\* Readers and store together: what a reconstruction and a catch-up know of the
\* history stays true under every step of every other actor.
THEOREM ReaderInvariant == RSpec => []ReaderInv
<1>1. RInit => ReaderInv
  BY InitInv, IdleTyped DEF RInit, ReaderInv, HistInv, SyncInv, IdleHist, IdleSync
<1>2. ReaderInv /\ [RNext]_rvars => ReaderInv'
  BY ReaderNextInv
<1> QED BY <1>1, <1>2, PTL DEF RSpec

\* A reconstruction that finishes with the floor where it found it is exactly
\* the state at its boundary: edits arriving meanwhile, operations sent again,
\* new snapshots and retention never disturb it (history.rs).
THEOREM HistoryIsExact == RSpec => []HistExactUnlessPruned
<1>1. ReaderInv => HistExactUnlessPruned
  <2> SUFFICES ASSUME ReaderInv, hist.pc = "done", hist.seen = floor
               PROVE  hist.acc = Exact(hist.boundary)
    BY DEF HistExactUnlessPruned
  <2>1. Holds(hist.acc, 0, hist.boundary) /\ hist.acc \subseteq Exact(hist.boundary)
    BY DEF ReaderInv, HistInv
  <2>2. \A n \in Seqs : n > 0
    BY DEF Seqs
  <2> QED BY <2>1, <2>2 DEF Holds, Exact, Logged
<1> QED BY <1>1, ReaderInvariant, PTL

\* A joining client that is served pages while the floor stays, or that installs
\* the snapshot it was announced, holds everything up to its cursor; and an
\* announced snapshot is never refused (ws/mod.rs).
THEOREM JoinersAreServed == RSpec => []CatchupServed
<1>1. ReaderInv => CatchupServed
  BY DEF ReaderInv, SyncInv, CatchupServed, CatchupCompleteUnlessPruned, ResyncServed
<1> QED BY <1>1, ReaderInvariant, PTL
=============================================================================
