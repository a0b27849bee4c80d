------------------------- MODULE SyncSessionProofs -------------------------
(***************************************************************************)
(* Proofs about SyncSession, for every number of operations, every batch   *)
(* and flush limit and every plan of faults.  SessionInv is inductive as   *)
(* it stands.  CatchupInv, about the cursors, comes after it: it is        *)
(* inductive beside SessionInv when no commit meets a join and no pruning  *)
(* a catch-up (Calm).  Without that GaplessCursor fails: TLC finds it with *)
(* the plans of MCSyncSession!RacePlans.                                   *)
(***************************************************************************)
EXTENDS SyncSession, FiniteSetTheorems, SequenceTheorems, TLAPS

-----------------------------------------------------------------------------
(* Numbers, sets and sequences *)

\* The operations are a finite set of positive numbers, the own ones among them.
LEMMA OpsFacts ==
    /\ Own \subseteq Ops /\ Ops \subseteq Nat \ {0} /\ IsFiniteSet(Ops)
    /\ \A n \in Own : \A m \in Nat : 0 < m /\ m < n => m \in Own
    /\ MaxOwn \in Nat /\ Calm \in BOOLEAN
<1>1. MaxOwn \in Nat /\ MaxPeer \in Nat /\ Calm \in BOOLEAN
  BY SessionAssumption
<1>2. IsFiniteSet(1 .. MaxOwn + MaxPeer)
  BY <1>1, FS_Interval
<1> QED BY <1>1, <1>2 DEF Own, Ops

\* Max of a pair.
LEMMA MaxPair ==
    ASSUME NEW a \in Int, NEW b \in Int
    PROVE  /\ Max({a, b}) \in {a, b} /\ Max({a, b}) >= a /\ Max({a, b}) >= b
<1>1. \E x \in {a, b} : \A y \in {a, b} : x >= y
  OBVIOUS
<1> QED BY <1>1 DEF Max

\* Min of a set of numbers that has an element.
LEMMA MinFacts ==
    ASSUME NEW S, S \subseteq Nat, S # {}
    PROVE  Min(S) \in S /\ \A y \in S : Min(S) <= y
<1>1. IsWellFoundedOn(OpToRel(<, Nat), Nat)
  BY NatLessThanWellFounded
<1>2. \E x \in S : \A y \in S : ~(<<y, x>> \in OpToRel(<, Nat))
  BY <1>1, WFMin
<1>3. PICK x \in S : \A y \in S : ~(<<y, x>> \in OpToRel(<, Nat))
  BY <1>2
<1>4. \A y \in S : x <= y
  <2> SUFFICES ASSUME NEW y \in S PROVE ~(y < x)
    OBVIOUS
  <2>1. <<y, x>> \in Nat \X Nat /\ <<y, x>>[1] = y /\ <<y, x>>[2] = x
    OBVIOUS
  <2> QED BY <1>3, <2>1 DEF OpToRel
<1> QED BY <1>4 DEF Min

\* The head and the tail of a queue.
LEMMA QueueTail ==
    ASSUME NEW T, NEW q \in Seq(T), q # <<>>
    PROVE  /\ Head(q) \in T /\ Head(q) = q[1] /\ Tail(q) \in Seq(T)
           /\ Len(q) \in Nat /\ Len(q) > 0 /\ DOMAIN q = 1 .. Len(q)
           /\ Len(Tail(q)) = Len(q) - 1 /\ DOMAIN Tail(q) = 1 .. Len(q) - 1
           /\ \A i \in 1 .. Len(q) - 1 : Tail(q)[i] = q[i + 1]
BY HeadTailProperties, EmptySeq, LenProperties

\* A frame or a job at the end of a queue.
LEMMA QueueAppend ==
    ASSUME NEW T, NEW q \in Seq(T), NEW x \in T
    PROVE  /\ Append(q, x) \in Seq(T) /\ Len(q) \in Nat
           /\ DOMAIN q = 1 .. Len(q) /\ DOMAIN Append(q, x) = 1 .. Len(q) + 1
           /\ Len(Append(q, x)) = Len(q) + 1
           /\ \A i \in 1 .. Len(q) : Append(q, x)[i] = q[i]
           /\ Append(q, x)[Len(q) + 1] = x
BY AppendProperties, LenProperties

-----------------------------------------------------------------------------
(* The store *)

\* What a transaction stores gets sequence numbers above all there are; what
\* was stored keeps its number.
LEMMA IngestedFacts ==
    ASSUME at \in [Ops -> Nat], NEW ops \in SUBSET Ops, at' = Ingested(ops)
    PROVE  /\ at' \in [Ops -> Nat]
           /\ \A o \in Ops : at[o] > 0 => at'[o] = at[o]
           /\ \A o \in Ops : at[o] = 0 /\ o \notin ops => at'[o] = 0
           /\ \A o \in ops : at'[o] > 0
           /\ \A o \in Ops : at[o] = 0 /\ at'[o] > 0 => at'[o] > Last
           /\ Last \in Nat /\ Last <= Last'
           /\ (\A o \in Ops : at[o] <= Last) => \A o \in Ops : at'[o] <= Last'
<1> DEFINE old == {o \in Ops : at[o] > 0}
           new == {o \in ops : at[o] = 0}
           upto(o) == {p \in new : p <= o}
<1>1. IsFiniteSet(old) /\ IsFiniteSet(new) /\ \A o : IsFiniteSet(upto(o))
  BY OpsFacts, FS_Subset
<1>2. Last \in Nat /\ Last = Cardinality(old) /\ Cardinality(new) \in Nat
  BY <1>1, FS_CardinalityType DEF Last
<1>3. \A o \in new : Cardinality(upto(o)) \in 1 .. Cardinality(new)
  <2> SUFFICES ASSUME NEW o \in new PROVE Cardinality(upto(o)) \in 1 .. Cardinality(new)
    OBVIOUS
  <2>1. o \in upto(o)
    BY OpsFacts
  <2>2. Cardinality(upto(o)) \in Nat /\ Cardinality(upto(o)) # 0
    BY <1>1, <2>1, FS_CardinalityType, FS_EmptySet
  <2>3. Cardinality(upto(o)) <= Cardinality(new)
    BY <1>1, FS_Subset
  <2> QED BY <1>2, <2>2, <2>3
<1>4. at' = [o \in Ops |-> IF o \in new THEN Last + Cardinality(upto(o)) ELSE at[o]]
  BY DEF Ingested
<1>5. \A o \in new : at'[o] \in Nat /\ at'[o] > Last /\ at'[o] <= Last + Cardinality(new)
  <2> SUFFICES ASSUME NEW o \in new
               PROVE  at'[o] \in Nat /\ at'[o] > Last /\ at'[o] <= Last + Cardinality(new)
    OBVIOUS
  <2>1. at'[o] = Last + Cardinality(upto(o))
    BY <1>4
  <2> HIDE DEF upto, new
  <2> QED BY <1>2, <1>3, <2>1
<1>6. \A o \in Ops : o \notin new => at'[o] = at[o]
  BY <1>4
<1>7. at' \in [Ops -> Nat]
  BY <1>4, <1>5, <1>6
<1>8. Last' = Last + Cardinality(new)
  <2>1. {o \in Ops : at'[o] > 0} = old \cup new
    BY <1>2, <1>5, <1>6
  <2>2. old \cap new = {} /\ Cardinality({}) = 0
    BY FS_EmptySet
  <2>3. Cardinality(old \cup new) = Cardinality(old) + Cardinality(new) - 0
    BY <1>1, <2>2, FS_Union
  <2> QED BY <1>2, <2>1, <2>3 DEF Last
<1>9. \A o \in ops : at'[o] > 0
  <2> SUFFICES ASSUME NEW o \in ops PROVE at'[o] > 0
    OBVIOUS
  <2>1. CASE o \in new
    <3>1. at'[o] \in Nat /\ at'[o] > Last /\ Last \in Nat
      BY <1>2, <1>5, <2>1
    <3> QED BY <3>1
  <2>2. CASE o \notin new
    BY <1>6, <2>2
  <2> QED BY <2>1, <2>2
<1>10. Last <= Last'
  BY <1>2, <1>8
<1>11. (\A o \in Ops : at[o] <= Last) => \A o \in Ops : at'[o] <= Last'
  <2> SUFFICES ASSUME \A o \in Ops : at[o] <= Last, NEW o \in Ops PROVE at'[o] <= Last'
    OBVIOUS
  <2>1. CASE o \in new
    BY <1>5, <1>8, <2>1
  <2>2. CASE o \notin new
    BY <1>2, <1>6, <1>8, <2>2
  <2> QED BY <2>1, <2>2
<1> QED BY <1>2, <1>5, <1>6, <1>7, <1>9, <1>10, <1>11

-----------------------------------------------------------------------------
(* What a step may do to the parts it does not own *)

\* Nothing leaves the store, and own operations that enter it were logged.
StoreStep ==
    /\ at' \in [Ops -> Nat]
    /\ \A o \in Ops : at[o] > 0 => at'[o] = at[o]
    /\ \A n \in Own : at'[n] > 0 => n \in have

\* The queues and sets of the session and the wire hold what they may hold.
WireStep ==
    /\ c2s' \in Seq(Uploads') /\ s2c' \in Seq(Stored') /\ s'.inbound \in Seq(Stored')
    /\ \A f \in s'.flushes : f.ops \subseteq have'
    /\ \A ops \in s'.acks : \A o \in ops : at'[o] > 0

\* The worker's log only grows, in order, and its coverage is behind its cursor.
WorkerStep ==
    /\ have \subseteq have' /\ have' \subseteq Ops
    /\ dcur' \in Nat /\ dcur <= dcur'
    /\ covered' \subseteq Own /\ \A n \in covered' : at'[n] \in 1 .. dcur'

\* A transaction of operations that the client logged or that are not its own.
LEMMA IngestStep ==
    ASSUME SessionInv, NEW ops \in SUBSET Ops, ops \cap Own \subseteq have,
           at' = Ingested(ops)
    PROVE  StoreStep
<1>1. at \in [Ops -> Nat] /\ \A n \in Own : at[n] > 0 => n \in have
  BY DEF SessionInv, TypeOK, LogInv
<1>2. /\ at' \in [Ops -> Nat]
      /\ \A o \in Ops : at[o] > 0 => at'[o] = at[o]
      /\ \A o \in Ops : at[o] = 0 /\ o \notin ops => at'[o] = 0
  BY <1>1, IngestedFacts
<1>3. \A n \in Own : at'[n] > 0 => n \in have
  BY <1>1, <1>2, OpsFacts
<1> QED BY <1>2, <1>3 DEF StoreStep

\* The store is not touched.
LEMMA IdleStore ==
    ASSUME SessionInv, UNCHANGED at
    PROVE  StoreStep
BY DEF SessionInv, TypeOK, LogInv, StoreStep

\* What the gateway still reads of a lost connection was logged.
LEMMA StragglingFacts ==
    ASSUME SessionInv, NEW k \in 0 .. Len(c2s)
    PROVE  Straggling(k) \subseteq Own \cap have
<1>1. c2s \in Seq(Uploads) /\ Len(c2s) \in Nat
  BY LenProperties DEF SessionInv, WireInv
<1>2. \A i \in 1 .. k : c2s[i] \in Uploads
  BY <1>1, ElementOfSeq
<1> QED BY <1>2 DEF Straggling, Uploads

\* A lost connection.
LEMMA LoseStep ==
    ASSUME SessionInv, NEW status, Lose(status)
    PROVE  /\ StoreStep /\ c2s' = <<>> /\ s2c' = <<>> /\ gw' = NoConn /\ gw' \in ConnSet
           /\ \A o \in Ops : at[o] = 0 /\ at'[o] > 0 => at'[o] > Last
           /\ Last \in Nat /\ Last <= Last'
           /\ (\A o \in Ops : at[o] <= Last) => \A o \in Ops : at'[o] <= Last'
<1>1. PICK k \in 0 .. Len(c2s) :
          at' = Ingested(IF gw.state = "ready" THEN Straggling(k) ELSE {})
  BY DEF Lose
<1> DEFINE ops == IF gw.state = "ready" THEN Straggling(k) ELSE {}
<1>2. ops \in SUBSET Ops /\ ops \cap Own \subseteq have /\ at' = Ingested(ops)
  BY <1>1, StragglingFacts, OpsFacts
<1>3. at \in [Ops -> Nat]
  BY DEF SessionInv, TypeOK
<1> HIDE DEF ops
<1>4. /\ StoreStep
      /\ \A o \in Ops : at[o] = 0 /\ at'[o] > 0 => at'[o] > Last
      /\ Last \in Nat /\ Last <= Last'
      /\ (\A o \in Ops : at[o] <= Last) => \A o \in Ops : at'[o] <= Last'
  BY <1>2, <1>3, IngestStep, IngestedFacts
<1>5. c2s' = <<>> /\ s2c' = <<>> /\ gw' = NoConn
  BY DEF Lose, Teardown
<1>6. NoConn \in ConnSet
  BY DEF NoConn, ConnSet, None
<1> QED BY <1>4, <1>5, <1>6

\* What may be on its way may still be after a step.
LEMMA SetsGrow ==
    ASSUME SessionInv, StoreStep, have \subseteq have'
    PROVE  /\ Uploads \subseteq Uploads' /\ Seq(Uploads) \subseteq Seq(Uploads')
           /\ Stored \subseteq Stored' /\ Seq(Stored) \subseteq Seq(Stored')
           /\ c2s \in Seq(Uploads') /\ s2c \in Seq(Stored') /\ s.inbound \in Seq(Stored')
           /\ \A f \in s.flushes : f.ops \subseteq have'
           /\ \A ops \in s.acks : \A o \in ops : at'[o] > 0
           /\ \A n \in covered : at'[n] = at[n]
<1>1. Uploads \subseteq Uploads'
  BY DEF Uploads, FrameSet, Ops, Own
<1>2. Stored \subseteq Stored'
  <2> SUFFICES ASSUME NEW f \in Stored PROVE f \in Stored'
    OBVIOUS
  <2>1. f \in FrameSet /\ \A o \in f.ops : o \in Ops /\ at[o] > 0 /\ (f.c # None => at[o] <= f.c)
    BY DEF Stored, FrameSet
  <2>2. \A o \in f.ops : at'[o] > 0 /\ (f.c # None => at'[o] <= f.c)
    BY <2>1 DEF StoreStep
  <2> QED BY <2>1, <2>2 DEF Stored, FrameSet, Ops
<1>3. Seq(Uploads) \subseteq Seq(Uploads') /\ Seq(Stored) \subseteq Seq(Stored')
  BY <1>1, <1>2, SeqMonotonic
<1>4. /\ c2s \in Seq(Uploads) /\ s2c \in Seq(Stored) /\ s.inbound \in Seq(Stored)
      /\ \A f \in s.flushes : f.ops \subseteq have
  BY DEF SessionInv, WireInv
<1>5. \A ops \in s.acks : \A o \in ops : at'[o] > 0
  <2>1. s.acks \subseteq SUBSET Ops
    BY DEF SessionInv, TypeOK, SessionSet
  <2> QED BY <2>1 DEF SessionInv, WireInv, StoreStep
<1>6. \A n \in covered : at'[n] = at[n]
  BY OpsFacts DEF SessionInv, TypeOK, WireInv, StoreStep
<1> QED BY <1>1, <1>2, <1>3, <1>4, <1>5, <1>6

\* Coverage that nobody touched is still behind the cursor.
LEMMA IdleWorker ==
    ASSUME SessionInv, StoreStep, UNCHANGED worker
    PROVE  WorkerStep
<1>1. \A n \in covered : at'[n] = at[n] /\ at[n] \in 1 .. dcur
  BY SetsGrow DEF worker, SessionInv, WireInv
<1> QED BY <1>1 DEF worker, WorkerStep, SessionInv, TypeOK

\* Types and channels after a step.
LEMMA PiecesKept ==
    ASSUME SessionInv, StoreStep, WireStep, WorkerStep,
           floor' \in Nat, gw' \in ConnSet, s' \in SessionSet, seen' \in Nat,
           row' \in [Own -> {"none", "pending", "sent", "acked"}]
    PROVE  TypeOK' /\ WireInv'
<1>1. Uploads' \subseteq FrameSet' /\ Stored' \subseteq FrameSet'
  BY DEF Uploads, Stored
<1>2. c2s' \in Seq(FrameSet') /\ s2c' \in Seq(FrameSet')
  BY <1>1, SeqMonotonic DEF WireStep
<1>3. Ops' = Ops /\ Own' = Own /\ ConnSet' = ConnSet /\ SessionSet' = SessionSet
  BY DEF Ops, Own, ConnSet, SessionSet, FrameSet, JobSet
<1>4. TypeOK'
  BY <1>2, <1>3 DEF TypeOK, StoreStep, WorkerStep
<1>5. WireInv'
  BY DEF WireInv, WireStep, WorkerStep
<1> QED BY <1>4, <1>5

\* The outbox and the own part of the log, when nobody touches them.
LEMMA EditsIdle ==
    ASSUME SessionInv, StoreStep, WorkerStep, have' \cap Own \subseteq have, UNCHANGED outbox
    PROVE  LogInv' /\ EditsAreKept'
<1>1. /\ row' = row /\ seen' = seen /\ have' \cap Own = have \cap Own
      /\ row \in [Own -> {"none", "pending", "sent", "acked"}] /\ seen \in Nat
      /\ at \in [Ops -> Nat] /\ dcur \in Nat
  BY DEF outbox, WorkerStep, SessionInv, TypeOK
<1>2. Own' = Own /\ Own \subseteq Ops
  BY OpsFacts DEF Own
<1>3. LogInv'
  BY <1>1, <1>2 DEF LogInv, StoreStep, SessionInv, WorkerStep
<1>4. NothingLost'
  BY <1>1, <1>2 DEF SessionInv, EditsAreKept, NothingLost, StoreStep, Unacked
<1>5. AckedIsDurable'
  BY <1>1, <1>2 DEF SessionInv, EditsAreKept, AckedIsDurable, StoreStep
<1>6. ClearedIsCovered'
  <2> SUFFICES ASSUME NEW n \in Own, row[n] = "none", n <= seen
               PROVE  at'[n] \in 1 .. dcur'
    BY <1>1, <1>2 DEF ClearedIsCovered
  <2>1. at[n] \in 1 .. dcur
    BY DEF SessionInv, EditsAreKept, ClearedIsCovered
  <2> QED BY <2>1, <1>1, <1>2 DEF StoreStep, WorkerStep
<1> QED BY <1>3, <1>4, <1>5, <1>6 DEF EditsAreKept

\* A step that leaves the outbox and its chain of jobs alone.
LEMMA ChainKept ==
    ASSUME SessionInv, StoreStep, WireStep, WorkerStep,
           have' \cap Own \subseteq have,
           floor' \in Nat, gw' \in ConnSet, s' \in SessionSet,
           UNCHANGED outbox,
           s'.jobs = s.jobs, s'.broken = s.broken, s'.confirmed => s.confirmed
    PROVE  SessionInv'
<1>1. /\ row' = row /\ seen' = seen /\ have' \cap Own = have \cap Own
      /\ row \in [Own -> {"none", "pending", "sent", "acked"}] /\ seen \in Nat
  BY DEF outbox, WorkerStep, SessionInv, TypeOK
<1>2. TypeOK' /\ WireInv'
  BY <1>1, PiecesKept
<1>3. Own' = Own /\ Own \subseteq Ops
  BY OpsFacts DEF Own
<1>4. LogInv' /\ EditsAreKept'
  BY EditsIdle
<1>5. JobInv'
  BY <1>1 DEF JobInv, SessionInv, WorkerStep
<1>6. ChainInv'
  BY <1>1, <1>3 DEF ChainInv, SessionInv, Rescans, Unseen, Job1
<1>7. ConfirmedIsSaved'
  BY <1>1, <1>3 DEF SessionInv, ConfirmedIsSaved, StoreStep
<1> QED BY <1>2, <1>4, <1>5, <1>6, <1>7 DEF SessionInv

-----------------------------------------------------------------------------
(* Frames *)

\* A frame that carries no operations may be sent either way at any time.
LEMMA PlainFacts ==
    ASSUME NEW t \in FrameTypes, NEW c \in {None} \union Nat
    PROVE  /\ Frame(t, {}, c) \in Uploads /\ Frame(t, {}, c) \in Stored
           /\ Frame(t, {}, c) \in Uploads' /\ Frame(t, {}, c) \in Stored'
           /\ Plain(t) \in Uploads /\ Plain(t) \in Stored
           /\ Plain(t) \in Uploads' /\ Plain(t) \in Stored'
BY DEF Frame, Plain, Uploads, Stored, FrameSet

\* The client sends on the socket there is.
LEMMA SendFacts ==
    ASSUME SessionInv, NEW f, Send(f), StoreStep, have \subseteq have', f \in Uploads'
    PROVE  c2s' \in Seq(Uploads')
<1>1. c2s \in Seq(Uploads')
  BY SetsGrow
<1> QED BY <1>1, AppendProperties DEF Send

\* The client takes a frame, of whatever type.
LEMMA ReceiveFacts ==
    ASSUME SessionInv, StoreStep, have \subseteq have', s2c # <<>>, s2c' = Tail(s2c)
    PROVE  /\ s2c' \in Seq(Stored') /\ Head(s2c) \in Stored /\ Head(s2c) \in Stored'
           /\ Head(s2c) \in FrameSet /\ Head(s2c).c \in {None} \union Nat
           /\ \A o \in Head(s2c).ops : o \in Ops /\ at'[o] > 0
<1>1. s2c \in Seq(Stored)
  BY DEF SessionInv, WireInv
<1>2. Tail(s2c) \in Seq(Stored) /\ Head(s2c) \in Stored
  BY <1>1, HeadTailProperties
<1>3. Head(s2c) \in Stored' /\ Tail(s2c) \in Seq(Stored')
  BY <1>2, SetsGrow
<1>4. \A o \in Head(s2c).ops : o \in Ops /\ at'[o] > 0
  BY <1>3 DEF Stored, FrameSet, Ops
<1> QED BY <1>2, <1>3, <1>4 DEF Stored, FrameSet

\* The gateway takes a frame.
LEMMA ServesFacts ==
    ASSUME SessionInv, NEW t, Serves(t)
    PROVE  /\ c2s' \in Seq(Uploads) /\ Head(c2s) \in Uploads
           /\ Head(c2s).c \in {None} \union Nat
           /\ Head(c2s).ops \subseteq Own \cap have
<1>1. c2s \in Seq(Uploads) /\ c2s # <<>> /\ c2s' = Tail(c2s)
  BY DEF SessionInv, WireInv, Serves
<1>2. c2s' \in Seq(Uploads) /\ Head(c2s) \in Uploads
  BY <1>1, HeadTailProperties
<1> QED BY <1>2 DEF Uploads, FrameSet

\* A step of the transport or of the gateway that only moves frames.
LEMMA WireOnly ==
    ASSUME SessionInv, UNCHANGED <<store, worker, outbox, s>>,
           c2s' \in Seq(Uploads), s2c' \in Seq(Stored), gw' \in ConnSet
    PROVE  SessionInv'
<1>1. UNCHANGED <<at, floor, have, dcur, covered, outbox, s>>
  BY DEF store, worker
<1>2. StoreStep /\ WorkerStep
  BY <1>1, IdleStore, IdleWorker DEF worker
<1>3. WireStep
  BY <1>1, <1>2, SetsGrow DEF WireStep
<1>4. floor' \in Nat /\ s' \in SessionSet /\ have' \cap Own \subseteq have
  BY <1>1 DEF SessionInv, TypeOK
<1> QED BY <1>1, <1>2, <1>3, <1>4, ChainKept

-----------------------------------------------------------------------------
(* The transport and the gateway *)

\* Connecting, the handshake and its timer.
LEMMA TransportInv ==
    ASSUME SessionInv, TransportStep
    PROVE  SessionInv'
<1>1. UNCHANGED <<store, worker, outbox, s>>
  BY DEF TransportStep
<1>2. c2s \in Seq(Uploads) /\ s2c \in Seq(Stored) /\ gw \in ConnSet
  BY DEF SessionInv, WireInv, TypeOK
<1>3. ASSUME TimerFires \/ HelloAck \/ TokenFails \/ TokenArrives PROVE SessionInv'
  <2>1. gw' = gw
    BY <1>3 DEF TimerFires, HelloAck, TokenFails, TokenArrives
  <2>2. c2s' \in Seq(Uploads)
    <3>1. Plain("authenticate") \in Uploads
      BY PlainFacts DEF FrameTypes
    <3> QED BY <1>2, <1>3, <3>1, AppendProperties
        DEF TimerFires, HelloAck, TokenFails, TokenArrives, Send, wire
  <2>3. s2c' \in Seq(Stored)
    <3>1. s2c' = s2c \/ (s2c # <<>> /\ s2c' = Tail(s2c))
      BY <1>3 DEF TimerFires, HelloAck, TokenFails, TokenArrives, Receive, wire
    <3> QED BY <1>2, <3>1, HeadTailProperties
  <2> QED BY <1>1, <1>2, <2>1, <2>2, <2>3, WireOnly
<1>4. ASSUME Opens PROVE SessionInv'
  <2>1. Plain("hello") \in Uploads
    BY PlainFacts DEF FrameTypes
  <2>2. <<>> \in Seq(Uploads) /\ <<Plain("hello")>> = Append(<<>>, Plain("hello"))
    BY EmptySeq
  <2>3. c2s' \in Seq(Uploads)
    BY <1>4, <2>1, <2>2, AppendProperties DEF Opens
  <2>4. gw' \in ConnSet /\ s2c' = s2c
    BY <1>4 DEF Opens, NoConn, ConnSet, None
  <2> QED BY <1>1, <1>2, <2>3, <2>4, WireOnly
<1>5. ASSUME GwHello \/ GwAuthenticate PROVE SessionInv'
  <2>1. c2s' \in Seq(Uploads)
    BY <1>5, ServesFacts DEF GwHello, GwAuthenticate
  <2>2. Plain("hello_ack") \in Stored /\ Plain("authenticated") \in Stored
    BY PlainFacts DEF FrameTypes
  <2>3. s2c' \in Seq(Stored)
    BY <1>2, <1>5, <2>2, AppendProperties DEF GwHello, GwAuthenticate
  <2>4. gw' \in ConnSet
    BY <1>2, <1>5 DEF GwHello, GwAuthenticate, ConnSet
  <2> QED BY <1>1, <2>1, <2>3, <2>4, WireOnly
<1> QED BY <1>3, <1>4, <1>5 DEF TransportStep, TransportNext

\* The gateway's own handlers: join, catch-up pages, snapshots.
LEMMA GatewayInv ==
    ASSUME SessionInv, GwJoin \/ GwRegister \/ GwSync \/ GwPage \/ GwPageFails \/ GwFetch
    PROVE  SessionInv'
<1>1. c2s \in Seq(Uploads) /\ s2c \in Seq(Stored) /\ gw \in ConnSet /\ floor \in Nat
      /\ at \in [Ops -> Nat]
  BY DEF SessionInv, WireInv, TypeOK
<1>2. ASSUME GwJoin PROVE SessionInv'
  <2>1. UNCHANGED <<s2c, store, worker, outbox, s>> /\ c2s' \in Seq(Uploads)
    BY <1>2, ServesFacts DEF GwJoin
  <2>2. Last \in Nat
    BY <1>1, OpsFacts, FS_Subset, FS_CardinalityType DEF Last
  <2>3. gw' \in ConnSet
    <3>1. gw' = gw \/ \E c \in Nat : gw' = [gw EXCEPT !.joining = TRUE, !.durable = c]
      BY <1>2, <2>2 DEF GwJoin
    <3> QED BY <1>1, <3>1 DEF ConnSet
  <2> QED BY <1>1, <2>1, <2>3, WireOnly
<1>3. ASSUME GwRegister PROVE SessionInv'
  <2>1. UNCHANGED <<c2s, store, worker, outbox, s>>
        /\ s2c' = Append(s2c, Plain("join_accepted"))
    BY <1>3 DEF GwRegister
  <2>2. Plain("join_accepted") \in Stored
    BY PlainFacts DEF FrameTypes
  <2>3. gw' \in ConnSet
    BY <1>1, <1>3 DEF GwRegister, ConnSet
  <2>4. s2c' \in Seq(Stored)
    BY <1>1, <2>1, <2>2, AppendProperties
  <2> QED BY <1>1, <2>1, <2>3, <2>4, WireOnly
<1>4. ASSUME GwSync PROVE SessionInv'
  <2>1. UNCHANGED <<store, worker, outbox, s>> /\ c2s' \in Seq(Uploads)
        /\ Head(c2s).c \in {None} \union Nat
    BY <1>4, ServesFacts DEF GwSync
  <2>2. \/ gw' = gw /\ s2c' = s2c
        \/ gw' = gw /\ s2c' = Append(s2c, Frame("snapshot_resync_required", {}, floor))
        \/ gw' = [gw EXCEPT !.stream = Head(c2s).c] /\ s2c' = s2c
    BY <1>4 DEF GwSync
  <2>3. Frame("snapshot_resync_required", {}, floor) \in Stored
    BY <1>1, PlainFacts DEF FrameTypes
  <2>4. gw' \in ConnSet
    BY <1>1, <2>1, <2>2 DEF ConnSet
  <2>5. s2c' \in Seq(Stored)
    BY <1>1, <2>2, <2>3, AppendProperties
  <2> QED BY <1>1, <2>1, <2>4, <2>5, WireOnly
<1>5. ASSUME GwPage PROVE SessionInv'
  <2> DEFINE left == {at[o] : o \in {p \in Ops : at[p] > gw.stream /\ at[p] > floor}}
             page(c) == Frame("sync_batch", {o \in Ops : at[o] \in left /\ at[o] <= c}, c)
  <2>1. UNCHANGED <<c2s, store, worker, outbox, s>>
    BY <1>5 DEF GwPage
  <2>2. \/ s2c' = Append(s2c, Plain("sync_done"))
           /\ gw' = [gw EXCEPT !.stream = None, !.joining = FALSE, !.state = "ready"]
        \/ \E c \in left :
              \/ s2c' = Append(Append(s2c, page(c)), Plain("sync_done"))
                 /\ gw' = [gw EXCEPT !.stream = None, !.joining = FALSE, !.state = "ready"]
              \/ s2c' = Append(s2c, page(c)) /\ gw' = [gw EXCEPT !.stream = c]
    BY <1>5 DEF GwPage
  <2>3. \A c \in left : c \in Nat /\ page(c) \in Stored
    <3> SUFFICES ASSUME NEW c \in left PROVE c \in Nat /\ page(c) \in Stored
      OBVIOUS
    <3>1. c \in Nat /\ \A x \in left : x > 0
      BY <1>1
    <3> HIDE DEF left
    <3>2. page(c) \in FrameSet
      BY <3>1 DEF Frame, FrameSet, FrameTypes
    <3>3. \A o \in page(c).ops : at[o] > 0 /\ at[o] <= page(c).c
      BY <3>1 DEF Frame
    <3> QED BY <3>1, <3>2, <3>3 DEF Stored
  <2> HIDE DEF left, page
  <2>4. Plain("sync_done") \in Stored
    BY PlainFacts DEF FrameTypes
  <2>5. s2c' \in Seq(Stored)
    <3>1. \A q \in Seq(Stored), f \in Stored : Append(q, f) \in Seq(Stored)
      BY AppendProperties
    <3>2. CASE s2c' = Append(s2c, Plain("sync_done"))
      BY <1>1, <2>4, <3>1, <3>2
    <3>3. ASSUME NEW c \in left,
                 \/ s2c' = Append(Append(s2c, page(c)), Plain("sync_done"))
                 \/ s2c' = Append(s2c, page(c))
          PROVE  s2c' \in Seq(Stored)
      <4>1. Append(s2c, page(c)) \in Seq(Stored)
        BY <1>1, <2>3, <3>1, <3>3
      <4> QED BY <2>4, <3>1, <3>3, <4>1
    <3> QED BY <2>2, <3>2, <3>3
  <2>6. gw' \in ConnSet
    BY <1>1, <2>2, <2>3 DEF ConnSet
  <2> QED BY <1>1, <2>1, <2>5, <2>6, WireOnly
<1>6. ASSUME GwPageFails PROVE SessionInv'
  <2>1. UNCHANGED <<c2s, store, worker, outbox, s>>
        /\ s2c' = Append(s2c, Plain("database_unavailable"))
    BY <1>6 DEF GwPageFails
  <2>2. Plain("database_unavailable") \in Stored
    BY PlainFacts DEF FrameTypes
  <2>3. gw' \in ConnSet
    BY <1>1, <1>6 DEF GwPageFails, ConnSet
  <2>4. s2c' \in Seq(Stored)
    BY <1>1, <2>1, <2>2, AppendProperties
  <2> QED BY <1>1, <2>1, <2>3, <2>4, WireOnly
<1>7. ASSUME GwFetch PROVE SessionInv'
  <2>1. UNCHANGED <<gw, store, worker, outbox, s>> /\ c2s' \in Seq(Uploads)
        /\ Head(c2s).c \in {None} \union Nat
    BY <1>7, ServesFacts DEF GwFetch
  <2>2. Frame("snapshot_payload", {}, Head(c2s).c) \in Stored
    BY <2>1, PlainFacts DEF FrameTypes
  <2>3. s2c' \in Seq(Stored)
    BY <1>1, <1>7, <2>2, AppendProperties DEF GwFetch
  <2> QED BY <1>1, <2>1, <2>3, WireOnly
<1> QED BY <1>2, <1>3, <1>4, <1>5, <1>6, <1>7

\* A commit by a peer, a compaction, and the upload of a batch.
LEMMA StoreInv ==
    ASSUME SessionInv, PeerCommits \/ Compacts \/ GwIngest
    PROVE  SessionInv'
<1>1. c2s \in Seq(Uploads) /\ s2c \in Seq(Stored) /\ gw \in ConnSet /\ floor \in Nat
      /\ at \in [Ops -> Nat] /\ s \in SessionSet
  BY DEF SessionInv, WireInv, TypeOK
<1>2. UNCHANGED <<worker, outbox, s>> /\ UNCHANGED <<have, dcur, covered>>
  BY DEF PeerCommits, Compacts, GwIngest, worker
<1>3. have' \cap Own \subseteq have /\ have \subseteq have' /\ s' \in SessionSet
  BY <1>1, <1>2
<1>4. ASSUME StoreStep, c2s' \in Seq(Uploads), s2c' \in Seq(Stored'), gw' = gw, floor' \in Nat
      PROVE  SessionInv'
  <2>1. WireStep
    BY <1>2, <1>3, <1>4, SetsGrow DEF WireStep
  <2> QED BY <1>1, <1>2, <1>3, <1>4, <2>1, IdleWorker, ChainKept
<1>5. ASSUME PeerCommits PROVE SessionInv'
  <2>1. PICK o \in Ops \ Own :
          /\ at' = Ingested({o})
          /\ s2c' = IF gw.state \in {"syncing", "ready"}
                    THEN Append(s2c, Frame("peer_ops", {o}, None)) ELSE s2c
    BY <1>5 DEF PeerCommits
  <2>2. StoreStep /\ at'[o] > 0 /\ at' \in [Ops -> Nat]
    BY <1>1, <2>1, IngestStep, IngestedFacts
  <2>3. Frame("peer_ops", {o}, None) \in Stored'
    BY <2>1, <2>2 DEF Frame, Stored, FrameSet, FrameTypes
  <2>4. s2c' \in Seq(Stored')
    BY <1>3, <2>1, <2>2, <2>3, SetsGrow, AppendProperties
  <2> QED BY <1>1, <1>4, <1>5, <2>2, <2>4 DEF PeerCommits
<1>6. ASSUME Compacts PROVE SessionInv'
  <2>1. UNCHANGED <<c2s, s2c, gw, at>> /\ floor' \in Nat
    <3>1. floor' \in floor + 1 .. Last /\ Last \in Int
      BY <1>1, <1>6, OpsFacts, FS_Subset, FS_CardinalityType DEF Compacts, Last
    <3> QED BY <1>1, <1>6, <3>1 DEF Compacts, wire
  <2>2. StoreStep
    BY <2>1, IdleStore
  <2> QED BY <1>1, <1>3, <1>4, <2>1, <2>2, SetsGrow
<1>7. ASSUME GwIngest PROVE SessionInv'
  <2>1. c2s' \in Seq(Uploads) /\ Head(c2s) \in Uploads /\ UNCHANGED <<gw, floor>>
    BY <1>7, ServesFacts DEF GwIngest
  <2>2. CASE gw.state = "ready"
    <3> DEFINE ops == Head(c2s).ops
    <3>1. at' = Ingested(ops) /\ s2c' = Append(s2c, Frame("durable_ack", ops, None))
      BY <1>7, <2>2 DEF GwIngest
    <3>2. ops \in SUBSET Ops /\ ops \cap Own \subseteq have
      BY <2>1, OpsFacts DEF Uploads
    <3>3. StoreStep /\ \A o \in ops : at'[o] > 0
      BY <1>1, <3>1, <3>2, IngestStep, IngestedFacts
    <3>4. Frame("durable_ack", ops, None) \in Stored'
      BY <3>2, <3>3 DEF Frame, Stored, FrameSet, FrameTypes, Ops
    <3>5. s2c' \in Seq(Stored')
      BY <1>3, <3>1, <3>3, <3>4, SetsGrow, AppendProperties
    <3> QED BY <1>1, <1>4, <2>1, <3>3, <3>5
  <2>3. CASE gw.state # "ready"
    <3>1. UNCHANGED <<at, s2c>>
      BY <1>7, <2>3 DEF GwIngest
    <3>2. StoreStep
      BY <3>1, IdleStore
    <3> QED BY <1>1, <1>3, <1>4, <2>1, <3>1, <3>2, SetsGrow
  <2> QED BY <2>2, <2>3
<1> QED BY <1>5, <1>6, <1>7

-----------------------------------------------------------------------------
(* Steps of the client that leave the outbox and its chain alone *)

\* A handler that only moves frames and the session's own state.
LEMMA SessionOnly ==
    ASSUME SessionInv, UNCHANGED <<gw, store, worker, outbox>>, s' \in SessionSet,
           c2s' \in Seq(Uploads'), s2c' \in Seq(Stored'), s'.inbound \in Seq(Stored'),
           \A f \in s'.flushes : f.ops \subseteq have,
           \A ops \in s'.acks : \A o \in ops : at[o] > 0,
           s'.jobs = s.jobs, s'.broken = s.broken, s'.confirmed => s.confirmed
    PROVE  SessionInv'
<1>1. UNCHANGED <<at, floor, have, dcur, covered>>
  BY DEF store, worker
<1>2. StoreStep /\ WorkerStep
  BY <1>1, IdleStore, IdleWorker DEF worker
<1>3. WireStep
  BY <1>1 DEF WireStep
<1>4. floor' \in Nat /\ gw' \in ConnSet /\ have' \cap Own \subseteq have
  BY <1>1 DEF SessionInv, TypeOK
<1> QED BY <1>2, <1>3, <1>4, ChainKept

\* A handler that fails and reconnects.
LEMMA LostOnly ==
    ASSUME SessionInv, Reconnect, UNCHANGED <<worker, outbox>>, s' \in SessionSet,
           s'.inbound \in Seq(Stored), s'.flushes \subseteq s.flushes, s'.acks \subseteq s.acks,
           s'.jobs = s.jobs, s'.broken = s.broken, s'.confirmed => s.confirmed
    PROVE  SessionInv'
<1>1. UNCHANGED <<floor, have, dcur, covered>>
  BY DEF Reconnect, worker
<1>2. StoreStep /\ WorkerStep /\ c2s' = <<>> /\ s2c' = <<>> /\ gw' \in ConnSet
  BY <1>1, LoseStep, IdleWorker DEF Reconnect, worker
<1>3. WireStep
  <2>1. c2s' \in Seq(Uploads') /\ s2c' \in Seq(Stored')
    BY <1>2, EmptySeq
  <2>2. /\ s'.inbound \in Seq(Stored')
        /\ \A f \in s.flushes : f.ops \subseteq have'
        /\ \A ops \in s.acks : \A o \in ops : at'[o] > 0
    BY <1>1, <1>2, SetsGrow
  <2> QED BY <2>1, <2>2 DEF WireStep
<1>4. floor' \in Nat /\ have' \cap Own \subseteq have
  BY <1>1 DEF SessionInv, TypeOK
<1> QED BY <1>2, <1>3, <1>4, ChainKept

\* The frames of a join, of catch-up pages and of a resync.
LEMMA FrameInv ==
    ASSUME SessionInv,
           JoinAccepted \/ SyncDone \/ QueueRemote \/ DurableAck \/ ResyncRequired \/ SnapshotPayload
    PROVE  SessionInv'
<1>1. UNCHANGED <<gw, store, worker, outbox>> /\ s2c # <<>> /\ s2c' = Tail(s2c)
  BY DEF JoinAccepted, SyncDone, QueueRemote, DurableAck, ResyncRequired, SnapshotPayload, Receive
<1>2. StoreStep /\ have' = have /\ at' = at
  BY <1>1, IdleStore DEF store, worker
<1>3. /\ s2c' \in Seq(Stored') /\ Head(s2c) \in Stored'
      /\ Head(s2c) \in FrameSet /\ Head(s2c).c \in {None} \union Nat
      /\ \A o \in Head(s2c).ops : o \in Ops /\ at'[o] > 0
  BY <1>1, <1>2, ReceiveFacts
<1>4. c2s \in Seq(Uploads') /\ s.inbound \in Seq(Stored') /\ s \in SessionSet
      /\ (\A f \in s.flushes : f.ops \subseteq have)
      /\ (\A ops \in s.acks : \A o \in ops : at[o] > 0)
  BY <1>2, SetsGrow DEF SessionInv, TypeOK
<1>5. s.cursor \in Nat /\ s.inbound \in Seq(FrameSet) /\ s.acks \subseteq SUBSET Ops
      /\ s.imports \subseteq [k : {"import", "persist"}, c : {None} \union Nat]
  BY <1>4 DEF SessionSet
<1>6. Frame("sync_request", {}, s.cursor) \in Uploads'
  BY <1>5, PlainFacts DEF FrameTypes
<1>7. ASSUME JoinAccepted PROVE SessionInv'
  <2>1. s' = s /\ Send(Frame("sync_request", {}, s.cursor))
    BY <1>7 DEF JoinAccepted
  <2>2. c2s' \in Seq(Uploads')
    BY <1>2, <1>6, <2>1, SendFacts
  <2> QED BY <1>1, <1>3, <1>4, <2>1, <2>2, SessionOnly
<1>8. ASSUME SyncDone PROVE SessionInv'
  <2>1. s' = [s EXCEPT !.inbound = Append(@, Plain("ready"))] /\ c2s' = c2s
    BY <1>8 DEF SyncDone
  <2>2. Plain("ready") \in Stored' /\ Plain("ready") \in FrameSet
    BY PlainFacts DEF FrameTypes, Plain, Frame, FrameSet
  <2>3. Append(s.inbound, Plain("ready")) \in Seq(Stored')
        /\ Append(s.inbound, Plain("ready")) \in Seq(FrameSet)
    BY <1>4, <1>5, <2>2, AppendProperties
  <2>4. s' \in SessionSet /\ s'.inbound \in Seq(Stored')
    BY <1>4, <2>1, <2>3 DEF SessionSet
  <2>5. s'.flushes = s.flushes /\ s'.acks = s.acks /\ s'.jobs = s.jobs /\ s'.broken = s.broken
        /\ s'.confirmed = s.confirmed
    BY <1>4, <2>1 DEF SessionSet
  <2> QED BY <1>1, <1>3, <1>4, <2>1, <2>4, <2>5, SessionOnly
<1>9. ASSUME QueueRemote PROVE SessionInv'
  <2>1. s' = [s EXCEPT !.inbound = IF s.failed THEN @ ELSE Append(@, Head(s2c))] /\ c2s' = c2s
    BY <1>9 DEF QueueRemote
  <2>2. Append(s.inbound, Head(s2c)) \in Seq(Stored')
        /\ Append(s.inbound, Head(s2c)) \in Seq(FrameSet)
    BY <1>3, <1>4, <1>5, AppendProperties
  <2>3. s' \in SessionSet /\ s'.inbound \in Seq(Stored')
    BY <1>4, <2>1, <2>2 DEF SessionSet
  <2>4. s'.flushes = s.flushes /\ s'.acks = s.acks /\ s'.jobs = s.jobs /\ s'.broken = s.broken
        /\ s'.confirmed = s.confirmed
    BY <1>4, <2>1 DEF SessionSet
  <2> QED BY <1>1, <1>3, <1>4, <2>1, <2>3, <2>4, SessionOnly
<1>10. ASSUME DurableAck PROVE SessionInv'
  <2>1. s' = [s EXCEPT !.acks = @ \union {Head(s2c).ops}] /\ c2s' = c2s
    BY <1>10 DEF DurableAck
  <2>2. s' \in SessionSet
    BY <1>3, <1>4, <2>1 DEF SessionSet, FrameSet
  <2>3. s'.flushes = s.flushes /\ s'.acks = s.acks \union {Head(s2c).ops} /\ s'.jobs = s.jobs
        /\ s'.broken = s.broken /\ s'.confirmed = s.confirmed /\ s'.inbound = s.inbound
    BY <1>4, <2>1 DEF SessionSet
  <2>4. \A ops \in s'.acks : \A o \in ops : at[o] > 0
    BY <1>2, <1>3, <1>4, <2>3
  <2> QED BY <1>1, <1>3, <1>4, <2>1, <2>2, <2>3, <2>4, SessionOnly
<1>11. ASSUME ResyncRequired PROVE SessionInv'
  <2>1. s' = [s EXCEPT !.signal = Head(s2c).c] /\ Send(Frame("fetch_snapshot", {}, Head(s2c).c))
    BY <1>11 DEF ResyncRequired
  <2>2. Frame("fetch_snapshot", {}, Head(s2c).c) \in Uploads'
    BY <1>3, PlainFacts DEF FrameTypes
  <2>3. c2s' \in Seq(Uploads')
    BY <1>2, <2>1, <2>2, SendFacts
  <2>4. s' \in SessionSet
    BY <1>3, <1>4, <2>1 DEF SessionSet
  <2>5. s'.flushes = s.flushes /\ s'.acks = s.acks /\ s'.jobs = s.jobs /\ s'.broken = s.broken
        /\ s'.confirmed = s.confirmed /\ s'.inbound = s.inbound
    BY <1>4, <2>1 DEF SessionSet
  <2> QED BY <1>1, <1>3, <1>4, <2>3, <2>4, <2>5, SessionOnly
<1>12. ASSUME SnapshotPayload PROVE SessionInv'
  <2> DEFINE c == Head(s2c).c
             more == IF s.signal = c THEN s.imports \union {[k |-> "import", c |-> c]} ELSE s.imports
  <2>1. s' = [s EXCEPT !.signal = None, !.imports = more]
        /\ (Send(Frame("sync_request", {}, s.cursor)) \/ c2s' = c2s)
    BY <1>4, <1>12 DEF SnapshotPayload, SessionSet
  <2>2. c2s' \in Seq(Uploads')
    BY <1>2, <1>4, <1>6, <2>1, SendFacts
  <2>3. more \subseteq [k : {"import", "persist"}, c : {None} \union Nat]
    BY <1>3, <1>5
  <2> HIDE DEF more
  <2>4. s' \in SessionSet
    BY <1>4, <2>1, <2>3 DEF SessionSet
  <2>5. s'.flushes = s.flushes /\ s'.acks = s.acks /\ s'.jobs = s.jobs /\ s'.broken = s.broken
        /\ s'.confirmed = s.confirmed /\ s'.inbound = s.inbound
    BY <1>4, <2>1 DEF SessionSet
  <2> QED BY <1>1, <1>3, <1>4, <2>2, <2>4, <2>5, SessionOnly
<1> QED BY <1>7, <1>8, <1>9, <1>10, <1>11, <1>12

\* The failures that only reconnect, and a dropped connection.
LEMMA FailureInv ==
    ASSUME SessionInv,
           DatabaseUnavailable \/ Drops \/ ApplyFails \/ ClearAckedFails \/ MarkAckedFails \/ ImportFails
    PROVE  SessionInv'
<1>1. s \in SessionSet /\ s.inbound \in Seq(Stored) /\ s2c \in Seq(Stored) /\ c2s \in Seq(Uploads)
  BY DEF SessionInv, WireInv, TypeOK
<1>2. s.inbound \in Seq(FrameSet)
      /\ s.imports \subseteq [k : {"import", "persist"}, c : {None} \union Nat]
  BY <1>1 DEF SessionSet
<1>3. ASSUME DatabaseUnavailable PROVE SessionInv'
  <2>1. UNCHANGED <<worker, outbox, s>>
    BY <1>3 DEF DatabaseUnavailable
  <2>2. CASE net.status = "syncing"
    <3>1. Reconnect
      BY <1>3, <2>2 DEF DatabaseUnavailable
    <3> QED BY <1>1, <2>1, <3>1, LostOnly
  <2>3. CASE net.status # "syncing"
    <3>1. UNCHANGED <<gw, store>> /\ c2s' = c2s /\ s2c # <<>> /\ s2c' = Tail(s2c)
      BY <1>3, <2>3 DEF DatabaseUnavailable, Receive
    <3> QED BY <1>1, <2>1, <3>1, WireOnly, HeadTailProperties DEF SessionInv, TypeOK
  <2> QED BY <2>2, <2>3
<1>4. ASSUME Drops PROVE SessionInv'
  BY <1>1, <1>4, LostOnly DEF Drops, Reconnect
<1>5. ASSUME ApplyFails PROVE SessionInv'
  <2>1. Reconnect /\ UNCHANGED <<worker, outbox>> /\ s' = CatchupFailed
    BY <1>5 DEF ApplyFails
  <2>2. s' \in SessionSet /\ s'.inbound = <<>>
    BY <1>1, <2>1, EmptySeq DEF CatchupFailed, SessionSet
  <2>3. s'.inbound \in Seq(Stored)
    BY <2>2, EmptySeq
  <2>4. s'.flushes = s.flushes /\ s'.acks = s.acks /\ s'.jobs = s.jobs /\ s'.broken = s.broken
        /\ s'.confirmed = s.confirmed
    BY <1>1, <2>1 DEF CatchupFailed, SessionSet
  <2> QED BY <2>1, <2>2, <2>3, <2>4, LostOnly
<1>6. ASSUME ClearAckedFails PROVE SessionInv'
  <2>1. Reconnect /\ UNCHANGED <<worker, outbox>> /\ s.inbound # <<>>
        /\ s' = [s EXCEPT !.inbound = Tail(@), !.complete = TRUE]
    BY <1>6 DEF ClearAckedFails
  <2>2. Tail(s.inbound) \in Seq(FrameSet) /\ Tail(s.inbound) \in Seq(Stored)
    BY <1>1, <1>2, <2>1, HeadTailProperties
  <2>3. s' \in SessionSet /\ s'.inbound \in Seq(Stored)
    BY <1>1, <2>1, <2>2 DEF SessionSet
  <2>4. s'.flushes = s.flushes /\ s'.acks = s.acks /\ s'.jobs = s.jobs /\ s'.broken = s.broken
        /\ s'.confirmed = s.confirmed
    BY <1>1, <2>1 DEF SessionSet
  <2> QED BY <2>1, <2>3, <2>4, LostOnly
<1>7. ASSUME MarkAckedFails PROVE SessionInv'
  <2>1. Reconnect /\ UNCHANGED <<worker, outbox>>
    BY <1>7 DEF MarkAckedFails
  <2>2. PICK ops \in s.acks : s' = [s EXCEPT !.acks = @ \ {ops}]
    BY <1>7 DEF MarkAckedFails
  <2>3. s' \in SessionSet /\ s'.inbound = s.inbound
    BY <1>1, <2>2 DEF SessionSet
  <2>4. s'.flushes = s.flushes /\ s'.acks \subseteq s.acks /\ s'.jobs = s.jobs
        /\ s'.broken = s.broken /\ s'.confirmed = s.confirmed
    BY <1>1, <2>2 DEF SessionSet
  <2> QED BY <1>1, <2>1, <2>3, <2>4, LostOnly
<1>8. ASSUME ImportFails PROVE SessionInv'
  <2>1. Reconnect /\ UNCHANGED <<worker, outbox>>
    BY <1>8 DEF ImportFails
  <2>2. PICK i \in s.imports : s' = [s EXCEPT !.imports = @ \ {i}]
    BY <1>8 DEF ImportFails
  <2>3. s' \in SessionSet /\ s'.inbound = s.inbound
    BY <1>1, <2>2 DEF SessionSet
  <2>4. s'.flushes = s.flushes /\ s'.acks = s.acks /\ s'.jobs = s.jobs
        /\ s'.broken = s.broken /\ s'.confirmed = s.confirmed
    BY <1>1, <2>2 DEF SessionSet
  <2> QED BY <1>1, <2>1, <2>3, <2>4, LostOnly
<1> QED BY <1>3, <1>4, <1>5, <1>6, <1>7, <1>8

\* Reading the unacked rows, sending them, and the pull that follows an ack.
LEMMA FlushInv ==
    ASSUME SessionInv, FlushReads \/ FlushSends \/ SyncNow
    PROVE  SessionInv'
<1>1. UNCHANGED <<s2c, gw, store, worker, outbox>>
  BY DEF FlushReads, FlushSends, SyncNow, wire
<1>2. StoreStep /\ have' = have /\ at' = at
  BY <1>1, IdleStore DEF store, worker
<1>3. c2s \in Seq(Uploads') /\ s2c' \in Seq(Stored') /\ s.inbound \in Seq(Stored')
      /\ s \in SessionSet
      /\ (\A f \in s.flushes : f.ops \subseteq have)
      /\ (\A ops \in s.acks : \A o \in ops : at[o] > 0)
  BY <1>1, <1>2, SetsGrow DEF SessionInv, TypeOK
<1>4. s.cursor \in Nat /\ s.flushes \subseteq [k : {"send", "mark"}, ops : SUBSET Own]
  BY <1>3 DEF SessionSet
<1>5. ASSUME FlushReads PROVE SessionInv'
  <2> DEFINE more == IF net.status = "ready" /\ s.complete /\ Unacked # {}
                     THEN s.flushes \union {[k |-> "send", ops |-> Batch]} ELSE s.flushes
  <2>1. s' = [s EXCEPT !.go = FALSE, !.flushes = more] /\ c2s' = c2s
    BY <1>3, <1>5 DEF FlushReads, SessionSet, wire
  <2>2. Batch \subseteq Own /\ Batch \subseteq have
    BY DEF Batch, Unacked, SessionInv, LogInv
  <2>3. more \subseteq [k : {"send", "mark"}, ops : SUBSET Own] /\ \A f \in more : f.ops \subseteq have
    BY <1>3, <1>4, <2>2
  <2> HIDE DEF more
  <2>4. s' \in SessionSet /\ s'.flushes = more
    BY <1>3, <2>1, <2>3 DEF SessionSet
  <2>5. s'.inbound = s.inbound /\ s'.acks = s.acks /\ s'.jobs = s.jobs /\ s'.broken = s.broken
        /\ s'.confirmed = s.confirmed
    BY <1>3, <2>1 DEF SessionSet
  <2> QED BY <1>1, <1>3, <2>1, <2>3, <2>4, <2>5, SessionOnly
<1>6. ASSUME FlushSends PROVE SessionInv'
  <2>1. PICK f \in s.flushes :
          /\ s' = [s EXCEPT !.flushes = (@ \ {f}) \union
                      IF net.ws = "open" THEN {[f EXCEPT !.k = "mark"]} ELSE {}]
          /\ Send(Frame("client_ops", f.ops, None))
    BY <1>6 DEF FlushSends
  <2> DEFINE g == [f EXCEPT !.k = "mark"]
             more == (s.flushes \ {f}) \union IF net.ws = "open" THEN {g} ELSE {}
  <2>2. f \in [k : {"send", "mark"}, ops : SUBSET Own] /\ f.ops \subseteq have
    BY <1>3, <1>4
  <2>3. g \in [k : {"send", "mark"}, ops : SUBSET Own] /\ g.ops = f.ops
    BY <2>2
  <2>4. Frame("client_ops", f.ops, None) \in Uploads'
    BY <1>2, <2>2, OpsFacts DEF Frame, Uploads, FrameSet, FrameTypes, Ops, Own
  <2>5. c2s' \in Seq(Uploads')
    BY <1>2, <2>1, <2>4, SendFacts
  <2> HIDE DEF g
  <2>6. more \subseteq [k : {"send", "mark"}, ops : SUBSET Own] /\ \A h \in more : h.ops \subseteq have
    BY <1>3, <1>4, <2>2, <2>3
  <2>7. s' = [s EXCEPT !.flushes = more]
    BY <1>3, <2>1 DEF SessionSet, g
  <2> HIDE DEF more
  <2>8. s' \in SessionSet /\ s'.flushes = more
    BY <1>3, <2>6, <2>7 DEF SessionSet
  <2>9. s'.inbound = s.inbound /\ s'.acks = s.acks /\ s'.jobs = s.jobs /\ s'.broken = s.broken
        /\ s'.confirmed = s.confirmed
    BY <1>3, <2>7 DEF SessionSet
  <2> QED BY <1>1, <1>3, <2>5, <2>6, <2>8, <2>9, SessionOnly
<1>7. ASSUME SyncNow PROVE SessionInv'
  <2>1. \/ s' = [s EXCEPT !.checks = FALSE, !.failed = FALSE, !.complete = FALSE]
           /\ Send(Frame("sync_request", {}, s.cursor))
        \/ s' = [s EXCEPT !.checks = FALSE] /\ c2s' = c2s
    BY <1>7 DEF SyncNow
  <2>2. Frame("sync_request", {}, s.cursor) \in Uploads'
    BY <1>4, PlainFacts DEF FrameTypes
  <2>3. c2s' \in Seq(Uploads')
    BY <1>2, <1>3, <2>1, <2>2, SendFacts
  <2>4. s' \in SessionSet
    BY ZenonT(60), <1>3, <2>1 DEF SessionSet
  <2>5. s'.inbound = s.inbound /\ s'.acks = s.acks /\ s'.jobs = s.jobs /\ s'.broken = s.broken
        /\ s'.confirmed = s.confirmed /\ s'.flushes = s.flushes
    BY <1>3, <2>1 DEF SessionSet
  <2> QED BY <1>1, <1>3, <2>3, <2>4, <2>5, SessionOnly
<1> QED BY <1>5, <1>6, <1>7

\* Pages and snapshots that reach the worker: it gets no own operation from
\* the server that its log lacks.
LEMMA WorkerInv ==
    ASSUME SessionInv, ApplyRemote \/ Imports \/ PersistCursor
    PROVE  SessionInv'
<1>1. UNCHANGED <<s2c, gw, store, outbox>>
  BY DEF ApplyRemote, Imports, PersistCursor, wire
<1>2. StoreStep /\ at' = at /\ floor' = floor
  BY <1>1, IdleStore DEF store
<1>3. s \in SessionSet /\ s.inbound \in Seq(Stored) /\ dcur \in Nat /\ have \subseteq Ops
      /\ floor \in Nat /\ gw \in ConnSet /\ at \in [Ops -> Nat] /\ covered \subseteq Own
      /\ (\A n \in covered : at[n] \in 1 .. dcur)
      /\ (\A n \in Own : at[n] > 0 => n \in have)
  BY DEF SessionInv, WireInv, TypeOK, LogInv
<1>4. s.cursor \in Nat /\ s.inbound \in Seq(FrameSet)
      /\ s.imports \subseteq [k : {"import", "persist"}, c : {None} \union Nat]
  BY <1>3 DEF SessionSet
<1>5. ASSUME WorkerStep, have' \cap Own \subseteq have, s' \in SessionSet,
             c2s' \in Seq(Uploads'), s'.inbound \in Seq(Stored'),
             s'.flushes = s.flushes, s'.acks = s.acks, s'.jobs = s.jobs, s'.broken = s.broken,
             s'.confirmed = s.confirmed
      PROVE  SessionInv'
  <2>1. WireStep
    BY <1>1, <1>2, <1>5, SetsGrow DEF WireStep, WorkerStep
  <2> QED BY <1>1, <1>2, <1>3, <1>5, <2>1, ChainKept
<1>6. \A c \in {None} \union Nat :
          /\ Max({s.cursor, c}) \in Nat /\ Max({dcur, c}) \in Nat /\ Max({dcur, c}) >= dcur
          /\ Max({dcur, c}) >= c
  <2> SUFFICES ASSUME NEW c \in {None} \union Nat
               PROVE  /\ Max({s.cursor, c}) \in Nat /\ Max({dcur, c}) \in Nat
                      /\ Max({dcur, c}) >= dcur /\ Max({dcur, c}) >= c
    OBVIOUS
  <2>1. c \in Int /\ s.cursor \in Int /\ dcur \in Int
    BY <1>3, <1>4 DEF None
  <2>2. /\ Max({s.cursor, c}) \in {s.cursor, c} /\ Max({s.cursor, c}) >= s.cursor
        /\ Max({dcur, c}) \in {dcur, c} /\ Max({dcur, c}) >= dcur /\ Max({dcur, c}) >= c
    BY <2>1, MaxPair
  <2> QED BY <1>3, <1>4, <2>1, <2>2
<1>7. ASSUME ApplyRemote PROVE SessionInv'
  <2> DEFINE p == Head(s.inbound)
  <2>1. s.inbound # <<>> /\ UNCHANGED c2s
        /\ have' = have \union p.ops /\ dcur' = Max({dcur, p.c})
        /\ covered' = (IF p.c = None THEN covered ELSE covered \union (p.ops \intersect Own))
        /\ s' = [s EXCEPT !.inbound = Tail(@), !.cursor = Advanced(p.c)]
    BY <1>7 DEF ApplyRemote, Page1, wire
  <2>2. p \in Stored /\ Tail(s.inbound) \in Seq(Stored) /\ Tail(s.inbound) \in Seq(FrameSet)
    BY <1>3, <1>4, <2>1, HeadTailProperties
  <2>3. p.ops \subseteq Ops /\ p.c \in {None} \union Nat
        /\ \A o \in p.ops : at[o] > 0 /\ (p.c # None => at[o] <= p.c)
    BY <2>2 DEF Stored, FrameSet
  <2> HIDE DEF p
  <2>4. have' \cap Own \subseteq have
    BY <1>3, <2>1, <2>3
  <2>5. WorkerStep
    <3>1. dcur' \in Nat /\ dcur <= dcur' /\ p.c <= dcur'
      BY <1>6, <2>1, <2>3
    <3>2. have \subseteq have' /\ have' \subseteq Ops /\ covered' \subseteq Own
      BY <1>3, <2>1, <2>3
    <3>3. \A n \in covered' : at'[n] \in 1 .. dcur'
      <4> SUFFICES ASSUME NEW n \in covered' PROVE at[n] \in 1 .. dcur'
        BY <1>2
      <4>1. at[n] \in Nat
        BY <1>3, <3>2, OpsFacts
      <4>2. CASE n \in covered
        BY <1>3, <3>1, <4>2
      <4>3. CASE n \notin covered
        <5>1. n \in p.ops /\ p.c # None
          BY <2>1, <4>3
        <5>2. at[n] > 0 /\ at[n] <= p.c /\ p.c \in Nat
          BY <2>3, <5>1
        <5> QED BY <3>1, <4>1, <5>2
      <4> QED BY <4>2, <4>3
    <3> QED BY <3>1, <3>2, <3>3 DEF WorkerStep
  <2>6. s' \in SessionSet /\ s'.inbound = Tail(s.inbound)
    <3>1. Advanced(p.c) \in Nat
      BY <1>6, <2>3 DEF Advanced
    <3> QED BY <1>3, <2>1, <2>2, <3>1 DEF SessionSet
  <2>7. c2s' \in Seq(Uploads') /\ s'.inbound \in Seq(Stored')
    BY <1>2, <2>1, <2>2, <2>5, <2>6, SetsGrow DEF WorkerStep
  <2>8. s'.flushes = s.flushes /\ s'.acks = s.acks /\ s'.jobs = s.jobs /\ s'.broken = s.broken
        /\ s'.confirmed = s.confirmed
    BY <1>3, <2>1 DEF SessionSet
  <2> QED BY <1>5, <2>4, <2>5, <2>6, <2>7, <2>8
<1>8. ASSUME Imports PROVE SessionInv'
  <2>1. PICK i \in s.imports :
          /\ have' = have \union Prefix(i.c)
          /\ s' = [s EXCEPT !.imports = (@ \ {i}) \union {[i EXCEPT !.k = "persist"]}]
    BY <1>8 DEF Imports
  <2>2. UNCHANGED <<c2s, dcur, covered>>
    BY <1>8 DEF Imports, wire
  <2>3. have' \cap Own \subseteq have /\ have \subseteq have' /\ have' \subseteq Ops
    BY <1>3, <2>1 DEF Prefix
  <2>4. WorkerStep
    BY <1>2, <1>3, <2>2, <2>3 DEF WorkerStep
  <2>5. [i EXCEPT !.k = "persist"] \in [k : {"import", "persist"}, c : {None} \union Nat]
    BY <1>4
  <2>6. s' \in SessionSet
    BY <1>3, <1>4, <2>1, <2>5 DEF SessionSet
  <2>7. s'.flushes = s.flushes /\ s'.acks = s.acks /\ s'.jobs = s.jobs /\ s'.broken = s.broken
        /\ s'.confirmed = s.confirmed /\ s'.inbound = s.inbound
    BY <1>3, <2>1 DEF SessionSet
  <2> QED BY <1>2, <1>5, <2>2, <2>3, <2>4, <2>6, <2>7, SetsGrow
<1>9. ASSUME PersistCursor PROVE SessionInv'
  <2>1. PICK i \in s.imports :
          /\ dcur' = Max({dcur, i.c})
          /\ s' = [s EXCEPT !.imports = @ \ {i}, !.cursor = Advanced(i.c)]
          /\ Send(Frame("sync_request", {}, Advanced(i.c)))
    BY <1>9 DEF PersistCursor
  <2>2. UNCHANGED <<have, covered>>
    BY <1>9 DEF PersistCursor
  <2>3. i.c \in {None} \union Nat
    BY <1>4
  <2>4. Advanced(i.c) \in Nat /\ dcur' \in Nat /\ dcur <= dcur'
    BY <1>6, <2>1, <2>3 DEF Advanced
  <2>5. WorkerStep
    BY <1>2, <1>3, <2>2, <2>4 DEF WorkerStep
  <2>6. Frame("sync_request", {}, Advanced(i.c)) \in Uploads'
    BY <2>4, PlainFacts DEF FrameTypes
  <2>7. c2s' \in Seq(Uploads')
    BY <1>2, <2>1, <2>2, <2>6, SendFacts
  <2>8. s' \in SessionSet
    BY <1>3, <1>4, <2>1, <2>4 DEF SessionSet
  <2>9. s'.flushes = s.flushes /\ s'.acks = s.acks /\ s'.jobs = s.jobs /\ s'.broken = s.broken
        /\ s'.confirmed = s.confirmed /\ s'.inbound = s.inbound
    BY <1>3, <2>1 DEF SessionSet
  <2> QED BY <1>2, <1>5, <2>2, <2>5, <2>7, <2>8, <2>9, SetsGrow
<1> QED BY <1>7, <1>8, <1>9

-----------------------------------------------------------------------------
(* The outbox and its chain of jobs *)

\* A queue whose head is replaced.
LEMMA QueueHead ==
    ASSUME NEW T, NEW q \in Seq(T), q # <<>>, NEW x \in T
    PROVE  /\ <<x>> \o Tail(q) \in Seq(T) /\ DOMAIN (<<x>> \o Tail(q)) = DOMAIN q
           /\ Head(<<x>> \o Tail(q)) = x /\ (<<x>> \o Tail(q))[1] = x
           /\ \A i \in DOMAIN q : i # 1 => (<<x>> \o Tail(q))[i] = q[i]
           /\ <<x>> \o Tail(q) # <<>>
<1>1. /\ Tail(q) \in Seq(T) /\ Len(Tail(q)) = Len(q) - 1 /\ Len(q) \in Nat /\ Len(q) > 0
      /\ \A i \in 1 .. Len(q) - 1 : Tail(q)[i] = q[i + 1]
      /\ DOMAIN q = 1 .. Len(q)
  BY QueueTail
<1>2. <<x>> \in Seq(T) /\ Len(<<x>>) = 1 /\ <<x>>[1] = x
  OBVIOUS
<1> DEFINE r == <<x>> \o Tail(q)
<1>3. r \in Seq(T) /\ Len(r) = 1 + Len(Tail(q))
      /\ \A i \in 1 .. 1 + Len(Tail(q)) :
            r[i] = IF i <= 1 THEN <<x>>[i] ELSE Tail(q)[i - 1]
  BY <1>1, <1>2, ConcatProperties
<1> HIDE DEF r
<1>4. Len(r) = Len(q) /\ DOMAIN r = DOMAIN q /\ r[1] = x
      /\ \A i \in DOMAIN q : i # 1 => r[i] = q[i]
  BY <1>1, <1>2, <1>3, LenProperties
<1>5. r # <<>> /\ Head(r) = r[1]
  BY <1>1, <1>3, <1>4, HeadTailProperties, EmptySeq
<1> QED BY <1>3, <1>4, <1>5 DEF r

\* Facts about the jobs of a session.
LEMMA JobFacts ==
    ASSUME SessionInv
    PROVE  /\ s \in SessionSet /\ s.jobs \in Seq(JobSet) /\ Len(s.jobs) \in Nat
           /\ DOMAIN s.jobs = 1 .. Len(s.jobs)
           /\ \A i \in DOMAIN s.jobs : s.jobs[i] \in JobSet /\ s.jobs[i].ops \subseteq Own \cap have
           /\ \A n \in Own : n \in Nat \ {0}
           /\ Unseen = {n \in Own \cap have : n > seen} /\ seen \in Nat
<1>1. s \in SessionSet /\ s.jobs \in Seq(JobSet) /\ seen \in Nat
  BY DEF SessionInv, TypeOK, SessionSet
<1>2. Len(s.jobs) \in Nat /\ DOMAIN s.jobs = 1 .. Len(s.jobs)
  BY <1>1, LenProperties
<1>3. \A i \in DOMAIN s.jobs : s.jobs[i] \in JobSet
  BY <1>1, <1>2, ElementOfSeq
<1>4. \A i \in DOMAIN s.jobs : s.jobs[i].ops \subseteq Own \cap have
  BY <1>3 DEF JobSet, SessionInv, JobInv
<1> QED BY <1>1, <1>2, <1>3, <1>4, OpsFacts DEF Unseen

\* The parts of a step that touches the outbox or its chain.
LEMMA ChainStep ==
    ASSUME SessionInv, StoreStep, WireStep, WorkerStep,
           floor' \in Nat, gw' \in ConnSet, s' \in SessionSet, seen' \in Nat,
           row' \in [Own -> {"none", "pending", "sent", "acked"}],
           LogInv', EditsAreKept', JobInv', ChainInv', ConfirmedIsSaved'
    PROVE  SessionInv'
<1>1. TypeOK' /\ WireInv'
  BY PiecesKept
<1> QED BY <1>1 DEF SessionInv

\* Jobs are only added: what is newly logged comes with a new job and is above
\* all that was logged.
LEMMA JobsGrow ==
    ASSUME SessionInv, StoreStep, have \subseteq have', seen' = seen,
           s'.jobs \in Seq(JobSet), Len(s'.jobs) >= Len(s.jobs),
           \A i \in DOMAIN s.jobs : s'.jobs[i] = s.jobs[i],
           \A i \in DOMAIN s'.jobs : i \notin DOMAIN s.jobs =>
               /\ ~s'.jobs[i].begun /\ s'.jobs[i].ops \subseteq have'
               /\ s'.jobs[i].k # "local" => s'.jobs[i].ops = {},
           \A m \in (have' \cap Own) \ have :
               /\ \E i \in DOMAIN s'.jobs : m \in s'.jobs[i].ops
               /\ \A n \in have' \cap Own : n <= m,
           s'.broken = s.broken, s'.confirmed => s.confirmed
    PROVE  JobInv' /\ ChainInv' /\ ConfirmedIsSaved'
<1>1. /\ Len(s.jobs) \in Nat /\ DOMAIN s.jobs = 1 .. Len(s.jobs)
      /\ \A i \in DOMAIN s.jobs : s.jobs[i].ops \subseteq Own \cap have
      /\ \A n \in Own : n \in Nat \ {0}
      /\ Unseen = {n \in Own \cap have : n > seen} /\ seen \in Nat
      /\ s.jobs \in Seq(JobSet)
  BY JobFacts
<1>2. Len(s'.jobs) \in Nat /\ DOMAIN s'.jobs = 1 .. Len(s'.jobs)
      /\ DOMAIN s.jobs \subseteq DOMAIN s'.jobs
  BY <1>1, LenProperties
<1>3. Own' = Own /\ Unseen' = {n \in Own \cap have' : n > seen}
  BY DEF Own, Unseen
<1>4. \A i \in DOMAIN s'.jobs : s'.jobs[i].ops \subseteq Own \cap have'
  <2>1. \A i \in DOMAIN s'.jobs : s'.jobs[i] \in JobSet
    BY <1>2, ElementOfSeq
  <2> QED BY <1>1, <2>1 DEF JobSet
<1>5. JobInv'
  BY <1>1, <1>2, <1>4 DEF JobInv, SessionInv
<1>6. ChainInv'
  <2>1. CASE Rescans
    <3>1. s.jobs # <<>> => s'.jobs # <<>> /\ Head(s'.jobs) = Head(s.jobs)
      <4> SUFFICES ASSUME s.jobs # <<>> PROVE s'.jobs # <<>> /\ Head(s'.jobs) = Head(s.jobs)
        OBVIOUS
      <4>1. Head(s.jobs) = s.jobs[1] /\ 1 \in DOMAIN s.jobs
        BY <1>1, QueueTail
      <4>2. s'.jobs # <<>>
        BY <1>1, <1>2, <4>1, EmptySeq
      <4>3. Head(s'.jobs) = s'.jobs[1]
        BY <4>2, QueueTail
      <4> QED BY <4>1, <4>2, <4>3
    <3>2. s.jobs = <<>> /\ s'.jobs # <<>> => ~Head(s'.jobs).begun
      <4> SUFFICES ASSUME s.jobs = <<>>, s'.jobs # <<>> PROVE ~Head(s'.jobs).begun
        OBVIOUS
      <4>1. Head(s'.jobs) = s'.jobs[1] /\ 1 \in DOMAIN s'.jobs
        BY <1>2, QueueTail
      <4>2. 1 \notin DOMAIN s.jobs
        BY <1>1, EmptySeq
      <4> QED BY <4>1, <4>2
    <3>3. Rescans'
      BY <2>1, <3>1, <3>2 DEF Rescans, Job1
    <3> QED BY <3>3 DEF ChainInv
  <2>2. CASE ~Rescans
    <3>1. \A m \in Unseen :
            /\ \E i \in DOMAIN s.jobs : m \in s.jobs[i].ops
            /\ \A i \in DOMAIN s.jobs : \A n \in s.jobs[i].ops :
                  m < n => \E j \in 1 .. i : m \in s.jobs[j].ops
      BY <2>2 DEF SessionInv, ChainInv
    <3>2. ASSUME NEW m \in Unseen'
          PROVE  \E i \in DOMAIN s'.jobs : m \in s'.jobs[i].ops
      BY <1>1, <1>2, <1>3, <3>1, <3>2
    <3>3. ASSUME NEW m \in Unseen', NEW i \in DOMAIN s'.jobs, NEW n \in s'.jobs[i].ops, m < n
          PROVE  \E j \in 1 .. i : m \in s'.jobs[j].ops
      <4>1. m \in have
        <5>1. n \in have' \cap Own /\ m \in have' \cap Own /\ m \in Nat /\ n \in Nat
          BY <1>1, <1>3, <1>4, <3>3
        <5> QED BY <3>3, <5>1
      <4>2. m \in Unseen
        BY <1>1, <1>3, <3>3, <4>1
      <4>3. CASE i \in DOMAIN s.jobs
        <5>1. PICK j \in 1 .. i : m \in s.jobs[j].ops
          BY <3>1, <3>3, <4>2, <4>3
        <5> QED BY <1>1, <4>3, <5>1
      <4>4. CASE i \notin DOMAIN s.jobs
        <5>1. PICK j \in DOMAIN s.jobs : m \in s.jobs[j].ops
          BY <3>1, <4>2
        <5> QED BY <1>1, <1>2, <4>4, <5>1
      <4> QED BY <4>3, <4>4
    <3> QED BY <3>2, <3>3 DEF ChainInv
  <2> QED BY <2>1, <2>2
<1>7. ConfirmedIsSaved'
  <2> SUFFICES ASSUME s'.confirmed, NEW n \in have' \cap Own
               PROVE  at'[n] > 0 \/ \E i \in DOMAIN s'.jobs : n \in s'.jobs[i].ops
    BY <1>3 DEF ConfirmedIsSaved
  <2>1. CASE n \in have
    <3>1. at[n] > 0 \/ \E i \in DOMAIN s.jobs : n \in s.jobs[i].ops
      BY <2>1 DEF SessionInv, ConfirmedIsSaved
    <3> QED BY <1>2, <3>1, OpsFacts DEF StoreStep
  <2>2. CASE n \notin have
    BY <2>2
  <2> QED BY <2>1, <2>2
<1> QED BY <1>5, <1>6, <1>7

\* A job that carries nothing leaves the chain.
LEMMA HeadGone ==
    ASSUME SessionInv, StoreStep, have' \cap Own = have \cap Own, have \subseteq have', seen' = seen,
           s.jobs # <<>>, Head(s.jobs).ops = {}, s'.jobs = Tail(s.jobs),
           \/ s'.broken = s.broken /\ Head(s.jobs).k # "recover"
           \/ Unseen = {}
    PROVE  /\ JobInv' /\ ChainInv'
           /\ (s'.confirmed => s.confirmed) => ConfirmedIsSaved'
<1>1. /\ Len(s.jobs) \in Nat /\ DOMAIN s.jobs = 1 .. Len(s.jobs) /\ s.jobs \in Seq(JobSet)
      /\ \A i \in DOMAIN s.jobs : s.jobs[i].ops \subseteq Own \cap have
      /\ Unseen = {n \in Own \cap have : n > seen}
  BY JobFacts
<1>2. /\ Head(s.jobs) = s.jobs[1] /\ DOMAIN s'.jobs = 1 .. Len(s.jobs) - 1
      /\ s'.jobs \in Seq(JobSet) /\ Len(s.jobs) > 0
      /\ \A i \in 1 .. Len(s.jobs) - 1 : s'.jobs[i] = s.jobs[i + 1]
  BY <1>1, QueueTail
<1>3. Own' = Own /\ Unseen' = Unseen
  BY <1>1 DEF Own, Unseen
<1>4. s.jobs[1].ops = {} /\ 1 \in DOMAIN s.jobs
      /\ \A i \in DOMAIN s'.jobs : i + 1 \in DOMAIN s.jobs /\ i + 1 # 1 /\ ~s'.jobs[i].begun
  BY <1>1, <1>2 DEF SessionInv, JobInv
<1>5. JobInv'
  BY <1>1, <1>2, <1>4 DEF JobInv, SessionInv
<1>6. ChainInv'
  <2>1. CASE Unseen = {}
    BY <1>3, <2>1 DEF ChainInv
  <2>2. CASE Unseen # {} /\ Rescans
    <3>1. s.broken /\ s'.broken
      BY <2>2 DEF Rescans, Job1
    <3>2. s'.jobs # <<>> => ~Head(s'.jobs).begun
      <4> SUFFICES ASSUME s'.jobs # <<>> PROVE ~Head(s'.jobs).begun
        OBVIOUS
      <4>1. Head(s'.jobs) = s'.jobs[1] /\ 1 \in DOMAIN s'.jobs
        BY <1>2, QueueTail
      <4> QED BY <1>4, <4>1
    <3> QED BY <3>1, <3>2 DEF ChainInv, Rescans
  <2>3. CASE Unseen # {} /\ ~Rescans
    <3>1. \A m \in Unseen :
            /\ \E i \in DOMAIN s.jobs : m \in s.jobs[i].ops
            /\ \A i \in DOMAIN s.jobs : \A n \in s.jobs[i].ops :
                  m < n => \E j \in 1 .. i : m \in s.jobs[j].ops
      BY <2>3 DEF SessionInv, ChainInv
    <3>2. ASSUME NEW m \in Unseen
          PROVE  \E i \in DOMAIN s'.jobs : m \in s'.jobs[i].ops
      <4>1. PICK i \in DOMAIN s.jobs : m \in s.jobs[i].ops
        BY <3>1
      <4>2. i # 1 /\ i - 1 \in 1 .. Len(s.jobs) - 1 /\ i = (i - 1) + 1
        BY <1>1, <1>4, <4>1
      <4> QED BY <1>2, <4>1, <4>2
    <3>3. ASSUME NEW m \in Unseen, NEW i \in DOMAIN s'.jobs, NEW n \in s'.jobs[i].ops, m < n
          PROVE  \E j \in 1 .. i : m \in s'.jobs[j].ops
      <4>1. i + 1 \in DOMAIN s.jobs /\ n \in s.jobs[i + 1].ops
        BY <1>2, <1>4, <3>3
      <4>2. PICK j \in 1 .. i + 1 : m \in s.jobs[j].ops
        BY <3>1, <3>3, <4>1
      <4>3. i \in Nat /\ i <= Len(s.jobs) - 1
        BY <1>1, <1>2, <3>3
      <4>4. j # 1 /\ j - 1 \in 1 .. i /\ j - 1 \in 1 .. Len(s.jobs) - 1 /\ j = (j - 1) + 1
        BY <1>1, <1>4, <4>2, <4>3
      <4> QED BY <1>2, <4>2, <4>4
    <3> QED BY <1>3, <3>2, <3>3 DEF ChainInv
  <2> QED BY <2>1, <2>2, <2>3
<1>7. ASSUME s'.confirmed => s.confirmed PROVE ConfirmedIsSaved'
  <2> SUFFICES ASSUME s'.confirmed, NEW n \in have \cap Own
               PROVE  at'[n] > 0 \/ \E i \in DOMAIN s'.jobs : n \in s'.jobs[i].ops
    BY <1>3 DEF ConfirmedIsSaved
  <2>1. at[n] > 0 \/ \E i \in DOMAIN s.jobs : n \in s.jobs[i].ops
    BY <1>7 DEF SessionInv, ConfirmedIsSaved
  <2>2. CASE at[n] > 0
    BY <2>2, OpsFacts DEF StoreStep
  <2>3. ASSUME NEW i \in DOMAIN s.jobs, n \in s.jobs[i].ops
        PROVE  \E j \in DOMAIN s'.jobs : n \in s'.jobs[j].ops
    <3>1. i # 1 /\ i - 1 \in 1 .. Len(s.jobs) - 1 /\ i = (i - 1) + 1
      BY <1>1, <1>4, <2>3
    <3> QED BY <1>2, <2>3, <3>1
  <2> QED BY <2>1, <2>2, <2>3
<1> QED BY <1>5, <1>6, <1>7

\* Rows change their state as they may.
LEMMA RowsKept ==
    ASSUME SessionInv, UNCHANGED <<at, have, dcur, seen>>,
           row' \in [Own -> {"none", "pending", "sent", "acked"}],
           \A n \in Own :
               /\ row'[n] # "none" => row[n] # "none"
               /\ row'[n] = "acked" => at[n] > 0
               /\ row'[n] = "none" /\ row[n] # "none" => at[n] \in 1 .. dcur
               /\ row[n] \in {"pending", "sent"} => row'[n] \in {"pending", "sent"} \/ at[n] > 0
    PROVE  LogInv' /\ EditsAreKept'
<1>1. Own' = Own
  BY DEF Own
<1>2. LogInv'
  BY <1>1 DEF LogInv, SessionInv
<1>3. NothingLost' /\ AckedIsDurable'
  BY <1>1 DEF SessionInv, EditsAreKept, NothingLost, AckedIsDurable, Unacked
<1>4. ClearedIsCovered'
  BY <1>1 DEF SessionInv, EditsAreKept, ClearedIsCovered
<1> QED BY <1>2, <1>3, <1>4 DEF EditsAreKept

\* The worker logs the next local edit; its number is above all it has seen.
LEMMA LocalInv ==
    ASSUME SessionInv, LocalOp
    PROVE  SessionInv'
<1>1. UNCHANGED <<c2s, s2c, gw, at, floor, dcur, covered, row, seen>>
  BY DEF LocalOp, wire, store, outbox
<1>2. PICK n \in Own :
        /\ n \notin have /\ \A m \in 1 .. n - 1 : m \in have
        /\ have' = have \union {n}
        /\ s' = [s EXCEPT !.jobs = Append(@, Job("local", {n}))]
  BY DEF LocalOp
<1>3. /\ s \in SessionSet /\ s.jobs \in Seq(JobSet) /\ seen \in Nat /\ n \in Nat \ {0}
      /\ \A m \in Own : m \in Nat \ {0}
  BY JobFacts
<1>4. /\ have \subseteq Ops /\ dcur \in Nat /\ covered \subseteq Own /\ at \in [Ops -> Nat]
      /\ row \in [Own -> {"none", "pending", "sent", "acked"}]
      /\ floor \in Nat /\ gw \in ConnSet
      /\ \A m \in covered : at[m] \in 1 .. dcur
  BY DEF SessionInv, TypeOK, WireInv
<1>5. Own' = Own /\ Own \subseteq Ops
  BY OpsFacts DEF Own
<1>6. at[n] = 0 /\ row[n] = "none" /\ n > seen
  <2>1. ~(at[n] > 0) /\ row[n] = "none"
    BY <1>2 DEF SessionInv, LogInv
  <2>2. ~(n <= seen)
    <3>1. row[n] = "none" /\ n <= seen => at[n] \in 1 .. dcur
      BY DEF SessionInv, EditsAreKept, ClearedIsCovered
    <3> QED BY <1>4, <1>5, <2>1, <3>1
  <2> QED BY <1>3, <1>4, <1>5, <2>1, <2>2
<1>7. \A m \in have \cap Own : m < n
  <2> SUFFICES ASSUME NEW m \in have \cap Own, ~(m < n) PROVE FALSE
    OBVIOUS
  <2>1. m # n /\ n \in 1 .. m - 1
    BY <1>2, <1>3
  <2> QED BY <1>2, <2>1 DEF SessionInv, LogInv
<1>8. Job("local", {n}) \in JobSet
  BY DEF Job, JobSet
<1> DEFINE j == Job("local", {n})
<1>9. /\ s'.jobs = Append(s.jobs, j) /\ s'.inbound = s.inbound /\ s'.flushes = s.flushes
      /\ s'.acks = s.acks /\ s'.broken = s.broken /\ s'.confirmed = s.confirmed
  BY <1>2, <1>3 DEF SessionSet
<1>10. j.ops = {n} /\ j.k = "local" /\ ~j.begun
  BY DEF Job
<1> HIDE DEF j
<1>11. /\ s'.jobs \in Seq(JobSet) /\ DOMAIN s.jobs = 1 .. Len(s.jobs)
       /\ DOMAIN s'.jobs = 1 .. Len(s.jobs) + 1 /\ Len(s'.jobs) = Len(s.jobs) + 1
       /\ Len(s.jobs) \in Nat
       /\ \A i \in 1 .. Len(s.jobs) : s'.jobs[i] = s.jobs[i]
       /\ s'.jobs[Len(s.jobs) + 1] = j
  BY <1>3, <1>8, <1>9, QueueAppend DEF j
<1>12. s' \in SessionSet
  BY <1>2, <1>3, <1>9, <1>11 DEF SessionSet
<1>13. StoreStep
  BY <1>1, IdleStore
<1>14. WorkerStep
  BY <1>1, <1>2, <1>4, <1>5 DEF WorkerStep
<1>15. WireStep
  BY <1>1, <1>9, <1>13, <1>14, SetsGrow DEF WireStep, WorkerStep
<1>16. JobInv' /\ ChainInv' /\ ConfirmedIsSaved'
  <2>1. \A i \in DOMAIN s'.jobs : i \notin DOMAIN s.jobs => i = Len(s.jobs) + 1
    BY <1>11
  <2>2. \A i \in DOMAIN s'.jobs : i \notin DOMAIN s.jobs =>
               /\ ~s'.jobs[i].begun /\ s'.jobs[i].ops \subseteq have'
               /\ s'.jobs[i].k # "local" => s'.jobs[i].ops = {}
    BY <1>2, <1>10, <1>11, <2>1
  <2>3. \A m \in (have' \cap Own) \ have :
               /\ \E i \in DOMAIN s'.jobs : m \in s'.jobs[i].ops
               /\ \A o \in have' \cap Own : o <= m
    BY <1>2, <1>3, <1>7, <1>10, <1>11
  <2>4. have \subseteq have' /\ seen' = seen /\ Len(s'.jobs) >= Len(s.jobs)
        /\ s'.jobs \in Seq(JobSet) /\ s'.broken = s.broken /\ (s'.confirmed => s.confirmed)
    BY <1>1, <1>2, <1>9, <1>11
  <2>5. \A i \in DOMAIN s.jobs : s'.jobs[i] = s.jobs[i]
    BY <1>11
  <2> QED BY <1>13, <2>2, <2>3, <2>4, <2>5, JobsGrow
<1>17. LogInv'
  <2>1. \A m \in Own : at'[m] > 0 \/ row'[m] # "none" => m \in have'
    BY <1>1, <1>2 DEF SessionInv, LogInv
  <2>2. \A m \in have' \cap Own : \A o \in 1 .. m - 1 : o \in have'
    BY <1>2 DEF SessionInv, LogInv
  <2> QED BY <1>5, <2>1, <2>2 DEF LogInv
<1>18. EditsAreKept'
  <2>1. NothingLost'
    BY <1>1, <1>2, <1>5, <1>6 DEF SessionInv, EditsAreKept, NothingLost, Unacked
  <2>2. AckedIsDurable' /\ ClearedIsCovered'
    BY <1>1, <1>5 DEF SessionInv, EditsAreKept, AckedIsDurable, ClearedIsCovered
  <2> QED BY <2>1, <2>2 DEF EditsAreKept
<1> QED BY <1>1, <1>3, <1>4, <1>12, <1>13, <1>14, <1>15, <1>16, <1>17, <1>18, ChainStep

\* A job begins: a recovery reads the log above lastSeenCounter again.
LEMMA StartInv ==
    ASSUME SessionInv, StartJob
    PROVE  SessionInv'
<1> DEFINE job == Head(s.jobs)
           ops == Scanned(job)
<1>1. UNCHANGED <<c2s, s2c, gw, store, worker, outbox>>
      /\ UNCHANGED <<at, floor, have, dcur, covered, row, seen>>
  BY DEF StartJob, wire, store, worker, outbox
<1>2. s.jobs # <<>> /\ job.k \in {"recover", "local"} /\ ~job.begun
  BY DEF StartJob
<1>3. /\ s \in SessionSet /\ s.jobs \in Seq(JobSet) /\ Len(s.jobs) \in Nat
      /\ DOMAIN s.jobs = 1 .. Len(s.jobs)
      /\ \A i \in DOMAIN s.jobs : s.jobs[i] \in JobSet /\ s.jobs[i].ops \subseteq Own \cap have
      /\ Unseen = {n \in Own \cap have : n > seen} /\ seen \in Nat
      /\ row \in [Own -> {"none", "pending", "sent", "acked"}] /\ floor \in Nat /\ gw \in ConnSet
  BY JobFacts DEF SessionInv, TypeOK
<1>4. job = s.jobs[1] /\ 1 \in DOMAIN s.jobs /\ job \in JobSet /\ Tail(s.jobs) \in Seq(JobSet)
  BY <1>2, <1>3, QueueTail
<1>5. ops \subseteq Own \cap have
  BY <1>3, <1>4 DEF Scanned
<1>6. StoreStep /\ WorkerStep
  BY <1>1, IdleStore, IdleWorker
<1>7. LogInv' /\ EditsAreKept'
  BY <1>1, <1>6, EditsIdle
<1>8. ASSUME s' \in SessionSet, s'.inbound = s.inbound, s'.flushes = s.flushes, s'.acks = s.acks,
             JobInv', ChainInv', ConfirmedIsSaved'
      PROVE  SessionInv'
  <2>1. WireStep
    BY <1>1, <1>6, <1>8, SetsGrow DEF WireStep
  <2> QED BY <1>1, <1>3, <1>6, <1>7, <1>8, <2>1, ChainStep
<1>9. CASE ops = {}
  <2>1. s' = [s EXCEPT !.jobs = Rest, !.broken = FALSE]
    BY <1>9 DEF StartJob
  <2>2. s' \in SessionSet /\ s'.inbound = s.inbound /\ s'.flushes = s.flushes
        /\ s'.acks = s.acks /\ s'.jobs = Tail(s.jobs) /\ s'.confirmed = s.confirmed
        /\ s'.broken = FALSE
    BY <1>3, <1>4, <2>1 DEF SessionSet, Rest
  <2>3. job.ops = {}
    <3>1. job.k # "local" /\ ~job.begun => job.ops = {}
      BY <1>4 DEF SessionInv, JobInv
    <3> QED BY <1>2, <1>9, <3>1 DEF Scanned
  <2>4. (s'.broken = s.broken /\ job.k # "recover") \/ Unseen = {}
    BY <1>3, <1>9, <2>2 DEF Scanned, SessionSet
  <2>5. JobInv' /\ ChainInv' /\ ConfirmedIsSaved'
    BY <1>1, <1>2, <1>6, <2>2, <2>3, <2>4, HeadGone
  <2> QED BY <1>8, <2>2, <2>5
<1>10. CASE ops # {}
  <2> DEFINE j == [job EXCEPT !.ops = ops, !.begun = TRUE]
             q == <<j>> \o Tail(s.jobs)
  <2>1. s' = [s EXCEPT !.jobs = q, !.confirmed = FALSE]
    BY <1>10 DEF StartJob, Rest
  <2>2. j \in JobSet /\ j.ops = ops /\ j.begun /\ j.k = job.k
    BY <1>4, <1>5 DEF JobSet
  <2> HIDE DEF j
  <2>3. /\ q \in Seq(JobSet) /\ DOMAIN q = DOMAIN s.jobs /\ Head(q) = j /\ q[1] = j
        /\ \A i \in DOMAIN s.jobs : i # 1 => q[i] = s.jobs[i]
    BY <1>2, <1>3, <2>2, QueueHead
  <2> HIDE DEF q
  <2>4. s' \in SessionSet /\ s'.jobs = q
    BY <1>3, <2>1, <2>3 DEF SessionSet
  <2>5. s'.inbound = s.inbound /\ s'.flushes = s.flushes /\ s'.acks = s.acks
        /\ s'.broken = s.broken /\ ~s'.confirmed
    BY <1>3, <2>1 DEF SessionSet
  <2>6. JobInv'
    <3> SUFFICES ASSUME NEW i \in DOMAIN q
                 PROVE  /\ q[i].ops \subseteq have
                        /\ q[i].k # "local" /\ ~q[i].begun => q[i].ops = {}
                        /\ q[i].begun => i = 1 /\ q[i].k \in {"recover", "local"} /\ q[i].ops # {}
      BY <1>1, <2>4, <2>5 DEF JobInv
    <3>1. CASE i = 1
      BY <1>2, <1>5, <1>10, <2>2, <2>3, <3>1
    <3>2. CASE i # 1
      BY <2>3, <3>2 DEF SessionInv, JobInv
    <3> QED BY <3>1, <3>2
  <2>7. Unseen' = Unseen
    BY <1>1, <1>3 DEF Unseen, Own
  <2>8. ASSUME NEW m \in Unseen
        PROVE  /\ \E i \in DOMAIN q : m \in q[i].ops
               /\ \A i \in DOMAIN q : \A n \in q[i].ops :
                     m < n => \E k \in 1 .. i : m \in q[k].ops
    <3>1. CASE m \in ops
      <4>1. m \in q[1].ops /\ 1 \in DOMAIN q
        BY <1>4, <2>2, <2>3, <3>1
      <4>2. \A i \in DOMAIN q : 1 \in 1 .. i
        BY <1>3, <2>3
      <4> QED BY <4>1, <4>2
    <3>2. CASE m \notin ops
      <4>1. job.k = "local" /\ ~s.broken /\ ops = job.ops
        BY <1>2, <2>8, <3>2 DEF Scanned
      <4>2. ~Rescans
        BY <4>1 DEF Rescans, Job1
      <4>3. /\ \E i \in DOMAIN s.jobs : m \in s.jobs[i].ops
            /\ \A i \in DOMAIN s.jobs : \A n \in s.jobs[i].ops :
                  m < n => \E k \in 1 .. i : m \in s.jobs[k].ops
        BY <2>8, <4>2 DEF SessionInv, ChainInv
      <4>4. \A i \in DOMAIN s.jobs : q[i].ops = s.jobs[i].ops
        BY <1>4, <2>2, <2>3, <4>1
      <4>5. \A i \in DOMAIN q : \A k \in 1 .. i : k \in DOMAIN q
        BY <1>3, <2>3
      <4> QED BY <2>3, <4>3, <4>4, <4>5
    <3> QED BY <3>1, <3>2
  <2>9. ChainInv'
    BY <2>4, <2>7, <2>8 DEF ChainInv
  <2>10. ConfirmedIsSaved'
    BY <2>5 DEF ConfirmedIsSaved
  <2> QED BY <1>8, <2>4, <2>5, <2>6, <2>9, <2>10
<1> QED BY <1>9, <1>10

\* The next operation of the first job gets its row, together with
\* lastSeenCounter; the operations before it have theirs.
LEMMA AddInv ==
    ASSUME SessionInv, AddPending
    PROVE  SessionInv'
<1> DEFINE job == Head(s.jobs)
           n == Min(job.ops)
           ops == job.ops \ {n}
<1>1. UNCHANGED <<c2s, s2c, gw, store, worker>>
      /\ UNCHANGED <<at, floor, have, dcur, covered>>
  BY DEF AddPending, wire, store, worker
<1>2. /\ s.jobs # <<>> /\ job.begun
      /\ row' = [row EXCEPT ![n] = IF @ = "none" THEN "pending" ELSE @]
      /\ seen' = Max({seen, n})
      /\ s' = IF ops = {} THEN Leave(FALSE)
              ELSE [s EXCEPT !.jobs = <<[job EXCEPT !.ops = ops]>> \o Rest]
  BY DEF AddPending
<1>3. /\ s \in SessionSet /\ s.jobs \in Seq(JobSet) /\ Len(s.jobs) \in Nat
      /\ DOMAIN s.jobs = 1 .. Len(s.jobs)
      /\ \A i \in DOMAIN s.jobs : s.jobs[i] \in JobSet /\ s.jobs[i].ops \subseteq Own \cap have
      /\ \A m \in Own : m \in Nat \ {0}
      /\ Unseen = {m \in Own \cap have : m > seen} /\ seen \in Nat
      /\ row \in [Own -> {"none", "pending", "sent", "acked"}] /\ floor \in Nat /\ gw \in ConnSet
      /\ at \in [Ops -> Nat]
  BY JobFacts DEF SessionInv, TypeOK
<1>4. /\ job = s.jobs[1] /\ 1 \in DOMAIN s.jobs /\ job \in JobSet /\ Tail(s.jobs) \in Seq(JobSet)
      /\ DOMAIN Tail(s.jobs) = 1 .. Len(s.jobs) - 1
      /\ \A i \in 1 .. Len(s.jobs) - 1 : Tail(s.jobs)[i] = s.jobs[i + 1]
  BY <1>2, <1>3, QueueTail
<1>5. job.ops \subseteq Own \cap have /\ job.ops # {} /\ ~s.confirmed
      /\ \A i \in DOMAIN s.jobs : i # 1 => ~s.jobs[i].begun
  BY <1>2, <1>3, <1>4 DEF SessionInv, JobInv
<1>6. n \in job.ops /\ \A m \in job.ops : n <= m
  <2>1. job.ops \subseteq Nat
    BY <1>3, <1>5
  <2> QED BY <1>5, <2>1, MinFacts
<1>7. /\ ~Rescans
      /\ \A m \in Unseen :
            /\ \E i \in DOMAIN s.jobs : m \in s.jobs[i].ops
            /\ \A i \in DOMAIN s.jobs : \A p \in s.jobs[i].ops :
                  m < p => \E j \in 1 .. i : m \in s.jobs[j].ops
  BY <1>2 DEF SessionInv, ChainInv, Rescans
<1> HIDE DEF job, n, ops
<1>8. n \in Own \cap have /\ n \in Nat \ {0} /\ ops = job.ops \ {n}
  BY <1>3, <1>5, <1>6 DEF ops
\* Nothing that the scan must still find comes before n.
<1>9. \A m \in Unseen : n <= m
  <2> SUFFICES ASSUME NEW m \in Unseen, ~(n <= m) PROVE FALSE
    OBVIOUS
  <2>1. m < n
    BY <1>3, <1>8
  <2>2. \E j \in 1 .. 1 : m \in s.jobs[j].ops
    BY <1>4, <1>6, <1>7, <2>1
  <2>3. m \in job.ops
    BY <1>4, <2>2
  <2> QED BY <1>6, <2>3
<1>10. seen' \in Nat /\ seen' >= seen /\ seen' >= n /\ seen' \in {seen, n}
  BY <1>2, <1>3, <1>8, MaxPair
<1>11. StoreStep /\ WorkerStep
  BY <1>1, IdleStore, IdleWorker
<1>12. /\ row' \in [Own -> {"none", "pending", "sent", "acked"}]
       /\ \A m \in Own : m # n => row'[m] = row[m]
       /\ row[n] = "none" => row'[n] = "pending"
       /\ row[n] # "none" => row'[n] = row[n]
  BY <1>2, <1>3, <1>8
<1>13. Own' = Own /\ Own \subseteq Ops
  BY OpsFacts DEF Own
<1>14. LogInv'
  BY <1>1, <1>8, <1>12, <1>13 DEF SessionInv, LogInv
<1>15. NothingLost'
  <2> SUFFICES ASSUME NEW m \in have \cap Own
               PROVE  at[m] > 0 \/ row'[m] \in {"pending", "sent"} \/ m > seen'
    BY <1>1, <1>13 DEF NothingLost, Unacked
  <2>1. at[m] > 0 \/ row[m] \in {"pending", "sent"} \/ m > seen
    BY DEF SessionInv, EditsAreKept, NothingLost, Unacked
  <2>2. row[m] \in {"pending", "sent"} => row'[m] \in {"pending", "sent"}
    BY <1>12
  <2>3. CASE m > seen /\ ~(m > seen')
    <3>1. m \in Unseen
      BY <1>3, <2>3
    <3>2. n <= m /\ m \in Nat
      BY <1>3, <1>9, <3>1
    <3>3. m = n
      BY <1>3, <1>8, <1>10, <2>3, <3>2
    <3>4. row[n] = "acked" => at[n] > 0
      BY <1>8 DEF SessionInv, EditsAreKept, AckedIsDurable
    <3> QED BY <1>3, <1>8, <1>12, <3>3, <3>4
  <2> QED BY <2>1, <2>2, <2>3
<1>16. AckedIsDurable'
  BY <1>1, <1>12, <1>13 DEF SessionInv, EditsAreKept, AckedIsDurable
<1>17. ClearedIsCovered'
  <2> SUFFICES ASSUME NEW m \in Own, row'[m] = "none", m <= seen' PROVE at[m] \in 1 .. dcur
    BY <1>1, <1>13 DEF ClearedIsCovered
  <2>1. m # n /\ row[m] = "none"
    BY <1>12
  <2>2. m <= seen
    <3> SUFFICES ASSUME ~(m <= seen) PROVE FALSE
      OBVIOUS
    <3>1. m \in Nat \ {0} /\ m < n
      BY <1>3, <1>8, <1>10, <2>1
    <3>2. m \in have
      <4>1. m \in 1 .. n - 1
        BY <1>8, <3>1
      <4> QED BY <1>8, <4>1 DEF SessionInv, LogInv
    <3>3. m \in Unseen
      BY <1>3, <3>1, <3>2
    <3> QED BY <1>8, <1>9, <3>1, <3>3
  <2> QED BY <2>1, <2>2 DEF SessionInv, EditsAreKept, ClearedIsCovered
<1>18. EditsAreKept'
  BY <1>15, <1>16, <1>17 DEF EditsAreKept
<1>19. \A m \in Unseen' : m \in Unseen /\ m # n
  BY <1>1, <1>3, <1>8, <1>10, <1>13 DEF Unseen
<1>20. ASSUME s' \in SessionSet, s'.inbound = s.inbound, s'.flushes = s.flushes, s'.acks = s.acks,
              JobInv', ChainInv', ~s'.confirmed
       PROVE  SessionInv'
  <2>1. WireStep
    BY <1>1, <1>11, <1>20, SetsGrow DEF WireStep
  <2>2. ConfirmedIsSaved'
    BY <1>20 DEF ConfirmedIsSaved
  <2> QED BY <1>1, <1>3, <1>10, <1>11, <1>12, <1>14, <1>18, <1>20, <2>1, <2>2, ChainStep
<1>21. CASE ops = {}
  <2>1. s' = Leave(FALSE)
    BY <1>2, <1>21 DEF ops, n, job
  <2>2. s' \in SessionSet /\ s'.inbound = s.inbound /\ s'.flushes = s.flushes
        /\ s'.acks = s.acks /\ s'.jobs = Tail(s.jobs) /\ ~s'.confirmed
    <3> DEFINE go == s.go \/ (~FALSE /\ net.status = "ready")
    <3>1. go \in BOOLEAN
      OBVIOUS
    <3>2. s' = [s EXCEPT !.jobs = Tail(s.jobs), !.broken = FALSE, !.confirmed = FALSE, !.go = go]
      BY <2>1 DEF Leave, Rest
    <3> HIDE DEF go
    <3> QED BY <1>3, <1>4, <3>1, <3>2 DEF SessionSet
  <2>3. /\ DOMAIN s'.jobs = 1 .. Len(s.jobs) - 1
        /\ \A i \in 1 .. Len(s.jobs) - 1 : s'.jobs[i] = s.jobs[i + 1]
    BY <1>4, <2>2
  <2>4. \A i \in DOMAIN s'.jobs : i + 1 \in DOMAIN s.jobs /\ i + 1 # 1 /\ ~s'.jobs[i].begun
    BY SMTT(30), <1>3, <1>5, <2>3
  <2>5. JobInv'
    BY <1>1, <2>3, <2>4 DEF JobInv, SessionInv
  <2>6. ASSUME NEW m \in Unseen'
        PROVE  \E i \in DOMAIN s'.jobs : m \in s'.jobs[i].ops
    <3>1. PICK i \in DOMAIN s.jobs : m \in s.jobs[i].ops
      BY <1>7, <1>19
    <3>2. m \notin s.jobs[1].ops
      BY <1>4, <1>8, <1>19, <1>21
    <3>3. i # 1 /\ i - 1 \in 1 .. Len(s.jobs) - 1 /\ i = (i - 1) + 1
      BY <1>3, <3>1, <3>2
    <3> QED BY <2>3, <3>1, <3>3
  <2>7. ASSUME NEW m \in Unseen', NEW i \in DOMAIN s'.jobs, NEW p \in s'.jobs[i].ops, m < p
        PROVE  \E j \in 1 .. i : m \in s'.jobs[j].ops
    <3>1. i + 1 \in DOMAIN s.jobs /\ p \in s.jobs[i + 1].ops
      BY <2>3, <2>4, <2>7
    <3>2. PICK j \in 1 .. i + 1 : m \in s.jobs[j].ops
      BY <1>7, <1>19, <2>7, <3>1
    <3>3. m \notin s.jobs[1].ops
      BY <1>4, <1>8, <1>19, <1>21
    <3>4. i \in Nat /\ i <= Len(s.jobs) - 1
      BY <1>3, <2>3, <2>7
    <3>5. j # 1 /\ j - 1 \in 1 .. i /\ j - 1 \in 1 .. Len(s.jobs) - 1 /\ j = (j - 1) + 1
      BY <1>3, <3>2, <3>3, <3>4
    <3> QED BY <2>3, <3>2, <3>5
  <2>8. ChainInv'
    BY <2>6, <2>7 DEF ChainInv
  <2> QED BY <1>20, <2>2, <2>5, <2>8
<1>22. CASE ops # {}
  <2> DEFINE j == [job EXCEPT !.ops = ops]
             q == <<j>> \o Tail(s.jobs)
  <2>1. s' = [s EXCEPT !.jobs = q]
    BY <1>2, <1>22 DEF Rest, ops, n, job
  <2>2. j \in JobSet /\ j.ops = ops /\ j.begun /\ j.k = job.k
    BY <1>2, <1>4, <1>5, <1>8 DEF JobSet
  <2> HIDE DEF j
  <2>3. /\ q \in Seq(JobSet) /\ DOMAIN q = DOMAIN s.jobs /\ q[1] = j
        /\ \A i \in DOMAIN s.jobs : i # 1 => q[i] = s.jobs[i]
    BY <1>2, <1>3, <2>2, QueueHead
  <2> HIDE DEF q
  <2>4. s' \in SessionSet /\ s'.jobs = q
    BY <1>3, <2>1, <2>3 DEF SessionSet
  <2>5. s'.inbound = s.inbound /\ s'.flushes = s.flushes /\ s'.acks = s.acks /\ ~s'.confirmed
    BY <1>3, <1>5, <2>1 DEF SessionSet
  <2>6. JobInv'
    <3> SUFFICES ASSUME NEW i \in DOMAIN q
                 PROVE  /\ q[i].ops \subseteq have
                        /\ q[i].k # "local" /\ ~q[i].begun => q[i].ops = {}
                        /\ q[i].begun => i = 1 /\ q[i].k \in {"recover", "local"} /\ q[i].ops # {}
      BY <1>1, <2>4, <2>5 DEF JobInv
    <3>1. CASE i = 1
      <4>1. job.k \in {"recover", "local"}
        BY <1>2, <1>4 DEF SessionInv, JobInv
      <4> QED BY <1>5, <1>8, <1>22, <2>2, <2>3, <3>1, <4>1
    <3>2. CASE i # 1
      BY <2>3, <3>2 DEF SessionInv, JobInv
    <3> QED BY <3>1, <3>2
  <2>7. \A i \in DOMAIN q : q[i].ops \subseteq s.jobs[i].ops
    BY <1>4, <1>8, <2>2, <2>3
  <2>8. \A m \in Unseen' : \A i \in DOMAIN s.jobs : m \in s.jobs[i].ops => m \in q[i].ops
    BY <1>4, <1>8, <1>19, <2>2, <2>3
  <2>9. ASSUME NEW m \in Unseen'
        PROVE  /\ \E i \in DOMAIN q : m \in q[i].ops
               /\ \A i \in DOMAIN q : \A p \in q[i].ops :
                     m < p => \E k \in 1 .. i : m \in q[k].ops
    <3>1. \A i \in DOMAIN q : \A k \in 1 .. i : k \in DOMAIN q
      BY <1>3, <2>3
    <3> QED BY <1>7, <1>19, <2>3, <2>7, <2>8, <3>1
  <2>10. ChainInv'
    BY <2>4, <2>9 DEF ChainInv
  <2> QED BY <1>20, <2>4, <2>5, <2>6, <2>10
<1> QED BY <1>21, <1>22

\* A job that fails breaks the chain: the next one scans the log again.
LEMMA AddFailsInv ==
    ASSUME SessionInv, AddPendingFails
    PROVE  SessionInv'
<1>1. UNCHANGED <<c2s, s2c, gw, store, worker, outbox>>
      /\ UNCHANGED <<at, floor, have, dcur, covered, row, seen>>
      /\ s.jobs # <<>> /\ s' = Leave(TRUE)
  BY DEF AddPendingFails, wire, store, worker, outbox
<1>2. /\ s \in SessionSet /\ s.jobs \in Seq(JobSet) /\ Len(s.jobs) \in Nat
      /\ DOMAIN s.jobs = 1 .. Len(s.jobs) /\ seen \in Nat
      /\ row \in [Own -> {"none", "pending", "sent", "acked"}] /\ floor \in Nat /\ gw \in ConnSet
  BY JobFacts DEF SessionInv, TypeOK
<1>3. /\ Tail(s.jobs) \in Seq(JobSet) /\ DOMAIN Tail(s.jobs) = 1 .. Len(s.jobs) - 1
      /\ \A i \in 1 .. Len(s.jobs) - 1 : Tail(s.jobs)[i] = s.jobs[i + 1]
  BY <1>1, <1>2, QueueTail
<1>4. s' \in SessionSet /\ s'.inbound = s.inbound /\ s'.flushes = s.flushes
      /\ s'.acks = s.acks /\ s'.jobs = Tail(s.jobs) /\ ~s'.confirmed /\ s'.broken
  BY <1>1, <1>2, <1>3 DEF SessionSet, Leave, Rest
<1>5. StoreStep /\ WorkerStep
  BY <1>1, IdleStore, IdleWorker
<1>6. WireStep
  BY <1>1, <1>4, <1>5, SetsGrow DEF WireStep
<1>7. LogInv' /\ EditsAreKept'
  BY <1>1, <1>5, EditsIdle
<1>8. \A i \in DOMAIN s'.jobs : i + 1 \in DOMAIN s.jobs /\ i + 1 # 1 /\ ~s'.jobs[i].begun
  BY <1>2, <1>3, <1>4 DEF SessionInv, JobInv
<1>9. JobInv'
  BY ZenonT(60), <1>1, <1>3, <1>4, <1>8 DEF JobInv, SessionInv
<1>10. ChainInv'
  <2>1. s'.jobs # <<>> => ~Head(s'.jobs).begun
    <3> SUFFICES ASSUME s'.jobs # <<>> PROVE ~Head(s'.jobs).begun
      OBVIOUS
    <3>1. Head(s'.jobs) = s'.jobs[1] /\ 1 \in DOMAIN s'.jobs
      BY <1>3, <1>4, QueueTail
    <3> QED BY <1>8, <3>1
  <2> QED BY <1>4, <2>1 DEF ChainInv, Rescans
<1>11. ConfirmedIsSaved'
  BY <1>4 DEF ConfirmedIsSaved
<1> QED BY <1>1, <1>2, <1>4, <1>5, <1>6, <1>7, <1>9, <1>10, <1>11, ChainStep

\* The continuations that wait for the chain: connect, join, confirm.
LEMMA WaitersInv ==
    ASSUME SessionInv, Starts \/ Joins \/ Confirms
    PROVE  SessionInv'
<1>1. UNCHANGED <<worker, outbox>> /\ UNCHANGED <<floor, have, dcur, covered, row, seen>>
      /\ s.jobs # <<>> /\ Head(s.jobs).k \in {"start", "join", "ready"}
  BY DEF Starts, Joins, Confirms, Job1, worker, outbox, store, Reconnect
<1>2. /\ s \in SessionSet /\ s.jobs \in Seq(JobSet) /\ Len(s.jobs) \in Nat
      /\ DOMAIN s.jobs = 1 .. Len(s.jobs) /\ seen \in Nat
      /\ row \in [Own -> {"none", "pending", "sent", "acked"}] /\ floor \in Nat /\ gw \in ConnSet
      /\ \A i \in DOMAIN s.jobs : s.jobs[i] \in JobSet /\ s.jobs[i].ops \subseteq Own \cap have
      /\ Unseen = {n \in Own \cap have : n > seen}
  BY JobFacts DEF SessionInv, TypeOK
<1>3. /\ Tail(s.jobs) \in Seq(JobSet) /\ Head(s.jobs) = s.jobs[1] /\ 1 \in DOMAIN s.jobs
      /\ Len(s.jobs) > 0
      /\ DOMAIN Tail(s.jobs) = 1 .. Len(s.jobs) - 1
      /\ \A i \in 1 .. Len(s.jobs) - 1 : Tail(s.jobs)[i] = s.jobs[i + 1]
  BY <1>1, <1>2, QueueTail
<1>4. Head(s.jobs).ops = {}
  BY <1>1, <1>3 DEF SessionInv, JobInv
<1>5. \/ s' = [s EXCEPT !.jobs = Rest]
      \/ ~s.broken /\ Job1("ready") /\ UNCHANGED store
         /\ s' = [s EXCEPT !.jobs = Rest, !.go = TRUE, !.confirmed = OutboxEmpty]
  BY DEF Starts, Joins, Confirms
<1>6. OutboxEmpty \in BOOLEAN
  BY DEF OutboxEmpty
<1>7. s' \in SessionSet /\ s'.inbound = s.inbound /\ s'.flushes = s.flushes /\ s'.acks = s.acks
      /\ s'.jobs = Tail(s.jobs) /\ s'.broken = s.broken
  BY <1>2, <1>3, <1>5, <1>6 DEF SessionSet, Rest
<1>8. StoreStep /\ gw' \in ConnSet
      /\ (c2s' \in Seq(Uploads) \/ c2s' = <<>>) /\ (s2c' = s2c \/ s2c' = <<>>)
  <2>1. CASE Reconnect
    BY <2>1, LoseStep DEF Reconnect
  <2>2. CASE ~Reconnect
    <3>1. UNCHANGED <<at, gw, s2c>> /\ (c2s' = c2s \/ Send(Plain("join_document")))
      BY <2>2 DEF Starts, Joins, Confirms, store, wire
    <3>2. Plain("join_document") \in Uploads /\ c2s \in Seq(Uploads)
      BY PlainFacts DEF FrameTypes, SessionInv, WireInv
    <3>3. c2s' \in Seq(Uploads)
      BY <3>1, <3>2, AppendProperties DEF Send
    <3> QED BY <1>2, <3>1, <3>3, IdleStore
  <2> QED BY <2>1, <2>2
<1>9. WorkerStep
  BY <1>1, <1>8, IdleWorker
<1>10. WireStep
  <2>1. c2s' \in Seq(Uploads') /\ s2c' \in Seq(Stored')
    BY <1>1, <1>8, SetsGrow, EmptySeq
  <2> QED BY <1>1, <1>7, <1>8, <2>1, SetsGrow DEF WireStep
<1>11. LogInv' /\ EditsAreKept'
  BY <1>1, <1>8, <1>9, EditsIdle
<1>12. JobInv' /\ ChainInv' /\ ((s'.confirmed => s.confirmed) => ConfirmedIsSaved')
  BY <1>1, <1>4, <1>7, <1>8, HeadGone
<1>13. ConfirmedIsSaved'
  <2>1. CASE s'.confirmed => s.confirmed
    BY <1>12, <2>1
  <2>2. CASE s'.confirmed /\ ~s.confirmed
    <3>1. ~s.broken /\ Job1("ready") /\ OutboxEmpty
      BY <1>2, <1>5, <2>2 DEF SessionSet
    <3>2. ~Rescans
      BY <3>1 DEF Rescans, Job1
    <3>3. \A n \in Unseen : \E i \in DOMAIN s'.jobs : n \in s'.jobs[i].ops
      <4> SUFFICES ASSUME NEW n \in Unseen PROVE \E i \in DOMAIN s'.jobs : n \in s'.jobs[i].ops
        OBVIOUS
      <4>1. PICK i \in DOMAIN s.jobs : n \in s.jobs[i].ops
        BY <3>2 DEF SessionInv, ChainInv
      <4>2. i # 1 /\ i - 1 \in 1 .. Len(s.jobs) - 1 /\ i = (i - 1) + 1
        BY <1>2, <1>3, <1>4, <4>1
      <4> QED BY <1>3, <1>7, <4>1, <4>2
    <3>4. \A n \in have \cap Own : at[n] > 0 \/ n \in Unseen
      BY <1>2, <3>1 DEF SessionInv, EditsAreKept, NothingLost, Unacked, OutboxEmpty
    <3>5. Own' = Own /\ Own \subseteq Ops
      BY OpsFacts DEF Own
    <3> QED BY <1>1, <1>8, <3>3, <3>4, <3>5 DEF ConfirmedIsSaved, StoreStep
  <2> QED BY <2>1, <2>2
<1> QED BY <1>1, <1>2, <1>7, <1>8, <1>9, <1>10, <1>11, <1>12, <1>13, ChainStep

\* A new connection queues a recovery and the join behind it.
LEMMA AuthenticatedInv ==
    ASSUME SessionInv, Authenticated
    PROVE  SessionInv'
<1> DEFINE j1 == Job("recover", {})
           j2 == Job("join", {})
<1>1. UNCHANGED <<c2s, gw, store, worker, outbox>>
      /\ UNCHANGED <<at, floor, have, dcur, covered, row, seen>>
      /\ s2c # <<>> /\ s2c' = Tail(s2c)
      /\ s' = [s EXCEPT !.failed = FALSE, !.complete = FALSE, !.confirmed = FALSE,
                        !.jobs = @ \o <<j1, j2>>]
  BY DEF Authenticated, Receive, store, worker, outbox
<1>2. /\ s \in SessionSet /\ s.jobs \in Seq(JobSet) /\ Len(s.jobs) \in Nat
      /\ DOMAIN s.jobs = 1 .. Len(s.jobs) /\ seen \in Nat
      /\ row \in [Own -> {"none", "pending", "sent", "acked"}] /\ floor \in Nat /\ gw \in ConnSet
  BY JobFacts DEF SessionInv, TypeOK
<1>3. j1 \in JobSet /\ j2 \in JobSet /\ j1.ops = {} /\ j2.ops = {} /\ ~j1.begun /\ ~j2.begun
  BY DEF Job, JobSet
<1> HIDE DEF j1, j2
<1> DEFINE q == s.jobs \o <<j1, j2>>
<1>4. <<j1, j2>> \in Seq(JobSet) /\ Len(<<j1, j2>>) = 2 /\ <<j1, j2>>[1] = j1 /\ <<j1, j2>>[2] = j2
  BY <1>3
<1>5. q \in Seq(JobSet) /\ Len(q) = Len(s.jobs) + 2
      /\ \A i \in 1 .. Len(s.jobs) + 2 :
            q[i] = IF i <= Len(s.jobs) THEN s.jobs[i] ELSE <<j1, j2>>[i - Len(s.jobs)]
  BY <1>2, <1>4, ConcatProperties
<1>6. DOMAIN q = 1 .. Len(s.jobs) + 2
  BY <1>2, <1>5, LenProperties
<1> HIDE DEF q
<1>7. \A i \in DOMAIN s.jobs : q[i] = s.jobs[i]
  BY <1>2, <1>5
<1>8. \A i \in DOMAIN q : i \notin DOMAIN s.jobs => ~q[i].begun /\ q[i].ops = {}
  <2> SUFFICES ASSUME NEW i \in DOMAIN q, i \notin DOMAIN s.jobs
               PROVE  ~q[i].begun /\ q[i].ops = {}
    OBVIOUS
  <2>1. i - Len(s.jobs) \in {1, 2} /\ q[i] = <<j1, j2>>[i - Len(s.jobs)]
    BY <1>2, <1>5, <1>6
  <2> QED BY <1>3, <1>4, <2>1
<1>9. s' = [s EXCEPT !.failed = FALSE, !.complete = FALSE, !.confirmed = FALSE, !.jobs = q]
  BY <1>1, <1>2 DEF SessionSet, q
<1>10. s' \in SessionSet /\ s'.jobs = q /\ s'.inbound = s.inbound /\ s'.flushes = s.flushes
       /\ s'.acks = s.acks /\ s'.broken = s.broken /\ ~s'.confirmed
  BY <1>2, <1>5, <1>9 DEF SessionSet
<1>11. StoreStep /\ WorkerStep
  BY <1>1, IdleStore, IdleWorker
<1>12. WireStep
  <2>1. s2c' \in Seq(Stored') /\ c2s' \in Seq(Uploads')
    BY <1>1, <1>11, ReceiveFacts, SetsGrow
  <2> QED BY <1>1, <1>10, <1>11, <2>1, SetsGrow DEF WireStep
<1>13. LogInv' /\ EditsAreKept'
  BY <1>1, <1>11, EditsIdle
<1>14. JobInv' /\ ChainInv' /\ ConfirmedIsSaved'
  <2>1. have \subseteq have' /\ seen' = seen /\ Len(s'.jobs) >= Len(s.jobs)
        /\ s'.jobs \in Seq(JobSet) /\ s'.broken = s.broken /\ (s'.confirmed => s.confirmed)
    BY <1>1, <1>2, <1>5, <1>10
  <2>2. (have' \cap Own) \ have = {}
    BY <1>1
  <2> QED BY <1>7, <1>8, <1>10, <1>11, <2>1, <2>2, JobsGrow
<1> QED BY <1>1, <1>2, <1>10, <1>11, <1>12, <1>13, <1>14, ChainStep

\* The end of a catch-up: acked rows that the durable log covers are removed.
LEMMA CompleteInv ==
    ASSUME SessionInv, CatchupComplete
    PROVE  SessionInv'
<1> DEFINE j == Job("ready", {})
<1>1. UNCHANGED <<c2s, s2c, gw, store>> /\ UNCHANGED <<at, floor, have, dcur, seen>>
      /\ s.inbound # <<>>
      /\ row' = [n \in Own |-> IF n \in Compactable THEN "none" ELSE row[n]]
      /\ covered' = covered \ Compactable
      /\ s' = [s EXCEPT !.inbound = Tail(@), !.complete = TRUE, !.jobs = Append(@, j)]
  BY DEF CatchupComplete, wire, store
<1>2. /\ s \in SessionSet /\ s.jobs \in Seq(JobSet) /\ seen \in Nat /\ s.inbound \in Seq(FrameSet)
      /\ row \in [Own -> {"none", "pending", "sent", "acked"}] /\ floor \in Nat /\ gw \in ConnSet
      /\ s.inbound \in Seq(Stored) /\ dcur \in Nat /\ have \subseteq Ops /\ covered \subseteq Own
      /\ \A n \in covered : at[n] \in 1 .. dcur
  BY JobFacts DEF SessionInv, TypeOK, WireInv, SessionSet
<1>3. j \in JobSet /\ j.ops = {} /\ ~j.begun
  BY DEF Job, JobSet
<1> HIDE DEF j
<1>4. /\ Append(s.jobs, j) \in Seq(JobSet) /\ DOMAIN s.jobs = 1 .. Len(s.jobs)
      /\ DOMAIN Append(s.jobs, j) = 1 .. Len(s.jobs) + 1
      /\ Len(Append(s.jobs, j)) = Len(s.jobs) + 1 /\ Len(s.jobs) \in Nat
      /\ \A i \in 1 .. Len(s.jobs) : Append(s.jobs, j)[i] = s.jobs[i]
      /\ Append(s.jobs, j)[Len(s.jobs) + 1] = j
  BY <1>2, <1>3, QueueAppend
<1>5. Tail(s.inbound) \in Seq(FrameSet) /\ Tail(s.inbound) \in Seq(Stored)
  BY <1>1, <1>2, HeadTailProperties
<1>6. s' \in SessionSet /\ s'.jobs = Append(s.jobs, j) /\ s'.inbound = Tail(s.inbound)
      /\ s'.flushes = s.flushes /\ s'.acks = s.acks /\ s'.broken = s.broken
      /\ s'.confirmed = s.confirmed
  BY <1>1, <1>2, <1>4, <1>5 DEF SessionSet
<1>7. StoreStep
  BY <1>1, IdleStore
<1>8. WorkerStep
  BY <1>1, <1>2 DEF WorkerStep
<1>9. WireStep
  <2>1. s'.inbound \in Seq(Stored')
    BY <1>1, <1>5, <1>6, <1>7, SetsGrow
  <2> QED BY <1>1, <1>6, <1>7, <2>1, SetsGrow DEF WireStep
<1>10. row' \in [Own -> {"none", "pending", "sent", "acked"}]
  BY <1>1, <1>2
<1>11. LogInv' /\ EditsAreKept'
  <2>1. \A n \in Own :
               /\ row'[n] # "none" => row[n] # "none"
               /\ row'[n] = "acked" => row[n] = "acked"
               /\ row'[n] = "none" /\ row[n] # "none" => n \in covered
               /\ row[n] \in {"pending", "sent"} => row'[n] \in {"pending", "sent"}
    BY <1>1, <1>2 DEF Compactable, Acked
  <2>2. \A n \in Own : row[n] = "acked" => at[n] > 0
    BY DEF SessionInv, EditsAreKept, AckedIsDurable
  <2> QED BY <1>1, <1>2, <1>10, <2>1, <2>2, RowsKept
<1>12. JobInv' /\ ChainInv' /\ ConfirmedIsSaved'
  <2>1. have \subseteq have' /\ seen' = seen /\ Len(s'.jobs) >= Len(s.jobs)
        /\ s'.jobs \in Seq(JobSet) /\ s'.broken = s.broken /\ (s'.confirmed => s.confirmed)
    BY <1>1, <1>4, <1>6
  <2>2. (have' \cap Own) \ have = {}
    BY <1>1
  <2>3. \A i \in DOMAIN s.jobs : s'.jobs[i] = s.jobs[i]
    BY <1>4, <1>6
  <2>4. \A i \in DOMAIN s'.jobs : i \notin DOMAIN s.jobs => ~s'.jobs[i].begun /\ s'.jobs[i].ops = {}
    BY <1>3, <1>4, <1>6
  <2> QED BY <1>7, <2>1, <2>2, <2>3, <2>4, JobsGrow
<1> QED BY <1>1, <1>2, <1>6, <1>7, <1>8, <1>9, <1>10, <1>11, <1>12, ChainStep

\* A row is marked as sent, or as acked when the server has the operation.
LEMMA MarkInv ==
    ASSUME SessionInv, MarkSent \/ MarkAcked
    PROVE  SessionInv'
<1>1. UNCHANGED <<c2s, s2c, gw, store, worker>>
      /\ UNCHANGED <<at, floor, have, dcur, covered, seen>>
  BY DEF MarkSent, MarkAcked, wire, store, worker
<1>2. /\ s \in SessionSet /\ s.jobs \in Seq(JobSet) /\ seen \in Nat /\ Len(s.jobs) \in Nat
      /\ row \in [Own -> {"none", "pending", "sent", "acked"}] /\ floor \in Nat /\ gw \in ConnSet
      /\ \A ops \in s.acks : \A o \in ops : at[o] > 0
  BY JobFacts DEF SessionInv, TypeOK, WireInv
<1>3. s' \in SessionSet /\ s'.jobs = s.jobs /\ s'.inbound = s.inbound
      /\ s'.flushes \subseteq s.flushes /\ s'.acks \subseteq s.acks /\ s'.broken = s.broken
      /\ ~s'.confirmed
  <2>1. CASE MarkSent
    <3>1. PICK f \in s.flushes : s' = [s EXCEPT !.flushes = @ \ {f}, !.confirmed = FALSE]
      BY <2>1 DEF MarkSent
    <3> QED BY <1>2, <3>1 DEF SessionSet
  <2>2. CASE MarkAcked
    <3>1. PICK ops \in s.acks : s' = AfterAck(ops)
      BY <2>2 DEF MarkAcked
    <3> QED BY <1>2, <3>1 DEF SessionSet, AfterAck
  <2> QED BY <2>1, <2>2
<1>4. /\ row' \in [Own -> {"none", "pending", "sent", "acked"}]
      /\ \A n \in Own :
               /\ row'[n] # "none" => row[n] # "none"
               /\ row'[n] = "acked" => row[n] = "acked" \/ at[n] > 0
               /\ row'[n] = "none" => row[n] = "none"
               /\ row[n] \in {"pending", "sent"} => row'[n] \in {"pending", "sent"} \/ at[n] > 0
  <2>1. CASE MarkSent
    <3>1. row' = row \/ \E ops : row' = [n \in Own |-> IF n \in ops /\ row[n] = "pending"
                                                      THEN "sent" ELSE row[n]]
      BY <2>1 DEF MarkSent, SentState
    <3> QED BY <1>2, <3>1
  <2>2. CASE MarkAcked
    <3>1. PICK ops \in s.acks : row' = [n \in Own |-> IF n \in ops /\ row[n] # "none"
                                                     THEN "acked" ELSE row[n]]
      BY <2>2 DEF MarkAcked
    <3> QED BY <1>2, <3>1
  <2> QED BY <2>1, <2>2
<1>5. LogInv' /\ EditsAreKept'
  <2>1. \A n \in Own : row[n] = "acked" => at[n] > 0
    BY DEF SessionInv, EditsAreKept, AckedIsDurable
  <2> QED BY <1>1, <1>4, <2>1, RowsKept
<1>6. StoreStep /\ WorkerStep
  BY <1>1, IdleStore, IdleWorker
<1>7. WireStep
  BY <1>1, <1>3, <1>6, SetsGrow DEF WireStep
<1>8. JobInv' /\ ChainInv' /\ ConfirmedIsSaved'
  <2>1. (have' \cap Own) \ have = {} /\ have \subseteq have' /\ Len(s'.jobs) >= Len(s.jobs)
        /\ \A i \in DOMAIN s'.jobs : i \in DOMAIN s.jobs
    BY <1>1, <1>2, <1>3
  <2> QED BY <1>1, <1>2, <1>3, <1>6, <2>1, JobsGrow
<1> QED BY <1>1, <1>2, <1>3, <1>4, <1>5, <1>6, <1>7, <1>8, ChainStep

\* A new session: its recovery reads the log before anything else.
LEMMA FreshFacts ==
    ASSUME NEW c \in Nat
    PROVE  /\ Fresh(c) \in SessionSet /\ Fresh(c).inbound = <<>> /\ Fresh(c).flushes = {}
           /\ Fresh(c).acks = {} /\ ~Fresh(c).confirmed /\ ~Fresh(c).broken
           /\ Fresh(c).jobs # <<>> /\ Head(Fresh(c).jobs).k = "recover"
           /\ ~Head(Fresh(c).jobs).begun
           /\ \A i \in DOMAIN Fresh(c).jobs :
                 Fresh(c).jobs[i].ops = {} /\ ~Fresh(c).jobs[i].begun
<1> DEFINE j1 == Job("recover", {})
           j2 == Job("start", {})
<1>1. j1 \in JobSet /\ j2 \in JobSet /\ j1.ops = {} /\ j2.ops = {} /\ ~j1.begun /\ ~j2.begun
      /\ j1.k = "recover"
  BY DEF Job, JobSet
<1> HIDE DEF j1, j2
<1>2. <<j1, j2>> \in Seq(JobSet) /\ <<j1, j2>> # <<>> /\ Head(<<j1, j2>>) = j1
      /\ DOMAIN <<j1, j2>> = 1 .. 2 /\ <<j1, j2>>[1] = j1 /\ <<j1, j2>>[2] = j2
  BY <1>1
<1>3. <<>> \in Seq(FrameSet)
  BY EmptySeq
<1>4. /\ Fresh(c).jobs = <<j1, j2>> /\ Fresh(c).inbound = <<>> /\ Fresh(c).flushes = {}
      /\ Fresh(c).acks = {} /\ ~Fresh(c).confirmed /\ ~Fresh(c).broken
  BY DEF Fresh, j1, j2
<1>5. Fresh(c) \in SessionSet
  BY <1>2, <1>3 DEF Fresh, SessionSet, None, j1, j2
<1> HIDE DEF Fresh
<1>6. \A i \in 1 .. 2 : <<j1, j2>>[i].ops = {} /\ ~<<j1, j2>>[i].begun
  <2> SUFFICES ASSUME NEW i \in 1 .. 2 PROVE <<j1, j2>>[i].ops = {} /\ ~<<j1, j2>>[i].begun
    OBVIOUS
  <2>1. i = 1 \/ i = 2
    OBVIOUS
  <2> QED BY <1>1, <1>2, <2>1
<1> QED BY <1>1, <1>2, <1>4, <1>5, <1>6

\* A reload forgets what the session had in memory and nothing else.
LEMMA ReloadInv ==
    ASSUME SessionInv, Reload
    PROVE  SessionInv'
<1>1. UNCHANGED <<worker, outbox>> /\ UNCHANGED <<floor, have, dcur, covered, row, seen>>
      /\ s' = Fresh(dcur) /\ c2s' = <<>> /\ s2c' = <<>> /\ gw' = NoConn
  BY DEF Reload, Teardown, worker, outbox
<1>2. /\ dcur \in Nat /\ floor \in Nat /\ seen \in Nat /\ at \in [Ops -> Nat]
      /\ row \in [Own -> {"none", "pending", "sent", "acked"}]
  BY DEF SessionInv, TypeOK
<1>3. StoreStep
  <2> DEFINE ops == IF gw.state = "ready" THEN Straggling(Len(c2s)) ELSE {}
  <2>1. Len(c2s) \in 0 .. Len(c2s)
    BY LenProperties DEF SessionInv, TypeOK
  <2>2. ops \in SUBSET Ops /\ ops \cap Own \subseteq have
    BY <2>1, StragglingFacts, OpsFacts
  <2>3. at' = Ingested(ops)
    BY DEF Reload
  <2> QED BY <2>2, <2>3, IngestStep
<1>4. WorkerStep
  BY <1>1, <1>3, IdleWorker
<1>5. s' \in SessionSet
  BY <1>1, <1>2, FreshFacts
<1>6. WireStep
  <2>1. s'.inbound = <<>> /\ s'.flushes = {} /\ s'.acks = {}
    BY <1>1, <1>2, FreshFacts
  <2> QED BY <1>1, <2>1, EmptySeq DEF WireStep
<1>7. LogInv' /\ EditsAreKept'
  BY <1>1, <1>3, <1>4, EditsIdle
<1>8. JobInv' /\ ConfirmedIsSaved'
  BY <1>1, <1>2, FreshFacts DEF JobInv, ConfirmedIsSaved
<1>9. ChainInv'
  BY <1>1, <1>2, FreshFacts DEF ChainInv, Rescans, Job1
<1>10. gw' \in ConnSet
  BY <1>1 DEF NoConn, ConnSet, None
<1> QED BY <1>1, <1>2, <1>3, <1>4, <1>5, <1>6, <1>7, <1>8, <1>9, <1>10, ChainStep

-----------------------------------------------------------------------------
(* The invariant *)

\* An empty store, an empty log and a new session.
LEMMA SessionInit ==
    ASSUME Init
    PROVE  SessionInv
<1>1. /\ c2s = <<>> /\ s2c = <<>> /\ gw = NoConn /\ at = [o \in Ops |-> 0] /\ floor = 0
      /\ have = {} /\ dcur = 0 /\ covered = {} /\ row = [n \in Own |-> "none"] /\ seen = 0
      /\ s = Fresh(0)
  BY DEF Init, TransportInit
<1>2. /\ s \in SessionSet /\ s.inbound = <<>> /\ s.flushes = {} /\ s.acks = {}
      /\ ~s.confirmed /\ s.jobs # <<>> /\ Head(s.jobs).k = "recover" /\ ~Head(s.jobs).begun
      /\ \A i \in DOMAIN s.jobs : s.jobs[i].ops = {} /\ ~s.jobs[i].begun
  BY <1>1, FreshFacts
<1>3. gw \in ConnSet
  BY <1>1 DEF NoConn, ConnSet, None
<1>4. TypeOK
  BY <1>1, <1>2, <1>3, EmptySeq DEF TypeOK
<1>5. WireInv
  BY <1>1, <1>2, EmptySeq DEF WireInv
<1>6. LogInv /\ JobInv /\ ChainInv /\ ConfirmedIsSaved
  BY <1>1, <1>2, OpsFacts DEF LogInv, JobInv, ChainInv, Rescans, Job1, ConfirmedIsSaved
<1>7. EditsAreKept
  BY <1>1, OpsFacts DEF EditsAreKept, NothingLost, AckedIsDurable, ClearedIsCovered
<1> QED BY <1>4, <1>5, <1>6, <1>7 DEF SessionInv

\* Nothing that SessionInv mentions changes.
LEMMA SessionStutter ==
    ASSUME SessionInv, UNCHANGED vars
    PROVE  SessionInv'
<1>1. UNCHANGED <<c2s, s2c, gw, store, worker, outbox, s>>
  BY DEF vars, wire
<1> QED BY <1>1, WireOnly DEF SessionInv, WireInv, TypeOK

\* SessionInv is inductive: every handler of the client and of the gateway, and
\* every failure, keeps it.
LEMMA SessionStep ==
    ASSUME SessionInv, Next
    PROVE  SessionInv'
<1>1. CASE LocalOp
  BY <1>1, LocalInv
<1>2. CASE PeerCommits \/ Compacts \/ GwIngest
  BY <1>2, StoreInv
<1>3. CASE TransportStep
  BY <1>3, TransportInv
<1>4. CASE GwJoin \/ GwRegister \/ GwSync \/ GwPage \/ GwPageFails \/ GwFetch
  BY <1>4, GatewayInv
<1>5. CASE StartJob
  BY <1>5, StartInv
<1>6. CASE AddPending
  BY <1>6, AddInv
<1>7. CASE Starts \/ Joins \/ Confirms
  BY <1>7, WaitersInv
<1>8. CASE Authenticated
  BY <1>8, AuthenticatedInv
<1>9. CASE JoinAccepted \/ SyncDone \/ QueueRemote \/ DurableAck \/ ResyncRequired \/ SnapshotPayload
  BY <1>9, FrameInv
<1>10. CASE DatabaseUnavailable \/ Drops \/ ApplyFails \/ ClearAckedFails \/ MarkAckedFails \/ ImportFails
  BY <1>10, FailureInv
<1>11. CASE ApplyRemote \/ Imports \/ PersistCursor
  BY <1>11, WorkerInv
<1>12. CASE CatchupComplete
  BY <1>12, CompleteInv
<1>13. CASE FlushReads \/ FlushSends \/ SyncNow
  BY <1>13, FlushInv
<1>14. CASE MarkSent \/ MarkAcked
  BY <1>14, MarkInv
<1>15. CASE AddPendingFails
  BY <1>15, AddFailsInv
<1>16. CASE Reload
  BY <1>16, ReloadInv
<1> QED BY <1>1, <1>2, <1>3, <1>4, <1>5, <1>6, <1>7, <1>8, <1>9, <1>10, <1>11, <1>12, <1>13,
           <1>14, <1>15, <1>16
    DEF Next, GwNext, ChainNext, FrameNext, HandlerNext, FaultNext

\* In every state of every run: the types, the channels, the log, the chain of
\* jobs and the two promises to the user (lib/sync/session.ts).
THEOREM SessionInvariant == Spec => []SessionInv
<1>1. Init => SessionInv
  BY SessionInit
<1>2. SessionInv /\ [Next]_vars => SessionInv'
  BY SessionStep, SessionStutter
<1> QED BY <1>1, <1>2, PTL DEF Spec

\* Whatever fails, and however often the page is reloaded, an edit in the log is
\* on the server, or unacked in the outbox, or above lastSeenCounter; an acked
\* record is committed and a removed one is covered (pending-store.ts).
THEOREM EditsKept == Spec => []EditsAreKept
<1>1. SessionInv => EditsAreKept
  BY DEF SessionInv
<1> QED BY <1>1, SessionInvariant, PTL

-----------------------------------------------------------------------------
(* The store and the queues *)

\* What a step may do to the store: new operations come after all there are.
Grown ==
    /\ Last \in Nat /\ Last' \in Nat /\ Last <= Last' /\ at' \in [Ops -> Nat]
    /\ \A o \in Ops : at[o] > 0 => at'[o] = at[o]
    /\ \A o \in Ops : at[o] = 0 /\ at'[o] > 0 => at'[o] > Last
    /\ \A o \in Ops : at'[o] <= Last'

\* Last is a number, and stays when the store does.
LEMMA LastFacts ==
    /\ Last \in Nat
    /\ at' = at => Last' = Last
    /\ Last' \in Nat
<1>1. \A f : IsFiniteSet({o \in Ops : f[o] > 0})
  BY OpsFacts, FS_Subset
<1>2. Last \in Nat
  BY <1>1, FS_CardinalityType DEF Last
<1>3. Cardinality({o \in Ops : at'[o] > 0}) \in Nat
  BY <1>1, FS_CardinalityType
<1> QED BY <1>2, <1>3 DEF Last, Ops

\* A step that leaves the store alone.
LEMMA GrownIdle ==
    ASSUME SessionInv, CatchupInv, at' = at
    PROVE  Grown /\ Last' = Last
<1>1. at \in [Ops -> Nat] /\ \A o \in Ops : at[o] <= Last /\ at[o] \in Nat
  BY DEF SessionInv, TypeOK, CatchupInv, Bounded
<1> QED BY <1>1, LastFacts DEF Grown

\* A transaction.
LEMMA GrownIngest ==
    ASSUME SessionInv, CatchupInv, NEW ops \in SUBSET Ops, at' = Ingested(ops)
    PROVE  Grown
<1>1. at \in [Ops -> Nat] /\ \A o \in Ops : at[o] <= Last
  BY DEF SessionInv, TypeOK, CatchupInv, Bounded
<1> QED BY <1>1, IngestedFacts, LastFacts DEF Grown

\* A lost connection.
LEMMA GrownLose ==
    ASSUME SessionInv, CatchupInv, NEW status, Lose(status)
    PROVE  Grown
<1>1. \A o \in Ops : at[o] <= Last
  BY DEF CatchupInv, Bounded
<1> QED BY <1>1, LoseStep, LastFacts DEF Grown, StoreStep

\* What a cursor covers does not change once the server has reached it.
LEMMA PrefixKept ==
    ASSUME SessionInv, Grown, NEW c \in {None} \union Nat, c <= Last
    PROVE  \A o \in Ops : at'[o] > 0 /\ at'[o] <= c => o \in Prefix(c) /\ at'[o] = at[o]
<1>1. at \in [Ops -> Nat] /\ c \in Int
  BY DEF SessionInv, TypeOK, None
<1> QED BY <1>1 DEF Grown, Prefix

\* The queues and their frames.
LEMMA WireFacts ==
    ASSUME SessionInv
    PROVE  /\ Len(c2s) \in Nat /\ DOMAIN c2s = 1 .. Len(c2s) /\ c2s \in Seq(FrameSet)
           /\ \A i \in DOMAIN c2s : c2s[i] \in FrameSet /\ c2s[i].c \in {None} \union Nat
           /\ Len(s2c) \in Nat /\ DOMAIN s2c = 1 .. Len(s2c) /\ s2c \in Seq(FrameSet)
           /\ \A i \in DOMAIN s2c : /\ s2c[i] \in FrameSet /\ s2c[i].c \in {None} \union Nat
                                    /\ s2c[i].ops \subseteq Ops
           /\ Len(s.inbound) \in Nat /\ DOMAIN s.inbound = 1 .. Len(s.inbound)
           /\ s.inbound \in Seq(FrameSet)
           /\ \A i \in DOMAIN s.inbound : /\ s.inbound[i] \in FrameSet
                                          /\ s.inbound[i].c \in {None} \union Nat
                                          /\ s.inbound[i].ops \subseteq Ops
<1>1. c2s \in Seq(FrameSet) /\ s2c \in Seq(FrameSet) /\ s.inbound \in Seq(FrameSet)
  BY DEF SessionInv, TypeOK, SessionSet
<1>2. /\ Len(c2s) \in Nat /\ DOMAIN c2s = 1 .. Len(c2s)
      /\ Len(s2c) \in Nat /\ DOMAIN s2c = 1 .. Len(s2c)
      /\ Len(s.inbound) \in Nat /\ DOMAIN s.inbound = 1 .. Len(s.inbound)
  BY <1>1, LenProperties
<1>3. /\ \A i \in DOMAIN c2s : c2s[i] \in FrameSet
      /\ \A i \in DOMAIN s2c : s2c[i] \in FrameSet
      /\ \A i \in DOMAIN s.inbound : s.inbound[i] \in FrameSet
  BY <1>1, <1>2, ElementOfSeq
<1>4. \A f \in FrameSet : f.c \in {None} \union Nat /\ f.ops \subseteq Ops
  BY DEF FrameSet
<1> QED BY <1>1, <1>2, <1>3, <1>4

\* The numbers the session and the gateway keep.
LEMMA CursorFacts ==
    ASSUME SessionInv
    PROVE  /\ s \in SessionSet /\ s.cursor \in Nat /\ dcur \in Nat /\ floor \in Nat
           /\ s.signal \in {None} \union Nat /\ s.failed \in BOOLEAN
           /\ \A i \in s.imports : i \in [k : {"import", "persist"}, c : {None} \union Nat]
                                   /\ i.c \in {None} \union Nat
           /\ gw \in ConnSet /\ gw.stream \in {None} \union Nat /\ gw.durable \in {None} \union Nat
           /\ gw.joining \in BOOLEAN
           /\ have \subseteq Ops /\ at \in [Ops -> Nat]
BY DEF SessionInv, TypeOK, SessionSet, ConnSet

\* The gateway takes a request, or leaves it where it is.
LEMMA RequestsServed ==
    ASSUME SessionInv, CatchupInv, Last <= Last', Last' \in Nat, dcur' = dcur,
           c2s' = c2s \/ (c2s # <<>> /\ c2s' = Tail(c2s))
    PROVE  RequestInv' /\ Below(c2s)'
<1>1. Len(c2s) \in Nat /\ DOMAIN c2s = 1 .. Len(c2s) /\ c2s \in Seq(FrameSet)
      /\ \A i \in DOMAIN c2s : c2s[i].c \in {None} \union Nat
  BY WireFacts
<1>2. \A i \in DOMAIN c2s' : \E j \in DOMAIN c2s : c2s'[i] = c2s[j]
  <2>1. CASE c2s' = c2s
    BY <2>1
  <2>2. CASE c2s # <<>> /\ c2s' = Tail(c2s)
    <3>1. DOMAIN c2s' = 1 .. Len(c2s) - 1 /\ \A i \in 1 .. Len(c2s) - 1 : c2s'[i] = c2s[i + 1]
      BY <1>1, <2>2, QueueTail
    <3>2. \A i \in 1 .. Len(c2s) - 1 : i + 1 \in DOMAIN c2s
      BY <1>1
    <3> QED BY <3>1, <3>2
  <2> QED BY <2>1, <2>2
<1>3. \A j \in DOMAIN c2s : /\ c2s[j].c <= Last'
                            /\ c2s[j].t = "sync_request" => c2s[j].c \in 0 .. dcur
  <2>1. \A j \in DOMAIN c2s : c2s[j].c <= Last /\ c2s[j].c \in Int
    BY <1>1 DEF CatchupInv, Bounded, Below, None
  <2>2. \A j \in DOMAIN c2s : c2s[j].t = "sync_request" => c2s[j].c \in 0 .. dcur
    BY DEF CatchupInv, RequestInv
  <2> QED BY <2>1, <2>2, LastFacts
<1> QED BY <1>2, <1>3 DEF RequestInv, Below

-----------------------------------------------------------------------------
(* Steps of the gateway *)

\* What the replica holds and what is queued, while the gateway works.
LEMMA GatewayFrame ==
    ASSUME SessionInv, SessionInv', CatchupInv, UNCHANGED <<worker, s>>, Grown
    PROVE  /\ InboundInv' /\ CursorInv' /\ Below(s.inbound)' /\ dcur' <= Last'
           /\ s'.signal <= Last' /\ (\A i \in s'.imports : i.c <= Last')
           /\ \A o \in Ops : at'[o] <= Last'
           /\ \A o : Queued(o)' <=> Queued(o)
<1>1. UNCHANGED <<have, dcur, s>> /\ Last \in Nat /\ Last' \in Nat /\ Last <= Last'
  BY LastFacts DEF worker, Grown
<1>2. \A i \in DOMAIN s.inbound : s.inbound[i].c \in {None} \union Nat /\ s.inbound[i].c <= Last
  BY WireFacts DEF CatchupInv, Bounded, Below
<1>3. /\ dcur \in Nat /\ dcur <= Last /\ s.signal \in {None} \union Nat /\ s.signal <= Last
      /\ \A i \in s.imports : i.c \in {None} \union Nat /\ i.c <= Last
  BY CursorFacts DEF CatchupInv, Bounded
<1>4. Prefix(dcur)' \subseteq Prefix(dcur)
  BY <1>1, <1>3, PrefixKept DEF Prefix, Ops
<1>5. ASSUME NEW i \in DOMAIN s.inbound, NEW o \in Prefix(s.inbound[i].c)'
      PROVE  o \in Prefix(s.inbound[i].c)
  <2>1. o \in Ops /\ at'[o] > 0 /\ at'[o] <= s.inbound[i].c
    BY <1>1, <1>5 DEF Prefix, Ops
  <2> QED BY <1>2, <2>1, PrefixKept
<1>6. ASSUME NEW i \in s.imports, NEW o \in Ops, at'[o] > 0, at'[o] <= i.c
      PROVE  o \in Prefix(i.c)
  BY <1>3, <1>6, PrefixKept
<1>7. InboundInv'
  BY <1>1, <1>5 DEF CatchupInv, InboundInv
<1>8. CursorInv'
  <2>1. GaplessCursor'
    BY <1>1, <1>4 DEF CatchupInv, CursorInv, GaplessCursor
  <2>2. \A i \in s'.imports : i.k = "persist" => Prefix(i.c)' \subseteq have'
    <3> SUFFICES ASSUME NEW i \in s.imports, i.k = "persist",
                        NEW o \in Ops, at'[o] > 0, at'[o] <= i.c
                 PROVE  o \in have
      BY <1>1 DEF Prefix, Ops
    <3> QED BY <1>6 DEF CatchupInv, CursorInv
  <2> QED BY <2>1, <2>2 DEF CursorInv
<1>9. /\ Below(s.inbound)' /\ dcur' <= Last' /\ s'.signal <= Last'
      /\ \A i \in s'.imports : i.c <= Last'
  BY <1>1, <1>2, <1>3 DEF Below, None
<1> QED BY <1>1, <1>7, <1>8, <1>9 DEF Grown, Queued

\* The gateway sends nothing, a frame or two.
LEMMA GatewaySends ==
    ASSUME SessionInv, SessionInv', CatchupInv, UNCHANGED <<worker, s>>, Grown,
           RequestInv', Below(c2s)', floor' <= Last',
           gw'.stream <= Last', gw'.durable <= Last',
           Len(s2c') >= Len(s2c),
           \A i \in DOMAIN s2c : s2c'[i] = s2c[i],
           \A i \in DOMAIN s2c' : i \notin DOMAIN s2c =>
               /\ s2c'[i].c <= Last'
               /\ s2c'[i].t = "peer_ops" => s2c'[i].c = None
               /\ Remote(s2c'[i]) => gw.state \in {"syncing", "ready"}
               /\ s2c'[i].t = "sync_batch" =>
                     \A o \in Ops : at'[o] > 0 /\ at'[o] <= s2c'[i].c =>
                        Coming(o, Len(s2c)) \/ o \in s2c'[i].ops,
           gw'.state \in {"authenticated", "syncing", "ready"} =>
               \/ gw.state \in {"authenticated", "syncing", "ready"}
               \/ \E i \in DOMAIN s2c' : s2c'[i].t = "authenticated",
           StreamInv'
    PROVE  CatchupInv'
<1>1. /\ Len(s2c) \in Nat /\ DOMAIN s2c = 1 .. Len(s2c) /\ Len(s2c') \in Nat
      /\ DOMAIN s2c' = 1 .. Len(s2c') /\ DOMAIN s2c \subseteq DOMAIN s2c'
      /\ \A i \in DOMAIN s2c : s2c[i].c \in {None} \union Nat
  <2>1. Len(s2c') \in Nat /\ DOMAIN s2c' = 1 .. Len(s2c')
    <3>1. s2c' \in Seq(FrameSet')
      BY DEF SessionInv, TypeOK
    <3> QED BY <3>1, LenProperties
  <2> QED BY <2>1, WireFacts
<1>2. /\ InboundInv' /\ CursorInv' /\ Below(s.inbound)' /\ dcur' <= Last'
      /\ s'.signal <= Last' /\ (\A i \in s'.imports : i.c <= Last')
      /\ \A o \in Ops : at'[o] <= Last'
      /\ \A o : Queued(o)' <=> Queued(o)
  BY GatewayFrame
<1>3. \A i \in DOMAIN s2c : s2c[i].c <= Last /\ s2c[i].c <= Last'
  <2>1. \A i \in DOMAIN s2c : s2c[i].c <= Last /\ s2c[i].c \in Int
    BY <1>1 DEF CatchupInv, Bounded, Below, None
  <2> QED BY <2>1 DEF Grown
<1>4. Bounded'
  <2>1. Below(s2c)'
    BY <1>3 DEF Below
  <2>2. Ops' = Ops
    BY DEF Ops
  <2> QED BY <1>2, <2>1, <2>2 DEF Bounded
<1>5. \A i \in DOMAIN s2c : \A o : Coming(o, i) => Coming(o, i)'
  BY <1>1, <1>2 DEF Coming, Remote
<1>6. PagesInv'
  <2> SUFFICES ASSUME NEW i \in DOMAIN s2c'
               PROVE  /\ s2c'[i].t = "peer_ops" => s2c'[i].c = None
                      /\ s2c'[i].t = "sync_batch" => \A o \in Prefix(s2c[i].c)' : Coming(o, i)'
    BY DEF PagesInv
  <2>1. CASE i \in DOMAIN s2c
    <3>1. s2c'[i] = s2c[i]
      BY <2>1
    <3>2. s2c[i].t = "peer_ops" => s2c[i].c = None
      BY <2>1 DEF CatchupInv, PagesInv
    <3>3. ASSUME s2c[i].t = "sync_batch", NEW o \in Prefix(s2c[i].c)' PROVE Coming(o, i)'
      <4>1. o \in Ops /\ at'[o] > 0 /\ at'[o] <= s2c[i].c
        BY <3>1, <3>3 DEF Prefix, Ops
      <4>2. o \in Prefix(s2c[i].c)
        BY <1>1, <1>3, <2>1, <4>1, PrefixKept
      <4> QED BY <1>5, <2>1, <3>3, <4>2 DEF CatchupInv, PagesInv
    <3> QED BY <3>1, <3>2, <3>3
  <2>2. CASE i \notin DOMAIN s2c
    <3>1. ASSUME s2c'[i].t = "sync_batch", NEW o \in Prefix(s2c[i].c)' PROVE Coming(o, i)'
      <4>1. o \in Ops /\ at'[o] > 0 /\ at'[o] <= s2c'[i].c
        BY <3>1 DEF Prefix, Ops
      <4>2. Coming(o, Len(s2c)) \/ o \in s2c'[i].ops
        BY <2>2, <3>1, <4>1
      <4>3. i \in 1 .. i /\ 1 .. Len(s2c) \subseteq 1 .. i
        BY <1>1, <2>2
      <4> QED BY <1>1, <1>2, <3>1, <4>2, <4>3 DEF Coming, Remote
    <3> QED BY <2>2, <3>1
  <2> QED BY <2>1, <2>2
<1>7. FailedInv'
  <2> SUFFICES ASSUME s.failed
               PROVE  /\ gw'.state \in {"authenticated", "syncing", "ready"} =>
                            \E j \in DOMAIN s2c' : s2c'[j].t = "authenticated"
                      /\ \A i \in DOMAIN s2c' : Remote(s2c'[i]) =>
                            \E j \in 1 .. i : s2c'[j].t = "authenticated"
    BY DEF FailedInv, Remote
  <2>1. /\ gw.state \in {"authenticated", "syncing", "ready"} =>
              \E j \in DOMAIN s2c : s2c[j].t = "authenticated"
        /\ \A i \in DOMAIN s2c : Remote(s2c[i]) => \E j \in 1 .. i : s2c[j].t = "authenticated"
    BY DEF CatchupInv, FailedInv
  <2>2. ASSUME NEW i \in DOMAIN s2c', Remote(s2c'[i])
        PROVE  \E j \in 1 .. i : s2c'[j].t = "authenticated"
    <3>1. CASE i \in DOMAIN s2c
      <4>1. PICK j \in 1 .. i : s2c[j].t = "authenticated"
        BY <2>1, <2>2, <3>1
      <4> QED BY <1>1, <3>1, <4>1
    <3>2. CASE i \notin DOMAIN s2c
      <4>1. PICK j \in DOMAIN s2c : s2c[j].t = "authenticated"
        BY <2>1, <2>2, <3>2
      <4> QED BY <1>1, <3>2, <4>1
    <3> QED BY <3>1, <3>2
  <2> QED BY <1>1, <2>1, <2>2
<1> QED BY <1>2, <1>4, <1>6, <1>7 DEF CatchupInv

\* The gateway sends nothing, or a frame that carries no operations.
LEMMA GatewayAnswers ==
    ASSUME SessionInv, SessionInv', CatchupInv, UNCHANGED <<store, worker, s>>,
           RequestInv', Below(c2s)', gw'.stream <= Last, gw'.durable <= Last,
           NEW f \in FrameSet, ~Remote(f), f.c <= Last,
           s2c' = s2c \/ s2c' = Append(s2c, f),
           gw'.state \in {"authenticated", "syncing", "ready"} =>
               \/ gw.state \in {"authenticated", "syncing", "ready"}
               \/ s2c' = Append(s2c, f) /\ f.t = "authenticated",
           StreamInv'
    PROVE  CatchupInv'
<1>1. UNCHANGED <<at, floor>> /\ Grown /\ Last' = Last /\ floor' <= Last'
  <2>1. UNCHANGED <<at, floor>>
    BY DEF store
  <2> QED BY <2>1, GrownIdle DEF CatchupInv, Bounded
<1>2. s2c \in Seq(FrameSet) /\ Len(s2c) \in Nat /\ DOMAIN s2c = 1 .. Len(s2c)
  BY WireFacts
<1>3. CASE s2c' = s2c
  <2>1. Len(s2c') >= Len(s2c) /\ (\A i \in DOMAIN s2c : s2c'[i] = s2c[i])
        /\ \A i \in DOMAIN s2c' : i \in DOMAIN s2c
    <3>1. Len(s2c) >= Len(s2c)
      BY <1>2
    <3> QED BY <1>3, <3>1, Zenon
  <2>2. ~(s2c' = Append(s2c, f))
    <3>1. Len(Append(s2c, f)) = Len(s2c) + 1 /\ Len(s2c) \in Int
      BY <1>2, QueueAppend
    <3>2. Len(Append(s2c, f)) # Len(s2c)
      BY <3>1
    <3> QED BY <1>3, <3>2, Zenon
  <2> QED BY <1>1, <2>1, <2>2, GatewaySends
<1>4. CASE s2c' = Append(s2c, f)
  <2>1. /\ Len(s2c') >= Len(s2c) /\ (\A i \in DOMAIN s2c : s2c'[i] = s2c[i])
        /\ DOMAIN s2c' = 1 .. Len(s2c) + 1 /\ s2c'[Len(s2c) + 1] = f
    BY <1>2, <1>4, QueueAppend
  <2>2. \A i \in DOMAIN s2c' : i \notin DOMAIN s2c => s2c'[i] = f
    BY <1>2, <2>1
  <2>3. f.t # "sync_batch" /\ f.t # "peer_ops"
    BY DEF Remote
  <2>4. f.t = "authenticated" => \E i \in DOMAIN s2c' : s2c'[i].t = "authenticated"
    BY <1>2, <2>1
  <2> QED BY <1>1, <2>1, <2>2, <2>3, <2>4, GatewaySends
<1> QED BY <1>3, <1>4

\* A gateway that streams nothing and has no join to finish.
LEMMA NoStream ==
    ASSUME gw'.stream = None, gw'.durable = None
    PROVE  StreamInv'
BY DEF StreamInv

\* Serving a request, the gateway streams nothing and no join is open.
LEMMA ServesIdle ==
    ASSUME SessionInv, CatchupInv, NEW t, Serves(t)
    PROVE  /\ gw.stream = None /\ gw.durable = None /\ ~gw.joining /\ gw \in ConnSet
           /\ c2s # <<>> /\ c2s' = Tail(c2s) /\ Head(c2s).t = t
           /\ Head(c2s).c \in {None} \union Nat /\ Head(c2s).c <= Last
           /\ t = "sync_request" => Head(c2s).c \in 0 .. dcur
<1>1. c2s \in Seq(FrameSet) /\ gw \in ConnSet /\ c2s # <<>>
  BY WireFacts, CursorFacts DEF Serves
<1>2. Head(c2s) = c2s[1] /\ 1 \in DOMAIN c2s
  BY <1>1, QueueTail
<1>3. gw.durable = None
  BY DEF Serves, CatchupInv, StreamInv
<1> QED BY <1>1, <1>2, <1>3, WireFacts DEF Serves, CatchupInv, Bounded, Below, RequestInv

\* A frame of no operations.
LEMMA PlainFrame ==
    ASSUME NEW t \in FrameTypes, NEW c \in {None} \union Nat
    PROVE  /\ Frame(t, {}, c) \in FrameSet /\ Frame(t, {}, c).t = t /\ Frame(t, {}, c).c = c
           /\ Frame(t, {}, c).ops = {}
           /\ Plain(t) \in FrameSet /\ Plain(t).t = t /\ Plain(t).c = None /\ Plain(t).ops = {}
BY DEF Frame, Plain, FrameSet

\* A new connection, the handshake and the failure of a page.
LEMMA HandshakeCatchup ==
    ASSUME SessionInv, SessionInv', CatchupInv, UNCHANGED <<store, worker, s>>,
           Opens \/ GwHello \/ GwAuthenticate \/ GwFetch \/ GwPageFails
    PROVE  CatchupInv'
<1>1. UNCHANGED <<at, floor, have, dcur, covered>> /\ Last' = Last /\ Last \in Nat /\ None <= Last
  BY LastFacts DEF store, worker, None
<1>2. ASSUME Opens PROVE CatchupInv'
  <2>1. gw'.stream = None /\ gw'.durable = None /\ gw'.state = "connected" /\ s2c' = s2c
    BY <1>2 DEF Opens, NoConn
  <2>2. c2s' = <<Plain("hello")>>
    BY <1>2 DEF Opens
  <2>3. Plain("hello") \in FrameSet /\ Plain("hello").t = "hello" /\ Plain("hello").c = None
    BY PlainFrame DEF FrameTypes
  <2>4. \A i \in DOMAIN c2s' : c2s'[i] = Plain("hello")
    BY <2>2
  <2>5. RequestInv' /\ Below(c2s)'
    BY <1>1, <2>3, <2>4 DEF RequestInv, Below
  <2>6. ~Remote(Plain("hello"))
    BY <2>3 DEF Remote
  <2> QED BY <1>1, <2>1, <2>3, <2>5, <2>6, NoStream, GatewayAnswers
<1>3. ASSUME GwHello PROVE CatchupInv'
  <2>1. /\ gw.stream = None /\ gw.durable = None /\ ~gw.joining /\ gw \in ConnSet
        /\ c2s # <<>> /\ c2s' = Tail(c2s)
    BY <1>3, ServesIdle DEF GwHello
  <2>2. RequestInv' /\ Below(c2s)'
    BY <1>1, <2>1, RequestsServed
  <2>3. gw'.stream = None /\ gw'.durable = None /\ (gw'.state = gw.state \/ gw'.state = "hello_done")
    BY <1>3, <2>1 DEF GwHello, ConnSet
  <2>4. s2c' = s2c \/ s2c' = Append(s2c, Plain("hello_ack"))
    BY <1>3 DEF GwHello
  <2>5. Plain("hello_ack") \in FrameSet /\ Plain("hello_ack").c = None /\ ~Remote(Plain("hello_ack"))
    BY PlainFrame DEF FrameTypes, Remote
  <2> QED BY <1>1, <2>2, <2>3, <2>4, <2>5, NoStream, GatewayAnswers
<1>4. ASSUME GwAuthenticate PROVE CatchupInv'
  <2>1. /\ gw.stream = None /\ gw.durable = None /\ ~gw.joining /\ gw \in ConnSet
        /\ c2s # <<>> /\ c2s' = Tail(c2s)
    BY <1>4, ServesIdle DEF GwAuthenticate
  <2>2. RequestInv' /\ Below(c2s)'
    BY <1>1, <2>1, RequestsServed
  <2>3. gw'.stream = None /\ gw'.durable = None
    BY <1>4, <2>1 DEF GwAuthenticate, ConnSet
  <2>4. (gw' = gw /\ s2c' = s2c) \/ s2c' = Append(s2c, Plain("authenticated"))
    BY <1>4 DEF GwAuthenticate
  <2>5. Plain("authenticated") \in FrameSet /\ Plain("authenticated").c = None
        /\ ~Remote(Plain("authenticated")) /\ Plain("authenticated").t = "authenticated"
    BY PlainFrame DEF FrameTypes, Remote
  <2> QED BY <1>1, <2>2, <2>3, <2>4, <2>5, NoStream, GatewayAnswers
<1>5. ASSUME GwFetch PROVE CatchupInv'
  <2> DEFINE f == Frame("snapshot_payload", {}, Head(c2s).c)
  <2>1. /\ gw.stream = None /\ gw.durable = None /\ c2s # <<>> /\ c2s' = Tail(c2s)
        /\ Head(c2s).c \in {None} \union Nat /\ Head(c2s).c <= Last
    BY <1>5, ServesIdle DEF GwFetch
  <2>2. RequestInv' /\ Below(c2s)'
    BY <1>1, <2>1, RequestsServed
  <2>3. gw' = gw /\ (s2c' = s2c \/ s2c' = Append(s2c, f))
    BY <1>5 DEF GwFetch
  <2>4. f \in FrameSet /\ f.c <= Last /\ ~Remote(f)
    BY <2>1, PlainFrame DEF FrameTypes, Remote
  <2> HIDE DEF f
  <2> QED BY <1>1, <2>1, <2>2, <2>3, <2>4, NoStream, GatewayAnswers
<1>6. ASSUME GwPageFails PROVE CatchupInv'
  <2>1. gw.stream # None /\ c2s' = c2s /\ s2c' = Append(s2c, Plain("database_unavailable"))
        /\ gw' = [gw EXCEPT !.stream = None, !.joining = FALSE]
    BY <1>6 DEF GwPageFails
  <2>2. gw.state \in {"syncing", "ready"} /\ gw.durable = None /\ gw \in ConnSet
    BY <2>1, CursorFacts DEF CatchupInv, StreamInv
  <2>3. gw'.stream = None /\ gw'.durable = None /\ gw'.state = gw.state
    BY <2>1, <2>2 DEF ConnSet
  <2>4. RequestInv' /\ Below(c2s)'
    BY <1>1, <2>1, RequestsServed
  <2>5. Plain("database_unavailable") \in FrameSet /\ Plain("database_unavailable").c = None
        /\ ~Remote(Plain("database_unavailable"))
    BY PlainFrame DEF FrameTypes, Remote
  <2> QED BY <1>1, <2>1, <2>3, <2>4, <2>5, NoStream, GatewayAnswers
<1> QED BY <1>2, <1>3, <1>4, <1>5, <1>6

\* A join in its two steps, and a request for catch-up.
LEMMA JoinCatchup ==
    ASSUME Calm, SessionInv, SessionInv', CatchupInv, GwJoin \/ GwRegister \/ GwSync
    PROVE  CatchupInv'
<1>1. UNCHANGED <<at, floor, have, dcur, covered>> /\ Last' = Last /\ Last \in Nat /\ None <= Last
      /\ UNCHANGED <<store, worker, s>>
  <2>1. UNCHANGED <<store, worker, s>>
    BY DEF GwJoin, GwRegister, GwSync
  <2> QED BY <2>1, LastFacts DEF store, worker, None
<1>2. ASSUME GwJoin PROVE CatchupInv'
  <2>1. /\ gw.stream = None /\ gw.durable = None /\ ~gw.joining /\ gw \in ConnSet
        /\ c2s # <<>> /\ c2s' = Tail(c2s)
    BY <1>2, ServesIdle DEF GwJoin
  <2>2. RequestInv' /\ Below(c2s)' /\ s2c' = s2c
    <3>1. s2c' = s2c
      BY <1>2 DEF GwJoin
    <3> QED BY <1>1, <2>1, <3>1, RequestsServed
  <2>3. \/ gw' = gw
        \/ gw.state = "authenticated" /\ gw' = [gw EXCEPT !.joining = TRUE, !.durable = Last]
    BY <1>2 DEF GwJoin
  <2>4. \/ gw' = gw
        \/ gw'.state = "authenticated" /\ gw'.joining /\ gw'.durable = Last /\ gw'.stream = None
           /\ gw.state = "authenticated"
    BY <2>1, <2>3 DEF ConnSet
  <2>5. StreamInv'
    <3>1. CASE gw' = gw
      BY <2>1, <3>1, NoStream
    <3>2. CASE gw' # gw
      BY <1>1, <2>4, <3>2 DEF StreamInv, CatchupInv, Bounded, Ops
    <3> QED BY <3>1, <3>2
  <2>6. Plain("hello") \in FrameSet /\ Plain("hello").c = None /\ ~Remote(Plain("hello"))
    BY PlainFrame DEF FrameTypes, Remote
  <2> QED BY <1>1, <2>1, <2>2, <2>4, <2>5, <2>6, GatewayAnswers
<1>3. ASSUME GwRegister PROVE CatchupInv'
  <2>1. gw.durable # None /\ c2s' = c2s /\ s2c' = Append(s2c, Plain("join_accepted"))
        /\ gw' = [gw EXCEPT !.state = "syncing", !.stream = gw.durable, !.durable = None]
    BY <1>3 DEF GwRegister
  <2>2. /\ gw.state = "authenticated" /\ gw.joining /\ gw \in ConnSet /\ gw.durable <= Last
        /\ \A o \in Ops : at[o] <= gw.durable
    BY <2>1, CursorFacts DEF CatchupInv, StreamInv, Bounded
  <2>3. gw'.state = "syncing" /\ gw'.joining /\ gw'.stream = gw.durable /\ gw'.durable = None
    BY <2>1, <2>2 DEF ConnSet
  <2>4. RequestInv' /\ Below(c2s)'
    BY <1>1, <2>1, RequestsServed
  <2>5. StreamInv'
    BY <1>1, <2>2, <2>3 DEF StreamInv, Ops
  <2>6. Plain("join_accepted") \in FrameSet /\ Plain("join_accepted").c = None
        /\ ~Remote(Plain("join_accepted"))
    BY PlainFrame DEF FrameTypes, Remote
  <2> QED BY <1>1, <2>1, <2>2, <2>3, <2>4, <2>5, <2>6, GatewayAnswers
<1>4. ASSUME GwSync PROVE CatchupInv'
  <2> DEFINE c == Head(c2s).c
             f == Frame("snapshot_resync_required", {}, floor)
  <2>1. /\ gw.stream = None /\ gw.durable = None /\ ~gw.joining /\ gw \in ConnSet
        /\ c2s # <<>> /\ c2s' = Tail(c2s) /\ c \in 0 .. dcur /\ c <= Last
    BY <1>4, ServesIdle DEF GwSync
  <2>2. RequestInv' /\ Below(c2s)'
    BY <1>1, <2>1, RequestsServed
  <2>3. \/ gw' = gw /\ s2c' = s2c
        \/ gw' = gw /\ s2c' = Append(s2c, f)
        \/ /\ gw.state \in {"syncing", "ready"} /\ ~(c < floor) /\ s2c' = s2c
           /\ gw' = [gw EXCEPT !.stream = c]
    BY <1>4 DEF GwSync
  <2>4. f \in FrameSet /\ f.c <= Last /\ ~Remote(f)
    BY CursorFacts, PlainFrame DEF FrameTypes, Remote, CatchupInv, Bounded
  <2> HIDE DEF f, c
  <2>5. \/ gw' = gw
        \/ /\ gw.state \in {"syncing", "ready"} /\ ~(c < floor) /\ gw'.state = gw.state
           /\ gw'.stream = c /\ gw'.durable = None /\ gw'.joining = gw.joining /\ s2c' = s2c
    BY <2>1, <2>3 DEF ConnSet
  <2>6. StreamInv'
    <3>1. CASE gw' = gw
      BY <2>1, <3>1, NoStream
    <3>2. CASE gw' # gw
      <4>1. c \in Nat /\ floor <= c /\ dcur \in Nat /\ c <= dcur
        BY <2>1, <2>5, <3>2, CursorFacts
      <4>2. \A o \in Prefix(c) : o \in have
        <5>1. Prefix(c) \subseteq Prefix(dcur)
          BY <4>1, CursorFacts DEF Prefix
        <5> QED BY <5>1 DEF CatchupInv, CursorInv, GaplessCursor
      <4>3. \A o \in Prefix(gw.stream)' : Coming(o, Len(s2c))'
        BY <1>1, <2>5, <3>2, <4>2 DEF Prefix, Coming, Queued, Ops
      <4> QED BY <1>1, <2>1, <2>5, <3>2, <4>1, <4>3 DEF StreamInv
    <3> QED BY <3>1, <3>2
  <2>7. s2c' = s2c \/ s2c' = Append(s2c, f)
    BY <2>3
  <2>8. gw'.stream <= Last /\ gw'.durable <= Last
    BY <1>1, <2>1, <2>5
  <2>9. gw'.state = gw.state
    BY <2>5
  <2> QED BY <1>1, <2>2, <2>4, <2>6, <2>7, <2>8, <2>9, GatewayAnswers
<1> QED BY <1>2, <1>3, <1>4

\* A commit while no join is open: the broadcast follows every page sent, and a
\* catch-up that goes on will still reach the operation.
LEMMA CommitCatchup ==
    ASSUME Calm, SessionInv, SessionInv', CatchupInv, PeerCommits \/ GwIngest
    PROVE  CatchupInv'
<1>1. UNCHANGED <<gw, floor, worker, s>> /\ UNCHANGED <<have, dcur, covered>> /\ ~gw.joining
  BY DEF PeerCommits, GwIngest, worker, Serves
<1>2. /\ s2c \in Seq(FrameSet) /\ Len(s2c) \in Nat /\ DOMAIN s2c = 1 .. Len(s2c)
      /\ gw \in ConnSet /\ gw.stream \in {None} \union Nat /\ floor \in Nat
  BY WireFacts, CursorFacts
<1>3. gw.durable = None /\ gw.stream <= Last /\ floor <= Last
  BY <1>1 DEF CatchupInv, StreamInv, Bounded
<1>4. PICK ops \in SUBSET Ops, f \in FrameSet :
        /\ at' = Ingested(ops) \/ at' = at
        /\ s2c' = s2c \/ s2c' = Append(s2c, f)
        /\ f.c = None /\ f.t \in {"peer_ops", "durable_ack"}
        /\ f.t = "peer_ops" /\ s2c' = Append(s2c, f) => gw.state \in {"syncing", "ready"}
        /\ c2s' = c2s \/ (c2s # <<>> /\ c2s' = Tail(c2s))
  <2>1. CASE PeerCommits
    <3>1. PICK o \in Ops \ Own :
          /\ at' = Ingested({o})
          /\ s2c' = IF gw.state \in {"syncing", "ready"}
                    THEN Append(s2c, Frame("peer_ops", {o}, None)) ELSE s2c
      BY <2>1 DEF PeerCommits
    <3> DEFINE f == Frame("peer_ops", {o}, None)
    <3>2. f \in FrameSet /\ f.c = None /\ f.t = "peer_ops"
      BY DEF Frame, FrameSet, FrameTypes
    <3>3. (s2c' = s2c \/ s2c' = Append(s2c, f))
          /\ (s2c' = Append(s2c, f) => gw.state \in {"syncing", "ready"})
      <4>1. CASE gw.state \in {"syncing", "ready"}
        BY <3>1, <4>1
      <4>2. CASE gw.state \notin {"syncing", "ready"}
        <5>1. s2c' = s2c
          BY <3>1, <4>2
        <5>2. Len(Append(s2c, f)) = Len(s2c) + 1 /\ Len(s2c) \in Int
          BY <1>2, <3>2, QueueAppend
        <5>3. Len(Append(s2c, f)) # Len(s2c)
          BY <5>2
        <5> QED BY <5>1, <5>3, Zenon
      <4> QED BY <4>1, <4>2
    <3>4. c2s' = c2s /\ {o} \in SUBSET Ops
      BY <2>1 DEF PeerCommits
    <3> HIDE DEF f
    <3> QED BY <3>1, <3>2, <3>3, <3>4
  <2>2. CASE GwIngest
    <3> DEFINE ops == Head(c2s).ops
               f == Frame("durable_ack", ops, None)
    <3>1. c2s # <<>> /\ c2s' = Tail(c2s) /\ ops \in SUBSET Ops
      <4>1. c2s # <<>> /\ c2s' = Tail(c2s) /\ Head(c2s).ops \subseteq Own \cap have
        BY <2>2, ServesFacts DEF GwIngest, Serves
      <4> QED BY <4>1, OpsFacts
    <3>2. f \in FrameSet /\ f.c = None /\ f.t = "durable_ack"
      BY <3>1 DEF Frame, FrameSet, FrameTypes
    <3>3. (at' = Ingested(ops) \/ at' = at) /\ (s2c' = s2c \/ s2c' = Append(s2c, f))
      BY <2>2 DEF GwIngest
    <3> HIDE DEF f, ops
    <3> QED BY <3>1, <3>2, <3>3
  <2> QED BY <2>1, <2>2
<1>5. Grown
  BY <1>4, GrownIdle, GrownIngest
<1>6. RequestInv' /\ Below(c2s)'
  BY <1>1, <1>4, <1>5, RequestsServed DEF Grown
<1>7. \A o : Queued(o)' <=> Queued(o)
  BY <1>1 DEF Queued
<1>8. /\ Len(s2c') >= Len(s2c) /\ Len(s2c') \in Nat
      /\ \A i \in DOMAIN s2c : s2c'[i] = s2c[i]
      /\ \A i \in DOMAIN s2c' : i \notin DOMAIN s2c => s2c'[i] = f /\ s2c' = Append(s2c, f)
  <2>1. CASE s2c' = s2c
    <3>1. Len(s2c) >= Len(s2c)
      BY <1>2
    <3> QED BY <1>2, <2>1, <3>1, Zenon
  <2>2. CASE s2c' = Append(s2c, f)
    <3>1. /\ Len(s2c') = Len(s2c) + 1 /\ (\A i \in DOMAIN s2c : s2c'[i] = s2c[i])
          /\ DOMAIN s2c' = 1 .. Len(s2c) + 1 /\ s2c'[Len(s2c) + 1] = f
      BY <1>2, <2>2, QueueAppend
    <3>2. \A i \in 1 .. Len(s2c) + 1 : i \notin 1 .. Len(s2c) => i = Len(s2c) + 1
      BY <1>2
    <3> QED BY <1>2, <2>2, <3>1, <3>2
  <2> QED BY <1>4, <2>1, <2>2
<1>9. StreamInv'
  <2>1. CASE gw.stream = None
    BY <1>1, <1>3, <2>1, NoStream
  <2>2. CASE gw.stream # None
    <3>1. gw.state \in {"syncing", "ready"} /\ floor <= gw.stream
          /\ \A o \in Prefix(gw.stream) : Coming(o, Len(s2c))
      BY <1>1, <2>2 DEF CatchupInv, StreamInv
    <3>2. \A o : Coming(o, Len(s2c)) => Coming(o, Len(s2c))'
      BY <1>2, <1>7, <1>8 DEF Coming, Remote
    <3>3. \A o \in Prefix(gw.stream)' : o \in Prefix(gw.stream)
      <4> SUFFICES ASSUME NEW o \in Ops, at'[o] > 0, at'[o] <= gw.stream
                   PROVE  o \in Prefix(gw.stream)
        BY <1>1 DEF Prefix, Ops
      <4> QED BY <1>2, <1>3, <1>5, PrefixKept
    <3> QED BY <1>1, <1>3, <2>2, <3>1, <3>2, <3>3 DEF StreamInv
  <2> QED BY <2>1, <2>2
<1>10. \A i \in DOMAIN s2c' : i \notin DOMAIN s2c =>
               /\ s2c'[i].c <= Last'
               /\ s2c'[i].t = "peer_ops" => s2c'[i].c = None
               /\ Remote(s2c'[i]) => gw.state \in {"syncing", "ready"}
               /\ s2c'[i].t # "sync_batch"
  <2>1. None <= Last' /\ f.t # "sync_batch" /\ (Remote(f) => f.t = "peer_ops")
    BY <1>4, <1>5 DEF Grown, None, Remote
  <2> QED BY <1>4, <1>8, <2>1
<1>11. floor' <= Last' /\ gw'.stream <= Last' /\ gw'.durable <= Last'
  <2>1. floor \in Int /\ gw.stream \in Int /\ gw.durable \in Int
        /\ floor <= Last /\ gw.stream <= Last /\ gw.durable <= Last
    BY <1>2, <1>3, <1>5 DEF None, Grown
  <2> QED BY <1>1, <1>5, <2>1 DEF Grown
<1> QED BY <1>1, <1>5, <1>6, <1>8, <1>9, <1>10, <1>11, GatewaySends

\* A page of a catch-up brings all that its cursor names and that was not sent
\* before; the catch-up of a join has nothing left to send.
LEMMA PageCatchup ==
    ASSUME SessionInv, SessionInv', CatchupInv, GwPage
    PROVE  CatchupInv'
<1> DEFINE left == {at[o] : o \in {p \in Ops : at[p] > gw.stream /\ at[p] > floor}}
           page(c) == Frame("sync_batch", {o \in Ops : at[o] \in left /\ at[o] <= c}, c)
           end == Plain("sync_done")
           idle == [gw EXCEPT !.stream = None, !.joining = FALSE, !.state = "ready"]
<1>1. UNCHANGED <<c2s, store, worker, s>> /\ UNCHANGED <<at, floor, have, dcur, covered>>
      /\ gw.stream # None
  BY DEF GwPage, store, worker
<1>2. /\ s2c \in Seq(FrameSet) /\ Len(s2c) \in Nat /\ DOMAIN s2c = 1 .. Len(s2c)
      /\ gw \in ConnSet /\ gw.stream \in Nat /\ floor \in Nat /\ at \in [Ops -> Nat]
      /\ gw.joining \in BOOLEAN
  BY <1>1, WireFacts, CursorFacts
<1>3. /\ gw.durable = None /\ gw.state \in {"syncing", "ready"} /\ floor <= Last
      /\ \A o \in Ops : at[o] <= Last
  BY <1>1 DEF CatchupInv, StreamInv, Bounded
<1>4. Grown /\ Last' = Last
  BY <1>1, GrownIdle
<1>5. RequestInv' /\ Below(c2s)'
  BY <1>1, <1>4, RequestsServed DEF Grown
<1>6. end \in FrameSet /\ end.t = "sync_done" /\ end.c = None
  BY PlainFrame DEF FrameTypes
<1>7. \/ s2c' = Append(s2c, end) /\ gw' = idle
      \/ \E c \in left :
            \/ s2c' = Append(Append(s2c, page(c)), end) /\ gw' = idle
            \/ s2c' = Append(s2c, page(c)) /\ gw' = [gw EXCEPT !.stream = c]
  BY DEF GwPage
<1>8. idle.stream = None /\ idle.durable = None /\ idle.state = "ready"
  BY <1>2, <1>3 DEF ConnSet
<1>9. ASSUME NEW c \in left
      PROVE  /\ c \in Nat /\ c <= Last /\ c # None /\ ~gw.joining
             /\ page(c) \in FrameSet /\ page(c).t = "sync_batch" /\ page(c).c = c
             /\ \A o \in Ops : at[o] > 0 /\ at[o] <= c =>
                    Coming(o, Len(s2c)) \/ o \in page(c).ops
             /\ c > floor
  <2>1. PICK p \in Ops : c = at[p] /\ at[p] > gw.stream /\ at[p] > floor
    BY <1>9
  <2>2. c \in Nat /\ c <= Last /\ c # None /\ c > floor
    BY <1>2, <1>3, <2>1 DEF None
  <2>3. ~gw.joining
    <3>1. gw.joining => at[p] <= gw.stream
      BY <1>1 DEF CatchupInv, StreamInv
    <3> QED BY <1>2, <2>1, <3>1
  <2>4. page(c) \in FrameSet /\ page(c).t = "sync_batch" /\ page(c).c = c
    BY <2>2 DEF Frame, FrameSet, FrameTypes
  <2>5. floor <= gw.stream /\ \A o \in Prefix(gw.stream) : Coming(o, Len(s2c))
    BY <1>1, <2>3 DEF CatchupInv, StreamInv
  <2>6. ASSUME NEW o \in Ops, at[o] > 0, at[o] <= c
        PROVE  Coming(o, Len(s2c)) \/ o \in page(c).ops
    <3>1. CASE at[o] <= gw.stream
      BY <2>5, <2>6, <3>1 DEF Prefix
    <3>2. CASE ~(at[o] <= gw.stream)
      <4>1. at[o] > gw.stream /\ at[o] > floor
        BY <1>2, <2>5, <3>2
      <4>2. at[o] \in left
        BY <4>1
      <4> QED BY <2>6, <4>2 DEF Frame
    <3> QED BY <3>1, <3>2
  <2> QED BY <2>2, <2>3, <2>4, <2>6
<1> HIDE DEF left, page, end, idle
<1>10. ASSUME Len(s2c') >= Len(s2c), \A i \in DOMAIN s2c : s2c'[i] = s2c[i],
              \A i \in DOMAIN s2c' : i \notin DOMAIN s2c =>
                  s2c'[i] = end \/ \E c \in left : s2c'[i] = page(c),
              StreamInv', gw'.stream <= Last', gw'.durable = None
       PROVE  CatchupInv'
  <2>1. \A i \in DOMAIN s2c' : i \notin DOMAIN s2c =>
               /\ s2c'[i].c <= Last'
               /\ s2c'[i].t = "peer_ops" => s2c'[i].c = None
               /\ Remote(s2c'[i]) => gw.state \in {"syncing", "ready"}
               /\ s2c'[i].t = "sync_batch" =>
                     \A o \in Ops : at'[o] > 0 /\ at'[o] <= s2c'[i].c =>
                        Coming(o, Len(s2c)) \/ o \in s2c'[i].ops
    <3> SUFFICES ASSUME NEW i \in DOMAIN s2c', i \notin DOMAIN s2c
                 PROVE  /\ s2c'[i].c <= Last'
                        /\ s2c'[i].t = "peer_ops" => s2c'[i].c = None
                        /\ s2c'[i].t = "sync_batch" =>
                              \A o \in Ops : at'[o] > 0 /\ at'[o] <= s2c'[i].c =>
                                 Coming(o, Len(s2c)) \/ o \in s2c'[i].ops
      BY <1>3
    <3>1. CASE s2c'[i] = end
      BY <1>4, <1>6, <3>1 DEF None, Grown
    <3>2. CASE \E c \in left : s2c'[i] = page(c)
      BY <1>1, <1>4, <1>9, <3>2
    <3> QED BY <1>10, <3>1, <3>2
  <2>2. floor' <= Last' /\ gw'.durable <= Last'
    BY <1>1, <1>3, <1>4, <1>10 DEF None, Grown
  <2> QED BY <1>1, <1>3, <1>4, <1>5, <1>10, <2>1, <2>2, GatewaySends
<1>11. CASE s2c' = Append(s2c, end) /\ gw' = idle
  <2>1. /\ Len(s2c') >= Len(s2c) /\ (\A i \in DOMAIN s2c : s2c'[i] = s2c[i])
        /\ DOMAIN s2c' = 1 .. Len(s2c) + 1 /\ s2c'[Len(s2c) + 1] = end
    BY <1>2, <1>6, <1>11, QueueAppend
  <2>2. \A i \in DOMAIN s2c' : i \notin DOMAIN s2c => s2c'[i] = end
    BY <1>2, <2>1
  <2>3. gw'.stream <= Last'
    BY <1>4, <1>8, <1>11 DEF None, Grown
  <2> QED BY <1>8, <1>10, <1>11, <2>1, <2>2, <2>3, NoStream
<1>12. ASSUME NEW c \in left, s2c' = Append(Append(s2c, page(c)), end), gw' = idle
       PROVE  CatchupInv'
  <2> DEFINE q == Append(s2c, page(c))
  <2>1. /\ q \in Seq(FrameSet) /\ Len(q) = Len(s2c) + 1 /\ (\A i \in DOMAIN s2c : q[i] = s2c[i])
        /\ DOMAIN q = 1 .. Len(s2c) + 1 /\ q[Len(s2c) + 1] = page(c)
    BY <1>2, <1>9, QueueAppend
  <2>2. s2c' = Append(q, end)
    BY <1>12
  <2> HIDE DEF q
  <2>3. /\ Len(s2c') = Len(q) + 1 /\ (\A i \in DOMAIN q : s2c'[i] = q[i])
        /\ DOMAIN s2c' = 1 .. Len(q) + 1 /\ s2c'[Len(q) + 1] = end
    BY <1>6, <2>1, <2>2, QueueAppend
  <2>4. Len(s2c') >= Len(s2c) /\ \A i \in DOMAIN s2c : s2c'[i] = s2c[i]
    BY <1>2, <2>1, <2>3
  <2>5. \A i \in DOMAIN s2c' : i \notin DOMAIN s2c => s2c'[i] = end \/ s2c'[i] = page(c)
    <3> SUFFICES ASSUME NEW i \in DOMAIN s2c', i \notin DOMAIN s2c
                 PROVE  s2c'[i] = end \/ s2c'[i] = page(c)
      OBVIOUS
    <3>1. i = Len(s2c) + 1 \/ i = Len(q) + 1
      BY <1>2, <2>1, <2>3
    <3> QED BY <1>2, <2>1, <2>3, <3>1
  <2>6. gw'.stream <= Last'
    BY <1>4, <1>8, <1>12 DEF None, Grown
  <2> QED BY <1>8, <1>10, <1>12, <2>4, <2>5, <2>6, NoStream
<1>13. ASSUME NEW c \in left, s2c' = Append(s2c, page(c)), gw' = [gw EXCEPT !.stream = c]
       PROVE  CatchupInv'
  <2>1. /\ Len(s2c') = Len(s2c) + 1 /\ (\A i \in DOMAIN s2c : s2c'[i] = s2c[i])
        /\ DOMAIN s2c' = 1 .. Len(s2c) + 1 /\ s2c'[Len(s2c) + 1] = page(c)
    BY <1>2, <1>9, <1>13, QueueAppend
  <2>2. \A i \in DOMAIN s2c' : i \notin DOMAIN s2c => s2c'[i] = page(c)
    BY <1>2, <2>1
  <2>3. gw'.stream = c /\ gw'.durable = None /\ gw'.joining = gw.joining /\ gw'.state = gw.state
    BY <1>2, <1>3, <1>13 DEF ConnSet
  <2>4. \A o \in Prefix(gw.stream)' : Coming(o, Len(s2c))'
    <3> SUFFICES ASSUME NEW o \in Ops, at[o] > 0, at[o] <= c PROVE Coming(o, Len(s2c))'
      BY <1>1, <2>3 DEF Prefix, Ops
    <3>1. Coming(o, Len(s2c)) \/ o \in page(c).ops
      BY <1>9
    <3>2. Queued(o)' <=> Queued(o)
      BY <1>1 DEF Queued
    <3>3. CASE Coming(o, Len(s2c))
      BY <1>2, <2>1, <3>2, <3>3 DEF Coming, Remote
    <3>4. CASE o \in page(c).ops
      <4>1. Len(s2c) + 1 \in 1 .. Len(s2c') /\ Remote(s2c'[Len(s2c) + 1])
        BY <1>2, <1>9, <2>1 DEF Remote
      <4> QED BY <2>1, <3>4, <4>1 DEF Coming, Remote
    <3> QED BY <3>1, <3>3, <3>4
  <2>5. StreamInv'
    <3>1. floor' <= gw'.stream
      BY <1>1, <1>2, <1>9, <2>3
    <3> QED BY <1>3, <1>9, <2>3, <2>4, <3>1 DEF StreamInv
  <2>6. gw'.stream <= Last' /\ Len(s2c') >= Len(s2c)
    BY <1>2, <1>4, <1>9, <2>1, <2>3
  <2> QED BY <1>10, <2>1, <2>2, <2>3, <2>5, <2>6
<1> QED BY <1>7, <1>11, <1>12, <1>13

\* Compaction while nothing is streamed.
LEMMA CompactCatchup ==
    ASSUME Calm, SessionInv, SessionInv', CatchupInv, Compacts
    PROVE  CatchupInv'
<1>1. UNCHANGED <<c2s, s2c, gw, at, worker, s>> /\ gw.stream = None
      /\ UNCHANGED <<have, dcur, covered>>
  BY DEF Compacts, wire, worker
<1>2. Grown /\ Last' = Last /\ Last \in Nat /\ floor \in Nat
  BY <1>1, GrownIdle, LastFacts, CursorFacts
<1>3. floor' <= Last'
  <2>1. floor' \in floor + 1 .. Last
    BY DEF Compacts
  <2> QED BY <1>2, <2>1
<1>4. RequestInv' /\ Below(c2s)'
  BY <1>1, <1>2, RequestsServed
<1>5. gw.stream <= Last' /\ gw.durable <= Last'
  BY <1>2 DEF CatchupInv, Bounded
<1>6. StreamInv'
  BY <1>1 DEF StreamInv, CatchupInv, Ops
<1>7. s2c \in Seq(FrameSet) /\ Len(s2c) >= Len(s2c) /\ \A i \in DOMAIN s2c' : i \in DOMAIN s2c
  BY <1>1, WireFacts
<1> QED BY <1>1, <1>2, <1>3, <1>4, <1>5, <1>6, <1>7, GatewaySends

-----------------------------------------------------------------------------
(* Steps of the client *)

\* The client sends a frame, or none.
ClientSends ==
    \/ c2s' = c2s
    \/ \E f \in FrameSet : /\ c2s' = Append(c2s, f) /\ f.c <= Last
                           /\ f.t = "sync_request" => f.c \in 0 .. dcur'

\* The client takes a frame, or none, and queues what it carries.
ClientTakes ==
    \/ s2c' = s2c
    \/ /\ s2c # <<>> /\ s2c' = Tail(s2c)
       /\ s'.failed => Head(s2c).t # "authenticated"
       /\ Remote(Head(s2c)) => \A o \in Head(s2c).ops : Queued(o)'

\* The wire and the gateway's view of it, while the client works.
LEMMA ClientWire ==
    ASSUME SessionInv, SessionInv', CatchupInv, UNCHANGED <<gw, at, floor>>, dcur <= dcur',
           s'.failed => s.failed, \A o \in Ops : Queued(o) => Queued(o)',
           ClientSends, ClientTakes
    PROVE  /\ PagesInv' /\ RequestInv' /\ StreamInv' /\ FailedInv' /\ Below(c2s)' /\ Below(s2c)'
           /\ (\A o \in Ops : at'[o] <= Last') /\ floor' <= Last'
           /\ gw'.stream <= Last' /\ gw'.durable <= Last'
           /\ Last' = Last /\ Last \in Nat /\ \A c : Prefix(c)' = Prefix(c)
<1>1. Last' = Last /\ Last \in Nat /\ \A c : Prefix(c)' = Prefix(c)
  BY LastFacts DEF Prefix, Ops
<1>2. /\ Len(s2c) \in Nat /\ DOMAIN s2c = 1 .. Len(s2c) /\ s2c \in Seq(FrameSet)
      /\ Len(c2s) \in Nat /\ DOMAIN c2s = 1 .. Len(c2s) /\ c2s \in Seq(FrameSet)
      /\ \A i \in DOMAIN s2c : s2c[i].ops \subseteq Ops /\ s2c[i].c \in {None} \union Nat
  BY WireFacts
<1>3. dcur \in Nat /\ dcur' \in Nat
  BY DEF SessionInv, TypeOK
<1>4. (\A o \in Ops : at'[o] <= Last') /\ floor' <= Last'
      /\ gw'.stream <= Last' /\ gw'.durable <= Last'
  BY <1>1 DEF CatchupInv, Bounded
\* What the client sends.
<1>5. RequestInv' /\ Below(c2s)'
  <2>1. \A i \in DOMAIN c2s : /\ c2s[i].c <= Last
                              /\ c2s[i].t = "sync_request" => c2s[i].c \in 0 .. dcur'
    BY <1>3 DEF CatchupInv, Bounded, Below, RequestInv
  <2>2. CASE c2s' = c2s
    BY <1>1, <2>1, <2>2 DEF RequestInv, Below
  <2>3. CASE c2s' # c2s
    <3>1. PICK f \in FrameSet : /\ c2s' = Append(c2s, f) /\ f.c <= Last
                                /\ f.t = "sync_request" => f.c \in 0 .. dcur'
      BY <2>3 DEF ClientSends
    <3>2. /\ DOMAIN c2s' = 1 .. Len(c2s) + 1 /\ c2s'[Len(c2s) + 1] = f
          /\ \A i \in 1 .. Len(c2s) : c2s'[i] = c2s[i]
      BY <1>2, <3>1, QueueAppend
    <3>3. \A i \in 1 .. Len(c2s) + 1 : i \in 1 .. Len(c2s) \/ i = Len(c2s) + 1
      BY <1>2
    <3> QED BY <1>1, <1>2, <2>1, <3>1, <3>2, <3>3 DEF RequestInv, Below
  <2> QED BY <2>2, <2>3
\* What is still coming.
<1>6. CASE s2c' = s2c
  <2>1. \A o \in Ops : \A k : Coming(o, k) => Coming(o, k)'
    BY <1>6 DEF Coming, Remote
  <2>2. PagesInv' /\ Below(s2c)'
    BY <1>1, <1>6, <2>1 DEF CatchupInv, PagesInv, Bounded, Below, Prefix
  <2>3. StreamInv'
    BY <1>1, <1>6, <2>1 DEF CatchupInv, StreamInv, Prefix, Ops
  <2>4. FailedInv'
    BY <1>6 DEF CatchupInv, FailedInv, Remote
  <2> QED BY <1>1, <1>4, <1>5, <2>2, <2>3, <2>4
<1>7. CASE s2c' # s2c
  <2>1. /\ s2c # <<>> /\ s2c' = Tail(s2c)
        /\ s'.failed => Head(s2c).t # "authenticated"
        /\ Remote(Head(s2c)) => \A o \in Head(s2c).ops : Queued(o)'
    BY <1>7 DEF ClientTakes
  <2>2. /\ Head(s2c) = s2c[1] /\ Len(s2c') = Len(s2c) - 1 /\ DOMAIN s2c' = 1 .. Len(s2c) - 1
        /\ \A i \in 1 .. Len(s2c) - 1 : s2c'[i] = s2c[i + 1]
        /\ Len(s2c) > 0
    BY <1>2, <2>1, QueueTail
  <2>3. ASSUME NEW o \in Ops, NEW k \in 1 .. Len(s2c), Coming(o, k) PROVE Coming(o, k - 1)'
    <3>1. CASE Queued(o)
      BY <3>1 DEF Coming
    <3>2. CASE ~Queued(o)
      <4>1. PICK j \in 1 .. k : Remote(s2c[j]) /\ o \in s2c[j].ops
        BY <2>3, <3>2 DEF Coming
      <4>2. CASE j = 1
        BY <2>1, <2>2, <4>1, <4>2 DEF Coming
      <4>3. CASE j # 1
        <5>1. j - 1 \in 1 .. k - 1 /\ j - 1 \in 1 .. Len(s2c) - 1 /\ j = (j - 1) + 1
          BY <1>2, <4>1, <4>3
        <5>2. s2c'[j - 1] = s2c[j]
          BY <2>2, <5>1
        <5> QED BY <4>1, <5>1, <5>2 DEF Coming, Remote
      <4> QED BY <4>2, <4>3
    <3> QED BY <3>1, <3>2
  <2>4. \A i \in DOMAIN s2c' : /\ i + 1 \in DOMAIN s2c /\ s2c'[i] = s2c[i + 1] /\ (i + 1) - 1 = i
                               /\ i + 1 \in 1 .. Len(s2c)
    BY <1>2, <2>2
  <2>5. PagesInv'
    <3> SUFFICES ASSUME NEW i \in DOMAIN s2c'
                 PROVE  /\ s2c'[i].t = "peer_ops" => s2c'[i].c = None
                        /\ s2c'[i].t = "sync_batch" =>
                              \A o \in Prefix(s2c[i].c)' : Coming(o, i)'
      BY DEF PagesInv
    <3>1. /\ s2c[i + 1].t = "peer_ops" => s2c[i + 1].c = None
          /\ s2c[i + 1].t = "sync_batch" => \A o \in Prefix(s2c[i + 1].c) : Coming(o, i + 1)
      BY <2>4 DEF CatchupInv, PagesInv
    <3>2. ASSUME s2c'[i].t = "sync_batch", NEW o \in Prefix(s2c[i].c)' PROVE Coming(o, i)'
      <4>1. o \in Ops /\ o \in Prefix(s2c[i + 1].c)
        BY <2>4, <3>2 DEF Prefix, Ops
      <4>2. Coming(o, i + 1)
        BY <2>4, <3>1, <3>2, <4>1
      <4>3. Coming(o, (i + 1) - 1)'
        BY <2>3, <2>4, <4>1, <4>2
      <4> QED BY <2>4, <4>3
    <3> QED BY <2>4, <3>1, <3>2
  <2>6. Below(s2c)'
    BY <1>1, <2>4 DEF CatchupInv, Bounded, Below
  <2>7. StreamInv'
    <3>1. ASSUME gw.stream # None, ~gw.joining, NEW o \in Prefix(gw.stream)
          PROVE  Coming(o, Len(s2c))'
      <4>1. Coming(o, Len(s2c)) /\ o \in Ops
        BY <3>1 DEF CatchupInv, StreamInv, Prefix
      <4>2. PICK k \in 1 .. Len(s2c) : k = Len(s2c)
        <5>1. Len(s2c) \in 1 .. Len(s2c)
          BY <1>2, <2>2
        <5> QED BY <5>1, Zenon
      <4>3. Len(s2c') = k - 1
        BY <2>2, <4>2
      <4>4. Coming(o, k - 1)'
        BY <2>3, <4>1, <4>2
      <4> QED BY <4>3, <4>4 DEF Coming
    <3>2. Prefix(gw.stream)' = Prefix(gw.stream)
      BY DEF Prefix, Ops
    <3>3. gw.stream # None /\ ~gw.joining => \A o \in Prefix(gw.stream)' : Coming(o, Len(s2c))'
      BY <3>1, <3>2
    <3> QED BY <3>3 DEF CatchupInv, StreamInv, Ops
  <2>8. FailedInv'
    <3> SUFFICES ASSUME s'.failed
                 PROVE  /\ gw.state \in {"authenticated", "syncing", "ready"} =>
                              \E j \in DOMAIN s2c' : s2c'[j].t = "authenticated"
                        /\ \A i \in DOMAIN s2c' : Remote(s2c'[i]) =>
                              \E j \in 1 .. i : s2c'[j].t = "authenticated"
      BY DEF FailedInv, Remote
    <3>1. s.failed /\ s2c[1].t # "authenticated"
      BY <2>1, <2>2
    <3>2. \A i \in 1 .. Len(s2c) : \A j \in 1 .. i : s2c[j].t = "authenticated" =>
             j - 1 \in 1 .. i - 1 /\ j - 1 \in DOMAIN s2c' /\ s2c'[j - 1].t = "authenticated"
      <4> SUFFICES ASSUME NEW i \in 1 .. Len(s2c), NEW j \in 1 .. i, s2c[j].t = "authenticated"
                   PROVE  j - 1 \in 1 .. i - 1 /\ j - 1 \in DOMAIN s2c'
                          /\ s2c'[j - 1].t = "authenticated"
        OBVIOUS
      <4>1. j # 1
        BY <3>1
      <4>2. j - 1 \in 1 .. i - 1 /\ j - 1 \in 1 .. Len(s2c) - 1 /\ (j - 1) + 1 = j
        BY <1>2, <4>1
      <4> QED BY <2>2, <4>2
    <3>3. gw.state \in {"authenticated", "syncing", "ready"} =>
             \E j \in DOMAIN s2c' : s2c'[j].t = "authenticated"
      <4> SUFFICES ASSUME gw.state \in {"authenticated", "syncing", "ready"}
                   PROVE  \E j \in DOMAIN s2c' : s2c'[j].t = "authenticated"
        OBVIOUS
      <4>1. PICK j \in DOMAIN s2c : s2c[j].t = "authenticated"
        BY <3>1 DEF CatchupInv, FailedInv
      <4>2. Len(s2c) \in 1 .. Len(s2c) /\ j \in 1 .. Len(s2c)
        BY <1>2, <2>2
      <4> QED BY <3>2, <4>1, <4>2
    <3>4. ASSUME NEW i \in DOMAIN s2c', Remote(s2c'[i])
          PROVE  \E j \in 1 .. i : s2c'[j].t = "authenticated"
      <4>1. PICK j \in 1 .. i + 1 : s2c[j].t = "authenticated"
        BY <2>4, <3>1, <3>4 DEF CatchupInv, FailedInv
      <4>2. j - 1 \in 1 .. (i + 1) - 1 /\ s2c'[j - 1].t = "authenticated"
        BY <2>4, <3>2, <4>1
      <4> QED BY <2>4, <4>2
    <3> QED BY <3>3, <3>4
  <2> QED BY <1>1, <1>4, <1>5, <2>5, <2>6, <2>7, <2>8
<1> QED BY <1>6, <1>7

\* A handler that touches neither the queue of pages nor the cursors.
LEMMA ClientIdle ==
    ASSUME SessionInv, SessionInv', CatchupInv, UNCHANGED <<gw, at, floor, dcur>>,
           have \subseteq have', s'.inbound = s.inbound, s'.cursor = s.cursor,
           s'.failed => s.failed, ClientSends, ClientTakes,
           s'.signal <= Last,
           \A i \in s'.imports : i \in s.imports \/ (i.k = "import" /\ i.c <= Last)
    PROVE  CatchupInv'
<1>1. \A o \in Ops : Queued(o) => Queued(o)'
  BY DEF Queued
<1>2. dcur <= dcur' /\ dcur <= Last
  BY CursorFacts DEF CatchupInv, Bounded
<1>3. /\ PagesInv' /\ RequestInv' /\ StreamInv' /\ FailedInv' /\ Below(c2s)' /\ Below(s2c)'
      /\ (\A o \in Ops : at'[o] <= Last') /\ floor' <= Last'
      /\ gw'.stream <= Last' /\ gw'.durable <= Last'
      /\ Last' = Last /\ \A c : Prefix(c)' = Prefix(c)
  BY <1>1, <1>2, ClientWire
<1>4. Bounded'
  BY <1>2, <1>3 DEF CatchupInv, Bounded, Below, Ops
<1>5. InboundInv'
  BY <1>3 DEF CatchupInv, InboundInv, Prefix
<1>6. CursorInv'
  <2>1. GaplessCursor'
    BY DEF CatchupInv, CursorInv, GaplessCursor, Prefix, Ops
  <2>2. \A i \in s'.imports : i.k = "persist" => Prefix(i.c) \subseteq have
    BY DEF CatchupInv, CursorInv
  <2> QED BY <1>3, <2>1, <2>2 DEF CursorInv
<1> QED BY <1>3, <1>4, <1>5, <1>6 DEF CatchupInv

\* Sending on the socket there is.
LEMMA Sends ==
    ASSUME NEW f \in FrameSet, f.c <= Last, f.t = "sync_request" => f.c \in 0 .. dcur', Send(f)
    PROVE  ClientSends
BY DEF Send, ClientSends

\* Taking a frame that carries no operations for the replica.
LEMMA Takes ==
    ASSUME NEW t, t \notin {"sync_batch", "peer_ops"}, Receive(t),
           s'.failed => t # "authenticated"
    PROVE  ClientTakes
BY DEF Receive, ClientTakes, Remote

\* Local edits, the chain of jobs, the flushes and the handshake.
LEMMA QuietCatchup ==
    ASSUME SessionInv, SessionInv', CatchupInv,
           \/ LocalOp \/ StartJob \/ AddPending \/ AddPendingFails \/ Starts
           \/ (Joins \/ Confirms) /\ ~s.broken
           \/ FlushReads \/ FlushSends \/ MarkSent \/ MarkAcked
           \/ (TimerFires \/ HelloAck \/ TokenArrives \/ TokenFails)
              /\ UNCHANGED <<store, worker, outbox, s>>
    PROVE  CatchupInv'
<1>1. UNCHANGED <<gw, at, floor, dcur>> /\ have \subseteq have'
  BY DEF LocalOp, StartJob, AddPending, AddPendingFails, Starts, Joins, Confirms, FlushReads,
         FlushSends, MarkSent, MarkAcked, TimerFires, HelloAck, TokenArrives, TokenFails,
         store, worker, wire
<1>2. s \in SessionSet /\ s.signal <= Last /\ Last \in Nat
  BY CursorFacts, LastFacts DEF CatchupInv, Bounded
<1>3. /\ s'.inbound = s.inbound /\ s'.cursor = s.cursor /\ s'.failed = s.failed
      /\ s'.signal = s.signal /\ s'.imports = s.imports
  <2>1. CASE LocalOp
    <3>1. PICK q : s' = [s EXCEPT !.jobs = q]
      BY <2>1 DEF LocalOp
    <3> QED BY <1>2, <3>1 DEF SessionSet
  <2>2. CASE StartJob
    <3>1. (\E q : s' = [s EXCEPT !.jobs = q, !.broken = FALSE])
          \/ (\E q : s' = [s EXCEPT !.jobs = q, !.confirmed = FALSE])
      BY <2>2 DEF StartJob
    <3> QED BY <1>2, <3>1 DEF SessionSet
  <2>3. CASE AddPending \/ AddPendingFails
    <3>1. s' = Leave(FALSE) \/ s' = Leave(TRUE) \/ (\E q : s' = [s EXCEPT !.jobs = q])
      BY <2>3 DEF AddPending, AddPendingFails
    <3> QED BY <1>2, <3>1 DEF SessionSet, Leave
  <2>4. CASE Starts \/ ((Joins \/ Confirms) /\ ~s.broken)
    <3>1. s' = [s EXCEPT !.jobs = Rest]
          \/ s' = [s EXCEPT !.jobs = Rest, !.go = TRUE, !.confirmed = OutboxEmpty]
      BY <2>4 DEF Starts, Joins, Confirms
    <3> QED BY <1>2, <3>1 DEF SessionSet
  <2>5. CASE FlushReads
    <3>1. PICK q : s' = [s EXCEPT !.go = FALSE, !.flushes = q]
      BY <2>5 DEF FlushReads
    <3> QED BY <1>2, <3>1 DEF SessionSet
  <2>6. CASE FlushSends
    <3>1. PICK q : s' = [s EXCEPT !.flushes = q]
      BY <2>6 DEF FlushSends
    <3> QED BY <1>2, <3>1 DEF SessionSet
  <2>7. CASE MarkSent
    <3>1. PICK f : s' = [s EXCEPT !.flushes = @ \ {f}, !.confirmed = FALSE]
      BY <2>7 DEF MarkSent
    <3> QED BY <1>2, <3>1 DEF SessionSet
  <2>8. CASE MarkAcked
    <3>1. PICK ops : s' = AfterAck(ops)
      BY <2>8 DEF MarkAcked
    <3>2. PICK q : s' = [s EXCEPT !.acks = q, !.confirmed = FALSE, !.go = TRUE, !.checks = TRUE]
      BY <1>2, <3>1 DEF AfterAck, SessionSet
    <3> QED BY <1>2, <3>2 DEF SessionSet
  <2>9. CASE (TimerFires \/ HelloAck \/ TokenArrives \/ TokenFails)
             /\ UNCHANGED <<store, worker, outbox, s>>
    BY <2>9
  <2> QED BY <2>1, <2>2, <2>3, <2>4, <2>5, <2>6, <2>7, <2>8, <2>9, Zenon
<1>4. ClientSends
  <2>1. ASSUME NEW f \in FrameSet, f.c = None, f.t # "sync_request", Send(f) PROVE ClientSends
    BY <1>2, <2>1, Sends DEF None
  <2>2. Plain("join_document") \in FrameSet /\ Plain("join_document").c = None
        /\ Plain("join_document").t = "join_document"
        /\ Plain("authenticate") \in FrameSet /\ Plain("authenticate").c = None
        /\ Plain("authenticate").t = "authenticate"
    BY PlainFrame DEF FrameTypes
  <2>3. CASE FlushSends
    <3>1. PICK f \in s.flushes : Send(Frame("client_ops", f.ops, None))
      BY <2>3 DEF FlushSends
    <3>2. f.ops \subseteq Ops
      <4>1. s.flushes \subseteq [k : {"send", "mark"}, ops : SUBSET Own]
        BY <1>2 DEF SessionSet
      <4> QED BY <4>1, OpsFacts
    <3>3. Frame("client_ops", f.ops, None) \in FrameSet
      BY <3>2 DEF Frame, FrameSet, FrameTypes
    <3>4. Frame("client_ops", f.ops, None).c = None /\ Frame("client_ops", f.ops, None).t = "client_ops"
      BY DEF Frame
    <3> QED BY <2>1, <3>1, <3>3, <3>4
  <2>4. CASE Joins /\ ~s.broken
    <3>1. Send(Plain("join_document"))
      BY <2>4 DEF Joins
    <3> QED BY <2>1, <2>2, <3>1
  <2>5. CASE TokenArrives
    <3>1. Send(Plain("authenticate"))
      BY <2>5 DEF TokenArrives
    <3> QED BY <2>1, <2>2, <3>1
  <2>6. CASE c2s' = c2s
    BY <2>6 DEF ClientSends
  <2> QED BY <2>3, <2>4, <2>5, <2>6
      DEF LocalOp, StartJob, AddPending, AddPendingFails, Starts, Confirms, FlushReads,
          MarkSent, MarkAcked, TimerFires, HelloAck, TokenFails, wire
<1>5. ClientTakes
  <2>1. CASE HelloAck
    BY <2>1, Takes DEF HelloAck
  <2>2. CASE s2c' = s2c
    BY <2>2 DEF ClientTakes
  <2> QED BY <2>1, <2>2
      DEF LocalOp, StartJob, AddPending, AddPendingFails, Starts, Joins, Confirms, FlushReads,
          FlushSends, MarkSent, MarkAcked, TimerFires, TokenArrives, TokenFails, wire
<1> QED BY <1>1, <1>2, <1>3, <1>4, <1>5, ClientIdle

\* The frame the client takes next.
LEMMA HeadFacts ==
    ASSUME SessionInv, CatchupInv, s2c # <<>>
    PROVE  /\ Head(s2c) = s2c[1] /\ 1 \in DOMAIN s2c /\ Head(s2c) \in FrameSet
           /\ Head(s2c).c \in {None} \union Nat /\ Head(s2c).c <= Last
<1>1. s2c \in Seq(FrameSet)
      /\ \A i \in DOMAIN s2c : s2c[i] \in FrameSet /\ s2c[i].c \in {None} \union Nat
  BY WireFacts
<1>2. Head(s2c) = s2c[1] /\ 1 \in DOMAIN s2c
  BY <1>1, QueueTail
<1> QED BY <1>1, <1>2 DEF CatchupInv, Bounded, Below

\* The control frames, and the pull that follows an ack.
LEMMA ControlCatchup ==
    ASSUME SessionInv, SessionInv', CatchupInv,
           \/ JoinAccepted \/ Authenticated \/ DurableAck \/ ResyncRequired \/ SnapshotPayload
           \/ SyncNow
           \/ DatabaseUnavailable /\ net.status # "syncing"
    PROVE  CatchupInv'
<1>1. UNCHANGED <<gw, at, floor, have, dcur>>
  BY DEF JoinAccepted, Authenticated, DurableAck, ResyncRequired, SnapshotPayload, SyncNow,
         DatabaseUnavailable, store, worker
<1>2. s \in SessionSet /\ s.signal <= Last /\ Last \in Nat /\ s.cursor \in 0 .. dcur
      /\ s.cursor <= Last
  BY CursorFacts, LastFacts DEF CatchupInv, Bounded, CursorInv, GaplessCursor
<1>3. Frame("sync_request", {}, s.cursor) \in FrameSet /\ Frame("sync_request", {}, s.cursor).c = s.cursor
  BY <1>2, CursorFacts, PlainFrame DEF FrameTypes
<1>4. Send(Frame("sync_request", {}, s.cursor)) => ClientSends
  BY <1>1, <1>2, <1>3, Sends
<1>5. c2s' = c2s => ClientSends
  BY DEF ClientSends
<1>6. s2c' = s2c => ClientTakes
  BY DEF ClientTakes
<1>7. ASSUME s'.inbound = s.inbound, s'.cursor = s.cursor, s'.failed => s.failed,
             ClientSends, ClientTakes, s'.signal <= Last,
             \A i \in s'.imports : i \in s.imports \/ (i.k = "import" /\ i.c <= Last)
      PROVE  CatchupInv'
  BY <1>1, <1>7, ClientIdle
<1>8. CASE JoinAccepted
  <2>1. s' = s /\ Receive("join_accepted") /\ Send(Frame("sync_request", {}, s.cursor))
    BY <1>8 DEF JoinAccepted
  <2> QED BY <1>2, <1>4, <1>7, <2>1, Takes
<1>9. CASE Authenticated
  <2>1. Receive("authenticated") /\ c2s' = c2s
        /\ \E q : s' = [s EXCEPT !.failed = FALSE, !.complete = FALSE, !.confirmed = FALSE, !.jobs = q]
    BY <1>9 DEF Authenticated
  <2>2. s'.inbound = s.inbound /\ s'.cursor = s.cursor /\ ~s'.failed /\ s'.signal = s.signal
        /\ s'.imports = s.imports
    BY <1>2, <2>1 DEF SessionSet
  <2> QED BY <1>2, <1>5, <1>7, <2>1, <2>2, Takes
<1>10. CASE DurableAck
  <2>1. Receive("durable_ack") /\ c2s' = c2s /\ s' = [s EXCEPT !.acks = @ \union {Head(s2c).ops}]
    BY <1>10 DEF DurableAck
  <2>2. s'.inbound = s.inbound /\ s'.cursor = s.cursor /\ s'.failed = s.failed
        /\ s'.signal = s.signal /\ s'.imports = s.imports
    BY <1>2, <2>1 DEF SessionSet
  <2> QED BY <1>2, <1>5, <1>7, <2>1, <2>2, Takes
<1>11. CASE ResyncRequired
  <2> DEFINE c == Head(s2c).c
  <2>1. Receive("snapshot_resync_required") /\ s' = [s EXCEPT !.signal = c]
        /\ Send(Frame("fetch_snapshot", {}, c))
    BY <1>11 DEF ResyncRequired
  <2>2. c \in {None} \union Nat /\ c <= Last
    BY <2>1, HeadFacts DEF Receive
  <2> HIDE DEF c
  <2>3. s'.inbound = s.inbound /\ s'.cursor = s.cursor /\ s'.failed = s.failed
        /\ s'.signal = c /\ s'.imports = s.imports
    BY <1>2, <2>1 DEF SessionSet
  <2>4. Frame("fetch_snapshot", {}, c) \in FrameSet /\ Frame("fetch_snapshot", {}, c).c = c
        /\ Frame("fetch_snapshot", {}, c).t = "fetch_snapshot"
    BY <2>2, PlainFrame DEF FrameTypes
  <2>5. ClientSends
    BY <2>1, <2>2, <2>4, Sends
  <2> QED BY <1>7, <2>1, <2>2, <2>3, <2>5, Takes
<1>12. CASE SnapshotPayload
  <2> DEFINE c == Head(s2c).c
             more == IF s.signal = c THEN s.imports \union {[k |-> "import", c |-> c]} ELSE s.imports
  <2>1. Receive("snapshot_payload") /\ s' = [s EXCEPT !.signal = None, !.imports = more]
        /\ (c2s' = c2s \/ Send(Frame("sync_request", {}, s.cursor)))
    BY <1>2, <1>12 DEF SnapshotPayload, SessionSet
  <2>2. c <= Last
    BY <2>1, HeadFacts DEF Receive
  <2>3. \A i \in more : i \in s.imports \/ (i.k = "import" /\ i.c <= Last)
    BY <2>2
  <2> HIDE DEF c, more
  <2>4. s'.inbound = s.inbound /\ s'.cursor = s.cursor /\ s'.failed = s.failed
        /\ s'.signal = None /\ s'.imports = more
    BY <1>2, <2>1 DEF SessionSet
  <2>5. None <= Last
    BY <1>2 DEF None
  <2> QED BY <1>4, <1>5, <1>7, <2>1, <2>3, <2>4, <2>5, Takes
<1>13. CASE SyncNow
  <2>1. (s' = [s EXCEPT !.checks = FALSE, !.failed = FALSE, !.complete = FALSE]
         \/ s' = [s EXCEPT !.checks = FALSE])
        /\ (c2s' = c2s \/ Send(Frame("sync_request", {}, s.cursor))) /\ s2c' = s2c
    BY <1>13 DEF SyncNow
  <2>2. s'.inbound = s.inbound /\ s'.cursor = s.cursor /\ (s'.failed => s.failed)
        /\ s'.signal = s.signal /\ s'.imports = s.imports
    BY <1>2, <2>1 DEF SessionSet
  <2> QED BY <1>2, <1>4, <1>5, <1>6, <1>7, <2>1, <2>2
<1>14. CASE DatabaseUnavailable /\ net.status # "syncing"
  <2>1. Receive("database_unavailable") /\ c2s' = c2s /\ s' = s
    BY <1>14 DEF DatabaseUnavailable
  <2> QED BY <1>2, <1>5, <1>7, <2>1, Takes
<1> QED BY <1>8, <1>9, <1>10, <1>11, <1>12, <1>13, <1>14

\* A frame, or the end of a catch-up, joins the pages in line.
LEMMA PageQueued ==
    ASSUME SessionInv, SessionInv', CatchupInv, UNCHANGED <<gw, at, floor, have, dcur, c2s>>,
           NEW f \in FrameSet, s' = [s EXCEPT !.inbound = Append(@, f)],
           f.t \in {"sync_batch", "peer_ops", "ready"}, f.t = "ready" => f.ops = {},
           f.t # "sync_batch" => f.c = None, f.c <= Last,
           \A o \in Prefix(f.c) : Queued(o) \/ o \in f.ops,
           s2c # <<>>, s2c' = Tail(s2c), Head(s2c).t # "authenticated",
           Remote(Head(s2c)) => Head(s2c).ops = f.ops
    PROVE  CatchupInv'
<1>1. /\ Len(s.inbound) \in Nat /\ DOMAIN s.inbound = 1 .. Len(s.inbound)
      /\ s.inbound \in Seq(FrameSet) /\ s \in SessionSet
  BY WireFacts, CursorFacts
<1>2. /\ s'.inbound = Append(s.inbound, f) /\ s'.cursor = s.cursor /\ s'.failed = s.failed
      /\ s'.signal = s.signal /\ s'.imports = s.imports
  BY <1>1 DEF SessionSet
<1>3. /\ DOMAIN s'.inbound = 1 .. Len(s.inbound) + 1 /\ s'.inbound[Len(s.inbound) + 1] = f
      /\ \A i \in 1 .. Len(s.inbound) : s'.inbound[i] = s.inbound[i]
  BY <1>1, <1>2, QueueAppend
<1>4. \A i \in 1 .. Len(s.inbound) + 1 : i \in 1 .. Len(s.inbound) \/ i = Len(s.inbound) + 1
  BY <1>1
<1>5. Len(s.inbound) + 1 \in 1 .. Len(s.inbound) + 1
      /\ \A i \in 1 .. Len(s.inbound) : i \in 1 .. Len(s.inbound) + 1
  BY <1>1
<1>6. \A o \in Ops : Queued(o) => Queued(o)'
  BY <1>1, <1>3, <1>5 DEF Queued
<1>7. \A o \in f.ops : Queued(o)'
  BY <1>3, <1>5 DEF Queued
<1>8. ClientSends /\ ClientTakes
  BY <1>7 DEF ClientSends, ClientTakes
<1>9. dcur <= dcur' /\ dcur' <= Last
  BY CursorFacts DEF CatchupInv, Bounded
<1>10. /\ PagesInv' /\ RequestInv' /\ StreamInv' /\ FailedInv' /\ Below(c2s)' /\ Below(s2c)'
       /\ (\A o \in Ops : at'[o] <= Last') /\ floor' <= Last'
       /\ gw'.stream <= Last' /\ gw'.durable <= Last'
       /\ Last' = Last /\ \A c : Prefix(c)' = Prefix(c)
  BY <1>2, <1>6, <1>8, <1>9, ClientWire
<1>11. Below(s.inbound)'
  BY <1>1, <1>3, <1>4, <1>10 DEF CatchupInv, Bounded, Below
<1>12. Bounded'
  BY <1>2, <1>9, <1>10, <1>11 DEF CatchupInv, Bounded, Below, Ops
<1>13. ASSUME NEW i \in 1 .. Len(s.inbound), NEW o \in Prefix(s.inbound[i].c)
       PROVE  o \in have \/ \E j \in 1 .. i : o \in s'.inbound[j].ops
  <2>1. o \in have \/ \E j \in 1 .. i : o \in s.inbound[j].ops
    BY <1>1 DEF CatchupInv, InboundInv
  <2>2. \A j \in 1 .. i : j \in 1 .. Len(s.inbound)
    BY <1>1
  <2> QED BY <1>3, <2>1, <2>2
<1>14. ASSUME NEW o \in Prefix(f.c)
       PROVE  o \in have \/ \E j \in 1 .. Len(s.inbound) + 1 : o \in s'.inbound[j].ops
  BY <1>1, <1>3, <1>5 DEF Queued
<1>15. InboundInv'
  <2> SUFFICES ASSUME NEW i \in DOMAIN s'.inbound
               PROVE  /\ s'.inbound[i].t \in {"sync_batch", "peer_ops", "ready"}
                      /\ s'.inbound[i].t = "ready" => s'.inbound[i].ops = {}
                      /\ s'.inbound[i].t # "sync_batch" => s'.inbound[i].c = None
                      /\ \A o \in Prefix(s'.inbound[i].c) :
                            o \in have \/ \E j \in 1 .. i : o \in s'.inbound[j].ops
    BY <1>10 DEF InboundInv, Prefix
  <2>1. CASE i \in 1 .. Len(s.inbound)
    BY <1>1, <1>3, <1>13, <2>1 DEF CatchupInv, InboundInv
  <2>2. CASE i = Len(s.inbound) + 1
    BY <1>3, <1>14, <2>2
  <2> QED BY <1>3, <1>4, <2>1, <2>2
<1>16. CursorInv'
  BY <1>2, <1>10 DEF CatchupInv, CursorInv, GaplessCursor, Prefix, Ops
<1> QED BY <1>10, <1>12, <1>15, <1>16 DEF CatchupInv

\* sync_done, a page or a broadcast is taken: nothing that follows a failure is
\* skipped, for none of it can be there before `authenticated`.
LEMMA ArrivalCatchup ==
    ASSUME SessionInv, SessionInv', CatchupInv, SyncDone \/ QueueRemote
    PROVE  CatchupInv'
<1>1. UNCHANGED <<gw, at, floor, have, dcur, c2s>>
  BY DEF SyncDone, QueueRemote, store, worker
<1>2. \A o : o \notin Prefix(None)
  BY CursorFacts DEF Prefix, None
<1>3. CASE SyncDone
  <2>1. Plain("ready") \in FrameSet /\ Plain("ready").t = "ready" /\ Plain("ready").c = None
        /\ Plain("ready").ops = {}
    BY PlainFrame DEF FrameTypes, Plain, Frame
  <2>2. None <= Last
    BY LastFacts DEF None
  <2>3. s2c # <<>> /\ Head(s2c).t = "sync_done" /\ s2c' = Tail(s2c)
        /\ s' = [s EXCEPT !.inbound = Append(@, Plain("ready"))]
    BY <1>3 DEF SyncDone, Receive
  <2>4. ~Remote(Head(s2c))
    BY <2>3 DEF Remote
  <2> QED BY <1>1, <1>2, <2>1, <2>2, <2>3, <2>4, PageQueued
<1>4. CASE QueueRemote
  <2> DEFINE f == Head(s2c)
  <2>1. s2c # <<>> /\ f.t \in {"sync_batch", "peer_ops"} /\ s2c' = Tail(s2c)
        /\ s' = [s EXCEPT !.inbound = IF s.failed THEN @ ELSE Append(@, f)]
    BY <1>4 DEF QueueRemote
  <2>2. f = s2c[1] /\ 1 \in DOMAIN s2c /\ f \in FrameSet /\ f.c <= Last
    BY <2>1, HeadFacts
  <2>3. ~s.failed
    <3>1. \A j \in 1 .. 1 : j = 1
      OBVIOUS
    <3> QED BY <2>1, <2>2, <3>1 DEF CatchupInv, FailedInv, Remote
  <2>4. ASSUME NEW o \in Prefix(f.c) PROVE Queued(o) \/ o \in f.ops
    <3>1. f.t = "sync_batch"
      BY <1>2, <2>1, <2>2, <2>4 DEF CatchupInv, PagesInv
    <3>2. Coming(o, 1)
      BY <2>2, <2>4, <3>1 DEF CatchupInv, PagesInv
    <3> QED BY <2>2, <3>2 DEF Coming
  <2>5. f.t = "peer_ops" => f.c = None
    BY <2>2 DEF CatchupInv, PagesInv
  <2>6. s' = [s EXCEPT !.inbound = Append(@, f)]
    BY <2>1, <2>3
  <2> HIDE DEF f
  <2> QED BY <1>1, <2>1, <2>2, <2>4, <2>5, <2>6, PageQueued DEF f
<1> QED BY <1>3, <1>4

\* The first of the pages in line is applied, and the cursor may follow.
LEMMA HeadApplied ==
    ASSUME SessionInv, SessionInv', CatchupInv, UNCHANGED <<gw, at, floor, c2s, s2c>>,
           s.inbound # <<>>, have' = have \union Head(s.inbound).ops,
           s'.inbound = Tail(s.inbound), s'.failed = s.failed, s'.signal = s.signal,
           s'.imports = s.imports, dcur <= dcur', dcur' = dcur \/ dcur' = Head(s.inbound).c,
           s'.cursor <= dcur'
    PROVE  CatchupInv'
<1>1. /\ Len(s.inbound) \in Nat /\ DOMAIN s.inbound = 1 .. Len(s.inbound)
      /\ s.inbound \in Seq(FrameSet)
  BY WireFacts
<1>2. /\ Head(s.inbound) = s.inbound[1] /\ Len(s.inbound) > 0
      /\ DOMAIN s'.inbound = 1 .. Len(s.inbound) - 1
      /\ \A i \in 1 .. Len(s.inbound) - 1 : s'.inbound[i] = s.inbound[i + 1]
  BY <1>1, QueueTail
<1>3. 1 \in DOMAIN s.inbound /\ s.inbound[1].c <= Last
  BY <1>1, <1>2 DEF CatchupInv, Bounded, Below
<1>4. \A i \in DOMAIN s'.inbound : i + 1 \in DOMAIN s.inbound /\ s'.inbound[i] = s.inbound[i + 1]
  BY <1>1, <1>2
<1>5. ASSUME NEW o, NEW k \in 1 .. Len(s.inbound), NEW j \in 1 .. k, o \in s.inbound[j].ops
      PROVE  o \in have' \/ \E i \in 1 .. k - 1 : i \in DOMAIN s'.inbound /\ o \in s'.inbound[i].ops
  <2>1. CASE j = 1
    BY <1>2, <1>5, <2>1
  <2>2. CASE j # 1
    <3>1. j - 1 \in 1 .. k - 1 /\ j - 1 \in 1 .. Len(s.inbound) - 1 /\ (j - 1) + 1 = j
      BY <1>1, <2>2
    <3>2. o \in s'.inbound[j - 1].ops
      BY <1>2, <1>5, <3>1
    <3> QED BY <1>2, <3>1, <3>2
  <2> QED BY <2>1, <2>2
<1>6. \A o \in Ops : Queued(o) => Queued(o)'
  <2> SUFFICES ASSUME NEW o \in Ops, Queued(o) PROVE Queued(o)'
    OBVIOUS
  <2>1. CASE o \in have
    BY <2>1 DEF Queued
  <2>2. CASE o \notin have
    <3>1. PICK j \in DOMAIN s.inbound : o \in s.inbound[j].ops
      BY <2>2 DEF Queued
    <3>2. PICK k \in 1 .. Len(s.inbound) : j \in 1 .. k
      <4>1. j \in 1 .. j /\ j \in 1 .. Len(s.inbound)
        BY <1>1
      <4> QED BY <4>1, Zenon
    <3> QED BY <1>5, <3>1, <3>2 DEF Queued
  <2> QED BY <2>1, <2>2
<1>7. ClientSends /\ ClientTakes
  BY DEF ClientSends, ClientTakes
<1>8. dcur' <= Last
  BY <1>2, <1>3 DEF CatchupInv, Bounded
<1>9. /\ PagesInv' /\ RequestInv' /\ StreamInv' /\ FailedInv' /\ Below(c2s)' /\ Below(s2c)'
      /\ (\A o \in Ops : at'[o] <= Last') /\ floor' <= Last'
      /\ gw'.stream <= Last' /\ gw'.durable <= Last'
      /\ Last' = Last /\ \A c : Prefix(c)' = Prefix(c)
  BY <1>6, <1>7, ClientWire
<1>10. Below(s.inbound)'
  BY <1>4, <1>9 DEF CatchupInv, Bounded, Below
<1>11. Bounded'
  BY <1>8, <1>9, <1>10 DEF CatchupInv, Bounded, Below, Ops
<1>12. InboundInv'
  <2> SUFFICES ASSUME NEW i \in DOMAIN s'.inbound
               PROVE  /\ s'.inbound[i].t \in {"sync_batch", "peer_ops", "ready"}
                      /\ s'.inbound[i].t = "ready" => s'.inbound[i].ops = {}
                      /\ s'.inbound[i].t # "sync_batch" => s'.inbound[i].c = None
                      /\ \A o \in Prefix(s'.inbound[i].c) :
                            o \in have' \/ \E j \in 1 .. i : o \in s'.inbound[j].ops
    BY <1>9 DEF InboundInv, Prefix
  <2>1. i + 1 \in DOMAIN s.inbound /\ s'.inbound[i] = s.inbound[i + 1]
    BY <1>4
  <2>2. /\ s.inbound[i + 1].t \in {"sync_batch", "peer_ops", "ready"}
        /\ s.inbound[i + 1].t = "ready" => s.inbound[i + 1].ops = {}
        /\ s.inbound[i + 1].t # "sync_batch" => s.inbound[i + 1].c = None
    BY <2>1 DEF CatchupInv, InboundInv
  <2>3. ASSUME NEW o \in Prefix(s.inbound[i + 1].c)
        PROVE  o \in have' \/ \E j \in 1 .. i : o \in s'.inbound[j].ops
    <3>1. o \in have \/ \E j \in 1 .. i + 1 : o \in s.inbound[j].ops
      BY <2>1 DEF CatchupInv, InboundInv
    <3>2. CASE o \in have
      BY <3>2
    <3>3. ASSUME NEW j \in 1 .. i + 1, o \in s.inbound[j].ops
          PROVE  o \in have' \/ \E m \in 1 .. i : o \in s'.inbound[m].ops
      <4>1. PICK k \in 1 .. Len(s.inbound) : k = i + 1
        <5>1. i + 1 \in 1 .. Len(s.inbound)
          BY <1>1, <2>1
        <5> QED BY <5>1, Zenon
      <4>2. j \in 1 .. k
        BY <4>1
      <4>3. o \in have' \/ \E m \in 1 .. k - 1 : m \in DOMAIN s'.inbound /\ o \in s'.inbound[m].ops
        BY <1>5, <3>3, <4>2
      <4>4. k - 1 = i
        BY <1>2, <4>1
      <4> QED BY <4>3, <4>4
    <3> QED BY <3>1, <3>2, <3>3
  <2> QED BY <2>1, <2>2, <2>3
<1>13. Prefix(s.inbound[1].c) \subseteq have'
  <2>1. \A o \in Prefix(s.inbound[1].c) : o \in have \/ \E j \in 1 .. 1 : o \in s.inbound[j].ops
    BY <1>3 DEF CatchupInv, InboundInv
  <2>2. \A j \in 1 .. 1 : j = 1
    OBVIOUS
  <2> QED BY <1>2, <2>1, <2>2
<1>14. CursorInv'
  <2>1. Prefix(dcur') \subseteq have'
    BY <1>2, <1>13 DEF CatchupInv, CursorInv, GaplessCursor
  <2>2. Prefix(dcur)' = Prefix(dcur')
    BY DEF Prefix, Ops
  <2>3. GaplessCursor'
    BY <2>1, <2>2 DEF GaplessCursor
  <2>4. \A i \in s.imports : i.k = "persist" => Prefix(i.c) \subseteq have'
    BY DEF CatchupInv, CursorInv
  <2> QED BY <1>9, <2>3, <2>4 DEF CursorInv
<1> QED BY <1>9, <1>11, <1>12, <1>14 DEF CatchupInv

\* applyRemote, and the end of a catch-up behind its pages.
LEMMA AppliedCatchup ==
    ASSUME SessionInv, SessionInv', CatchupInv, ApplyRemote \/ CatchupComplete
    PROVE  CatchupInv'
<1>1. UNCHANGED <<gw, at, floor, c2s, s2c>> /\ s.inbound # <<>>
  BY DEF ApplyRemote, CatchupComplete, store, wire, Page1
<1>2. s.inbound \in Seq(FrameSet) /\ s \in SessionSet /\ dcur \in Nat /\ s.cursor \in Nat
      /\ s.cursor <= dcur
  BY WireFacts, CursorFacts DEF CatchupInv, CursorInv, GaplessCursor
<1>3. Head(s.inbound) = s.inbound[1] /\ 1 \in DOMAIN s.inbound /\ Head(s.inbound) \in FrameSet
  BY <1>1, <1>2, QueueTail
<1>4. Head(s.inbound).c \in Int
  BY <1>3 DEF FrameSet, None
<1>5. CASE ApplyRemote
  <2> DEFINE c == Head(s.inbound).c
             cursor == Advanced(c)
  <2>1. have' = have \union Head(s.inbound).ops /\ dcur' = Max({dcur, c}) /\ c \in Int
        /\ s' = [s EXCEPT !.inbound = Tail(@), !.cursor = cursor]
    BY <1>4, <1>5 DEF ApplyRemote
  <2> HIDE DEF c
  <2>2. dcur' \in {dcur, c} /\ dcur' >= dcur /\ dcur' >= c /\ dcur' \in Int
    <3>1. Max({dcur, c}) \in {dcur, c} /\ Max({dcur, c}) >= dcur /\ Max({dcur, c}) >= c
      BY <1>2, <2>1, MaxPair
    <3> QED BY <1>2, <2>1, <3>1
  <2>3. cursor \in {s.cursor, c}
    <3>1. \A a, b \in Int : Max({a, b}) \in {a, b}
      BY MaxPair
    <3>2. s.cursor \in Int
      BY <1>2
    <3> QED BY <2>1, <3>1, <3>2 DEF Advanced
  <2>4. cursor <= dcur'
    BY <1>2, <1>4, <2>2, <2>3
  <2> HIDE DEF cursor
  <2>5. /\ s'.inbound = Tail(s.inbound) /\ s'.failed = s.failed /\ s'.signal = s.signal
        /\ s'.imports = s.imports /\ s'.cursor = cursor
    BY <1>2, <2>1 DEF SessionSet
  <2> QED BY <1>1, <2>1, <2>2, <2>4, <2>5, HeadApplied DEF c
<1>6. CASE CatchupComplete
  <2>1. /\ Head(s.inbound).t = "ready" /\ have' = have /\ dcur' = dcur
        /\ \E q : s' = [s EXCEPT !.inbound = Tail(@), !.complete = TRUE, !.jobs = q]
    BY <1>6 DEF CatchupComplete
  <2>2. Head(s.inbound).ops = {}
    BY <1>3, <2>1 DEF CatchupInv, InboundInv
  <2>3. /\ s'.inbound = Tail(s.inbound) /\ s'.failed = s.failed /\ s'.signal = s.signal
        /\ s'.imports = s.imports /\ s'.cursor = s.cursor
    BY <1>2, <2>1 DEF SessionSet
  <2>4. have' = have \union Head(s.inbound).ops
    BY <2>1, <2>2
  <2> QED BY <1>1, <1>2, <2>1, <2>3, <2>4, HeadApplied
<1> QED BY <1>5, <1>6

\* A snapshot is imported; the cursor follows it in a step of its own.
LEMMA ImportCatchup ==
    ASSUME SessionInv, SessionInv', CatchupInv, Imports \/ PersistCursor
    PROVE  CatchupInv'
<1>1. UNCHANGED <<gw, at, floor, s2c>>
  BY DEF Imports, PersistCursor, store, wire
<1>2. /\ s \in SessionSet /\ dcur \in Nat /\ s.cursor \in Nat /\ s.cursor <= dcur /\ dcur <= Last
      /\ Last \in Nat /\ Prefix(dcur) \subseteq have
  BY CursorFacts, LastFacts DEF CatchupInv, CursorInv, GaplessCursor, Bounded
<1>3. \A i \in s.imports : /\ i \in [k : {"import", "persist"}, c : {None} \union Nat]
                           /\ i.c \in Int /\ i.c <= Last
                           /\ i.k = "persist" => Prefix(i.c) \subseteq have
  BY CursorFacts DEF CatchupInv, Bounded, CursorInv, None
<1>4. ASSUME have \subseteq have', dcur <= dcur', dcur' <= Last, Prefix(dcur') \subseteq have',
             s'.cursor <= dcur', s'.inbound = s.inbound, s'.failed = s.failed,
             s'.signal = s.signal, ClientSends,
             \A i \in s'.imports : i.c <= Last /\ (i.k = "persist" => Prefix(i.c) \subseteq have')
      PROVE  CatchupInv'
  <2>1. \A o \in Ops : Queued(o) => Queued(o)'
    BY <1>4 DEF Queued
  <2>2. ClientTakes
    BY <1>1 DEF ClientTakes
  <2>3. /\ PagesInv' /\ RequestInv' /\ StreamInv' /\ FailedInv' /\ Below(c2s)' /\ Below(s2c)'
        /\ (\A o \in Ops : at'[o] <= Last') /\ floor' <= Last'
        /\ gw'.stream <= Last' /\ gw'.durable <= Last'
        /\ Last' = Last /\ \A c : Prefix(c)' = Prefix(c)
    BY <1>1, <1>4, <2>1, <2>2, ClientWire
  <2>4. Bounded'
    BY <1>4, <2>3 DEF CatchupInv, Bounded, Below, Ops
  <2>5. InboundInv'
    BY <1>4, <2>3 DEF CatchupInv, InboundInv, Prefix
  <2>6. GaplessCursor'
    BY <1>1, <1>4 DEF GaplessCursor, Prefix, Ops
  <2>7. CursorInv'
    BY <1>4, <2>3, <2>6 DEF CursorInv
  <2> QED BY <2>3, <2>4, <2>5, <2>7 DEF CatchupInv
<1>5. CASE Imports
  <2>1. PICK i \in s.imports :
           /\ have' = have \union Prefix(i.c)
           /\ s' = [s EXCEPT !.imports = (@ \ {i}) \union {[i EXCEPT !.k = "persist"]}]
    BY <1>5 DEF Imports
  <2> DEFINE rest == (s.imports \ {i}) \union {[i EXCEPT !.k = "persist"]}
  <2>2. s' = [s EXCEPT !.imports = rest]
    BY <1>2, <2>1 DEF SessionSet
  <2>3. \A j \in rest : j.c <= Last /\ (j.k = "persist" => Prefix(j.c) \subseteq have')
    <3>1. [i EXCEPT !.k = "persist"].c = i.c
      BY <1>3
    <3> QED BY <1>3, <2>1, <3>1
  <2> HIDE DEF rest
  <2>4. /\ s'.inbound = s.inbound /\ s'.failed = s.failed /\ s'.signal = s.signal
        /\ s'.cursor = s.cursor /\ s'.imports = rest
    BY <1>2, <2>2 DEF SessionSet
  <2>5. dcur' = dcur /\ c2s' = c2s
    BY <1>5 DEF Imports, wire
  <2> QED BY <1>2, <1>4, <2>1, <2>3, <2>4, <2>5 DEF ClientSends
<1>6. CASE PersistCursor
  <2>1. PICK i \in s.imports :
           /\ i.k = "persist" /\ dcur' = Max({dcur, i.c})
           /\ s' = [s EXCEPT !.imports = @ \ {i}, !.cursor = Advanced(i.c)]
           /\ Send(Frame("sync_request", {}, Advanced(i.c)))
    BY <1>6 DEF PersistCursor
  <2> DEFINE rest == s.imports \ {i}
             cursor == Advanced(i.c)
  <2>2. i.c \in Int /\ i.c <= Last /\ Prefix(i.c) \subseteq have
    BY <1>3, <2>1
  <2>3. dcur' \in {dcur, i.c} /\ dcur' >= dcur /\ dcur' >= i.c /\ dcur' \in Nat
    <3>1. \A a, b \in Int : Max({a, b}) \in {a, b} /\ Max({a, b}) >= a /\ Max({a, b}) >= b
      BY MaxPair
    <3>2. dcur \in Int
      BY <1>2
    <3>3. Max({dcur, i.c}) \in {dcur, i.c} /\ Max({dcur, i.c}) >= dcur /\ Max({dcur, i.c}) >= i.c
      BY <2>2, <3>1, <3>2
    <3> QED BY <1>2, <2>1, <2>2, <3>3
  <2>4. cursor \in {s.cursor, i.c} /\ cursor >= s.cursor
    <3>1. \A a, b \in Int : Max({a, b}) \in {a, b} /\ Max({a, b}) >= a
      BY MaxPair
    <3>2. s.cursor \in Int
      BY <1>2
    <3> QED BY <2>2, <3>1, <3>2 DEF Advanced
  <2>5. s' = [s EXCEPT !.imports = rest, !.cursor = cursor]
    BY <1>2, <2>1 DEF SessionSet
  <2>6. Send(Frame("sync_request", {}, cursor))
    BY <2>1
  <2>7. \A j \in rest : j.c <= Last /\ (j.k = "persist" => Prefix(j.c) \subseteq have)
    BY <1>3
  <2> HIDE DEF rest, cursor
  <2>8. /\ s'.inbound = s.inbound /\ s'.failed = s.failed /\ s'.signal = s.signal
        /\ s'.cursor = cursor /\ s'.imports = rest
    BY <1>2, <2>5 DEF SessionSet
  <2>9. cursor \in 0 .. dcur' /\ cursor <= Last /\ dcur' <= Last /\ cursor \in Nat
    BY <1>2, <2>2, <2>3, <2>4
  <2>10. Frame("sync_request", {}, cursor) \in FrameSet /\ Frame("sync_request", {}, cursor).c = cursor
    BY <2>9, PlainFrame DEF FrameTypes
  <2>11. ClientSends
    BY <2>6, <2>9, <2>10, Sends
  <2>12. have' = have
    BY <1>6 DEF PersistCursor
  <2>13. Prefix(dcur') \subseteq have'
    BY <1>2, <2>2, <2>3, <2>12
  <2>14. dcur <= dcur' /\ cursor <= dcur'
    BY <1>2, <2>3, <2>9
  <2> QED BY <1>4, <2>7, <2>8, <2>9, <2>11, <2>12, <2>13, <2>14
<1> QED BY <1>5, <1>6

-----------------------------------------------------------------------------
(* Lost connections *)

\* Whatever loses the connection: the channels are empty, the gateway has
\* forgotten it, and what is left in line still names what it did.
LEMMA LossCatchup ==
    ASSUME SessionInv, SessionInv', CatchupInv, Grown, UNCHANGED <<floor, have, dcur>>,
           c2s' = <<>>, s2c' = <<>>, gw' = NoConn,
           s'.cursor <= dcur, s'.signal = s.signal \/ s'.signal = None, s'.imports \subseteq s.imports,
           \/ s'.inbound = s.inbound \/ s'.inbound = <<>>
           \/ s.inbound # <<>> /\ Head(s.inbound).t = "ready" /\ s'.inbound = Tail(s.inbound)
    PROVE  CatchupInv'
<1>1. /\ Last \in Nat /\ Last' \in Nat /\ Last <= Last' /\ \A o \in Ops : at'[o] <= Last'
  BY DEF Grown
<1>2. /\ floor \in Nat /\ dcur \in Nat /\ s.signal \in {None} \union Nat /\ None \in Int
      /\ \A i \in s.imports : i.c \in {None} \union Nat
  BY CursorFacts DEF None
<1>3. /\ floor <= Last /\ dcur <= Last /\ s.signal <= Last /\ \A i \in s.imports : i.c <= Last
  BY DEF CatchupInv, Bounded
<1>4. \A c \in {None} \union Nat : c <= Last =>
         \A o \in Ops : at'[o] > 0 /\ at'[o] <= c => o \in Prefix(c)
  BY PrefixKept
<1>5. /\ Len(s.inbound) \in Nat /\ DOMAIN s.inbound = 1 .. Len(s.inbound)
      /\ s.inbound \in Seq(FrameSet)
      /\ \A i \in DOMAIN s.inbound : s.inbound[i].c \in {None} \union Nat
  BY WireFacts
\* What is still in line.
<1>6. ASSUME NEW i \in DOMAIN s.inbound
      PROVE  /\ s.inbound[i].c <= Last'
             /\ s.inbound[i].t \in {"sync_batch", "peer_ops", "ready"}
             /\ s.inbound[i].t = "ready" => s.inbound[i].ops = {}
             /\ s.inbound[i].t # "sync_batch" => s.inbound[i].c = None
             /\ \A o \in Ops : at'[o] > 0 /\ at'[o] <= s.inbound[i].c =>
                   o \in have \/ \E j \in 1 .. i : o \in s.inbound[j].ops
  <2>1. s.inbound[i].c <= Last /\ s.inbound[i].c \in {None} \union Nat
    BY <1>5 DEF CatchupInv, Bounded, Below
  <2>2. s.inbound[i].c <= Last'
    BY <1>1, <1>2, <2>1
  <2>3. \A o \in Ops : at'[o] > 0 /\ at'[o] <= s.inbound[i].c => o \in Prefix(s.inbound[i].c)
    BY <1>4, <2>1
  <2> QED BY <2>2, <2>3 DEF CatchupInv, InboundInv
<1>7. ASSUME NEW i \in DOMAIN s'.inbound
      PROVE  /\ s'.inbound[i].c <= Last'
             /\ s'.inbound[i].t \in {"sync_batch", "peer_ops", "ready"}
             /\ s'.inbound[i].t = "ready" => s'.inbound[i].ops = {}
             /\ s'.inbound[i].t # "sync_batch" => s'.inbound[i].c = None
             /\ \A o \in Ops : at'[o] > 0 /\ at'[o] <= s'.inbound[i].c =>
                   o \in have \/ \E j \in 1 .. i : o \in s'.inbound[j].ops
  <2>1. CASE s'.inbound = s.inbound
    BY <1>6, <2>1
  <2>2. CASE s'.inbound = <<>>
    BY <2>2
  <2>3. CASE s.inbound # <<>> /\ Head(s.inbound).t = "ready" /\ s'.inbound = Tail(s.inbound)
    <3>1. /\ Head(s.inbound) = s.inbound[1] /\ Len(s.inbound) > 0
          /\ DOMAIN s'.inbound = 1 .. Len(s.inbound) - 1
          /\ \A k \in 1 .. Len(s.inbound) - 1 : s'.inbound[k] = s.inbound[k + 1]
      BY <1>5, <2>3, QueueTail
    <3>2. i + 1 \in DOMAIN s.inbound /\ s'.inbound[i] = s.inbound[i + 1] /\ 1 \in DOMAIN s.inbound
      BY <1>5, <3>1
    <3>3. s.inbound[1].ops = {}
      BY <1>6, <2>3, <3>1, <3>2
    <3>4. ASSUME NEW o \in Ops, NEW j \in 1 .. i + 1, o \in s.inbound[j].ops
          PROVE  \E k \in 1 .. i : o \in s'.inbound[k].ops
      <4>1. j # 1
        BY <3>3, <3>4
      <4>2. j - 1 \in 1 .. i /\ j - 1 \in 1 .. Len(s.inbound) - 1 /\ (j - 1) + 1 = j
        BY <1>5, <3>1, <4>1
      <4>3. o \in s'.inbound[j - 1].ops
        BY <3>1, <3>4, <4>2
      <4> QED BY <4>2, <4>3
    <3>5. /\ s.inbound[i + 1].c <= Last'
          /\ s.inbound[i + 1].t \in {"sync_batch", "peer_ops", "ready"}
          /\ s.inbound[i + 1].t = "ready" => s.inbound[i + 1].ops = {}
          /\ s.inbound[i + 1].t # "sync_batch" => s.inbound[i + 1].c = None
          /\ \A o \in Ops : at'[o] > 0 /\ at'[o] <= s.inbound[i + 1].c =>
                o \in have \/ \E j \in 1 .. i + 1 : o \in s.inbound[j].ops
      BY <1>6, <3>2
    <3> QED BY <3>2, <3>4, <3>5
  <2> QED BY <2>1, <2>2, <2>3
<1>8. InboundInv'
  BY <1>7 DEF InboundInv, Prefix, Ops
<1>9. Bounded'
  <2>1. gw'.stream = None /\ gw'.durable = None
    BY DEF NoConn
  <2>2. Below(c2s)' /\ Below(s2c)' /\ Below(s.inbound)'
    BY <1>7 DEF Below
  <2>3. floor' <= Last' /\ dcur' <= Last' /\ s'.signal <= Last'
        /\ gw'.stream <= Last' /\ gw'.durable <= Last'
    BY <1>1, <1>2, <1>3, <2>1 DEF None
  <2>4. \A i \in s'.imports : i.c <= Last'
    <3>1. \A i \in s.imports : i.c \in Int
      BY <1>2
    <3> QED BY <1>1, <1>3, <3>1
  <2> QED BY <1>1, <2>2, <2>3, <2>4 DEF Bounded, Ops
<1>10. PagesInv' /\ RequestInv'
  BY DEF PagesInv, RequestInv
<1>11. StreamInv' /\ FailedInv'
  <2>1. gw'.stream = None /\ gw'.durable = None /\ gw'.state = "none"
    BY DEF NoConn
  <2>2. StreamInv'
    BY <2>1 DEF StreamInv
  <2>3. FailedInv'
    BY <2>1 DEF FailedInv
  <2> QED BY <2>2, <2>3
<1>12. CursorInv'
  <2>1. ASSUME NEW c \in {None} \union Nat, c <= Last, Prefix(c) \subseteq have, NEW o \in Ops,
               at'[o] > 0, at'[o] <= c
        PROVE  o \in have
    BY <1>4, <2>1
  <2>2. Prefix(dcur) \subseteq have /\ s.cursor <= dcur
        /\ \A i \in s.imports : i.k = "persist" => Prefix(i.c) \subseteq have
    BY DEF CatchupInv, CursorInv, GaplessCursor
  <2>3. GaplessCursor'
    BY <1>2, <1>3, <2>1, <2>2 DEF GaplessCursor, Prefix, Ops
  <2>4. \A i \in s'.imports : i.k = "persist" =>
           \A o \in Ops : at'[o] > 0 /\ at'[o] <= i.c => o \in have
    BY <1>2, <1>3, <2>1, <2>2
  <2> QED BY <2>3, <2>4 DEF CursorInv, Prefix, Ops
<1> QED BY <1>8, <1>9, <1>10, <1>11, <1>12 DEF CatchupInv

\* Every failure that reconnects, and a reload of the page.
LEMMA FailureCatchup ==
    ASSUME SessionInv, SessionInv', CatchupInv,
           \/ Drops \/ Reload \/ ApplyFails \/ ClearAckedFails \/ MarkAckedFails \/ ImportFails
           \/ (Joins \/ Confirms) /\ s.broken
           \/ DatabaseUnavailable /\ net.status = "syncing"
    PROVE  CatchupInv'
<1>1. /\ s \in SessionSet /\ s.cursor <= dcur /\ dcur \in Nat
  BY CursorFacts DEF CatchupInv, CursorInv, GaplessCursor
<1>2. ASSUME Lose("reconnecting"), UNCHANGED <<floor, have, dcur>>,
             s'.cursor = s.cursor, s'.signal = s.signal, s'.imports \subseteq s.imports,
             \/ s'.inbound = s.inbound \/ s'.inbound = <<>>
             \/ s.inbound # <<>> /\ Head(s.inbound).t = "ready" /\ s'.inbound = Tail(s.inbound)
      PROVE  CatchupInv'
  <2>1. Grown
    BY <1>2, GrownLose
  <2>2. c2s' = <<>> /\ s2c' = <<>> /\ gw' = NoConn
    BY <1>2 DEF Lose, Teardown
  <2> QED BY <1>1, <1>2, <2>1, <2>2, LossCatchup
<1>3. CASE Drops
  <2>1. s' = s /\ Lose("reconnecting") /\ UNCHANGED <<floor, have, dcur>>
    BY <1>3 DEF Drops, worker
  <2> QED BY <1>2, <2>1
<1>4. CASE Reload
  <2>1. c2s' = <<>> /\ s2c' = <<>> /\ gw' = NoConn /\ s' = Fresh(dcur)
        /\ UNCHANGED <<floor, have, dcur>>
        /\ at' = Ingested(IF gw.state = "ready" THEN Straggling(Len(c2s)) ELSE {})
    BY <1>4 DEF Reload, Teardown, worker
  <2>2. s'.cursor = dcur /\ s'.signal = None /\ s'.imports = {} /\ s'.inbound = <<>>
    BY <2>1 DEF Fresh
  <2>3. Grown
    <3>1. Len(c2s) \in 0 .. Len(c2s)
      BY WireFacts
    <3>2. (IF gw.state = "ready" THEN Straggling(Len(c2s)) ELSE {}) \in SUBSET Ops
      BY <3>1, StragglingFacts, OpsFacts
    <3> QED BY <2>1, <3>2, GrownIngest
  <2> QED BY <1>1, <2>1, <2>2, <2>3, LossCatchup
<1>5. CASE ApplyFails
  <2>1. s' = [s EXCEPT !.inbound = <<>>, !.failed = TRUE]
        /\ Lose("reconnecting") /\ UNCHANGED <<floor, have, dcur>>
    BY <1>5 DEF ApplyFails, CatchupFailed, Reconnect, worker
  <2>2. s'.cursor = s.cursor /\ s'.signal = s.signal /\ s'.imports = s.imports /\ s'.inbound = <<>>
    BY <1>1, <2>1 DEF SessionSet
  <2> QED BY <1>2, <2>1, <2>2
<1>6. CASE ClearAckedFails
  <2>1. s' = [s EXCEPT !.inbound = Tail(@), !.complete = TRUE]
        /\ Lose("reconnecting") /\ UNCHANGED <<floor, have, dcur>>
        /\ s.inbound # <<>> /\ Head(s.inbound).t = "ready"
    BY <1>6 DEF ClearAckedFails, Reconnect, worker
  <2>2. s'.cursor = s.cursor /\ s'.signal = s.signal /\ s'.imports = s.imports
        /\ s'.inbound = Tail(s.inbound)
    BY <1>1, <2>1 DEF SessionSet
  <2> QED BY <1>2, <2>1, <2>2
<1>7. CASE MarkAckedFails
  <2>1. /\ \E ops : s' = [s EXCEPT !.acks = @ \ {ops}]
        /\ Lose("reconnecting") /\ UNCHANGED <<floor, have, dcur>>
    BY <1>7 DEF MarkAckedFails, Reconnect, worker
  <2>2. s'.cursor = s.cursor /\ s'.signal = s.signal /\ s'.imports = s.imports
        /\ s'.inbound = s.inbound
    BY <1>1, <2>1 DEF SessionSet
  <2> QED BY <1>2, <2>1, <2>2
<1>8. CASE ImportFails
  <2>1. /\ \E i : s' = [s EXCEPT !.imports = @ \ {i}]
        /\ Lose("reconnecting") /\ UNCHANGED <<floor, have, dcur>>
    BY <1>8 DEF ImportFails, Reconnect, worker
  <2>2. s'.cursor = s.cursor /\ s'.signal = s.signal /\ s'.imports \subseteq s.imports
        /\ s'.inbound = s.inbound
    BY <1>1, <2>1 DEF SessionSet
  <2> QED BY <1>2, <2>1, <2>2
<1>9. CASE (Joins \/ Confirms) /\ s.broken
  <2>1. s' = [s EXCEPT !.jobs = Rest] /\ Lose("reconnecting") /\ UNCHANGED <<floor, have, dcur>>
    BY <1>9 DEF Joins, Confirms, Reconnect, worker
  <2>2. s'.cursor = s.cursor /\ s'.signal = s.signal /\ s'.imports = s.imports
        /\ s'.inbound = s.inbound
    BY <1>1, <2>1 DEF SessionSet
  <2> QED BY <1>2, <2>1, <2>2
<1>10. CASE DatabaseUnavailable /\ net.status = "syncing"
  <2>1. s' = s /\ Lose("reconnecting") /\ UNCHANGED <<floor, have, dcur>>
    BY <1>10 DEF DatabaseUnavailable, Reconnect, worker
  <2> QED BY <1>2, <2>1
<1> QED BY <1>3, <1>4, <1>5, <1>6, <1>7, <1>8, <1>9, <1>10

-----------------------------------------------------------------------------
(* The invariant *)

\* An empty store, empty channels and a cursor at the beginning.
LEMMA CatchupInit ==
    ASSUME Init
    PROVE  CatchupInv
<1>1. /\ c2s = <<>> /\ s2c = <<>> /\ gw = NoConn /\ at = [o \in Ops |-> 0] /\ floor = 0
      /\ have = {} /\ dcur = 0 /\ s = Fresh(0)
  BY DEF Init, TransportInit
<1>2. /\ s.inbound = <<>> /\ s.cursor = 0 /\ s.signal = None /\ s.imports = {} /\ s.failed = FALSE
      /\ gw.stream = None /\ gw.durable = None /\ gw.joining = FALSE
  BY <1>1 DEF Fresh, NoConn
<1>3. Last \in Nat /\ \A c : Prefix(c) = {}
  BY <1>1, LastFacts DEF Prefix
<1>4. Bounded
  BY <1>1, <1>2, <1>3 DEF Bounded, Below, None
<1>5. InboundInv /\ PagesInv /\ RequestInv
  BY <1>1, <1>2 DEF InboundInv, PagesInv, RequestInv
<1>6. StreamInv /\ FailedInv
  BY <1>2 DEF StreamInv, FailedInv
<1>7. CursorInv
  BY <1>1, <1>2, <1>3 DEF CursorInv, GaplessCursor
<1> QED BY <1>4, <1>5, <1>6, <1>7 DEF CatchupInv

\* Nothing that CatchupInv mentions changes.
LEMMA CatchupStutter ==
    ASSUME CatchupInv, UNCHANGED vars
    PROVE  CatchupInv'
<1>1. UNCHANGED <<c2s, s2c, gw, at, floor, have, dcur, s>>
  BY DEF vars, wire, store, worker
<1>2. Last' = Last /\ \A c : Prefix(c)' = Prefix(c)
  BY <1>1 DEF Prefix, Ops, Last
<1>3. Bounded' /\ RequestInv' /\ FailedInv' /\ InboundInv' /\ PagesInv' /\ StreamInv'
  <2>1. Bounded' /\ RequestInv' /\ FailedInv'
    BY <1>1, <1>2 DEF CatchupInv, Bounded, Below, RequestInv, FailedInv, Remote, Ops
  <2>2. InboundInv' /\ PagesInv' /\ StreamInv'
    BY <1>1, <1>2 DEF CatchupInv, InboundInv, PagesInv, StreamInv, Coming, Queued, Remote, Ops, Prefix
  <2> QED BY <2>1, <2>2
<1>4. CursorInv'
  BY <1>1, <1>2 DEF CatchupInv, CursorInv, GaplessCursor, Prefix, Ops
<1> QED BY <1>3, <1>4 DEF CatchupInv

\* CatchupInv is inductive beside SessionInv when no commit meets a join and no
\* pruning a catch-up.
LEMMA CatchupStep ==
    ASSUME Calm, SessionInv, SessionInv', CatchupInv, Next
    PROVE  CatchupInv'
<1>1. CASE TransportStep
  <2>1. UNCHANGED <<store, worker, outbox, s>> /\ TransportNext
    BY <1>1 DEF TransportStep
  <2>2. CASE Opens \/ GwHello \/ GwAuthenticate
    BY <2>1, <2>2, HandshakeCatchup
  <2>3. CASE TimerFires \/ HelloAck \/ TokenArrives \/ TokenFails
    BY <2>1, <2>3, QuietCatchup
  <2> QED BY <2>1, <2>2, <2>3 DEF TransportNext
<1>2. CASE GwFetch \/ GwPageFails
  <2>1. UNCHANGED <<store, worker, s>>
    BY <1>2 DEF GwFetch, GwPageFails
  <2> QED BY <1>2, <2>1, HandshakeCatchup
<1>3. CASE GwJoin \/ GwRegister \/ GwSync
  BY <1>3, JoinCatchup
<1>4. CASE PeerCommits \/ GwIngest
  BY <1>4, CommitCatchup
<1>5. CASE GwPage
  BY <1>5, PageCatchup
<1>6. CASE Compacts
  BY <1>6, CompactCatchup
<1>7. CASE LocalOp \/ StartJob \/ AddPending \/ AddPendingFails \/ Starts
           \/ FlushReads \/ FlushSends \/ MarkSent \/ MarkAcked
  BY <1>7, QuietCatchup
<1>8. CASE Joins \/ Confirms
  <2>1. CASE s.broken
    BY <1>8, <2>1, FailureCatchup
  <2>2. CASE ~s.broken
    BY <1>8, <2>2, QuietCatchup
  <2> QED BY <2>1, <2>2
<1>9. CASE JoinAccepted \/ Authenticated \/ DurableAck \/ ResyncRequired \/ SnapshotPayload \/ SyncNow
  BY <1>9, ControlCatchup
<1>10. CASE DatabaseUnavailable
  <2>1. CASE net.status = "syncing"
    BY <1>10, <2>1, FailureCatchup
  <2>2. CASE net.status # "syncing"
    BY <1>10, <2>2, ControlCatchup
  <2> QED BY <2>1, <2>2
<1>11. CASE SyncDone \/ QueueRemote
  BY <1>11, ArrivalCatchup
<1>12. CASE ApplyRemote \/ CatchupComplete
  BY <1>12, AppliedCatchup
<1>13. CASE Imports \/ PersistCursor
  BY <1>13, ImportCatchup
<1>14. CASE Drops \/ Reload \/ ApplyFails \/ ClearAckedFails \/ MarkAckedFails \/ ImportFails
  BY <1>14, FailureCatchup
<1> QED BY <1>1, <1>2, <1>3, <1>4, <1>5, <1>6, <1>7, <1>8, <1>9, <1>10, <1>11, <1>12, <1>13, <1>14
    DEF Next, GwNext, ChainNext, FrameNext, HandlerNext, FaultNext

\* In every state of every calm run: what a page or a broadcast in line, a page on
\* its way and the catch-up in progress cover (ws/mod.rs, lib/sync/session.ts).
THEOREM CatchupInvariant == Calm => (Spec => []CatchupInv)
<1> SUFFICES ASSUME Calm PROVE Spec => []CatchupInv
  OBVIOUS
<1>1. Init => CatchupInv
  BY CatchupInit
<1>2. SessionInv /\ SessionInv' /\ CatchupInv /\ [Next]_vars => CatchupInv'
  BY CatchupStep, CatchupStutter
<1> QED BY <1>1, <1>2, SessionInvariant, PTL DEF Spec

\* Neither the durable cursor nor the status runs ahead of what is stored, across
\* failed pages, lost connections, reloads and snapshot resyncs (queueRemote,
\* performSnapshotResync, confirmOutbox).
THEOREM ClaimsHold == Calm => (Spec => []NothingClaimedEarly)
<1> SUFFICES ASSUME Calm PROVE Spec => []NothingClaimedEarly
  OBVIOUS
<1>1. SessionInv /\ CatchupInv => NothingClaimedEarly
  BY DEF SessionInv, CatchupInv, CursorInv, NothingClaimedEarly
<1>2. Spec => []CatchupInv
  BY CatchupInvariant
<1> QED BY <1>1, <1>2, SessionInvariant, PTL
=============================================================================
