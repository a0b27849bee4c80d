---------------------------- MODULE CrdtProofs ----------------------------
(***************************************************************************)
(* Proofs about the CRDT document engine (CrdtDoc).                        *)
(*                                                                         *)
(* First the recursive functions of the model are unfolded and a turn of   *)
(* each loop of doc.cpp and core.ts is shown to keep an engine exact about *)
(* the operations it applied.  That is CrdtInv, which is inductive for     *)
(* requests of any length, and from which IntegrationExact and             *)
(* LastWriterWins follow.                                                  *)
(*                                                                         *)
(* Then the conflict scan is shown to put an insert where one total order  *)
(* of all items has it.  The order is not a part of the state: it is a     *)
(* witness that every local insert extends, at a place that is closed      *)
(* under the subtrees and the siblings before it, and that every other     *)
(* step leaves alone.  An author must have all that it made before, so     *)
(* reloads must lose nothing, which holds when a request carries one       *)
(* operation: that is the hypothesis MaxBatch = 1.  Convergence, the place *)
(* between the anchors and the stable view follow from the order.          *)
(***************************************************************************)
EXTENDS CrdtDoc, FiniteSetTheorems, WellFoundedInduction, TLAPS

-----------------------------------------------------------------------------
(* Induction, by the least counterexample.                                 *)

\* Every set of natural numbers that has an element has a least one.
LEMMA Least == ASSUME NEW S \in SUBSET Nat, S # {} PROVE \E n \in S : \A m \in S : n <= m
<1>1. OpToRel(<, Nat) = {ss \in Nat \X Nat : ss[1] < ss[2]}
  BY DEF OpToRel
<1>2. IsWellFoundedOn({ss \in Nat \X Nat : ss[1] < ss[2]}, Nat)
  BY <1>1, NatLessThanWellFounded
<1>3. PICK n \in S : \A m \in S : ~(<<m, n>> \in {ss \in Nat \X Nat : ss[1] < ss[2]})
  BY <1>2, WFMin
<1>4. ASSUME NEW m \in S PROVE n <= m
  <2>1. m \in Nat /\ n \in Nat
    OBVIOUS
  <2>2. ~(m < n)
    BY <1>3, <2>1
  <2> QED BY <2>1, <2>2
<1> QED BY <1>4

\* A set that has 0, and with each number the next one, has them all.
LEMMA Induction ==
    ASSUME NEW n \in Nat, NEW S, 0 \in S, \A k \in 0 .. n : k \in S /\ k < n => k + 1 \in S
    PROVE  \A k \in 0 .. n : k \in S
<1> DEFINE B == {k \in 0 .. n : k \notin S}
<1> SUFFICES ASSUME B # {} PROVE FALSE
  OBVIOUS
<1>1. PICK k \in B : \A m \in B : k <= m
  <2>1. B \in SUBSET Nat
    OBVIOUS
  <2> HIDE DEF B
  <2> QED BY <2>1, Least
<1>2. k # 0 /\ k \in 0 .. n /\ k - 1 \in 0 .. n /\ k - 1 < n
  OBVIOUS
<1>3. k - 1 \notin B
  BY <1>1, <1>2
<1>4. k - 1 \in S
  BY <1>2, <1>3
<1>5. (k - 1) + 1 \in S
  BY <1>2, <1>4
<1> QED BY <1>2, <1>5

-----------------------------------------------------------------------------
(* The recursive definitions have solutions.                               *)

\* The state in which the conflict scan begins.
ScanStart(op) == [after |-> op.left, seen |-> {}, open |-> {}, stop |-> FALSE]

\* Each turn of the conflict scan follows from the one before.
LEMMA ScanIs ==
    ASSUME NEW d, NEW op, NEW last \in Nat, Position(d, op.left) \in 0 .. last
    PROVE  LET from == Position(d, op.left) IN
           /\ Scan(d, op, last)[from] = ScanStart(op)
           /\ \A i \in (from + 1) .. last :
                  Scan(d, op, last)[i] = ScanItem(op, Scan(d, op, last)[i - 1], d.order[i])
<1> DEFINE from == Position(d, op.left)
           P(k, g) == g = [i \in from .. k |-> IF i = from THEN ScanStart(op)
                                               ELSE ScanItem(op, g[i - 1], d.order[i])]
           S == {k \in Nat : \E g : P(from + k, g)}
<1>0. from \in Nat /\ from <= last /\ last - from \in Nat
  OBVIOUS
<1>1. 0 \in S
  <2>1. P(from + 0, [i \in from .. from |-> ScanStart(op)])
    BY <1>0
  <2> QED BY <2>1
<1>2. ASSUME NEW k \in Nat, k \in S PROVE k + 1 \in S
  <2>1. PICK g : P(from + k, g)
    BY <1>2
  <2> DEFINE h == [i \in from .. (from + (k + 1)) |->
                      IF i = from + (k + 1) THEN ScanItem(op, g[from + k], d.order[i]) ELSE g[i]]
  <2>2. P(from + (k + 1), h)
    <3>1. ASSUME NEW i \in from .. (from + (k + 1))
          PROVE  h[i] = IF i = from THEN ScanStart(op) ELSE ScanItem(op, h[i - 1], d.order[i])
      <4>1. CASE i = from + (k + 1)
        BY <4>1, <1>0
      <4>2. CASE i # from + (k + 1)
        <5>1. i \in from .. (from + k) /\ h[i] = g[i]
          BY <4>2, <1>0
        <5>2. CASE i = from
          BY <5>1, <5>2, <2>1
        <5>3. CASE i # from
          <6>1. i - 1 \in from .. (from + k) /\ h[i - 1] = g[i - 1]
            BY <5>3, <5>1, <1>0
          <6> QED BY <6>1, <5>1, <5>3, <2>1
        <5> QED BY <5>2, <5>3
      <4> QED BY <4>1, <4>2
    <3> QED BY <3>1
  <2>3. \E e : P(from + (k + 1), e)
    BY <2>2
  <2> QED BY <2>3
<1>3. \A k \in 0 .. (last - from) : k \in S
  <2> HIDE DEF S
  <2> QED BY <1>0, <1>1, <1>2, Induction
<1>4. \E g : P(last, g)
  <2>1. last - from \in S /\ from + (last - from) = last
    BY <1>0, <1>3
  <2> QED BY <2>1
<1>5. P(last, Scan(d, op, last))
  BY <1>4 DEF Scan, ScanStart
<1> QED BY <1>5, <1>0

\* A pass over the buffer goes operation by operation, ...
LEMMA RetriedIs ==
    ASSUME NEW d, Len(d.pending) \in Nat
    PROVE  /\ Retried(d)[0] = [d EXCEPT !.pending = <<>>]
           /\ \A k \in 1 .. Len(d.pending) : Retried(d)[k] = Retry(Retried(d)[k - 1], d.pending[k])
<1> DEFINE n == Len(d.pending)
           first == [d EXCEPT !.pending = <<>>]
           P(k, g) == g = [i \in 0 .. k |-> IF i = 0 THEN first ELSE Retry(g[i - 1], d.pending[i])]
           S == {k \in Nat : \E g : P(k, g)}
<1>0. n \in Nat
  OBVIOUS
<1>00. first = [d EXCEPT !.pending = <<>>]
  OBVIOUS
<1> HIDE DEF first
<1>1. 0 \in S
  <2>1. P(0, [i \in 0 .. 0 |-> first])
    OBVIOUS
  <2> QED BY <2>1
<1>2. ASSUME NEW k \in Nat, k \in S PROVE k + 1 \in S
  <2>1. PICK g : P(k, g)
    BY <1>2
  <2>2. P(k + 1, [i \in 0 .. (k + 1) |-> IF i = k + 1 THEN Retry(g[k], d.pending[i]) ELSE g[i]])
    BY <2>1
  <2>3. \E h : P(k + 1, h)
    BY <2>2
  <2> QED BY <2>3
<1>3. \A k \in 0 .. n : k \in S
  <2> HIDE DEF S, n
  <2> QED BY <1>0, <1>1, <1>2, Induction
<1>4. \E g : P(n, g)
  BY <1>0, <1>3
<1>5. P(n, Retried(d))
  BY <1>4, <1>00 DEF Retried
<1>6. Retried(d)[0] = first
  BY <1>0, <1>5
<1>7. \A k \in 1 .. n : Retried(d)[k] = Retry(Retried(d)[k - 1], d.pending[k])
  BY <1>0, <1>5
<1> QED BY <1>00, <1>6, <1>7

\* ... the passes follow one another, ...
LEMMA PassesIs ==
    ASSUME NEW d, Len(d.pending) \in Nat
    PROVE  /\ Passes(d)[0] = d
           /\ \A k \in 1 .. Len(d.pending) : Passes(d)[k] = RetryPass(Passes(d)[k - 1])
<1> DEFINE n == Len(d.pending)
           first == d
           P(k, g) == g = [i \in 0 .. k |-> IF i = 0 THEN first ELSE RetryPass(g[i - 1])]
           S == {k \in Nat : \E g : P(k, g)}
<1>0. n \in Nat
  OBVIOUS
<1>00. first = d
  OBVIOUS
<1> HIDE DEF first
<1>1. 0 \in S
  <2>1. P(0, [i \in 0 .. 0 |-> first])
    OBVIOUS
  <2> QED BY <2>1
<1>2. ASSUME NEW k \in Nat, k \in S PROVE k + 1 \in S
  <2>1. PICK g : P(k, g)
    BY <1>2
  <2>2. P(k + 1, [i \in 0 .. (k + 1) |-> IF i = k + 1 THEN RetryPass(g[k]) ELSE g[i]])
    BY <2>1
  <2>3. \E h : P(k + 1, h)
    BY <2>2
  <2> QED BY <2>3
<1>3. \A k \in 0 .. n : k \in S
  <2> HIDE DEF S, n
  <2> QED BY <1>0, <1>1, <1>2, Induction
<1>4. \E g : P(n, g)
  BY <1>0, <1>3
<1>5. P(n, Passes(d))
  BY <1>4, <1>00 DEF Passes
<1>6. Passes(d)[0] = first
  BY <1>0, <1>5
<1>7. \A k \in 1 .. n : Passes(d)[k] = RetryPass(Passes(d)[k - 1])
  BY <1>0, <1>5
<1> QED BY <1>00, <1>6, <1>7

\* ... so do the frames of a request ...
LEMMA TakenIs ==
    ASSUME NEW d, NEW batch, Len(batch) \in Nat
    PROVE  /\ Taken(d, batch)[0] = [doc |-> d, durable |-> {}, thrown |-> FALSE]
           /\ \A k \in 1 .. Len(batch) : Taken(d, batch)[k] = TakeFrame(Taken(d, batch)[k - 1], batch[k])
<1> DEFINE n == Len(batch)
           first == [doc |-> d, durable |-> {}, thrown |-> FALSE]
           P(k, g) == g = [i \in 0 .. k |-> IF i = 0 THEN first ELSE TakeFrame(g[i - 1], batch[i])]
           S == {k \in Nat : \E g : P(k, g)}
<1>0. n \in Nat
  OBVIOUS
<1>00. first = [doc |-> d, durable |-> {}, thrown |-> FALSE]
  OBVIOUS
<1> HIDE DEF first
<1>1. 0 \in S
  <2>1. P(0, [i \in 0 .. 0 |-> first])
    OBVIOUS
  <2> QED BY <2>1
<1>2. ASSUME NEW k \in Nat, k \in S PROVE k + 1 \in S
  <2>1. PICK g : P(k, g)
    BY <1>2
  <2>2. P(k + 1, [i \in 0 .. (k + 1) |-> IF i = k + 1 THEN TakeFrame(g[k], batch[i]) ELSE g[i]])
    BY <2>1
  <2>3. \E h : P(k + 1, h)
    BY <2>2
  <2> QED BY <2>3
<1>3. \A k \in 0 .. n : k \in S
  <2> HIDE DEF S, n
  <2> QED BY <1>0, <1>1, <1>2, Induction
<1>4. \E g : P(n, g)
  BY <1>0, <1>3
<1>5. P(n, Taken(d, batch))
  BY <1>4, <1>00 DEF Taken
<1>6. Taken(d, batch)[0] = first
  BY <1>0, <1>5
<1>7. \A k \in 1 .. n : Taken(d, batch)[k] = TakeFrame(Taken(d, batch)[k - 1], batch[k])
  BY <1>0, <1>5
<1> QED BY <1>00, <1>6, <1>7

\* ... and the operations of a log.
LEMMA ReplayedIs ==
    ASSUME NEW d, NEW seq, Len(seq) \in Nat
    PROVE  /\ Replayed(d, seq)[0] = d
           /\ \A k \in 1 .. Len(seq) : Replayed(d, seq)[k] = ApplyRemote(Replayed(d, seq)[k - 1], seq[k])
<1> DEFINE n == Len(seq)
           first == d
           P(k, g) == g = [i \in 0 .. k |-> IF i = 0 THEN first ELSE ApplyRemote(g[i - 1], seq[i])]
           S == {k \in Nat : \E g : P(k, g)}
<1>0. n \in Nat
  OBVIOUS
<1>00. first = d
  OBVIOUS
<1> HIDE DEF first
<1>1. 0 \in S
  <2>1. P(0, [i \in 0 .. 0 |-> first])
    OBVIOUS
  <2> QED BY <2>1
<1>2. ASSUME NEW k \in Nat, k \in S PROVE k + 1 \in S
  <2>1. PICK g : P(k, g)
    BY <1>2
  <2>2. P(k + 1, [i \in 0 .. (k + 1) |-> IF i = k + 1 THEN ApplyRemote(g[k], seq[i]) ELSE g[i]])
    BY <2>1
  <2>3. \E h : P(k + 1, h)
    BY <2>2
  <2> QED BY <2>3
<1>3. \A k \in 0 .. n : k \in S
  <2> HIDE DEF S, n
  <2> QED BY <1>0, <1>1, <1>2, Induction
<1>4. \E g : P(n, g)
  BY <1>0, <1>3
<1>5. P(n, Replayed(d, seq))
  BY <1>4, <1>00 DEF Replayed
<1>6. Replayed(d, seq)[0] = first
  BY <1>0, <1>5
<1>7. \A k \in 1 .. n : Replayed(d, seq)[k] = ApplyRemote(Replayed(d, seq)[k - 1], seq[k])
  BY <1>0, <1>5
<1> QED BY <1>00, <1>6, <1>7

-----------------------------------------------------------------------------
(* Streams.                                                                *)

\* What a stream holds for an item.
Entry == [id : Ids, left : Ids \cup {None}]

\* No item is in the stream twice.
Unique(d) == \A i, j \in DOMAIN d.order : d.order[i].id = d.order[j].id => i = j

\* No operation is named <<0, 0>>.
LEMMA IdFacts == /\ None \notin Ids
                 /\ \A x \in Ids : x = <<x[1], x[2]>> /\ x[1] \in Replicas /\ x[2] \in 1 .. MaxOps
BY ReplicasAssumption DEF Ids, None

\* What the type says of the stream.
LEMMA StreamType ==
    ASSUME NEW d \in Doc
    PROVE  /\ d.order \in Seq(Entry) /\ Len(d.order) \in Nat /\ DOMAIN d.order = 1 .. Len(d.order)
           /\ \A i \in 1 .. Len(d.order) : /\ d.order[i].id \in Ids
                                           /\ d.order[i].left \in Ids \cup {None}
                                           /\ d.order[i] = [id |-> d.order[i].id, left |-> d.order[i].left]
           /\ Items(d) \subseteq Ids
<1>1. d.order \in Seq(Entry)
  BY DEF Doc, Entry
<1>2. \A i \in 1 .. Len(d.order) : d.order[i] \in Entry
  BY <1>1
<1>3. Items(d) \subseteq Ids
  BY <1>1, <1>2 DEF Items, Entry
<1> QED BY <1>1, <1>2, <1>3 DEF Entry

\* An item is where Position says.
LEMMA PositionOf ==
    ASSUME NEW d \in Doc, NEW x \in Items(d) \cup {None}
    PROVE  /\ Position(d, x) \in 0 .. Len(d.order)
           /\ x = None => Position(d, x) = 0
           /\ x # None => Position(d, x) \in 1 .. Len(d.order) /\ d.order[Position(d, x)].id = x
<1>1. CASE x = None
  BY <1>1, StreamType DEF Position
<1>2. CASE x # None
  <2>1. \E i \in DOMAIN d.order : d.order[i].id = x
    BY <1>2 DEF Items
  <2>2. Position(d, x) \in DOMAIN d.order /\ d.order[Position(d, x)].id = x
    BY <1>2, <2>1 DEF Position
  <2> QED BY <1>2, <2>2, StreamType
<1> QED BY <1>1, <1>2

\* An item that is in the stream once has one position.
LEMMA PositionIs ==
    ASSUME NEW d \in Doc, Unique(d), NEW i \in 1 .. Len(d.order)
    PROVE  Position(d, d.order[i].id) = i
<1>1. d.order[i].id # None /\ i \in DOMAIN d.order
  BY StreamType, IdFacts
<1>2. d.order[i].id \in Items(d)
  BY <1>1 DEF Items
<1>3. Position(d, d.order[i].id) \in DOMAIN d.order
      /\ d.order[Position(d, d.order[i].id)].id = d.order[i].id
  BY <1>1, <1>2, PositionOf, StreamType
<1> QED BY <1>1, <1>3 DEF Unique

\* Putting one sequence after another.
LEMMA CatIs ==
    ASSUME NEW S, NEW a \in Seq(S), NEW b \in Seq(S)
    PROVE  /\ a \o b \in Seq(S) /\ Len(a \o b) = Len(a) + Len(b)
           /\ \A k \in 1 .. (Len(a) + Len(b)) : (a \o b)[k] = IF k <= Len(a) THEN a[k] ELSE b[k - Len(a)]
OBVIOUS

\* Splicing an element into a sequence.
LEMMA SpliceIs ==
    ASSUME NEW s \in Seq(Entry), NEW i \in 1 .. (Len(s) + 1), NEW e \in Entry
    PROVE  LET t == InsertAt(s, i, e) IN
           /\ t \in Seq(Entry) /\ Len(t) = Len(s) + 1
           /\ \A k \in 1 .. (Len(s) + 1) :
                  t[k] = IF k < i THEN s[k] ELSE IF k = i THEN e ELSE s[k - 1]
<1>0. Len(s) \in Nat
  OBVIOUS
<1> DEFINE a == SubSeq(s, 1, i - 1)
           b == SubSeq(s, i, Len(s))
<1>1. /\ a \in Seq(Entry) /\ Len(a) = i - 1
      /\ \A k \in 1 .. (i - 1) : a[k] = s[k]
  OBVIOUS
<1>2. /\ b \in Seq(Entry) /\ Len(b) = Len(s) - i + 1
      /\ \A k \in 1 .. (Len(s) - i + 1) : b[k] = s[i + k - 1]
  OBVIOUS
<1>3. <<e>> \in Seq(Entry) /\ Len(<<e>>) = 1 /\ <<e>>[1] = e
  OBVIOUS
<1> DEFINE one == <<e>>
<1>4. InsertAt(s, i, e) = (a \o one) \o b
  BY DEF InsertAt
<1> HIDE DEF a, b, one
<1>5. one \in Seq(Entry) /\ Len(one) = 1 /\ one[1] = e
  BY <1>3 DEF one
<1>6. /\ a \o one \in Seq(Entry) /\ Len(a \o one) = i
      /\ \A k \in 1 .. i : (a \o one)[k] = IF k < i THEN s[k] ELSE e
  <2>1. /\ a \o one \in Seq(Entry) /\ Len(a \o one) = Len(a) + Len(one)
        /\ \A k \in 1 .. (Len(a) + Len(one)) :
               (a \o one)[k] = IF k <= Len(a) THEN a[k] ELSE one[k - Len(a)]
    BY <1>1, <1>5, CatIs
  <2> QED BY <2>1, <1>0, <1>1, <1>5
<1> DEFINE c == a \o one
<1> HIDE DEF c
<1>7. c \in Seq(Entry) /\ Len(c) = i /\ \A k \in 1 .. i : c[k] = IF k < i THEN s[k] ELSE e
  BY <1>6 DEF c
<1>8. /\ c \o b \in Seq(Entry) /\ Len(c \o b) = Len(s) + 1
      /\ \A k \in 1 .. (Len(s) + 1) : (c \o b)[k] = IF k <= i THEN c[k] ELSE b[k - i]
  <2>1. /\ c \o b \in Seq(Entry) /\ Len(c \o b) = Len(c) + Len(b)
        /\ \A k \in 1 .. (Len(c) + Len(b)) :
               (c \o b)[k] = IF k <= Len(c) THEN c[k] ELSE b[k - Len(c)]
    BY <1>2, <1>7, CatIs
  <2> QED BY <2>1, <1>0, <1>2, <1>7
<1>9. InsertAt(s, i, e) = c \o b
  BY <1>4 DEF c
<1>10. ASSUME NEW k \in 1 .. (Len(s) + 1)
       PROVE  (c \o b)[k] = IF k < i THEN s[k] ELSE IF k = i THEN e ELSE s[k - 1]
  <2>1. CASE k <= i
    BY <2>1, <1>7, <1>8
  <2>2. CASE k > i
    <3>1. k - i \in 1 .. (Len(s) - i + 1) /\ i + (k - i) - 1 = k - 1
      BY <2>2, <1>0
    <3>2. b[k - i] = s[k - 1]
      BY <3>1, <1>2
    <3>3. (c \o b)[k] = b[k - i] /\ k # i /\ ~(k < i)
      BY <2>2, <1>8, <1>0
    <3> QED BY <3>3, <3>2
  <2>3. k <= i \/ k > i
    BY <1>0
  <2> QED BY <2>1, <2>2, <2>3
<1> QED BY <1>8, <1>9, <1>10

\* Wherever the scan is, it has an item of the stream, or the left anchor.
LEMMA ScanAfter ==
    ASSUME NEW d \in Doc, NEW op, NEW last \in 0 .. Len(d.order),
           op.left \in Items(d) \cup {None}, Position(d, op.left) \in 0 .. last
    PROVE  Scan(d, op, last)[last].after \in Items(d) \cup {None}
<1> DEFINE from == Position(d, op.left)
           S == {k \in Nat : Scan(d, op, last)[from + k].after \in Items(d) \cup {None}}
<1>0. last \in Nat /\ from \in Nat /\ from <= last
  BY StreamType
<1>1. 0 \in S
  <2>1. Scan(d, op, last)[from] = ScanStart(op)
    BY <1>0, ScanIs
  <2> QED BY <2>1, <1>0 DEF ScanStart
<1>2. ASSUME NEW k \in 0 .. (last - from), k \in S, k < last - from PROVE k + 1 \in S
  <2>1. from + (k + 1) \in (from + 1) .. last /\ from + (k + 1) - 1 = from + k
    BY <1>0, <1>2
  <2>2. Scan(d, op, last)[from + (k + 1)]
          = ScanItem(op, Scan(d, op, last)[from + k], d.order[from + (k + 1)])
    BY <1>0, <2>1, ScanIs
  <2>3. d.order[from + (k + 1)].id \in Items(d)
    BY <2>1, <1>0, StreamType DEF Items
  <2> DEFINE s == Scan(d, op, last)[from + k]
             o == d.order[from + (k + 1)]
  <2>4. s.after \in Items(d) \cup {None} /\ o.id \in Items(d)
    BY <1>2, <2>3
  <2>5. ScanItem(op, s, o).after \in {s.after, o.id}
    <3> HIDE DEF s, o
    <3> QED BY DEF ScanItem
  <2> QED BY <2>2, <2>4, <2>5
<1>3. \A k \in 0 .. (last - from) : k \in S
  <2> HIDE DEF S
  <2>1. last - from \in Nat
    BY <1>0
  <2> QED BY <1>1, <1>2, <2>1, Induction
<1>4. last - from \in S /\ from + (last - from) = last
  BY <1>0, <1>3
<1> QED BY <1>4

\* An insert is spliced in somewhere.
LEMMA BoundaryAfter ==
    ASSUME NEW d \in Doc, NEW op, {op.left, op.right} \subseteq Items(d) \cup {None}
    PROVE  Boundary(d, op) \in Items(d) \cup {None}
<1> DEFINE left  == Position(d, op.left)
           right == Position(d, op.right)
           last  == IF right > left THEN right - 1 ELSE Len(d.order)
<1>1. left \in 0 .. Len(d.order) /\ right \in 0 .. Len(d.order) /\ Len(d.order) \in Nat
  BY PositionOf, StreamType
<1>2. last \in 0 .. Len(d.order) /\ left \in 0 .. last
  BY <1>1
<1>3. Scan(d, op, last)[last].after \in Items(d) \cup {None}
  <2> HIDE DEF last
  <2> QED BY <1>2, ScanAfter
<1> QED BY <1>3 DEF Boundary

-----------------------------------------------------------------------------
(* Integration: what one operation does to the engine.                     *)

\* Operations are told apart by their ids, and by their stamps.
Distinct(O) ==
    /\ O \subseteq Op
    /\ \A o, p \in O : o.id = p.id => o = p
    /\ \A o, p \in O : StampOf(o) = StampOf(p) => o = p

\* The types of an operation's parts.
LEMMA OpType ==
    ASSUME NEW op \in Op
    PROVE  /\ op.type \in {"insert", "delete", "setattr"} /\ op.id \in Ids /\ op.lamport \in Nat
           /\ op.left \in Ids \cup {None} /\ op.right \in Ids \cup {None} /\ op.init \in BOOLEAN
           /\ op.target \in Ids \cup {None} /\ op.lamport \in Clock
           /\ op.id = <<op.id[1], op.id[2]>> /\ op.id[1] \in Replicas /\ op.id[2] \in 1 .. MaxOps
           /\ op.id[1] \in Nat
BY IdFacts, MaxOpsAssumption, ReplicasAssumption DEF Op, Clock

\* The numbers seen of one writer have a first gap.
LEMMA TopIs ==
    ASSUME NEW low \in 0 .. MaxOps, NEW seen \in SUBSET (1 .. MaxOps)
    PROVE  \E n \in low .. MaxOps : (\A k \in (low + 1) .. n : k \in seen) /\ n + 1 \notin seen
<1> DEFINE S == {n \in low .. MaxOps : n + 1 \notin seen}
<1>1. MaxOps \in S /\ S \in SUBSET Nat
  BY MaxOpsAssumption
<1>2. PICK n \in S : \A m \in S : n <= m
  <2> HIDE DEF S
  <2> QED BY <1>1, Least
<1>3. ASSUME NEW k \in (low + 1) .. n PROVE k \in seen
  <2>1. k - 1 \in low .. MaxOps /\ ~(n <= k - 1) /\ (k - 1) + 1 = k
    BY <1>2, <1>3, MaxOpsAssumption
  <2> QED BY <2>1, <1>2
<1> QED BY <1>2, <1>3

\* note_integrated leaves the contents alone and keeps the summary exact.
LEMMA NoteIs ==
    ASSUME NEW d \in Doc, NEW op \in Op, SummaryRight(d), NEW e, e = NoteIntegrated(d, op)
    PROVE  /\ e \in Doc /\ SummaryRight(e)
           /\ e.order = d.order /\ e.tomb = d.tomb /\ e.reg = d.reg /\ e.pending = d.pending
           /\ e.next = d.next /\ e.applied = d.applied \cup {op.id}
           /\ e.lamport = IF op.lamport > d.lamport THEN op.lamport ELSE d.lamport
<1> DEFINE r == op.id[1]
           c == op.id[2]
           seen == d.gaps[r] \cup {c}
           top == CHOOSE n \in d.contig[r] .. MaxOps :
                      (\A k \in (d.contig[r] + 1) .. n : k \in seen) /\ n + 1 \notin seen
<1>1. r \in Replicas /\ c \in 1 .. MaxOps /\ op.id = <<r, c>> /\ op.id \in Ids /\ op.lamport \in Clock
  BY OpType
<1>2. d.contig \in [Replicas -> 0 .. MaxOps] /\ d.gaps \in [Replicas -> SUBSET (1 .. MaxOps)]
      /\ d.applied \in SUBSET Ids /\ d.lamport \in Clock
  BY DEF Doc
<1>3. d.contig[r] \in 0 .. MaxOps /\ seen \in SUBSET (1 .. MaxOps)
  BY <1>1, <1>2
<1>4. /\ top \in d.contig[r] .. MaxOps
      /\ \A k \in (d.contig[r] + 1) .. top : k \in seen
      /\ top + 1 \notin seen
  <2> HIDE DEF seen
  <2>1. \E n \in d.contig[r] .. MaxOps : (\A k \in (d.contig[r] + 1) .. n : k \in seen) /\ n + 1 \notin seen
    BY <1>3, TopIs
  <2> QED BY <2>1
<1> HIDE DEF top
<1> DEFINE left == {k \in seen : k > top}
           lamport == IF op.lamport > d.lamport THEN op.lamport ELSE d.lamport
<1>5. e = [d EXCEPT !.lamport = lamport, !.applied = d.applied \cup {op.id},
                    !.contig[r] = top, !.gaps[r] = left]
  BY DEF NoteIntegrated, top
<1>6. top \in 0 .. MaxOps /\ left \in SUBSET (1 .. MaxOps) /\ lamport \in Clock
  BY <1>1, <1>2, <1>3, <1>4
<1> HIDE DEF left, lamport
<1>7. /\ e.order = d.order /\ e.tomb = d.tomb /\ e.reg = d.reg /\ e.pending = d.pending
      /\ e.next = d.next /\ e.applied = d.applied \cup {op.id} /\ e.lamport = lamport
      /\ e.contig = [d.contig EXCEPT ![r] = top] /\ e.gaps = [d.gaps EXCEPT ![r] = left]
  BY <1>5 DEF Doc
<1>8. /\ [d.contig EXCEPT ![r] = top] \in [Replicas -> 0 .. MaxOps]
      /\ [d.gaps EXCEPT ![r] = left] \in [Replicas -> SUBSET (1 .. MaxOps)]
      /\ d.applied \cup {op.id} \in SUBSET Ids
  BY <1>1, <1>2, <1>6
<1>9. e \in Doc
  BY <1>5, <1>6, <1>8 DEF Doc
<1>10. SummaryRight(e)
  <2> SUFFICES ASSUME NEW w \in Replicas
               PROVE  /\ \A k \in 1 .. e.contig[w] : <<w, k>> \in e.applied
                      /\ <<w, e.contig[w] + 1>> \notin e.applied
                      /\ e.gaps[w] = {k \in 1 .. MaxOps : k > e.contig[w] /\ <<w, k>> \in e.applied}
    BY DEF SummaryRight
  <2>1. /\ \A k \in 1 .. d.contig[w] : <<w, k>> \in d.applied
        /\ <<w, d.contig[w] + 1>> \notin d.applied
        /\ d.gaps[w] = {k \in 1 .. MaxOps : k > d.contig[w] /\ <<w, k>> \in d.applied}
    BY DEF SummaryRight
  <2>2. CASE w # r
    <3>1. e.contig[w] = d.contig[w] /\ e.gaps[w] = d.gaps[w]
          /\ \A k : <<w, k>> \in e.applied <=> <<w, k>> \in d.applied
      BY <2>2, <1>7, <1>2, <1>1
    <3> QED BY <3>1, <2>1
  <2>3. CASE w = r
    <3>1. e.contig[w] = top /\ e.gaps[w] = left
          /\ \A k : <<w, k>> \in e.applied <=> <<w, k>> \in d.applied \/ k = c
      BY <2>3, <1>7, <1>2, <1>1
    <3>2. \A k \in 1 .. MaxOps : k > d.contig[r] => (k \in seen <=> <<w, k>> \in e.applied)
      BY <3>1, <2>1, <2>3
    <3>3. ASSUME NEW k \in 1 .. top PROVE <<w, k>> \in e.applied
      <4>1. CASE k <= d.contig[r]
        BY <4>1, <3>1, <2>1, <2>3, <1>3
      <4>2. CASE k > d.contig[r]
        <5>1. k \in (d.contig[r] + 1) .. top /\ k \in 1 .. MaxOps
          BY <4>2, <1>3, <1>4
        <5> QED BY <5>1, <4>2, <1>4, <3>2
      <4> QED BY <4>1, <4>2, <1>3
    <3>4. <<w, top + 1>> \notin e.applied
      <4>1. CASE top + 1 \in 1 .. MaxOps
        <5>1. top + 1 > d.contig[r]
          BY <1>3, <1>4
        <5> QED BY <4>1, <5>1, <3>2, <1>4
      <4>2. CASE top + 1 \notin 1 .. MaxOps
        <5>1. e.applied \subseteq Ids
          BY <1>7, <1>8
        <5> QED BY <4>2, <5>1, IdFacts DEF Ids
      <4> QED BY <4>1, <4>2
    <3>5. left = {k \in 1 .. MaxOps : k > top /\ <<w, k>> \in e.applied}
      <4>1. \A k \in 1 .. MaxOps : k > top => k > d.contig[r]
        BY <1>3, <1>4
      <4> HIDE DEF seen
      <4>2. left = {k \in seen : k > top} /\ seen \subseteq 1 .. MaxOps
        BY <1>3 DEF left
      <4> QED BY <4>1, <4>2, <3>2
    <3> QED BY <3>1, <3>3, <3>4, <3>5
  <2> QED BY <2>2, <2>3
<1> QED BY <1>7, <1>9, <1>10 DEF lamport

\* The contents an operation leaves, before it is noted.
Effect(d, op) ==
    CASE op.type = "insert"  ->
            LET e == [d EXCEPT !.order =
                          InsertAt(@, Position(d, Boundary(d, op)) + 1,
                                   [id |-> op.id, left |-> op.left])]
            IN  IF op.init THEN ApplyRegister(e, op.id, StampOf(op)) ELSE e
      [] op.type = "delete"  -> [d EXCEPT !.tomb = @ \cup {op.target}]
      [] op.type = "setattr" -> ApplyRegister(d, op.target, StampOf(op))

\* Where an insert goes.
Spliced(d, op) ==
    InsertAt(d.order, Position(d, Boundary(d, op)) + 1, [id |-> op.id, left |-> op.left])

\* The item whose register an operation writes, if it writes one.
Writes(op) == op.type = "setattr" \/ (op.type = "insert" /\ op.init)
Written(op) == IF op.type = "setattr" THEN op.target ELSE op.id

\* A stamp is one.
LEMMA StampType == ASSUME NEW op \in Op PROVE StampOf(op) \in Stamp
BY OpType DEF StampOf, Stamp

\* A register write touches one register.
LEMMA RegisterIs ==
    ASSUME NEW d \in Doc, NEW item \in Ids, NEW stamp \in Stamp, NEW e, e = ApplyRegister(d, item, stamp)
    PROVE  /\ e \in Doc
           /\ e.order = d.order /\ e.tomb = d.tomb /\ e.pending = d.pending /\ e.next = d.next
           /\ e.applied = d.applied /\ e.lamport = d.lamport /\ e.contig = d.contig /\ e.gaps = d.gaps
           /\ e.reg = IF Later(stamp, d.reg[item]) THEN [d.reg EXCEPT ![item] = stamp] ELSE d.reg
<1>1. CASE Later(stamp, d.reg[item])
  <2>1. e = [d EXCEPT !.reg = [d.reg EXCEPT ![item] = stamp]]
    BY <1>1 DEF ApplyRegister
  <2>2. [d.reg EXCEPT ![item] = stamp] \in [Ids -> Stamp]
    BY DEF Doc
  <2>3. e \in Doc
    BY <2>1, <2>2 DEF Doc
  <2>4. /\ e.order = d.order /\ e.tomb = d.tomb /\ e.pending = d.pending /\ e.next = d.next
        /\ e.applied = d.applied /\ e.lamport = d.lamport /\ e.contig = d.contig /\ e.gaps = d.gaps
        /\ e.reg = [d.reg EXCEPT ![item] = stamp]
    BY <2>1 DEF Doc
  <2> QED BY <1>1, <2>3, <2>4
<1>2. CASE ~Later(stamp, d.reg[item])
  BY <1>2 DEF ApplyRegister
<1> QED BY <1>1, <1>2

\* The parts of the engine that an operation touches.
LEMMA EffectIs ==
    ASSUME NEW d \in Doc, NEW op \in Op, Ready(d, op), NEW e, e = Effect(d, op)
    PROVE  /\ e \in Doc
           /\ e.pending = d.pending /\ e.next = d.next /\ e.applied = d.applied
           /\ e.lamport = d.lamport /\ e.contig = d.contig /\ e.gaps = d.gaps
           /\ e.order = IF op.type = "insert" THEN Spliced(d, op) ELSE d.order
           /\ e.tomb = IF op.type = "delete" THEN d.tomb \cup {op.target} ELSE d.tomb
           /\ e.reg = IF Writes(op) /\ Later(StampOf(op), d.reg[Written(op)])
                      THEN [d.reg EXCEPT ![Written(op)] = StampOf(op)] ELSE d.reg
<1>0. StampOf(op) \in Stamp /\ op.id \in Ids /\ op.init \in BOOLEAN
  BY StampType, OpType
<1>1. CASE op.type = "insert"
  <2> DEFINE o == Spliced(d, op)
             f == [d EXCEPT !.order = o]
  <2>1. o \in Seq(Entry)
    <3>1. {op.left, op.right} \subseteq Items(d) \cup {None}
      BY <1>1 DEF Ready
    <3>2. Boundary(d, op) \in Items(d) \cup {None}
      BY <3>1, BoundaryAfter
    <3>3. Position(d, Boundary(d, op)) + 1 \in 1 .. (Len(d.order) + 1)
      BY <3>2, PositionOf, StreamType
    <3>4. [id |-> op.id, left |-> op.left] \in Entry
      BY OpType DEF Entry
    <3> QED BY <3>3, <3>4, StreamType, SpliceIs DEF Spliced
  <2> HIDE DEF o
  <2>2. f \in Doc
    BY <2>1 DEF Doc, Entry
  <2>3. /\ f.order = o /\ f.tomb = d.tomb /\ f.reg = d.reg /\ f.pending = d.pending /\ f.next = d.next
        /\ f.applied = d.applied /\ f.lamport = d.lamport /\ f.contig = d.contig /\ f.gaps = d.gaps
    BY DEF Doc
  <2>4. e = IF op.init THEN ApplyRegister(f, op.id, StampOf(op)) ELSE f
    BY <1>1 DEF Effect, o, Spliced
  <2> HIDE DEF f
  <2>5. CASE op.init
    <3>1. e = ApplyRegister(f, op.id, StampOf(op))
      BY <2>4, <2>5
    <3>2. /\ e \in Doc
          /\ e.order = f.order /\ e.tomb = f.tomb /\ e.pending = f.pending /\ e.next = f.next
          /\ e.applied = f.applied /\ e.lamport = f.lamport /\ e.contig = f.contig /\ e.gaps = f.gaps
          /\ e.reg = IF Later(StampOf(op), f.reg[op.id]) THEN [f.reg EXCEPT ![op.id] = StampOf(op)] ELSE f.reg
      BY <3>1, <2>2, <1>0, RegisterIs
    <3> QED BY <3>2, <2>3, <2>5, <1>1 DEF o, Writes, Written
  <2>6. CASE ~op.init
    BY <2>6, <2>4, <2>2, <2>3, <1>1 DEF o, Writes
  <2> QED BY <2>5, <2>6, <1>0
<1>2. CASE op.type = "delete"
  <2>1. e = [d EXCEPT !.tomb = d.tomb \cup {op.target}]
    BY <1>2 DEF Effect
  <2>2. d.tomb \cup {op.target} \in SUBSET Ids
    BY <1>2, StreamType DEF Ready, Doc
  <2>3. e \in Doc
    BY <2>1, <2>2 DEF Doc
  <2> QED BY <2>1, <2>3, <1>2 DEF Writes, Doc
<1>3. CASE op.type = "setattr"
  <2>1. e = ApplyRegister(d, op.target, StampOf(op))
    BY <1>3 DEF Effect
  <2>2. op.target \in Ids
    BY <1>3, StreamType DEF Ready
  <2>3. /\ e \in Doc
        /\ e.order = d.order /\ e.tomb = d.tomb /\ e.pending = d.pending /\ e.next = d.next
        /\ e.applied = d.applied /\ e.lamport = d.lamport /\ e.contig = d.contig /\ e.gaps = d.gaps
        /\ e.reg = IF Later(StampOf(op), d.reg[op.target])
                   THEN [d.reg EXCEPT ![op.target] = StampOf(op)] ELSE d.reg
    BY <2>1, <2>2, <1>0, RegisterIs
  <2> QED BY <2>3, <1>3 DEF Writes, Written
<1> QED BY <1>1, <1>2, <1>3, OpType

\* An insert adds its item to the stream, once, and moves no other past one another.
LEMMA SplicedIs ==
    ASSUME NEW d \in Doc, NEW op \in Op, op.type = "insert", Ready(d, op), NEW e \in Doc,
           e.order = Spliced(d, op), op.id \notin Items(d), Unique(d)
    PROVE  LET at == Position(d, Boundary(d, op)) IN
           /\ at \in 0 .. Len(d.order) /\ Len(e.order) = Len(d.order) + 1
           /\ \A k \in 1 .. Len(e.order) :
                  e.order[k] = IF k <= at THEN d.order[k]
                               ELSE IF k = at + 1 THEN [id |-> op.id, left |-> op.left]
                               ELSE d.order[k - 1]
           /\ Unique(e) /\ Items(e) = Items(d) \cup {op.id}
<1> DEFINE at == Position(d, Boundary(d, op))
           n == Len(d.order)
           x == [id |-> op.id, left |-> op.left]
<1>0. n \in Nat
  BY StreamType
<1>1. at \in 0 .. n
  <2>1. {op.left, op.right} \subseteq Items(d) \cup {None}
    BY DEF Ready
  <2>2. Boundary(d, op) \in Items(d) \cup {None}
    BY <2>1, BoundaryAfter
  <2> QED BY <2>2, PositionOf
<1> HIDE DEF at
<1>2. /\ Len(e.order) = n + 1
      /\ \A k \in 1 .. (n + 1) :
             e.order[k] = IF k < at + 1 THEN d.order[k] ELSE IF k = at + 1 THEN x ELSE d.order[k - 1]
  <2>1. x \in Entry /\ at + 1 \in 1 .. (n + 1) /\ d.order \in Seq(Entry)
    <3>1. op.id \in Ids /\ op.left \in Ids \cup {None}
      BY OpType
    <3>2. x \in Entry
      BY <3>1 DEF Entry
    <3> QED BY <3>2, <1>1, <1>0, StreamType
  <2>2. e.order = InsertAt(d.order, at + 1, x)
    BY DEF Spliced, at
  <2> HIDE DEF x
  <2> DEFINE t == InsertAt(d.order, at + 1, x)
  <2>3. /\ Len(t) = Len(d.order) + 1
        /\ \A k \in 1 .. (Len(d.order) + 1) :
               t[k] = IF k < at + 1 THEN d.order[k] ELSE IF k = at + 1 THEN x ELSE d.order[k - 1]
    BY <2>1, SpliceIs
  <2> HIDE DEF t
  <2>4. e.order = t
    BY <2>2 DEF t
  <2> QED BY <2>3, <2>4
<1>3. \A k \in 1 .. (n + 1) : /\ k <= at => e.order[k] = d.order[k] /\ k \in 1 .. n
                              /\ k = at + 1 => e.order[k].id = op.id
                              /\ k > at + 1 => e.order[k] = d.order[k - 1] /\ k - 1 \in 1 .. n
  BY <1>0, <1>1, <1>2
<1>4. \A i \in 1 .. n : d.order[i].id \in Items(d)
  BY StreamType DEF Items
<1>5. \A i, j \in 1 .. n : d.order[i].id = d.order[j].id => i = j
  BY StreamType DEF Unique
<1>6. Unique(e)
  <2> SUFFICES ASSUME NEW i \in 1 .. (n + 1), NEW j \in 1 .. (n + 1), e.order[i].id = e.order[j].id
               PROVE  i = j
    BY <1>2, StreamType DEF Unique
  <2>1. CASE i = at + 1
    BY <2>1, <1>3, <1>4, <1>1
  <2>2. CASE j = at + 1
    BY <2>2, <1>3, <1>4, <1>1
  <2>3. CASE i # at + 1 /\ j # at + 1
    <3> DEFINE a == IF i <= at THEN i ELSE i - 1
               b == IF j <= at THEN j ELSE j - 1
    <3>1. a \in 1 .. n /\ b \in 1 .. n /\ e.order[i].id = d.order[a].id /\ e.order[j].id = d.order[b].id
      BY <2>3, <1>3, <1>1
    <3>2. a = b
      BY <3>1, <1>5
    <3> QED BY <3>2, <2>3, <1>1
  <2> QED BY <2>1, <2>2, <2>3
<1>7. Items(e) = Items(d) \cup {op.id}
  <2>0. DOMAIN e.order = 1 .. (n + 1) /\ DOMAIN d.order = 1 .. n
    BY <1>2, StreamType
  <2>1. ASSUME NEW k \in 1 .. (n + 1) PROVE e.order[k].id \in Items(d) \cup {op.id}
    BY <1>3, <1>4, <1>1
  <2>2. ASSUME NEW k \in 1 .. n PROVE \E j \in 1 .. (n + 1) : e.order[j].id = d.order[k].id
    <3>1. CASE k <= at
      BY <3>1, <1>3, <1>0
    <3>2. CASE k > at
      <4>1. k + 1 \in 1 .. (n + 1) /\ k + 1 > at + 1 /\ (k + 1) - 1 = k
        BY <3>2, <1>0, <1>1
      <4>2. e.order[k + 1] = d.order[k]
        BY <4>1, <1>3
      <4> QED BY <4>1, <4>2
    <3> QED BY <3>1, <3>2, <1>1
  <2>3. at + 1 \in 1 .. (n + 1) /\ e.order[at + 1].id = op.id
    BY <1>0, <1>1, <1>3
  <2>4. Items(e) \subseteq Items(d) \cup {op.id}
    BY <2>0, <2>1 DEF Items
  <2>5. op.id \in Items(e)
    BY <2>0, <2>3 DEF Items
  <2>6. Items(d) \subseteq Items(e)
    BY <2>0, <2>2 DEF Items
  <2> QED BY <2>4, <2>5, <2>6
<1> QED BY <1>0, <1>1, <1>2, <1>6, <1>7 DEF at

\* What integration leaves.
Placed(d, op, e) ==
    /\ e \in Doc /\ SummaryRight(e)
    /\ e.pending = d.pending /\ e.next = d.next /\ e.applied = d.applied \cup {op.id}
    /\ e.lamport = IF op.lamport > d.lamport THEN op.lamport ELSE d.lamport
    /\ e.order = IF op.type = "insert" THEN Spliced(d, op) ELSE d.order
    /\ e.tomb = IF op.type = "delete" THEN d.tomb \cup {op.target} ELSE d.tomb
    /\ e.reg = IF Writes(op) /\ Later(StampOf(op), d.reg[Written(op)])
               THEN [d.reg EXCEPT ![Written(op)] = StampOf(op)] ELSE d.reg

\* Place is the effect, noted.
LEMMA PlaceIs ==
    ASSUME NEW d \in Doc, NEW op \in Op, Ready(d, op), SummaryRight(d)
    PROVE  Placed(d, op, Place(d, op))
<1> DEFINE e == Place(d, op)
<1> DEFINE f == Effect(d, op)
<1>1. e = NoteIntegrated(f, op)
  BY DEF Place, Effect
<1> HIDE DEF e
<1>2. /\ f \in Doc
      /\ f.pending = d.pending /\ f.next = d.next /\ f.applied = d.applied
      /\ f.lamport = d.lamport /\ f.contig = d.contig /\ f.gaps = d.gaps
      /\ f.order = IF op.type = "insert" THEN Spliced(d, op) ELSE d.order
      /\ f.tomb = IF op.type = "delete" THEN d.tomb \cup {op.target} ELSE d.tomb
      /\ f.reg = IF Writes(op) /\ Later(StampOf(op), d.reg[Written(op)])
                 THEN [d.reg EXCEPT ![Written(op)] = StampOf(op)] ELSE d.reg
  BY EffectIs
<1> HIDE DEF f
<1>3. SummaryRight(f)
  BY <1>2 DEF SummaryRight
<1>4. /\ e \in Doc /\ SummaryRight(e)
      /\ e.order = f.order /\ e.tomb = f.tomb /\ e.reg = f.reg /\ e.pending = f.pending
      /\ e.next = f.next /\ e.applied = f.applied \cup {op.id}
      /\ e.lamport = IF op.lamport > f.lamport THEN op.lamport ELSE f.lamport
  BY <1>1, <1>2, <1>3, NoteIs
<1>5. Placed(d, op, e)
  BY <1>2, <1>4 DEF Placed
<1> QED BY <1>5 DEF e

\* Items are those of the applied inserts, so an operation that was not applied
\* has none.
LEMMA NewItem ==
    ASSUME NEW O, NEW d, StreamRight(d, O), NEW op, op.id \notin d.applied
    PROVE  op.id \notin Items(d)
BY DEF StreamRight, Inserted

\* Integration keeps the stream right, and loses no item.
LEMMA PlaceStream ==
    ASSUME NEW O, Distinct(O), NEW d \in Doc, StreamRight(d, O), SummaryRight(d),
           NEW op \in O, Ready(d, op), op.id \notin d.applied, NEW e, e = Place(d, op)
    PROVE  /\ StreamRight(e, O)
           /\ Items(e) = IF op.type = "insert" THEN Items(d) \cup {op.id} ELSE Items(d)
<1>0. op \in Op /\ \A o \in O : o.id = op.id => o = op
  BY DEF Distinct
<1>1. /\ e \in Doc /\ e.applied = d.applied \cup {op.id}
      /\ e.order = IF op.type = "insert" THEN Spliced(d, op) ELSE d.order
  <2>1. op \in Op
    BY <1>0
  <2>2. Placed(d, op, e)
    BY <2>1, PlaceIs
  <2> QED BY <2>2 DEF Placed
<1>2. CASE op.type # "insert"
  <2>1. e.order = d.order /\ Items(e) = Items(d)
    BY <1>1, <1>2 DEF Items
  <2>2. Inserted({o \in O : o.id \in e.applied}) = Inserted({o \in O : o.id \in d.applied})
    BY <1>0, <1>1, <1>2 DEF Inserted
  <2> QED BY <1>2, <2>1, <2>2 DEF StreamRight
<1>3. CASE op.type = "insert"
  <2> DEFINE at == Position(d, Boundary(d, op))
             n == Len(d.order)
             m == Len(e.order)
  <2>1. op.id \notin Items(d) /\ Unique(d)
    BY NewItem DEF StreamRight, Unique
  <2>2. e.order = Spliced(d, op)
    BY <1>1, <1>3
  <2>3. /\ at \in 0 .. n /\ m = n + 1
        /\ \A k \in 1 .. m :
               e.order[k] = IF k <= at THEN d.order[k]
                            ELSE IF k = at + 1 THEN [id |-> op.id, left |-> op.left]
                            ELSE d.order[k - 1]
        /\ Unique(e) /\ Items(e) = Items(d) \cup {op.id}
    BY <1>0, <1>1, <1>3, <2>1, <2>2, SplicedIs
  <2> HIDE DEF at, n, m
  <2>4. n \in Nat /\ DOMAIN d.order = 1 .. n /\ DOMAIN e.order = 1 .. m
    BY <1>1, StreamType DEF n, m
  <2>5. Inserted({o \in O : o.id \in e.applied}) = Inserted({o \in O : o.id \in d.applied}) \cup {op.id}
    BY <1>0, <1>1, <1>3 DEF Inserted
  <2>6. ASSUME NEW k \in 1 .. m, NEW o \in O, o.id = e.order[k].id PROVE o.left = e.order[k].left
    <3>1. CASE k = at + 1
      <4>1. o.id = op.id /\ e.order[k].left = op.left
        BY <3>1, <2>3, <2>6
      <4> QED BY <4>1, <1>0
    <3>2. CASE k # at + 1
      <4>1. \E j \in 1 .. n : e.order[k] = d.order[j]
        BY <3>2, <2>3, <2>4
      <4> QED BY <4>1, <2>4, <2>6 DEF StreamRight
    <3> QED BY <3>1, <3>2
  <2>7. StreamRight(e, O)
    BY <2>3, <2>4, <2>5, <2>6 DEF StreamRight, Unique
  <2> QED BY <1>3, <2>3, <2>7
<1> QED BY <1>2, <1>3

\* The writes of an item's register that an engine has applied.
WritesOf(d, O, item) ==
    {o \in O : /\ o.id \in d.applied
               /\ \/ o.type = "setattr" /\ o.target = item
                  \/ o.type = "insert" /\ o.id = item /\ o.init}

\* A register is as it should be.
RegisterRight(d, O, item) ==
    /\ WritesOf(d, O, item) = {} => d.reg[item] = Unset
    /\ WritesOf(d, O, item) # {} => \E o \in WritesOf(d, O, item) :
           /\ d.reg[item] = StampOf(o)
           /\ \A p \in WritesOf(d, O, item) \ {o} : Later(StampOf(o), StampOf(p))

\* The registers of an engine are right when each of them is.
LEMMA RegistersAre ==
    ASSUME NEW d, NEW O
    PROVE  RegistersRight(d, O) <=> \A item \in Ids : RegisterRight(d, O, item)
BY DEF RegistersRight, RegisterRight, WritesOf

\* Stamps are ordered.
LEMMA LaterIs ==
    ASSUME NEW s \in Stamp, NEW t \in Stamp, NEW u \in Stamp
    PROVE  /\ Later(s, t) => ~Later(t, s)
           /\ s # t /\ ~Later(s, t) => Later(t, s)
           /\ Later(s, t) /\ Later(t, u) => Later(s, u)
<1> DEFINE OK(v) == v = <<v[1], v[2]>> /\ v[1] \in Nat /\ v[2] \in Nat
<1>1. OK(s) /\ OK(t) /\ OK(u)
  <2>1. Clock \subseteq Nat /\ Replicas \cup {0} \subseteq Nat
    BY MaxOpsAssumption, ReplicasAssumption DEF Clock
  <2>2. Stamp \subseteq Nat \X Nat
    BY <2>1 DEF Stamp
  <2>3. s \in Nat \X Nat /\ t \in Nat \X Nat /\ u \in Nat \X Nat
    BY <2>2
  <2> QED BY <2>3
<1> QED BY <1>1 DEF Later

\* Integration keeps the registers right.
LEMMA PlaceRegisters ==
    ASSUME NEW O, Distinct(O), NEW d \in Doc, RegistersRight(d, O), SummaryRight(d),
           NEW op \in O, Ready(d, op), op.id \notin d.applied, op.lamport >= 1, NEW e, e = Place(d, op)
    PROVE  RegistersRight(e, O)
<1>0. op \in Op /\ \A o \in O : o.id = op.id => o = op
  BY DEF Distinct
<1>1. /\ e \in Doc /\ e.applied = d.applied \cup {op.id}
      /\ e.reg = IF Writes(op) /\ Later(StampOf(op), d.reg[Written(op)])
                 THEN [d.reg EXCEPT ![Written(op)] = StampOf(op)] ELSE d.reg
  <2>1. op \in Op
    BY <1>0
  <2>2. Placed(d, op, e)
    BY <2>1, PlaceIs
  <2> QED BY <2>2 DEF Placed
<1> SUFFICES ASSUME NEW item \in Ids PROVE RegisterRight(e, O, item)
  BY RegistersAre
<1> DEFINE W == WritesOf(d, O, item)
           X == WritesOf(e, O, item)
<1>2. RegisterRight(d, O, item)
  BY RegistersAre
<1>3. d.reg \in [Ids -> Stamp]
  BY DEF Doc
<1>4. X = IF Writes(op) /\ Written(op) = item THEN W \cup {op} ELSE W
  BY <1>0, <1>1, OpType DEF WritesOf, Writes, Written
<1>5. W \subseteq O /\ op \notin W
  BY DEF WritesOf
<1>6. CASE ~(Writes(op) /\ Written(op) = item)
  <2>1. X = W /\ e.reg[item] = d.reg[item]
    BY <1>1, <1>3, <1>4, <1>6
  <2> QED BY <2>1, <1>2 DEF RegisterRight
<1>7. CASE Writes(op) /\ Written(op) = item
  <2>1. X = W \cup {op}
    BY <1>4, <1>7
  <2>2. e.reg[item] = IF Later(StampOf(op), d.reg[item]) THEN StampOf(op) ELSE d.reg[item]
    BY <1>1, <1>3, <1>7
  <2>3. StampOf(op) \in Stamp
    BY <1>0, StampType
  <2> HIDE DEF W, X
  <2>4. CASE W = {}
    <3>1. d.reg[item] = Unset
      BY <1>2, <2>4 DEF RegisterRight, W
    <3>2. Later(StampOf(op), Unset)
      BY <1>0, OpType DEF Later, StampOf, Unset
    <3> QED BY <2>1, <2>2, <2>4, <3>1, <3>2 DEF RegisterRight, X
  <2>5. CASE W # {}
    <3>1. PICK o \in W : d.reg[item] = StampOf(o) /\ \A p \in W \ {o} : Later(StampOf(o), StampOf(p))
      BY <1>2, <2>5 DEF RegisterRight, W
    <3>2. \A p \in W : StampOf(p) \in Stamp /\ p # op /\ StampOf(p) # StampOf(op)
      BY <1>5, StampType DEF Distinct
    <3>3. CASE Later(StampOf(op), StampOf(o))
      <4>1. \A p \in W : Later(StampOf(op), StampOf(p))
        BY <3>1, <3>2, <3>3, <2>3, LaterIs
      <4>2. e.reg[item] = StampOf(op)
        BY <2>2, <3>1, <3>3
      <4>3. \A p \in X \ {op} : Later(StampOf(op), StampOf(p))
        BY <4>1, <2>1
      <4> QED BY <2>1, <4>2, <4>3 DEF RegisterRight, X
    <3>4. CASE ~Later(StampOf(op), StampOf(o))
      <4>1. Later(StampOf(o), StampOf(op))
        BY <3>2, <3>4, <2>3, LaterIs
      <4>2. e.reg[item] = StampOf(o)
        BY <2>2, <3>1, <3>4
      <4>3. \A p \in X \ {o} : Later(StampOf(o), StampOf(p))
        BY <4>1, <2>1, <3>1
      <4> QED BY <2>1, <4>2, <4>3 DEF RegisterRight, X
    <3> QED BY <3>3, <3>4
  <2> QED BY <2>4, <2>5
<1> QED BY <1>6, <1>7

\* What is ready stays ready.
LEMMA ReadyStays ==
    ASSUME NEW d, NEW e, Items(d) \subseteq Items(e), NEW op, Ready(d, op)
    PROVE  Ready(e, op)
BY DEF Ready

\* Integration keeps all that an engine holds right.
LEMMA PlaceSound ==
    ASSUME NEW O, Distinct(O), NEW d \in Doc, Sound(d, O),
           NEW op \in O, Ready(d, op), op.id \notin d.applied, op.lamport >= 1, NEW e, e = Place(d, op)
    PROVE  /\ e \in Doc /\ Sound(e, O)
           /\ e.pending = d.pending /\ e.next = d.next /\ e.applied = d.applied \cup {op.id}
           /\ e.lamport = IF op.lamport > d.lamport THEN op.lamport ELSE d.lamport
           /\ Items(d) \subseteq Items(e)
<1>0. /\ op \in Op /\ \A o \in O : o.id = op.id => o = op
      /\ StreamRight(d, O) /\ RegistersRight(d, O) /\ SummaryRight(d)
      /\ O \subseteq Op
  BY DEF Distinct, Sound
<1>1. /\ e \in Doc /\ SummaryRight(e)
      /\ e.pending = d.pending /\ e.next = d.next /\ e.applied = d.applied \cup {op.id}
      /\ e.lamport = IF op.lamport > d.lamport THEN op.lamport ELSE d.lamport
      /\ e.tomb = IF op.type = "delete" THEN d.tomb \cup {op.target} ELSE d.tomb
  <2>1. op \in Op /\ SummaryRight(d)
    BY <1>0
  <2>2. Placed(d, op, e)
    BY <2>1, PlaceIs
  <2> QED BY <2>2 DEF Placed
<1>2. StreamRight(e, O) /\ Items(d) \subseteq Items(e)
  BY <1>0, PlaceStream
<1>3. RegistersRight(e, O)
  BY <1>0, PlaceRegisters
<1>4. e.applied \subseteq {o.id : o \in O}
  BY <1>1 DEF Sound
<1>5. ASSUME NEW o \in O, o.id \in e.applied PROVE Ready(e, o) /\ o.lamport <= e.lamport
  <2>0. o.lamport \in Nat /\ op.lamport \in Nat /\ d.lamport \in Nat
    <3>1. d.lamport \in Clock /\ o \in Op
      BY <1>0 DEF Doc
    <3> QED BY <3>1, <1>0, OpType, MaxOpsAssumption DEF Clock
  <2>1. CASE o.id = op.id
    <3>1. o = op
      BY <2>1, <1>0
    <3>2. Ready(e, op)
      BY <1>2, ReadyStays
    <3> QED BY <3>1, <3>2, <1>1, <2>0
  <2>2. CASE o.id # op.id
    <3>1. o.id \in d.applied
      BY <2>2, <1>1, <1>5
    <3>2. Ready(d, o) /\ o.lamport <= d.lamport
      BY <3>1 DEF Sound
    <3>3. Ready(e, o)
      BY <3>2, <1>2, ReadyStays
    <3> QED BY <3>2, <3>3, <1>1, <2>0
  <2> QED BY <2>1, <2>2
<1>6. e.tomb = {o.target : o \in {p \in O : p.type = "delete" /\ p.id \in e.applied}}
  <2>1. d.tomb = {o.target : o \in {p \in O : p.type = "delete" /\ p.id \in d.applied}}
    BY DEF Sound
  <2> QED BY <2>1, <1>0, <1>1
<1>7. \A i \in DOMAIN e.pending : e.pending[i] \in O
  BY <1>1 DEF Sound
<1> QED BY <1>1, <1>2, <1>3, <1>4, <1>5, <1>6, <1>7 DEF Sound

-----------------------------------------------------------------------------
(* The conflict scan finds the place of an insert in the one order of all   *)
(* items.                                                                   *)

\* An order is strict.
LEMMA OrderIs ==
    ASSUME NEW O, NEW g, Ordered(g, O)
    PROVE  /\ \A x, y : <<x, y>> \in g => /\ x \in Places(O) /\ y \in Places(O)
                                          /\ x # y /\ <<y, x>> \notin g
           /\ \A x, y, z : <<x, y>> \in g /\ <<y, z>> \in g => <<x, z>> \in g
           /\ \A x \in Inserted(O) : <<None, x>> \in g
           /\ \A x, y \in Places(O) : x = y \/ <<x, y>> \in g \/ <<y, x>> \in g
<1>1. g \subseteq Places(O) \X Places(O)
  BY DEF Ordered
<1>2. \A x, y : <<x, y>> \in g => x \in Places(O) /\ y \in Places(O)
  BY <1>1
<1>3. \A x \in Places(O) : <<x, x>> \notin g
  BY DEF Ordered
<1>4. \A x, y, z \in Places(O) : <<x, y>> \in g /\ <<y, z>> \in g => <<x, z>> \in g
  BY DEF Ordered
<1>5. \A x \in Inserted(O) : <<None, x>> \in g
  BY DEF Ordered
<1>6. \A x, y \in Places(O) : x = y \/ <<x, y>> \in g \/ <<y, x>> \in g
  BY DEF Ordered
<1> QED BY <1>2, <1>3, <1>4, <1>5, <1>6

\* The order says where an item stands.
LEMMA CanonicalIs ==
    ASSUME NEW O, NEW g, Canonical(g, O)
    PROVE  /\ Ordered(g, O)
           /\ \A o \in O : o.type = "insert" => /\ o.id \in Inserted(O) /\ <<o.left, o.id>> \in g
                                                /\ o.right # None => <<o.id, o.right>> \in g
           /\ \A o, p \in O : o.type = "insert" /\ p.type = "insert" =>
                  /\ ~(<<p.left, o.left>> \in g /\ <<o.left, p.id>> \in g /\ <<p.id, o.id>> \in g)
                  /\ o.left = p.left /\ <<o.id, p.id>> \in g /\ (o.right # None => <<p.id, o.right>> \in g)
                         => o.id[1] < p.id[1]
                  /\ o.right = p.id => p.left = o.left \/ <<p.left, o.left>> \in g
BY DEF Canonical, Inserted

\* An engine whose stream follows the order.
Following(d, O, g) == Distinct(O) /\ Canonical(g, O) /\ d \in Doc /\ Sound(d, O) /\ Follows(d, g)

\* What stands in the stream: items of inserts that were ready, after their left anchors.
LEMMA StreamIs ==
    ASSUME NEW O, NEW g, NEW d, Following(d, O, g), NEW i \in 1 .. Len(d.order)
    PROVE  /\ d.order[i].id \in Inserted(O)
           /\ \E o \in O : /\ o.type = "insert" /\ o.id = d.order[i].id /\ o.left = d.order[i].left
                           /\ {o.left, o.right} \subseteq Items(d) \cup {None}
           /\ d.order[i].left = None \/ \E j \in 1 .. (i - 1) : d.order[j].id = d.order[i].left
<1>1. d \in Doc /\ StreamRight(d, O) /\ Canonical(g, O) /\ i \in DOMAIN d.order
  BY StreamType DEF Following, Sound
<1>2. d.order[i].id \in Items(d)
  BY <1>1 DEF Items
<1>3. PICK o \in O : o.type = "insert" /\ o.id = d.order[i].id /\ o.id \in d.applied
  BY <1>1, <1>2 DEF StreamRight, Inserted
<1>4. o.left = d.order[i].left
  BY <1>1, <1>3 DEF StreamRight
<1>5. {o.left, o.right} \subseteq Items(d) \cup {None}
  BY <1>3 DEF Following, Sound, Ready
<1>6. d.order[i].id \in Inserted(O)
  BY <1>3 DEF Inserted
<1>7. CASE o.left # None
  <2>1. PICK j \in 1 .. Len(d.order) : d.order[j].id = o.left
    BY <1>1, <1>5, <1>7, StreamType DEF Items
  <2>2. <<d.order[j].id, d.order[i].id>> \in g /\ Ordered(g, O)
    BY <1>1, <1>3, <2>1, CanonicalIs
  <2>3. j # i /\ ~(i < j)
    <3>1. <<d.order[i].id, d.order[j].id>> \notin g /\ d.order[i].id # d.order[j].id
      BY <2>2, OrderIs
    <3>2. i \in DOMAIN d.order /\ j \in DOMAIN d.order
      BY <1>1, <2>1, StreamType
    <3>3. ~(i < j)
      BY <3>1, <3>2 DEF Following, Follows
    <3> QED BY <3>1, <3>3
  <2>4. j \in 1 .. (i - 1)
    BY <2>1, <2>3, <1>1, StreamType
  <2> QED BY <1>3, <1>4, <1>5, <1>6, <2>1, <2>4
<1> QED BY <1>3, <1>4, <1>5, <1>6, <1>7

-----------------------------------------------------------------------------
(* The state of the scan.                                                  *)

\* An item that competes with the new one: a sibling of a replica that is not
\* smaller, or an item of the subtree of another such item.
Competes(d, op, q, i) ==
    \/ d.order[i].left = op.left /\ ~(d.order[i].id[1] < op.id[1])
    \/ \E m \in (q + 1) .. (i - 1) : d.order[i].left = d.order[m].id

\* What has been found out when the scan has gone as far as j: everything up to
\* q goes before the new item, the items after q compete with it, and the scan
\* stops at an item whose left anchor is before the one of the new item.
Scanned(d, op, g, j, s, q) ==
    LET left == Position(d, op.left) IN
    /\ q \in left .. j
    /\ s.after = IF q = left THEN op.left ELSE d.order[q].id
    /\ q # left => <<d.order[q].id, op.id>> \in g
    /\ s.stop =>
           \E k \in (q + 1) .. j : /\ <<d.order[k].left, op.left>> \in g
                                   /\ \A i \in (q + 1) .. (k - 1) : Competes(d, op, q, i)
    /\ ~s.stop => /\ s.seen = {d.order[i].id : i \in (left + 1) .. j}
                  /\ s.open = {d.order[i].id : i \in (q + 1) .. j}
                  /\ \A i \in (q + 1) .. j : Competes(d, op, q, i)

ScanState == [after : Ids \cup {None}, seen : SUBSET Ids, open : SUBSET Ids, stop : BOOLEAN]

ScanRight(d, op, g, j, s) == s \in ScanState /\ \E q \in Nat : Scanned(d, op, g, j, s, q)

\* A sibling of a smaller replica that stands before the right anchor goes before
\* the new item, ...
LEMMA SmallerSiblingBefore ==
    ASSUME NEW O, NEW g, Canonical(g, O), NEW op \in O, NEW p \in O,
           op.type = "insert", p.type = "insert", p.left = op.left, p.id # op.id,
           op.right # None => <<p.id, op.right>> \in g, p.id[1] < op.id[1],
           p.id[1] \in Nat, op.id[1] \in Nat
    PROVE  <<p.id, op.id>> \in g
<1>1. Ordered(g, O) /\ op.id \in Places(O) /\ p.id \in Places(O)
  BY CanonicalIs DEF Places
<1>2. ~(<<op.id, p.id>> \in g)
  <2>1. <<op.id, p.id>> \in g => op.id[1] < p.id[1]
    BY CanonicalIs
  <2> QED BY <2>1
<1> QED BY <1>1, <1>2, OrderIs

\* ... so does an item of the subtree of one that does.
LEMMA SubtreeBefore ==
    ASSUME NEW O, NEW g, Canonical(g, O), NEW op \in O, NEW p \in O,
           op.type = "insert", p.type = "insert", p.id # op.id,
           <<op.left, p.left>> \in g, <<p.left, op.id>> \in g
    PROVE  <<p.id, op.id>> \in g
<1>1. Ordered(g, O) /\ op.id \in Places(O) /\ p.id \in Places(O)
  BY CanonicalIs DEF Places
<1>2. ~(<<op.id, p.id>> \in g)
  BY CanonicalIs
<1> QED BY <1>1, <1>2, OrderIs

\* One turn keeps the scan right.
LEMMA ScanStep ==
    ASSUME NEW O, NEW g, NEW d, Following(d, O, g), NEW op \in O, op.type = "insert",
           op.left \in Items(d) \cup {None}, op.id \notin Items(d),
           NEW j \in 1 .. Len(d.order), Position(d, op.left) < j,
           op.right # None => <<d.order[j].id, op.right>> \in g,
           NEW s, ScanRight(d, op, g, j - 1, s)
    PROVE  ScanRight(d, op, g, j, ScanItem(op, s, d.order[j]))
<1> DEFINE left == Position(d, op.left)
           o == d.order[j]
           t == ScanItem(op, s, o)
           id(i) == d.order[i].id
<1>1. /\ d \in Doc /\ Canonical(g, O) /\ Ordered(g, O) /\ Follows(d, g) /\ Unique(d)
      /\ op \in Op /\ Len(d.order) \in Nat /\ DOMAIN d.order = 1 .. Len(d.order)
  BY CanonicalIs, StreamType DEF Following, Sound, StreamRight, Unique, Distinct
<1>2. /\ left \in 0 .. (j - 1) /\ (left = 0 <=> op.left = None)
      /\ left # 0 => id(left) = op.left
      /\ j \in 1 .. Len(d.order) /\ Len(d.order) \in Nat
  <2>1. /\ left \in 0 .. Len(d.order) /\ (op.left = None => left = 0)
        /\ op.left # None => left \in 1 .. Len(d.order) /\ id(left) = op.left
    BY <1>1, PositionOf
  <2> QED BY <2>1, <1>1
<1>3. PICK q \in Nat : Scanned(d, op, g, j - 1, s, q)
  BY DEF ScanRight
<1>4. s \in ScanState
  BY DEF ScanRight
<1>5. /\ q \in left .. (j - 1)
      /\ s.after = IF q = left THEN op.left ELSE id(q)
      /\ q # left => <<id(q), op.id>> \in g
  BY <1>3 DEF Scanned
<1>6. PICK p \in O : p.type = "insert" /\ p.id = o.id /\ p.left = o.left
  BY StreamIs
<1>7. o.left = None \/ \E m \in 1 .. (j - 1) : id(m) = o.left
  BY StreamIs
<1>8. o.id \in Items(d) /\ o.id # op.id
  BY <1>1 DEF Items
<1>9. \A m, k \in 1 .. Len(d.order) : m < k => <<id(m), id(k)>> \in g
  BY <1>1 DEF Follows
<1>10. \A m, k \in 1 .. Len(d.order) : id(m) = id(k) => m = k
  BY <1>1 DEF Unique
<1> DEFINE seen == s.seen \cup {o.id}
           open == s.open \cup {o.id}
           past == [s EXCEPT !.after = o.id, !.seen = seen, !.open = {}]
           keep == [s EXCEPT !.seen = seen, !.open = open]
           halt == [s EXCEPT !.stop = TRUE]
<1>11. t = IF s.stop THEN s
           ELSE IF o.left = op.left
                THEN IF o.id[1] < op.id[1] THEN past ELSE keep
                ELSE IF o.left \in seen
                     THEN IF o.left \notin open THEN past ELSE keep
                     ELSE halt
  BY DEF ScanItem
<1>12. /\ past \in ScanState /\ past.after = o.id /\ past.seen = seen /\ past.open = {} /\ past.stop = s.stop
       /\ keep \in ScanState /\ keep.after = s.after /\ keep.seen = seen /\ keep.open = open /\ keep.stop = s.stop
       /\ halt \in ScanState /\ halt.after = s.after /\ halt.stop = TRUE
  <2>1. o.id \in Ids
    BY <1>1, <1>2, StreamType
  <2>2. /\ past \in ScanState /\ past.after = o.id /\ past.seen = seen /\ past.open = {} /\ past.stop = s.stop
        /\ keep \in ScanState /\ keep.after = s.after /\ keep.seen = seen /\ keep.open = open
        /\ keep.stop = s.stop
        /\ halt \in ScanState /\ halt.after = s.after /\ halt.stop = TRUE
    BY <1>4, <2>1 DEF ScanState
  <2> QED BY <2>2
<1> HIDE DEF past, keep, halt
\* The scan has stopped before.
<1>13. CASE s.stop
  <2>1. Scanned(d, op, g, j, s, q)
    BY <1>2, <1>3, <1>13 DEF Scanned
  <2> QED BY <2>1, <1>4, <1>11, <1>13 DEF ScanRight
<1>14. ASSUME ~s.stop PROVE ScanRight(d, op, g, j, t)
  <2>1. /\ s.seen = {id(i) : i \in (left + 1) .. (j - 1)}
        /\ s.open = {id(i) : i \in (q + 1) .. (j - 1)}
        /\ \A i \in (q + 1) .. (j - 1) : Competes(d, op, q, i)
    BY <1>3, <1>14 DEF Scanned
  <2>2. /\ seen = {id(i) : i \in (left + 1) .. j}
        /\ open = {id(i) : i \in (q + 1) .. j}
    <3>1. \A i : i \in (left + 1) .. j <=> i \in (left + 1) .. (j - 1) \/ i = j
      BY <1>2
    <3>2. \A i : i \in (q + 1) .. j <=> i \in (q + 1) .. (j - 1) \/ i = j
      BY <1>5, <1>2
    <3> QED BY <2>1, <3>1, <3>2
  \* The item goes before the new one.
  <2>3. ASSUME t = past, <<o.id, op.id>> \in g PROVE ScanRight(d, op, g, j, t)
    <3>1. Scanned(d, op, g, j, past, j)
      <4>1. j \in left .. j /\ j # left /\ (j + 1) .. j = {}
        BY <1>2
      <4> QED BY <4>1, <1>12, <1>14, <2>2, <2>3 DEF Scanned
    <3> QED BY <3>1, <1>12, <2>3 DEF ScanRight
  \* The item competes with the new one.
  <2>4. ASSUME t = keep, Competes(d, op, q, j) PROVE ScanRight(d, op, g, j, t)
    <3>1. Scanned(d, op, g, j, keep, q)
      <4>1. q \in left .. j
        BY <1>5, <1>2
      <4>2. \A i \in (q + 1) .. j : i \in (q + 1) .. (j - 1) \/ i = j
        BY <1>5, <1>2
      <4> QED BY <4>1, <4>2, <1>5, <1>12, <1>14, <2>1, <2>2, <2>4 DEF Scanned
    <3>2. q \in Nat
      OBVIOUS
    <3> QED BY <3>1, <3>2, <1>12, <2>4 DEF ScanRight
  <2>5. CASE o.left = op.left /\ o.id[1] < op.id[1]
    <3>1. p.id[1] \in Nat /\ op.id[1] \in Nat
      BY <1>1, <1>6, OpType DEF Following, Distinct
    <3>2. <<p.id, op.id>> \in g
      BY <1>1, <1>6, <1>8, <2>5, <3>1, SmallerSiblingBefore
    <3> QED BY <3>2, <2>3, <2>5, <1>6, <1>11, <1>14
  <2>6. CASE o.left = op.left /\ ~(o.id[1] < op.id[1])
    BY <2>4, <2>6, <1>11, <1>14 DEF Competes
  <2>7. CASE o.left # op.left /\ o.left \in seen /\ o.left \notin open
    <3>1. PICK m \in (left + 1) .. j : o.left = id(m)
      BY <2>2, <2>7
    <3>2. m \in (left + 1) .. q
      BY <3>1, <2>2, <2>7, <1>5, <1>2
    <3>3. <<op.left, o.left>> \in g
      <4>1. CASE left = 0
        BY <4>1, <3>1, <3>2, <1>1, <1>2, <1>5, StreamIs, OrderIs
      <4>2. CASE left # 0
        <5>1. left \in 1 .. Len(d.order) /\ m \in 1 .. Len(d.order) /\ left < m
          BY <4>2, <3>2, <1>2, <1>5
        <5> QED BY <5>1, <4>2, <1>2, <1>9, <3>1
      <4> QED BY <4>1, <4>2
    <3>4. <<o.left, op.id>> \in g
      <4>1. <<id(q), op.id>> \in g /\ m \in 1 .. Len(d.order) /\ q \in 1 .. Len(d.order)
        BY <3>2, <1>5, <1>2
      <4>2. m = q \/ <<id(m), id(q)>> \in g
        BY <4>1, <3>2, <1>9
      <4> QED BY <4>1, <4>2, <3>1, <1>1, OrderIs
    <3>5. <<p.id, op.id>> \in g
      BY <3>3, <3>4, <1>1, <1>6, <1>8, SubtreeBefore
    <3> QED BY <3>5, <2>3, <2>7, <1>6, <1>11, <1>14
  <2>8. CASE o.left # op.left /\ o.left \in seen /\ o.left \in open
    <3>1. PICK m \in (q + 1) .. j : o.left = id(m)
      BY <2>2, <2>8
    <3>2. m # j
      <4>1. o.left # None
        <5>1. m \in 1 .. Len(d.order)
          BY <3>1, <1>5, <1>2
        <5> QED BY <5>1, <3>1, <1>1, StreamType, IdFacts, ZenonT(30)
      <4>2. PICK k \in 1 .. (j - 1) : id(k) = o.left
        BY <4>1, <1>7
      <4>3. k \in 1 .. Len(d.order) /\ m \in 1 .. Len(d.order)
        BY <3>1, <1>5, <1>2
      <4> QED BY <4>2, <4>3, <3>1, <1>10
    <3>3. Competes(d, op, q, j)
      BY <3>1, <3>2, <1>5, <1>2 DEF Competes
    <3> QED BY <3>3, <2>4, <2>8, <1>11, <1>14
  <2>9. CASE o.left # op.left /\ o.left \notin seen
    <3>1. t = halt
      BY <2>9, <1>11, <1>14
    <3>2. <<o.left, op.left>> \in g
      <4>1. CASE o.left = None
        <5>1. left # 0 /\ left \in 1 .. Len(d.order)
          BY <4>1, <2>9, <1>2
        <5>2. op.left \in Inserted(O)
          BY <5>1, <1>2, StreamIs
        <5> QED BY <5>2, <4>1, <1>1, OrderIs
      <4>2. CASE o.left # None
        <5>1. PICK m \in 1 .. (j - 1) : id(m) = o.left
          BY <4>2, <1>7
        <5>2. m \notin (left + 1) .. j
          BY <5>1, <2>2, <2>9
        <5>3. m <= left /\ left # 0 /\ m # left
          BY <5>1, <5>2, <1>2, <2>9
        <5>4. m \in 1 .. Len(d.order) /\ left \in 1 .. Len(d.order) /\ m < left
          BY <5>1, <5>3, <1>2
        <5> QED BY <5>1, <5>3, <5>4, <1>2, <1>9
      <4> QED BY <4>1, <4>2
    <3>3. Scanned(d, op, g, j, halt, q)
      <4>1. q \in left .. j /\ j \in (q + 1) .. j
        BY <1>5, <1>2
      <4> QED BY <4>1, <3>2, <1>5, <1>12, <2>1 DEF Scanned
    <3> QED BY <3>1, <3>3, <1>12 DEF ScanRight
  <2> QED BY <2>5, <2>6, <2>7, <2>8, <2>9
<1>15. s.stop \in BOOLEAN
  BY <1>4 DEF ScanState
<1> QED BY <1>13, <1>14, <1>15

\* An insert that has not been integrated in an engine that follows the order.
Coming(d, O, g, op) ==
    /\ Following(d, O, g) /\ op \in O /\ op.type = "insert"
    /\ {op.left, op.right} \subseteq Items(d) \cup {None} /\ op.id \notin Items(d)

\* Where the scan ends.
ScanEnd(d, op) ==
    IF Position(d, op.right) > Position(d, op.left) THEN Position(d, op.right) - 1 ELSE Len(d.order)

\* How an item of the stream stands to another, or to a left anchor.
Stands(d, g, x, i) ==
    /\ i > Position(d, x) => <<x, d.order[i].id>> \in g
    /\ i < Position(d, x) => <<d.order[i].id, x>> \in g
    /\ i = Position(d, x) => d.order[i].id = x

\* An earlier position is an earlier item; the left anchor counts as one.
LEMMA StreamOrder ==
    ASSUME NEW O, NEW g, NEW d, Following(d, O, g), NEW x \in Items(d) \cup {None},
           NEW i \in 1 .. Len(d.order)
    PROVE  Stands(d, g, x, i)
<1>1. /\ d \in Doc /\ Follows(d, g) /\ Ordered(g, O) /\ DOMAIN d.order = 1 .. Len(d.order)
      /\ Len(d.order) \in Nat
  BY CanonicalIs, StreamType DEF Following
<1>2. CASE x = None
  <2>1. Position(d, x) = 0
    BY <1>1, <1>2, PositionOf
  <2>2. d.order[i].id \in Inserted(O)
    BY StreamIs
  <2>3. <<None, d.order[i].id>> \in g
    BY <2>2, <1>1, OrderIs
  <2>4. i > 0
    BY <1>1
  <2> QED BY <2>1, <2>3, <2>4, <1>2, <1>1 DEF Stands
<1>3. CASE x # None
  <2>1. Position(d, x) \in 1 .. Len(d.order) /\ d.order[Position(d, x)].id = x
    BY <1>1, <1>3, PositionOf
  <2> QED BY <2>1, <1>1 DEF Follows, Stands
<1> QED BY <1>2, <1>3

\* The items that the scan sees are those between the anchors.
LEMMA ScanEndIs ==
    ASSUME NEW O, NEW g, NEW d, NEW op, Coming(d, O, g, op)
    PROVE  /\ ScanEnd(d, op) \in 0 .. Len(d.order) /\ Position(d, op.left) \in 0 .. ScanEnd(d, op)
           /\ Len(d.order) \in Nat
           /\ \A i \in 1 .. Len(d.order) :
                  /\ i <= ScanEnd(d, op) /\ op.right # None => <<d.order[i].id, op.right>> \in g
                  /\ i > ScanEnd(d, op) => ~(<<d.order[i].id, op.id>> \in g)
<1> DEFINE left  == Position(d, op.left)
           right == Position(d, op.right)
           n     == Len(d.order)
<1>1. /\ Following(d, O, g) /\ d \in Doc /\ Canonical(g, O) /\ Ordered(g, O) /\ n \in Nat
      /\ <<op.left, op.id>> \in g /\ (op.right # None => <<op.id, op.right>> \in g)
      /\ op.left \in Items(d) \cup {None} /\ op.right \in Items(d) \cup {None}
  BY CanonicalIs, StreamType DEF Coming, Following
<1>2. /\ left \in 0 .. n /\ right \in 0 .. n
      /\ (op.left = None => left = 0)
      /\ (op.left # None => left \in 1 .. n /\ d.order[left].id = op.left)
      /\ (op.right = None => right = 0)
      /\ (op.right # None => right \in 1 .. n /\ d.order[right].id = op.right)
  BY <1>1, PositionOf
<1>3. op.right # None => left < right
  <2> SUFFICES ASSUME op.right # None, ~(left < right) PROVE FALSE
    BY <1>2
  <2>1. left \in 1 .. n /\ d.order[left].id = op.left /\ right <= left
    BY <1>2
  <2>2. op.left = op.right \/ <<op.right, op.left>> \in g
    <3>1. CASE right = left
      BY <3>1, <2>1, <1>2
    <3>2. CASE right < left
      <4>1. right \in 1 .. n /\ d.order[right].id = op.right
        BY <1>2
      <4>2. <<d.order[right].id, op.left>> \in g
        BY <4>1, <3>2, <1>1, StreamOrder DEF Stands
      <4> QED BY <4>1, <4>2
    <3> QED BY <3>1, <3>2, <2>1, <1>2
  <2>3. <<op.left, op.right>> \in g
    BY <1>1, OrderIs
  <2> QED BY <2>2, <2>3, <1>1, OrderIs
<1>4. ScanEnd(d, op) = IF op.right # None THEN right - 1 ELSE n
  BY <1>2, <1>3 DEF ScanEnd
<1>5. ScanEnd(d, op) \in 0 .. n /\ left \in 0 .. ScanEnd(d, op)
  BY <1>1, <1>2, <1>3, <1>4
<1>6. ASSUME NEW i \in 1 .. n
      PROVE  /\ i <= ScanEnd(d, op) /\ op.right # None => <<d.order[i].id, op.right>> \in g
             /\ i > ScanEnd(d, op) => ~(<<d.order[i].id, op.id>> \in g)
  <2>1. CASE op.right = None
    BY <2>1, <1>1, <1>4
  <2>2. CASE op.right # None
    <3>1. i <= ScanEnd(d, op) => <<d.order[i].id, op.right>> \in g
      <4>1. i <= ScanEnd(d, op) => i < right
        BY <2>2, <1>2, <1>4
      <4> QED BY <4>1, <1>1, StreamOrder DEF Stands
    <3>2. i > ScanEnd(d, op) => d.order[i].id = op.right \/ <<op.right, d.order[i].id>> \in g
      <4>1. i > ScanEnd(d, op) => i > right \/ i = right
        BY <2>2, <1>2, <1>4
      <4>2. /\ i > right => <<op.right, d.order[i].id>> \in g
            /\ i = right => d.order[i].id = op.right
        <5>1. Following(d, O, g) /\ op.right \in Items(d) \cup {None}
          BY <1>1
        <5>2. Stands(d, g, op.right, i)
          BY <5>1, StreamOrder
        <5> QED BY <5>2 DEF Stands
      <4> QED BY <4>1, <4>2
    <3>3. i > ScanEnd(d, op) => <<op.id, d.order[i].id>> \in g
      BY <3>2, <2>2, <1>1, OrderIs
    <3> QED BY <3>1, <3>3, <1>1, OrderIs
  <2> QED BY <2>1, <2>2
<1> QED BY <1>1, <1>5, <1>6

\* The scan is right to its end.
LEMMA ScanIsRight ==
    ASSUME NEW O, NEW g, NEW d, NEW op, Coming(d, O, g, op)
    PROVE  ScanRight(d, op, g, ScanEnd(d, op), Scan(d, op, ScanEnd(d, op))[ScanEnd(d, op)])
<1> DEFINE from == Position(d, op.left)
           last == ScanEnd(d, op)
           scan == Scan(d, op, last)
           S == {k \in Nat : ScanRight(d, op, g, from + k, scan[from + k])}
<1>1. /\ Following(d, O, g) /\ op \in O /\ op.type = "insert" /\ op.id \notin Items(d)
      /\ op.left \in Items(d) \cup {None} /\ d \in Doc /\ Ordered(g, O)
  BY CanonicalIs DEF Coming, Following
<1>2. /\ last \in Nat /\ from \in 0 .. last /\ last <= Len(d.order) /\ from \in Nat /\ Len(d.order) \in Nat
      /\ \A i \in 1 .. Len(d.order) : i <= last /\ op.right # None => <<d.order[i].id, op.right>> \in g
  <2>1. last \in 0 .. Len(d.order) /\ from \in 0 .. last /\ Len(d.order) \in Nat
    BY ScanEndIs
  <2>2. \A i \in 1 .. Len(d.order) : i <= last /\ op.right # None => <<d.order[i].id, op.right>> \in g
    BY ScanEndIs
  <2> HIDE DEF last
  <2> QED BY <2>1, <2>2
<1> HIDE DEF last
<1>3. /\ scan[from] = ScanStart(op)
      /\ \A i \in (from + 1) .. last : scan[i] = ScanItem(op, scan[i - 1], d.order[i])
  BY <1>2, ScanIs
<1> HIDE DEF scan
<1>4. 0 \in S
  <2>1. ScanStart(op) \in ScanState
    BY <1>1, StreamType DEF ScanStart, ScanState
  <2>2. Scanned(d, op, g, from, ScanStart(op), from)
    <3>1. (from + 1) .. from = {} /\ from \in from .. from
      BY <1>2
    <3> QED BY <3>1 DEF Scanned, ScanStart
  <2>3. ScanRight(d, op, g, from, scan[from])
    BY <2>1, <2>2, <1>2, <1>3 DEF ScanRight
  <2>4. from + 0 = from
    BY <1>2
  <2> QED BY <2>3, <2>4
<1>5. ASSUME NEW k \in 0 .. (last - from), k \in S, k < last - from PROVE k + 1 \in S
  <2> DEFINE j == from + (k + 1)
  <2>1. /\ j \in (from + 1) .. last /\ j - 1 = from + k /\ j \in 1 .. Len(d.order) /\ from < j /\ k + 1 \in Nat
    BY <1>2, <1>5
  <2>2. ScanRight(d, op, g, j - 1, scan[j - 1])
    BY <2>1, <1>5
  <2>3. scan[j] = ScanItem(op, scan[j - 1], d.order[j])
    BY <2>1, <1>3
  <2>4. op.right # None => <<d.order[j].id, op.right>> \in g
    BY <2>1, <1>2
  <2> HIDE DEF j
  <2>5. ScanRight(d, op, g, j, ScanItem(op, scan[j - 1], d.order[j]))
    BY <1>1, <2>1, <2>2, <2>4, ScanStep
  <2>6. ScanRight(d, op, g, j, scan[j])
    BY <2>3, <2>5
  <2> QED BY <2>1, <2>6 DEF j
<1>6. \A k \in 0 .. (last - from) : k \in S
  <2> HIDE DEF S
  <2>1. last - from \in Nat
    BY <1>2
  <2> QED BY <1>4, <1>5, <2>1, Induction
<1>7. last - from \in S /\ from + (last - from) = last
  <2>1. last - from \in 0 .. (last - from) /\ from + (last - from) = last
    BY <1>2
  <2> HIDE DEF S
  <2> QED BY <2>1, <1>6
<1>8. ScanRight(d, op, g, last, scan[last])
  BY <1>7
<1> QED BY <1>8 DEF scan, last

\* A set of numbers below a bound has a greatest one.
LEMMA Greatest ==
    ASSUME NEW n \in Nat, NEW T \in SUBSET (0 .. n), T # {}
    PROVE  \E k \in T : \A m \in T : m <= k
<1> DEFINE S == {n - k : k \in T}
<1>1. S \in SUBSET Nat /\ S # {}
  <2>1. \A k \in T : n - k \in Nat
    OBVIOUS
  <2>2. PICK k : k \in T
    OBVIOUS
  <2>3. n - k \in S
    BY <2>2
  <2> QED BY <2>1, <2>3
<1>2. PICK x \in S : \A y \in S : x <= y
  <2> HIDE DEF S
  <2> QED BY <1>1, Least
<1>3. PICK k \in T : x = n - k
  BY <1>2
<1>4. ASSUME NEW m \in T PROVE m <= k
  <2>1. x <= n - m
    BY <1>2
  <2>2. m \in 0 .. n /\ k \in 0 .. n
    OBVIOUS
  <2> QED BY <2>1, <2>2, <1>3
<1> QED BY <1>4

\* The item after the boundary does not go before the new one.
LEMMA NothingLeftBehind ==
    ASSUME NEW O, NEW g, NEW d, NEW op, Coming(d, O, g, op),
           NEW s, NEW q \in Nat, Scanned(d, op, g, ScanEnd(d, op), s, q), s \in ScanState,
           q + 1 \in 1 .. Len(d.order)
    PROVE  ~(<<d.order[q + 1].id, op.id>> \in g)
<1> DEFINE left == Position(d, op.left)
           last == ScanEnd(d, op)
           n == Len(d.order)
           id(i) == d.order[i].id
           Early(i) == <<id(i), op.id>> \in g
<1> SUFFICES ASSUME Early(q + 1) PROVE FALSE
  OBVIOUS
<1>1. /\ Following(d, O, g) /\ op \in O /\ op.type = "insert" /\ op.id \notin Items(d)
      /\ op.left \in Items(d) \cup {None} /\ d \in Doc /\ Canonical(g, O) /\ Ordered(g, O)
      /\ Follows(d, g) /\ Unique(d) /\ DOMAIN d.order = 1 .. n
  BY CanonicalIs, StreamType DEF Coming, Following, Sound, StreamRight, Unique
<1>2. /\ last \in 0 .. n /\ left \in 0 .. last /\ n \in Nat
      /\ \A i \in 1 .. n : i > last => ~Early(i)
  BY ScanEndIs
<1>3. q \in left .. last
  BY DEF Scanned
<1>4. \A i, j \in 1 .. n : i < j => <<id(i), id(j)>> \in g
  BY <1>1 DEF Follows
\* What is after the boundary is after the left anchor.
<1>5. \A i \in 1 .. n : i > left => <<op.left, id(i)>> \in g
  BY <1>1, StreamOrder DEF Stands
\* The item that stopped the scan stands behind the new one.
<1>6. ASSUME NEW k \in 1 .. n, k > left, <<d.order[k].left, op.left>> \in g PROVE ~Early(k)
  <2>1. PICK p \in O : p.type = "insert" /\ p.id = id(k) /\ p.left = d.order[k].left
    BY <1>1, StreamIs
  <2>2. <<op.left, p.id>> \in g /\ <<p.left, op.left>> \in g
    BY <1>5, <1>6, <2>1
  <2>3. ~(<<p.left, op.left>> \in g /\ <<op.left, p.id>> \in g /\ <<p.id, op.id>> \in g)
    BY <1>1, <2>1, CanonicalIs
  <2> QED BY <2>1, <2>2, <2>3
\* So the items that should go before the new one all compete with it.
<1>7. ASSUME NEW i \in (q + 1) .. last, Early(i) PROVE Competes(d, op, q, i)
  <2>1. CASE ~s.stop
    BY <2>1 DEF Scanned
  <2>2. CASE s.stop
    <3>1. PICK k \in (q + 1) .. last : /\ <<d.order[k].left, op.left>> \in g
                                       /\ \A h \in (q + 1) .. (k - 1) : Competes(d, op, q, h)
      BY <2>2 DEF Scanned
    <3>2. k \in 1 .. n /\ k > left /\ i \in 1 .. n
      BY <1>2, <1>3
    <3>3. ~Early(k)
      BY <3>1, <3>2, <1>6
    <3>4. k # i /\ ~(k < i)
      <4>1. ASSUME k < i PROVE Early(k)
        <5>1. <<id(k), id(i)>> \in g
          BY <4>1, <3>2, <1>4
        <5> QED BY <5>1, <1>7, <1>1, OrderIs
      <4> QED BY <4>1, <3>3, <1>7
    <3>5. i \in (q + 1) .. (k - 1)
      BY <3>2, <3>4
    <3> QED BY <3>1, <3>5
  <2> QED BY <2>1, <2>2
\* The last sibling among them.
<1> DEFINE T == {i \in (q + 1) .. last : Early(i) /\ d.order[i].left = op.left}
<1>8. q + 1 \in T
  <2>1. q + 1 <= last
    BY <1>2
  <2>2. q + 1 \in (q + 1) .. last
    BY <2>1, <1>2
  <2>3. Competes(d, op, q, q + 1)
    BY <2>2, <1>7
  <2>4. (q + 1) .. ((q + 1) - 1) = {}
    OBVIOUS
  <2>5. d.order[q + 1].left = op.left
    BY <2>3, <2>4 DEF Competes
  <2> QED BY <2>2, <2>5
<1>9. PICK k \in T : \A m \in T : m <= k
  <2>1. T \in SUBSET (0 .. last) /\ last \in Nat
    BY <1>2
  <2> HIDE DEF T
  <2> QED BY <1>8, <2>1, Greatest
<1>10. k \in (q + 1) .. last /\ k \in 1 .. n /\ k > left /\ Early(k) /\ d.order[k].left = op.left
  BY <1>2, <1>3, <1>9
<1>11. PICK p \in O : /\ p.type = "insert" /\ p.id = id(k) /\ p.left = op.left
                      /\ {p.left, p.right} \subseteq Items(d) \cup {None}
  BY <1>1, <1>10, StreamIs
<1>12. ~(p.id[1] < op.id[1])
  <2>1. Competes(d, op, q, k)
    BY <1>7, <1>10
  <2>2. ASSUME NEW m \in (q + 1) .. (k - 1), d.order[k].left = id(m) PROVE FALSE
    <3>1. m \in 1 .. n /\ m > left
      BY <1>2, <1>3, <1>10
    <3>2. <<op.left, id(m)>> \in g
      BY <3>1, <1>5
    <3> QED BY <3>2, <2>2, <1>1, <1>10, OrderIs
  <2> QED BY <2>1, <2>2, <1>10, <1>11 DEF Competes
\* Its right anchor stands before the new item too, ...
<1>13. p.right # None /\ ~(<<op.id, p.right>> \in g)
  <2>1. p.left = op.left /\ <<p.id, op.id>> \in g /\ (p.right # None => <<op.id, p.right>> \in g)
            => p.id[1] < op.id[1]
    BY <1>1, <1>11, CanonicalIs
  <2> QED BY <2>1, <1>10, <1>11, <1>12
<1>14. PICK m \in 1 .. n : id(m) = p.right
  BY <1>1, <1>11, <1>13 DEF Items
<1>15. Early(m)
  <2>1. id(m) \in Inserted(O) /\ op.id \in Inserted(O)
    BY <1>1, StreamIs, CanonicalIs
  <2>2. id(m) \in Items(d)
    BY <1>1 DEF Items
  <2>3. id(m) \in Places(O) /\ op.id \in Places(O) /\ id(m) # op.id
    BY <2>1, <2>2, <1>1 DEF Places
  <2> QED BY <2>3, <1>13, <1>14, <1>1, OrderIs
<1>16. m > k
  <2>1. <<id(k), id(m)>> \in g
    BY <1>1, <1>11, <1>13, <1>14, CanonicalIs
  <2>2. m # k /\ ~(<<id(m), id(k)>> \in g)
    BY <2>1, <1>1, OrderIs
  <2>3. ~(m < k)
    BY <2>2, <1>4, <1>10
  <2> QED BY <2>2, <2>3, <1>10
<1>17. m \in (q + 1) .. last
  BY <1>2, <1>10, <1>15, <1>16
<1>18. d.order[m].left # op.left
  <2>1. m \in T => m <= k
    BY <1>9
  <2> QED BY <2>1, <1>10, <1>15, <1>16, <1>17
\* ... and is no sibling, which no right anchor can be.
<1>19. PICK h \in (q + 1) .. (m - 1) : d.order[m].left = id(h)
  BY <1>7, <1>15, <1>17, <1>18 DEF Competes
<1>20. PICK r \in O : r.type = "insert" /\ r.id = id(m) /\ r.left = d.order[m].left
  BY <1>1, StreamIs
<1>21. r.left = p.left \/ <<r.left, p.left>> \in g
  BY <1>1, <1>11, <1>14, <1>20, CanonicalIs
<1>22. <<op.left, r.left>> \in g
  <2>1. h \in 1 .. n /\ h > left
    BY <1>2, <1>3, <1>17
  <2> QED BY <2>1, <1>5, <1>19, <1>20
<1> QED BY <1>1, <1>11, <1>21, <1>22, OrderIs

\* The boundary parts the items that go before the new one from those that go after it.
LEMMA BoundaryRight ==
    ASSUME NEW O, NEW g, NEW d, NEW op, Coming(d, O, g, op)
    PROVE  \A i \in 1 .. Len(d.order) :
               IF i <= Position(d, Boundary(d, op)) THEN <<d.order[i].id, op.id>> \in g
               ELSE <<op.id, d.order[i].id>> \in g
<1> DEFINE left == Position(d, op.left)
           last == ScanEnd(d, op)
           n == Len(d.order)
           id(i) == d.order[i].id
           s == Scan(d, op, last)[last]
<1>1. /\ Following(d, O, g) /\ op \in O /\ op.type = "insert" /\ op.id \notin Items(d)
      /\ op.left \in Items(d) \cup {None} /\ d \in Doc /\ Canonical(g, O) /\ Ordered(g, O)
      /\ Follows(d, g) /\ Unique(d) /\ DOMAIN d.order = 1 .. n
  BY CanonicalIs, StreamType DEF Coming, Following, Sound, StreamRight, Unique
<1>2. last \in 0 .. n /\ left \in 0 .. last /\ n \in Nat
  BY ScanEndIs
<1>3. Boundary(d, op) = s.after
  BY DEF Boundary, ScanEnd
<1>4. ScanRight(d, op, g, last, s)
  BY ScanIsRight
<1> HIDE DEF s
<1>5. PICK q \in Nat : Scanned(d, op, g, last, s, q)
  BY <1>4 DEF ScanRight
<1>6. /\ q \in left .. last /\ q \in 0 .. n
      /\ s.after = IF q = left THEN op.left ELSE id(q)
      /\ q # left => <<id(q), op.id>> \in g
  BY <1>2, <1>5 DEF Scanned
<1>7. Position(d, Boundary(d, op)) = q
  <2>1. CASE q = left
    BY <2>1, <1>3, <1>6
  <2>2. CASE q # left
    <3>1. q \in 1 .. n
      BY <2>2, <1>2, <1>6
    <3> QED BY <3>1, <2>2, <1>1, <1>3, <1>6, PositionIs
  <2> QED BY <2>1, <2>2
<1>8. \A i, j \in 1 .. n : i < j => <<id(i), id(j)>> \in g
  BY <1>1 DEF Follows
<1>9. ASSUME NEW i \in 1 .. n, i <= q PROVE <<id(i), op.id>> \in g
  <2>1. CASE q # left
    <3>1. q \in 1 .. n
      BY <2>1, <1>2, <1>6
    <3>2. i = q \/ <<id(i), id(q)>> \in g
      BY <3>1, <1>8, <1>9
    <3> QED BY <3>2, <2>1, <1>1, <1>6, OrderIs
  <2>2. CASE q = left
    <3>1. id(i) = op.left \/ <<id(i), op.left>> \in g
      <4>1. /\ i < left => <<id(i), op.left>> \in g
            /\ i = left => id(i) = op.left
        <5>1. Following(d, O, g) /\ op.left \in Items(d) \cup {None}
          BY <1>1
        <5>2. Stands(d, g, op.left, i)
          BY <5>1, StreamOrder
        <5> QED BY <5>2 DEF Stands
      <4> QED BY <4>1, <2>2, <1>2, <1>9
    <3>2. <<op.left, op.id>> \in g
      BY <1>1, CanonicalIs
    <3> QED BY <3>1, <3>2, <1>1, OrderIs
  <2> QED BY <2>1, <2>2
<1>10. ASSUME NEW i \in 1 .. n, ~(i <= q) PROVE <<op.id, id(i)>> \in g
  <2>1. q + 1 \in 1 .. n /\ (i = q + 1 \/ q + 1 < i)
    BY <1>6, <1>10
  <2>2. ~(<<id(q + 1), op.id>> \in g)
    BY <2>1, <1>4, <1>5, NothingLeftBehind DEF ScanRight
  <2>3. ~(<<id(i), op.id>> \in g)
    <3>1. CASE i = q + 1
      BY <3>1, <2>2
    <3>2. CASE q + 1 < i
      <4>1. <<id(q + 1), id(i)>> \in g
        BY <3>2, <2>1, <1>8
      <4> QED BY <4>1, <2>2, <1>1, OrderIs
    <3> QED BY <3>1, <3>2, <2>1
  <2>4. id(i) \in Places(O) /\ op.id \in Places(O) /\ id(i) # op.id
    <3>1. id(i) \in Inserted(O) /\ op.id \in Inserted(O)
      BY <1>1, StreamIs, CanonicalIs
    <3>2. id(i) \in Items(d)
      BY <1>1 DEF Items
    <3> QED BY <3>1, <3>2, <1>1 DEF Places
  <2> QED BY <2>3, <2>4, <1>1, OrderIs
<1> QED BY <1>7, <1>9, <1>10

-----------------------------------------------------------------------------
(* The engine over a set of operations O, whose clocks are at most N, and   *)
(* in any set G of orders of their items.                                   *)

Good(O, G, N) ==
    /\ Distinct(O) /\ N \in Nat
    /\ \A o \in O : o.lamport >= 1 /\ o.lamport <= N
    /\ \A g \in G : Canonical(g, O)

Right(d, O, G, N) ==
    /\ d \in Doc /\ Sound(d, O) /\ d.lamport <= N
    /\ \A g \in G : Follows(d, g)

\* What an engine never loses.
Kept(d, e) ==
    /\ e.next = d.next /\ d.applied \subseteq e.applied /\ Items(d) \subseteq Items(e)
    /\ d.lamport \in Nat /\ e.lamport \in Nat /\ d.lamport <= e.lamport

\* The clock of an engine is a number, and the engine keeps what it has.
LEMMA KeptSelf ==
    ASSUME NEW d \in Doc PROVE d.lamport \in Nat /\ Kept(d, d)
<1>1. d.lamport \in Nat
  BY MaxOpsAssumption DEF Doc, Clock
<1> QED BY <1>1 DEF Kept

\* An engine that differs from another in its counters and its buffer.
Like(d, e) ==
    /\ e.order = d.order /\ e.tomb = d.tomb /\ e.reg = d.reg /\ e.applied = d.applied
    /\ e.contig = d.contig /\ e.gaps = d.gaps /\ d.lamport <= e.lamport

SameReady(d, e) == \A op : Ready(e, op) <=> Ready(d, op)

\* An engine with other counters and another buffer holds the same.
LEMMA RightBut ==
    ASSUME NEW O, NEW G, NEW N, NEW d, Right(d, O, G, N), NEW e \in Doc,
           Like(d, e), e.lamport <= N,
           \A i \in DOMAIN e.pending : e.pending[i] \in O, O \subseteq Op
    PROVE  Right(e, O, G, N) /\ Items(e) = Items(d) /\ SameReady(d, e)
<1>0. /\ e.order = d.order /\ e.tomb = d.tomb /\ e.reg = d.reg /\ e.applied = d.applied
      /\ e.contig = d.contig /\ e.gaps = d.gaps /\ d.lamport <= e.lamport
  BY DEF Like
<1>1. Items(e) = Items(d)
  BY <1>0 DEF Items
<1>2. \A op : Ready(e, op) <=> Ready(d, op)
  BY <1>1 DEF Ready
<1>3. Sound(d, O) /\ \A g \in G : Follows(d, g)
  BY DEF Right
<1>4. StreamRight(e, O)
  BY <1>0, <1>1, <1>3 DEF Sound, StreamRight
<1>5. RegistersRight(e, O)
  BY <1>0, <1>3 DEF Sound, RegistersRight
<1>6. SummaryRight(e)
  BY <1>0, <1>3 DEF Sound, SummaryRight
<1>7. ASSUME NEW o \in O, o.id \in e.applied PROVE Ready(e, o) /\ o.lamport <= e.lamport
  <2>1. Ready(d, o) /\ o.lamport <= d.lamport
    BY <1>0, <1>3, <1>7 DEF Sound
  <2>2. o.lamport \in Nat /\ d.lamport \in Nat /\ e.lamport \in Nat
    <3>1. o \in Op /\ d.lamport \in Clock /\ e.lamport \in Clock
      BY DEF Doc, Right
    <3> QED BY <3>1, OpType, MaxOpsAssumption DEF Clock
  <2> QED BY <1>0, <1>2, <2>1, <2>2
<1>8. /\ e.applied \subseteq {o.id : o \in O}
      /\ e.tomb = {o.target : o \in {p \in O : p.type = "delete" /\ p.id \in e.applied}}
  BY <1>0, <1>3 DEF Sound
<1>9. Sound(e, O)
  BY <1>4, <1>5, <1>6, <1>7, <1>8 DEF Sound
<1>10. \A g \in G : Follows(e, g)
  BY <1>0, <1>3 DEF Follows
<1> QED BY <1>1, <1>2, <1>9, <1>10 DEF Right, SameReady

\* Integration keeps the engine right.
LEMMA PlaceFollows ==
    ASSUME NEW O, NEW g, NEW d, Following(d, O, g), NEW op \in O, Ready(d, op), op.id \notin d.applied,
           NEW e, e = Place(d, op)
    PROVE  Follows(e, g)
<1>1. /\ Distinct(O) /\ op \in Op /\ d \in Doc /\ Sound(d, O) /\ Canonical(g, O) /\ SummaryRight(d)
      /\ StreamRight(d, O) /\ Follows(d, g)
  BY DEF Following, Distinct, Sound
<1>2. Placed(d, op, e)
  BY <1>1, PlaceIs
<1>3. CASE op.type # "insert"
  <2>1. e.order = d.order
    BY <1>2, <1>3 DEF Placed
  <2> QED BY <1>1, <2>1 DEF Follows
<1>4. CASE op.type = "insert"
  <2> DEFINE at == Position(d, Boundary(d, op))
             n == Len(d.order)
  <2>1. op.id \notin Items(d) /\ Unique(d) /\ e \in Doc /\ e.order = Spliced(d, op)
    <3>1. op.id \notin Items(d)
      BY <1>1, NewItem
    <3> QED BY <3>1, <1>1, <1>2, <1>4 DEF StreamRight, Unique, Placed
  <2>2. Coming(d, O, g, op)
    BY <1>1, <1>4, <2>1 DEF Coming, Ready
  <2>3. /\ at \in 0 .. n /\ Len(e.order) = n + 1
        /\ \A k \in 1 .. Len(e.order) :
               e.order[k] = IF k <= at THEN d.order[k]
                            ELSE IF k = at + 1 THEN [id |-> op.id, left |-> op.left]
                            ELSE d.order[k - 1]
    BY <1>1, <1>4, <2>1, SplicedIs
  <2>4. \A i \in 1 .. n : IF i <= at THEN <<d.order[i].id, op.id>> \in g
                          ELSE <<op.id, d.order[i].id>> \in g
    BY <2>2, BoundaryRight
  <2> HIDE DEF at
  <2>5. n \in Nat /\ DOMAIN d.order = 1 .. n /\ DOMAIN e.order = 1 .. (n + 1)
    BY <1>1, <2>1, <2>3, StreamType
  <2>6. \A i, j \in 1 .. n : i < j => <<d.order[i].id, d.order[j].id>> \in g
    BY <1>1, <2>5 DEF Follows
  <2> HIDE DEF n
  <2>7. ASSUME NEW i \in 1 .. (n + 1), NEW j \in 1 .. (n + 1), i < j
        PROVE  <<e.order[i].id, e.order[j].id>> \in g
    <3>1. /\ e.order[i] = IF i <= at THEN d.order[i]
                          ELSE IF i = at + 1 THEN [id |-> op.id, left |-> op.left] ELSE d.order[i - 1]
          /\ e.order[j] = IF j <= at THEN d.order[j]
                          ELSE IF j = at + 1 THEN [id |-> op.id, left |-> op.left] ELSE d.order[j - 1]
      BY <2>3
    <3>2. CASE i = at + 1
      <4>1. e.order[i].id = op.id /\ e.order[j] = d.order[j - 1] /\ j - 1 \in 1 .. n /\ ~(j - 1 <= at)
        BY <3>1, <3>2, <2>3, <2>5, <2>7
      <4> QED BY <4>1, <2>4
    <3>3. CASE j = at + 1
      <4>1. e.order[j].id = op.id /\ e.order[i] = d.order[i] /\ i \in 1 .. n /\ i <= at
        BY <3>1, <3>3, <2>3, <2>5, <2>7
      <4> QED BY <4>1, <2>4
    <3>4. CASE i # at + 1 /\ j # at + 1
      <4> DEFINE a == IF i <= at THEN i ELSE i - 1
                 b == IF j <= at THEN j ELSE j - 1
      <4>1. e.order[i] = d.order[a] /\ e.order[j] = d.order[b]
        BY <3>1, <3>4
      <4>2. a \in 1 .. n /\ b \in 1 .. n /\ a < b
        BY <3>4, <2>3, <2>5, <2>7
      <4> QED BY <4>1, <4>2, <2>6
    <3> QED BY <3>2, <3>3, <3>4
  <2> QED BY <2>5, <2>7 DEF Follows
<1> QED BY <1>3, <1>4

\* Integrating an operation whose anchors are there keeps the engine right, and
\* all that it had.
LEMMA PlaceRight ==
    ASSUME NEW O, NEW G, NEW N, Good(O, G, N), NEW d, Right(d, O, G, N),
           NEW op \in O, Ready(d, op), op.id \notin d.applied, NEW e, e = Place(d, op)
    PROVE  /\ Right(e, O, G, N) /\ Kept(d, e)
           /\ e.pending = d.pending /\ e.applied = d.applied \cup {op.id}
<1>1. Distinct(O) /\ d \in Doc /\ Sound(d, O) /\ op.lamport >= 1 /\ op.lamport <= N /\ d.lamport <= N
  BY DEF Good, Right
<1>2. /\ e \in Doc /\ Sound(e, O)
      /\ e.pending = d.pending /\ e.next = d.next /\ e.applied = d.applied \cup {op.id}
      /\ e.lamport = IF op.lamport > d.lamport THEN op.lamport ELSE d.lamport
      /\ Items(d) \subseteq Items(e)
  BY <1>1, PlaceSound
<1>3. e.lamport <= N
  BY <1>1, <1>2
<1>4. ASSUME NEW g \in G PROVE Follows(e, g)
  <2>1. Following(d, O, g)
    BY <1>1 DEF Following, Good, Right
  <2> QED BY <2>1, PlaceFollows
<1>5. Kept(d, e)
  <2>1. d.lamport \in Nat /\ e.lamport \in Nat /\ op.lamport \in Nat
    BY <1>1, <1>2, KeptSelf, OpType DEF Distinct
  <2> QED BY <2>1, <1>2 DEF Kept
<1> QED BY <1>2, <1>3, <1>4, <1>5 DEF Right

-----------------------------------------------------------------------------
(* The buffer of early operations.                                         *)

\* The buffer of an engine.
LEMMA BufferType ==
    ASSUME NEW d \in Doc
    PROVE  /\ d.pending \in Seq(Op) /\ Len(d.pending) \in Nat /\ DOMAIN d.pending = 1 .. Len(d.pending)
           /\ Held(d) = d.applied \cup {d.pending[i].id : i \in 1 .. Len(d.pending)}
<1>1. d.pending \in Seq(Op)
  BY DEF Doc
<1>2. DOMAIN d.pending = 1 .. Len(d.pending) /\ Len(d.pending) \in Nat
  BY <1>1
<1> QED BY <1>1, <1>2 DEF Held

\* Putting an operation into the buffer.
Buffered(d, op, e) == e = [d EXCEPT !.pending = Append(@, op)]

\* Buffering an operation changes nothing else in an engine.
LEMMA BufferRight ==
    ASSUME NEW O, NEW G, NEW N, Good(O, G, N), NEW d, Right(d, O, G, N), NEW op \in O,
           NEW e, Buffered(d, op, e)
    PROVE  /\ Right(e, O, G, N) /\ Kept(d, e) /\ Items(e) = Items(d) /\ e.applied = d.applied
           /\ e.pending = Append(d.pending, op)
           /\ Held(e) = Held(d) \cup {op.id}
           /\ SameReady(d, e)
<1>1. d \in Doc /\ O \subseteq Op /\ op \in Op /\ d.pending \in Seq(Op) /\ Sound(d, O)
  BY BufferType DEF Good, Right, Distinct
<1>2. Append(d.pending, op) \in Seq(Op)
  BY <1>1
<1>3. /\ e \in Doc
      /\ e.order = d.order /\ e.tomb = d.tomb /\ e.reg = d.reg /\ e.applied = d.applied
      /\ e.contig = d.contig /\ e.gaps = d.gaps /\ d.lamport = e.lamport /\ e.next = d.next
      /\ e.pending = Append(d.pending, op)
  BY <1>1, <1>2 DEF Doc, Buffered
<1>4. /\ Len(e.pending) = Len(d.pending) + 1 /\ Len(d.pending) \in Nat
      /\ \A i \in 1 .. Len(d.pending) : e.pending[i] = d.pending[i]
      /\ e.pending[Len(d.pending) + 1] = op
      /\ DOMAIN e.pending = 1 .. (Len(d.pending) + 1) /\ DOMAIN d.pending = 1 .. Len(d.pending)
  BY <1>1, <1>3
<1>5. \A i \in DOMAIN e.pending : e.pending[i] \in O
  BY <1>1, <1>4 DEF Sound
<1>6. Held(e) = Held(d) \cup {op.id}
  <2>1. {e.pending[i].id : i \in DOMAIN e.pending} = {d.pending[i].id : i \in DOMAIN d.pending} \cup {op.id}
    BY <1>4, SMTT(30)
  <2> QED BY <1>3, <2>1 DEF Held
<1>7. d.lamport <= e.lamport /\ e.lamport <= N
  <2>1. d.lamport \in Nat
    BY <1>1, MaxOpsAssumption DEF Doc, Clock
  <2> QED BY <2>1, <1>3 DEF Right
<1>8. Right(e, O, G, N) /\ Items(e) = Items(d) /\ SameReady(d, e)
  <2>1. Like(d, e)
    BY <1>3, <1>7 DEF Like
  <2>2. O \subseteq Op /\ e \in Doc
    BY <1>1, <1>3
  <2> QED BY <2>1, <2>2, <1>5, <1>7, RightBut
<1>9. Kept(d, e)
  <2>1. d.lamport \in Nat
    BY <1>1, KeptSelf
  <2> QED BY <2>1, <1>3, <1>8 DEF Kept
<1> QED BY <1>3, <1>6, <1>8, <1>9

\* What is applied and what is buffered together are what an engine holds.
LEMMA HeldGrows ==
    ASSUME NEW d, NEW e, NEW x, e.pending = d.pending, e.applied = d.applied \cup {x}
    PROVE  Held(e) = Held(d) \cup {x}
BY DEF Held

\* One turn of a pass.
Turn(d, op, e) ==
    /\ Kept(d, e) /\ Held(e) = Held(d) \cup {op.id}
    /\ IF Ready(d, op) THEN e.pending = d.pending
       ELSE e.pending = Append(d.pending, op) /\ Items(e) = Items(d)

\* A turn of a retry pass keeps the engine right, and what it holds.
LEMMA RetryRight ==
    ASSUME NEW O, NEW G, NEW N, Good(O, G, N), NEW d, Right(d, O, G, N), NEW op \in O,
           NEW e, e = Retry(d, op)
    PROVE  Right(e, O, G, N) /\ Turn(d, op, e)
<1>1. CASE ~Ready(d, op)
  <2>1. Buffered(d, op, e)
    BY <1>1 DEF Retry, Buffered
  <2>2. /\ Right(e, O, G, N) /\ Kept(d, e) /\ Items(e) = Items(d) /\ e.pending = Append(d.pending, op)
        /\ Held(e) = Held(d) \cup {op.id}
    BY <2>1, BufferRight
  <2> QED BY <1>1, <2>2 DEF Turn
<1>2. CASE Ready(d, op) /\ op.id \in d.applied
  <2>1. e = d
    BY <1>2 DEF Retry
  <2>2. Kept(d, d) /\ Held(d) = Held(d) \cup {op.id}
    BY <1>2, KeptSelf DEF Held, Right
  <2> QED BY <1>2, <2>1, <2>2 DEF Turn
<1>3. CASE Ready(d, op) /\ op.id \notin d.applied
  <2>1. e = Place(d, op)
    BY <1>3 DEF Retry
  <2>2. /\ Right(e, O, G, N) /\ Kept(d, e) /\ e.pending = d.pending /\ e.applied = d.applied \cup {op.id}
    BY <1>3, <2>1, PlaceRight
  <2>3. Held(e) = Held(d) \cup {op.id}
    BY <2>2, HeldGrows, SMTT(30)
  <2> QED BY <1>3, <2>2, <2>3 DEF Turn
<1> QED BY <1>1, <1>2, <1>3

\* What is kept twice is kept.
LEMMA KeptTrans ==
    ASSUME NEW a, NEW b, NEW c, Kept(a, b), Kept(b, c) PROVE Kept(a, c)
BY DEF Kept

\* A sequence without its last element.
LEMMA PrefixIs ==
    ASSUME NEW S, NEW s \in Seq(S), NEW k \in 0 .. Len(s)
    PROVE  /\ Len(SubSeq(s, 1, k)) = k /\ SubSeq(s, 1, k) \in Seq(S)
           /\ \A i \in 1 .. k : SubSeq(s, 1, k)[i] = s[i]
           /\ k = 0 => SubSeq(s, 1, k) = <<>>
           /\ k < Len(s) => SubSeq(s, 1, k + 1) = Append(SubSeq(s, 1, k), s[k + 1])
           /\ k = Len(s) => SubSeq(s, 1, k) = s
<1> DEFINE t == SubSeq(s, 1, k)
<1>1. k \in Nat /\ Len(s) \in Nat /\ k <= Len(s)
  OBVIOUS
<1>2. Len(t) = k /\ t \in Seq(S)
  BY <1>1
<1>3. \A i \in 1 .. k : t[i] = s[i]
  BY <1>1
<1>4. k = 0 => t = <<>>
  BY <1>2
<1>5. ASSUME k < Len(s) PROVE SubSeq(s, 1, k + 1) = Append(t, s[k + 1])
  <2> DEFINE u == SubSeq(s, 1, k + 1)
             v == Append(t, s[k + 1])
  <2>1. Len(u) = k + 1 /\ u \in Seq(S)
    BY <1>1, <1>5
  <2>2. \A i \in 1 .. (k + 1) : u[i] = s[i]
    BY <1>1, <1>5
  <2>3. s[k + 1] \in S
    BY <1>1, <1>5
  <2> HIDE DEF t
  <2>4. Len(v) = k + 1 /\ v \in Seq(S)
    BY <1>1, <1>2, <2>3
  <2>5. \A i \in 1 .. (k + 1) : v[i] = s[i]
    BY <1>1, <1>2, <1>3, <2>3
  <2> HIDE DEF u, v
  <2>6. u = v
    BY <1>1, <2>1, <2>2, <2>4, <2>5
  <2> QED BY <2>6 DEF u, v
<1>6. k = Len(s) => t = s
  <2> HIDE DEF t
  <2> QED BY <1>1, <1>2, <1>3
<1> HIDE DEF t
<1>7. /\ Len(t) = k /\ t \in Seq(S)
      /\ \A i \in 1 .. k : t[i] = s[i]
      /\ k = 0 => t = <<>>
      /\ k < Len(s) => SubSeq(s, 1, k + 1) = Append(t, s[k + 1])
      /\ k = Len(s) => t = s
  BY <1>2, <1>3, <1>4, <1>5, <1>6
<1> QED BY <1>7 DEF t

\* A pass after k operations of the buffer: if none of them could be integrated
\* the engine is as it was, otherwise the buffer got shorter.
PassRight(d, O, G, N, k, e) ==
    /\ Right(e, O, G, N) /\ Kept(d, e)
    /\ Held(e) = d.applied \cup {d.pending[i].id : i \in 1 .. k}
    /\ IF \A i \in 1 .. k : ~Ready(d, d.pending[i])
       THEN Items(e) = Items(d) /\ e.pending = SubSeq(d.pending, 1, k)
       ELSE Len(e.pending) < k

Emptied(d, e) == e = [d EXCEPT !.pending = <<>>]

\* A pass begins with an empty buffer.
LEMMA PassBegins ==
    ASSUME NEW O, NEW G, NEW N, Good(O, G, N), NEW d, Right(d, O, G, N), NEW e, Emptied(d, e)
    PROVE  PassRight(d, O, G, N, 0, e)
<1>1. d \in Doc /\ O \subseteq Op
  BY DEF Good, Right, Distinct
<1>2. /\ e \in Doc
      /\ e.order = d.order /\ e.tomb = d.tomb /\ e.reg = d.reg /\ e.applied = d.applied
      /\ e.contig = d.contig /\ e.gaps = d.gaps /\ d.lamport = e.lamport /\ e.next = d.next
      /\ e.pending = <<>>
  <2>1. <<>> \in Seq(Op)
    OBVIOUS
  <2> HIDE DEF Op
  <2> DEFINE none == <<>>
  <2>2. none \in Seq(Op) /\ e = [d EXCEPT !.pending = none]
    BY <2>1 DEF Emptied
  <2> HIDE DEF none
  <2>3. /\ e \in Doc
        /\ e.order = d.order /\ e.tomb = d.tomb /\ e.reg = d.reg /\ e.applied = d.applied
        /\ e.contig = d.contig /\ e.gaps = d.gaps /\ d.lamport = e.lamport /\ e.next = d.next
        /\ e.pending = none
    BY <2>2, <1>1 DEF Doc
  <2> QED BY <2>3 DEF none
<1>3. d.lamport <= e.lamport /\ e.lamport <= N
  <2>1. d.lamport \in Nat
    BY <1>1, MaxOpsAssumption DEF Doc, Clock
  <2> QED BY <2>1, <1>2 DEF Right
<1>4. Like(d, e) /\ \A i \in DOMAIN e.pending : e.pending[i] \in O
  BY <1>2, <1>3 DEF Like
<1>5. Right(e, O, G, N) /\ Items(e) = Items(d)
  <2>1. e \in Doc /\ O \subseteq Op
    BY <1>1, <1>2
  <2> QED BY <2>1, <1>3, <1>4, RightBut
<1>6. Held(e) = d.applied \cup {d.pending[i].id : i \in 1 .. 0}
  <2>1. e.applied = d.applied /\ DOMAIN e.pending = {} /\ 1 .. 0 = {}
    BY <1>2
  <2> QED BY <2>1 DEF Held
<1>7. SubSeq(d.pending, 1, 0) = <<>>
  BY <1>1, BufferType, PrefixIs
<1>8. Kept(d, e)
  <2>1. d.lamport \in Nat
    BY <1>1, KeptSelf
  <2> QED BY <2>1, <1>2, <1>5 DEF Kept
<1> QED BY <1>2, <1>5, <1>6, <1>7, <1>8 DEF PassRight

\* A pass that is right up to a place is right up to the next one.
LEMMA PassGoesOn ==
    ASSUME NEW O, NEW G, NEW N, Good(O, G, N), NEW d, Right(d, O, G, N),
           NEW k \in 1 .. Len(d.pending), NEW b, PassRight(d, O, G, N, k - 1, b),
           NEW e, e = Retry(b, d.pending[k])
    PROVE  PassRight(d, O, G, N, k, e)
<1> DEFINE op == d.pending[k]
<1>1. d \in Doc /\ Sound(d, O) /\ DOMAIN d.pending = 1 .. Len(d.pending) /\ Len(d.pending) \in Nat
      /\ d.pending \in Seq(Op)
  BY BufferType DEF Right
<1>2. op \in O
  BY <1>1 DEF Sound
<1>3. /\ Right(b, O, G, N) /\ Kept(d, b)
      /\ Held(b) = d.applied \cup {d.pending[i].id : i \in 1 .. (k - 1)}
      /\ IF \A i \in 1 .. (k - 1) : ~Ready(d, d.pending[i])
         THEN Items(b) = Items(d) /\ b.pending = SubSeq(d.pending, 1, k - 1)
         ELSE Len(b.pending) < k - 1
  BY DEF PassRight
<1> HIDE DEF op
<1>4. Right(e, O, G, N) /\ Turn(b, op, e)
  BY <1>2, <1>3, RetryRight DEF op
<1>5. /\ Kept(b, e) /\ Held(e) = Held(b) \cup {op.id}
      /\ IF Ready(b, op) THEN e.pending = b.pending
         ELSE e.pending = Append(b.pending, op) /\ Items(e) = Items(b)
  BY <1>4 DEF Turn
<1>6. Kept(d, e)
  BY <1>3, <1>5, KeptTrans
<1>7. Held(e) = d.applied \cup {d.pending[i].id : i \in 1 .. k}
  <2>1. 1 .. k = (1 .. (k - 1)) \cup {k}
    BY <1>1
  <2> QED BY <2>1, <1>3, <1>5 DEF op
<1>8. b.pending \in Seq(Op) /\ op \in Op /\ Len(b.pending) \in Nat
  <2>1. b \in Doc
    BY <1>3 DEF Right
  <2>2. O \subseteq Op
    BY DEF Good, Distinct
  <2> QED BY <2>1, <2>2, <1>2, BufferType
<1>9. Len(e.pending) = IF Ready(b, op) THEN Len(b.pending) ELSE Len(b.pending) + 1
  BY <1>5, <1>8
<1>10. CASE \A i \in 1 .. k : ~Ready(d, d.pending[i])
  <2>1. (\A i \in 1 .. (k - 1) : ~Ready(d, d.pending[i])) /\ ~Ready(d, op)
    BY <1>1, <1>10 DEF op
  <2>2. Items(b) = Items(d) /\ b.pending = SubSeq(d.pending, 1, k - 1)
    BY <2>1, <1>3
  <2>3. ~Ready(b, op)
    BY <2>1, <2>2 DEF Ready
  <2>4. k - 1 \in 0 .. Len(d.pending) /\ k - 1 < Len(d.pending) /\ (k - 1) + 1 = k
    BY <1>1
  <2>5. SubSeq(d.pending, 1, (k - 1) + 1) = Append(SubSeq(d.pending, 1, k - 1), d.pending[(k - 1) + 1])
    BY <1>1, <2>4, PrefixIs
  <2>6. Items(e) = Items(d) /\ e.pending = SubSeq(d.pending, 1, k)
    BY <2>2, <2>3, <2>4, <2>5, <1>5 DEF op
  <2> QED BY <2>6, <1>4, <1>6, <1>7, <1>10 DEF PassRight
<1>11. CASE ~\A i \in 1 .. k : ~Ready(d, d.pending[i])
  <2>1. CASE \A i \in 1 .. (k - 1) : ~Ready(d, d.pending[i])
    <3>1. Ready(d, op)
      BY <1>1, <1>11, <2>1 DEF op
    <3>2. Ready(b, op) /\ b.pending = SubSeq(d.pending, 1, k - 1)
      BY <3>1, <2>1, <1>3 DEF Ready
    <3>3. k - 1 \in 0 .. Len(d.pending)
      BY <1>1
    <3>4. Len(b.pending) = k - 1
      BY <3>2, <3>3, <1>1, PrefixIs
    <3>5. Len(e.pending) < k
      BY <3>2, <3>4, <1>1, <1>9
    <3> QED BY <3>5, <1>4, <1>6, <1>7, <1>11 DEF PassRight
  <2>2. CASE ~\A i \in 1 .. (k - 1) : ~Ready(d, d.pending[i])
    <3>1. Len(b.pending) < k - 1
      BY <2>2, <1>3
    <3>2. Len(e.pending) < k
      BY <3>1, <1>1, <1>8, <1>9
    <3> QED BY <3>2, <1>4, <1>6, <1>7, <1>11 DEF PassRight
  <2> QED BY <2>1, <2>2
<1> QED BY <1>10, <1>11

\* What one pass leaves: an engine that holds as much, settled or with a shorter buffer.
PassLeaves(d, O, G, N, e) ==
    /\ Right(e, O, G, N) /\ Kept(d, e) /\ Held(e) = Held(d)
    /\ Settled(e) \/ (Len(e.pending) < Len(d.pending) /\ ~Settled(d))

\* A pass of retry_pending keeps the engine right.
LEMMA PassIsRight ==
    ASSUME NEW O, NEW G, NEW N, Good(O, G, N), NEW d, Right(d, O, G, N)
    PROVE  PassLeaves(d, O, G, N, RetryPass(d))
<1> DEFINE n == Len(d.pending)
           S == {k \in Nat : PassRight(d, O, G, N, k, Retried(d)[k])}
           e == RetryPass(d)
<1>1. d \in Doc /\ DOMAIN d.pending = 1 .. n /\ n \in Nat /\ d.pending \in Seq(Op)
      /\ Held(d) = d.applied \cup {d.pending[i].id : i \in 1 .. n}
  BY BufferType DEF Right
<1>2. /\ Emptied(d, Retried(d)[0])
      /\ \A k \in 1 .. n : Retried(d)[k] = Retry(Retried(d)[k - 1], d.pending[k])
  BY <1>1, RetriedIs DEF Emptied
<1>3. 0 \in S
  BY <1>2, PassBegins
<1>4. ASSUME NEW k \in 0 .. n, k \in S, k < n PROVE k + 1 \in S
  <2>1. k + 1 \in 1 .. n /\ (k + 1) - 1 = k
    BY <1>1, <1>4
  <2>2. PassRight(d, O, G, N, (k + 1) - 1, Retried(d)[k])
    BY <2>1, <1>4
  <2>3. Retried(d)[k + 1] = Retry(Retried(d)[k], d.pending[k + 1])
    BY <2>1, <1>2
  <2>4. PassRight(d, O, G, N, k + 1, Retried(d)[k + 1])
    BY <2>1, <2>2, <2>3, PassGoesOn
  <2> QED BY <2>4
<1> HIDE DEF S
<1>5. \A k \in 0 .. n : k \in S
  BY <1>1, <1>3, <1>4, Induction
<1>6. PassRight(d, O, G, N, n, e)
  <2>1. n \in S
    BY <1>1, <1>5
  <2> QED BY <2>1 DEF S, RetryPass
<1> HIDE DEF e
<1>7. /\ Right(e, O, G, N) /\ Kept(d, e) /\ Held(e) = Held(d)
      /\ IF \A i \in 1 .. n : ~Ready(d, d.pending[i])
         THEN Items(e) = Items(d) /\ e.pending = SubSeq(d.pending, 1, n)
         ELSE Len(e.pending) < n
  BY <1>1, <1>6 DEF PassRight
<1>8. CASE \A i \in 1 .. n : ~Ready(d, d.pending[i])
  <2>1. n \in 0 .. Len(d.pending)
    BY <1>1
  <2>2. SubSeq(d.pending, 1, n) = d.pending
    BY <2>1, <1>1, PrefixIs
  <2>3. Items(e) = Items(d) /\ e.pending = d.pending
    BY <2>2, <1>7, <1>8
  <2>4. Settled(e)
    BY <2>3, <1>1, <1>8 DEF Settled, Ready
  <2> QED BY <2>4, <1>7 DEF PassLeaves, e
<1>9. CASE ~\A i \in 1 .. n : ~Ready(d, d.pending[i])
  BY <1>1, <1>7, <1>9 DEF PassLeaves, Settled, e
<1> QED BY <1>8, <1>9

\* retry_pending leaves nothing in the buffer that could be integrated.
RetryLeaves(d, O, G, N, e) ==
    Right(e, O, G, N) /\ Kept(d, e) /\ Held(e) = Held(d) /\ Settled(e)

\* After k passes.
PassesRight(d, O, G, N, k, e) ==
    /\ Right(e, O, G, N) /\ Kept(d, e) /\ Held(e) = Held(d)
    /\ Settled(e) \/ Len(e.pending) <= Len(d.pending) - k

\* retry_pending ends with a buffer in which nothing is ready: a pass that moves
\* nothing leaves the engine settled, and there are as many passes as operations.
LEMMA RetryPendingRight ==
    ASSUME NEW O, NEW G, NEW N, Good(O, G, N), NEW d, Right(d, O, G, N)
    PROVE  RetryLeaves(d, O, G, N, RetryPending(d))
<1> DEFINE n == Len(d.pending)
           S == {k \in Nat : PassesRight(d, O, G, N, k, Passes(d)[k])}
<1>1. d \in Doc /\ n \in Nat
  BY BufferType DEF Right
<1>2. /\ Passes(d)[0] = d
      /\ \A k \in 1 .. n : Passes(d)[k] = RetryPass(Passes(d)[k - 1])
  BY <1>1, PassesIs
<1>3. 0 \in S
  BY <1>1, <1>2, KeptSelf DEF PassesRight
<1>4. ASSUME NEW k \in 0 .. n, k \in S, k < n PROVE k + 1 \in S
  <2> DEFINE b == Passes(d)[k]
             e == Passes(d)[k + 1]
  <2>1. k + 1 \in 1 .. n /\ (k + 1) - 1 = k
    BY <1>1, <1>4
  <2>2. e = RetryPass(b)
    BY <2>1, <1>2
  <2>3. /\ Right(b, O, G, N) /\ Kept(d, b) /\ Held(b) = Held(d)
        /\ Settled(b) \/ Len(b.pending) <= n - k
    BY <1>4 DEF PassesRight
  <2> HIDE DEF b, e
  <2>4. PassLeaves(b, O, G, N, e)
    BY <2>2, <2>3, PassIsRight
  <2>5. /\ Right(e, O, G, N) /\ Kept(b, e) /\ Held(e) = Held(b)
        /\ Settled(e) \/ (Len(e.pending) < Len(b.pending) /\ ~Settled(b))
    BY <2>4 DEF PassLeaves
  <2>6. Kept(d, e)
    BY <2>3, <2>5, KeptTrans
  <2>7. Len(b.pending) \in Nat /\ Len(e.pending) \in Nat
    BY <2>3, <2>5, BufferType DEF Right
  <2>8. Settled(e) \/ Len(e.pending) <= n - (k + 1)
    BY <2>3, <2>5, <2>7, <1>1
  <2>9. PassesRight(d, O, G, N, k + 1, e)
    BY <2>3, <2>5, <2>6, <2>8 DEF PassesRight
  <2> QED BY <2>9, <1>4 DEF e
<1> HIDE DEF S
<1>5. \A k \in 0 .. n : k \in S
  BY <1>1, <1>3, <1>4, Induction
<1>6. PassesRight(d, O, G, N, n, RetryPending(d))
  <2>1. n \in S
    BY <1>1, <1>5
  <2> QED BY <2>1 DEF S, RetryPending
<1> DEFINE e == RetryPending(d)
<1> HIDE DEF e
<1>7. /\ Right(e, O, G, N) /\ Kept(d, e) /\ Held(e) = Held(d)
      /\ Settled(e) \/ Len(e.pending) <= n - n
  BY <1>6 DEF PassesRight, e
<1>8. DOMAIN e.pending = 1 .. Len(e.pending) /\ Len(e.pending) \in Nat
  BY <1>7, BufferType DEF Right
<1>9. Settled(e)
  <2>1. CASE Len(e.pending) <= n - n
    <3>1. Len(e.pending) = 0
      BY <2>1, <1>1, <1>8
    <3> QED BY <3>1, <1>8 DEF Settled
  <2> QED BY <2>1, <1>7
<1> QED BY <1>7, <1>9 DEF RetryLeaves, e

-----------------------------------------------------------------------------
(* A remote operation, a request of them, a log of them.                   *)

\* What taking in operations of which X are the ids leaves.
TakesIn(d, O, G, N, X, e) ==
    /\ Right(e, O, G, N) /\ Settled(e) /\ Kept(d, e)
    /\ Held(d) \subseteq Held(e) /\ Held(e) \subseteq Held(d) \cup X

\* apply_remote takes the operation in, unless the buffer is full.
LEMMA ApplyRemoteRight ==
    ASSUME NEW O, NEW G, NEW N, Good(O, G, N), NEW d, Right(d, O, G, N), Settled(d), NEW op \in O,
           NEW e, e = ApplyRemote(d, op)
    PROVE  /\ TakesIn(d, O, G, N, {op.id}, e)
           /\ Refused(d, op) \/ op.id \in d.applied => e = d
           /\ ~Refused(d, op) => op.id \in Held(e)
<1>1. CASE op.id \in d.applied
  <2>1. e = d
    BY <1>1 DEF ApplyRemote
  <2> QED BY <1>1, <2>1, KeptSelf DEF TakesIn, Held, Right
<1>2. CASE op.id \notin d.applied /\ Ready(d, op)
  <2> DEFINE b == Place(d, op)
  <2>1. e = RetryPending(b)
    BY <1>2 DEF ApplyRemote
  <2>2. Right(b, O, G, N) /\ Kept(d, b) /\ b.pending = d.pending /\ b.applied = d.applied \cup {op.id}
    BY <1>2, PlaceRight
  <2> HIDE DEF b
  <2>3. Held(b) = Held(d) \cup {op.id}
    <3>1. b.pending = d.pending /\ b.applied = d.applied \cup {op.id}
      BY <2>2
    <3> QED BY <3>1 DEF Held
  <2>4. RetryLeaves(b, O, G, N, e)
    BY <2>1, <2>2, RetryPendingRight
  <2>5. Kept(d, e) /\ Right(e, O, G, N) /\ Settled(e) /\ Held(e) = Held(b)
    BY <2>2, <2>4, KeptTrans DEF RetryLeaves
  <2> QED BY <1>2, <2>3, <2>5 DEF TakesIn, Refused
<1>3. CASE Refused(d, op)
  <2>1. e = d
    BY <1>3 DEF ApplyRemote, Refused
  <2>2. TakesIn(d, O, G, N, {op.id}, d)
    BY KeptSelf DEF TakesIn, Right
  <2> QED BY <1>3, <2>1, <2>2
<1>4. CASE op.id \notin d.applied /\ ~Ready(d, op) /\ ~Refused(d, op)
  <2>1. Buffered(d, op, e)
    BY <1>4 DEF ApplyRemote, Buffered
  <2>2. /\ Right(e, O, G, N) /\ Kept(d, e) /\ e.pending = Append(d.pending, op)
        /\ Held(e) = Held(d) \cup {op.id} /\ SameReady(d, e)
    BY <2>1, BufferRight
  <2>3. Settled(e)
    <3>1. d.pending \in Seq(Op) /\ op \in Op
      BY BufferType DEF Right, Good, Distinct
    <3>2. \A i \in DOMAIN e.pending : e.pending[i] = op \/ (i \in DOMAIN d.pending /\ e.pending[i] = d.pending[i])
      BY <2>2, <3>1
    <3> QED BY <3>2, <2>2, <1>4 DEF Settled, SameReady
  <2> QED BY <1>4, <2>2, <2>3 DEF TakesIn
<1> QED BY <1>1, <1>2, <1>3, <1>4

\* What is taken in first stays when more is.
LEMMA TakesInTrans ==
    ASSUME NEW O, NEW G, NEW N, NEW d, NEW b, NEW e, NEW X, NEW Y, NEW Z, X \cup Y \subseteq Z,
           TakesIn(d, O, G, N, X, b), TakesIn(b, O, G, N, Y, e)
    PROVE  TakesIn(d, O, G, N, Z, e)
<1>1. Kept(d, e)
  BY KeptTrans DEF TakesIn
<1> QED BY <1>1 DEF TakesIn

\* A function on 1 .. n is a sequence.
LEMMA SequenceIs ==
    ASSUME NEW S, NEW n \in Nat, NEW f \in [1 .. n -> S]
    PROVE  f \in Seq(S) /\ Len(f) = n /\ \A i \in 1 .. n : f[i] \in S
OBVIOUS

\* A request after k of its frames.
TakenRight(d, O, G, N, batch, k, s) ==
    /\ s \in [doc : Doc, durable : SUBSET O, thrown : BOOLEAN]
    /\ TakesIn(d, O, G, N, {batch[i].id : i \in 1 .. Len(batch)}, s.doc)
    /\ ~s.thrown => Held(s.doc) \subseteq Held(d) \cup {o.id : o \in s.durable}
    /\ s.thrown /\ k <= 1 => s.doc = d
    /\ k = 0 => s.doc = d /\ ~s.thrown

\* A frame of an applyRemote request, the loop going on or having thrown.
LEMMA TakeFrameRight ==
    ASSUME NEW O, NEW G, NEW N, Good(O, G, N), NEW d, NEW batch \in Seq(O),
           NEW k \in 1 .. Len(batch), NEW s, TakenRight(d, O, G, N, batch, k - 1, s),
           NEW t, t = TakeFrame(s, batch[k])
    PROVE  TakenRight(d, O, G, N, batch, k, t)
<1> DEFINE op == batch[k]
           X == {batch[i].id : i \in 1 .. Len(batch)}
<1>1. /\ s \in [doc : Doc, durable : SUBSET O, thrown : BOOLEAN]
      /\ TakesIn(d, O, G, N, X, s.doc)
      /\ ~s.thrown => Held(s.doc) \subseteq Held(d) \cup {o.id : o \in s.durable}
      /\ s.thrown /\ k - 1 <= 1 => s.doc = d
      /\ k - 1 = 0 => s.doc = d /\ ~s.thrown
  BY DEF TakenRight
<1>2. op \in O /\ op.id \in X /\ k \in Nat /\ k >= 1
  OBVIOUS
<1> HIDE DEF op, X
<1>3. CASE s.thrown \/ Refused(s.doc, op)
  <2>1. t \in [doc : Doc, durable : SUBSET O, thrown : BOOLEAN] /\ t.doc = s.doc /\ t.thrown
    BY <1>1, <1>3 DEF TakeFrame, op
  <2>2. k <= 1 => s.doc = d
    BY <1>1, <1>2
  <2> QED BY <1>1, <1>2, <2>1, <2>2 DEF TakenRight, X
<1>4. CASE ~(s.thrown \/ Refused(s.doc, op))
  <2> DEFINE e == ApplyRemote(s.doc, op)
             new == IF op.id \in s.doc.applied THEN s.durable ELSE s.durable \cup {op}
  <2>1. t = [s EXCEPT !.doc = e, !.durable = new]
    BY <1>1, <1>4 DEF TakeFrame, op
  <2>2. Right(s.doc, O, G, N) /\ Settled(s.doc)
    BY <1>1 DEF TakesIn
  <2>3. /\ TakesIn(s.doc, O, G, N, {op.id}, e)
        /\ op.id \in s.doc.applied => e = s.doc
    <3>1. e = ApplyRemote(s.doc, op) /\ op \in O
      BY <1>2
    <3> HIDE DEF e
    <3> QED BY <2>2, <3>1, ApplyRemoteRight
  <2>4. TakesIn(d, O, G, N, X, e)
    <3>1. X \cup {op.id} \subseteq X
      BY <1>2
    <3>2. TakesIn(d, O, G, N, X, s.doc) /\ TakesIn(s.doc, O, G, N, {op.id}, e)
      BY <1>1, <2>3
    <3> HIDE DEF e
    <3> QED BY <3>1, <3>2, TakesInTrans
  <2>5. new \subseteq O /\ s.durable \subseteq new /\ (op.id \notin s.doc.applied => op \in new)
    BY <1>1, <1>2
  <2>6. Held(e) \subseteq Held(d) \cup {o.id : o \in new}
    <3>1. CASE op.id \in s.doc.applied
      BY <3>1, <1>1, <1>4, <2>3
    <3>2. CASE op.id \notin s.doc.applied
      <4>1. Held(e) \subseteq Held(s.doc) \cup {op.id}
        BY <2>3 DEF TakesIn
      <4>2. Held(s.doc) \subseteq Held(d) \cup {o.id : o \in s.durable}
        BY <1>1, <1>4
      <4> QED BY <3>2, <4>1, <4>2, <2>5
    <3> QED BY <3>1, <3>2
  <2>7. e \in Doc
    BY <2>4 DEF TakesIn, Right
  <2> HIDE DEF e, new
  <2>8. /\ t \in [doc : Doc, durable : SUBSET O, thrown : BOOLEAN]
        /\ t.doc = e /\ t.durable = new /\ ~t.thrown
    BY <1>1, <1>4, <2>1, <2>5, <2>7
  <2>9. k # 0
    BY <1>2
  <2> QED BY <2>4, <2>6, <2>8, <2>9 DEF TakenRight, X
<1> QED BY <1>3, <1>4

\* The loop of an applyRemote request up to any of its frames.
LEMMA TakenIsRight ==
    ASSUME NEW O, NEW G, NEW N, Good(O, G, N), NEW d, Right(d, O, G, N), Settled(d), NEW batch \in Seq(O)
    PROVE  TakenRight(d, O, G, N, batch, Len(batch), ApplyBatch(d, batch))
<1> DEFINE n == Len(batch)
           S == {k \in Nat : TakenRight(d, O, G, N, batch, k, Taken(d, batch)[k])}
<1>1. n \in Nat
  OBVIOUS
<1>2. /\ Taken(d, batch)[0] = [doc |-> d, durable |-> {}, thrown |-> FALSE]
      /\ \A k \in 1 .. n : Taken(d, batch)[k] = TakeFrame(Taken(d, batch)[k - 1], batch[k])
  BY <1>1, TakenIs
<1>3. 0 \in S
  <2> DEFINE s == Taken(d, batch)[0]
  <2>1. d \in Doc
    BY DEF Right
  <2>2. s \in [doc : Doc, durable : SUBSET O, thrown : BOOLEAN] /\ s.doc = d /\ ~s.thrown
    BY <1>2, <2>1
  <2> HIDE DEF s
  <2>3. TakesIn(d, O, G, N, {batch[i].id : i \in 1 .. n}, d)
    BY KeptSelf DEF TakesIn, Right
  <2>4. TakenRight(d, O, G, N, batch, 0, s)
    BY <2>2, <2>3 DEF TakenRight
  <2> QED BY <2>4 DEF s
<1>4. ASSUME NEW k \in 0 .. n, k \in S, k < n PROVE k + 1 \in S
  <2>1. k + 1 \in 1 .. n /\ (k + 1) - 1 = k
    BY <1>1, <1>4
  <2>2. TakenRight(d, O, G, N, batch, (k + 1) - 1, Taken(d, batch)[k])
    BY <2>1, <1>4
  <2>3. Taken(d, batch)[k + 1] = TakeFrame(Taken(d, batch)[k], batch[k + 1])
    BY <2>1, <1>2
  <2>4. TakenRight(d, O, G, N, batch, k + 1, Taken(d, batch)[k + 1])
    BY <2>1, <2>2, <2>3, TakeFrameRight
  <2> QED BY <2>4
<1> HIDE DEF S
<1>5. \A k \in 0 .. n : k \in S
  BY <1>1, <1>3, <1>4, Induction
<1>6. n \in S
  BY <1>1, <1>5
<1> QED BY <1>6 DEF S, ApplyBatch

\* A log after k of its operations.
ReplayRight(d, O, G, N, seq, k, e) ==
    /\ TakesIn(d, O, G, N, {seq[i].id : i \in 1 .. Len(seq)}, e)
    /\ \A i \in 1 .. k : seq[i].id \in Held(e)

\* The replay of a log over a snapshot, up to any of its records.
LEMMA ReplayIsRight ==
    ASSUME NEW O, NEW G, NEW N, Good(O, G, N), NEW d, Right(d, O, G, N), Settled(d),
           NEW seq \in Seq(O), ~Overflows(d, seq)
    PROVE  ReplayRight(d, O, G, N, seq, Len(seq), Replay(d, seq))
<1> DEFINE n == Len(seq)
           X == {seq[i].id : i \in 1 .. n}
           S == {k \in Nat : ReplayRight(d, O, G, N, seq, k, Replayed(d, seq)[k])}
<1>1. n \in Nat
  OBVIOUS
<1>2. /\ Replayed(d, seq)[0] = d
      /\ \A k \in 1 .. n : Replayed(d, seq)[k] = ApplyRemote(Replayed(d, seq)[k - 1], seq[k])
  BY <1>1, ReplayedIs
<1>3. 0 \in S
  <2>1. TakesIn(d, O, G, N, X, d)
    BY KeptSelf DEF TakesIn, Right
  <2> QED BY <1>2, <2>1 DEF ReplayRight
<1>4. ASSUME NEW k \in 0 .. n, k \in S, k < n PROVE k + 1 \in S
  <2> DEFINE b == Replayed(d, seq)[k]
             e == Replayed(d, seq)[k + 1]
             op == seq[k + 1]
  <2>1. k + 1 \in 1 .. n /\ (k + 1) - 1 = k
    BY <1>1, <1>4
  <2>2. TakesIn(d, O, G, N, X, b) /\ \A i \in 1 .. k : seq[i].id \in Held(b)
    BY <1>4 DEF ReplayRight
  <2>3. e = ApplyRemote(b, op)
    BY <2>1, <1>2
  <2>4. ~Refused(b, op)
    BY <2>1 DEF Overflows
  <2>5. op \in O /\ op.id \in X
    BY <2>1
  <2> HIDE DEF b, e, op, X
  <2>6. Right(b, O, G, N) /\ Settled(b)
    BY <2>2 DEF TakesIn
  <2>7. TakesIn(b, O, G, N, {op.id}, e) /\ op.id \in Held(e)
    BY <2>3, <2>4, <2>5, <2>6, ApplyRemoteRight
  <2>8. TakesIn(d, O, G, N, X, e)
    <3>1. X \cup {op.id} \subseteq X
      BY <2>5
    <3> QED BY <3>1, <2>2, <2>7, TakesInTrans
  <2>9. \A i \in 1 .. (k + 1) : seq[i].id \in Held(e)
    <3>1. Held(b) \subseteq Held(e)
      BY <2>7 DEF TakesIn
    <3>2. \A i \in 1 .. (k + 1) : i \in 1 .. k \/ i = k + 1
      OBVIOUS
    <3> QED BY <3>1, <3>2, <2>2, <2>7 DEF op
  <2>10. ReplayRight(d, O, G, N, seq, k + 1, e)
    BY <2>8, <2>9 DEF ReplayRight, X
  <2> QED BY <2>10, <1>4 DEF e
<1> HIDE DEF S
<1>5. \A k \in 0 .. n : k \in S
  BY <1>1, <1>3, <1>4, Induction
<1>6. n \in S
  BY <1>1, <1>5
<1> QED BY <1>6 DEF S, Replay

-----------------------------------------------------------------------------
(* The generator after a restore.                                          *)

\* A bounded set of numbers has a greatest one.
LEMMA TopOf ==
    ASSUME NEW M \in Nat, NEW S \in SUBSET (0 .. M)
    PROVE  \E n \in S \cup {0} : \A k \in S : k <= n
<1> DEFINE U == {b \in Nat : \A k \in S : k <= b}
<1>1. M \in U
  OBVIOUS
<1>2. PICK b \in U : \A m \in U : b <= m
  BY <1>1, Least
<1>3. CASE b = 0
  BY <1>3
<1>4. CASE b # 0
  <2>1. b - 1 \in Nat /\ b - 1 \notin U
    BY <1>2, <1>4
  <2>2. PICK k \in S : ~(k <= b - 1)
    BY <2>1
  <2>3. k = b
    BY <2>2, <1>2
  <2> QED BY <2>3, <1>2
<1> QED BY <1>3, <1>4

\* What restoring the generator leaves: the contents, and counters past those of the log.
Restored(d, r, L, M, N, e) ==
    /\ e \in Doc /\ Like(d, e) /\ e.pending = d.pending /\ e.lamport <= N /\ e.next <= M + 1
    /\ d.next <= e.next
    /\ \A o \in L : (o.id[1] = r => o.id[2] < e.next) /\ o.lamport <= e.lamport

\* Restoring the allocation moves the counters only, past all the log shows.
LEMMA RestoreRight ==
    ASSUME NEW d \in Doc, NEW r, NEW L, L \subseteq Op, NEW M \in 0 .. MaxOps, NEW N \in Clock,
           d.next <= M + 1, d.lamport <= N,
           \A o \in L : o.lamport < N /\ o.id[2] <= M
    PROVE  Restored(d, r, L, M, N, RestoreAllocation(d, r, L))
<1> DEFINE own == {o.id[2] : o \in {p \in L : p.id[1] = r}}
           lams == {o.lamport : o \in L}
           top(S) == CHOOSE n \in S \cup {0} : \A k \in S : k <= n
           next == top(own) + 1
           lam == top(lams) + 1
           newNext == IF next > d.next THEN next ELSE d.next
           newLam == IF lam > d.lamport THEN lam ELSE d.lamport
           e == RestoreAllocation(d, r, L)
<1>0. /\ d.next \in 1 .. (MaxOps + 1) /\ d.lamport \in Nat /\ M \in Nat /\ N \in Nat /\ MaxOps \in Nat
      /\ M <= MaxOps /\ N <= 3 * MaxOps
  BY MaxOpsAssumption DEF Doc, Clock
<1>1. CASE L = {}
  <2>1. e = d
    BY <1>1 DEF RestoreAllocation
  <2> HIDE DEF e
  <2>2. Restored(d, r, L, M, N, e)
    BY <1>0, <1>1, <2>1 DEF Restored, Like
  <2> QED BY <2>2 DEF e
<1>2. CASE L # {}
  <2>1. own \in SUBSET (0 .. M) /\ lams \in SUBSET (0 .. N)
    BY <1>0, OpType
  <2>2. /\ top(own) \in own \cup {0} /\ \A k \in own : k <= top(own)
        /\ top(lams) \in lams \cup {0} /\ \A k \in lams : k <= top(lams)
    BY <2>1, <1>0, TopOf
  <2>3. \A k \in lams : k < N /\ k >= 0
    BY <1>0, OpType
  <2>4. lams # {}
    BY <1>2
  <2>5. e = [d EXCEPT !.next = newNext, !.lamport = newLam]
    BY <1>2 DEF RestoreAllocation
  <2>6. /\ \A o \in L : o.id[1] = r => o.id[2] \in own
        /\ \A o \in L : o.lamport \in lams /\ o.lamport \in Nat /\ o.id[2] \in Nat
    BY OpType
  <2> DEFINE a == top(own)
             b == top(lams)
  <2>7. /\ a \in 0 .. M /\ \A k \in own : k <= a
        /\ b \in 0 .. N /\ b < N /\ \A k \in lams : k <= b
    <3>0. a \in own \cup {0} /\ (\A k \in own : k <= a) /\ b \in lams \cup {0} /\ (\A k \in lams : k <= b)
      BY <2>2
    <3> HIDE DEF a, b, own, lams, top
    <3>1. b < N /\ b \in Nat
      <4>1. PICK k \in lams : k < N /\ k >= 0
        BY <2>3, <2>4
      <4>2. k \in Nat /\ b \in Nat
        BY <2>1, <3>0, <4>1, <1>0
      <4> QED BY <3>0, <4>1, <4>2, <2>3, <1>0
    <3>2. a \in 0 .. M
      BY <2>1, <3>0, <1>0
    <3> QED BY <3>0, <3>1, <3>2, <1>0
  <2>8. next = a + 1 /\ lam = b + 1
    OBVIOUS
  <2> HIDE DEF a, b, own, lams, next, lam, top
  <2>9. /\ newNext \in 1 .. (MaxOps + 1) /\ newNext <= M + 1 /\ newNext >= d.next
        /\ \A k \in own : k \in Nat => k < newNext
    BY <2>7, <2>8, <1>0
  <2>10. /\ newLam \in Clock /\ newLam <= N /\ newLam >= d.lamport
         /\ \A k \in lams : k \in Nat => k <= newLam
    BY <2>7, <2>8, <1>0 DEF Clock
  <2> HIDE DEF newNext, newLam
  <2>11. /\ e \in Doc /\ e.next = newNext /\ e.lamport = newLam /\ e.pending = d.pending
         /\ e.order = d.order /\ e.tomb = d.tomb /\ e.reg = d.reg /\ e.applied = d.applied
         /\ e.contig = d.contig /\ e.gaps = d.gaps
    BY <2>5, <2>9, <2>10 DEF Doc
  <2> HIDE DEF e
  <2>12. Like(d, e)
    BY <2>10, <2>11 DEF Like
  <2>13. \A o \in L : (o.id[1] = r => o.id[2] < e.next) /\ o.lamport <= e.lamport
    BY <2>6, <2>9, <2>10, <2>11
  <2>14. Restored(d, r, L, M, N, e)
    BY <2>9, <2>10, <2>11, <2>12, <2>13 DEF Restored
  <2> QED BY <2>14 DEF e
<1> QED BY <1>1, <1>2

-----------------------------------------------------------------------------
(* The invariant of the engines, for every number of frames in a request.   *)

\* More than any clock so far.
Top == 3 * Cardinality(ops)

\* What the invariant says of one engine.
EngineRight(d, O, G, N) == Right(d, O, G, N) /\ Settled(d)

\* The invariant in the words of the lemmas.
LEMMA InvGood ==
    ASSUME CrdtInv, NEW G, \A g \in G : Canonical(g, ops)
    PROVE  Good(ops, G, Top) /\ Top \in Clock /\ Top \in Nat
<1>1. IsFiniteSet(ops) /\ Cardinality(ops) <= MaxOps /\ ops \subseteq Op
  BY DEF CrdtInv, TypeOK
<1>2. Cardinality(ops) \in Nat
  BY <1>1, FS_CardinalityType
<1>3. Top \in Clock /\ Top \in Nat
  BY <1>1, <1>2, MaxOpsAssumption DEF Clock, Top
<1>4. \A o \in ops : o.lamport \in Nat /\ o.lamport >= 1 /\ o.lamport < Top
  BY <1>1, OpType DEF CrdtInv, OpsInv, Top
<1>5. Distinct(ops)
  BY <1>1 DEF CrdtInv, OpsInv, IdsUnique, Distinct
<1> QED BY <1>3, <1>4, <1>5 DEF Good

\* Every engine of the invariant, current or stored, is right in all orders that it
\* follows.
LEMMA InvEngine ==
    ASSUME CrdtInv, NEW G, NEW r \in Replicas, NEW d \in {doc[r], saved[r]}, \A g \in G : Follows(d, g)
    PROVE  EngineRight(d, ops, G, Top) /\ d.next <= Cardinality(ops) + 1 /\ d \in Doc
<1>1. d \in Doc
  BY DEF CrdtInv, TypeOK
<1>2. Sound(d, ops) /\ Settled(d)
  BY DEF CrdtInv, EngineInv
<1>3. d.next <= Cardinality(ops) + 1 /\ d.lamport <= Top
  BY DEF CrdtInv, OwnInv, Top
<1> QED BY <1>1, <1>2, <1>3 DEF EngineRight, Right

\* The empty document is right.
LEMMA EmptyRight ==
    EmptyDoc \in Doc /\ Sound(EmptyDoc, {}) /\ Settled(EmptyDoc)
<1> DEFINE d == EmptyDoc
<1>1. /\ d.order = <<>> /\ d.tomb = {} /\ d.reg = [i \in Ids |-> Unset] /\ d.applied = {} /\ d.pending = <<>>
      /\ d.next = 1 /\ d.lamport = 0 /\ d.contig = [r \in Replicas |-> 0] /\ d.gaps = [r \in Replicas |-> {}]
  BY DEF EmptyDoc
<1>2. d = [order |-> d.order, tomb |-> d.tomb, reg |-> d.reg, applied |-> d.applied, pending |-> d.pending,
           next |-> d.next, lamport |-> d.lamport, contig |-> d.contig, gaps |-> d.gaps]
  BY DEF EmptyDoc
<1> HIDE DEF d
<1>3. /\ d.order \in Seq([id : Ids, left : Ids \cup {None}]) /\ d.pending \in Seq(Op)
  BY <1>1
<1>4. /\ d.tomb \in SUBSET Ids /\ d.applied \in SUBSET Ids /\ d.next \in 1 .. (MaxOps + 1) /\ d.lamport \in Clock
  BY <1>1, MaxOpsAssumption DEF Clock
<1>5. d.reg \in [Ids -> Stamp]
  BY <1>1, MaxOpsAssumption DEF Unset, Stamp, Clock
<1>6. d.contig \in [Replicas -> 0 .. MaxOps] /\ d.gaps \in [Replicas -> SUBSET (1 .. MaxOps)]
  BY <1>1, MaxOpsAssumption
<1>7. d \in Doc
  BY <1>2, <1>3, <1>4, <1>5, <1>6 DEF Doc
<1>8. Settled(d)
  BY <1>1 DEF Settled
<1>9. Items(d) = {} /\ StreamRight(d, {})
  BY <1>1 DEF Items, StreamRight, Inserted
<1>10. RegistersRight(d, {})
  BY <1>1 DEF RegistersRight
<1>11. SummaryRight(d)
  BY <1>1 DEF SummaryRight
<1>12. Sound(d, {})
  BY <1>1, <1>9, <1>10, <1>11 DEF Sound
<1> QED BY <1>7, <1>8, <1>12 DEF d

\* A fresh operation changes nothing in what an engine holds.
LEMMA SoundGrows ==
    ASSUME NEW O, NEW d, Sound(d, O), NEW op, \A o \in O : o.id # op.id
    PROVE  Sound(d, O \cup {op})
<1>1. op.id \notin d.applied
  BY DEF Sound
<1>2. \A o \in O \cup {op} : o.id \in d.applied => o \in O
  BY <1>1
<1>3. {o \in O \cup {op} : o.id \in d.applied} = {o \in O : o.id \in d.applied}
  BY <1>2
<1>4. StreamRight(d, O \cup {op})
  <2>1. StreamRight(d, O)
    BY DEF Sound
  <2>2. op.id \notin Items(d)
    BY <1>1, <2>1, NewItem
  <2>3. \A i \in DOMAIN d.order : op.id # d.order[i].id
    BY <2>2 DEF Items
  <2> QED BY <1>3, <2>1, <2>3 DEF StreamRight
<1>5. RegistersRight(d, O \cup {op})
  <2>1. \A item \in Ids : WritesOf(d, O \cup {op}, item) = WritesOf(d, O, item)
    BY <1>2 DEF WritesOf
  <2>2. RegistersRight(d, O)
    BY DEF Sound
  <2> QED BY <2>1, <2>2, RegistersAre DEF RegisterRight
<1>6. d.tomb = {o.target : o \in {p \in O \cup {op} : p.type = "delete" /\ p.id \in d.applied}}
  <2>1. {p \in O \cup {op} : p.type = "delete" /\ p.id \in d.applied} = {p \in O : p.type = "delete" /\ p.id \in d.applied}
    BY <1>2
  <2> QED BY <2>1 DEF Sound
<1>7. \A o \in O \cup {op} : o.id \in d.applied => Ready(d, o) /\ o.lamport <= d.lamport
  BY <1>2 DEF Sound
<1>8. /\ d.applied \subseteq {o.id : o \in O \cup {op}}
      /\ \A i \in DOMAIN d.pending : d.pending[i] \in O \cup {op}
      /\ SummaryRight(d)
  BY DEF Sound
<1> QED BY <1>4, <1>5, <1>6, <1>7, <1>8 DEF Sound

-----------------------------------------------------------------------------
(* A local operation.                                                      *)

\* The operation an engine makes.
Made(r, op) ==
    /\ op \in Op /\ op.id = <<r, doc[r].next>> /\ op.lamport = doc[r].lamport + 1
    /\ Needs(op) \subseteq Items(doc[r]) /\ Ready(doc[r], op)

\* The operation allocate begins with.
LEMMA AllocateIs ==
    ASSUME CrdtInv, NEW r \in Replicas, Cardinality(ops) < MaxOps, NEW type \in {"insert", "delete", "setattr"}
    PROVE  Allocate(r, type) \in Op
<1>1. doc[r] \in Doc /\ doc[r].next <= Cardinality(ops) + 1 /\ doc[r].lamport <= Top /\ Cardinality(ops) \in Nat
  BY InvEngine, FS_CardinalityType DEF CrdtInv, OwnInv, TypeOK, Top
<1>2. doc[r].next \in 1 .. (MaxOps + 1) /\ doc[r].lamport \in 0 .. (3 * MaxOps) /\ MaxOps \in Nat
  BY <1>1, MaxOpsAssumption DEF Doc, Clock
<1>3. doc[r].next \in 1 .. MaxOps /\ doc[r].lamport + 1 \in 0 .. (3 * MaxOps)
  BY <1>1, <1>2 DEF Top
<1> QED BY <1>3 DEF Allocate, Op, Ids, Clock

\* A local insert is made between two neighbours of its author's stream.
LEMMA MakesInsert ==
    ASSUME CrdtInv, NEW r \in Replicas, NEW i \in 0 .. MaxOps, NEW init \in BOOLEAN, LocalInsert(r, i, init)
    PROVE  \E op : Made(r, op) /\ op.type = "insert" /\ Generate(r, op)
                   /\ i <= Len(doc[r].order)
                   /\ op.left = (IF i \in DOMAIN doc[r].order THEN doc[r].order[i].id ELSE None)
                   /\ op.right = (IF i + 1 \in DOMAIN doc[r].order THEN doc[r].order[i + 1].id ELSE None)
<1> DEFINE at(k) == IF k \in DOMAIN doc[r].order THEN doc[r].order[k].id ELSE None
           a == Allocate(r, "insert")
           op == [a EXCEPT !.left = at(i), !.right = at(i + 1), !.init = init]
<1>1. Generate(r, op) /\ i <= Len(doc[r].order) /\ Cardinality(ops) < MaxOps
  BY DEF LocalInsert, Generate
<1>2. a \in Op
  BY <1>1, AllocateIs
<1>3. doc[r] \in Doc
  BY DEF CrdtInv, TypeOK
<1>4. \A k : at(k) \in Items(doc[r]) \cup {None} /\ at(k) \in Ids \cup {None}
  BY <1>3, StreamType DEF Items
<1>5. /\ a.type = "insert" /\ a.id = <<r, doc[r].next>> /\ a.lamport = doc[r].lamport + 1
  BY DEF Allocate
<1> DEFINE l == at(i)
           t == at(i + 1)
<1>6. l \in Items(doc[r]) \cup {None} /\ t \in Items(doc[r]) \cup {None} /\ l \in Ids \cup {None} /\ t \in Ids \cup {None}
  BY <1>4
<1> HIDE DEF a, l, t, at
<1>7. op = [a EXCEPT !.left = l, !.right = t, !.init = init]
  BY DEF l, t
<1> HIDE DEF op
<1>8. /\ op \in Op /\ op.left = l /\ op.right = t /\ op.type = a.type /\ op.id = a.id /\ op.lamport = a.lamport
  BY <1>2, <1>6, <1>7 DEF Op
<1>9. Made(r, op)
  BY <1>5, <1>6, <1>8 DEF Made, Needs, Ready
<1> QED BY <1>1, <1>5, <1>8, <1>9 DEF l, t, at

\* A local delete or attribute write is of an item in its author's stream.
LEMMA MakesOther ==
    ASSUME CrdtInv, NEW r \in Replicas, NEW i \in 1 .. MaxOps, LocalDelete(r, i) \/ LocalSetAttr(r, i)
    PROVE  \E op : Made(r, op) /\ op.type # "insert" /\ Generate(r, op)
<1>0. doc[r] \in Doc
  BY DEF CrdtInv, TypeOK
<1>1. PICK type \in {"delete", "setattr"} :
          /\ Generate(r, [Allocate(r, type) EXCEPT !.target = doc[r].order[i].id])
          /\ i \in DOMAIN doc[r].order
  BY DEF LocalDelete, LocalSetAttr
<1> DEFINE a == Allocate(r, type)
           x == doc[r].order[i].id
           op == [a EXCEPT !.target = x]
<1>2. x \in Items(doc[r]) /\ x \in Ids
  BY <1>0, <1>1, StreamType DEF Items
<1>3. a \in Op
  BY <1>1, AllocateIs DEF Generate
<1>4. /\ a.type = type /\ a.id = <<r, doc[r].next>> /\ a.lamport = doc[r].lamport + 1
  BY DEF Allocate
<1> HIDE DEF a, x
<1>5. op \in Op /\ op.target = x /\ op.type = a.type /\ op.id = a.id /\ op.lamport = a.lamport
  BY <1>2, <1>3 DEF Op
<1>6. Generate(r, op)
  BY <1>1 DEF a, x
<1> HIDE DEF op
<1>7. Made(r, op)
  BY <1>2, <1>4, <1>5 DEF Made, Needs, Ready
<1> QED BY <1>4, <1>5, <1>6, <1>7

\* The operations after a local one.
Grown(op) == ops \cup {op}

Numbers == Cardinality(ops) \in Nat /\ MaxOps \in Nat /\ Cardinality(ops) <= MaxOps

\* No operation so far has the id or the stamp of the one that is made.
LEMMA MadeFresh ==
    ASSUME CrdtInv, NEW r \in Replicas, NEW op, Made(r, op)
    PROVE  /\ \A o \in ops : o.id # op.id /\ StampOf(o) # StampOf(op)
           /\ op \notin ops /\ IsFiniteSet(Grown(op)) /\ Cardinality(Grown(op)) = Cardinality(ops) + 1
           /\ Numbers
           /\ doc[r].lamport \in Nat /\ doc[r].next \in Nat
           /\ op.lamport = doc[r].lamport + 1 /\ doc[r].lamport <= Top
           /\ op.id[1] = r /\ op.id[2] = doc[r].next /\ doc[r].next <= Cardinality(ops) + 1
<1>1. doc[r] \in Doc /\ ops \subseteq Op /\ IsFiniteSet(ops) /\ Cardinality(ops) <= MaxOps
  BY DEF CrdtInv, TypeOK
<1>2. doc[r].lamport \in Nat /\ doc[r].next \in Nat
  <2>1. doc[r].lamport \in Nat
    BY <1>1, KeptSelf
  <2>2. doc[r].next \in 1 .. (MaxOps + 1)
    BY <1>1 DEF Doc
  <2> QED BY <2>1, <2>2, MaxOpsAssumption
<1>3. /\ op.id = <<r, doc[r].next>> /\ op.lamport = doc[r].lamport + 1
      /\ op.id[1] = r /\ op.id[2] = doc[r].next
  BY DEF Made
<1>4. \A o \in ops : o.id[1] = r => o.id[2] < doc[r].next /\ o.lamport <= doc[r].lamport
  BY DEF CrdtInv, OwnInv
<1>5. ASSUME NEW o \in ops PROVE o.id # op.id /\ StampOf(o) # StampOf(op)
  <2>1. o.id[2] \in Nat /\ o.lamport \in Nat
    BY <1>1, OpType
  <2>2. CASE o.id[1] = r
    <3>1. o.id[2] # op.id[2] /\ o.lamport # op.lamport
      BY <2>1, <2>2, <1>2, <1>3, <1>4
    <3> QED BY <3>1 DEF StampOf
  <2>3. CASE o.id[1] # r
    BY <2>3, <1>3 DEF StampOf
  <2> QED BY <2>2, <2>3
<1>6. op \notin ops
  BY <1>5
<1>7. IsFiniteSet(Grown(op)) /\ Cardinality(Grown(op)) = Cardinality(ops) + 1
  BY <1>1, <1>6, FS_AddElement DEF Grown
<1>8. Numbers
  BY <1>1, FS_CardinalityType, MaxOpsAssumption DEF Numbers
<1>9. doc[r].lamport <= Top /\ doc[r].next <= Cardinality(ops) + 1
  BY DEF CrdtInv, OwnInv, Top
<1> QED BY <1>2, <1>3, <1>5, <1>6, <1>7, <1>8, <1>9

\* A local operation is as good as the others.
LEMMA GrownGood ==
    ASSUME CrdtInv, NEW r \in Replicas, NEW op, Made(r, op), Cardinality(ops) < MaxOps,
           NEW G, \A g \in G : Canonical(g, Grown(op))
    PROVE  Good(Grown(op), G, Top + 3) /\ Top \in Nat
<1>1. /\ \A o \in ops : o.id # op.id /\ StampOf(o) # StampOf(op)
      /\ doc[r].lamport \in Nat /\ op.lamport = doc[r].lamport + 1 /\ doc[r].lamport <= Top
  BY MadeFresh
<1>2. Good(ops, {}, Top) /\ Top \in Nat
  BY InvGood
<1>3. op \in Op
  BY DEF Made
<1>4. Distinct(Grown(op))
  <2>1. Distinct(ops)
    BY <1>2 DEF Good
  <2> QED BY <1>1, <1>3, <2>1 DEF Distinct, Grown
<1>5. \A o \in Grown(op) : o.lamport >= 1 /\ o.lamport <= Top + 3
  <2> SUFFICES ASSUME NEW o \in Grown(op) PROVE o.lamport >= 1 /\ o.lamport <= Top + 3
    OBVIOUS
  <2>1. CASE o = op
    BY <2>1, <1>1, <1>2
  <2>2. CASE o \in ops
    <3>1. o.lamport >= 1 /\ o.lamport <= Top /\ o \in Op
      BY <1>2, <2>2 DEF Good, Distinct
    <3> QED BY <3>1, <1>2, OpType
  <2> QED BY <2>1, <2>2 DEF Grown
<1> QED BY <1>2, <1>4, <1>5 DEF Good

\* The operations stay told apart, and younger than what they refer to.
LEMMA OpsGrow ==
    ASSUME CrdtInv, NEW r \in Replicas, NEW op, Made(r, op), Cardinality(ops) < MaxOps, ops' = ops \cup {op}
    PROVE  OpsInv'
<1> DEFINE n == Cardinality(ops)
<1>0. ops' = Grown(op)
  BY DEF Grown
<1>1. /\ \A o \in ops : o.id # op.id /\ StampOf(o) # StampOf(op)
      /\ Cardinality(Grown(op)) = n + 1 /\ n \in Nat
      /\ doc[r].lamport \in Nat /\ doc[r].next \in Nat
      /\ op.lamport = doc[r].lamport + 1 /\ doc[r].lamport <= 3 * n
      /\ op.id[2] = doc[r].next /\ doc[r].next <= n + 1
  BY MadeFresh DEF Numbers, Top
<1>2. Cardinality(ops') = n + 1
  BY <1>0, <1>1
<1> HIDE DEF n
<1>3. /\ \A o, p \in ops : o.id = p.id => o = p
      /\ \A o, p \in ops : StampOf(o) = StampOf(p) => o = p
      /\ \A o \in ops : /\ o.lamport >= 1 /\ o.lamport < 3 * n
                        /\ o.id[2] <= n
      /\ \A o \in ops : \A x \in Needs(o) :
             \E p \in ops : p.type = "insert" /\ p.id = x /\ p.lamport < o.lamport
  BY DEF CrdtInv, OpsInv, IdsUnique, n
<1>4. /\ \A o, p \in ops' : o.id = p.id => o = p
      /\ \A o, p \in ops' : StampOf(o) = StampOf(p) => o = p
  BY <1>1, <1>3
<1>5. ASSUME NEW o \in ops' PROVE o.lamport >= 1 /\ o.lamport < 3 * (n + 1) /\ o.id[2] <= n + 1
  <2>1. CASE o = op
    BY <2>1, <1>1
  <2>2. CASE o \in ops
    <3>1. o.lamport \in Nat /\ o.id[2] \in Nat
      BY <2>2, OpType DEF CrdtInv, TypeOK
    <3> QED BY <3>1, <2>2, <1>1, <1>3
  <2> QED BY <2>1, <2>2
<1>6. ASSUME NEW o \in ops', NEW x \in Needs(o)
      PROVE  \E p \in ops' : p.type = "insert" /\ p.id = x /\ p.lamport < o.lamport
  <2>1. CASE o \in ops
    BY <2>1, <1>3
  <2>2. CASE o = op
    <3>1. Sound(doc[r], ops) /\ ops \subseteq Op
      BY DEF CrdtInv, EngineInv, TypeOK
    <3>2. x \in Items(doc[r])
      BY <2>2 DEF Made
    <3>3. PICK p \in ops : p.type = "insert" /\ p.id = x /\ p.id \in doc[r].applied
      BY <3>1, <3>2 DEF Sound, StreamRight, Inserted
    <3>4. p.lamport <= doc[r].lamport /\ p.lamport \in Nat
      BY <3>1, <3>3, OpType DEF Sound
    <3>5. p.lamport < o.lamport
      BY <3>4, <2>2, <1>1
    <3> QED BY <3>3, <3>5
  <2> QED BY <2>1, <2>2
<1>7. IdsUnique'
  BY <1>4 DEF IdsUnique
<1>8. \A o, p \in ops' : StampOf(o)' = StampOf(p)' => o = p
  BY <1>4 DEF StampOf
<1>9. \A o \in ops' : Needs(o)' = Needs(o)
  BY DEF Needs
<1> QED BY <1>2, <1>5, <1>6, <1>7, <1>8, <1>9 DEF OpsInv

\* The engine that made an operation has integrated it.
Generated(r, op, G, e) ==
    /\ Right(e, Grown(op), G, Top + 3) /\ Settled(e)
    /\ e.next = doc[r].next + 1 /\ op.id \in e.applied
    /\ doc[r].applied \subseteq e.applied /\ Items(doc[r]) \subseteq Items(e)
    /\ Held(e) = Held(doc[r]) \cup {op.id}
    /\ e.lamport \in Nat /\ doc[r].lamport <= e.lamport /\ op.lamport <= e.lamport

Ticked(d, op, f) == f = Tick(d, op)

\* The generator that moves on leaves the document alone.
LEMMA TickedIs ==
    ASSUME NEW d \in Doc, NEW op \in Op, d.next <= MaxOps, NEW f, Ticked(d, op, f)
    PROVE  /\ f \in Doc /\ f.next = d.next + 1 /\ f.lamport = op.lamport
           /\ f.order = d.order /\ f.tomb = d.tomb /\ f.reg = d.reg /\ f.applied = d.applied
           /\ f.contig = d.contig /\ f.gaps = d.gaps /\ f.pending = d.pending
<1>1. d.next + 1 \in 1 .. (MaxOps + 1) /\ op.lamport \in Clock
  <2>1. d.next \in 1 .. (MaxOps + 1)
    BY DEF Doc
  <2> QED BY <2>1, MaxOpsAssumption, OpType
<1> DEFINE a == d.next + 1
           b == op.lamport
<1>2. f = [d EXCEPT !.next = a, !.lamport = b] /\ a \in 1 .. (MaxOps + 1) /\ b \in Clock
  BY <1>1 DEF Ticked, Tick
<1> HIDE DEF a, b
<1>3. /\ f \in Doc /\ f.next = a /\ f.lamport = b
      /\ f.order = d.order /\ f.tomb = d.tomb /\ f.reg = d.reg /\ f.applied = d.applied
      /\ f.contig = d.contig /\ f.gaps = d.gaps /\ f.pending = d.pending
  BY <1>2 DEF Doc
<1> QED BY <1>3 DEF a, b

\* The engine that integrates its own operation is right about all of them.
LEMMA GeneratedRight ==
    ASSUME CrdtInv, NEW r \in Replicas, NEW op, Made(r, op), Cardinality(ops) < MaxOps,
           NEW G, \A g \in G : Canonical(g, Grown(op)) /\ Follows(doc[r], g),
           NEW f, Ticked(doc[r], op, f)
    PROVE  Generated(r, op, G, RetryPending(Place(f, op)))
<1> DEFINE d == doc[r]
           O == Grown(op)
           N == Top + 3
           b == Place(f, op)
           e == RetryPending(b)
<1>1. d \in Doc /\ Sound(d, ops) /\ d.next <= Cardinality(ops) + 1 /\ op \in Op /\ Ready(d, op)
  BY DEF CrdtInv, TypeOK, EngineInv, OwnInv, Made
<1>2. Good(O, G, N) /\ Top \in Nat
  BY GrownGood
<1>3. /\ \A o \in ops : o.id # op.id
      /\ d.lamport \in Nat /\ op.lamport = d.lamport + 1 /\ d.lamport <= Top /\ d.next \in Nat /\ Numbers
  BY MadeFresh
<1>4. Sound(d, O)
  BY <1>1, <1>3, SoundGrows DEF Grown
<1>5. d.next <= MaxOps
  BY <1>1, <1>3 DEF Numbers
<1>6. /\ f \in Doc /\ f.next = d.next + 1 /\ f.lamport = op.lamport
      /\ f.order = d.order /\ f.tomb = d.tomb /\ f.reg = d.reg /\ f.applied = d.applied
      /\ f.contig = d.contig /\ f.gaps = d.gaps /\ f.pending = d.pending
  BY <1>1, <1>5, TickedIs
<1> HIDE DEF d, O, N, b, e
<1>7. Right(d, O, G, N)
  <2>1. d.lamport <= N
    BY <1>2, <1>3 DEF N
  <2>2. \A g \in G : Follows(d, g)
    BY DEF d
  <2> QED BY <1>1, <1>4, <2>1, <2>2 DEF Right
<1>8. Right(f, O, G, N) /\ Items(f) = Items(d) /\ SameReady(d, f)
  <2>1. Like(d, f)
    <3>1. d.lamport <= f.lamport
      BY <1>3, <1>6
    <3> QED BY <3>1, <1>6 DEF Like
  <2>2. f.lamport <= N
    BY <1>2, <1>3, <1>6 DEF N
  <2>3. \A i \in DOMAIN f.pending : f.pending[i] \in O
    BY <1>4, <1>6 DEF Sound
  <2>4. O \subseteq Op /\ f \in Doc
    BY <1>2, <1>6 DEF Good, Distinct
  <2> QED BY <1>7, <2>1, <2>2, <2>3, <2>4, RightBut
<1>9. Ready(f, op) /\ op.id \notin f.applied /\ op \in O
  <2>1. op.id \notin d.applied
    BY <1>1, <1>3 DEF Sound
  <2> QED BY <2>1, <1>1, <1>6, <1>8 DEF SameReady, O, Grown
<1>10. Right(b, O, G, N) /\ Kept(f, b) /\ b.pending = f.pending /\ b.applied = f.applied \cup {op.id}
  BY <1>2, <1>8, <1>9, PlaceRight DEF b
<1>11. RetryLeaves(b, O, G, N, e)
  BY <1>2, <1>10, RetryPendingRight DEF e
<1>12. Right(e, O, G, N) /\ Kept(b, e) /\ Held(e) = Held(b) /\ Settled(e)
  BY <1>11 DEF RetryLeaves
<1>13. Kept(f, e)
  BY <1>10, <1>12, KeptTrans
<1>14. op.id \in e.applied /\ Items(d) \subseteq Items(e) /\ d.applied \subseteq e.applied /\ e.next = d.next + 1
  BY <1>6, <1>8, <1>10, <1>12, <1>13 DEF Kept
<1>15. e.lamport \in Nat /\ op.lamport <= e.lamport /\ d.lamport <= e.lamport
  BY <1>3, <1>6, <1>13 DEF Kept
<1>16. Held(e) = Held(d) \cup {op.id}
  <2>1. b.pending = d.pending /\ b.applied = d.applied \cup {op.id}
    BY <1>6, <1>10
  <2>2. Held(b) = Held(d) \cup {op.id}
    BY <2>1 DEF Held
  <2> QED BY <2>2, <1>12
<1>17. Generated(r, op, G, e)
  BY <1>12, <1>14, <1>15, <1>16 DEF Generated, d, O, N
<1> QED BY <1>17 DEF e, b

\* A local operation keeps the invariant.
LEMMA GenerateInv ==
    ASSUME CrdtInv, NEW r \in Replicas, NEW op, Made(r, op), Generate(r, op)
    PROVE  CrdtInv'
<1> DEFINE n == Cardinality(ops)
<1>1. /\ n < MaxOps /\ ops' = ops \cup {op} /\ saved' = saved /\ log' = [log EXCEPT ![r] = @ \cup {op}]
  BY DEF Generate
<1>2. PICK f : Ticked(doc[r], op, f) /\ doc' = [doc EXCEPT ![r] = RetryPending(Place(f, op))]
  BY DEF Generate, Ticked
<1>3. PICK e : e = RetryPending(Place(f, op))
  OBVIOUS
<1>4. doc' = [doc EXCEPT ![r] = e]
  BY <1>2, <1>3
<1>5. Generated(r, op, {}, e)
  <2>1. \A g \in {} : Canonical(g, Grown(op)) /\ Follows(doc[r], g)
    OBVIOUS
  <2> QED BY <1>1, <1>2, <1>3, <2>1, GeneratedRight
<1>6. ops' = Grown(op)
  BY <1>1 DEF Grown
<1>7. Right(e, Grown(op), {}, Top + 3) /\ Settled(e) /\ e.next = doc[r].next + 1
      /\ e.lamport \in Nat /\ doc[r].lamport <= e.lamport /\ op.lamport <= e.lamport
  BY <1>5 DEF Generated
<1>8. /\ \A o \in ops : o.id # op.id
      /\ IsFiniteSet(Grown(op)) /\ Cardinality(Grown(op)) = n + 1 /\ Numbers /\ n \in Nat
      /\ doc[r].lamport \in Nat /\ doc[r].next \in Nat
      /\ op.id[1] = r /\ op.id[2] = doc[r].next /\ doc[r].next <= n + 1
  BY MadeFresh DEF Numbers
<1>9. e \in Doc /\ Sound(e, ops') /\ e.lamport <= 3 * (n + 1)
  <2>1. e \in Doc /\ Sound(e, ops') /\ e.lamport <= Top + 3
    BY <1>6, <1>7 DEF Right
  <2> QED BY <2>1, <1>7, <1>8 DEF Top
<1>10. OpsInv'
  BY <1>1, OpsGrow
<1> DEFINE d(s) == doc[s]
<1>11. /\ doc \in [Replicas -> Doc] /\ saved \in [Replicas -> Doc] /\ log \in [Replicas -> SUBSET ops] /\ ops \subseteq Op
       /\ op \in Op
  BY DEF CrdtInv, TypeOK, Made
<1>12. TypeOK'
  <2>1. doc' \in [Replicas -> Doc] /\ saved' \in [Replicas -> Doc] /\ log' \in [Replicas -> SUBSET ops'] /\ ops' \subseteq Op
    BY <1>1, <1>4, <1>9, <1>11
  <2>2. IsFiniteSet(ops') /\ Cardinality(ops') <= MaxOps
    <3>1. n + 1 <= MaxOps
      BY <1>1, <1>8, MaxOpsAssumption
    <3> QED BY <3>1, <1>6, <1>8
  <2> QED BY <2>1, <2>2 DEF TypeOK
<1>13. Cardinality(ops') = n + 1
  BY <1>6, <1>8
<1>14. \A s \in Replicas : doc'[s] = IF s = r THEN e ELSE doc[s]
  BY <1>4, <1>11
<1>15. \A s \in Replicas : log'[s] = IF s = r THEN log[s] \cup {op} ELSE log[s]
  BY <1>1, <1>11
<1>16. ASSUME NEW s \in Replicas
       PROVE  /\ \A c \in {doc'[s], saved'[s]} : c.next <= Cardinality(ops') + 1 /\ c.lamport <= 3 * Cardinality(ops')
              /\ \A o \in ops' : o.id[1] = s => /\ o \in log'[s]
                                                /\ o.id[2] < doc'[s].next /\ o.lamport <= doc'[s].lamport
  <2>1. \A c \in {doc[s], saved[s]} : c.next <= n + 1 /\ c.lamport <= 3 * n /\ c.next \in Nat /\ c.lamport \in Nat
    <3>1. \A c \in {doc[s], saved[s]} : c.next <= n + 1 /\ c.lamport <= 3 * n
      BY DEF CrdtInv, OwnInv
    <3>2. \A c \in {doc[s], saved[s]} : c \in Doc
      BY <1>11
    <3>3. \A c \in Doc : c.next \in 1 .. (MaxOps + 1)
      BY DEF Doc
    <3> QED BY <3>1, <3>2, <3>3, KeptSelf, MaxOpsAssumption
  <2>2. e.next <= n + 2 /\ e.lamport <= 3 * (n + 1)
    BY <1>7, <1>8, <1>9
  <2>3. \A c \in {doc'[s], saved'[s]} : c.next <= n + 2 /\ c.lamport <= 3 * (n + 1)
    BY <1>1, <1>8, <1>14, <2>1, <2>2
  <2>4. ASSUME NEW o \in ops', o.id[1] = s
        PROVE  o \in log'[s] /\ o.id[2] < doc'[s].next /\ o.lamport <= doc'[s].lamport
    <3>1. CASE o = op
      <4>1. s = r
        BY <3>1, <2>4, <1>8
      <4>2. op.id[2] < e.next /\ op.lamport <= e.lamport
        BY <1>7, <1>8
      <4>3. doc'[s] = e /\ op \in log'[s]
        BY <4>1, <1>14, <1>15
      <4> QED BY <3>1, <4>2, <4>3
    <3>2. CASE o \in ops
      <4>1. o \in log[s] /\ o.id[2] < doc[s].next /\ o.lamport <= doc[s].lamport
        BY <3>2, <2>4 DEF CrdtInv, OwnInv
      <4>2. o.id[2] \in Nat /\ o.lamport \in Nat
        BY <3>2, <1>11, OpType
      <4>3. o \in log'[s]
        BY <4>1, <1>15
      <4>4. doc[s].next \in Nat /\ doc[s].lamport \in Nat
        BY <2>1
      <4>5. o.id[2] < doc'[s].next /\ o.lamport <= doc'[s].lamport
        <5>1. CASE s = r
          <6>1. o.id[2] < e.next /\ o.lamport <= e.lamport
            BY <5>1, <4>1, <4>2, <4>4, <1>7
          <6> QED BY <5>1, <6>1, <1>14
        <5>2. CASE s # r
          BY <5>2, <4>1, <1>14
        <5> QED BY <5>1, <5>2
      <4> QED BY <4>3, <4>5
    <3> QED BY <3>1, <3>2, <1>1
  <2> QED BY <2>3, <2>4, <1>8, <1>13
<1>17. OwnInv'
  BY <1>16 DEF OwnInv
<1>18. ASSUME NEW s \in Replicas, NEW c \in {doc'[s], saved'[s]} PROVE Sound(c, ops') /\ Settled(c)
  <2>1. CASE c = e
    BY <2>1, <1>7, <1>9
  <2>2. CASE c \in {doc[s], saved[s]}
    <3>1. Sound(c, ops) /\ Settled(c)
      BY <2>2 DEF CrdtInv, EngineInv
    <3> QED BY <3>1, <1>1, <1>8, SoundGrows
  <2> QED BY <2>1, <2>2, <1>1, <1>14, <1>18
<1>19. EngineInv'
  <2>1. \A s \in Replicas : \A c \in {doc'[s], saved'[s]} : Sound(c, ops)' /\ Settled(c)'
    <3>1. \A s \in Replicas : \A c \in {doc'[s], saved'[s]} : Sound(c, ops') /\ Settled(c)
      BY <1>18
    <3> QED BY <3>1 DEF Sound, Settled, StreamRight, RegistersRight, SummaryRight, Ready, Items, Inserted, StampOf, Later
  <2> QED BY <2>1 DEF EngineInv
<1> QED BY <1>10, <1>12, <1>17, <1>19 DEF CrdtInv

\* The engines of the invariant, no order being asked of them.
LEMMA InvEngines ==
    ASSUME CrdtInv, NEW r \in Replicas, NEW d \in {doc[r], saved[r]}
    PROVE  EngineRight(d, ops, {}, Top) /\ d.next <= Cardinality(ops) + 1
<1>1. \A g \in {} : Follows(d, g)
  OBVIOUS
<1> QED BY <1>1, InvEngine

\* A step of one replica that makes no operation.
QuietStep(r, e, s, l) ==
    /\ doc' = [doc EXCEPT ![r] = e] /\ saved' = [saved EXCEPT ![r] = s] /\ log' = [log EXCEPT ![r] = l]
    /\ ops' = ops
    /\ log[r] \subseteq l /\ l \subseteq ops
    /\ \A d \in {e, s} : EngineRight(d, ops, {}, Top) /\ d.next <= Cardinality(ops) + 1
    /\ \A o \in ops : o.id[1] = r => o.id[2] < e.next /\ o.lamport <= e.lamport

\* A step that makes no operation keeps the invariant.
LEMMA QuietInv ==
    ASSUME CrdtInv, NEW r \in Replicas, NEW e, NEW s, NEW l, QuietStep(r, e, s, l)
    PROVE  CrdtInv'
<1>1. /\ doc' = [doc EXCEPT ![r] = e] /\ saved' = [saved EXCEPT ![r] = s] /\ log' = [log EXCEPT ![r] = l]
      /\ ops' = ops /\ log[r] \subseteq l /\ l \subseteq ops
  BY DEF QuietStep
<1>2. \A d \in {e, s} : d \in Doc /\ Sound(d, ops) /\ Settled(d) /\ d.lamport <= Top /\ d.next <= Cardinality(ops) + 1
  BY DEF QuietStep, EngineRight, Right
<1>3. \A o \in ops : o.id[1] = r => o.id[2] < e.next /\ o.lamport <= e.lamport
  BY DEF QuietStep
<1>4. TypeOK
  BY DEF CrdtInv
<1>5. TypeOK'
  <2>1. doc' \in [Replicas -> Doc] /\ saved' \in [Replicas -> Doc] /\ log' \in [Replicas -> SUBSET ops']
    BY <1>1, <1>2, <1>4 DEF TypeOK
  <2> QED BY <2>1, <1>1, <1>4 DEF TypeOK
<1>6. /\ \A t \in Replicas : doc'[t] = IF t = r THEN e ELSE doc[t]
      /\ \A t \in Replicas : saved'[t] = IF t = r THEN s ELSE saved[t]
      /\ \A t \in Replicas : log'[t] = IF t = r THEN l ELSE log[t]
  BY <1>1, <1>4 DEF TypeOK
<1>7. OpsInv'
  <2>1. OpsInv
    BY DEF CrdtInv
  <2> QED BY <2>1, <1>1 DEF OpsInv, IdsUnique, StampOf, Needs
<1>8. ASSUME NEW t \in Replicas
      PROVE  /\ \A d \in {doc'[t], saved'[t]} : d.next <= Cardinality(ops') + 1 /\ d.lamport <= 3 * Cardinality(ops')
             /\ \A o \in ops' : o.id[1] = t => /\ o \in log'[t]
                                               /\ o.id[2] < doc'[t].next /\ o.lamport <= doc'[t].lamport
  <2>1. /\ \A d \in {doc[t], saved[t]} : d.next <= Cardinality(ops) + 1 /\ d.lamport <= 3 * Cardinality(ops)
        /\ \A o \in ops : o.id[1] = t => /\ o \in log[t]
                                         /\ o.id[2] < doc[t].next /\ o.lamport <= doc[t].lamport
    BY DEF CrdtInv, OwnInv
  <2>2. \A d \in {e, s} : d.next <= Cardinality(ops) + 1 /\ d.lamport <= 3 * Cardinality(ops)
    BY <1>2 DEF Top
  <2>3. CASE t = r
    <3>1. doc'[t] = e /\ saved'[t] = s /\ log'[t] = l
      BY <2>3, <1>6
    <3>2. \A o \in ops : o.id[1] = t => o \in l
      BY <2>1, <2>3, <1>1
    <3> QED BY <3>1, <3>2, <2>2, <2>3, <1>1, <1>3
  <2>4. CASE t # r
    <3>1. doc'[t] = doc[t] /\ saved'[t] = saved[t] /\ log'[t] = log[t]
      BY <2>4, <1>6
    <3> QED BY <3>1, <2>1, <1>1
  <2> QED BY <2>3, <2>4
<1>9. OwnInv'
  BY <1>8 DEF OwnInv
<1>10. ASSUME NEW t \in Replicas, NEW d \in {doc'[t], saved'[t]} PROVE Sound(d, ops) /\ Settled(d)
  <2>1. d \in {e, s} \/ d \in {doc[t], saved[t]}
    BY <1>6, <1>10
  <2>2. CASE d \in {e, s}
    BY <2>2, <1>2
  <2>3. CASE d \in {doc[t], saved[t]}
    BY <2>3 DEF CrdtInv, EngineInv
  <2> QED BY <2>1, <2>2, <2>3
<1>11. EngineInv'
  <2>1. \A t \in Replicas : \A d \in {doc'[t], saved'[t]} : Sound(d, ops') /\ Settled(d)
    BY <1>1, <1>10
  <2> QED BY <2>1 DEF EngineInv, Sound, Settled, StreamRight, RegistersRight, SummaryRight, Ready, Items, Inserted, StampOf, Later
<1> QED BY <1>5, <1>7, <1>9, <1>11 DEF CrdtInv

\* A number of operations are a sequence of them.
LEMMA BatchIs ==
    ASSUME NEW r, NEW n \in 1 .. MaxBatch, NEW batch \in [1 .. n -> ops]
    PROVE  batch \in Seq(ops) /\ Len(batch) = n
BY BatchAssumption, SequenceIs

\* What a request leaves.
Delivered(r, batch, G, d, l) ==
    /\ Right(d, ops, G, Top) /\ Settled(d) /\ Kept(doc[r], d)
    /\ log[r] \subseteq l /\ l \subseteq ops
    /\ Held(doc[r]) \subseteq Held(d)
    /\ Len(batch) = 1 => Held(d) \subseteq Held(doc[r]) \cup {o.id : o \in l}
    /\ doc' = [doc EXCEPT ![r] = d] /\ log' = [log EXCEPT ![r] = l]
    /\ saved' = saved /\ ops' = ops

\* An applyRemote request leaves a settled engine that has all it had before, and
\* logs what it took in if it is of one frame.
LEMMA DeliverIs ==
    ASSUME CrdtInv, NEW r \in Replicas, NEW n \in 1 .. MaxBatch, NEW batch \in [1 .. n -> ops],
           Deliver(r, batch), NEW G, \A g \in G : Canonical(g, ops) /\ Follows(doc[r], g)
    PROVE  \E d, l : Delivered(r, batch, G, d, l)
<1>1. batch \in Seq(ops) /\ Len(batch) = n /\ n \in Nat /\ n >= 1
  BY BatchIs, BatchAssumption
<1>2. Good(ops, G, Top)
  BY InvGood
<1>3. Right(doc[r], ops, G, Top) /\ Settled(doc[r])
  BY InvEngine DEF EngineRight
<1>4. PICK res : res = ApplyBatch(doc[r], batch)
  OBVIOUS
<1>5. TakenRight(doc[r], ops, G, Top, batch, n, res)
  BY <1>1, <1>2, <1>3, <1>4, TakenIsRight
<1>6. /\ res \in [doc : Doc, durable : SUBSET ops, thrown : BOOLEAN]
      /\ TakesIn(doc[r], ops, G, Top, {batch[i].id : i \in 1 .. Len(batch)}, res.doc)
      /\ ~res.thrown => Held(res.doc) \subseteq Held(doc[r]) \cup {o.id : o \in res.durable}
      /\ res.thrown /\ n <= 1 => res.doc = doc[r]
  BY <1>5 DEF TakenRight
<1>7. log \in [Replicas -> SUBSET ops]
  BY DEF CrdtInv, TypeOK
<1> DEFINE l == IF res.thrown THEN log[r] ELSE log[r] \cup res.durable
           d == res.doc
<1>8. /\ doc' = [doc EXCEPT ![r] = d] /\ saved' = saved /\ ops' = ops
      /\ log' = IF res.thrown THEN log ELSE [log EXCEPT ![r] = @ \cup res.durable]
  BY <1>4 DEF Deliver
<1>9. log' = [log EXCEPT ![r] = l] /\ log[r] \subseteq l /\ l \subseteq ops
  BY <1>6, <1>7, <1>8
<1>10. Right(d, ops, G, Top) /\ Settled(d) /\ Kept(doc[r], d) /\ Held(doc[r]) \subseteq Held(d)
  BY <1>6 DEF TakesIn
<1>11. Len(batch) = 1 => Held(d) \subseteq Held(doc[r]) \cup {o.id : o \in l}
  BY <1>1, <1>6
<1> HIDE DEF l, d
<1> QED BY <1>8, <1>9, <1>10, <1>11 DEF Delivered

\* An applyRemote request keeps the invariant.
LEMMA DeliverInv ==
    ASSUME CrdtInv, NEW r \in Replicas, NEW n \in 1 .. MaxBatch, NEW batch \in [1 .. n -> ops],
           Deliver(r, batch)
    PROVE  CrdtInv'
<1>1. \A g \in {} : Canonical(g, ops) /\ Follows(doc[r], g)
  OBVIOUS
<1>2. \E d, l : Delivered(r, batch, {}, d, l)
  BY <1>1, DeliverIs
<1>3. PICK d, l : Delivered(r, batch, {}, d, l)
  BY <1>2
<1>4. /\ Right(d, ops, {}, Top) /\ Settled(d) /\ Kept(doc[r], d)
      /\ log[r] \subseteq l /\ l \subseteq ops
      /\ doc' = [doc EXCEPT ![r] = d] /\ log' = [log EXCEPT ![r] = l]
      /\ saved' = saved /\ ops' = ops
  BY <1>3 DEF Delivered
<1>5. /\ EngineRight(doc[r], ops, {}, Top) /\ doc[r].next <= Cardinality(ops) + 1
      /\ EngineRight(saved[r], ops, {}, Top) /\ saved[r].next <= Cardinality(ops) + 1
  <2>1. ASSUME NEW c \in {doc[r], saved[r]} PROVE EngineRight(c, ops, {}, Top) /\ c.next <= Cardinality(ops) + 1
    BY InvEngines
  <2> QED BY <2>1
<1>6. EngineRight(d, ops, {}, Top) /\ d.next <= Cardinality(ops) + 1
  BY <1>4, <1>5 DEF EngineRight, Kept
<1>7. ASSUME NEW o \in ops, o.id[1] = r PROVE o.id[2] < d.next /\ o.lamport <= d.lamport
  <2>1. o.id[2] < doc[r].next /\ o.lamport <= doc[r].lamport
    BY <1>7 DEF CrdtInv, OwnInv
  <2>2. o.lamport \in Nat
    BY OpType DEF CrdtInv, TypeOK
  <2> QED BY <2>1, <2>2, <1>4 DEF Kept
<1>8. saved' = [saved EXCEPT ![r] = saved[r]]
  BY <1>4 DEF CrdtInv, TypeOK
<1>9. QuietStep(r, d, saved[r], l)
  BY <1>4, <1>5, <1>6, <1>7, <1>8 DEF QuietStep
<1> QED BY <1>9, QuietInv

\* What building the engine of r again from base and the log leaves.
Rebuilt(r, base, G, e) ==
    /\ Right(e, ops, G, Top) /\ Settled(e) /\ e.next <= Cardinality(ops) + 1
    /\ base.applied \subseteq e.applied
    /\ Held(e) = Held(base) \cup {o.id : o \in log[r]}
    /\ \A o \in log[r] : (o.id[1] = r => o.id[2] < e.next) /\ o.lamport <= e.lamport
    /\ doc' = [doc EXCEPT ![r] = e] /\ log' = log /\ ops' = ops

\* An engine that is rebuilt holds what the snapshot and the log hold.
LEMMA RebuildIs ==
    ASSUME CrdtInv, NEW r \in Replicas, NEW G, \A g \in G : Canonical(g, ops),
           NEW base, Right(base, ops, G, Top), Settled(base), base.next <= Cardinality(ops) + 1,
           Rebuild(r, base)
    PROVE  \E e : Rebuilt(r, base, G, e)
<1> DEFINE L == log[r]
           c == Cardinality(L)
           n == Cardinality(ops)
<1>1. /\ L \subseteq ops /\ IsFiniteSet(ops) /\ ops \subseteq Op /\ n <= MaxOps
  BY DEF CrdtInv, TypeOK
<1>2. c \in Nat /\ n \in Nat
  BY <1>1, FS_Subset, FS_CardinalityType
<1>3. PICK seq \in Orders(L) :
          /\ ~Overflows(base, seq)
          /\ doc' = [doc EXCEPT ![r] = RestoreAllocation(Replay(base, seq), r, L)]
  BY DEF Rebuild
<1>4. seq \in [1 .. c -> L] /\ \A op \in L : \E i \in 1 .. c : seq[i] = op
  BY <1>3 DEF Orders
<1>5. seq \in Seq(ops) /\ Len(seq) = c
  <2>1. seq \in [1 .. c -> ops]
    BY <1>1, <1>4
  <2> HIDE DEF c
  <2> QED BY <2>1, <1>2, SequenceIs
<1>6. Good(ops, G, Top) /\ Top \in Clock /\ Top \in Nat
  BY InvGood
<1>7. PICK b : b = Replay(base, seq)
  OBVIOUS
<1>8. ReplayRight(base, ops, G, Top, seq, c, b)
  BY <1>3, <1>5, <1>6, <1>7, ReplayIsRight
<1>9. TakesIn(base, ops, G, Top, {seq[i].id : i \in 1 .. Len(seq)}, b) /\ \A i \in 1 .. c : seq[i].id \in Held(b)
  BY <1>8 DEF ReplayRight
<1>10. Held(b) = Held(base) \cup {o.id : o \in L}
  <2>1. {seq[i].id : i \in 1 .. Len(seq)} = {o.id : o \in L}
    BY <1>4, <1>5
  <2>2. {o.id : o \in L} \subseteq Held(b)
    BY <1>4, <1>9
  <2> QED BY <2>1, <2>2, <1>9 DEF TakesIn
<1>11. Right(b, ops, G, Top) /\ Settled(b) /\ Kept(base, b)
  BY <1>9 DEF TakesIn
<1>12. PICK e : e = RestoreAllocation(b, r, L)
  OBVIOUS
<1>13. Restored(b, r, L, n, Top, e)
  <2>1. b \in Doc /\ b.lamport <= Top
    BY <1>11 DEF Right
  <2>2. b.next <= n + 1
    BY <1>11 DEF Kept
  <2>3. n \in 0 .. MaxOps
    BY <1>1, <1>2, MaxOpsAssumption
  <2>4. \A o \in L : o.lamport < Top /\ o.id[2] <= n
    BY <1>1 DEF CrdtInv, OpsInv, Top
  <2>5. L \subseteq Op
    BY <1>1
  <2> HIDE DEF L, n
  <2> QED BY <2>1, <2>2, <2>3, <2>4, <2>5, <1>6, <1>12, RestoreRight
<1>14. /\ e \in Doc /\ Like(b, e) /\ e.pending = b.pending /\ e.lamport <= Top /\ e.next <= n + 1
       /\ \A o \in L : (o.id[1] = r => o.id[2] < e.next) /\ o.lamport <= e.lamport
  BY <1>13 DEF Restored
<1>15. Right(e, ops, G, Top) /\ Items(e) = Items(b) /\ SameReady(b, e)
  <2>1. \A i \in DOMAIN e.pending : e.pending[i] \in ops
    BY <1>11, <1>14 DEF Right, Sound
  <2> QED BY <2>1, <1>1, <1>11, <1>14, RightBut
<1>16. Settled(e)
  BY <1>11, <1>14, <1>15 DEF Settled, SameReady
<1>17. e.applied = b.applied /\ base.applied \subseteq e.applied /\ Held(e) = Held(b)
  BY <1>11, <1>14 DEF Like, Kept, Held
<1>18. doc' = [doc EXCEPT ![r] = e] /\ log' = log /\ ops' = ops
  BY <1>3, <1>7, <1>12 DEF Rebuild
<1>19. Rebuilt(r, base, G, e)
  BY <1>10, <1>14, <1>15, <1>16, <1>17, <1>18 DEF Rebuilt
<1> QED BY <1>19

\* Rebuilding an engine keeps the invariant.
LEMMA RebuildInv ==
    ASSUME CrdtInv, NEW r \in Replicas, NEW q \in Replicas, NEW base \in {doc[q], saved[q]},
           Rebuild(r, base), NEW s \in {base, saved[r]}, saved' = [saved EXCEPT ![r] = s]
    PROVE  CrdtInv'
<1>1. EngineRight(base, ops, {}, Top) /\ base.next <= Cardinality(ops) + 1
  BY InvEngine
<1>2. \E e : Rebuilt(r, base, {}, e)
  <2>1. \A g \in {} : Canonical(g, ops)
    OBVIOUS
  <2>2. Right(base, ops, {}, Top) /\ Settled(base)
    BY <1>1 DEF EngineRight
  <2> QED BY <2>1, <2>2, <1>1, RebuildIs
<1>3. PICK e : Rebuilt(r, base, {}, e)
  BY <1>2
<1>4. /\ Right(e, ops, {}, Top) /\ Settled(e) /\ e.next <= Cardinality(ops) + 1
      /\ \A o \in log[r] : (o.id[1] = r => o.id[2] < e.next) /\ o.lamport <= e.lamport
      /\ doc' = [doc EXCEPT ![r] = e] /\ log' = log /\ ops' = ops
  BY <1>3 DEF Rebuilt
<1>5. EngineRight(s, ops, {}, Top) /\ s.next <= Cardinality(ops) + 1
  <2>1. EngineRight(saved[r], ops, {}, Top) /\ saved[r].next <= Cardinality(ops) + 1
    BY InvEngine
  <2> QED BY <2>1, <1>1
<1>6. \A o \in ops : o.id[1] = r => o.id[2] < e.next /\ o.lamport <= e.lamport
  BY <1>4 DEF CrdtInv, OwnInv
<1>7. log' = [log EXCEPT ![r] = log[r]] /\ log[r] \subseteq ops
  BY <1>4 DEF CrdtInv, TypeOK
<1>8. QuietStep(r, e, s, log[r])
  BY <1>4, <1>5, <1>6, <1>7 DEF QuietStep, EngineRight
<1> QED BY <1>8, QuietInv

\* Storing a snapshot keeps the invariant.
LEMMA SaveInv ==
    ASSUME CrdtInv, NEW r \in Replicas, SaveSnapshot(r)
    PROVE  CrdtInv'
<1>1. /\ saved' = [saved EXCEPT ![r] = doc[r]] /\ doc' = doc /\ log' = log /\ ops' = ops
  BY DEF SaveSnapshot
<1>2. doc' = [doc EXCEPT ![r] = doc[r]] /\ log' = [log EXCEPT ![r] = log[r]] /\ log[r] \subseteq ops
  BY <1>1 DEF CrdtInv, TypeOK
<1>3. EngineRight(doc[r], ops, {}, Top) /\ doc[r].next <= Cardinality(ops) + 1
  BY InvEngine
<1>4. \A o \in ops : o.id[1] = r => o.id[2] < doc[r].next /\ o.lamport <= doc[r].lamport
  BY DEF CrdtInv, OwnInv
<1>5. QuietStep(r, doc[r], doc[r], log[r])
  BY <1>1, <1>2, <1>3, <1>4 DEF QuietStep
<1> QED BY <1>5, QuietInv

\* The empty documents satisfy it.
LEMMA CrdtBegins == ASSUME Init PROVE CrdtInv
<1>1. /\ ops = {} /\ \A r \in Replicas : doc[r] = EmptyDoc /\ saved[r] = EmptyDoc /\ log[r] = {}
      /\ doc = [r \in Replicas |-> EmptyDoc] /\ saved = [r \in Replicas |-> EmptyDoc]
      /\ log = [r \in Replicas |-> {}]
  BY DEF Init
<1>2. IsFiniteSet(ops) /\ Cardinality(ops) = 0
  BY <1>1, FS_EmptySet
<1>3. EmptyDoc \in Doc /\ Sound(EmptyDoc, {}) /\ Settled(EmptyDoc) /\ EmptyDoc.next = 1 /\ EmptyDoc.lamport = 0
  BY EmptyRight DEF EmptyDoc
<1>4. TypeOK
  BY <1>1, <1>2, <1>3, MaxOpsAssumption DEF TypeOK
<1>5. OpsInv
  BY <1>1 DEF OpsInv, IdsUnique
<1>6. OwnInv
  BY <1>1, <1>2, <1>3 DEF OwnInv
<1>7. EngineInv
  BY <1>1, <1>3 DEF EngineInv
<1> QED BY <1>4, <1>5, <1>6, <1>7 DEF CrdtInv

\* Every step keeps the invariant.
LEMMA CrdtStep == ASSUME CrdtInv, [Next]_vars PROVE CrdtInv'
<1>1. ASSUME NEW r \in Replicas, NEW i \in 0 .. MaxOps, NEW init \in BOOLEAN, LocalInsert(r, i, init)
      PROVE  CrdtInv'
  <2>1. PICK op : Made(r, op) /\ Generate(r, op)
    BY <1>1, MakesInsert
  <2> QED BY <2>1, GenerateInv
<1>2. ASSUME NEW r \in Replicas, NEW i \in 1 .. MaxOps, LocalDelete(r, i) \/ LocalSetAttr(r, i)
      PROVE  CrdtInv'
  <2>1. PICK op : Made(r, op) /\ Generate(r, op)
    BY <1>2, MakesOther
  <2> QED BY <2>1, GenerateInv
<1>3. ASSUME NEW r \in Replicas, NEW n \in 1 .. MaxBatch, NEW batch \in [1 .. n -> ops], Deliver(r, batch)
      PROVE  CrdtInv'
  BY <1>3, DeliverInv
<1>4. ASSUME NEW r \in Replicas, SaveSnapshot(r) PROVE CrdtInv'
  BY <1>4, SaveInv
<1>5. ASSUME NEW r \in Replicas, Reload(r) PROVE CrdtInv'
  <2>1. Rebuild(r, saved[r]) /\ saved' = [saved EXCEPT ![r] = saved[r]]
    BY <1>5 DEF Reload, CrdtInv, TypeOK
  <2> QED BY <2>1, RebuildInv
<1>6. ASSUME NEW r \in Replicas, NEW e \in Replicas \ {r}, Import(r, e) PROVE CrdtInv'
  <2>1. Rebuild(r, doc[e]) /\ saved' = [saved EXCEPT ![r] = doc[e]]
    BY <1>6 DEF Import
  <2> QED BY <2>1, RebuildInv
<1>7. ASSUME UNCHANGED vars PROVE CrdtInv'
  <2>1. doc' = doc /\ saved' = saved /\ log' = log /\ ops' = ops
    BY <1>7 DEF vars
  <2>2. TypeOK'
    BY <2>1 DEF CrdtInv, TypeOK
  <2>3. OpsInv'
    BY <2>1 DEF CrdtInv, OpsInv, IdsUnique, StampOf, Needs
  <2>4. OwnInv'
    BY <2>1 DEF CrdtInv, OwnInv
  <2>5. EngineInv'
    <3>1. \A t \in Replicas : \A d \in {doc'[t], saved'[t]} : Sound(d, ops') /\ Settled(d)
      BY <2>1 DEF CrdtInv, EngineInv
    <3> QED BY <3>1 DEF EngineInv, Sound, Settled, StreamRight, RegistersRight, SummaryRight, Ready,
                        Items, Inserted, StampOf, Later
  <2> QED BY <2>2, <2>3, <2>4, <2>5 DEF CrdtInv
<1> QED BY <1>1, <1>2, <1>3, <1>4, <1>5, <1>6, <1>7 DEF Next

\* In every reachable state, with requests of any length: every engine, current and
\* stored, is exact about the operations it applied (stream, tombstones, registers,
\* summary, buffer), no identity or clock is given out twice, each operation is
\* younger than what it refers to, and its author's log has it (doc.cpp integrate_*,
\* note_integrated, retry_pending, allocate; core.ts restore).
THEOREM CrdtInvariant == Spec => []CrdtInv
<1>1. Init => CrdtInv
  BY CrdtBegins
<1>2. CrdtInv /\ [Next]_vars => CrdtInv'
  BY CrdtStep
<1> QED BY <1>1, <1>2, PTL DEF Spec

\* retry_pending leaves nothing in the buffer that could be integrated, and the
\* state summary of note_integrated claims exactly what was applied, for any number
\* of replicas and operations and any length of request.
THEOREM IntegrationIsExact == Spec => []IntegrationExact
<1>1. CrdtInv => IntegrationExact
  BY DEF CrdtInv, EngineInv, Sound, Settled, SummaryRight, IntegrationExact, NothingReadyIsPending, SummaryExact
<1> QED BY <1>1, CrdtInvariant, PTL

\* apply_register leaves in each register the greatest write that was applied to its
\* item, in whatever order the writes arrive.
THEOREM LastWriterWinsHolds == Spec => []LastWriterWins
<1>1. CrdtInv => LastWriterWins
  BY DEF CrdtInv, EngineInv, Sound, RegistersRight, LastWriterWins
<1> QED BY <1>1, CrdtInvariant, PTL

-----------------------------------------------------------------------------
(* The one order of all items has a place for every new one.                *)

\* A new item of replica w between two neighbours of its author's stream: its
\* anchors are ordered, its right anchor is of the subtree of the left one or
\* higher, and nothing of w stands between them.
Gap(O, g, L, R, w) ==
    /\ L \in Places(O) /\ R \in Places(O)
    /\ R # None => <<L, R>> \in g
    /\ \A p \in O : p.type = "insert" /\ p.id = R => p.left = L \/ <<p.left, L>> \in g
    /\ \A o \in O : o.type = "insert" /\ o.id[1] = w /\ <<L, o.id>> \in g =>
           R # None /\ (o.id = R \/ <<R, o.id>> \in g)

\* The items before the new one: with L all that stand before them, the subtrees
\* of those after L, and the siblings that a smaller replica put there.
Closed(O, g, L, R, w, D) ==
    /\ L \in D
    /\ \A x, y \in Places(O) : y \in D /\ <<x, y>> \in g => x \in D
    /\ \A o \in O : o.type = "insert" /\ o.left \in D /\ <<L, o.left>> \in g => o.id \in D
    /\ \A z \in O : z.type = "insert" /\ z.left = L /\ z.id[1] < w /\ (R # None => <<z.id, R>> \in g)
                        => z.id \in D

Below(O, g, L, R, w) ==
    {y \in Places(O) : \A D \in SUBSET Places(O) : Closed(O, g, L, R, w, D) => y \in D}

\* What the proofs use of an order, of all items and None.
Lawful(O, g) ==
    /\ Distinct(O) /\ Canonical(g, O)
    /\ \A o \in O : o.type = "insert" => {o.left, o.right} \subseteq Places(O)

\* The parts of an insert in an order of all items.
LEMMA LawIs ==
    ASSUME NEW O, NEW g, Lawful(O, g), NEW o \in O, o.type = "insert"
    PROVE  /\ o.id \in Places(O) /\ o.left \in Places(O) /\ o.right \in Places(O)
           /\ o.id \in Inserted(O) /\ <<o.left, o.id>> \in g
           /\ o.right # None => <<o.id, o.right>> \in g
           /\ o.id # None /\ o.id[1] \in Nat
<1>1. Canonical(g, O) /\ o.left \in Places(O) /\ o.right \in Places(O) /\ o \in Op
  BY DEF Lawful, Distinct
<1>2. o.id \in Inserted(O) /\ <<o.left, o.id>> \in g /\ (o.right # None => <<o.id, o.right>> \in g)
  BY <1>1, CanonicalIs
<1>3. o.id \in Ids /\ o.id[1] \in Nat
  BY <1>1, OpType
<1> QED BY <1>1, <1>2, <1>3, IdFacts DEF Places

\* The order of places, for use below.
LEMMA LawOrder ==
    ASSUME NEW O, NEW g, Lawful(O, g)
    PROVE  /\ \A x, y : <<x, y>> \in g => /\ x \in Places(O) /\ y \in Places(O)
                                          /\ x # y /\ <<y, x>> \notin g
           /\ \A x, y, z : <<x, y>> \in g /\ <<y, z>> \in g => <<x, z>> \in g
           /\ \A x \in Inserted(O) : <<None, x>> \in g
           /\ \A x, y \in Places(O) : x = y \/ <<x, y>> \in g \/ <<y, x>> \in g
           /\ g \subseteq Places(O) \X Places(O)
BY OrderIs DEF Lawful, Canonical, Ordered

\* An item does not part another from its subtree.
LEMMA LawSubtree ==
    ASSUME NEW O, NEW g, Lawful(O, g), NEW o \in O, NEW p \in O, o.type = "insert", p.type = "insert",
           <<p.left, o.left>> \in g, <<o.left, p.id>> \in g
    PROVE  ~(<<p.id, o.id>> \in g)
<1>1. Canonical(g, O)
  BY DEF Lawful
<1> QED BY <1>1, CanonicalIs

\* A sibling that stands between an item and its right anchor is of a greater replica.
LEMMA LawSibling ==
    ASSUME NEW O, NEW g, Lawful(O, g), NEW o \in O, NEW p \in O, o.type = "insert", p.type = "insert",
           o.left = p.left, <<o.id, p.id>> \in g, o.right # None => <<p.id, o.right>> \in g
    PROVE  o.id[1] < p.id[1]
<1>1. Canonical(g, O)
  BY DEF Lawful
<1> QED BY <1>1, CanonicalIs

\* The items before the new one are closed in that sense.
LEMMA BelowClosed ==
    ASSUME NEW O, NEW g, Lawful(O, g), NEW L, NEW R, NEW w, Gap(O, g, L, R, w)
    PROVE  Closed(O, g, L, R, w, Below(O, g, L, R, w))
<1> DEFINE B == Below(O, g, L, R, w)
           C(D) == Closed(O, g, L, R, w, D)
<1>1. L \in Places(O)
  BY DEF Gap
<1>2. L \in B
  BY <1>1 DEF Below, Closed
<1>3. ASSUME NEW x \in Places(O), NEW y \in Places(O), y \in B, <<x, y>> \in g PROVE x \in B
  <2>1. ASSUME NEW D \in SUBSET Places(O), C(D) PROVE x \in D
    <3>1. y \in D
      BY <1>3, <2>1 DEF Below
    <3> QED BY <3>1, <1>3, <2>1 DEF Closed
  <2> QED BY <2>1, <1>3 DEF Below
<1>4. ASSUME NEW o \in O, o.type = "insert", o.left \in B, <<L, o.left>> \in g PROVE o.id \in B
  <2>1. ASSUME NEW D \in SUBSET Places(O), C(D) PROVE o.id \in D
    <3>1. o.left \in D
      BY <1>4, <2>1 DEF Below
    <3> QED BY <3>1, <1>4, <2>1 DEF Closed
  <2>2. o.id \in Places(O)
    BY <1>4, LawIs
  <2> QED BY <2>1, <2>2 DEF Below
<1>5. ASSUME NEW z \in O, z.type = "insert", z.left = L, z.id[1] < w, R # None => <<z.id, R>> \in g
      PROVE  z.id \in B
  <2>1. ASSUME NEW D \in SUBSET Places(O), C(D) PROVE z.id \in D
    BY <1>5, <2>1 DEF Closed
  <2>2. z.id \in Places(O)
    BY <1>5, LawIs
  <2> QED BY <2>1, <2>2 DEF Below
<1> QED BY <1>2, <1>3, <1>4, <1>5 DEF Closed

\* The new item goes before its right anchor.
LEMMA RightNotBelow ==
    ASSUME NEW O, NEW g, Lawful(O, g), NEW L, NEW R, NEW w, Gap(O, g, L, R, w), R # None
    PROVE  R \notin Below(O, g, L, R, w)
<1> DEFINE D == {y \in Places(O) : <<y, R>> \in g}
<1>1. L \in Places(O) /\ R \in Places(O) /\ <<L, R>> \in g
  BY DEF Gap
<1>2. \A x, y \in Places(O) : y \in D /\ <<x, y>> \in g => x \in D
  BY LawOrder
<1>3. PICK p \in O : p.type = "insert" /\ p.id = R
  BY <1>1 DEF Places, Inserted
<1>4. p.left = L \/ <<p.left, L>> \in g
  BY <1>3 DEF Gap
<1>5. ASSUME NEW o \in O, o.type = "insert", o.left \in D, <<L, o.left>> \in g PROVE o.id \in D
  <2>1. <<p.left, o.left>> \in g /\ <<o.left, R>> \in g
    BY <1>4, <1>5, LawOrder
  <2>2. ~(<<R, o.id>> \in g)
    BY <2>1, <1>3, <1>5, LawSubtree
  <2>3. o.id # R
    <3>1. SUFFICES ASSUME o.id = R PROVE FALSE
      OBVIOUS
    <3>2. o = p
      BY <1>3, <3>1 DEF Lawful, Distinct
    <3> QED BY <3>2, <2>1, LawOrder
  <2>4. o.id \in Places(O)
    BY <1>5, LawIs
  <2> QED BY <2>2, <2>3, <2>4, <1>1, LawOrder
<1>6. \A z \in O : z.type = "insert" /\ z.left = L /\ z.id[1] < w /\ (R # None => <<z.id, R>> \in g)
                       => z.id \in D
  BY LawIs
<1>7. Closed(O, g, L, R, w, D)
  BY <1>1, <1>2, <1>5, <1>6 DEF Closed
<1>8. R \notin D
  BY LawOrder
<1> QED BY <1>7, <1>8 DEF Below

\* Nothing after the left anchor and before the new item has its left anchor
\* before that one.
LEMMA BelowSubtree ==
    ASSUME NEW O, NEW g, Lawful(O, g), NEW L, NEW R, NEW w, Gap(O, g, L, R, w),
           NEW p \in O, p.type = "insert", <<L, p.id>> \in g, <<p.left, L>> \in g
    PROVE  p.id \notin Below(O, g, L, R, w)
<1> DEFINE D == {y \in Places(O) : y # p.id /\ <<p.id, y>> \notin g}
<1>1. L \in Places(O) /\ p.id \in Places(O)
  BY LawIs DEF Gap
<1>2. L \in D
  BY <1>1, LawOrder
<1>3. \A x, y \in Places(O) : y \in D /\ <<x, y>> \in g => x \in D
  BY LawOrder
<1>4. ASSUME NEW o \in O, o.type = "insert", o.left \in D, <<L, o.left>> \in g PROVE o.id \in D
  <2>1. <<o.left, p.id>> \in g
    BY <1>1, <1>4, LawOrder
  <2>2. <<p.left, o.left>> \in g
    BY <1>4, LawOrder
  <2>3. <<p.id, o.id>> \notin g
    BY <2>1, <2>2, <1>4, LawSubtree
  <2>4. o.id # p.id
    <3>1. SUFFICES ASSUME o.id = p.id PROVE FALSE
      OBVIOUS
    <3>2. o = p
      BY <3>1 DEF Lawful, Distinct
    <3> QED BY <3>2, <2>2, LawOrder
  <2>5. o.id \in Places(O)
    BY <1>4, LawIs
  <2> QED BY <2>3, <2>4, <2>5
<1>5. ASSUME NEW z \in O, z.type = "insert", z.left = L, z.id[1] < w, R # None => <<z.id, R>> \in g
      PROVE  z.id \in D
  <2>1. <<p.id, z.id>> \notin g
    BY <1>5, LawSubtree
  <2>2. z.id # p.id
    <3>1. SUFFICES ASSUME z.id = p.id PROVE FALSE
      OBVIOUS
    <3>2. z = p
      BY <3>1 DEF Lawful, Distinct
    <3> QED BY <3>2, <1>5, LawOrder
  <2>3. z.id \in Places(O)
    BY <1>5, LawIs
  <2> QED BY <2>1, <2>2, <2>3
<1>6. Closed(O, g, L, R, w, D)
  BY <1>2, <1>3, <1>4, <1>5 DEF Closed
<1>7. D \in SUBSET Places(O) /\ p.id \notin D
  OBVIOUS
<1> HIDE DEF D
<1> QED BY <1>6, <1>7 DEF Below

\* A sibling before the new item, whose right anchor is after it, is of a smaller replica.
LEMMA BelowSibling ==
    ASSUME NEW O, NEW g, Lawful(O, g), NEW L, NEW R, NEW w \in Nat, Gap(O, g, L, R, w),
           NEW o \in O, o.type = "insert", o.left = L, o.id \in Below(O, g, L, R, w),
           o.right # None => o.right \notin Below(O, g, L, R, w)
    PROVE  o.id[1] < w
<1> DEFINE B == Below(O, g, L, R, w)
           D == {y \in Places(O) : <<y, o.id>> \in g}
<1>0. /\ o.id \in Places(O) /\ o.right \in Places(O) /\ <<L, o.id>> \in g /\ o.id[1] \in Nat
      /\ L \in Places(O)
  BY LawIs DEF Gap
<1>1. Closed(O, g, L, R, w, B)
  BY BelowClosed
<1> HIDE DEF B
<1>2. o.id[1] # w
  <2>1. SUFFICES ASSUME o.id[1] = w PROVE FALSE
    OBVIOUS
  <2>2. R # None /\ (o.id = R \/ <<R, o.id>> \in g) /\ R \in Places(O)
    BY <1>0, <2>1 DEF Gap
  <2>3. R \in B
    BY <1>0, <1>1, <2>2 DEF Closed, B
  <2> QED BY <2>2, <2>3, RightNotBelow DEF B
<1>3. ASSUME o.id[1] > w PROVE FALSE
  <2>1. \A x, y \in Places(O) : y \in D /\ <<x, y>> \in g => x \in D
    BY LawOrder
  <2>2. ASSUME NEW q \in O, q.type = "insert", q.left \in D, <<L, q.left>> \in g PROVE q.id \in D
    <3>1. ~(<<o.id, q.id>> \in g)
      <4>1. <<o.left, q.left>> \in g /\ <<q.left, o.id>> \in g
        BY <2>2
      <4> QED BY <4>1, <2>2, LawSubtree
    <3>2. q.id # o.id
      <4>1. SUFFICES ASSUME q.id = o.id PROVE FALSE
        OBVIOUS
      <4>2. q = o
        BY <4>1 DEF Lawful, Distinct
      <4> QED BY <4>2, <2>2, LawOrder
    <3>3. q.id \in Places(O)
      BY <2>2, LawIs
    <3> QED BY <3>1, <3>2, <3>3, <1>0, LawOrder
  <2>3. ASSUME NEW z \in O, z.type = "insert", z.left = L, z.id[1] < w, R # None => <<z.id, R>> \in g
        PROVE  z.id \in D
    <3>1. z.id \in B /\ z.id \in Places(O) /\ z.id[1] \in Nat
      BY <2>3, <1>1, LawIs DEF Closed
    <3>2. z.id # o.id
      BY <2>3, <1>3, <1>0, <3>1
    <3>3. ~(<<o.id, z.id>> \in g)
      <4>1. SUFFICES ASSUME <<o.id, z.id>> \in g PROVE FALSE
        OBVIOUS
      <4>2. ~(o.id[1] < z.id[1])
        BY <2>3, <1>3, <1>0, <3>1
      <4>3. o.right # None /\ ~(<<z.id, o.right>> \in g)
        BY <4>1, <4>2, <2>3, LawSibling
      <4>4. o.right = z.id \/ <<o.right, z.id>> \in g
        BY <4>3, <1>0, <3>1, LawOrder
      <4>5. o.right \in B
        BY <4>4, <3>1, <1>0, <1>1 DEF Closed
      <4> QED BY <4>3, <4>5 DEF B
    <3> QED BY <3>1, <3>2, <3>3, <1>0, LawOrder
  <2>4. L \in D
    BY <1>0
  <2>5. Closed(O, g, L, R, w, D)
    BY <2>1, <2>2, <2>3, <2>4 DEF Closed
  <2>6. o.id \in D
    BY <2>5 DEF Below
  <2> QED BY <2>6, LawOrder
<1> QED BY <1>0, <1>2, <1>3

\* The order with the new item in its place.
Extended(O, g, op) ==
    LET B == Below(O, g, op.left, op.right, op.id[1]) IN
    g \cup {<<y, op.id>> : y \in B} \cup {<<op.id, y>> : y \in Places(O) \ B}

\* A new insert, between the neighbours it was made between.
NewInsert(O, g, op) ==
    /\ Lawful(O, g) /\ op \in Op /\ op.type = "insert" /\ \A o \in O : o.id # op.id
    /\ Gap(O, g, op.left, op.right, op.id[1])

\* What is in the extended order h: the new item X has the items B before it.
Joined(O, g, op, X, B, h) ==
    /\ B \subseteq Places(O) /\ X \notin Places(O)
    /\ g \subseteq h
    /\ \A x, y \in Places(O) : <<x, y>> \in h <=> <<x, y>> \in g
    /\ \A y \in Places(O) : <<y, X>> \in h <=> y \in B
    /\ \A y \in Places(O) : <<X, y>> \in h <=> y \notin B
    /\ <<X, X>> \notin h
    /\ Places(O \cup {op}) = Places(O) \cup {X}
    /\ Inserted(O \cup {op}) = Inserted(O) \cup {X}
    /\ h \subseteq Places(O \cup {op}) \X Places(O \cup {op})

\* The extended order is so.
LEMMA ExtendedIs ==
    ASSUME NEW O, NEW g, NEW op, NewInsert(O, g, op), NEW B, B = Below(O, g, op.left, op.right, op.id[1]),
           NEW h, h = Extended(O, g, op)
    PROVE  Joined(O, g, op, op.id, B, h)
<1> DEFINE X == op.id
<1>1. B \subseteq Places(O)
  BY DEF Below
<1>2. X \in Ids /\ op.type = "insert" /\ Lawful(O, g) /\ \A o \in O : o.id # X
  BY OpType DEF NewInsert
<1>3. X \notin Places(O)
  BY <1>2, IdFacts DEF Places, Inserted
<1>4. g \subseteq Places(O) \X Places(O)
  BY <1>2, LawOrder
<1>5. Inserted(O \cup {op}) = Inserted(O) \cup {X} /\ Places(O \cup {op}) = Places(O) \cup {X}
  BY <1>2 DEF Places, Inserted
<1>6. h = g \cup {<<y, X>> : y \in B} \cup {<<X, y>> : y \in Places(O) \ B}
  BY DEF Extended
<1> HIDE DEF X
<1>7. \A x, y \in Places(O) : <<x, y>> \in h <=> <<x, y>> \in g
  BY <1>1, <1>3, <1>6
<1>8. \A y \in Places(O) : /\ <<y, X>> \in h <=> y \in B
                           /\ <<X, y>> \in h <=> y \notin B
  BY <1>1, <1>3, <1>4, <1>6
<1>9. <<X, X>> \notin h
  BY <1>1, <1>3, <1>4, <1>6
<1>10. g \subseteq h /\ h \subseteq (Places(O) \cup {X}) \X (Places(O) \cup {X})
  BY <1>1, <1>4, <1>6
<1>11. g \subseteq h /\ h \subseteq Places(O \cup {op}) \X Places(O \cup {op})
  BY <1>5, <1>10
<1>12. Joined(O, g, op, X, B, h)
  BY <1>1, <1>3, <1>5, <1>7, <1>8, <1>9, <1>11 DEF Joined
<1> QED BY <1>12 DEF X

\* The extended order is a strict total order with None before all items.
LEMMA ExtendedOrdered ==
    ASSUME NEW O, NEW g, NEW op, NewInsert(O, g, op), NEW h, h = Extended(O, g, op)
    PROVE  Ordered(h, O \cup {op})
<1> DEFINE X == op.id
           P == Places(O)
           Q == Places(O \cup {op})
<1>0. PICK B : B = Below(O, g, op.left, op.right, op.id[1])
  OBVIOUS
<1>1. /\ B \subseteq P /\ X \notin P
      /\ \A x, y \in P : <<x, y>> \in h <=> <<x, y>> \in g
      /\ \A y \in P : /\ <<y, X>> \in h <=> y \in B
                      /\ <<X, y>> \in h <=> y \notin B
      /\ <<X, X>> \notin h
      /\ Q = P \cup {X} /\ Inserted(O \cup {op}) = Inserted(O) \cup {X}
      /\ h \subseteq Q \X Q
  <2>1. Joined(O, g, op, X, B, h)
    BY <1>0, ExtendedIs
  <2> QED BY <2>1 DEF Joined
<1>2. Lawful(O, g) /\ Gap(O, g, op.left, op.right, op.id[1])
  BY DEF NewInsert
<1>3. Closed(O, g, op.left, op.right, op.id[1], B)
  BY <1>0, <1>2, BelowClosed
<1>4. \A x, y \in P : y \in B /\ <<x, y>> \in g => x \in B
  BY <1>3 DEF Closed
<1>5. /\ \A x, y \in P : <<x, y>> \in g => x # y /\ <<y, x>> \notin g
      /\ \A x, y, z \in P : <<x, y>> \in g /\ <<y, z>> \in g => <<x, z>> \in g
      /\ \A x \in Inserted(O) : <<None, x>> \in g
      /\ \A x, y \in P : x = y \/ <<x, y>> \in g \/ <<y, x>> \in g
  BY <1>2, LawOrder
<1>6. None \in P /\ Inserted(O) \subseteq P
  BY DEF Places
<1>7. None \in B
  <2>1. op.left \in B /\ op.left \in P
    BY <1>2, <1>3 DEF Closed, Gap
  <2>2. op.left = None \/ <<None, op.left>> \in g
    BY <2>1, <1>5 DEF Places
  <2> QED BY <2>1, <2>2, <1>4, <1>6
<1> HIDE DEF X, P, Q
<1>8. \A x \in Inserted(O) \cup {X} : <<None, x>> \in h
  BY <1>1, <1>5, <1>6, <1>7
<1>9. \A x \in Q : <<x, x>> \notin h
  BY <1>1, <1>5
<1>10. \A x, y \in Q : x = y \/ <<x, y>> \in h \/ <<y, x>> \in h
  BY <1>1, <1>5
<1>11. ASSUME NEW x \in Q, NEW y \in Q, NEW z \in Q, <<x, y>> \in h, <<y, z>> \in h PROVE <<x, z>> \in h
  <2>1. CASE x \in P /\ y \in P /\ z \in P
    BY <2>1, <1>1, <1>5, <1>11
  <2>2. CASE x = X
    <3>1. y \in P /\ y \notin B
      BY <2>2, <1>1, <1>11
    <3>2. z \in P /\ <<y, z>> \in g
      BY <3>1, <1>1, <1>11
    <3>3. z \notin B
      BY <3>1, <3>2, <1>4 DEF P
    <3> QED BY <2>2, <3>2, <3>3, <1>1
  <2>3. CASE y = X
    <3>1. x \in B /\ x \in P /\ z \in P /\ z \notin B
      BY <2>3, <1>1, <1>11
    <3>2. ~(<<z, x>> \in g) /\ x # z
      BY <3>1, <1>4 DEF P
    <3>3. <<x, z>> \in g
      BY <3>1, <3>2, <1>5
    <3> QED BY <3>1, <3>3, <1>1
  <2>4. CASE z = X
    <3>1. y \in P /\ y \in B
      BY <2>4, <1>1, <1>11
    <3>2. CASE x \in P
      <4>1. <<x, y>> \in g
        BY <3>1, <3>2, <1>1, <1>11
      <4>2. x \in B
        BY <3>1, <3>2, <4>1, <1>4 DEF P
      <4> QED BY <2>4, <3>2, <4>2, <1>1
    <3>3. CASE x = X
      BY <3>3, <3>1, <1>1, <1>11
    <3> QED BY <3>2, <3>3, <1>1
  <2> QED BY <2>1, <2>2, <2>3, <2>4, <1>1
<1> QED BY <1>1, <1>8, <1>9, <1>10, <1>11 DEF Ordered, Q, X

\* The extended order is one of the kind.
LEMMA ExtendedCanonical ==
    ASSUME NEW O, NEW g, NEW op, NewInsert(O, g, op), NEW h, h = Extended(O, g, op)
    PROVE  Canonical(h, O \cup {op}) /\ g \subseteq h
<1> DEFINE X == op.id
           P == Places(O)
           L == op.left
           R == op.right
           w == op.id[1]
           I == {o \in O \cup {op} : o.type = "insert"}
<1>0. PICK B : B = Below(O, g, L, R, w)
  OBVIOUS
<1>1. /\ B \subseteq P /\ X \notin P /\ g \subseteq h
      /\ \A x, y \in P : <<x, y>> \in h <=> <<x, y>> \in g
      /\ \A y \in P : /\ <<y, X>> \in h <=> y \in B
                      /\ <<X, y>> \in h <=> y \notin B
      /\ <<X, X>> \notin h
  <2>1. Joined(O, g, op, X, B, h)
    BY <1>0, ExtendedIs
  <2> QED BY <2>1 DEF Joined
<1>2. Lawful(O, g) /\ Gap(O, g, L, R, w) /\ op \in Op /\ op.type = "insert"
  BY DEF NewInsert
<1>3. Closed(O, g, L, R, w, B)
  BY <1>0, <1>2, BelowClosed
<1>4. L \in P /\ R \in P /\ w \in Nat /\ L \in B /\ X # L /\ X # R
  BY <1>1, <1>2, <1>3, OpType DEF Gap, Closed
<1>5. R # None => R \notin B
  BY <1>0, <1>2, RightNotBelow
<1>6. \A o \in I : o = op \/ (o \in O /\ o.type = "insert")
  OBVIOUS
<1>7. \A o \in O : o.type = "insert" => /\ o.id \in P /\ o.left \in P /\ o.right \in P /\ <<o.left, o.id>> \in g
                                        /\ o.right # None => <<o.id, o.right>> \in g
                                        /\ o.id[1] \in Nat
  BY <1>2, LawIs
<1>8. \A x, y \in P : <<x, y>> \in g => x # y /\ <<y, x>> \notin g
  BY <1>2, LawOrder
<1> HIDE DEF X, P, L, R, w, I
<1>9. ASSUME NEW o \in I PROVE <<o.left, o.id>> \in h /\ (o.right # None => <<o.id, o.right>> \in h)
  <2>1. CASE o = op
    BY <2>1, <1>1, <1>4, <1>5 DEF X, L, R
  <2>2. CASE o \in O /\ o.type = "insert"
    BY <2>2, <1>1, <1>7
  <2> QED BY <2>1, <2>2, <1>6
<1>10. ASSUME NEW o \in I, NEW p \in I, <<p.left, o.left>> \in h, <<o.left, p.id>> \in h, <<p.id, o.id>> \in h
       PROVE  FALSE
  <2>1. CASE o = op /\ p = op
    <3>1. <<L, L>> \in g
      BY <2>1, <1>1, <1>4, <1>10 DEF L
    <3> QED BY <3>1, <1>4, <1>8
  <2>2. CASE o = op /\ p \in O /\ p.type = "insert"
    <3>1. <<p.left, L>> \in g /\ <<L, p.id>> \in g /\ p.id \in B
      BY <2>2, <1>1, <1>4, <1>7, <1>10 DEF L, X
    <3> QED BY <3>1, <2>2, <1>0, <1>2, BelowSubtree
  <2>3. CASE p = op /\ o \in O /\ o.type = "insert"
    <3>1. <<L, o.left>> \in g /\ o.left \in B /\ o.id \notin B
      BY <2>3, <1>1, <1>4, <1>7, <1>10 DEF L, X
    <3> QED BY <3>1, <2>3, <1>3 DEF Closed
  <2>4. CASE o \in O /\ o.type = "insert" /\ p \in O /\ p.type = "insert"
    <3>1. <<p.left, o.left>> \in g /\ <<o.left, p.id>> \in g /\ <<p.id, o.id>> \in g
      BY <2>4, <1>1, <1>7, <1>10
    <3> QED BY <3>1, <2>4, <1>2, LawSubtree
  <2> QED BY <2>1, <2>2, <2>3, <2>4, <1>6
<1>11. ASSUME NEW o \in I, NEW p \in I, o.left = p.left, <<o.id, p.id>> \in h,
              o.right # None => <<p.id, o.right>> \in h
       PROVE  o.id[1] < p.id[1]
  <2>1. CASE o = op /\ p = op
    BY <2>1, <1>1, <1>11 DEF X
  <2>2. CASE o = op /\ p \in O /\ p.type = "insert"
    <3>1. p.id \notin B /\ p.left = L /\ (R # None => <<p.id, R>> \in g) /\ p.id[1] \in Nat /\ <<L, p.id>> \in g
      BY <2>2, <1>1, <1>4, <1>7, <1>11 DEF L, R, X
    <3>2. ~(p.id[1] < w)
      BY <3>1, <2>2, <1>3 DEF Closed
    <3>3. p.id[1] # w
      <4>1. SUFFICES ASSUME p.id[1] = w PROVE FALSE
        OBVIOUS
      <4>2. R # None /\ (p.id = R \/ <<R, p.id>> \in g)
        BY <4>1, <3>1, <2>2, <1>2 DEF Gap
      <4> QED BY <4>2, <3>1, <2>2, <1>4, <1>7, <1>8
    <3> QED BY <3>1, <3>2, <3>3, <2>2, <1>4 DEF w
  <2>3. CASE p = op /\ o \in O /\ o.type = "insert"
    <3>1. o.left = L /\ o.id \in B /\ (o.right # None => o.right \notin B)
      BY <2>3, <1>1, <1>7, <1>11 DEF L, X
    <3>2. o.id[1] < w
      BY <3>1, <2>3, <1>0, <1>2, <1>4, BelowSibling
    <3> QED BY <3>2, <2>3 DEF w
  <2>4. CASE o \in O /\ o.type = "insert" /\ p \in O /\ p.type = "insert"
    <3>1. <<o.id, p.id>> \in g /\ (o.right # None => <<p.id, o.right>> \in g)
      BY <2>4, <1>1, <1>7, <1>11
    <3> QED BY <3>1, <2>4, <1>2, <1>11, LawSibling
  <2> QED BY <2>1, <2>2, <2>3, <2>4, <1>6
<1>12. ASSUME NEW o \in I, NEW p \in I, o.right = p.id PROVE p.left = o.left \/ <<p.left, o.left>> \in h
  <2>1. CASE p = op
    <3>1. o.right \in P
      BY <1>4, <1>6, <1>7 DEF R
    <3> QED BY <3>1, <2>1, <1>1, <1>12 DEF X
  <2>2. CASE o = op /\ p \in O /\ p.type = "insert"
    <3>1. p.left = L \/ <<p.left, L>> \in g
      BY <2>2, <1>2, <1>12 DEF Gap, R
    <3> QED BY <3>1, <2>2, <1>1, <1>4, <1>7 DEF L
  <2>3. CASE o \in O /\ o.type = "insert" /\ p \in O /\ p.type = "insert"
    <3>1. p.left = o.left \/ <<p.left, o.left>> \in g
      <4>1. Canonical(g, O)
        BY <1>2 DEF Lawful
      <4> QED BY <4>1, <2>3, <1>12, CanonicalIs
    <3> QED BY <3>1, <2>3, <1>1, <1>7
  <2> QED BY <2>1, <2>2, <2>3, <1>6
<1>13. Ordered(h, O \cup {op})
  BY ExtendedOrdered
<1> QED BY <1>1, <1>9, <1>10, <1>11, <1>12, <1>13 DEF Canonical, I

-----------------------------------------------------------------------------
(* The engines and the one order.                                          *)

\* In an engine that follows the order, positions are in it.
LEMMA PlaceOrder ==
    ASSUME NEW O, NEW g, NEW d, Following(d, O, g),
           NEW x \in Items(d) \cup {None}, NEW y \in Items(d) \cup {None}
    PROVE  Position(d, x) < Position(d, y) <=> <<x, y>> \in g
<1> DEFINE i == Position(d, x)
           j == Position(d, y)
           n == Len(d.order)
<1>1. d \in Doc /\ Canonical(g, O) /\ Ordered(g, O) /\ StreamRight(d, O) /\ Follows(d, g)
  BY DEF Following, Sound, Canonical
<1>2. Items(d) \subseteq Inserted(O)
  BY <1>1 DEF StreamRight, Inserted
<1>3. /\ i \in 0 .. n /\ j \in 0 .. n /\ n \in Nat /\ DOMAIN d.order = 1 .. n
      /\ x = None => i = 0
      /\ x # None => i \in 1 .. n /\ d.order[i].id = x
      /\ y = None => j = 0
      /\ y # None => j \in 1 .. n /\ d.order[j].id = y
  BY <1>1, PositionOf, StreamType
<1>4. /\ \A a, b : <<a, b>> \in g => a # b /\ <<b, a>> \notin g
      /\ \A a \in Inserted(O) : <<None, a>> \in g
  BY <1>1, OrderIs
<1>5. \A a, b \in 1 .. n : a < b => <<d.order[a].id, d.order[b].id>> \in g
  BY <1>1, <1>3 DEF Follows
<1> SUFFICES (i < j) <=> (<<x, y>> \in g)
  OBVIOUS
<1> HIDE DEF i, j, n
<1>6. CASE x = y
  <2>1. i = j
    BY <1>6 DEF i, j
  <2>2. ~(i < j) /\ <<x, y>> \notin g
    BY <2>1, <1>3, <1>4, <1>6
  <2> QED BY <2>2
<1>7. CASE x # y /\ x = None
  <2>1. <<x, y>> \in g /\ i < j
    BY <1>2, <1>3, <1>4, <1>7
  <2> QED BY <2>1
<1>8. CASE x # y /\ y = None
  <2>1. ~(i < j)
    BY <1>3, <1>8
  <2>2. <<None, x>> \in g
    BY <1>2, <1>4, <1>8
  <2>3. <<x, y>> \notin g
    BY <2>2, <1>4, <1>8
  <2> QED BY <2>1, <2>3
<1>9. CASE x # y /\ x # None /\ y # None
  <2>1. i \in 1 .. n /\ j \in 1 .. n /\ d.order[i].id = x /\ d.order[j].id = y
    BY <1>3, <1>9
  <2>2. i # j
    BY <2>1, <1>9
  <2>3. CASE i < j
    <3>1. <<x, y>> \in g
      BY <2>1, <2>3, <1>5
    <3> QED BY <3>1, <2>3
  <2>4. CASE j < i
    <3>1. <<y, x>> \in g
      BY <2>1, <2>4, <1>5
    <3>2. <<x, y>> \notin g /\ ~(i < j)
      BY <3>1, <2>1, <2>4, <1>3, <1>4
    <3> QED BY <3>2
  <2> QED BY <2>1, <2>2, <2>3, <2>4, <1>3
<1> QED BY <1>6, <1>7, <1>8, <1>9

\* The engines of the invariant follow the order of all items.
LEMMA AllFollow ==
    ASSUME CrdtInv, NEW g, Agreed(g), NEW r \in Replicas, NEW d \in {doc[r], saved[r]}
    PROVE  Following(d, ops, g)
<1>1. Distinct(ops)
  <2>1. Good(ops, {}, Top)
    BY InvGood
  <2> QED BY <2>1 DEF Good
<1>2. d \in Doc /\ Sound(d, ops)
  BY DEF CrdtInv, TypeOK, EngineInv
<1>3. Canonical(g, ops)
  BY DEF Agreed
<1>4. Follows(doc[r], g) /\ Follows(saved[r], g)
  BY DEF Agreed
<1> QED BY <1>1, <1>2, <1>3, <1>4 DEF Following

\* So every operation has its anchors in it.
LEMMA OpsLawful ==
    ASSUME CrdtInv, NEW g, Agreed(g)
    PROVE  Lawful(ops, g)
<1>1. Distinct(ops) /\ Canonical(g, ops)
  <2>1. Good(ops, {}, Top)
    BY InvGood
  <2> QED BY <2>1 DEF Good, Agreed
<1>2. ASSUME NEW o \in ops, o.type = "insert" PROVE {o.left, o.right} \subseteq Places(ops)
  <2>1. \A x \in Needs(o) : \E p \in ops : p.type = "insert" /\ p.id = x
    BY DEF CrdtInv, OpsInv
  <2>2. \A x \in {o.left, o.right} \ {None} : x \in Inserted(ops)
    BY <2>1, <1>2 DEF Needs, Inserted
  <2> QED BY <2>2 DEF Places
<1> QED BY <1>1, <1>2 DEF Lawful

\* The item in an engine with the id of an insert that was applied is that insert.
LEMMA AppliedItem ==
    ASSUME NEW O, NEW d, Sound(d, O), Distinct(O), NEW o \in O, o.type = "insert"
    PROVE  /\ o.id \in Items(d) <=> o.id \in d.applied
           /\ o.id \in Items(d) => {o.left, o.right} \subseteq Items(d) \cup {None}
<1>1. Items(d) = Inserted({p \in O : p.id \in d.applied})
  BY DEF Sound, StreamRight
<1>2. o.id \in Items(d) <=> o.id \in d.applied
  BY <1>1 DEF Inserted, Distinct
<1>3. o.id \in d.applied => Ready(d, o)
  BY DEF Sound
<1> QED BY <1>2, <1>3 DEF Ready

\* A local insert is made in a gap of the order: its author has all that it made
\* before, and the left anchor of the item after the gap is in its stream.
LEMMA InsertGap ==
    ASSUME CrdtInv, ReplicaInv, NEW g, Agreed(g), NEW r \in Replicas, NEW i \in Nat, i <= Len(doc[r].order),
           NEW L, L = (IF i \in DOMAIN doc[r].order THEN doc[r].order[i].id ELSE None),
           NEW R, R = (IF i + 1 \in DOMAIN doc[r].order THEN doc[r].order[i + 1].id ELSE None)
    PROVE  Gap(ops, g, L, R, r)
<1> DEFINE d == doc[r]
           n == Len(d.order)
           at(x) == Position(d, x)
<1>1. Following(d, ops, g)
  BY AllFollow
<1>2. d \in Doc /\ Sound(d, ops) /\ Distinct(ops) /\ StreamRight(d, ops) /\ Unique(d)
  BY <1>1 DEF Following, Sound, StreamRight, Unique
<1>3. n \in Nat /\ DOMAIN d.order = 1 .. n /\ Items(d) \subseteq Ids /\ \A k \in 1 .. n : d.order[k].id \in Items(d)
  BY <1>2, StreamType DEF Items
<1>4. Items(d) \subseteq Inserted(ops)
  BY <1>2 DEF StreamRight, Inserted
<1>5. \A k \in 1 .. n : at(d.order[k].id) = k
  BY <1>2, PositionIs
<1>6. at(None) = 0
  BY <1>2, PositionOf
<1>7. \A x \in Items(d) \cup {None}, y \in Items(d) \cup {None} : at(x) < at(y) <=> <<x, y>> \in g
  BY <1>1, PlaceOrder
<1>8. \A x \in Items(d) \cup {None} : /\ at(x) \in 0 .. n
                                      /\ x # None => at(x) \in 1 .. n /\ d.order[at(x)].id = x
  BY <1>2, PositionOf
<1>9. n = Len(doc[r].order) /\ i <= n /\ d = doc[r]
  OBVIOUS
<1> HIDE DEF n, at
<1>10. L \in Items(d) \cup {None} /\ at(L) = i
  <2>1. CASE i \in 1 .. n
    BY <2>1, <1>3, <1>5
  <2>2. CASE i \notin 1 .. n
    <3>1. i = 0 /\ L = None
      BY <2>2, <1>3, <1>9
    <3> QED BY <3>1, <1>6
  <2> QED BY <2>1, <2>2
<1>11. /\ R \in Items(d) \cup {None}
       /\ R # None => i + 1 \in 1 .. n /\ at(R) = i + 1 /\ R = d.order[i + 1].id
       /\ i + 1 \in 1 .. n => R # None
  <2>1. CASE i + 1 \in 1 .. n
    BY <2>1, <1>3, <1>5, IdFacts
  <2>2. CASE i + 1 \notin 1 .. n
    BY <2>2, <1>3
  <2> QED BY <2>1, <2>2
<1> HIDE DEF d
<1>12. L \in Places(ops) /\ R \in Places(ops)
  BY <1>4, <1>10, <1>11 DEF Places
<1>13. R # None => <<L, R>> \in g
  BY <1>7, <1>10, <1>11
<1>14. ASSUME NEW p \in ops, p.type = "insert", p.id = R PROVE p.left = L \/ <<p.left, L>> \in g
  <2>1. p \in Op /\ p.id # None
    BY <1>2, OpType, IdFacts DEF Distinct
  <2>2. R # None /\ at(R) = i + 1 /\ R \in Items(d)
    BY <2>1, <1>11, <1>14
  <2>3. p.left \in Items(d) \cup {None}
    BY <2>2, <1>2, <1>14, AppliedItem
  <2>4. <<p.left, R>> \in g
    <3>1. Canonical(g, ops)
      BY DEF Agreed
    <3> QED BY <3>1, <1>14, CanonicalIs
  <2>5. at(p.left) < i + 1 /\ at(p.left) \in Nat
    <3>1. at(p.left) < at(R)
      BY <2>2, <2>3, <2>4, <1>7
    <3>2. at(p.left) \in 0 .. n
      BY <2>3, <1>8
    <3> QED BY <3>1, <3>2, <2>2, <1>3
  <2>6. CASE at(p.left) < i
    <3>1. at(p.left) < at(L)
      BY <2>6, <1>10
    <3> QED BY <3>1, <2>3, <1>7, <1>10
  <2>7. CASE at(p.left) = i
    <3>1. CASE i = 0
      <4>1. p.left = None /\ L = None
        BY <3>1, <2>3, <2>7, <1>8, <1>10
      <4> QED BY <4>1
    <3>2. CASE i # 0
      <4>1. p.left # None /\ L # None
        BY <3>2, <2>7, <1>6, <1>10
      <4>2. p.left = d.order[i].id /\ L = d.order[i].id
        BY <4>1, <2>3, <2>7, <1>8, <1>10
      <4> QED BY <4>2
    <3> QED BY <3>1, <3>2
  <2> QED BY <2>5, <2>6, <2>7
<1>15. ASSUME NEW o \in ops, o.type = "insert", o.id[1] = r, <<L, o.id>> \in g
       PROVE  R # None /\ (o.id = R \/ <<R, o.id>> \in g)
  <2>1. o.id \in d.applied
    BY <1>9, <1>15 DEF ReplicaInv
  <2>2. o.id \in Items(d) /\ o.id # None
    <3>1. o.id \in Ids
      BY <1>2, OpType DEF Distinct
    <3> QED BY <3>1, <2>1, <1>2, <1>15, AppliedItem, IdFacts
  <2>3. at(L) < at(o.id) /\ at(o.id) \in 1 .. n /\ d.order[at(o.id)].id = o.id
    BY <2>2, <1>7, <1>8, <1>10, <1>15
  <2>4. i + 1 \in 1 .. n /\ i + 1 <= at(o.id)
    BY <2>3, <1>3, <1>10
  <2>5. R # None /\ at(R) = i + 1 /\ R = d.order[i + 1].id /\ R \in Items(d)
    BY <2>4, <1>11
  <2>6. CASE at(o.id) = i + 1
    BY <2>3, <2>5, <2>6
  <2>7. CASE i + 1 < at(o.id)
    <3>1. at(R) < at(o.id)
      BY <2>5, <2>7
    <3> QED BY <3>1, <2>2, <2>5, <1>7
  <2> QED BY <2>3, <2>4, <2>5, <2>6, <2>7, <1>3
<1> QED BY <1>12, <1>13, <1>14, <1>15 DEF Gap

-----------------------------------------------------------------------------
(* The step of the one order.                                              *)

\* A settled engine that holds everything another one has integrated has
\* integrated it too: the eldest operation it lacks would be ready.
LEMMA AppliedAgain ==
    ASSUME CrdtInv, NEW r \in Replicas, NEW d \in {doc[r], saved[r]},
           NEW e, Right(e, ops, {}, Top), Settled(e), d.applied \subseteq Held(e)
    PROVE  d.applied \subseteq e.applied
<1> DEFINE T == {o \in ops : o.id \in d.applied /\ o.id \notin e.applied}
           S == {o.lamport : o \in T}
<1>1. Distinct(ops)
  <2>1. Good(ops, {}, Top)
    BY InvGood
  <2> QED BY <2>1 DEF Good
<1>2. Sound(d, ops)
  BY DEF CrdtInv, EngineInv
<1>3. Sound(e, ops) /\ e \in Doc
  BY DEF Right
<1>4. SUFFICES ASSUME T # {} PROVE FALSE
  BY <1>2 DEF Sound
<1>5. S \in SUBSET Nat /\ S # {}
  BY <1>1, <1>4, OpType DEF Distinct
<1>6. PICK m \in S : \A k \in S : m <= k
  <2> HIDE DEF S
  <2> QED BY <1>5, Least
<1>7. PICK o \in T : o.lamport = m
  OBVIOUS
<1>8. \A p \in ops : p.id \in d.applied /\ p.lamport < o.lamport => p.id \in e.applied
  <2> SUFFICES ASSUME NEW p \in ops, p.id \in d.applied, p.lamport < o.lamport, p.id \notin e.applied
               PROVE  FALSE
    OBVIOUS
  <2>1. p \in T /\ p.lamport \in S
    OBVIOUS
  <2>2. o.lamport <= p.lamport
    BY <1>6, <1>7, <2>1
  <2>3. o.lamport \in Nat /\ p.lamport \in Nat
    BY <1>1, OpType DEF Distinct
  <2> QED BY <2>2, <2>3
<1>9. o \in ops /\ o.id \in d.applied /\ o.id \notin e.applied
  OBVIOUS
<1> HIDE DEF T, S
<1>10. \A x \in Needs(o) : x \in Items(d) => x \in Items(e)
  <2> SUFFICES ASSUME NEW x \in Needs(o), x \in Items(d) PROVE x \in Items(e)
    OBVIOUS
  <2>1. PICK p \in ops : p.type = "insert" /\ p.id = x /\ p.lamport < o.lamport
    BY <1>9 DEF CrdtInv, OpsInv
  <2>2. p.id \in d.applied
    BY <2>1, <1>1, <1>2, AppliedItem
  <2>3. p.id \in e.applied
    BY <2>1, <2>2, <1>8
  <2> QED BY <2>1, <2>3, <1>1, <1>3, AppliedItem
<1>11. Ready(d, o)
  BY <1>2, <1>9 DEF Sound
<1>12. Ready(e, o)
  <2>1. CASE o.type = "insert"
    <3>1. {o.left, o.right} \subseteq Items(d) \cup {None}
      BY <2>1, <1>11 DEF Ready
    <3>2. {o.left, o.right} \subseteq Items(e) \cup {None}
      BY <2>1, <3>1, <1>10 DEF Needs
    <3> QED BY <2>1, <3>2 DEF Ready
  <2>2. CASE o.type # "insert"
    BY <2>2, <1>10, <1>11 DEF Ready, Needs
  <2> QED BY <2>1, <2>2
<1>13. PICK i \in DOMAIN e.pending : e.pending[i].id = o.id
  BY <1>9 DEF Held
<1>14. e.pending[i] = o
  BY <1>1, <1>3, <1>9, <1>13 DEF Sound, Distinct
<1> QED BY <1>12, <1>13, <1>14 DEF Settled

\* What a step leaves of the replicas and of the order.
Onward(g) ==
    /\ SurvivesReload'
    /\ \A r \in Replicas, o \in ops' : o.id[1] = r => o.id \in doc'[r].applied
    /\ \E h : /\ g \subseteq h /\ Canonical(h, ops')
              /\ \A r \in Replicas : Follows(doc'[r], h) /\ Follows(saved'[r], h)

\* An engine that follows an order follows one that contains it.
LEMMA FollowsMore ==
    ASSUME NEW d, NEW g, NEW h, g \subseteq h, Follows(d, g) PROVE Follows(d, h)
BY DEF Follows

\* A step in which replica r alone changes its engine to e, its snapshot to s
\* and its log to l.
Alone(r, e, s, l) ==
    /\ doc' = [doc EXCEPT ![r] = e] /\ saved' = [saved EXCEPT ![r] = s] /\ log' = [log EXCEPT ![r] = l]
    /\ Held(e) \subseteq Held(s) \cup {o.id : o \in l}
    /\ \A o \in ops' : o.id[1] = r => o.id \in e.applied

\* Such a step loses nothing.
LEMMA AloneKeeps ==
    ASSUME CrdtInv, ReplicaInv, NEW r \in Replicas, NEW e, NEW s, NEW l, Alone(r, e, s, l),
           \A o \in ops' : o \in ops \/ o.id[1] = r,
           NEW g, NEW h, g \subseteq h, Canonical(h, ops'), Agreed(g), Follows(e, h), Follows(s, h)
    PROVE  Onward(g)
<1>1. /\ doc' = [doc EXCEPT ![r] = e] /\ saved' = [saved EXCEPT ![r] = s] /\ log' = [log EXCEPT ![r] = l]
      /\ Held(e) \subseteq Held(s) \cup {o.id : o \in l}
      /\ \A o \in ops' : o.id[1] = r => o.id \in e.applied
  BY DEF Alone
<1>2. /\ \A t \in Replicas : doc'[t] = IF t = r THEN e ELSE doc[t]
      /\ \A t \in Replicas : saved'[t] = IF t = r THEN s ELSE saved[t]
      /\ \A t \in Replicas : log'[t] = IF t = r THEN l ELSE log[t]
  BY <1>1 DEF CrdtInv, TypeOK
<1>3. /\ \A t \in Replicas : Held(doc[t]) \subseteq Held(saved[t]) \cup {o.id : o \in log[t]}
      /\ \A t \in Replicas, o \in ops : o.id[1] = t => o.id \in doc[t].applied
  BY DEF ReplicaInv, SurvivesReload
<1>4. ASSUME NEW t \in Replicas
      PROVE  Held(doc'[t]) \subseteq Held(saved'[t]) \cup {o.id : o \in log'[t]}
  <2>1. CASE t = r
    <3>1. doc'[t] = e /\ saved'[t] = s /\ log'[t] = l
      BY <2>1, <1>2
    <3> QED BY <3>1, <1>1
  <2>2. CASE t # r
    <3>1. doc'[t] = doc[t] /\ saved'[t] = saved[t] /\ log'[t] = log[t]
      BY <2>2, <1>2
    <3> QED BY <3>1, <1>3
  <2> QED BY <2>1, <2>2
<1>5. SurvivesReload'
  BY <1>4 DEF SurvivesReload, Held
<1>6. ASSUME NEW t \in Replicas, NEW o \in ops', o.id[1] = t PROVE o.id \in doc'[t].applied
  <2>1. CASE t = r
    BY <2>1, <1>1, <1>2, <1>6
  <2>2. CASE t # r
    BY <2>2, <1>2, <1>3, <1>6
  <2> QED BY <2>1, <2>2
<1>7. ASSUME NEW t \in Replicas PROVE Follows(doc'[t], h) /\ Follows(saved'[t], h)
  <2>1. Follows(doc[t], h) /\ Follows(saved[t], h)
    BY FollowsMore DEF Agreed
  <2> QED BY <2>1, <1>2
<1> QED BY <1>5, <1>6, <1>7 DEF Onward

\* A local operation: an insert takes its place in the order.
LEMMA GenerateOnward ==
    ASSUME CrdtInv, ReplicaInv, NEW r \in Replicas, NEW op, Made(r, op), Generate(r, op),
           NEW g, Agreed(g), NEW h, g \subseteq h, Canonical(h, Grown(op))
    PROVE  Onward(g)
<1>1. /\ Cardinality(ops) < MaxOps /\ ops' = Grown(op) /\ saved' = saved /\ log' = [log EXCEPT ![r] = @ \cup {op}]
  BY DEF Generate, Grown
<1>2. PICK f : Ticked(doc[r], op, f) /\ doc' = [doc EXCEPT ![r] = RetryPending(Place(f, op))]
  BY DEF Generate, Ticked
<1>3. PICK e : e = RetryPending(Place(f, op))
  OBVIOUS
<1>4. doc' = [doc EXCEPT ![r] = e]
  BY <1>2, <1>3
<1>5. Follows(doc[r], h) /\ Follows(saved[r], h)
  BY FollowsMore DEF Agreed
<1>6. Generated(r, op, {h}, e)
  <2>1. \A k \in {h} : Canonical(k, Grown(op)) /\ Follows(doc[r], k)
    BY <1>5
  <2> QED BY <1>1, <1>2, <1>3, <2>1, GeneratedRight
<1>7. Right(e, Grown(op), {h}, Top + 3) /\ doc[r].applied \subseteq e.applied /\ op.id \in e.applied
      /\ Held(e) = Held(doc[r]) \cup {op.id}
  BY <1>6 DEF Generated
<1>8. Follows(e, h)
  BY <1>7 DEF Right
<1>9. saved' = [saved EXCEPT ![r] = saved[r]] /\ log' = [log EXCEPT ![r] = log[r] \cup {op}]
  BY <1>1 DEF CrdtInv, TypeOK
<1>10. Held(e) \subseteq Held(saved[r]) \cup {o.id : o \in log[r] \cup {op}}
  BY <1>7 DEF ReplicaInv, SurvivesReload
<1>11. \A o \in ops' : o.id[1] = r => o.id \in e.applied
  BY <1>1, <1>7 DEF ReplicaInv, Grown
<1>12. \A o \in ops' : o \in ops \/ o.id[1] = r
  BY <1>1 DEF Grown, Made
<1>13. Alone(r, e, saved[r], log[r] \cup {op})
  BY <1>4, <1>9, <1>10, <1>11 DEF Alone
<1> QED BY <1>1, <1>5, <1>8, <1>12, <1>13, AloneKeeps

\* A local insert: the order takes it in.
LEMMA InsertOnward ==
    ASSUME CrdtInv, ReplicaInv, NEW r \in Replicas, NEW i \in 0 .. MaxOps, NEW init \in BOOLEAN,
           LocalInsert(r, i, init), NEW g, Agreed(g)
    PROVE  Onward(g)
<1>1. PICK op : /\ Made(r, op) /\ op.type = "insert" /\ Generate(r, op)
                /\ i <= Len(doc[r].order)
                /\ op.left = (IF i \in DOMAIN doc[r].order THEN doc[r].order[i].id ELSE None)
                /\ op.right = (IF i + 1 \in DOMAIN doc[r].order THEN doc[r].order[i + 1].id ELSE None)
  BY MakesInsert
<1>2. i \in Nat
  BY MaxOpsAssumption
<1>3. Gap(ops, g, op.left, op.right, r)
  BY <1>1, <1>2, InsertGap
<1>4. op \in Op /\ op.id[1] = r /\ \A o \in ops : o.id # op.id
  BY <1>1, MadeFresh DEF Made
<1>5. Lawful(ops, g)
  BY OpsLawful
<1>6. NewInsert(ops, g, op)
  BY <1>1, <1>3, <1>4, <1>5 DEF NewInsert
<1>7. PICK h : h = Extended(ops, g, op)
  OBVIOUS
<1>8. Canonical(h, Grown(op)) /\ g \subseteq h
  BY <1>6, <1>7, ExtendedCanonical DEF Grown
<1> QED BY <1>1, <1>8, GenerateOnward

\* Another local operation leaves it as it is.
LEMMA OtherOnward ==
    ASSUME CrdtInv, ReplicaInv, NEW r \in Replicas, NEW i \in 1 .. MaxOps,
           LocalDelete(r, i) \/ LocalSetAttr(r, i), NEW g, Agreed(g)
    PROVE  Onward(g)
<1>1. PICK op : Made(r, op) /\ op.type # "insert" /\ Generate(r, op)
  BY MakesOther
<1>2. {o \in Grown(op) : o.type = "insert"} = {o \in ops : o.type = "insert"}
  BY <1>1 DEF Grown
<1>3. Inserted(Grown(op)) = Inserted(ops)
  BY <1>2 DEF Inserted
<1>4. Canonical(g, ops)
  BY DEF Agreed
<1>5. Ordered(g, Grown(op))
  BY <1>3, <1>4 DEF Canonical, Ordered, Places
<1>6. Canonical(g, Grown(op))
  BY <1>2, <1>4, <1>5 DEF Canonical
<1> QED BY <1>1, <1>6, GenerateOnward

\* So does a request of one operation.
LEMMA DeliverOnward ==
    ASSUME CrdtInv, ReplicaInv, NEW r \in Replicas, NEW n \in 1 .. MaxBatch, MaxBatch = 1,
           NEW batch \in [1 .. n -> ops], Deliver(r, batch), NEW g, Agreed(g)
    PROVE  Onward(g)
<1>1. Len(batch) = 1
  <2>1. n = 1
    OBVIOUS
  <2> QED BY <2>1, BatchIs
<1>2. Canonical(g, ops) /\ Follows(doc[r], g) /\ Follows(saved[r], g)
  BY DEF Agreed
<1>3. \E d, l : Delivered(r, batch, {g}, d, l)
  <2>1. \A k \in {g} : Canonical(k, ops) /\ Follows(doc[r], k)
    BY <1>2
  <2> QED BY <2>1, DeliverIs
<1>4. PICK d, l : Delivered(r, batch, {g}, d, l)
  BY <1>3
<1>5. /\ Right(d, ops, {g}, Top) /\ Kept(doc[r], d) /\ log[r] \subseteq l
      /\ Held(d) \subseteq Held(doc[r]) \cup {o.id : o \in l}
      /\ doc' = [doc EXCEPT ![r] = d] /\ log' = [log EXCEPT ![r] = l]
      /\ saved' = saved /\ ops' = ops
  BY <1>1, <1>4 DEF Delivered
<1>6. Follows(d, g) /\ doc[r].applied \subseteq d.applied
  BY <1>5 DEF Right, Kept
<1>7. saved' = [saved EXCEPT ![r] = saved[r]]
  BY <1>5 DEF CrdtInv, TypeOK
<1>8. Held(d) \subseteq Held(saved[r]) \cup {o.id : o \in l}
  <2>1. Held(doc[r]) \subseteq Held(saved[r]) \cup {o.id : o \in log[r]}
    BY DEF ReplicaInv, SurvivesReload
  <2>2. {o.id : o \in log[r]} \subseteq {o.id : o \in l}
    BY <1>5
  <2> QED BY <2>1, <2>2, <1>5
<1>9. \A o \in ops' : o.id[1] = r => o.id \in d.applied
  BY <1>5, <1>6 DEF ReplicaInv
<1>10. Alone(r, d, saved[r], l)
  BY <1>5, <1>7, <1>8, <1>9 DEF Alone
<1> QED BY <1>2, <1>5, <1>6, <1>10, AloneKeeps

\* An engine that is built again from a snapshot that has, with the log, all the
\* stored one has, misses nothing.
LEMMA RebuildOnward ==
    ASSUME CrdtInv, ReplicaInv, NEW r \in Replicas, NEW q \in Replicas, NEW base \in {doc[q], saved[q]},
           Rebuild(r, base), saved' = [saved EXCEPT ![r] = base],
           Held(saved[r]) \subseteq Held(base) \cup {o.id : o \in log[r]},
           NEW g, Agreed(g)
    PROVE  Onward(g)
<1>1. Canonical(g, ops) /\ Follows(base, g)
  BY DEF Agreed
<1>2. EngineRight(base, ops, {g}, Top) /\ base.next <= Cardinality(ops) + 1
  BY <1>1, InvEngine
<1>3. \E e : Rebuilt(r, base, {g}, e)
  <2>1. \A k \in {g} : Canonical(k, ops)
    BY <1>1
  <2>2. Right(base, ops, {g}, Top) /\ Settled(base)
    BY <1>2 DEF EngineRight
  <2> QED BY <2>1, <2>2, <1>2, RebuildIs
<1>4. PICK e : Rebuilt(r, base, {g}, e)
  BY <1>3
<1>5. /\ Right(e, ops, {g}, Top) /\ Settled(e)
      /\ Held(e) = Held(base) \cup {o.id : o \in log[r]}
      /\ doc' = [doc EXCEPT ![r] = e] /\ log' = log /\ ops' = ops
  BY <1>4 DEF Rebuilt
<1>6. Follows(e, g) /\ Right(e, ops, {}, Top)
  BY <1>5 DEF Right
<1>7. doc[r].applied \subseteq Held(e)
  <2>1. doc[r].applied \subseteq Held(doc[r])
    BY DEF Held
  <2>2. Held(doc[r]) \subseteq Held(saved[r]) \cup {o.id : o \in log[r]}
    BY DEF ReplicaInv, SurvivesReload
  <2> QED BY <2>1, <2>2, <1>5
<1>8. doc[r].applied \subseteq e.applied
  BY <1>5, <1>6, <1>7, AppliedAgain
<1>9. log' = [log EXCEPT ![r] = log[r]]
  BY <1>5 DEF CrdtInv, TypeOK
<1>10. \A o \in ops' : o.id[1] = r => o.id \in e.applied
  BY <1>5, <1>8 DEF ReplicaInv
<1>11. Alone(r, e, base, log[r])
  BY <1>5, <1>9, <1>10 DEF Alone
<1> QED BY <1>1, <1>5, <1>6, <1>11, AloneKeeps

\* Nor does one whose snapshot is stored.
LEMMA SaveOnward ==
    ASSUME CrdtInv, ReplicaInv, NEW r \in Replicas, SaveSnapshot(r), NEW g, Agreed(g)
    PROVE  Onward(g)
<1>1. /\ saved' = [saved EXCEPT ![r] = doc[r]] /\ doc' = doc /\ log' = log /\ ops' = ops
  BY DEF SaveSnapshot
<1>2. doc' = [doc EXCEPT ![r] = doc[r]] /\ log' = [log EXCEPT ![r] = log[r]]
  BY <1>1 DEF CrdtInv, TypeOK
<1>3. \A o \in ops' : o.id[1] = r => o.id \in doc[r].applied
  BY <1>1 DEF ReplicaInv
<1>4. Alone(r, doc[r], doc[r], log[r])
  BY <1>1, <1>2, <1>3 DEF Alone
<1>5. Canonical(g, ops') /\ Follows(doc[r], g)
  BY <1>1 DEF Agreed
<1> QED BY <1>1, <1>4, <1>5, AloneKeeps

\* Every step goes on in one order.
LEMMA OrderStep ==
    ASSUME MaxBatch = 1, CrdtInv, ReplicaInv, NEW g, Agreed(g), [Next]_vars
    PROVE  Onward(g)
<1>1. ASSUME NEW r \in Replicas, NEW i \in 0 .. MaxOps, NEW init \in BOOLEAN, LocalInsert(r, i, init)
      PROVE  Onward(g)
  BY <1>1, InsertOnward
<1>2. ASSUME NEW r \in Replicas, NEW i \in 1 .. MaxOps, LocalDelete(r, i) \/ LocalSetAttr(r, i)
      PROVE  Onward(g)
  BY <1>2, OtherOnward
<1>3. ASSUME NEW r \in Replicas, NEW n \in 1 .. MaxBatch, NEW batch \in [1 .. n -> ops], Deliver(r, batch)
      PROVE  Onward(g)
  BY <1>3, DeliverOnward
<1>4. ASSUME NEW r \in Replicas, SaveSnapshot(r) PROVE Onward(g)
  BY <1>4, SaveOnward
<1>5. ASSUME NEW r \in Replicas, Reload(r) PROVE Onward(g)
  <2>1. Rebuild(r, saved[r]) /\ saved' = [saved EXCEPT ![r] = saved[r]]
    BY <1>5 DEF Reload, CrdtInv, TypeOK
  <2> QED BY <2>1, RebuildOnward
<1>6. ASSUME NEW r \in Replicas, NEW e \in Replicas \ {r}, Import(r, e) PROVE Onward(g)
  <2>1. /\ Rebuild(r, doc[e]) /\ saved' = [saved EXCEPT ![r] = doc[e]]
        /\ Held(saved[r]) \subseteq Held(doc[e]) \cup {o.id : o \in log[r]}
    BY <1>6 DEF Import
  <2> QED BY <2>1, RebuildOnward
<1>7. ASSUME UNCHANGED vars PROVE Onward(g)
  <2>1. doc' = doc /\ saved' = saved /\ log' = log /\ ops' = ops
    BY <1>7 DEF vars
  <2>2. SurvivesReload'
    BY <2>1 DEF ReplicaInv, SurvivesReload, Held
  <2>3. \A r \in Replicas, o \in ops' : o.id[1] = r => o.id \in doc'[r].applied
    BY <2>1 DEF ReplicaInv
  <2>4. Canonical(g, ops') /\ \A r \in Replicas : Follows(doc'[r], g) /\ Follows(saved'[r], g)
    BY <2>1 DEF Agreed
  <2> QED BY <2>2, <2>3, <2>4 DEF Onward
<1> QED BY <1>1, <1>2, <1>3, <1>4, <1>5, <1>6, <1>7 DEF Next

\* The empty order, at the beginning.
LEMMA OrderBegins == ASSUME Init PROVE OneOrder
<1>1. /\ ops = {} /\ \A r \in Replicas : doc[r] = EmptyDoc /\ saved[r] = EmptyDoc /\ log[r] = {}
  BY DEF Init
<1>2. EmptyDoc.order = <<>> /\ EmptyDoc.applied = {} /\ EmptyDoc.pending = <<>>
  BY DEF EmptyDoc
<1>3. Held(EmptyDoc) = {}
  BY <1>2 DEF Held
<1>4. ReplicaInv
  BY <1>1, <1>3 DEF ReplicaInv, SurvivesReload
<1>5. Places(ops) = {None} /\ Inserted(ops) = {}
  BY <1>1 DEF Places, Inserted
<1>6. Ordered({}, ops)
  BY <1>5 DEF Ordered
<1>7. Canonical({}, ops)
  BY <1>1, <1>6 DEF Canonical
<1>8. Follows(EmptyDoc, {})
  BY <1>2 DEF Follows
<1>9. Agreed({})
  BY <1>1, <1>7, <1>8 DEF Agreed
<1> QED BY <1>4, <1>9 DEF OneOrder

\* A step of the system extends the one order.
LEMMA OneOrderStep ==
    ASSUME MaxBatch = 1, CrdtInv, OneOrder, [Next]_vars
    PROVE  OneOrder'
<1>1. ReplicaInv
  BY DEF OneOrder
<1>2. PICK g : Agreed(g)
  BY DEF OneOrder
<1>3. Onward(g)
  BY <1>1, <1>2, OrderStep
<1>4. PICK h : /\ Canonical(h, ops')
               /\ \A r \in Replicas : Follows(doc'[r], h) /\ Follows(saved'[r], h)
  BY <1>3 DEF Onward
<1>5. h \in SUBSET (Places(ops') \X Places(ops'))
  BY <1>4 DEF Canonical, Ordered
<1>6. h \in SUBSET (Places(ops)' \X Places(ops)')
  BY <1>5 DEF Places, Inserted
<1>7. Agreed(h)'
  BY <1>4 DEF Agreed, Canonical, Ordered, Places, Inserted, Follows
<1>8. ReplicaInv'
  BY <1>3 DEF Onward, ReplicaInv
<1> QED BY <1>6, <1>7, <1>8 DEF OneOrder

\* There is one order of all items.
THEOREM OneOrderHolds == ASSUME MaxBatch = 1 PROVE Spec => [](CrdtInv /\ OneOrder)
<1>1. Init => CrdtInv /\ OneOrder
  BY CrdtBegins, OrderBegins
<1>2. CrdtInv /\ OneOrder /\ [Next]_vars => (CrdtInv /\ OneOrder)'
  BY CrdtStep, OneOrderStep
<1> QED BY <1>1, <1>2, PTL DEF Spec

-----------------------------------------------------------------------------
(* What follows from the one order.                                        *)

\* In the one order an item stands between its anchors, so it does in every stream.
LEMMA OneOrderBetween == ASSUME CrdtInv, OneOrder PROVE BetweenAnchors
<1>1. PICK g : Agreed(g)
  BY DEF OneOrder
<1>2. SUFFICES ASSUME NEW r \in Replicas, NEW o \in ops, o.type = "insert", o.id \in Items(doc[r])
               PROVE  LET d == doc[r]
                          p == Position(d, o.id)
                      IN  /\ Position(d, o.left) < p
                          /\ o.right # None => p < Position(d, o.right)
  BY DEF BetweenAnchors
<1>3. Following(doc[r], ops, g)
  BY <1>1, AllFollow
<1>4. Sound(doc[r], ops) /\ Distinct(ops) /\ Canonical(g, ops)
  BY <1>3 DEF Following
<1>5. {o.left, o.right} \subseteq Items(doc[r]) \cup {None}
  BY <1>2, <1>4, AppliedItem
<1>6. <<o.left, o.id>> \in g /\ (o.right # None => <<o.id, o.right>> \in g)
  BY <1>2, <1>4, CanonicalIs
<1>7. Position(doc[r], o.left) < Position(doc[r], o.id)
  BY <1>2, <1>3, <1>5, <1>6, PlaceOrder
<1>8. o.right # None => Position(doc[r], o.id) < Position(doc[r], o.right)
  BY <1>2, <1>3, <1>5, <1>6, PlaceOrder
<1> QED BY <1>7, <1>8

\* Two streams of the same items that follow the same order do not differ at any
\* place: not at the first at which they do.
LEMMA SameStream ==
    ASSUME NEW O, NEW g, NEW d, NEW e, Following(d, O, g), Following(e, O, g), Items(d) = Items(e),
           NEW k \in Nat, k >= 1, k <= Len(d.order),
           \A j \in 1 .. (k - 1) : j <= Len(d.order) /\ j <= Len(e.order) /\ d.order[j].id = e.order[j].id
    PROVE  \/ k <= Len(e.order) /\ d.order[k].id = e.order[k].id
           \/ \E j \in 1 .. Len(e.order) : j > k /\ e.order[j].id = d.order[k].id
<1>1. d \in Doc /\ e \in Doc /\ Sound(d, O) /\ StreamRight(d, O)
  BY DEF Following, Sound
<1>2. /\ Len(d.order) \in Nat /\ DOMAIN d.order = 1 .. Len(d.order)
      /\ Len(e.order) \in Nat /\ DOMAIN e.order = 1 .. Len(e.order)
  BY <1>1, StreamType
<1>3. d.order[k].id \in Items(e) /\ k \in DOMAIN d.order
  <2>1. k \in DOMAIN d.order
    BY <1>2
  <2>2. d.order[k].id \in Items(d)
    BY <2>1 DEF Items
  <2> QED BY <2>1, <2>2
<1>4. PICK j \in DOMAIN e.order : e.order[j].id = d.order[k].id
  BY <1>3 DEF Items
<1>5. j >= k
  <2>1. SUFFICES ASSUME j < k PROVE FALSE
    BY <1>2
  <2>2. j \in 1 .. (k - 1)
    BY <2>1, <1>2
  <2>3. d.order[j].id = d.order[k].id /\ j \in DOMAIN d.order
    BY <2>2, <1>2, <1>4
  <2> QED BY <2>1, <2>3, <1>1, <1>2, <1>3 DEF StreamRight
<1>6. CASE j = k
  <2>1. k <= Len(e.order)
    BY <1>2, <1>6
  <2>2. d.order[k].id = e.order[k].id
    BY <1>4, <1>6
  <2> QED BY <2>1, <2>2
<1>7. CASE j > k
  BY <1>2, <1>4, <1>7
<1> QED BY <1>2, <1>5, <1>6, <1>7

\* Two engines with the same items that follow the same order have the same stream.
LEMMA SameOrder ==
    ASSUME NEW O, NEW g, NEW d, NEW e, Following(d, O, g), Following(e, O, g), Items(d) = Items(e)
    PROVE  d.order = e.order
<1> DEFINE n == Len(d.order)
           m == Len(e.order)
           B == {k \in Nat : k >= 1 /\ (k <= n \/ k <= m)
                             /\ ~(k <= n /\ k <= m /\ d.order[k].id = e.order[k].id)}
<1>1. /\ d \in Doc /\ e \in Doc /\ Sound(d, O) /\ Sound(e, O) /\ StreamRight(d, O) /\ StreamRight(e, O)
      /\ Canonical(g, O) /\ Ordered(g, O) /\ Follows(d, g) /\ Follows(e, g)
  BY DEF Following, Sound, Canonical
<1>2. /\ n \in Nat /\ DOMAIN d.order = 1 .. n /\ m \in Nat /\ DOMAIN e.order = 1 .. m
      /\ d.order \in Seq(Entry) /\ e.order \in Seq(Entry)
  BY <1>1, StreamType
<1>3. \A x, y : <<x, y>> \in g => <<y, x>> \notin g
  BY <1>1, OrderIs
<1>4. B = {}
  <2>1. SUFFICES ASSUME B # {} PROVE FALSE
    OBVIOUS
  <2>2. PICK k \in B : \A j \in B : k <= j
    <3>1. B \in SUBSET Nat
      OBVIOUS
    <3> HIDE DEF B
    <3> QED BY <3>1, <2>1, Least
  <2>3. /\ k \in Nat /\ k >= 1 /\ (k <= n \/ k <= m)
        /\ ~(k <= n /\ k <= m /\ d.order[k].id = e.order[k].id)
    OBVIOUS
  <2>4. \A j \in 1 .. (k - 1) : j <= n /\ j <= m /\ d.order[j].id = e.order[j].id
    <3> SUFFICES ASSUME NEW j \in 1 .. (k - 1) PROVE j <= n /\ j <= m /\ d.order[j].id = e.order[j].id
      OBVIOUS
    <3>1. j \in Nat /\ j >= 1 /\ (j <= n \/ j <= m) /\ ~(k <= j)
      BY <1>2, <2>3
    <3>2. j \notin B
      BY <3>1, <2>2
    <3> QED BY <3>1, <3>2
  <2> HIDE DEF B, n, m
  <2>5. k <= n => \E j \in 1 .. m : j > k /\ e.order[j].id = d.order[k].id
    <3> SUFFICES ASSUME k <= n PROVE \E j \in 1 .. m : j > k /\ e.order[j].id = d.order[k].id
      OBVIOUS
    <3>1. (k <= m /\ d.order[k].id = e.order[k].id) \/ \E j \in 1 .. m : j > k /\ e.order[j].id = d.order[k].id
      BY <2>3, <2>4, SameStream DEF n, m
    <3> QED BY <3>1, <2>3
  <2>6. k <= m => \E j \in 1 .. n : j > k /\ d.order[j].id = e.order[k].id
    <3> SUFFICES ASSUME k <= m PROVE \E j \in 1 .. n : j > k /\ d.order[j].id = e.order[k].id
      OBVIOUS
    <3>1. \A j \in 1 .. (k - 1) : j <= m /\ j <= n /\ e.order[j].id = d.order[j].id
      BY <2>4
    <3>2. (k <= n /\ e.order[k].id = d.order[k].id) \/ \E j \in 1 .. n : j > k /\ d.order[j].id = e.order[k].id
      BY <2>3, <3>1, SameStream DEF n, m
    <3> QED BY <3>2, <2>3
  <2>7. k <= n /\ k <= m
    BY <2>3, <2>5, <2>6, <1>2
  <2>8. PICK i \in 1 .. m : i > k /\ e.order[i].id = d.order[k].id
    BY <2>5, <2>7
  <2>9. PICK j \in 1 .. n : j > k /\ d.order[j].id = e.order[k].id
    BY <2>6, <2>7
  <2>10. <<e.order[k].id, d.order[k].id>> \in g
    <3>1. k \in DOMAIN e.order /\ i \in DOMAIN e.order /\ k < i
      BY <2>3, <2>7, <2>8, <1>2
    <3> QED BY <3>1, <2>8, <1>1 DEF Follows
  <2>11. <<d.order[k].id, e.order[k].id>> \in g
    <3>1. k \in DOMAIN d.order /\ j \in DOMAIN d.order /\ k < j
      BY <2>3, <2>7, <2>9, <1>2
    <3> QED BY <3>1, <2>9, <1>1 DEF Follows
  <2> QED BY <2>10, <2>11, <1>3
<1>5. \A k \in Nat : k >= 1 /\ (k <= n \/ k <= m) => k <= n /\ k <= m /\ d.order[k].id = e.order[k].id
  BY <1>4
<1> HIDE DEF B
<1>6. n = m
  <2>1. n >= 1 => n <= m
    BY <1>2, <1>5
  <2>2. m >= 1 => m <= n
    BY <1>2, <1>5
  <2> HIDE DEF n, m
  <2> QED BY <2>1, <2>2, <1>2
<1>7. ASSUME NEW k \in 1 .. n PROVE d.order[k] = e.order[k]
  <2>1. d.order[k].id = e.order[k].id /\ k \in DOMAIN d.order /\ k \in DOMAIN e.order
    BY <1>2, <1>5, <1>6
  <2>2. d.order[k].id \in Items(d)
    BY <2>1 DEF Items
  <2>3. PICK o \in O : o.id = d.order[k].id
    BY <2>2, <1>1 DEF StreamRight, Inserted
  <2>4. o.left = d.order[k].left /\ o.left = e.order[k].left
    BY <2>1, <2>3, <1>1 DEF StreamRight
  <2>5. /\ d.order[k] = [id |-> d.order[k].id, left |-> d.order[k].left]
        /\ e.order[k] = [id |-> e.order[k].id, left |-> e.order[k].left]
    BY <2>1, <1>1, <1>2, StreamType
  <2> QED BY <2>1, <2>4, <2>5
<1> HIDE DEF n, m
<1> QED BY <1>2, <1>6, <1>7

\* What was applied fixes the registers.
LEMMA SameRegisters ==
    ASSUME NEW O, NEW d \in Doc, NEW e \in Doc, O \subseteq Op, d.applied = e.applied,
           RegistersRight(d, O), RegistersRight(e, O)
    PROVE  d.reg = e.reg
<1>1. ASSUME NEW item \in Ids PROVE d.reg[item] = e.reg[item]
  <2> DEFINE W == {o \in O : /\ o.id \in d.applied
                             /\ \/ o.type = "setattr" /\ o.target = item
                                \/ o.type = "insert" /\ o.id = item /\ o.init}
  <2>1. /\ W = {} => d.reg[item] = Unset
        /\ W # {} => \E o \in W : /\ d.reg[item] = StampOf(o)
                                  /\ \A p \in W \ {o} : Later(StampOf(o), StampOf(p))
    BY DEF RegistersRight
  <2>2. /\ W = {} => e.reg[item] = Unset
        /\ W # {} => \E o \in W : /\ e.reg[item] = StampOf(o)
                                  /\ \A p \in W \ {o} : Later(StampOf(o), StampOf(p))
    BY DEF RegistersRight
  <2>3. W \subseteq Op
    OBVIOUS
  <2> HIDE DEF W
  <2>4. CASE W = {}
    BY <2>1, <2>2, <2>4
  <2>5. CASE W # {}
    <3>1. PICK o \in W : d.reg[item] = StampOf(o) /\ \A p \in W \ {o} : Later(StampOf(o), StampOf(p))
      BY <2>1, <2>5
    <3>2. PICK p \in W : e.reg[item] = StampOf(p) /\ \A q \in W \ {p} : Later(StampOf(p), StampOf(q))
      BY <2>2, <2>5
    <3>3. o = p
      <4>1. SUFFICES ASSUME o # p PROVE FALSE
        OBVIOUS
      <4>2. Later(StampOf(o), StampOf(p)) /\ Later(StampOf(p), StampOf(o))
        BY <3>1, <3>2, <4>1
      <4>3. o.lamport \in Nat /\ p.lamport \in Nat /\ o.id[1] \in Nat /\ p.id[1] \in Nat
        BY <2>3, OpType
      <4> QED BY <4>2, <4>3 DEF Later, StampOf
    <3> QED BY <3>1, <3>2, <3>3
  <2> QED BY <2>4, <2>5
<1>2. d.reg \in [Ids -> Stamp] /\ e.reg \in [Ids -> Stamp]
  BY DEF Doc
<1> QED BY <1>1, <1>2

\* Engines that applied the same operations show the same document.
LEMMA OneOrderConverged == ASSUME CrdtInv, OneOrder PROVE Converged
<1>1. PICK g : Agreed(g)
  BY DEF OneOrder
<1>2. SUFFICES ASSUME NEW r \in Replicas, NEW s \in Replicas, doc[r].applied = doc[s].applied
               PROVE  SameView(doc[r], doc[s])
  BY DEF Converged
<1>3. Following(doc[r], ops, g) /\ Following(doc[s], ops, g)
  BY <1>1, AllFollow
<1>4. /\ doc[r] \in Doc /\ doc[s] \in Doc /\ Sound(doc[r], ops) /\ Sound(doc[s], ops) /\ ops \subseteq Op
  BY <1>3 DEF Following, Distinct
<1>5. Items(doc[r]) = Items(doc[s])
  BY <1>2, <1>4 DEF Sound, StreamRight
<1>6. doc[r].order = doc[s].order
  BY <1>3, <1>5, SameOrder
<1>7. doc[r].tomb = doc[s].tomb
  BY <1>2, <1>4 DEF Sound
<1>8. doc[r].reg = doc[s].reg
  <2>1. RegistersRight(doc[r], ops) /\ RegistersRight(doc[s], ops)
    BY <1>4 DEF Sound
  <2> QED BY <2>1, <1>2, <1>4, SameRegisters
<1> QED BY <1>6, <1>7, <1>8 DEF SameView

\* No step forgets an operation.
LEMMA OpsKept == ASSUME [Next]_vars PROVE ops \subseteq ops'
<1>1. ASSUME NEW r, NEW op, Generate(r, op) PROVE ops \subseteq ops'
  BY <1>1 DEF Generate
<1>2. ASSUME NEW r, NEW base, Rebuild(r, base) PROVE ops' = ops
  BY <1>2 DEF Rebuild
<1>3. ASSUME NEW r \in Replicas, NEW i, NEW init, LocalInsert(r, i, init) PROVE ops \subseteq ops'
  BY <1>1, <1>3 DEF LocalInsert
<1>4. ASSUME NEW r \in Replicas, NEW i, LocalDelete(r, i) \/ LocalSetAttr(r, i) PROVE ops \subseteq ops'
  BY <1>1, <1>4 DEF LocalDelete, LocalSetAttr
<1>5. ASSUME NEW r \in Replicas, NEW batch, Deliver(r, batch) PROVE ops' = ops
  BY <1>5 DEF Deliver
<1>6. ASSUME NEW r \in Replicas, SaveSnapshot(r) PROVE ops' = ops
  BY <1>6 DEF SaveSnapshot
<1>7. ASSUME NEW r \in Replicas, NEW e, Reload(r) \/ Import(r, e) PROVE ops' = ops
  BY <1>2, <1>7 DEF Reload, Import
<1> QED BY <1>3, <1>4, <1>5, <1>6, <1>7 DEF Next, vars

\* The invariant of the next state, for the engines after the step.
LEMMA SoundNext ==
    ASSUME CrdtInv', NEW r \in Replicas
    PROVE  doc'[r] \in Doc /\ Sound(doc'[r], ops') /\ Distinct(ops')
<1>1. doc'[r] \in Doc /\ ops' \subseteq Op
  BY DEF CrdtInv, TypeOK
<1>2. Distinct(ops')
  BY <1>1 DEF CrdtInv, OpsInv, IdsUnique, Distinct, StampOf
<1>3. \A t \in Replicas : \A d \in {doc'[t], saved'[t]} : Sound(d, ops)'
  BY DEF CrdtInv, EngineInv
<1>4. \A t \in Replicas : \A d \in {doc'[t], saved'[t]} : Sound(d, ops')
  BY <1>3 DEF Sound, StreamRight, RegistersRight, SummaryRight, Ready, Items, Inserted, StampOf, Later
<1> QED BY <1>1, <1>2, <1>4

\* What an engine shows stays as it is while it goes on.
Stays(r) ==
    doc[r].applied \subseteq doc'[r].applied =>
        /\ doc[r].tomb \subseteq doc'[r].tomb
        /\ \A x, y \in Items(doc[r]) :
              Before(doc[r], x, y) => Before(doc'[r], x, y)

\* A step moves no item past another and brings back none that is deleted.
LEMMA StableStep ==
    ASSUME MaxBatch = 1, CrdtInv, OneOrder, [Next]_vars, CrdtInv', NEW r \in Replicas
    PROVE  Stays(r)
<1>1. PICK g : Agreed(g)
  BY DEF OneOrder
<1>2. Onward(g)
  BY <1>1, OrderStep DEF OneOrder
<1>3. PICK h : g \subseteq h /\ Canonical(h, ops') /\ Follows(doc'[r], h)
  BY <1>2 DEF Onward
<1>4. ops \subseteq ops'
  BY OpsKept
<1>5. doc'[r] \in Doc /\ Sound(doc'[r], ops') /\ Distinct(ops')
  BY SoundNext
<1>6. Following(doc[r], ops, g)
  BY <1>1, AllFollow
<1>7. Sound(doc[r], ops)
  BY <1>6 DEF Following
<1>8. SUFFICES ASSUME doc[r].applied \subseteq doc'[r].applied
      PROVE  /\ doc[r].tomb \subseteq doc'[r].tomb
             /\ \A x, y \in Items(doc[r]) :
                    Before(doc[r], x, y) => Before(doc'[r], x, y)
  BY DEF Stays
<1> DEFINE d == doc[r]
<1>9. PICK e : e = doc'[r]
  OBVIOUS
<1>10. PICK O : O = ops'
  OBVIOUS
<1>11. /\ e \in Doc /\ Sound(e, O) /\ Distinct(O) /\ Canonical(h, O) /\ Follows(e, h) /\ ops \subseteq O
       /\ d.applied \subseteq e.applied /\ Sound(d, ops) /\ Following(d, ops, g) /\ g \subseteq h
  BY <1>3, <1>4, <1>5, <1>6, <1>7, <1>8, <1>9, <1>10
<1> HIDE DEF d
<1>12. d.tomb \subseteq e.tomb
  <2>1. /\ d.tomb = {o.target : o \in {p \in ops : p.type = "delete" /\ p.id \in d.applied}}
        /\ e.tomb = {o.target : o \in {p \in O : p.type = "delete" /\ p.id \in e.applied}}
    BY <1>11 DEF Sound
  <2> QED BY <2>1, <1>11
<1>13. Items(d) \subseteq Items(e)
  <2>1. Items(d) = Inserted({o \in ops : o.id \in d.applied}) /\ Items(e) = Inserted({o \in O : o.id \in e.applied})
    BY <1>11 DEF Sound, StreamRight
  <2> QED BY <2>1, <1>11 DEF Inserted
<1>14. Following(e, O, h)
  BY <1>11 DEF Following
<1>15. ASSUME NEW x \in Items(d), NEW y \in Items(d), Before(d, x, y) PROVE Before(e, x, y)
  <2>1. <<x, y>> \in g
    BY <1>11, <1>15, PlaceOrder DEF Before
  <2>2. Position(e, x) < Position(e, y)
    BY <2>1, <1>11, <1>13, <1>14, PlaceOrder
  <2> QED BY <2>2, <1>15 DEF Before
<1> QED BY <1>9, <1>12, <1>15 DEF d

-----------------------------------------------------------------------------
(* The theorems about requests of one operation.                           *)

\* A reload loses nothing the engine took in and reuses no identity (core.ts
\* restore, importSnapshot, applyRemote), when a request carries one operation: with
\* more, a frame that throws leaves its predecessors out of the log.
THEOREM ReloadIsFaithfulHolds == ASSUME MaxBatch = 1 PROVE Spec => []ReloadIsFaithful
<1>1. CrdtInv /\ OneOrder => ReloadIsFaithful
  BY DEF CrdtInv, OpsInv, OneOrder, ReplicaInv, ReloadIsFaithful
<1> QED BY <1>1, OneOrderHolds, PTL

\* The conflict scan of doc.cpp puts every item between the anchors its author saw, in
\* the stream of every replica.
THEOREM BetweenAnchorsHolds == ASSUME MaxBatch = 1 PROVE Spec => []BetweenAnchors
<1>1. CrdtInv /\ OneOrder => BetweenAnchors
  BY OneOrderBetween
<1> QED BY <1>1, OneOrderHolds, PTL

\* Strong convergence: replicas that have applied the same operations have the same
\* stream, tombstones and registers, whatever the order, the repetitions, the reloads
\* and the imports through which they came (doc.cpp insert_boundary, retry_pending,
\* apply_register).
THEOREM ReplicasConverge == ASSUME MaxBatch = 1 PROVE Spec => []Converged
<1>1. CrdtInv /\ OneOrder => Converged
  BY OneOrderConverged
<1> QED BY <1>1, OneOrderHolds, PTL

\* A replica that takes in operations never swaps two items it shows and never brings
\* back one that is deleted (doc.cpp integrate_insert, integrate_delete).
THEOREM ViewIsStable == ASSUME MaxBatch = 1 PROVE Spec => StableView
<1>1. ASSUME CrdtInv, OneOrder, CrdtInv', [Next]_vars
      PROVE  [\A r \in Replicas :
                 doc[r].applied \subseteq doc'[r].applied =>
                     /\ doc[r].tomb \subseteq doc'[r].tomb
                     /\ \A x, y \in Items(doc[r]) :
                           Before(doc[r], x, y) => Before(doc'[r], x, y)]_vars
  BY <1>1, StableStep DEF Stays
<1> QED BY <1>1, OneOrderHolds, PTL DEF Spec, StableView
===========================================================================
