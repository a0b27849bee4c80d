------------------------------ MODULE EditorDiff ------------------------------
(***************************************************************************)
(* The diff between two editor documents as operations on the CRDT stream  *)
(* (lib/crdt/adapter.ts), the replay of those operations on a stream that  *)
(* has moved on (worker/core.ts), and the blocks a stream shows            *)
(* (crdt/src/doc.cpp).                                                     *)
(*                                                                         *)
(* A stream is a sequence of items, tombstones included; a document is a   *)
(* non-empty sequence of blocks.  One register stands for all attributes:  *)
(* the type of a block's delimiter, the mark of a character.               *)
(* Positions count from 1.                                                 *)
(***************************************************************************)
EXTENDS Integers, SequencesExt

Item(id, k, v, a) == [id |-> id, k |-> k, v |-> v, a |-> a, dead |-> FALSE]
Char(v, a) == [v |-> v, a |-> a]
Block(type, chars) == [type |-> type, chars |-> chars]

Plain == "plain"             \* no mark set
Paragraph == "p"             \* the type of a block without a delimiter
Blank == Block(Paragraph, <<>>)

Live(st) == {i \in DOMAIN st : ~st[i].dead}
LiveSeq(st) == SelectSeq([i \in DOMAIN st |-> i], LAMBDA i : ~st[i].dead)

\* The document a stream shows.  The first block is implicit unless the first
\* live item is a delimiter.
Blocks(st) ==
    LET Show(bs, i) ==
            IF st[i].k = "delim" THEN Append(bs, Block(st[i].a, <<>>))
            ELSE LET open == IF bs = <<>> THEN <<Blank>> ELSE bs
                 IN  [open EXCEPT ![Len(open)].chars = Append(@, Char(st[i].v, st[i].a))]
        shown == FoldLeft(Show, <<>>, LiveSeq(st))
    IN  IF shown = <<>> THEN <<Blank>> ELSE shown

----------------------------------------------------------------------------
(* Where the blocks of a document lie in its stream.                       *)

Implicit == 0

\* The stream position of each block's delimiter.
Starts(st) ==
    LET delims == SelectSeq(LiveSeq(st), LAMBDA i : st[i].k = "delim")
    IN  IF delims # <<>> /\ Head(delims) = Head(LiveSeq(st)) THEN delims
        ELSE <<Implicit>> \o delims

InStream(st, b) == b <= Len(Starts(st))
HasDelim(st, b) == InStream(st, b) /\ Starts(st)[b] # Implicit

FirstLive(st, b) ==
    IF ~InStream(st, b) THEN Len(st) + 1
    ELSE IF HasDelim(st, b) THEN Starts(st)[b] ELSE 1

ContentStart(st, b) == FirstLive(st, b) + IF HasDelim(st, b) THEN 1 ELSE 0
EndOfBlock(st, b) == IF InStream(st, b + 1) THEN Starts(st)[b + 1] ELSE Len(st) + 1

Between(st, from, to) == SelectSeq(LiveSeq(st), LAMBDA i : from <= i /\ i < to)
Content(st, b) == Between(st, ContentStart(st, b), EndOfBlock(st, b))

----------------------------------------------------------------------------
(* The diff.  It is built from left to right; shift counts its insertions. *)

Op(k, at, v, a) == [k |-> k, at |-> at, v |-> v, a |-> a]
None == "none"

Emit(diff, ops) == [diff EXCEPT !.ops = @ \o ops]
Shifted(diff, n) == [diff EXCEPT !.shift = @ + n]

Text(block) == [c \in DOMAIN block.chars |-> block.chars[c].v]

CommonPrefix(s, t) ==
    Max({n \in 0 .. Len(s) : n <= Len(t) /\ SubSeq(s, 1, n) = SubSeq(t, 1, n)})
CommonSuffix(s, t, room) ==
    Max({n \in 0 .. room : SubSeq(s, Len(s) - n + 1, Len(s)) = SubSeq(t, Len(t) - n + 1, Len(t))})
Room(s, t, p) == Min({Len(s), Len(t)}) - p

\* A block that has no delimiter of its own gets one before its first attribute;
\* so does a block at the end that only the editor had, with its first text.
AttrDiff(diff, st, before, after, b) ==
    LET anchor  == FirstLive(st, b) + diff.shift
        changed == before.type # after.type
        lateText == b > 1 /\ ~InStream(st, b) /\ Text(before) # Text(after)
        opened  == IF (changed \/ lateText) /\ ~HasDelim(st, b)
                   THEN Shifted(Emit(diff, <<Op("delim", anchor, None, after.type)>>), 1)
                   ELSE diff
    IN  IF changed THEN Emit(opened, <<Op("attr", anchor, None, after.type)>>) ELSE opened

\* The operations that insert chars from position at on.
TextOps(chars, at) ==
    FlattenSeq([c \in DOMAIN chars |->
        LET here == at + c - 1
        IN  <<Op("text", here, chars[c].v, Plain)>> \o
            IF chars[c].a = Plain THEN <<>> ELSE <<Op("attr", here, None, chars[c].a)>>])

\* Position 0, which no stream has, when the block has fewer characters.
Nth(content, n, shift) == IF n \in DOMAIN content THEN content[n] + shift ELSE 0

\* What lies between the common prefix p and the common suffix s of two texts is
\* replaced; characters kept at either end get their new marks.
Middle(bc, p, s) == [i \in 1 .. Len(bc) - s - p |-> p + i]

CharOps(diff, bc, ac, p, s, content, behind) ==
    LET Marks(i, j, n, shift) ==
            FlattenSeq([c \in 1 .. n |->
                IF bc[i + c].a = ac[j + c].a THEN <<>>
                ELSE <<Op("attr", Nth(content, i + c, shift), None, ac[j + c].a)>>])
        Gone(n) == Op("delete", content[n] + diff.shift, None, None)
        gone == SelectSeq(Middle(bc, p, s), LAMBDA c : c <= Len(content))
        cursor == IF p < Len(content) THEN content[p + 1] ELSE behind
        shift == diff.shift + Len(ac) - s - p
    IN  [ops |-> diff.ops \o Marks(0, 0, p, diff.shift)
                 \o [i \in DOMAIN gone |-> Gone(Reverse(gone)[i])]
                 \o TextOps(SubSeq(ac, p + 1, Len(ac) - s), cursor + diff.shift)
                 \o Marks(Len(bc) - s, Len(ac) - s, s, shift),
         shift |-> shift]

Behind(content, start) == IF content = <<>> THEN start ELSE Last(content) + 1

CharDiff(diff, st, before, after, b) ==
    LET Split(p) == CommonSuffix(Text(before), Text(after), Room(before.chars, after.chars, p))
        At(p, content) == CharOps(diff, before.chars, after.chars, p, Split(p), content,
                                  Behind(content, ContentStart(st, b)))
    IN  At(CommonPrefix(Text(before), Text(after)), Content(st, b))

BlockDiff(diff, st, before, after, b) ==
    CharDiff(AttrDiff(diff, st, before, after, b), st, before, after, b)

\* A removed block takes its items along; without a delimiter it starts at 1.
RemoveBlock(diff, st, b) ==
    LET from == IF HasDelim(st, b) THEN Starts(st)[b] ELSE 1
        gone == Reverse(Between(st, from, EndOfBlock(st, b)))
    IN  Emit(diff, [i \in DOMAIN gone |-> Op("delete", gone[i] + diff.shift, None, None)])

\* Whole blocks, before the item that was at this position of the stream.
InsertBlocks(diff, blocks, at) ==
    LET Put(d, block) ==
            Shifted(Emit(d, <<Op("delim", at + d.shift, None, block.type)>>
                            \o TextOps(block.chars, at + d.shift + 1)),
                    1 + Len(block.chars))
    IN  FoldLeft(Put, diff, blocks)

\* Blocks are matched by their text: this many at the start and at the end, and
\* this many at the start that are matched or changed in place.
Texts(blocks) == [b \in DOMAIN blocks |-> Text(blocks[b])]
Suffix(before, after) ==
    CommonSuffix(Texts(before), Texts(after),
                 Room(before, after, CommonPrefix(Texts(before), Texts(after))))
Kept(before, after) == Min({Len(before), Len(after)}) - Suffix(before, after)

\* Block i + b of before becomes block j + b of after, for b up to n.
InPlace(diff, st, before, after, i, j, n) ==
    FoldLeft(LAMBDA d, b : BlockDiff(d, st, before[i + b], after[j + b], i + b),
             diff, [b \in 1 .. n |-> b])

\* Blocks from .. to, the last one first.
RemoveBlocks(diff, st, from, to) ==
    FoldLeft(LAMBDA d, b : RemoveBlock(d, st, b), diff, [i \in 1 .. to - from + 1 |-> to + 1 - i])

\* kept blocks at the start and suffix at the end are changed in place; what lies
\* between is removed and inserted, in that order.
DiffAround(before, after, st, kept, suffix) ==
    LET nb == Len(before) - suffix
        na == Len(after) - suffix
        removed == RemoveBlocks(InPlace([ops |-> <<>>, shift |-> 0], st, before, after, 0, 0, kept),
                                st, kept + 1, nb)
        added == InsertBlocks(removed, SubSeq(after, kept + 1, na),
                              IF suffix > 0 THEN FirstLive(st, nb + 1) ELSE Len(st) + 1)
    IN  InPlace(added, st, before, after, nb, na, suffix)

\* reconcile(before, after, stream).
Reconcile(before, after, st) ==
    DiffAround(before, after, st, Kept(before, after), Suffix(before, after)).ops

----------------------------------------------------------------------------
(* The worker applies a diff made for the stream base to the stream cur,   *)
(* finding each item by its identity.                                      *)

Position(st, id) == LET at == {i \in DOMAIN st : st[i].id = id}
                    IN  IF at = {} THEN 0 ELSE CHOOSE i \in at : TRUE

\* Identities are never reused: the counter goes on behind everything restored.
FreshId(st) == 1 + Max({st[i].id : i \in DOMAIN st} \cup {0})

\* Where the item at a position of the base is now.
Mapped(st, at, cur) == Position(cur, st[at].id)

Rebase(ops, base, cur) ==
    LET Apply(r, op) ==
            LET known == op.at \in DOMAIN r.base
                here  == IF known THEN Mapped(r.base, op.at, r.cur) ELSE Len(r.cur) + 1
                new   == Item(FreshId(r.cur), op.k, op.v, op.a)
            IN  CASE ~r.ok \/ here = 0 \/ (~known /\ op.k \notin {"text", "delim"}) ->
                        [r EXCEPT !.ok = FALSE]
                  [] op.k \in {"text", "delim"} ->
                        [r EXCEPT !.base = InsertAt(@, Min({op.at, Len(@) + 1}), new),
                                  !.cur = InsertAt(@, here, new)]
                  [] op.k = "delete" ->
                        [r EXCEPT !.base[op.at].dead = TRUE, !.cur[here].dead = TRUE]
                  [] op.k = "attr" ->
                        [r EXCEPT !.base[op.at].a = op.a, !.cur[here].a = op.a]
    IN  FoldLeft(Apply, [base |-> base, cur |-> cur, ok |-> TRUE], ops)
=============================================================================
