----------------------------- MODULE BlockMerge -----------------------------
(***************************************************************************)
(* Three-way merge of a document's blocks.  The browser plans a local      *)
(* draft against the current content (src/lib/drafts.ts), the gateway      *)
(* plans a review branch against main (maintenance/branch_merge.rs), and   *)
(* the native worker carries out the gateway's plan (cpp/worker/main.cpp). *)
(* A block is a value; a list block is one of ListBlocks.  Positions in    *)
(* hunks and ranges are the code's: from 0, the end excluded.              *)
(***************************************************************************)
EXTENDS Integers, Sequences, SequencesExt, FiniteSetsExt

CONSTANTS
    Blocks,        \* the blocks a document can hold
    ListBlocks,    \* those that are list items or continuations
    Blank,         \* the block an emptied document shows
    MaxBlocks      \* bound on the length of a content

VARIABLES base, main, branch

vars == <<base, main, branch>>

Contents == UNION {[1 .. n -> Blocks] : n \in 1 .. MaxBlocks}

-----------------------------------------------------------------------------
(* The difference of two sequences.                                        *)

Once(s, i) == \A j \in DOMAIN s : s[j] = s[i] => j = i

\* The blocks that stand once on both sides, each with its place in changed.
Candidates(old, changed) ==
    LET Place(i) == {j \in DOMAIN changed : changed[j] = old[i] /\ Once(changed, j)}
    IN [i \in {k \in DOMAIN old : Once(old, k) /\ Place(k) # {}} |->
            CHOOSE j \in Place(i) : TRUE]

\* The patience pile a candidate lands on: the length of the longest run of
\* candidates, increasing on both sides, that ends with it.
Piles(place) ==
    LET pile[i \in DOMAIN place] ==
            1 + Max({0} \cup {pile[k] : k \in {k \in DOMAIN place :
                                                   k < i /\ place[k] < place[i]}})
    IN pile

\* Mutant: a block moved across another keeps both as anchors.
AnchorsUnordered(old, changed) ==
    LET place == Candidates(old, changed)
    IN SetToSortSeq({<<i, place[i]>> : i \in DOMAIN place}, LAMBDA s, t : s[1] < t[1])

\* From the last pile back, the candidate that lay on top when the next came.
Chain(place, pile, top) ==
    LET at[back \in 0 .. top - 1] ==
            Max({i \in DOMAIN place : /\ pile[i] = top - back
                                      /\ back > 0 => i < at[back - 1]})
        item(i) == <<i, place[i]>>
    IN [r \in 1 .. top |-> item(at[top - r])]

ChainOf(place, pile) == Chain(place, pile, Max({0} \cup {pile[i] : i \in DOMAIN place}))
InOrder(place) == ChainOf(place, Piles(place))
Anchors(old, changed) == InOrder(Candidates(old, changed))

\* What lies between one anchor and the next, where the sides differ.
Gap(from, to) == [start |-> from[1], end |-> to[1] - 1, from |-> from[2], to |-> to[2] - 1]
Gaps(stops) ==
    SelectSeq([n \in 1 .. Len(stops) - 1 |-> Gap(stops[n], stops[n + 1])],
              LAMBDA h : h.start < h.end \/ h.from < h.to)

Diff(old, changed) ==
    IF old = changed THEN << >>
    ELSE Gaps(<<<<0, 0>>>> \o Anchors(old, changed) \o <<<<Len(old) + 1, Len(changed) + 1>>>>)

Overlaps(g, h) ==
    \/ g.start = g.end /\ h.start <= g.start /\ g.start <= h.end
    \/ h.start = h.end /\ g.start <= h.start /\ h.start <= g.end
    \/ g.start # g.end /\ h.start # h.end /\ g.start < h.end /\ h.start < g.end

Slice(s, start, end) == SubSeq(s, start + 1, end)
Put(changed, h) == Slice(changed, h.from, h.to)
Growth(hunks) == FoldLeft(LAMBDA n, h : n + (h.to - h.from) - (h.end - h.start), 0, hunks)
Before(hunks, h) == SelectSeq(hunks, LAMBDA k : k.end <= h.start)

-----------------------------------------------------------------------------
(* Local drafts: src/lib/drafts.ts.                                        *)

\* The change h of the draft, where the current content's hunks over overlap it;
\* start is its place in the current content.
DraftChange(h, over, start, draft, current) ==
    LET applied == /\ Len(over) = 1
                   /\ over[1].start = h.start /\ over[1].end = h.end
                   /\ Put(current, over[1]) = Put(draft, h)
    IN [hunk |-> h,
        current |-> IF over = << >> THEN Slice(current, start, start + h.end - h.start)
                    ELSE FlattenSeq([n \in DOMAIN over |-> Put(current, over[n])]),
        applied |-> applied,
        conflict |-> over # << >> /\ ~applied]

DraftChanges(mine, theirs, draft, current) ==
    [n \in DOMAIN mine |->
        DraftChange(mine[n], SelectSeq(theirs, LAMBDA k : Overlaps(mine[n], k)),
                    mine[n].start + Growth(Before(theirs, mine[n])), draft, current)]

PlanDraft(old, draft, current) ==
    DraftChanges(Diff(old, draft), Diff(old, current), draft, current)

Selectable(changes) ==
    {n \in DOMAIN changes : ~changes[n].conflict /\ ~changes[n].applied}

Splice(s, start, count, put) ==
    SubSeq(s, 1, start) \o put \o SubSeq(s, start + count + 1, Len(s))

\* Each selected change goes where it was made, moved by the current content's
\* changes before it and by those already put in.
PutIn(changes, theirs, draft, current, selected) ==
    LET step(sofar, n) ==
            LET h == changes[n].hunk
                start == h.start + Growth(Before(theirs, h)) + sofar.shift
            IN IF n \notin selected THEN sofar
               ELSE [blocks |-> Splice(sofar.blocks, start, h.end - h.start, Put(draft, h)),
                     shift |-> sofar.shift + Growth(<<h>>)]
    IN FoldLeft(step, [blocks |-> current, shift |-> 0],
                [n \in DOMAIN changes |-> n]).blocks

MergeSelected(old, draft, current, selected) ==
    PutIn(PlanDraft(old, draft, current), Diff(old, current), draft, current, selected)

-----------------------------------------------------------------------------
(* Review branches: maintenance/branch_merge.rs.                           *)

\* Consecutive list blocks are one unit of the review.
Units(blocks) ==
    LET joins(i) == i > 1 /\ blocks[i] \in ListBlocks /\ blocks[i - 1] \in ListBlocks
    IN FoldLeft(LAMBDA us, i : IF joins(i) THEN Front(us) \o <<Append(Last(us), blocks[i])>>
                               ELSE Append(us, <<blocks[i]>>),
                << >>, [i \in DOMAIN blocks |-> i])

ReviewDiff(old, changed) == Diff(old, changed)

Touch(zone, h) == Overlaps(zone, h)

\* A hunk grown until no hunk of either side crosses its edge.
Zone(h, hunks) ==
    LET widen(z, k) == IF Touch(z, k)
                       THEN [z EXCEPT !.start = Min({z.start, k.start}),
                                      !.end = Max({z.end, k.end})]
                       ELSE z
        pass[n \in 0 .. Len(hunks)] == IF n = 0 THEN h ELSE FoldLeft(widen, pass[n - 1], hunks)
    IN pass[Len(hunks)]

Zones(ours, theirs) ==
    LET all == [n \in DOMAIN theirs |-> Zone(theirs[n], ours \o theirs)]
        same(y, z) == y.start = z.start /\ y.end = z.end
        kept == SelectSeq([n \in DOMAIN all |-> n],
                          LAMBDA n : \A k \in 1 .. n - 1 : ~same(all[k], all[n]))
    IN SortSeq([n \in DOMAIN kept |-> all[kept[n]]], LAMBDA y, z : y.start < z.start)

\* Where a zone of the base lies in a side with these hunks.
Mapped(zone, hunks) ==
    LET shift == Growth(SelectSeq(hunks, LAMBDA h : h.end <= zone.start /\ ~Touch(zone, h)))
        inside == Growth(SelectSeq(hunks, LAMBDA h : Touch(zone, h)))
    IN <<zone.start + shift, zone.end + shift + inside>>

Offset(units, n) == Len(FlattenSeq(SubSeq(units, 1, n)))

ReviewChange(a, b, c, z, ours, theirs) ==
    LET Shown(m, s, now, proposed) ==
            [base |-> FlattenSeq(Slice(a, z.start, z.end)),
             current |-> now, proposed |-> proposed,
             applied |-> now = proposed,
             conflict |-> now # proposed /\ \E n \in DOMAIN ours : Touch(z, ours[n]),
             range |-> <<Offset(b, m[1]), Offset(b, m[2]), Offset(c, s[1]), Offset(c, s[2])>>]
        At(m, s) == Shown(m, s, FlattenSeq(Slice(b, m[1], m[2])), FlattenSeq(Slice(c, s[1], s[2])))
    IN At(Mapped(z, ours), Mapped(z, theirs))

ReviewOf(a, b, c, ours, theirs) ==
    LET zones == Zones(ours, theirs)
    IN [n \in DOMAIN zones |-> ReviewChange(a, b, c, zones[n], ours, theirs)]

PlanUnits(a, b, c) == ReviewOf(a, b, c, ReviewDiff(a, b), ReviewDiff(a, c))
ReviewPlan(old, current, changed) == PlanUnits(Units(old), Units(current), Units(changed))

-----------------------------------------------------------------------------
(* The worker replaces the selected ranges: cpp/worker/main.cpp.           *)

\* A range may not begin before the previous one ended, nor be empty there.
RangesAccepted(ranges) ==
    \A n \in 1 .. Len(ranges) - 1 :
        /\ ranges[n + 1][1] >= ranges[n][2]
        /\ ranges[n + 1][1] = ranges[n][2] => ranges[n + 1][1] # ranges[n + 1][2]

\* From the last range to the first, so that a place is still the plan's.
MergeDiff(current, source, ranges) ==
    LET out == FoldRight(LAMBDA r, s : Splice(s, r[1], r[2] - r[1], Slice(source, r[3], r[4])),
                         ranges, current)
    IN IF out = << >> THEN <<Blank>> ELSE out

RangesOf(changes, selected) ==
    LET chosen == SelectSeq([n \in DOMAIN changes |-> n], LAMBDA n : n \in selected)
    IN [n \in DOMAIN chosen |-> changes[chosen[n]].range]

-----------------------------------------------------------------------------
(* Main and a branch (or a draft and the current content) go their own     *)
(* ways from one base.                                                     *)

Init == base \in Contents /\ main = base /\ branch = base

EditMain == main = base /\ branch = base /\ main' \in Contents \ {base}
            /\ UNCHANGED <<base, branch>>

EditBranch == branch = base /\ branch' \in Contents \ {base} /\ UNCHANGED <<base, main>>

Next == EditMain \/ EditBranch

Spec == Init /\ [][Next]_vars

-----------------------------------------------------------------------------
(* What a merge is to produce: the base, read from left to right, with     *)
(* each change of the chosen set in the place it was made.  A change is    *)
(* [start, end, put].                                                      *)

Weave(old, changes) ==
    LET at(p) == {c \in changes : c.start = p}
        covered(p) == \E c \in changes : c.start <= p /\ p < c.end
        piece(p) == (IF at(p) = {} THEN << >> ELSE (CHOOSE c \in at(p) : TRUE).put)
                        \o (IF p = Len(old) \/ covered(p) THEN << >> ELSE <<old[p + 1]>>)
    IN FlattenSeq([n \in 1 .. Len(old) + 1 |-> piece(n - 1)])

Change(h, changed) == [start |-> h.start, end |-> h.end, put |-> Put(changed, h)]
ChangesTo(old, changed) == {Change(h, changed) : h \in Range(Diff(old, changed))}

\* Applying any selection of a draft's ready changes gives the base with the
\* current content's changes and the selected ones, each where it was made,
\* and what the draft shows as current is what they replace
\* (mergeSelectedDraftChanges splices by accumulated shifts).
DraftMergeExact ==
    LET Exact(changes) ==
            /\ \A selected \in SUBSET Selectable(changes) :
                  MergeSelected(base, branch, main, selected)
                      = Weave(base, ChangesTo(base, main)
                                        \cup {Change(changes[n].hunk, branch) : n \in selected})
            /\ \A n \in Selectable(changes) :
                  changes[n].current = Slice(base, changes[n].hunk.start, changes[n].hunk.end)
    IN Exact(PlanDraft(base, branch, main))

\* The changes a selection of zones leaves standing: the branch's inside a
\* selected zone, main's everywhere else.
Chosen(a, b, c, zones, selected) ==
    LET taken(h) == \E n \in selected : zones[n].start <= h.start /\ h.end <= zones[n].end
                                            /\ Touch(zones[n], h)
    IN {Change(h, b) : h \in {k \in Range(Diff(a, b)) : ~taken(k)}}
         \cup {Change(h, c) : h \in {k \in Range(Diff(a, c)) : taken(k)}}

Fresh(changes) == {n \in DOMAIN changes : ~changes[n].applied}

\* A merge the worker accepts turns main into the base with the branch's
\* changes in the selected zones and main's in all others; each change shown
\* to the reviewer as current and as proposed is what main and the branch
\* have there, and a change without conflict replaces base content only
\* (plan and mapped in branch_merge.rs, kCmdMergeDiff in main.cpp).
ReviewMergeExact ==
    LET Merged(ranges, woven) ==
            RangesAccepted(ranges) =>
                MergeDiff(main, branch, ranges) = IF woven = << >> THEN <<Blank>> ELSE woven
        Exact(a, b, c, changes, zones) ==
            /\ \A selected \in SUBSET Fresh(changes) :
                  Merged(RangesOf(changes, selected),
                         FlattenSeq(Weave(a, Chosen(a, b, c, zones, selected))))
            /\ \A n \in Fresh(changes) :
                  ~changes[n].conflict => changes[n].current = changes[n].base
        OfUnits(a, b, c) ==
            Exact(a, b, c, ReviewPlan(base, main, branch),
                  Zones(ReviewDiff(a, b), ReviewDiff(a, c)))
    IN OfUnits(Units(base), Units(main), Units(branch))

\* Every selection the comparison offers can be merged
\* (docs/REVIEW_BRANCHES.md: "Include the desired changes").
SelectionMerges ==
    LET changes == ReviewPlan(base, main, branch)
    IN \A selected \in SUBSET Fresh(changes) : RangesAccepted(RangesOf(changes, selected))
=============================================================================
