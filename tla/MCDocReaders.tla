--------------------------- MODULE MCDocReaders ---------------------------
(* Small instances of DocReaders, and with it of DocStore, for TLC.  A        *)
(* behaviour either races all the pipelines of Builders, or runs some of them *)
(* beside one of the two readers: readers change nothing that the others see. *)
EXTENDS DocReaders, TLC

CONSTANTS
    MaxRevs,   \* bound: number of revisions a run creates
    Racers     \* the builders that run only in a race

VARIABLE mode

MCInit == RInit /\ mode \in {"race", "history", "catchup"}

MCNext ==
    /\ RNext
    /\ mode # "history" => UNCHANGED hist
    /\ mode # "catchup" => UNCHANGED sync
    /\ mode # "race" => \A b \in Racers : builder'[b] = builder[b]
    /\ UNCHANGED mode

MCSpec == MCInit /\ [][MCNext]_<<rvars, mode>>

RevBound == Cardinality(revs) <= MaxRevs

Symm == Permutations(SnapIds) \cup Permutations(Ops)
=============================================================================
