------------------------------ MODULE MCHistory ------------------------------
(* One reviewer, who is also the one account that imports, in two tabs. *)
EXTENDS History, TLC

CONSTANTS t1, t2

Reviewing == {t1, t2}
Symmetry == Permutations(Reviewing)
=============================================================================
