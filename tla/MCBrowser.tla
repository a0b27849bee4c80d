------------------------------ MODULE MCBrowser ------------------------------
(* Two tabs of one browser, which are two clients of one gateway. *)
EXTENDS Browser, TLC

CONSTANTS t1, t2

Editing == {t1, t2}
Symmetry == Permutations(Editing)

OneGateway == [c \in Editing |-> "g1"]

DocumentKinds ==
    {[owner |-> "user", org |-> "none", grant |-> "none"],
     [owner |-> "user", org |-> "team", grant |-> "VIEWER"],
     [owner |-> "other", org |-> "team", grant |-> "none"],
     [owner |-> "other", org |-> "none", grant |-> "VIEWER"]}
=============================================================================
