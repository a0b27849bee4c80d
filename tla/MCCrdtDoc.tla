----------------------------- MODULE MCCrdtDoc -----------------------------
(* Small instances of CrdtDoc for TLC. *)
EXTENDS CrdtDoc, TLC
=============================================================================
