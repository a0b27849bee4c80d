-------------------------- MODULE MCMaintenanceJobs --------------------------
(* Small instances of MaintenanceJobs for TLC. *)
EXTENDS MaintenanceJobs, TLC

Symm == Permutations(Gateways) \cup Permutations(Keys) \cup Permutations(Callers)
=============================================================================
