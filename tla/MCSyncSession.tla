--------------------------- MODULE MCSyncSession ---------------------------
(* Instances of SyncSession for TLC. *)
EXTENDS SyncSession

\* l local edits, p operations of peers, and one of each of the other events.
Plan(l, p, kinds) ==
    [k \in Events |-> CASE k = "local" -> l [] k = "peer" -> p [] k \in kinds -> 1 [] OTHER -> 0]

MCPlans == {Plan(2, 0, {"write"}), Plan(1, 1, {"compact", "reload"}),
            Plan(0, 2, {"write"}), Plan(0, 1, {"compact", "write"}), Plan(0, 1, {"compact", "drop", "database", "token"}),
            Plan(1, 0, {"drop"})}

\* One edit of a peer at the wrong moment, then a lost connection.
RacePlans == {Plan(0, 2, {"drop"})}

\* One lost connection, while the outbox is being recovered.
DropPlans == {Plan(1, 0, {"drop"})}

\* One failed catch-up of a session that is already ready.
DatabasePlans == {Plan(2, 0, {"database"})}
=============================================================================
