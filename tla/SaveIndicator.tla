---------------------------- MODULE SaveIndicator ----------------------------
(***************************************************************************)
(* What the document page tells its user about the edits: the save and     *)
(* connection indicators (save-status.ts, connection-status.ts and their   *)
(* components), the status stores they read, and the callbacks of bridge,  *)
(* content mirror and sync session that write those stores.  Operations    *)
(* are numbers; the session is reduced to what it reports.                 *)
(***************************************************************************)
EXTENDS Naturals, Sequences, FiniteSets

CONSTANTS
    Gateway,    \* a gateway is configured
    MaxEdits,   \* bound on the edits
    MaxFaults,  \* bound on failed writes, lost connections and reloads
    MaxReports  \* bound on the counts on their way to the store

VARIABLES
    page,     \* the bridge's mode, the mirror's status, and what the browser says of the network
    log,      \* own operations in the worker's durable log
    row,      \* the outbox: the state of each operation's row
    server,   \* operations the gateway committed
    unsaved,  \* fallback: the document differs from the one the mirror saved
    session,  \* the sync session: connection, enqueueTail, catch-up
    reports,  \* counts that were read and not yet handed to the store
    ui,       \* the sync status store
    faults

vars == <<page, log, row, server, unsaved, session, reports, ui, faults>>

Ops == 1 .. MaxEdits
None == "none"
Rows(states) == {o \in Ops : row[o] \in states}

NoSession == [conn |-> None, tail |-> << >>, broken |-> FALSE, ready |-> FALSE]
Cleared == [status |-> None, error |-> FALSE, localOnly |-> FALSE, outbox |-> {}]

Init ==
    /\ page = [mode |-> "idle", mirror |-> "idle", online |-> TRUE]
    /\ log = {} /\ row = [o \in Ops |-> None] /\ server = {} /\ unsaved = FALSE
    /\ session = NoSession /\ reports = << >> /\ ui = Cleared /\ faults = 0

Fault == faults < MaxFaults /\ faults' = faults + 1

-----------------------------------------------------------------------------
(* The stores.                                                             *)

\* setOutbox: only a confirmed, empty outbox ends an error.
WithOutbox(u, report) ==
    [u EXCEPT !.outbox = {report}, !.localOnly = FALSE,
              !.error = @ /\ ~(report.confirmed /\ report.pending = 0 /\ report.acked = 0)]

WithError(u) == [u EXCEPT !.error = TRUE]

\* reportOutboxState reads the counts at once and hands them over later.
Report(rows, confirm) ==
    LET count(states) == Cardinality({o \in Ops : rows[o] \in states})
        pending == count({"pending", "sent"})
        acked == count({"acked"})
    IN  Append(reports, [pending |-> pending, acked |-> acked,
                         confirmed |-> confirm /\ pending = 0 /\ acked = 0])

Deliver ==
    /\ reports # << >>
    /\ ui' = WithOutbox(ui, Head(reports)) /\ reports' = Tail(reports)
    /\ UNCHANGED <<page, log, row, server, unsaved, session, faults>>

-----------------------------------------------------------------------------
(* The page.                                                               *)

Network ==
    /\ page' = [page EXCEPT !.online = ~@]
    /\ UNCHANGED <<log, row, server, unsaved, session, reports, ui, faults>>

\* The bridge has restored the replica; useSyncSession starts the session,
\* whose first job copies the log to the outbox, or reports local-only.
StartsCrdt ==
    /\ page.mode = "idle"
    /\ page' = [page EXCEPT !.mode = "crdt"]
    /\ ui' = [Cleared EXCEPT !.localOnly = ~Gateway]
    /\ session' = IF Gateway THEN [NoSession EXCEPT !.conn = "starting", !.tail = <<log>>]
                  ELSE NoSession
    /\ UNCHANGED <<log, row, server, unsaved, reports, faults>>

\* Unsupported content, or the worker cannot persist: the mirror takes over
\* and the session is stopped.
FallsBack ==
    /\ page.mode \in {"idle", "crdt"}
    /\ page' = [page EXCEPT !.mode = "fallback", !.mirror = "saving"]
    /\ unsaved' = TRUE /\ session' = NoSession /\ reports' = << >> /\ ui' = Cleared
    /\ UNCHANGED <<log, row, server, faults>>

\* An edit: durable in the worker's log and announced to the session, or
\* handed to the mirror.
Type ==
    \/ /\ page.mode = "crdt"
       /\ \E o \in Ops \ log :
             /\ \A p \in Ops \ log : o <= p
             /\ log' = log \cup {o}
             /\ session' = IF session.conn = None THEN session
                           ELSE [session EXCEPT !.tail = Append(@, {o})]
       /\ UNCHANGED <<page, unsaved>>
    \/ /\ page.mode = "fallback" /\ page.mirror # "conflict"
       /\ page' = [page EXCEPT !.mirror = "saving"] /\ unsaved' = TRUE
       /\ UNCHANGED <<log, session>>
    /\ UNCHANGED <<row, server, reports, ui, faults>>

\* A save ends: stored, refused for good, or failed and tried again later.
MirrorReplied(status) ==
    /\ page.mode = "fallback" /\ page.mirror \in {"saving", "error"}
    /\ page' = [page EXCEPT !.mirror = status]
    /\ unsaved' = (status # "saved")
    /\ UNCHANGED <<log, row, server, session, reports, ui, faults>>

Reload ==
    /\ Fault
    /\ page' = [page EXCEPT !.mode = "idle", !.mirror = "idle"]
    /\ session' = NoSession /\ reports' = << >> /\ ui' = Cleared /\ unsaved' = FALSE
    /\ UNCHANGED <<log, row, server>>

-----------------------------------------------------------------------------
(* The session.                                                            *)

Recorded(ops) == [o \in Ops |-> IF o \in ops /\ row[o] = None THEN "pending" ELSE row[o]]

\* Mutant: a failed write is not made up for.
JobOpsOnly == Head(session.tail)

\* What the next job of enqueueTail writes; after a failed one, the log again.
JobOps == Head(session.tail) \cup (IF session.broken THEN log ELSE {})

Enqueue ==
    /\ session.tail # << >> /\ Len(reports) < MaxReports
    /\ row' = Recorded(JobOps)
    /\ reports' = Report(row', FALSE)
    /\ session' = [session EXCEPT !.tail = Tail(@), !.broken = FALSE,
                                  !.conn = IF @ = "starting" THEN "down" ELSE @]
    /\ UNCHANGED <<page, log, server, unsaved, ui, faults>>

EnqueueFails ==
    /\ session.tail # << >> /\ Fault
    /\ session' = [session EXCEPT !.tail = Tail(@), !.broken = TRUE,
                                  !.conn = IF @ = "starting" THEN "down" ELSE @]
    /\ ui' = WithError(ui)
    /\ UNCHANGED <<page, log, row, server, unsaved, reports>>

\* onAuthenticated queues the copy of the log; joined and caught up, the
\* transport says it is ready.
Connect ==
    /\ session.conn = "down"
    /\ session' = [session EXCEPT !.conn = "joining", !.tail = Append(@, log)]
    /\ ui' = [ui EXCEPT !.status = "syncing"]
    /\ UNCHANGED <<page, log, row, server, unsaved, reports, faults>>

CaughtUp ==
    /\ session.conn \in {"joining", "ready"} /\ ~session.ready
    /\ session.conn = "joining" => session.tail = << >> /\ ~session.broken
    /\ session' = [session EXCEPT !.conn = "ready", !.ready = TRUE]
    /\ ui' = [ui EXCEPT !.status = "ready"]
    \* onReady: the catch-up covered what was acknowledged.
    /\ row' = [o \in Ops |-> IF row[o] = "acked" THEN "cleared" ELSE row[o]]
    /\ UNCHANGED <<page, log, server, unsaved, reports, faults>>

Disconnect ==
    /\ session.conn \in {"joining", "ready"} /\ Fault
    /\ session' = [session EXCEPT !.conn = "down", !.ready = FALSE]
    /\ ui' = [ui EXCEPT !.status = "reconnecting"]
    /\ UNCHANGED <<page, log, row, server, unsaved, reports>>

\* The rest of onReady, behind enqueueTail: the confirmed report, and what is
\* unacknowledged is sent.
Confirm ==
    /\ session.conn = "ready" /\ session.ready /\ Len(reports) < MaxReports
    /\ session.tail = << >> /\ ~session.broken
    /\ reports' = Report(row, TRUE)
    /\ row' = [o \in Ops |-> IF row[o] = "pending" THEN "sent" ELSE row[o]]
    /\ session' = [session EXCEPT !.ready = FALSE]
    /\ UNCHANGED <<page, log, server, unsaved, ui, faults>>

\* A job failed meanwhile: onReady fails with it and the session reconnects.
ConfirmFails ==
    /\ session.conn = "ready" /\ session.ready /\ session.tail = << >> /\ session.broken
    /\ session' = [session EXCEPT !.conn = "down", !.ready = FALSE]
    /\ ui' = [WithError(ui) EXCEPT !.status = "reconnecting"]
    /\ UNCHANGED <<page, log, row, server, unsaved, reports, faults>>

Flush ==
    /\ session.conn = "ready" /\ Rows({"pending"}) # {}
    /\ row' = [o \in Ops |-> IF row[o] = "pending" THEN "sent" ELSE row[o]]
    /\ UNCHANGED <<page, log, server, unsaved, session, reports, ui, faults>>

Commits(o) ==
    /\ session.conn = "ready" /\ row[o] = "sent" /\ server' = server \cup {o}
    /\ UNCHANGED <<page, log, row, unsaved, session, reports, ui, faults>>

\* handleDurableAck: recorded and reported; the last one asks for a catch-up.
Acked(o) ==
    /\ session.conn = "ready" /\ row[o] = "sent" /\ o \in server /\ Len(reports) < MaxReports
    /\ row' = [row EXCEPT ![o] = "acked"]
    /\ reports' = Report(row', FALSE)
    /\ UNCHANGED <<page, log, server, unsaved, session, ui, faults>>

Next ==
    \/ Network \/ StartsCrdt \/ FallsBack \/ Type \/ Reload \/ Deliver
    \/ \E status \in {"saved", "error", "conflict"} : MirrorReplied(status)
    \/ Enqueue \/ EnqueueFails \/ Connect \/ CaughtUp \/ Disconnect
    \/ Confirm \/ ConfirmFails \/ Flush
    \/ \E o \in Ops : Commits(o) \/ Acked(o)

Spec == Init /\ [][Next]_vars

-----------------------------------------------------------------------------
(* The presentation.                                                       *)

\* toSaveStatusView on the CRDT path ...
ReplicaView ==
    LET pending == \E r \in ui.outbox : r.pending > 0
        confirmed == \E r \in ui.outbox : r.acked > 0 \/ r.confirmed
    IN  CASE ui.error -> "error"
          [] ~ui.error /\ pending -> IF page.online THEN "pending-sync" ELSE "offline"
          [] ~ui.error /\ ~pending /\ confirmed -> "server-acknowledged"
          [] ~ui.error /\ ~pending /\ ~confirmed /\ ui.localOnly -> "local-only"
          [] OTHER -> IF page.online THEN "saved-locally" ELSE "offline"

\* ... and on the mirror's.
MirrorView ==
    CASE page.mirror = "conflict" -> "conflict"
      [] page.mirror = "error" \/ (page.mirror = "saving" /\ ~page.online) -> "error"
      [] page.mirror = "saving" /\ page.online -> "saving"
      [] OTHER -> "saved-mirror"

\* SaveStatusIndicator
View == IF page.mode = "crdt" /\ page.mirror # "conflict" THEN ReplicaView ELSE MirrorView

\* What the label and its description say of the edits.
SaysOnServer(view) == view \in {"server-acknowledged", "saved-mirror"}

\* toConnectionStatusView: only "ready" says that edits sync as the user types.
Connected == ui.status = "ready"

\* CollaborativeModeIndicator
SaysConnected == page.mode = "crdt" /\ ~ui.error /\ Connected

\* Nothing is under way that would report again.
Settled == session.tail = << >> /\ reports = << >> /\ ~session.ready

\* Once nothing is under way, an indicator that speaks of the server is right:
\* every edit of the log is committed (unless an outbox write failed and the
\* log was not copied since: a report read before the failure may then take
\* its error away), or the mirror saved the document as it is; and the session
\* is really joined when "Connected" is shown (save-status.ts,
\* use-sync-status-store.ts: an error ends only with a confirmed outbox).
ClaimsHold ==
    /\ page.mode = "crdt" /\ Settled /\ ~session.broken /\ SaysOnServer(View)
          => log \subseteq server
    /\ page.mode = "fallback" /\ SaysOnServer(View) => ~unsaved
    /\ SaysConnected => session.conn = "ready"

\* The rule of the module: nothing reads as saved on the server before the
\* server acknowledged it (save-status.ts:14).
NeverAheadOfServer == SaysOnServer(View) => log \subseteq server /\ ~unsaved
-----------------------------------------------------------------------------
(* Why the claims hold.                                                    *)

States == {None, "pending", "sent", "acked", "cleared"}
Reports == [pending : Nat, acked : Nat, confirmed : BOOLEAN]
Pages == [mode : {"idle", "crdt", "fallback"},
          mirror : {"idle", "saving", "saved", "error", "conflict"}, online : BOOLEAN]
SessionStates == [conn : {None, "starting", "down", "joining", "ready"}, tail : Seq(SUBSET Ops),
                  broken : BOOLEAN, ready : BOOLEAN]
Stores == [status : {None, "syncing", "ready", "reconnecting"}, error : BOOLEAN,
           localOnly : BOOLEAN, outbox : SUBSET Reports]

TypeOK ==
    /\ page \in Pages /\ log \subseteq Ops /\ row \in [Ops -> States] /\ server \subseteq Ops
    /\ unsaved \in BOOLEAN /\ session \in SessionStates /\ reports \in Seq(Reports) /\ ui \in Stores

\* The mirror speaks in the fallback only, and "saved" of the document as it is.
MirrorInv ==
    /\ (page.mode = "fallback") <=> (page.mirror # "idle")
    /\ page.mirror = "saved" => ~unsaved

\* What is acknowledged is committed.
RowInv == \A o \in Ops : row[o] \in {"acked", "cleared"} => o \in server

\* While a session runs, an operation of the log has its row, or a job that
\* will write it; a job that failed makes the next one copy the whole log.
CopyInv ==
    session.conn # None /\ ~session.broken =>
        \A o \in log : row[o] # None \/ \E i \in DOMAIN session.tail : o \in session.tail[i]

Unacked(rows) == {o \in Ops : rows[o] \in {"pending", "sent"}}

\* The last report that was read counts the rows as they are.
ReportInv ==
    /\ reports # << >> => reports[Len(reports)].pending = Cardinality(Unacked(row))
    /\ reports = << >> => \A r \in ui.outbox : r.pending = Cardinality(Unacked(row))
    /\ session.conn = None => reports = << >> /\ ui.outbox = {}

SaveInv ==
    /\ TypeOK /\ MirrorInv /\ RowInv /\ CopyInv /\ ReportInv
    /\ ui.status = "ready" => session.conn = "ready"
    /\ page.mode # "crdt" => session.conn = None
    /\ session.conn = None => session.tail = << >>
=============================================================================
