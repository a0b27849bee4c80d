------------------------------- MODULE Browser -------------------------------
(***************************************************************************)
(* Components of the browser, and the fan-out of the gateways it talks to, *)
(* that share no state, checked in one run: a behaviour picks one of them  *)
(* and runs it alone, so the reachable states are those of the nine, side  *)
(* by side.                                                                *)
(***************************************************************************)
EXTENDS Integers, FiniteSets

VARIABLES
    part,  \* the component this behaviour runs
    version, log, cursor, server, session, faults,  \* variables that several components have
    coverage, rows, seen, paged,
    primary, opened, drawn, locks, mounts, shared, remote, edits, late,
    scope, drafts, dirty, selected, status, stored, meant, excused, made,
    bridge, worker, fetching, pending, calls, heard, threads,
    page, row, unsaved, reports, ui,
    medium, input, envelope, damage,
    order, kind, org, epoch, list, load, refresh, dialog, renames, blind,
    replays, current, opening, runner, call, slider, shown, error, moves,
    ops, conn, task, stream, consumer, readers, draining, dropped

CONSTANTS
    MaxOps, MaxBatch,                                       \* OutboxStore; MaxOps also of WireCodecs and GatewayFanout
    ReplicaTabs, MaxIds, MaxMounts, MaxEdits, MaxRemote,    \* LocalReplica
    DraftScopes, MaxDrafts, MaxBytes, MaxMade, MaxFaults,   \* LocalDrafts; MaxFaults also of EngineRpc and GatewayFanout
    Configured, MaxSaveEdits, MaxSaveFaults, MaxReports,    \* SaveIndicator
    Docs, DocKinds, PageSize, MaxChanges, MaxRenames,       \* DocumentList
    Log, Stride, MaxOpens, MaxMoves,                        \* Replay
    Gateways, RestGateways, Conns, Home, QueueSize, MaxDeliver  \* GatewayFanout

\* What the theorems need to know of them.
ASSUME FanoutAssumption ==
    /\ MaxOps \in Nat /\ MaxDeliver \in Nat \ {0} /\ QueueSize \in Nat
    /\ Home \in [Conns -> Gateways] /\ RestGateways \subseteq Gateways
    /\ Conns \cap Gateways = {} /\ "nobody" \notin Conns

ASSUME ReplayAssumption == Log \in Nat /\ Stride \in Nat \ {0}

ASSUME SaveAssumption == MaxSaveEdits \in Nat

ASSUME ReplicaAssumption == MaxIds \in Nat \ {0}

ASSUME ListAssumption == IsFiniteSet(Docs) /\ PageSize \in Nat

\* A component's variables and constants are those of the same name here, but
\* for the constants given after WITH.
Outbox == INSTANCE OutboxStore
Replica == INSTANCE LocalReplica WITH Tabs <- ReplicaTabs
Drafts == INSTANCE LocalDrafts WITH Scopes <- DraftScopes
Engine == INSTANCE EngineRpc WITH
    MaxPending <- 2, FirstBuffer <- 1, ErrBase <- -8, ErrWindow <- 4,
    Sizes <- {1, 3}, MaxCalls <- 4
Save == INSTANCE SaveIndicator WITH
    Gateway <- Configured, MaxEdits <- MaxSaveEdits, MaxFaults <- MaxSaveFaults
Codecs == INSTANCE WireCodecs WITH
    ByteSize <- 16, CharSize <- 8, MaxOpBytes <- 2, MaxPayload <- 5, MaxSafe <- 2,
    MaxU64 <- 40, MaxDigits <- 3, MaxInput <- 8, MaxDamage <- 2
Documents == INSTANCE DocumentList WITH Kinds <- DocKinds
TimeTravel == INSTANCE Replay
Fanout == INSTANCE GatewayFanout

-----------------------------------------------------------------------------
\* What each component has for itself.
outboxVars == <<coverage, rows, seen, paged>>
replicaVars == <<primary, opened, drawn, locks, mounts, shared, remote,
                 edits, late>>
localVars == <<scope, drafts, dirty, selected, status, stored, meant,
               excused, made>>
engineVars == <<bridge, worker, fetching, pending, calls, heard, threads>>
indicatorVars == <<page, row, unsaved, reports, ui>>
codecsVars == <<medium, input, envelope, damage>>
documentsVars == <<order, kind, org, epoch, list, load, refresh, dialog,
                   renames, blind>>
travelVars == <<replays, current, opening, runner, call, slider, shown,
                error, moves>>
fanoutVars == <<ops, conn, task, stream, consumer, readers, draining,
                dropped>>

vars == <<part, version, log, cursor, server, session, faults,
          outboxVars, replicaVars, localVars, engineVars, indicatorVars,
          codecsVars, documentsVars, travelVars, fanoutVars>>

\* A variable the component does not have stays "".
NoOutbox ==
    /\ coverage = "" /\ rows = "" /\ seen = "" /\ paged = ""
NoReplica ==
    /\ primary = "" /\ opened = "" /\ drawn = "" /\ locks = "" /\ mounts = ""
    /\ shared = "" /\ remote = "" /\ edits = "" /\ late = ""
NoLocal ==
    /\ scope = "" /\ drafts = "" /\ dirty = "" /\ selected = ""
    /\ status = "" /\ stored = "" /\ meant = "" /\ excused = "" /\ made = ""
NoEngine ==
    /\ bridge = "" /\ worker = "" /\ fetching = "" /\ pending = ""
    /\ calls = "" /\ heard = "" /\ threads = ""
NoIndicator ==
    /\ page = "" /\ row = "" /\ unsaved = "" /\ reports = "" /\ ui = ""
NoCodecs ==
    /\ medium = "" /\ input = "" /\ envelope = "" /\ damage = ""
NoDocuments ==
    /\ order = "" /\ kind = "" /\ org = "" /\ epoch = "" /\ list = ""
    /\ load = "" /\ refresh = "" /\ dialog = "" /\ renames = "" /\ blind = ""
NoTravel ==
    /\ replays = "" /\ current = "" /\ opening = "" /\ runner = ""
    /\ call = "" /\ slider = "" /\ shown = "" /\ error = "" /\ moves = ""
NoFanout ==
    /\ ops = "" /\ conn = "" /\ task = "" /\ stream = "" /\ consumer = ""
    /\ readers = "" /\ draining = "" /\ dropped = ""

Init ==
    \/ /\ part = "OutboxStore" /\ Outbox!Init
       /\ faults = ""
       /\ NoReplica /\ NoLocal /\ NoEngine
       /\ NoIndicator /\ NoCodecs /\ NoDocuments
       /\ NoTravel /\ NoFanout
    \/ /\ part = "LocalReplica" /\ Replica!Init
       /\ version = "" /\ server = "" /\ faults = ""
       /\ NoOutbox /\ NoLocal /\ NoEngine
       /\ NoIndicator /\ NoCodecs /\ NoDocuments
       /\ NoTravel /\ NoFanout
    \/ /\ part = "LocalDrafts" /\ Drafts!Init
       /\ version = "" /\ log = "" /\ cursor = "" /\ server = "" /\ session = ""
       /\ NoOutbox /\ NoReplica /\ NoEngine
       /\ NoIndicator /\ NoCodecs /\ NoDocuments
       /\ NoTravel /\ NoFanout
    \/ /\ part = "EngineRpc" /\ Engine!Init
       /\ version = "" /\ cursor = "" /\ server = "" /\ session = ""
       /\ NoOutbox /\ NoReplica /\ NoLocal
       /\ NoIndicator /\ NoCodecs /\ NoDocuments
       /\ NoTravel /\ NoFanout
    \/ /\ part = "SaveIndicator" /\ Save!Init
       /\ version = "" /\ cursor = ""
       /\ NoOutbox /\ NoReplica /\ NoLocal
       /\ NoEngine /\ NoCodecs /\ NoDocuments
       /\ NoTravel /\ NoFanout
    \/ /\ part = "WireCodecs" /\ Codecs!Init
       /\ version = "" /\ log = "" /\ cursor = "" /\ server = "" /\ session = "" /\ faults = ""
       /\ NoOutbox /\ NoReplica /\ NoLocal
       /\ NoEngine /\ NoIndicator /\ NoDocuments
       /\ NoTravel /\ NoFanout
    \/ /\ part = "DocumentList" /\ Documents!Init
       /\ log = "" /\ cursor = "" /\ server = "" /\ session = "" /\ faults = ""
       /\ NoOutbox /\ NoReplica /\ NoLocal
       /\ NoEngine /\ NoIndicator /\ NoCodecs
       /\ NoTravel /\ NoFanout
    \/ /\ part = "Replay" /\ TimeTravel!Init
       /\ version = "" /\ log = "" /\ cursor = "" /\ server = "" /\ session = "" /\ faults = ""
       /\ NoOutbox /\ NoReplica /\ NoLocal
       /\ NoEngine /\ NoIndicator /\ NoCodecs
       /\ NoDocuments /\ NoFanout
    \/ /\ part = "GatewayFanout" /\ Fanout!Init
       /\ version = "" /\ log = "" /\ cursor = "" /\ server = "" /\ session = ""
       /\ NoOutbox /\ NoReplica /\ NoLocal
       /\ NoEngine /\ NoIndicator /\ NoCodecs
       /\ NoDocuments /\ NoTravel

Next ==
    \/ /\ part = "OutboxStore" /\ Outbox!Next
       /\ UNCHANGED <<part, faults, replicaVars, localVars, engineVars,
                      indicatorVars, codecsVars, documentsVars, travelVars,
                      fanoutVars>>
    \/ /\ part = "LocalReplica" /\ Replica!Next
       /\ UNCHANGED <<part, version, server, faults, outboxVars, localVars,
                      engineVars, indicatorVars, codecsVars, documentsVars,
                      travelVars, fanoutVars>>
    \/ /\ part = "LocalDrafts" /\ Drafts!Next
       /\ UNCHANGED <<part, version, log, cursor, server, session,
                      outboxVars, replicaVars, engineVars, indicatorVars,
                      codecsVars, documentsVars, travelVars, fanoutVars>>
    \/ /\ part = "EngineRpc" /\ Engine!Next
       /\ UNCHANGED <<part, version, cursor, server, session, outboxVars,
                      replicaVars, localVars, indicatorVars, codecsVars,
                      documentsVars, travelVars, fanoutVars>>
    \/ /\ part = "SaveIndicator" /\ Save!Next
       /\ UNCHANGED <<part, version, cursor, outboxVars, replicaVars,
                      localVars, engineVars, codecsVars, documentsVars,
                      travelVars, fanoutVars>>
    \/ /\ part = "WireCodecs" /\ Codecs!Next
       /\ UNCHANGED <<part, version, log, cursor, server, session, faults,
                      outboxVars, replicaVars, localVars, engineVars,
                      indicatorVars, documentsVars, travelVars, fanoutVars>>
    \/ /\ part = "DocumentList" /\ Documents!Next
       /\ UNCHANGED <<part, log, cursor, server, session, faults,
                      outboxVars, replicaVars, localVars, engineVars,
                      indicatorVars, codecsVars, travelVars, fanoutVars>>
    \/ /\ part = "Replay" /\ TimeTravel!Next
       /\ UNCHANGED <<part, version, log, cursor, server, session, faults,
                      outboxVars, replicaVars, localVars, engineVars,
                      indicatorVars, codecsVars, documentsVars, fanoutVars>>
    \/ /\ part = "GatewayFanout" /\ Fanout!Next
       /\ UNCHANGED <<part, version, log, cursor, server, session,
                      outboxVars, replicaVars, localVars, engineVars,
                      indicatorVars, codecsVars, documentsVars, travelVars>>

Spec == Init /\ [][Next]_vars

-----------------------------------------------------------------------------
\* An operation leaves the outbox only when a page before the durable cursor
\* brought it back, and a row keeps its proof as long as it is there
\* (pending-store.ts clearAcked, idb.ts onupgradeneeded).
OutboxIsSafe == part = "OutboxStore" => Outbox!RemovedIsCovered /\ Outbox!StaysRemovable

\* Unless a page was left with edits that its log had not got, no two durable
\* operations carry the same identity; and a replica holds what its cursor
\* covers, whatever tabs were duplicated or reloaded
\* (editor-bridge.ts acquireReplica, core.ts restore).
ReplicasAreSound == part = "LocalReplica" => Replica!IdentityOnceUnlessLate /\ Replica!CursorCovered

\* Drafts the user left are found again under their own account and document
\* (drafts-panel.tsx, drafts.ts).
DraftsAreKept == part = "LocalDrafts" => Drafts!DraftsSurvive

\* A read shows only durable operations and the session hears each of them
\* once, in order, although calls interleave and fail (crdt-worker.ts).
EngineIsDurable == part = "EngineRpc" => Engine!ReadsAreDurable /\ Engine!HeardIsTheLog

\* Once nothing is under way, an indicator that speaks of the server is right
\* (save-status.ts, use-sync-status-store.ts).
IndicatorIsRight == part = "SaveIndicator" => Save!ClaimsHold

\* A decoder accepts exactly what the other side's encoder writes, and a
\* snapshot is imported exactly when it is the announced one (protocol.ts,
\* snapshot-resync.ts).
CodecsAreStrict == part = "WireCodecs" => Codecs!CodecsExact /\ Codecs!ImportsAnnounced

\* What is listed may be read, in the role listed, and the list ends where
\* the documents end (repositories/documents.ts, documents-view.tsx).
ListIsRight == part = "DocumentList" => Documents!ListFollowsPolicy /\ Documents!ListIsWhole

\* A state shown for a prefix of the log is the fold of that prefix, whatever
\* was in flight when the slider moved (replay.ts).
ReplayIsExact == part = "Replay" => TimeTravel!ReplayExact

\* A client that is up to date misses nothing that was committed, unless the
\* stream between the gateways never got it (sessions/mod.rs, bus/mod.rs).
NothingIsMissed == part = "GatewayFanout" => Fanout!NothingMissed
=============================================================================
