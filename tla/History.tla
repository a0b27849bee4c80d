------------------------------- MODULE History -------------------------------
(***************************************************************************)
(* Branches, drafts, archives and bundles of a document's history, and the *)
(* configuration they are deployed with: components that share no state,   *)
(* checked in one run.  A behaviour picks one of them and runs it alone,   *)
(* so the reachable states are those of the seven, side by side.           *)
(***************************************************************************)
EXTENDS Naturals

VARIABLES
    part,  \* the component this behaviour runs
    panel, told, file,  \* variables that several components have
    work, head, allowed, merges, stored, calls, used, branches, form, attempts,
    base, main, branch,
    log, written, floor, snapshots, revisions,
    held, step, wanted, capture, shown,
    disk, drawn, queries, imports,
    typed, engine, recorded, durable, acked, others, got,
    proc, report, web, gateway, edits

CONSTANTS
    Tabs,                                                         \* ReviewBranches and SignedImport
    Names, MaxReviewEdits, MaxIntents, MaxAttempts, MaxBranches,  \* ReviewBranches
    MaxSeq, MaxSnapshots, MaxRevisions,                           \* HistoryProofs
    Archives, Titles, MaxIds,                                     \* SignedImport
    MaxTyped, MaxOthers,                                          \* SignedExport
    MaxChanges                                                    \* DeployConfig

ASSUME SeqAssumption == MaxSeq \in Nat

\* A component's variables and constants are those of the same name here.
Branches == INSTANCE ReviewBranches WITH MaxEdits <- MaxReviewEdits
Blocks == INSTANCE BlockMerge WITH
    Blocks <- {"a", "b", "x"}, ListBlocks <- {"x"}, Blank <- "blank", MaxBlocks <- 3
Proofs == INSTANCE HistoryProofs WITH Key <- "k"
Pack == INSTANCE PackFile WITH MaxOps <- 4, MaxFrameOps <- 4, MaxOpCells <- 2
Import == INSTANCE SignedImport
Export == INSTANCE SignedExport WITH MaxEdits <- MaxTyped
Config == INSTANCE DeployConfig WITH MaxEdits <- MaxChanges

-----------------------------------------------------------------------------
\* What each component has for itself.
branchesVars == <<work, head, allowed, merges, stored, calls, used, branches, form, attempts>>
blocksVars == <<base, main, branch>>
proofsVars == <<log, written, floor, snapshots, revisions>>
packVars == <<held, step, wanted, capture, shown>>
importVars == <<disk, drawn, queries, imports>>
exportVars == <<typed, engine, recorded, durable, acked, others, got>>
configVars == <<proc, report, web, gateway, edits>>

vars == <<part, panel, told, file, branchesVars, blocksVars, proofsVars, packVars, importVars,
          exportVars, configVars>>

\* A variable the component does not have stays "".
NoBranches ==
    /\ work = "" /\ head = "" /\ allowed = "" /\ merges = "" /\ stored = "" /\ calls = ""
    /\ used = "" /\ branches = "" /\ form = "" /\ attempts = ""
NoBlocks == base = "" /\ main = "" /\ branch = ""
NoProofs == log = "" /\ written = "" /\ floor = "" /\ snapshots = "" /\ revisions = ""
NoPack == held = "" /\ step = "" /\ wanted = "" /\ capture = "" /\ shown = ""
NoImport == disk = "" /\ drawn = "" /\ queries = "" /\ imports = ""
NoExport ==
    /\ typed = "" /\ engine = "" /\ recorded = "" /\ durable = "" /\ acked = ""
    /\ others = "" /\ got = ""
NoConfig == proc = "" /\ report = "" /\ web = "" /\ gateway = "" /\ edits = ""

Init ==
    \/ /\ part = "ReviewBranches" /\ Branches!Init
       /\ file = ""
       /\ NoBlocks /\ NoProofs /\ NoPack /\ NoImport /\ NoExport /\ NoConfig
    \/ /\ part = "BlockMerge" /\ Blocks!Init
       /\ panel = "" /\ told = "" /\ file = ""
       /\ NoBranches /\ NoProofs /\ NoPack /\ NoImport /\ NoExport /\ NoConfig
    \/ /\ part = "HistoryProofs" /\ Proofs!Init
       /\ panel = "" /\ told = "" /\ file = ""
       /\ NoBranches /\ NoBlocks /\ NoPack /\ NoImport /\ NoExport /\ NoConfig
    \/ /\ part = "PackFile" /\ Pack!Init
       /\ panel = "" /\ told = ""
       /\ NoBranches /\ NoBlocks /\ NoProofs /\ NoImport /\ NoExport /\ NoConfig
    \/ /\ part = "SignedImport" /\ Import!Init
       /\ told = "" /\ file = ""
       /\ NoBranches /\ NoBlocks /\ NoProofs /\ NoPack /\ NoExport /\ NoConfig
    \/ /\ part = "SignedExport" /\ Export!Init
       /\ file = ""
       /\ NoBranches /\ NoBlocks /\ NoProofs /\ NoPack /\ NoImport /\ NoConfig
    \/ /\ part = "DeployConfig" /\ Config!Init
       /\ panel = "" /\ told = ""
       /\ NoBranches /\ NoBlocks /\ NoProofs /\ NoPack /\ NoImport /\ NoExport

Next ==
    \/ /\ part = "ReviewBranches" /\ Branches!Next
       /\ UNCHANGED <<part, file, blocksVars, proofsVars, packVars,
                      importVars, exportVars, configVars>>
    \/ /\ part = "BlockMerge" /\ Blocks!Next
       /\ UNCHANGED <<part, panel, told, file, branchesVars, proofsVars,
                      packVars, importVars, exportVars, configVars>>
    \/ /\ part = "HistoryProofs" /\ Proofs!Next
       /\ UNCHANGED <<part, panel, told, file, branchesVars, blocksVars,
                      packVars, importVars, exportVars, configVars>>
    \/ /\ part = "PackFile" /\ Pack!Next
       /\ UNCHANGED <<part, panel, told, branchesVars, blocksVars,
                      proofsVars, importVars, exportVars, configVars>>
    \/ /\ part = "SignedImport" /\ Import!Next
       /\ UNCHANGED <<part, told, file, branchesVars, blocksVars,
                      proofsVars, packVars, exportVars, configVars>>
    \/ /\ part = "SignedExport" /\ Export!Next
       /\ UNCHANGED <<part, file, branchesVars, blocksVars, proofsVars,
                      packVars, importVars, configVars>>
    \/ /\ part = "DeployConfig" /\ Config!Next
       /\ UNCHANGED <<part, panel, told, branchesVars, blocksVars,
                      proofsVars, packVars, importVars, exportVars>>

Spec == Init /\ [][Next]_vars

-----------------------------------------------------------------------------
\* A merge joins main directly after the state the reviewer compared, from the
\* branch as compared; a committed merge is told or can be recovered, and a
\* branch asked for once exists once, over lost answers, retries and reloads
\* (review-branches-panel.tsx, branches.rs).
BranchesAreSound ==
    part = "ReviewBranches" =>
        Branches!MergeIsReviewed /\ Branches!MergeRecoverable /\ Branches!CreatedOnce

\* What a draft or a review merges is the base with exactly the chosen changes,
\* each in the place where it was made (drafts.ts, branch_merge.rs).
MergesAreExact == part = "BlockMerge" => Blocks!DraftMergeExact /\ Blocks!ReviewMergeExact

\* An audit path proves one operation at one place, and what the gateway
\* exports verifies in the browser (proofs.rs, concordpack.rs, signed-concordpack.ts).
ProofsAreSound == part = "HistoryProofs" => Proofs!ProofBinds /\ Proofs!ExportVerifies

\* An archive is imported once, and the document linked to was made of it
\* under the title shown (signed-pack-panel.tsx, concordpack.rs import).
ImportsAreSound == part = "SignedImport" => Import!ImportedOnce /\ Import!RestoredIsShown

\* A file the user saves holds what was typed before it was asked for: a bundle
\* that previews, and a signed archive that is offered (concordpack.ts,
\* exportHistory in signed-pack-panel.tsx).
FilesAreWhole ==
    /\ part = "PackFile" => Pack!PackShowsState
    /\ part = "SignedExport" => Export!ExportHoldsEdits

\* A service that starts after a passed check refuses only what the check does
\* not know, and with TLS required no page is served without it
\* (validate-env.mjs, env.ts, proxy.ts, config.rs).
ConfigurationIsChecked == part = "DeployConfig" => Config!PassedStarts /\ Config!TlsIsWhole
=============================================================================
