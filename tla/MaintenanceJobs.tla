-------------------------- MODULE MaintenanceJobs --------------------------
(***************************************************************************)
(* The durable maintenance queue and the gateways that work on it          *)
(* (maintenance/jobs.rs, scheduler.rs): coalescing enqueue, claims by      *)
(* compare-and-swap, leases kept alive by a heartbeat task, the sweep that *)
(* requeues expired claims, and the stages of a snapshot job with the      *)
(* claim fence of its finalization (db/snapshots.rs).                      *)
(*                                                                         *)
(* One action is one SQL statement.  What a build folds is DocStore's      *)
(* subject; here a snapshot row is its slot, its status and its job.       *)
(***************************************************************************)
EXTENDS Integers

CONSTANTS
    Keys,         \* (document_id, target_seq) of snapshot jobs
    NoKey,
    Gateways,     \* schedulers, one loop each
    NoGateway,    \* owner_gateway IS NULL
    Callers,      \* concurrent calls of enqueue_unique
    MaxJobs,      \* bound: rows of maintenance_jobs
    MaxAttempts   \* max_attempts

ASSUME KeyAssumption     == NoKey \notin Keys
ASSUME GatewayAssumption == NoGateway \notin Gateways
ASSUME JobsAssumption    == MaxJobs \in Nat
ASSUME MaxAssumption     == MaxAttempts \in Nat \ {0}

JobIds == 1..MaxJobs               \* in the order of created_at
Slots  == Keys \X (1..MaxAttempts) \* UNIQUE (document_id, coverage_seq, attempt)

VARIABLES
    jobs,   \* the maintenance_jobs rows
    rows,   \* the crdt_snapshots row of each slot
    exec,   \* the scheduler loop of each gateway
    enq     \* calls of enqueue_unique that found nothing and will insert

vars == <<jobs, rows, exec, enq>>

-----------------------------------------------------------------------------
(* Shapes *)

Class == {"none", "retryable", "terminal", "lease_expired"}

Job == [state    : {"absent", "pending", "running", "completed", "failed"},
        key      : Keys \cup {NoKey},
        attempts : 0..MaxAttempts,
        version  : 0..MaxAttempts,             \* claim_version
        owner    : Gateways \cup {NoGateway},
        lapsed   : BOOLEAN,                    \* lease_expires_at < now()
        class    : Class]                      \* last_failure_class

NoJob == [state |-> "absent", key |-> NoKey, attempts |-> 0, version |-> 0,
          owner |-> NoGateway, lapsed |-> FALSE, class |-> "none"]

Row == [status : {"absent", "building", "verifying", "finalized"},
        job    : JobIds \cup {0}]

NoRow == [status |-> "absent", job |-> 0]

Exec == [pc      : {"idle", "select", "claim", "build", "created", "verifying",
                    "finalize", "complete", "fail"},
         job     : JobIds \cup {0},
         version : 0..MaxAttempts,   \* of the candidate, then of the claim
         attempt : 0..MaxAttempts,   \* job.attempts of the claimed row
         class   : Class]            \* how a failure was classified

Idle == [pc |-> "idle", job |-> 0, version |-> 0, attempt |-> 0,
         class |-> "none"]

InState(s) == {j \in JobIds : jobs[j].state = s}

\* The guard of every fenced statement on maintenance_jobs.
HoldsClaim(g) ==
    /\ jobs[exec[g].job].state = "running"
    /\ jobs[exec[g].job].version = exec[g].version

\* A claim was made and its job is being worked on.
Executing(g) == exec[g].pc \notin {"idle", "select", "claim"}

\* The slot of the attempt a gateway works on.
SlotOf(g) == <<jobs[exec[g].job].key, exec[g].attempt>>

Goto(g, next) == exec' = [exec EXCEPT ![g].pc = next]

-----------------------------------------------------------------------------
Init ==
    /\ jobs = [j \in JobIds |-> NoJob]
    /\ rows = [s \in Slots |-> NoRow]
    /\ exec = [g \in Gateways |-> Idle]
    /\ enq = [c \in Callers |-> NoKey]

-----------------------------------------------------------------------------
(* enqueue_unique: a look, then an insert, on one autocommitting connection *)

LiveJob(k) == \E j \in InState("pending") \cup InState("running") : jobs[j].key = k

EnqueueLook(c, k) ==
    /\ enq[c] = NoKey
    /\ ~LiveJob(k)
    /\ enq' = [enq EXCEPT ![c] = k]
    /\ UNCHANGED <<jobs, rows, exec>>

EnqueueInsert(c, j) ==
    /\ enq[c] # NoKey
    /\ jobs[j].state = "absent"
    /\ \A i \in JobIds : i < j => jobs[i].state # "absent"
    /\ jobs' = [jobs EXCEPT ![j] = [NoJob EXCEPT !.state = "pending", !.key = enq[c]]]
    /\ enq' = [enq EXCEPT ![c] = NoKey]
    /\ UNCHANGED <<rows, exec>>

\* The caller goes away between the two.
EnqueueLost(c) ==
    /\ enq[c] # NoKey
    /\ enq' = [enq EXCEPT ![c] = NoKey]
    /\ UNCHANGED <<jobs, rows, exec>>

-----------------------------------------------------------------------------
(* claim_next: sweep, select, compare-and-swap *)

Expired(j) ==
    /\ jobs[j].state = "running"
    /\ jobs[j].lapsed
    /\ jobs[j].class # "lease_expired"

\* requeue_expired, the first statement of claim_next
Sweep(g) ==
    /\ exec[g].pc = "idle"
    /\ jobs' = [j \in JobIds |->
          IF Expired(j)
          THEN [jobs[j] EXCEPT
                  !.state = IF jobs[j].attempts >= MaxAttempts THEN "failed" ELSE "pending",
                  !.class = "lease_expired", !.owner = NoGateway, !.lapsed = FALSE]
          ELSE jobs[j]]
    /\ Goto(g, "select")
    /\ UNCHANGED <<rows, enq>>

\* FOR UPDATE SKIP LOCKED may pass over a job that another gateway is claiming.
PassedOver(i) == \E h \in Gateways : exec[h].pc = "claim" /\ exec[h].job = i

\* The oldest pending job that is not passed over
Select(g) ==
    /\ exec[g].pc = "select"
    /\ \/ /\ \A i \in InState("pending") : PassedOver(i)
          /\ exec' = [exec EXCEPT ![g] = Idle]
       \/ \E j \in InState("pending") :
             /\ \A i \in InState("pending") : i < j => PassedOver(i)
             /\ exec' = [exec EXCEPT ![g].pc = "claim", ![g].job = j,
                                     ![g].version = jobs[j].version,
                                     ![g].attempt = jobs[j].attempts]
    /\ UNCHANGED <<jobs, rows, enq>>

\* The claim was lost to another gateway; the loop starts over.
ClaimLost(g) ==
    /\ exec[g].pc = "claim"
    /\ ~(/\ jobs[exec[g].job].state = "pending"
         /\ jobs[exec[g].job].version = exec[g].version)
    /\ exec' = [exec EXCEPT ![g] = Idle]
    /\ UNCHANGED <<jobs, rows, enq>>

\* Mutant: the version stays, so that an older claim passes the fence again.
ClaimSameVersion(g) ==
    LET j == exec[g].job IN
    /\ exec[g].pc = "claim"
    /\ jobs[j].state = "pending"
    /\ jobs' = [jobs EXCEPT ![j].state = "running", ![j].owner = g,
                            ![j].attempts = @ + 1, ![j].lapsed = FALSE,
                            ![j].class = "none"]
    /\ exec' = [exec EXCEPT ![g].pc = "build", ![g].attempt = @ + 1]
    /\ UNCHANGED <<rows, enq>>

\* Mutant: the failure class of an earlier expiry survives the claim.
ClaimKeepsClass(g) ==
    LET j == exec[g].job IN
    /\ exec[g].pc = "claim"
    /\ jobs[j].state = "pending" /\ jobs[j].version = exec[g].version
    /\ jobs' = [jobs EXCEPT ![j].state = "running", ![j].owner = g,
                            ![j].version = @ + 1, ![j].attempts = @ + 1,
                            ![j].lapsed = FALSE]
    /\ exec' = [exec EXCEPT ![g].pc = "build", ![g].version = @ + 1,
                            ![g].attempt = @ + 1]
    /\ UNCHANGED <<rows, enq>>

Claim(g) ==
    LET j == exec[g].job IN
    /\ exec[g].pc = "claim"
    /\ jobs[j].state = "pending" /\ jobs[j].version = exec[g].version
    /\ jobs' = [jobs EXCEPT ![j].state = "running", ![j].owner = g,
                            ![j].version = @ + 1, ![j].attempts = @ + 1,
                            ![j].lapsed = FALSE, ![j].class = "none"]
    /\ exec' = [exec EXCEPT ![g].pc = "build", ![g].version = @ + 1,
                            ![g].attempt = @ + 1]
    /\ UNCHANGED <<rows, enq>>

-----------------------------------------------------------------------------
(* Leases *)

\* Time passes: the lease runs out before the owner or the sweep comes by.
Expire(j) ==
    /\ jobs[j].state = "running"
    /\ ~jobs[j].lapsed
    /\ jobs' = [jobs EXCEPT ![j].lapsed = TRUE]
    /\ UNCHANGED <<rows, exec, enq>>

\* The heartbeat task, aborted before the outcome is recorded.  A refused or
\* failed update ends it; since a version that lost its claim never gets it
\* back, that is the same as not beating again.
Heartbeat(g) ==
    /\ Executing(g)
    /\ exec[g].pc \notin {"complete", "fail"}
    /\ HoldsClaim(g)
    /\ jobs' = [jobs EXCEPT ![exec[g].job].lapsed = FALSE]
    /\ UNCHANGED <<rows, exec, enq>>

-----------------------------------------------------------------------------
(* execute_snapshot_job *)

\* create_attempt: the slot's unique constraint makes a second row a (retryable)
\* database error.
CreateAttempt(g) ==
    /\ exec[g].pc = "build"
    /\ IF rows[SlotOf(g)].status = "absent"
       THEN /\ rows' = [rows EXCEPT ![SlotOf(g)] =
                           [status |-> "building", job |-> exec[g].job]]
            /\ Goto(g, "created")
       ELSE /\ exec' = [exec EXCEPT ![g].pc = "fail", ![g].class = "retryable"]
            /\ UNCHANGED rows
    /\ UNCHANGED <<jobs, enq>>

ToVerifying(g) ==
    /\ exec[g].pc = "created"
    /\ rows' = [rows EXCEPT ![SlotOf(g)].status = "verifying"]
    /\ Goto(g, "verifying")
    /\ UNCHANGED <<jobs, enq>>

Verify(g) ==
    /\ exec[g].pc = "verifying"
    /\ Goto(g, "finalize")
    /\ UNCHANGED <<jobs, rows, enq>>

\* A worker, database or verification error in any stage.
StageFails(g, class) ==
    /\ exec[g].pc \in {"build", "created", "verifying", "finalize"}
    /\ exec' = [exec EXCEPT ![g].pc = "fail", ![g].class = class]
    /\ UNCHANGED <<jobs, rows, enq>>

\* Mutant: finalize without the claim fence.
FinalizeUnfenced(g) ==
    /\ exec[g].pc = "finalize"
    /\ rows' = [rows EXCEPT ![SlotOf(g)].status = "finalized"]
    /\ Goto(g, "complete")
    /\ UNCHANGED <<jobs, enq>>

\* finalize: the fence asks for the claim version of the row's job, and not for
\* the job's state or lease.
Finalize(g) ==
    /\ exec[g].pc = "finalize"
    /\ IF jobs[rows[SlotOf(g)].job].version = exec[g].version
       THEN /\ rows' = [rows EXCEPT ![SlotOf(g)].status = "finalized"]
            /\ Goto(g, "complete")
       ELSE /\ exec' = [exec EXCEPT ![g].pc = "fail", ![g].class = "terminal"]
            /\ UNCHANGED rows
    /\ UNCHANGED <<jobs, enq>>

\* complete; its result is ignored
Complete(g) ==
    /\ exec[g].pc = "complete"
    /\ jobs' = IF HoldsClaim(g)
               THEN [jobs EXCEPT ![exec[g].job].state = "completed",
                                 ![exec[g].job].lapsed = FALSE]
               ELSE jobs
    /\ exec' = [exec EXCEPT ![g] = Idle]
    /\ UNCHANGED <<rows, enq>>

\* fail: terminal or exhausted, else back to pending; the result is ignored.
Fail(g) ==
    LET j    == exec[g].job
        over == exec[g].class = "terminal" \/ exec[g].attempt >= MaxAttempts
    IN
    /\ exec[g].pc = "fail"
    /\ jobs' = IF ~HoldsClaim(g) THEN jobs
               ELSE [jobs EXCEPT
                       ![j].state = IF over THEN "failed" ELSE "pending",
                       ![j].owner = IF over THEN @ ELSE NoGateway,
                       ![j].class = exec[g].class, ![j].lapsed = FALSE]
    /\ exec' = [exec EXCEPT ![g] = Idle]
    /\ UNCHANGED <<rows, enq>>

\* The gateway dies, or loses the statement that ends its job: nothing is
\* written, and the loop starts over.  (Before its claim it leaves no trace.)
Crash(g) ==
    /\ Executing(g)
    /\ exec' = [exec EXCEPT ![g] = Idle]
    /\ UNCHANGED <<jobs, rows, enq>>

-----------------------------------------------------------------------------
Work(g) ==
    \/ Sweep(g) \/ Select(g) \/ Claim(g) \/ ClaimLost(g)
    \/ CreateAttempt(g) \/ ToVerifying(g) \/ Verify(g) \/ Finalize(g)
    \/ Complete(g) \/ Fail(g)

Next ==
    \/ \E c \in Callers :
          \/ \E k \in Keys : EnqueueLook(c, k)
          \/ \E j \in JobIds : EnqueueInsert(c, j)
          \/ EnqueueLost(c)
    \/ \E g \in Gateways :
          \/ Work(g)
          \/ Heartbeat(g)
          \/ \E class \in {"retryable", "terminal"} : StageFails(g, class)
          \/ Crash(g)
    \/ \E j \in JobIds : Expire(j)

Spec == Init /\ [][Next]_vars

\* Scheduler loops go on, and a lease that nobody renews runs out.
FairSpec ==
    /\ Spec
    /\ \A g \in Gateways : WF_vars(Work(g))
    /\ \A j \in JobIds : WF_vars(Expire(j))

-----------------------------------------------------------------------------
(* Properties *)

\* Types, and the table's CHECK constraints: a running job has an owner, and no
\* job is tried more often than max_attempts allows.
TypeOK ==
    /\ jobs \in [JobIds -> Job]
    /\ rows \in [Slots -> Row]
    /\ exec \in [Gateways -> Exec]
    /\ enq \in [Callers -> Keys \cup {NoKey}]
    /\ \A j \in InState("running") : jobs[j].owner # NoGateway

\* DEC-037: at most one gateway holds the current claim of a job, however many
\* still work on it.
OneClaimHolder ==
    \A g, h \in Gateways :
        /\ Executing(g) /\ Executing(h) /\ exec[g].job = exec[h].job
        /\ HoldsClaim(g) /\ HoldsClaim(h)
        => g = h

\* A settled job stays as it is, and so does a finalized snapshot: no late
\* failure report, sweep or stale owner reopens it.
SettledStays ==
    [][/\ \A j \in JobIds :
             jobs[j].state \in {"completed", "failed"} => jobs'[j] = jobs[j]
       /\ \A s \in Slots :
             rows[s].status = "finalized" => rows'[s] = rows[s]]_vars

\* What submitters may rely on, whatever the interleaving (JobService).
Status(j) ==
    CASE jobs[j].state \in {"pending", "running"} -> "open"
      [] jobs[j].state = "completed" -> "done"
      [] OTHER -> jobs[j].state

Results(j) ==
    {a \in 1..MaxAttempts : \E k \in Keys : /\ rows[<<k, a>>].status = "finalized"
                                            /\ rows[<<k, a>>].job = j}

Service == INSTANCE JobService WITH
    Jobs     <- JobIds,
    MaxTries <- MaxAttempts,
    status   <- [j \in JobIds |-> Status(j)],
    tries    <- [j \in JobIds |-> jobs[j].attempts],
    results  <- [j \in JobIds |-> Results(j)]

ServiceSpec == Service!Spec

\* Every job is finally settled, although gateways may die at any step: the
\* sweep finds each expired claim, and attempts run out (SEC5 audit V9).
EveryJobSettles ==
    \A j \in JobIds :
        jobs[j].state = "pending" ~> jobs[j].state \in {"completed", "failed"}

\* FAILURE_MODEL 8.3: after the sweep requeued a job, "the claim fence makes the
\* dead gateway's late actions no-ops".
LateActionsAreNoOps ==
    [][\A g \in Gateways :
          exec[g].pc = "finalize" /\ exec'[g].pc = "complete" => HoldsClaim(g)]_vars

-----------------------------------------------------------------------------
(* The inductive invariant behind the safety properties;                   *)
(* MaintenanceJobsProofs proves it for every value of the constants.        *)

\* The claim version counts the attempts, and a pending job has one left.
QueueInv ==
    \A j \in JobIds :
        /\ jobs[j].version = jobs[j].attempts
        /\ jobs[j].state = "absent" => jobs[j].attempts = 0
        /\ jobs[j].state # "absent" => jobs[j].key \in Keys
        /\ jobs[j].state = "pending" => jobs[j].attempts < MaxAttempts

\* A snapshot row stands in the slot of an attempt its job has begun.
RowInv ==
    \A s \in Slots :
        rows[s].status # "absent" =>
            /\ rows[s].job \in JobIds
            /\ jobs[rows[s].job].key = s[1]
            /\ s[2] <= jobs[rows[s].job].attempts

\* A gateway works on an existing job under a version that was handed out, and
\* the row of its attempt is as far as the gateway is.
ExecInv(g) ==
    /\ exec[g].pc \notin {"idle", "select"} =>
          /\ exec[g].job \in JobIds
          /\ jobs[exec[g].job].state # "absent"
          /\ exec[g].attempt = exec[g].version
          /\ exec[g].version <= jobs[exec[g].job].version
    /\ Executing(g) => exec[g].version > 0
    /\ exec[g].pc = "created" =>
          rows[SlotOf(g)] = [status |-> "building", job |-> exec[g].job]
    /\ exec[g].pc \in {"verifying", "finalize"} =>
          rows[SlotOf(g)] = [status |-> "verifying", job |-> exec[g].job]
    /\ exec[g].pc = "complete" =>
          rows[SlotOf(g)] = [status |-> "finalized", job |-> exec[g].job]

\* No version of a job is handed out twice.
OneExecutor ==
    \A g, h \in Gateways :
        /\ Executing(g) /\ Executing(h)
        /\ exec[g].job = exec[h].job /\ exec[g].version = exec[h].version
        => g = h

\* Everything above, together.
JobInv ==
    /\ TypeOK
    /\ QueueInv
    /\ RowInv
    /\ \A g \in Gateways : ExecInv(g)
    /\ OneExecutor
=============================================================================
