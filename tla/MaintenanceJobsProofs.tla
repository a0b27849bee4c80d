------------------------ MODULE MaintenanceJobsProofs ------------------------
(***************************************************************************)
(* Proofs about MaintenanceJobs, for every set of keys, gateways and       *)
(* callers and every bound on jobs and attempts.  JobInv is inductive; the *)
(* safety properties and the refinement of JobService follow from it.      *)
(***************************************************************************)
EXTENDS MaintenanceJobs, TLAPS

USE KeyAssumption, GatewayAssumption, JobsAssumption, MaxAssumption

-----------------------------------------------------------------------------
(* Shapes *)

\* The initial records have their declared shapes.
LEMMA ConstantsTyped ==
    /\ NoJob \in Job /\ NoRow \in Row /\ Idle \in Exec
    /\ JobIds \subseteq Int /\ 0 \notin JobIds
BY DEF NoJob, NoRow, Idle, Job, Row, Exec, Class, JobIds

\* The slot of a gateway that executes exists, and its attempt was begun.
LEMMA SlotTyped ==
    ASSUME JobInv, NEW g \in Gateways, Executing(g)
    PROVE  /\ SlotOf(g) \in Slots
           /\ exec[g].job \in JobIds
           /\ jobs[exec[g].job].state # "absent"
           /\ jobs[exec[g].job].key \in Keys
           /\ exec[g].attempt = exec[g].version
           /\ exec[g].attempt \in 1..MaxAttempts
           /\ exec[g].attempt <= jobs[exec[g].job].attempts
<1>1. /\ exec[g] \in Exec
      /\ exec[g].attempt \in 0..MaxAttempts /\ exec[g].version \in 0..MaxAttempts
  BY DEF JobInv, TypeOK, Exec
<1>2. /\ exec[g].job \in JobIds
      /\ jobs[exec[g].job].state # "absent"
      /\ exec[g].attempt = exec[g].version
      /\ exec[g].version <= jobs[exec[g].job].version
      /\ exec[g].version > 0
  BY DEF JobInv, ExecInv, Executing
<1>3. /\ jobs[exec[g].job].version = jobs[exec[g].job].attempts
      /\ jobs[exec[g].job].key \in Keys
  BY <1>2 DEF JobInv, QueueInv
<1>4. exec[g].attempt \in 1..MaxAttempts
  BY <1>1, <1>2
<1> QED BY <1>2, <1>3, <1>4 DEF SlotOf, Slots

\* Two gateways that work in the same slot under the same job are one.
LEMMA SlotsApart ==
    ASSUME JobInv, NEW g \in Gateways, NEW h \in Gateways,
           Executing(g), Executing(h), SlotOf(g) = SlotOf(h),
           exec[g].job = exec[h].job
    PROVE  g = h
<1>1. exec[g].attempt = exec[h].attempt
  BY DEF SlotOf
<1>2. exec[g].version = exec[h].version
  BY <1>1, SlotTyped
<1> QED BY <1>2 DEF JobInv, OneExecutor

-----------------------------------------------------------------------------
(* Frames *)

\* No job changes its identity or begins an attempt.
JobsKept ==
    \A j \in JobIds :
        /\ jobs'[j].key = jobs[j].key
        /\ jobs'[j].version = jobs[j].version
        /\ jobs'[j].attempts = jobs[j].attempts
        /\ jobs'[j].state = "absent" <=> jobs[j].state = "absent"
        /\ jobs'[j].state = "pending" => jobs'[j].attempts < MaxAttempts

\* A gateway goes on, stops, or does something that respects its invariant.
ExecKept(h) ==
    \/ exec'[h] = exec[h]
    \/ exec'[h] = Idle
    \/ /\ ExecInv(h)'
       /\ Executing(h)' => /\ Executing(h)
                           /\ exec'[h].job = exec[h].job
                           /\ exec'[h].version = exec[h].version

\* A step that begins no attempt and touches no snapshot row keeps the invariant.
LEMMA KeepInv ==
    ASSUME JobInv, TypeOK', JobsKept, rows' = rows,
           \A h \in Gateways : ExecKept(h)
    PROVE  JobInv'
<1>1. QueueInv'
  BY DEF JobInv, QueueInv, JobsKept
<1>2. RowInv'
  BY DEF JobInv, RowInv, JobsKept
<1>3. ASSUME NEW h \in Gateways PROVE ExecInv(h)'
  <2>1. CASE exec'[h] = exec[h]
    <3>1. ExecInv(h)
      BY DEF JobInv
    <3>2. CASE exec[h].pc \in {"idle", "select"}
      BY <2>1, <3>1, <3>2 DEF ExecInv, Executing
    <3>3. CASE exec[h].pc \notin {"idle", "select"}
      <4>1. exec[h].job \in JobIds
        BY <3>1, <3>3 DEF ExecInv
      <4>2. SlotOf(h)' = SlotOf(h)
        BY <2>1, <4>1 DEF SlotOf, JobsKept
      <4> QED BY <2>1, <3>1, <4>1, <4>2 DEF ExecInv, Executing, JobsKept
    <3> QED BY <3>2, <3>3
  <2>2. CASE exec'[h] = Idle
    BY <2>2 DEF ExecInv, Executing, Idle
  <2> QED BY <1>3, <2>1, <2>2 DEF ExecKept
<1>4. OneExecutor'
  <2>1. ASSUME NEW h \in Gateways, Executing(h)'
        PROVE  /\ Executing(h)
               /\ exec'[h].job = exec[h].job /\ exec'[h].version = exec[h].version
    BY <2>1 DEF ExecKept, Executing, Idle
  <2> QED BY <2>1 DEF JobInv, OneExecutor
<1> QED BY <1>1, <1>2, <1>3, <1>4 DEF JobInv

\* Only the loop of one gateway changes.
LEMMA ExecOnly ==
    ASSUME JobInv, NEW g \in Gateways, NEW e \in Exec,
           exec' = [exec EXCEPT ![g] = e],
           UNCHANGED <<jobs, rows, enq>>,
           ExecKept(g)
    PROVE  JobInv'
<1>1. TypeOK'
  BY DEF JobInv, TypeOK, InState
<1>2. JobsKept
  BY DEF JobInv, QueueInv, JobsKept
<1>3. \A h \in Gateways : ExecKept(h)
  BY DEF ExecKept, JobInv, TypeOK
<1> QED BY <1>1, <1>2, <1>3, KeepInv

-----------------------------------------------------------------------------
(* Steps that begin no attempt and touch no snapshot row *)

\* The calls of enqueue_unique that insert nothing.
LEMMA EnqueueKeeps ==
    ASSUME JobInv, NEW c \in Callers,
           (\E k \in Keys : EnqueueLook(c, k)) \/ EnqueueLost(c)
    PROVE  JobInv'
<1>1. /\ UNCHANGED <<jobs, rows, exec>>
      /\ \E k \in Keys \cup {NoKey} : enq' = [enq EXCEPT ![c] = k]
  BY DEF EnqueueLook, EnqueueLost
<1>2. TypeOK'
  BY <1>1 DEF JobInv, TypeOK, InState
<1>3. JobsKept /\ \A h \in Gateways : ExecKept(h)
  BY <1>1 DEF JobInv, QueueInv, JobsKept, ExecKept
<1> QED BY <1>1, <1>2, <1>3, KeepInv

\* The sweep requeues only jobs that have an attempt left.
LEMMA SweepKeeps ==
    ASSUME JobInv, NEW g \in Gateways, Sweep(g)
    PROVE  JobInv'
<1>1. ASSUME NEW j \in JobIds
      PROVE  /\ jobs'[j] \in Job
             /\ jobs'[j].key = jobs[j].key
             /\ jobs'[j].version = jobs[j].version
             /\ jobs'[j].attempts = jobs[j].attempts
             /\ jobs'[j].state = "absent" <=> jobs[j].state = "absent"
             /\ jobs'[j].state = "pending" => jobs'[j].attempts < MaxAttempts
             /\ jobs'[j].state = "running" => jobs'[j] = jobs[j]
  <2>1. jobs[j] \in Job /\ (jobs[j].state = "pending" => jobs[j].attempts < MaxAttempts)
    BY DEF JobInv, TypeOK, QueueInv
  <2>2. CASE Expired(j)
    <3>1. jobs'[j] = [jobs[j] EXCEPT
            !.state = IF jobs[j].attempts >= MaxAttempts THEN "failed" ELSE "pending",
            !.class = "lease_expired", !.owner = NoGateway, !.lapsed = FALSE]
      BY <2>2 DEF Sweep
    <3>2. /\ jobs[j].state = "running"
          /\ jobs[j].attempts \in 0..MaxAttempts
      BY <2>1, <2>2 DEF Expired, Job
    <3>3. /\ jobs'[j].state = IF jobs[j].attempts >= MaxAttempts THEN "failed" ELSE "pending"
          /\ jobs'[j].key = jobs[j].key
          /\ jobs'[j].version = jobs[j].version
          /\ jobs'[j].attempts = jobs[j].attempts
      BY <2>1, <3>1 DEF Job
    <3>4. jobs'[j] \in Job
      BY <2>1, <3>1 DEF Job, Class
    <3> QED BY <3>2, <3>3, <3>4
  <2>3. CASE ~Expired(j)
    BY <2>1, <2>3 DEF Sweep
  <2> QED BY <2>2, <2>3
<1>2. jobs' \in [JobIds -> Job]
  <2>1. jobs' = [j \in JobIds |-> jobs'[j]]
    BY DEF Sweep
  <2> QED BY <1>1, <2>1
<1>3. exec' = [exec EXCEPT ![g].pc = "select"] /\ UNCHANGED <<rows, enq>>
  BY DEF Sweep, Goto
<1>4. TypeOK'
  <2>1. exec' \in [Gateways -> Exec]
    BY <1>3 DEF JobInv, TypeOK, Exec
  <2>2. \A j \in InState("running")' : jobs'[j].owner # NoGateway
    BY <1>1 DEF JobInv, TypeOK, InState
  <2> QED BY <1>2, <1>3, <2>1, <2>2 DEF JobInv, TypeOK
<1>5. JobsKept
  BY <1>1 DEF JobsKept
<1>6. \A h \in Gateways : ExecKept(h)
  <2>1. exec'[g].pc = "select"
    BY <1>3 DEF JobInv, TypeOK, Exec
  <2>2. ExecKept(g)
    BY <2>1 DEF ExecKept, ExecInv, Executing
  <2> QED BY <1>3, <2>2 DEF ExecKept, JobInv, TypeOK
<1> QED BY <1>3, <1>4, <1>5, <1>6, KeepInv

\* Choosing a candidate: its version is the one the row has now.
LEMMA SelectKeeps ==
    ASSUME JobInv, NEW g \in Gateways, Select(g)
    PROVE  JobInv'
<1>1. CASE exec' = [exec EXCEPT ![g] = Idle]
  BY <1>1, ConstantsTyped, ExecOnly DEF Select, ExecKept, JobInv, TypeOK
<1>2. CASE exec' # [exec EXCEPT ![g] = Idle]
  <2>1. PICK j \in InState("pending") :
           exec' = [exec EXCEPT ![g].pc = "claim", ![g].job = j,
                                ![g].version = jobs[j].version,
                                ![g].attempt = jobs[j].attempts]
    BY <1>2 DEF Select
  <2>2. /\ j \in JobIds /\ jobs[j].state = "pending"
        /\ jobs[j].version = jobs[j].attempts
        /\ jobs[j] \in Job
    BY DEF InState, JobInv, QueueInv, TypeOK
  <2> DEFINE e == [exec[g] EXCEPT !.pc = "claim", !.job = j,
                       !.version = jobs[j].version, !.attempt = jobs[j].attempts]
  <2>3. e \in Exec
    <3>1. jobs[j].version \in 0..MaxAttempts /\ jobs[j].attempts \in 0..MaxAttempts
      BY <2>2 DEF Job
    <3>2. exec[g] \in Exec
      BY DEF JobInv, TypeOK
    <3> QED BY <2>2, <3>1, <3>2 DEF Exec
  <2>4. exec' = [exec EXCEPT ![g] = e]
    BY <2>1 DEF JobInv, TypeOK
  <2>5. UNCHANGED <<jobs, rows, enq>>
    BY DEF Select
  <2>6. /\ exec'[g].pc = "claim" /\ exec'[g].job = j
        /\ exec'[g].version = jobs[j].version /\ exec'[g].attempt = jobs[j].attempts
    BY <2>4 DEF JobInv, TypeOK, Exec
  <2>7. ExecKept(g)
    BY <2>2, <2>5, <2>6 DEF ExecKept, ExecInv, Executing, Job
  <2> QED BY <2>3, <2>4, <2>5, <2>7, ExecOnly
<1> QED BY <1>1, <1>2

\* A loop that starts over leaves nothing behind.
LEMMA IdleKeeps ==
    ASSUME JobInv, NEW g \in Gateways, ClaimLost(g) \/ Crash(g)
    PROVE  JobInv'
<1>1. exec' = [exec EXCEPT ![g] = Idle] /\ UNCHANGED <<jobs, rows, enq>>
  BY DEF ClaimLost, Crash
<1> QED BY <1>1, ConstantsTyped, ExecOnly DEF ExecKept, JobInv, TypeOK

\* Verification and failures of a stage move only the gateway.
LEMMA StageKeeps ==
    ASSUME JobInv, NEW g \in Gateways,
           \/ Verify(g)
           \/ \E class \in {"retryable", "terminal"} : StageFails(g, class)
    PROVE  JobInv'
<1> DEFINE Moved(p, cl) == [exec[g] EXCEPT !.pc = p, !.class = cl]
<1>1. PICK p \in {"finalize", "fail"}, cl \in Class :
        /\ exec' = [exec EXCEPT ![g] = Moved(p, cl)]
        /\ p = "finalize" => exec[g].pc = "verifying"
  <2>0. exec \in [Gateways -> Exec] /\ exec[g] \in Exec
    BY DEF JobInv, TypeOK
  <2>1. CASE Verify(g)
    <3>1. exec' = [exec EXCEPT ![g].pc = "finalize"]
      BY <2>1 DEF Verify, Goto
    <3>2. exec[g].class \in Class /\ [exec[g] EXCEPT !.pc = "finalize"]
                                     = Moved("finalize", exec[g].class)
      BY <2>0 DEF Exec
    <3>3. exec' = [exec EXCEPT ![g] = Moved("finalize", exec[g].class)]
      BY <3>1, <3>2
    <3> QED BY <2>1, <3>2, <3>3 DEF Verify
  <2>2. ASSUME NEW class \in {"retryable", "terminal"}, StageFails(g, class)
        PROVE  exec' = [exec EXCEPT ![g] = Moved("fail", class)]
    BY <2>2 DEF StageFails
  <2>3. {"retryable", "terminal"} \subseteq Class
    BY DEF Class
  <2> QED BY <2>1, <2>2, <2>3
<1>2. UNCHANGED <<jobs, rows, enq>> /\ Executing(g)
  BY DEF Verify, StageFails, Executing
<1>3. Moved(p, cl) \in Exec
  BY DEF JobInv, TypeOK, Exec
<1>4. /\ exec'[g].pc = p /\ exec'[g].job = exec[g].job
      /\ exec'[g].version = exec[g].version /\ exec'[g].attempt = exec[g].attempt
  BY <1>1 DEF JobInv, TypeOK, Exec
<1>5. ExecKept(g)
  <2>1. ExecInv(g)
    BY DEF JobInv
  <2> QED BY <1>1, <1>2, <1>4, <2>1 DEF ExecKept, ExecInv, Executing, SlotOf
<1> QED BY <1>1, <1>2, <1>3, <1>5, ExecOnly

\* Time and heartbeats change leases only.
LEMMA LeaseKeeps ==
    ASSUME JobInv,
           \/ \E j \in JobIds : Expire(j)
           \/ \E g \in Gateways : Heartbeat(g)
    PROVE  JobInv'
<1>1. PICK j \in JobIds, b \in BOOLEAN :
        /\ jobs' = [jobs EXCEPT ![j].lapsed = b]
        /\ UNCHANGED <<rows, exec, enq>>
  <2>1. CASE \E j \in JobIds : Expire(j)
    BY <2>1 DEF Expire
  <2>2. CASE \E g \in Gateways : Heartbeat(g)
    <3>1. PICK g \in Gateways : Heartbeat(g)
      BY <2>2
    <3>2. exec[g].job \in JobIds
      BY <3>1, SlotTyped DEF Heartbeat
    <3> QED BY <3>1, <3>2 DEF Heartbeat
  <2> QED BY <2>1, <2>2
<1>2. TypeOK'
  BY <1>1 DEF JobInv, TypeOK, Job, InState
<1>3. JobsKept
  BY <1>1 DEF JobInv, TypeOK, QueueInv, JobsKept, Job
<1>4. \A h \in Gateways : ExecKept(h)
  BY <1>1 DEF ExecKept
<1> QED BY <1>1, <1>2, <1>3, <1>4, KeepInv

\* The outcome of an attempt is recorded by the holder of the claim only, and a
\* failed attempt goes back to pending only when another one is left.
LEMMA OutcomeKeeps ==
    ASSUME JobInv, NEW g \in Gateways, Complete(g) \/ Fail(g)
    PROVE  JobInv'
<1> DEFINE j == exec[g].job
<1>1. /\ exec' = [exec EXCEPT ![g] = Idle]
      /\ UNCHANGED <<rows, enq>>
      /\ Executing(g)
  BY DEF Complete, Fail, Executing
<1>2. /\ j \in JobIds /\ jobs[j] \in Job
      /\ exec[g].attempt = exec[g].version
      /\ jobs[j].version = jobs[j].attempts
      /\ jobs[j].attempts \in 0..MaxAttempts
      /\ exec[g].class \in Class /\ exec[g].attempt \in Int
  BY <1>1, SlotTyped DEF JobInv, TypeOK, QueueInv, Job, Exec
<1>3. CASE UNCHANGED jobs
  BY <1>1, <1>3, ConstantsTyped, ExecOnly DEF ExecKept, JobInv, TypeOK
<1>4. CASE ~UNCHANGED jobs
  <2>1. HoldsClaim(g)
    BY <1>4 DEF Complete, Fail
  <2>2. PICK st \in {"pending", "completed", "failed"}, ow \in Gateways \cup {NoGateway},
             cl \in Class :
          /\ jobs' = [jobs EXCEPT ![j].state = st, ![j].owner = ow,
                                  ![j].class = cl, ![j].lapsed = FALSE]
          /\ st = "pending" => exec[g].attempt < MaxAttempts
    <3>1. CASE Complete(g)
      <4>1. jobs[j].owner \in Gateways \cup {NoGateway} /\ jobs[j].class \in Class
        BY <1>2 DEF Job
      <4>2. jobs' = [jobs EXCEPT ![j].state = "completed", ![j].lapsed = FALSE]
        BY <2>1, <3>1 DEF Complete
      <4>3. jobs' = [jobs EXCEPT ![j].state = "completed", ![j].owner = jobs[j].owner,
                                 ![j].class = jobs[j].class, ![j].lapsed = FALSE]
        BY <1>2, <4>2 DEF JobInv, TypeOK, Job
      <4> QED BY <4>1, <4>3
    <3>2. CASE Fail(g)
      <4> DEFINE over == exec[g].class = "terminal" \/ exec[g].attempt >= MaxAttempts
      <4>1. jobs' = [jobs EXCEPT
                       ![j].state = IF over THEN "failed" ELSE "pending",
                       ![j].owner = IF over THEN @ ELSE NoGateway,
                       ![j].class = exec[g].class, ![j].lapsed = FALSE]
        BY <2>1, <3>2 DEF Fail
      <4>2. CASE over
        <5>1. jobs' = [jobs EXCEPT ![j].state = "failed", ![j].owner = jobs[j].owner,
                                   ![j].class = exec[g].class, ![j].lapsed = FALSE]
          BY <1>2, <4>1, <4>2 DEF JobInv, TypeOK, Job
        <5>2. jobs[j].owner \in Gateways \cup {NoGateway}
          BY <1>2 DEF Job
        <5> QED BY <1>2, <5>1, <5>2
      <4>3. CASE ~over
        <5>1. jobs' = [jobs EXCEPT ![j].state = "pending", ![j].owner = NoGateway,
                                   ![j].class = exec[g].class, ![j].lapsed = FALSE]
          BY <1>2, <4>1, <4>3 DEF JobInv, TypeOK, Job
        <5>2. exec[g].attempt < MaxAttempts
          BY <1>2, <4>3
        <5> QED BY <1>2, <5>1, <5>2
      <4> QED BY <4>2, <4>3
    <3> QED BY <3>1, <3>2
  <2>3. /\ jobs[j].state = "running" /\ jobs[j].attempts = exec[g].attempt
    BY <1>2, <2>1 DEF HoldsClaim
  <2>4. /\ jobs' \in [JobIds -> Job]
        /\ jobs'[j].state = st /\ jobs'[j].key = jobs[j].key
        /\ jobs'[j].version = jobs[j].version /\ jobs'[j].attempts = jobs[j].attempts
        /\ \A i \in JobIds : i # j => jobs'[i] = jobs[i]
    BY <1>2, <2>2 DEF JobInv, TypeOK, Job
  <2>5. TypeOK'
    BY <1>1, <1>2, <2>4, ConstantsTyped DEF JobInv, TypeOK, InState
  <2>6. JobsKept
    BY <1>2, <2>2, <2>3, <2>4 DEF JobInv, QueueInv, JobsKept
  <2>7. \A h \in Gateways : ExecKept(h)
    BY <1>1 DEF ExecKept, JobInv, TypeOK
  <2> QED BY <1>1, <2>5, <2>6, <2>7, KeepInv
<1> QED BY <1>3, <1>4

-----------------------------------------------------------------------------
(* Steps that add a job, begin an attempt or touch a snapshot row *)

\* A new job is at its beginning: nobody works on it, and it has no rows.
LEMMA InsertKeeps ==
    ASSUME JobInv, NEW c \in Callers, NEW j \in JobIds, EnqueueInsert(c, j)
    PROVE  JobInv'
<1> DEFINE new == [NoJob EXCEPT !.state = "pending", !.key = enq[c]]
<1>1. /\ enq[c] \in Keys
      /\ jobs[j].state = "absent" /\ jobs[j] \in Job
      /\ jobs[j].attempts = 0 /\ jobs[j].version = 0
      /\ jobs' = [jobs EXCEPT ![j] = new]
      /\ enq' = [enq EXCEPT ![c] = NoKey]
      /\ UNCHANGED <<rows, exec>>
  BY DEF EnqueueInsert, JobInv, TypeOK, QueueInv
<1>2. /\ new \in Job
      /\ new.state = "pending" /\ new.key \in Keys
      /\ new.attempts = 0 /\ new.version = 0
  BY <1>1 DEF NoJob, Job, Class
<1>3. /\ jobs'[j] = new
      /\ \A i \in JobIds : i # j => jobs'[i] = jobs[i]
  BY <1>1 DEF JobInv, TypeOK
<1>4. TypeOK'
  BY <1>1, <1>2, <1>3 DEF JobInv, TypeOK, InState
<1>5. QueueInv'
  <2>1. ASSUME NEW i \in JobIds
        PROVE  /\ jobs'[i].version = jobs'[i].attempts
               /\ jobs'[i].state = "absent" => jobs'[i].attempts = 0
               /\ jobs'[i].state # "absent" => jobs'[i].key \in Keys
               /\ jobs'[i].state = "pending" => jobs'[i].attempts < MaxAttempts
    <3>1. CASE i = j
      <4>1. 0 < MaxAttempts
        OBVIOUS
      <4> QED BY <1>2, <1>3, <3>1, <4>1
    <3>2. CASE i # j
      BY <1>3, <3>2 DEF JobInv, QueueInv
    <3> QED BY <3>1, <3>2
  <2> QED BY <2>1 DEF QueueInv
<1>6. RowInv'
  <2>1. ASSUME NEW s \in Slots, rows[s].status # "absent" PROVE rows[s].job # j
    <3>1. s[2] \in 1..MaxAttempts
      BY DEF Slots
    <3> QED BY <1>1, <2>1, <3>1 DEF JobInv, RowInv
  <2> QED BY <1>1, <1>3, <2>1 DEF JobInv, RowInv
<1>7. ASSUME NEW h \in Gateways PROVE ExecInv(h)'
  <2>1. ExecInv(h) /\ exec'[h] = exec[h]
    BY <1>1 DEF JobInv
  <2>2. CASE exec[h].pc \in {"idle", "select"}
    BY <2>1, <2>2 DEF ExecInv, Executing
  <2>3. CASE exec[h].pc \notin {"idle", "select"}
    <3>1. exec[h].job \in JobIds /\ exec[h].job # j
      BY <1>1, <2>1, <2>3 DEF ExecInv
    <3>2. jobs'[exec[h].job] = jobs[exec[h].job] /\ SlotOf(h)' = SlotOf(h)
      BY <1>3, <2>1, <3>1 DEF SlotOf
    <3> QED BY <1>1, <2>1, <3>1, <3>2 DEF ExecInv, Executing
  <2> QED BY <2>2, <2>3
<1>8. OneExecutor'
  BY <1>1 DEF JobInv, OneExecutor, Executing
<1> QED BY <1>4, <1>5, <1>6, <1>7, <1>8 DEF JobInv

\* A claim hands out a version that no gateway has: every older claim of the
\* job is below it, whoever still works under it.
LEMMA ClaimKeeps ==
    ASSUME JobInv, NEW g \in Gateways, Claim(g)
    PROVE  JobInv'
<1> DEFINE j == exec[g].job
           v == exec[g].version
<1>1. /\ j \in JobIds /\ jobs[j] \in Job /\ jobs[j].state = "pending"
      /\ jobs[j].version = v /\ jobs[j].attempts = v /\ exec[g].attempt = v
      /\ v \in 0..MaxAttempts /\ v < MaxAttempts
      /\ jobs[j].key \in Keys
      /\ exec[g] \in Exec /\ exec[g].pc = "claim"
  <2>1. exec[g].pc = "claim" /\ jobs[j].state = "pending" /\ jobs[j].version = v
    BY DEF Claim
  <2>2. j \in JobIds /\ exec[g].attempt = v
    BY <2>1 DEF JobInv, ExecInv
  <2>3. exec[g] \in Exec /\ v \in 0..MaxAttempts
    BY DEF JobInv, TypeOK, Exec
  <2> QED BY <2>1, <2>2, <2>3 DEF JobInv, QueueInv, TypeOK
<1>2. /\ jobs' = [jobs EXCEPT ![j].state = "running", ![j].owner = g,
                              ![j].version = @ + 1, ![j].attempts = @ + 1,
                              ![j].lapsed = FALSE, ![j].class = "none"]
      /\ exec' = [exec EXCEPT ![g].pc = "build", ![g].version = @ + 1,
                              ![g].attempt = @ + 1]
      /\ UNCHANGED <<rows, enq>>
  BY DEF Claim
<1>3. /\ jobs'[j].state = "running" /\ jobs'[j].owner = g
      /\ jobs'[j].version = v + 1 /\ jobs'[j].attempts = v + 1
      /\ jobs'[j].key = jobs[j].key
      /\ \A i \in JobIds : i # j => jobs'[i] = jobs[i]
      /\ jobs' \in [JobIds -> Job]
  <2>1. v + 1 \in 0..MaxAttempts
    BY <1>1
  <2> QED BY <1>1, <1>2, <2>1 DEF JobInv, TypeOK, Job, Class
<1>4. /\ exec'[g].pc = "build" /\ exec'[g].job = j
      /\ exec'[g].version = v + 1 /\ exec'[g].attempt = v + 1
      /\ \A h \in Gateways : h # g => exec'[h] = exec[h]
      /\ exec' \in [Gateways -> Exec]
  <2>1. v + 1 \in 0..MaxAttempts
    BY <1>1
  <2> QED BY <1>1, <1>2, <2>1 DEF JobInv, TypeOK, Exec
<1>5. TypeOK'
  <2>1. \A i \in InState("running")' : jobs'[i].owner # NoGateway
    BY <1>3 DEF JobInv, TypeOK, InState
  <2> QED BY <1>2, <1>3, <1>4, <2>1 DEF JobInv, TypeOK
<1>6. QueueInv'
  BY <1>1, <1>3 DEF JobInv, QueueInv
<1>7. RowInv'
  <2>1. ASSUME NEW s \in Slots, rows[s].status # "absent"
        PROVE  /\ rows[s].job \in JobIds
               /\ jobs'[rows[s].job].key = s[1]
               /\ s[2] <= jobs'[rows[s].job].attempts
    <3>1. /\ rows[s].job \in JobIds /\ jobs[rows[s].job].key = s[1]
          /\ s[2] <= jobs[rows[s].job].attempts /\ s[2] \in Int
      BY <2>1 DEF JobInv, RowInv, Slots
    <3>2. v \in Int
      BY <1>1
    <3> QED BY <1>1, <1>3, <3>1, <3>2
  <2> QED BY <1>2, <2>1 DEF RowInv
<1>8. ASSUME NEW h \in Gateways PROVE ExecInv(h)'
  <2>1. CASE h = g
    BY <1>1, <1>3, <1>4, <2>1 DEF ExecInv, Executing
  <2>2. CASE h # g
    <3>1. ExecInv(h) /\ exec'[h] = exec[h]
      BY <1>4, <2>2 DEF JobInv
    <3>2. CASE exec[h].pc \in {"idle", "select"}
      BY <3>1, <3>2 DEF ExecInv, Executing
    <3>3. CASE exec[h].pc \notin {"idle", "select"}
      <4>1. /\ exec[h].job \in JobIds /\ exec[h].version \in Int
            /\ exec[h].version <= jobs[exec[h].job].version
            /\ jobs[exec[h].job].state # "absent" /\ exec[h].attempt = exec[h].version
        BY <3>1, <3>3 DEF ExecInv, JobInv, TypeOK, Exec
      <4>2. /\ exec[h].version <= jobs'[exec[h].job].version
            /\ jobs'[exec[h].job].state # "absent"
            /\ SlotOf(h)' = SlotOf(h)
        BY <1>1, <1>3, <3>1, <4>1 DEF SlotOf
      <4> QED BY <1>2, <3>1, <4>1, <4>2 DEF ExecInv, Executing
    <3> QED BY <3>2, <3>3
  <2> QED BY <2>1, <2>2
<1>9. OneExecutor'
  <2>1. ASSUME NEW h \in Gateways, h # g, Executing(h), exec[h].job = j
        PROVE  exec[h].version # v + 1
    <3>1. exec[h].version <= jobs[j].version
      BY <2>1 DEF JobInv, ExecInv, Executing
    <3>2. exec[h].version \in Int
      BY DEF JobInv, TypeOK, Exec
    <3> QED BY <1>1, <3>1, <3>2
  <2>2. ASSUME NEW h \in Gateways, h # g PROVE Executing(h)' <=> Executing(h)
    BY <1>4, <2>2 DEF Executing
  <2> QED BY <1>4, <2>1, <2>2 DEF JobInv, OneExecutor
<1> QED BY <1>5, <1>6, <1>7, <1>8, <1>9 DEF JobInv

\* The row of an attempt advances with its gateway, and no other gateway has
\* anything to say about that slot.
LEMMA RowKeeps ==
    ASSUME JobInv, NEW g \in Gateways, Executing(g), NEW st, NEW p,
           \/ st = "building" /\ p = "created"
           \/ st = "verifying" /\ p = "verifying"
           \/ st = "finalized" /\ p = "complete",
           \/ rows[SlotOf(g)].status = "absent"
           \/ rows[SlotOf(g)].job = exec[g].job,
           rows' = [rows EXCEPT ![SlotOf(g)] = [status |-> st, job |-> exec[g].job]],
           exec' = [exec EXCEPT ![g].pc = p],
           UNCHANGED <<jobs, enq>>
    PROVE  JobInv'
<1> DEFINE row == [status |-> st, job |-> exec[g].job]
<1>1. /\ SlotOf(g) \in Slots
      /\ exec[g].job \in JobIds
      /\ jobs[exec[g].job].state # "absent"
      /\ SlotOf(g)[1] = jobs[exec[g].job].key
      /\ SlotOf(g)[2] = exec[g].attempt
      /\ exec[g].attempt = exec[g].version
      /\ exec[g].attempt <= jobs[exec[g].job].attempts
  BY SlotTyped DEF SlotOf
<1>2. /\ st \in {"building", "verifying", "finalized"}
      /\ p \in {"created", "verifying", "complete"}
      /\ p = "created" => st = "building"
      /\ p = "verifying" => st = "verifying"
      /\ p = "complete" => st = "finalized"
  OBVIOUS
<1>3. /\ row \in Row
      /\ rows'[SlotOf(g)] = row
      /\ \A s \in Slots : s # SlotOf(g) => rows'[s] = rows[s]
      /\ rows' \in [Slots -> Row]
  BY <1>1, <1>2 DEF JobInv, TypeOK, Row
<1>4. /\ exec' \in [Gateways -> Exec]
      /\ \A h \in Gateways : h # g => exec'[h] = exec[h]
      /\ exec'[g].pc = p /\ exec'[g].job = exec[g].job
      /\ exec'[g].version = exec[g].version /\ exec'[g].attempt = exec[g].attempt
  BY <1>2 DEF JobInv, TypeOK, Exec
<1>5. TypeOK' /\ QueueInv'
  BY <1>3, <1>4 DEF JobInv, TypeOK, InState, QueueInv
<1>6. RowInv'
  BY <1>1, <1>3 DEF JobInv, RowInv
<1>7. ASSUME NEW h \in Gateways PROVE ExecInv(h)'
  <2>1. ExecInv(h) /\ SlotOf(h)' = SlotOf(h)
    BY <1>4 DEF JobInv, SlotOf
  <2>2. CASE h = g
    <3>1. Executing(g)'
      BY <1>2, <1>4 DEF Executing
    <3>2. exec[g].version > 0 /\ exec[g].version <= jobs[exec[g].job].version
      BY DEF JobInv, ExecInv, Executing
    <3>3. rows'[SlotOf(g)'] = row
      BY <1>3, <2>1, <2>2
    <3> QED BY <1>1, <1>2, <1>4, <2>2, <3>1, <3>2, <3>3 DEF ExecInv
  <2>3. CASE h # g
    <3>1. exec'[h] = exec[h]
      BY <1>4, <2>3
    <3>2. CASE exec[h].pc \notin {"created", "verifying", "finalize", "complete"}
      BY <2>1, <3>1, <3>2 DEF ExecInv, Executing
    <3>3. CASE exec[h].pc \in {"created", "verifying", "finalize", "complete"}
      <4>1. Executing(h)
        BY <3>3 DEF Executing
      <4>2. rows[SlotOf(h)].status # "absent" /\ rows[SlotOf(h)].job = exec[h].job
        BY <2>1, <3>3 DEF ExecInv
      <4>3. SlotOf(h) # SlotOf(g)
        BY <2>3, <4>1, <4>2, SlotsApart
      <4>4. rows'[SlotOf(h)'] = rows[SlotOf(h)]
        BY <1>3, <2>1, <4>1, <4>3, SlotTyped
      <4> QED BY <2>1, <3>1, <4>4 DEF ExecInv, Executing
    <3> QED BY <3>2, <3>3
  <2> QED BY <2>2, <2>3
<1>8. OneExecutor'
  <2>1. ASSUME NEW h \in Gateways, Executing(h)'
        PROVE  /\ Executing(h)
               /\ exec'[h].job = exec[h].job /\ exec'[h].version = exec[h].version
    BY <1>4, <2>1 DEF Executing
  <2> QED BY <2>1 DEF JobInv, OneExecutor
<1> QED BY <1>5, <1>6, <1>7, <1>8 DEF JobInv

\* A stage that is refused sends its gateway to the failure report.
LEMMA RefusedKeeps ==
    ASSUME JobInv, NEW g \in Gateways, Executing(g), NEW cl \in Class,
           exec' = [exec EXCEPT ![g].pc = "fail", ![g].class = cl],
           UNCHANGED <<jobs, rows, enq>>
    PROVE  JobInv'
<1> DEFINE e == [exec[g] EXCEPT !.pc = "fail", !.class = cl]
<1>1. e \in Exec /\ exec' = [exec EXCEPT ![g] = e]
  BY DEF JobInv, TypeOK, Exec
<1>2. /\ exec'[g].pc = "fail" /\ exec'[g].job = exec[g].job
      /\ exec'[g].version = exec[g].version /\ exec'[g].attempt = exec[g].attempt
  BY <1>1 DEF JobInv, TypeOK, Exec
<1>3. ExecInv(g)
  BY DEF JobInv
<1>4. ExecKept(g)
  BY <1>2, <1>3 DEF ExecKept, ExecInv, Executing
<1> QED BY <1>1, <1>4, ExecOnly

\* The three statements of an attempt that write its snapshot row.
LEMMA AttemptKeeps ==
    ASSUME JobInv, NEW g \in Gateways,
           CreateAttempt(g) \/ ToVerifying(g) \/ Finalize(g)
    PROVE  JobInv'
<1>0. Executing(g) /\ ExecInv(g) /\ UNCHANGED <<jobs, enq>>
  BY DEF CreateAttempt, ToVerifying, Finalize, Executing, JobInv
<1>1. CASE CreateAttempt(g)
  <2>1. CASE rows[SlotOf(g)].status = "absent"
    <3>1. /\ rows' = [rows EXCEPT ![SlotOf(g)] =
                        [status |-> "building", job |-> exec[g].job]]
          /\ exec' = [exec EXCEPT ![g].pc = "created"]
      BY <1>1, <2>1 DEF CreateAttempt, Goto
    <3> QED BY <1>0, <2>1, <3>1, RowKeeps
  <2>2. CASE rows[SlotOf(g)].status # "absent"
    <3>1. /\ exec' = [exec EXCEPT ![g].pc = "fail", ![g].class = "retryable"]
          /\ UNCHANGED rows
      BY <1>1, <2>2 DEF CreateAttempt
    <3>2. "retryable" \in Class
      BY DEF Class
    <3> QED BY <1>0, <3>1, <3>2, RefusedKeeps
  <2> QED BY <2>1, <2>2
<1>2. CASE ToVerifying(g)
  <2>1. rows[SlotOf(g)] = [status |-> "building", job |-> exec[g].job]
    BY <1>0, <1>2 DEF ToVerifying, ExecInv
  <2>2. rows' = [rows EXCEPT ![SlotOf(g)] =
                   [status |-> "verifying", job |-> exec[g].job]]
    <3>1. [rows[SlotOf(g)] EXCEPT !.status = "verifying"]
            = [status |-> "verifying", job |-> exec[g].job]
      BY <2>1
    <3>2. rows' = [rows EXCEPT ![SlotOf(g)].status = "verifying"]
      BY <1>2 DEF ToVerifying
    <3> QED BY <3>1, <3>2
  <2>3. exec' = [exec EXCEPT ![g].pc = "verifying"]
    BY <1>2 DEF ToVerifying, Goto
  <2>4. rows[SlotOf(g)].job = exec[g].job
    BY <2>1
  <2> QED BY <1>0, <2>2, <2>3, <2>4, RowKeeps
<1>3. CASE Finalize(g)
  <2>1. rows[SlotOf(g)] = [status |-> "verifying", job |-> exec[g].job]
    BY <1>0, <1>3 DEF Finalize, ExecInv
  <2>2. CASE jobs[rows[SlotOf(g)].job].version = exec[g].version
    <3>1. rows' = [rows EXCEPT ![SlotOf(g)] =
                     [status |-> "finalized", job |-> exec[g].job]]
      <4>1. [rows[SlotOf(g)] EXCEPT !.status = "finalized"]
              = [status |-> "finalized", job |-> exec[g].job]
        BY <2>1
      <4>2. rows' = [rows EXCEPT ![SlotOf(g)].status = "finalized"]
        BY <1>3, <2>2 DEF Finalize
      <4> QED BY <4>1, <4>2
    <3>2. exec' = [exec EXCEPT ![g].pc = "complete"]
      BY <1>3, <2>2 DEF Finalize, Goto
    <3>3. rows[SlotOf(g)].job = exec[g].job
      BY <2>1
    <3> QED BY <1>0, <3>1, <3>2, <3>3, RowKeeps
  <2>3. CASE jobs[rows[SlotOf(g)].job].version # exec[g].version
    <3>1. /\ exec' = [exec EXCEPT ![g].pc = "fail", ![g].class = "terminal"]
          /\ UNCHANGED rows
      BY <1>3, <2>3 DEF Finalize
    <3>2. "terminal" \in Class
      BY DEF Class
    <3> QED BY <1>0, <3>1, <3>2, RefusedKeeps
  <2> QED BY <2>2, <2>3
<1> QED BY <1>1, <1>2, <1>3

-----------------------------------------------------------------------------
(* The invariant *)

\* The initial state satisfies it.
LEMMA InitInv == Init => JobInv
<1> SUFFICES ASSUME Init PROVE JobInv
  OBVIOUS
<1>1. TypeOK
  BY ConstantsTyped DEF Init, TypeOK, InState, NoJob
<1>2. QueueInv /\ RowInv
  BY DEF Init, QueueInv, RowInv, NoJob, NoRow
<1>3. (\A g \in Gateways : ExecInv(g)) /\ OneExecutor
  BY DEF Init, ExecInv, OneExecutor, Executing, Idle
<1> QED BY <1>1, <1>2, <1>3 DEF JobInv

\* Every step preserves it.
LEMMA NextInv == JobInv /\ [Next]_vars => JobInv'
<1> SUFFICES ASSUME JobInv, [Next]_vars PROVE JobInv'
  OBVIOUS
<1>1. CASE UNCHANGED vars
  BY <1>1 DEF vars, JobInv, TypeOK, QueueInv, RowInv, ExecInv, OneExecutor,
              Executing, SlotOf, InState
<1>2. ASSUME NEW c \in Callers,
             \/ \E k \in Keys : EnqueueLook(c, k)
             \/ \E j \in JobIds : EnqueueInsert(c, j)
             \/ EnqueueLost(c)
      PROVE  JobInv'
  BY <1>2, EnqueueKeeps, InsertKeeps
<1>3. ASSUME NEW g \in Gateways,
             \/ Work(g) \/ Heartbeat(g) \/ Crash(g)
             \/ \E class \in {"retryable", "terminal"} : StageFails(g, class)
      PROVE  JobInv'
  <2>1. CASE Sweep(g)
    BY <2>1, SweepKeeps
  <2>2. CASE Select(g)
    BY <2>2, SelectKeeps
  <2>3. CASE Claim(g)
    BY <2>3, ClaimKeeps
  <2>4. CASE ClaimLost(g) \/ Crash(g)
    BY <2>4, IdleKeeps
  <2>5. CASE CreateAttempt(g) \/ ToVerifying(g) \/ Finalize(g)
    BY <2>5, AttemptKeeps
  <2>6. CASE \/ Verify(g)
             \/ \E class \in {"retryable", "terminal"} : StageFails(g, class)
    BY <2>6, StageKeeps
  <2>7. CASE Complete(g) \/ Fail(g)
    BY <2>7, OutcomeKeeps
  <2>8. CASE Heartbeat(g)
    BY <2>8, LeaseKeeps
  <2> QED BY <1>3, <2>1, <2>2, <2>3, <2>4, <2>5, <2>6, <2>7, <2>8 DEF Work
<1>4. CASE \E j \in JobIds : Expire(j)
  BY <1>4, LeaseKeeps
<1> QED BY <1>1, <1>2, <1>3, <1>4 DEF Next

\* The queue, the snapshot rows and the gateways fit together in every state
\* that enqueues, claims, expiries, sweeps, crashes and late reports can reach.
THEOREM JobInvariant == Spec => []JobInv
<1> QED BY InitInv, NextInv, PTL DEF Spec

\* The table's constraints hold: a running job has an owner, and no job is tried
\* more often than max_attempts.
THEOREM TypeCorrect == Spec => []TypeOK
<1>1. JobInv => TypeOK
  BY DEF JobInv
<1> QED BY <1>1, JobInvariant, PTL

\* At most one gateway holds the current claim of a job (DEC-037).
THEOREM OneHolder == Spec => []OneClaimHolder
<1>1. JobInv => OneClaimHolder
  BY DEF JobInv, OneExecutor, OneClaimHolder, HoldsClaim
<1> QED BY <1>1, JobInvariant, PTL

-----------------------------------------------------------------------------
(* What is settled stays *)

\* The row of an attempt that is still to be finalized is not finalized.
LEMMA AttemptOpen ==
    ASSUME JobInv, NEW g \in Gateways,
           CreateAttempt(g) \/ ToVerifying(g) \/ Finalize(g)
    PROVE  /\ UNCHANGED jobs
           /\ \A s \in Slots : rows[s].status = "finalized" => rows'[s] = rows[s]
<1>1. /\ Executing(g) /\ ExecInv(g) /\ UNCHANGED jobs
      /\ \/ UNCHANGED rows
         \/ exec[g].pc = "build" /\ rows[SlotOf(g)].status = "absent"
         \/ exec[g].pc \in {"created", "finalize"}
  BY DEF CreateAttempt, ToVerifying, Finalize, Executing, JobInv
<1>2. UNCHANGED rows \/ rows[SlotOf(g)].status # "finalized"
  BY <1>1 DEF ExecInv
<1>3. \A s \in Slots : s # SlotOf(g) => rows'[s] = rows[s]
  BY <1>1 DEF CreateAttempt, ToVerifying, Finalize, JobInv, TypeOK
<1> QED BY <1>1, <1>2, <1>3

\* No step changes a settled job or a finalized snapshot.
LEMMA SettledStep ==
    ASSUME JobInv, [Next]_vars
    PROVE  /\ \A j \in JobIds :
                jobs[j].state \in {"completed", "failed"} => jobs'[j] = jobs[j]
           /\ \A s \in Slots :
                rows[s].status = "finalized" => rows'[s] = rows[s]
<1> DEFINE Kept ==
       \A j \in JobIds : jobs[j].state \in {"completed", "failed"} => jobs'[j] = jobs[j]
<1>0. jobs \in [JobIds -> Job]
  BY DEF JobInv, TypeOK
<1>1. CASE UNCHANGED vars
  BY <1>1 DEF vars
<1>2. ASSUME NEW c \in Callers,
             \/ \E k \in Keys : EnqueueLook(c, k)
             \/ \E j \in JobIds : EnqueueInsert(c, j)
             \/ EnqueueLost(c)
      PROVE  Kept /\ UNCHANGED rows
  BY <1>0, <1>2 DEF EnqueueLook, EnqueueInsert, EnqueueLost
<1>3. ASSUME NEW g \in Gateways, Work(g)
      PROVE  Kept /\ \A s \in Slots : rows[s].status = "finalized" => rows'[s] = rows[s]
  <2>1. CASE Sweep(g)
    BY <2>1 DEF Sweep, Expired
  <2>2. CASE Select(g) \/ ClaimLost(g) \/ Verify(g)
    BY <2>2 DEF Select, ClaimLost, Verify
  <2>3. CASE Claim(g)
    BY <1>0, <2>3 DEF Claim
  <2>4. CASE CreateAttempt(g) \/ ToVerifying(g) \/ Finalize(g)
    BY <2>4, AttemptOpen
  <2>5. CASE Complete(g)
    BY <1>0, <2>5 DEF Complete, HoldsClaim
  <2>6. CASE Fail(g)
    <3>1. CASE ~HoldsClaim(g)
      BY <2>6, <3>1 DEF Fail
    <3>2. CASE HoldsClaim(g)
      <4>1. \A i \in JobIds : i # exec[g].job => jobs'[i] = jobs[i]
        BY <1>0, <2>6, <3>2 DEF Fail
      <4>2. jobs[exec[g].job].state = "running" /\ UNCHANGED rows
        BY <2>6, <3>2 DEF Fail, HoldsClaim
      <4> QED BY <4>1, <4>2
    <3> QED BY <3>1, <3>2
  <2> QED BY <1>3, <2>1, <2>2, <2>3, <2>4, <2>5, <2>6 DEF Work
<1>4. ASSUME NEW g \in Gateways,
             \/ Heartbeat(g) \/ Crash(g)
             \/ \E class \in {"retryable", "terminal"} : StageFails(g, class)
      PROVE  Kept /\ UNCHANGED rows
  BY <1>0, <1>4 DEF Heartbeat, Crash, StageFails, HoldsClaim
<1>5. ASSUME NEW j \in JobIds, Expire(j) PROVE Kept /\ UNCHANGED rows
  BY <1>0, <1>5 DEF Expire
<1> QED BY <1>1, <1>2, <1>3, <1>4, <1>5 DEF Next

\* A late report, sweep or stale owner reopens no settled job and no finalized
\* snapshot.
THEOREM SettledStay == Spec => SettledStays
<1>1. JobInv /\ [Next]_vars
         => [/\ \A j \in JobIds :
                  jobs[j].state \in {"completed", "failed"} => jobs'[j] = jobs[j]
             /\ \A s \in Slots :
                  rows[s].status = "finalized" => rows'[s] = rows[s]]_vars
  BY SettledStep
<1> QED BY <1>1, JobInvariant, PTL DEF Spec, SettledStays

-----------------------------------------------------------------------------
(* The refinement of JobService *)

\* What a submitter sees depends on the states and attempts of the jobs and on
\* the finalized rows; where those stay, the step is a stutter.
LEMMA Unseen ==
    ASSUME \A j \in JobIds : /\ Status(j)' = Status(j)
                             /\ jobs'[j].attempts = jobs[j].attempts
                             /\ Results(j)' = Results(j)
    PROVE  UNCHANGED Service!vars
BY DEF Service!vars

\* The results of a job are read off the finalized rows alone.
LEMMA SameResults ==
    ASSUME \A s \in Slots :
               /\ rows'[s].status = "finalized" <=> rows[s].status = "finalized"
               /\ rows[s].status = "finalized" => rows'[s].job = rows[s].job
    PROVE  \A j \in JobIds : Results(j)' = Results(j)
<1>1. \A k \in Keys, a \in 1..MaxAttempts : <<k, a>> \in Slots
  BY DEF Slots
<1> QED BY <1>1 DEF Results

\* The rest of the actions, seen from outside.
LEMMA QuietSteps ==
    ASSUME JobInv, NEW g \in Gateways,
           \/ Select(g) \/ ClaimLost(g) \/ Verify(g) \/ Crash(g) \/ Heartbeat(g)
           \/ \E class \in {"retryable", "terminal"} : StageFails(g, class)
           \/ CreateAttempt(g) \/ ToVerifying(g)
    PROVE  UNCHANGED Service!vars
<1>1. \A j \in JobIds : Status(j)' = Status(j) /\ jobs'[j].attempts = jobs[j].attempts
  <2>1. CASE UNCHANGED jobs
    BY <2>1 DEF Status
  <2>2. CASE ~UNCHANGED jobs
    <3>1. jobs' = [jobs EXCEPT ![exec[g].job].lapsed = FALSE]
      BY <2>2 DEF Select, ClaimLost, Verify, Crash, Heartbeat, StageFails,
                  CreateAttempt, ToVerifying
    <3>2. \A j \in JobIds : jobs'[j].state = jobs[j].state
                            /\ jobs'[j].attempts = jobs[j].attempts
      BY <3>1 DEF JobInv, TypeOK, Job
    <3> QED BY <3>2 DEF Status
  <2> QED BY <2>1, <2>2
<1>2. \A j \in JobIds : Results(j)' = Results(j)
  <2>1. CASE UNCHANGED rows
    BY <2>1 DEF Results
  <2>2. CASE ~UNCHANGED rows
    <3>1. /\ Executing(g)
          /\ exec[g].pc = "created" \/ rows[SlotOf(g)].status = "absent"
          /\ \E st \in {"building", "verifying"} :
                \/ rows' = [rows EXCEPT ![SlotOf(g)].status = st]
                \/ rows' = [rows EXCEPT ![SlotOf(g)] =
                              [status |-> st, job |-> exec[g].job]]
      BY <2>2 DEF Select, ClaimLost, Verify, Crash, Heartbeat, StageFails,
                  CreateAttempt, ToVerifying, Executing
    <3>2. rows[SlotOf(g)].status # "finalized" /\ SlotOf(g) \in Slots
      <4>1. ExecInv(g) /\ SlotOf(g) \in Slots
        BY <3>1, SlotTyped DEF JobInv
      <4>2. exec[g].pc = "created" => rows[SlotOf(g)].status = "building"
        BY <4>1 DEF ExecInv
      <4> QED BY <3>1, <4>1, <4>2
    <3>3. /\ rows'[SlotOf(g)].status # "finalized"
          /\ \A s \in Slots : s # SlotOf(g) => rows'[s] = rows[s]
      BY <3>1, <3>2 DEF JobInv, TypeOK, Row
    <3> QED BY <3>2, <3>3, SameResults
  <2> QED BY <2>1, <2>2
<1> QED BY <1>1, <1>2, Unseen

\* A sweep gives up exactly the expired jobs that have no attempt left.
LEMMA SweepSeen ==
    ASSUME JobInv, NEW g \in Gateways, Sweep(g)
    PROVE  \E S \in SUBSET JobIds : Service!GiveUp(S)
<1> DEFINE S == {j \in JobIds : Expired(j) /\ jobs[j].attempts >= MaxAttempts}
<1>1. ASSUME NEW j \in JobIds
      PROVE  /\ jobs'[j].attempts = jobs[j].attempts
             /\ Status(j)' = IF j \in S THEN "failed" ELSE Status(j)
             /\ j \in S => Status(j) = "open"
  <2>1. jobs[j] \in Job
    BY DEF JobInv, TypeOK
  <2>2. CASE ~Expired(j)
    BY <2>2 DEF Sweep, Status
  <2>3. CASE Expired(j)
    <3>1. /\ jobs'[j].state = IF jobs[j].attempts >= MaxAttempts
                              THEN "failed" ELSE "pending"
          /\ jobs'[j].attempts = jobs[j].attempts
      BY <2>1, <2>3 DEF Sweep, Job
    <3>2. jobs[j].state = "running"
      BY <2>3 DEF Expired
    <3> QED BY <2>3, <3>1, <3>2 DEF Status
  <2> QED BY <2>2, <2>3
<1>2. \A j \in JobIds : Results(j)' = Results(j)
  BY DEF Sweep, Results
<1>3. Service!GiveUp(S)
  BY <1>1, <1>2 DEF Service!GiveUp
<1> QED BY <1>3

\* A row that is finalized under the claim fence is the result of the latest try.
LEMMA FinalizeSeen ==
    ASSUME JobInv, NEW g \in Gateways, Finalize(g)
    PROVE  (\E j \in JobIds : Service!Produce(j)) \/ UNCHANGED Service!vars
<1>1. /\ Executing(g) /\ UNCHANGED jobs
      /\ rows[SlotOf(g)] = [status |-> "verifying", job |-> exec[g].job]
  BY DEF Finalize, Executing, JobInv, ExecInv
<1>2. PICK j \in JobIds : j = exec[g].job
  BY <1>1, SlotTyped
<1>5. /\ SlotOf(g) \in Slots
      /\ jobs[j].key \in Keys
      /\ exec[g].attempt = exec[g].version
      /\ exec[g].attempt \in 1..MaxAttempts
      /\ jobs[j].version = jobs[j].attempts
  BY <1>1, <1>2, SlotTyped DEF JobInv, QueueInv
<1>3. CASE UNCHANGED rows
  BY <1>1, <1>3, Unseen DEF Status, Results
<1>4. CASE ~UNCHANGED rows
  <2>1. /\ jobs[j].version = exec[g].version
        /\ rows' = [rows EXCEPT ![SlotOf(g)].status = "finalized"]
    BY <1>1, <1>2, <1>4 DEF Finalize
  <2>2. /\ rows'[SlotOf(g)].status = "finalized" /\ rows'[SlotOf(g)].job = j
        /\ \A s \in Slots : s # SlotOf(g) => rows'[s] = rows[s]
    BY <1>1, <1>2, <1>5, <2>1 DEF JobInv, TypeOK
  <2>3. /\ SlotOf(g) = <<jobs[j].key, jobs[j].attempts>>
        /\ jobs[j].attempts \in 1..MaxAttempts
    BY <1>2, <1>5, <2>1 DEF SlotOf
  <2>4. ASSUME NEW i \in JobIds, NEW k \in Keys, NEW a \in 1..MaxAttempts,
               i # j \/ a # jobs[j].attempts
        PROVE  (rows'[<<k, a>>].status = "finalized" /\ rows'[<<k, a>>].job = i)
                 <=> (rows[<<k, a>>].status = "finalized" /\ rows[<<k, a>>].job = i)
    <3>1. <<k, a>> \in Slots
      BY DEF Slots
    <3>2. CASE <<k, a>> # SlotOf(g)
      BY <2>2, <3>1, <3>2
    <3>3. CASE <<k, a>> = SlotOf(g)
      <4>1. i # j
        BY <2>3, <2>4, <3>3
      <4>2. rows[<<k, a>>].status = "verifying"
        BY <1>1, <3>3
      <4> QED BY <2>2, <3>3, <4>1, <4>2
    <3> QED BY <3>2, <3>3
  <2>5. ASSUME NEW i \in JobIds, i # j PROVE Results(i)' = Results(i)
    BY <2>4, <2>5 DEF Results
  <2>6. Results(j)' = Results(j) \cup {jobs[j].attempts}
    <3>1. \A a \in 1..MaxAttempts : a # jobs[j].attempts =>
             (a \in Results(j)' <=> a \in Results(j))
      BY <2>4 DEF Results
    <3>2. jobs[j].attempts \in Results(j)'
      BY <1>5, <2>2, <2>3 DEF Results
    <3>3. Results(j) \subseteq 1..MaxAttempts /\ Results(j)' \subseteq 1..MaxAttempts
      BY DEF Results
    <3> QED BY <2>3, <3>1, <3>2, <3>3
  <2>7. \A i \in JobIds : Status(i)' = Status(i) /\ jobs'[i].attempts = jobs[i].attempts
    BY <1>1 DEF Status
  <2>8. jobs[j].attempts > 0
    BY <2>3
  <2>9. Service!Produce(j)
    BY <2>5, <2>6, <2>7, <2>8 DEF Service!Produce
  <2> QED BY <2>9
<1> QED BY <1>3, <1>4

\* An insert is a submission, a claim is a try, and an outcome settles the job,
\* puts it back, or is refused.
LEMMA InsertSeen ==
    ASSUME JobInv, NEW c \in Callers, NEW j \in JobIds, EnqueueInsert(c, j)
    PROVE  Service!Submit(j)
<1>1. /\ jobs[j].state = "absent" /\ jobs[j].attempts = 0
      /\ UNCHANGED rows
      /\ jobs' = [jobs EXCEPT ![j] = [NoJob EXCEPT !.state = "pending", !.key = enq[c]]]
  BY DEF EnqueueInsert, JobInv, QueueInv
<1>2. /\ jobs'[j].state = "pending" /\ jobs'[j].attempts = 0
      /\ \A i \in JobIds : i # j => jobs'[i] = jobs[i]
  BY <1>1 DEF JobInv, TypeOK, NoJob
<1>3. /\ Status(j) = "absent" /\ Status(j)' = "open"
      /\ \A i \in JobIds : i # j => Status(i)' = Status(i)
  BY <1>1, <1>2 DEF Status
<1>4. \A i \in JobIds : jobs'[i].attempts = jobs[i].attempts /\ Results(i)' = Results(i)
  BY <1>1, <1>2 DEF Results
<1> QED BY <1>3, <1>4 DEF Service!Submit

\* The counterpart for claims: only a pending job with a try left is claimed.
LEMMA ClaimSeen ==
    ASSUME JobInv, NEW g \in Gateways, Claim(g)
    PROVE  \E j \in JobIds : Service!Try(j)
<1>1. PICK j \in JobIds : j = exec[g].job
  BY DEF Claim, JobInv, ExecInv
<1>2. /\ jobs[j].state = "pending" /\ jobs[j] \in Job
      /\ jobs[j].attempts < MaxAttempts
      /\ UNCHANGED rows
      /\ jobs' = [jobs EXCEPT ![j].state = "running", ![j].owner = g,
                              ![j].version = @ + 1, ![j].attempts = @ + 1,
                              ![j].lapsed = FALSE, ![j].class = "none"]
  BY <1>1 DEF Claim, JobInv, TypeOK, QueueInv
<1>3. /\ jobs'[j].state = "running" /\ jobs'[j].attempts = jobs[j].attempts + 1
      /\ \A i \in JobIds : i # j => jobs'[i] = jobs[i]
  BY <1>2 DEF JobInv, TypeOK, Job
<1>4. Status(j) = "open" /\ \A i \in JobIds : Status(i)' = Status(i)
  BY <1>2, <1>3 DEF Status
<1>5. \A i \in JobIds : Results(i)' = Results(i)
  BY <1>2 DEF Results
<1>6. Service!Try(j)
  <2> DEFINE tries == [i \in JobIds |-> jobs[i].attempts]
  <2>1. tries' = [tries EXCEPT ![j] = @ + 1]
    BY <1>3
  <2>2. /\ [i \in JobIds |-> Status(i)][j] = "open"
        /\ tries[j] < MaxAttempts
    BY <1>2, <1>4
  <2>3. /\ [i \in JobIds |-> Status(i)]' = [i \in JobIds |-> Status(i)]
        /\ [i \in JobIds |-> Results(i)]' = [i \in JobIds |-> Results(i)]
    BY <1>4, <1>5
  <2> QED BY <2>1, <2>2, <2>3 DEF Service!Try
<1> QED BY <1>6

\* The counterpart for outcomes: a job is done only with the result of its
\* latest try.
LEMMA OutcomeSeen ==
    ASSUME JobInv, NEW g \in Gateways, Complete(g) \/ Fail(g)
    PROVE  \/ \E j \in JobIds : Service!Done(j)
           \/ \E S \in SUBSET JobIds : Service!GiveUp(S)
           \/ UNCHANGED Service!vars
<1>1. Executing(g) /\ UNCHANGED rows
  BY DEF Complete, Fail, Executing
<1>2. PICK j \in JobIds : j = exec[g].job
  BY <1>1, SlotTyped
<1>3. \A i \in JobIds : Results(i)' = Results(i)
  BY <1>1 DEF Results
<1>4. CASE ~HoldsClaim(g)
  <2>1. UNCHANGED jobs
    BY <1>4 DEF Complete, Fail
  <2> QED BY <1>3, <2>1, Unseen DEF Status
<1>5. CASE HoldsClaim(g) /\ Complete(g)
  <2>1. /\ jobs' = [jobs EXCEPT ![j].state = "completed", ![j].lapsed = FALSE]
        /\ jobs[j].state = "running"
        /\ jobs[j].attempts = exec[g].attempt
    BY <1>1, <1>2, <1>5, SlotTyped DEF Complete, HoldsClaim, JobInv, QueueInv
  <2>2. /\ jobs'[j].state = "completed" /\ jobs'[j].attempts = jobs[j].attempts
        /\ \A i \in JobIds : i # j => jobs'[i] = jobs[i]
    BY <2>1 DEF JobInv, TypeOK, Job
  <2>3. /\ Status(j) = "open" /\ Status(j)' = "done"
        /\ \A i \in JobIds : i # j => Status(i)' = Status(i)
    BY <2>1, <2>2 DEF Status
  <2>4. /\ rows[SlotOf(g)].status = "finalized" /\ rows[SlotOf(g)].job = j
        /\ SlotOf(g) = <<jobs[j].key, jobs[j].attempts>>
        /\ jobs[j].key \in Keys /\ jobs[j].attempts \in 1..MaxAttempts
    <3>1. rows[SlotOf(g)] = [status |-> "finalized", job |-> exec[g].job]
      BY <1>5 DEF Complete, JobInv, ExecInv
    <3> QED BY <1>1, <1>2, <2>1, <3>1, SlotTyped DEF SlotOf
  <2>5. jobs[j].attempts \in Results(j)
    BY <2>4 DEF Results
  <2>6. Service!Done(j)
    BY <1>3, <2>2, <2>3, <2>5 DEF Service!Done
  <2> QED BY <2>6
<1>6. CASE HoldsClaim(g) /\ Fail(g)
  <2>1. PICK st \in {"failed", "pending"}, ow \in Gateways \cup {NoGateway}, cl \in Class :
          jobs' = [jobs EXCEPT ![j].state = st, ![j].owner = ow,
                               ![j].class = cl, ![j].lapsed = FALSE]
    <3> DEFINE over == exec[g].class = "terminal" \/ exec[g].attempt >= MaxAttempts
    <3>1. jobs' = [jobs EXCEPT
                     ![j].state = IF over THEN "failed" ELSE "pending",
                     ![j].owner = IF over THEN @ ELSE NoGateway,
                     ![j].class = exec[g].class, ![j].lapsed = FALSE]
      BY <1>2, <1>6 DEF Fail
    <3>2. exec[g].class \in Class /\ jobs[j].owner \in Gateways \cup {NoGateway}
      BY DEF JobInv, TypeOK, Exec, Job
    <3>3. CASE over
      <4>1. jobs' = [jobs EXCEPT ![j].state = "failed", ![j].owner = jobs[j].owner,
                                 ![j].class = exec[g].class, ![j].lapsed = FALSE]
        BY <3>1, <3>3 DEF JobInv, TypeOK, Job
      <4> QED BY <3>2, <4>1
    <3>4. CASE ~over
      <4>1. jobs' = [jobs EXCEPT ![j].state = "pending", ![j].owner = NoGateway,
                                 ![j].class = exec[g].class, ![j].lapsed = FALSE]
        BY <3>1, <3>4 DEF JobInv, TypeOK, Job
      <4> QED BY <3>2, <4>1
    <3> QED BY <3>3, <3>4
  <2>2. /\ jobs'[j].state = st /\ jobs'[j].attempts = jobs[j].attempts
        /\ \A i \in JobIds : i # j => jobs'[i] = jobs[i]
    BY <2>1 DEF JobInv, TypeOK, Job
  <2>3. jobs[j].state = "running"
    BY <1>2, <1>6 DEF HoldsClaim
  <2>4. /\ Status(j) = "open"
        /\ Status(j)' = IF st = "failed" THEN "failed" ELSE "open"
        /\ \A i \in JobIds : i # j => Status(i)' = Status(i)
    BY <2>2, <2>3 DEF Status
  <2>5. CASE st = "pending"
    BY <1>3, <2>2, <2>4, <2>5, Unseen
  <2>6. CASE st = "failed"
    <3>1. Service!GiveUp({j})
      BY <1>3, <2>2, <2>4, <2>6 DEF Service!GiveUp
    <3> QED BY <3>1
  <2> QED BY <2>5, <2>6
<1> QED BY <1>4, <1>5, <1>6

\* Every step of the queue is a step of the service, or one that submitters
\* cannot see.
LEMMA ServiceStep == JobInv /\ [Next]_vars => [Service!Next]_(Service!vars)
<1> SUFFICES ASSUME JobInv, [Next]_vars
             PROVE  Service!Next \/ UNCHANGED Service!vars
  OBVIOUS
<1>1. CASE UNCHANGED <<jobs, rows>>
  BY <1>1, Unseen DEF Status, Results
<1>2. ASSUME NEW c \in Callers, NEW j \in JobIds, EnqueueInsert(c, j)
      PROVE  Service!Next
  BY <1>2, InsertSeen DEF Service!Next
<1>3. ASSUME NEW g \in Gateways,
             \/ Work(g) \/ Heartbeat(g) \/ Crash(g)
             \/ \E class \in {"retryable", "terminal"} : StageFails(g, class)
      PROVE  Service!Next \/ UNCHANGED Service!vars
  <2>1. CASE Sweep(g)
    BY <2>1, SweepSeen DEF Service!Next
  <2>2. CASE Claim(g)
    BY <2>2, ClaimSeen DEF Service!Next
  <2>3. CASE Finalize(g)
    BY <2>3, FinalizeSeen DEF Service!Next
  <2>4. CASE Complete(g) \/ Fail(g)
    BY <2>4, OutcomeSeen DEF Service!Next
  <2> QED BY <1>3, <2>1, <2>2, <2>3, <2>4, QuietSteps DEF Work
<1>4. ASSUME NEW j \in JobIds, Expire(j) PROVE UNCHANGED Service!vars
  <2>1. /\ jobs' = [jobs EXCEPT ![j].lapsed = TRUE]
        /\ UNCHANGED rows
    BY <1>4 DEF Expire
  <2>2. \A i \in JobIds : jobs'[i].state = jobs[i].state
                          /\ jobs'[i].attempts = jobs[i].attempts
    BY <2>1 DEF JobInv, TypeOK, Job
  <2> QED BY <2>1, <2>2, Unseen DEF Status, Results
<1>5. ASSUME NEW c \in Callers, (\E k \in Keys : EnqueueLook(c, k)) \/ EnqueueLost(c)
      PROVE  UNCHANGED <<jobs, rows>>
  BY <1>5 DEF EnqueueLook, EnqueueLost
<1> QED BY <1>1, <1>2, <1>3, <1>4, <1>5 DEF Next, vars

\* The queue keeps its promise to submitters: bounded tries, only the latest
\* try produces a result, and a job is done only when its result exists.
THEOREM QueueImplementsService == Spec => ServiceSpec
<1>1. Init => Service!Init
  <2> SUFFICES ASSUME Init PROVE Service!Init
    OBVIOUS
  <2>1. \A j \in JobIds : Status(j) = "absent" /\ jobs[j].attempts = 0
    BY DEF Init, Status, NoJob
  <2>2. \A k \in Keys, a \in 1..MaxAttempts : rows[<<k, a>>].status = "absent"
    BY DEF Init, NoRow, Slots
  <2>3. \A j \in JobIds : Results(j) = {}
    BY <2>2 DEF Results
  <2> QED BY <2>1, <2>3 DEF Service!Init
<1> QED BY <1>1, ServiceStep, JobInvariant, PTL DEF Spec, ServiceSpec, Service!Spec
=============================================================================
