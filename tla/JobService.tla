----------------------------- MODULE JobService -----------------------------
(***************************************************************************)
(* What the maintenance job queue promises to those who submit jobs        *)
(* (DEC-037): a job is tried a bounded number of times, only its latest    *)
(* try may still produce a result, at most one result per try, and it is   *)
(* done only when that result exists.                                      *)
(***************************************************************************)
EXTENDS Integers

CONSTANTS
    Jobs,      \* job identities
    MaxTries   \* max_attempts

VARIABLES
    status,    \* what a submitter can observe of each job
    tries,     \* tries begun
    results    \* tries that produced a finalized snapshot

vars == <<status, tries, results>>

Init ==
    /\ status = [j \in Jobs |-> "absent"]
    /\ tries = [j \in Jobs |-> 0]
    /\ results = [j \in Jobs |-> {}]

Submit(j) ==
    /\ status[j] = "absent"
    /\ status' = [status EXCEPT ![j] = "open"]
    /\ UNCHANGED <<tries, results>>

Try(j) ==
    /\ status[j] = "open"
    /\ tries[j] < MaxTries
    /\ tries' = [tries EXCEPT ![j] = @ + 1]
    /\ UNCHANGED <<status, results>>

\* The latest try produces its result.  It may do so late, even after the job
\* was given up.
Produce(j) ==
    /\ tries[j] > 0
    /\ results' = [results EXCEPT ![j] = @ \cup {tries[j]}]
    /\ UNCHANGED <<status, tries>>

Done(j) ==
    /\ status[j] = "open"
    /\ tries[j] \in results[j]
    /\ status' = [status EXCEPT ![j] = "done"]
    /\ UNCHANGED <<tries, results>>

\* Jobs are given up: a terminal failure, or no try left.
GiveUp(S) ==
    /\ \A j \in S : status[j] = "open"
    /\ status' = [j \in Jobs |-> IF j \in S THEN "failed" ELSE status[j]]
    /\ UNCHANGED <<tries, results>>

Next ==
    \/ \E j \in Jobs : Submit(j) \/ Try(j) \/ Produce(j) \/ Done(j)
    \/ \E S \in SUBSET Jobs : GiveUp(S)

Spec == Init /\ [][Next]_vars
=============================================================================
