---------------------------- MODULE JobLifecycle ----------------------------
(***************************************************************************)
(* What the background queue of packages/jobs promises its clients, with   *)
(* no clock, no index and no record layout: a job is handed out at most    *)
(* MaxAttempts times, each time under a lease number nobody ever held      *)
(* before; while that lease is live only its holder decides the outcome;   *)
(* an outcome is final.  JobQueue implements this module, and the worker   *)
(* and task modules are built on top of it.                                *)
(***************************************************************************)
EXTENDS Integers

CONSTANTS
    Jobs,         \* job ids
    MaxAttempts   \* how often one job may be handed out

ASSUME MaxAttemptsAssumption == MaxAttempts \in Nat \ {0}

VARIABLES
    phase,     \* phase[j]: where job j is in its life
    attempts,  \* attempts[j]: how often j was handed out
    holder,    \* holder[j]: the lease number j is running under, 0 when none
    live,      \* the jobs whose lease has not run out yet
    issued     \* how many leases were ever granted; leases are numbered 1..issued

lifeVars == <<phase, attempts, holder, live, issued>>

Final  == {"succeeded", "failed", "cancelled"}
Phases == {"absent", "queued", "running"} \cup Final

LifeTypeOK ==
    /\ phase \in [Jobs -> Phases]
    /\ attempts \in [Jobs -> 0..MaxAttempts]
    /\ holder \in [Jobs -> Nat]
    /\ live \in SUBSET Jobs
    /\ issued \in Nat

LifeInit ==
    /\ phase = [j \in Jobs |-> "absent"]
    /\ attempts = [j \in Jobs |-> 0]
    /\ holder = [j \in Jobs |-> 0]
    /\ live = {}
    /\ issued = 0

-----------------------------------------------------------------------------
(* A client hands the job over; a repeated submission is a stutter.        *)
Submit(j) ==
    /\ phase[j] = "absent"
    /\ phase' = [phase EXCEPT ![j] = "queued"]
    /\ UNCHANGED <<attempts, holder, live, issued>>

(* The job is handed out under a lease number of its own.                  *)
Grant(j) ==
    /\ phase[j] = "queued"
    /\ attempts[j] < MaxAttempts
    /\ issued' = issued + 1
    /\ phase' = [phase EXCEPT ![j] = "running"]
    /\ attempts' = [attempts EXCEPT ![j] = @ + 1]
    /\ holder' = [holder EXCEPT ![j] = issued + 1]
    /\ live' = live \cup {j}

(* The lease number l is the current lease of j and has not run out.       *)
HoldsLive(j, l) == /\ phase[j] = "running"
                   /\ holder[j] = l
                   /\ j \in live

(* Job j leaves the running phase for p.                                   *)
LeaveFor(j, p) ==
    /\ phase' = [phase EXCEPT ![j] = p]
    /\ holder' = [holder EXCEPT ![j] = 0]
    /\ live' = live \ {j}
    /\ UNCHANGED <<attempts, issued>>

Succeed(j, l) == HoldsLive(j, l) /\ LeaveFor(j, "succeeded")

(* A failure its holder calls retryable requeues the job while attempts    *)
(* are left; any other failure is final.                                   *)
Retry(j, l) ==
    /\ HoldsLive(j, l)
    /\ attempts[j] < MaxAttempts
    /\ LeaveFor(j, "queued")

GiveUp(j, l) == HoldsLive(j, l) /\ LeaveFor(j, "failed")

Cancel(j) ==
    /\ phase[j] \in {"queued", "running"}
    /\ LeaveFor(j, "cancelled")

(* Time passes: the leases of the jobs in J run out together.              *)
Lapse(J) ==
    /\ J # {}
    /\ J \subseteq live
    /\ live' = live \ J
    /\ UNCHANGED <<phase, attempts, holder, issued>>

(* Jobs whose lease ran out are taken back, several in one step.           *)
Reclaim(J) ==
    /\ J # {}
    /\ \A j \in J : phase[j] = "running" /\ j \notin live
    /\ phase' = [j \in Jobs |-> IF j \notin J THEN phase[j]
                                ELSE IF attempts[j] < MaxAttempts THEN "queued"
                                ELSE "failed"]
    /\ holder' = [j \in Jobs |-> IF j \in J THEN 0 ELSE holder[j]]
    /\ UNCHANGED <<attempts, live, issued>>

LifeNext ==
    \/ \E j \in Jobs : Submit(j) \/ Grant(j) \/ Cancel(j)
    \/ \E j \in Jobs : \E l \in 1..issued : Succeed(j, l) \/ Retry(j, l) \/ GiveUp(j, l)
    \/ \E J \in SUBSET Jobs : Lapse(J) \/ Reclaim(J)

LifeSpec == LifeInit /\ [][LifeNext]_lifeVars

=============================================================================
