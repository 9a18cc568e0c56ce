--------------------------- MODULE EmbeddedWorker ---------------------------
(***************************************************************************)
(* The worker loop inside the API process as one problem-package task      *)
(* meets it: the queue entry of the task in the in-process queue, and the  *)
(* handler invocations.  Invocation e is the one that was granted lease e, *)
(* so e is also its attempt number.  A handler that timed out or lost its  *)
(* lease is no longer waited for and keeps running beside its successor.   *)
(* A restart of the API empties the queue and ends every handler.          *)
(***************************************************************************)
EXTENDS JobLifecycle

CONSTANT Task   \* the queue job

ASSUME TaskAssumption == Jobs = {Task}

VARIABLE run    \* run[e]: invocation e; .at is its step, .aborted its AbortSignal

Runs == 1..MaxAttempts

At(e, step) == run[e].at = step
Active(e)   == run[e].at \notin {"none", "ended"}
Awaited(e)  == Active(e) /\ ~run[e].aborted
Idle        == \A e \in Runs : ~Awaited(e)
Holds(e)    == HoldsLive(Task, e)

(* One loop, so one invocation is waited for.                              *)
LeaseTo(fresh) == /\ Idle
                  /\ Grant(Task)
                  /\ run' = [run EXCEPT ![issued + 1] = fresh]

TakeBackTask == /\ Idle
                /\ Reclaim({Task})
                /\ UNCHANGED run

TaskLapses == Lapse({Task}) /\ UNCHANGED run

(* Retryable failures requeue while attempts are left; the report of an    *)
(* invocation without the lease, or of one given up, is dropped.           *)
Report(e, outcome) ==
    IF ~Holds(e) \/ run[e].aborted THEN UNCHANGED lifeVars
    ELSE IF outcome = "succeeded" THEN Succeed(Task, e)
    ELSE IF outcome = "retryable" /\ attempts[Task] < MaxAttempts THEN Retry(Task, e)
    ELSE GiveUp(Task, e)

RunTimesOut(e) == /\ Awaited(e)
                  /\ Report(e, "retryable")
                  /\ run' = [run EXCEPT ![e].aborted = TRUE]

RunLosesLease(e) == /\ Awaited(e)
                    /\ ~Holds(e)
                    /\ run' = [run EXCEPT ![e].aborted = TRUE]
                    /\ UNCHANGED lifeVars

(* How a step of a handler goes on.                                        *)
Continue(e, step) == /\ run' = [run EXCEPT ![e].at = step]
                     /\ UNCHANGED lifeVars

Raise(e, error) == /\ run' = [run EXCEPT ![e].at = "catch", ![e].error = error]
                   /\ UNCHANGED lifeVars

ProcessRestarts(blank) ==
    /\ phase' = [j \in Jobs |-> "absent"]
    /\ attempts' = [j \in Jobs |-> 0]
    /\ holder' = [j \in Jobs |-> 0]
    /\ live' = {}
    /\ issued' = 0
    /\ run' = [e \in Runs |-> blank]
=============================================================================
