----------------------------- MODULE JobWorker ------------------------------
(***************************************************************************)
(* The worker processes of apps/worker (JobWorker in worker-runtime.ts) on *)
(* top of the queue of JobLifecycle.  A worker polls, leases one job, runs *)
(* its handler, renews the lease meanwhile, and reports the outcome under  *)
(* the lease it was given.  A handler cannot be killed: after a timeout or *)
(* a lost lease it keeps running in the background until it returns.       *)
(* Processes crash and restart, and a Redis command may fail before or     *)
(* after it took effect.                                                   *)
(***************************************************************************)
EXTENDS JobLifecycle, FiniteSets

CONSTANTS
    Workers,      \* worker processes
    MaxCrashes,   \* bound of the model: crashes and shutdowns
    MaxOutages    \* bound of the model: failed Redis commands

ASSUME WorkerAssumption == MaxCrashes \in Nat /\ MaxOutages \in Nat

VARIABLES
    known,      \* the jobs whose type has a registered handler
    mode,       \* mode[w]: what worker w is doing
    current,    \* current[w]: the job and lease it executes
    verdict,    \* verdict[w]: what it is about to report as a failure
    handlers,   \* handler invocations that have not returned yet
    returned,   \* the executions whose handler returned a result
    delayed,    \* queued jobs whose retry delay has not passed yet
    stopping,   \* workers told to stop
    crashes, outages

workerVars == <<known, mode, current, verdict, handlers, returned, delayed, stopping, crashes, outages>>
vars == <<phase, attempts, holder, live, issued, known, mode, current, verdict, handlers,
          returned, delayed, stopping, crashes, outages>>

Modes    == {"down", "idle", "polling", "executing", "completing", "failing"}
Verdicts == {"none", "retryable", "permanent"}
Idle     == [job |-> "none", lease |-> 0]

Executions == [job : Jobs, lease : Nat] \cup {Idle}
Handlers   == [worker : Workers, job : Jobs, lease : Nat]

TypeOK ==
    /\ LifeTypeOK
    /\ known \subseteq Jobs
    /\ mode \in [Workers -> Modes]
    /\ current \in [Workers -> Executions]
    /\ verdict \in [Workers -> Verdicts]
    /\ handlers \subseteq Handlers
    /\ returned \subseteq [job : Jobs, lease : 1..issued]
    /\ delayed \subseteq Jobs
    /\ stopping \subseteq Workers
    /\ crashes \in 0..MaxCrashes
    /\ outages \in 0..MaxOutages

Init ==
    /\ LifeInit
    /\ known \in SUBSET Jobs
    /\ mode = [w \in Workers |-> "idle"]
    /\ current = [w \in Workers |-> Idle]
    /\ verdict = [w \in Workers |-> "none"]
    /\ handlers = {}
    /\ returned = {}
    /\ delayed = {}
    /\ stopping = {}
    /\ crashes = 0
    /\ outages = 0

-----------------------------------------------------------------------------
(* Clients and the clock.                                                  *)
SubmitJob == /\ \E j \in Jobs : Submit(j)
             /\ UNCHANGED workerVars

CancelJob == /\ \E j \in Jobs : Cancel(j) /\ delayed' = delayed \ {j}
             /\ UNCHANGED <<known, mode, current, verdict, handlers, returned,
                            stopping, crashes, outages>>

Ripen(j) == /\ j \in delayed
            /\ delayed' = delayed \ {j}
            /\ UNCHANGED <<known, phase, attempts, holder, live, issued, mode, current,
                           verdict, handlers, returned, stopping, crashes, outages>>

LapseOf(j) == Lapse({j}) /\ UNCHANGED workerVars

-----------------------------------------------------------------------------
(* The polling loop.  leaseNext is two scripts: expired leases are taken   *)
(* back first, then the next due job is leased.                            *)
Lapsed == {j \in Jobs : phase[j] = "running" /\ j \notin live}

\* mutant: leaseNext does not take expired leases back
Poll_NoRecovery(w) ==
    /\ mode[w] = "idle"
    /\ w \notin stopping
    /\ mode' = [mode EXCEPT ![w] = "polling"]
    /\ UNCHANGED <<lifeVars, known, current, verdict, handlers, returned, delayed,
                   stopping, crashes, outages>>

Poll(w) ==
    /\ mode[w] = "idle"
    /\ w \notin stopping
    /\ mode' = [mode EXCEPT ![w] = "polling"]
    /\ IF Lapsed = {} THEN UNCHANGED lifeVars ELSE Reclaim(Lapsed)
    /\ UNCHANGED <<known, current, verdict, handlers, returned, delayed, stopping,
                   crashes, outages>>

Due == {j \in Jobs : phase[j] = "queued" /\ j \notin delayed}

\* mutant: a redelivered job runs under the lease it had before
Take_OldLease(w, j) ==
    /\ mode[w] = "polling"
    /\ phase[j] \in {"queued", "running"} /\ j \notin delayed
    /\ IF phase[j] = "queued" THEN Grant(j) ELSE UNCHANGED lifeVars
    /\ current' = [current EXCEPT ![w] = [job |-> j, lease |-> issued']]
    /\ mode' = [mode EXCEPT ![w] = "executing"]
    /\ handlers' = handlers \cup {[worker |-> w, job |-> j, lease |-> issued']}
    /\ UNCHANGED <<known, verdict, returned, delayed, stopping, crashes, outages>>

(* A job of a type without handler is failed at once, for good.            *)
Take(w, j) ==
    /\ mode[w] = "polling"
    /\ j \in Due
    /\ Grant(j)
    /\ current' = [current EXCEPT ![w] = [job |-> j, lease |-> issued + 1]]
    /\ IF j \in known
       THEN /\ mode' = [mode EXCEPT ![w] = "executing"]
            /\ handlers' = handlers \cup {[worker |-> w, job |-> j, lease |-> issued + 1]}
            /\ UNCHANGED verdict
       ELSE /\ mode' = [mode EXCEPT ![w] = "failing"]
            /\ verdict' = [verdict EXCEPT ![w] = "permanent"]
            /\ UNCHANGED handlers
    /\ UNCHANGED <<known, returned, delayed, stopping, crashes, outages>>

NothingDue(w) ==
    /\ mode[w] = "polling"
    /\ Due = {}
    /\ mode' = [mode EXCEPT ![w] = "idle"]
    /\ UNCHANGED <<lifeVars, known, current, verdict, handlers, returned, delayed,
                   stopping, crashes, outages>>

-----------------------------------------------------------------------------
(* What an execution waits for: its handler, its timeout, its lease.       *)
Runs(w, h) == /\ mode[w] = "executing"
              /\ h.worker = w
              /\ h.lease = current[w].lease

Holds(w) == HoldsLive(current[w].job, current[w].lease)

Leave(w) == /\ mode' = [mode EXCEPT ![w] = "idle"]
            /\ current' = [current EXCEPT ![w] = Idle]
            /\ verdict' = [verdict EXCEPT ![w] = "none"]

HandlerReturns(h) ==
    /\ h \in handlers
    /\ handlers' = handlers \ {h}
    /\ returned' = returned \cup {[job |-> h.job, lease |-> h.lease]}
    /\ mode' = [w \in Workers |-> IF Runs(w, h) THEN "completing" ELSE mode[w]]
    /\ UNCHANGED <<lifeVars, known, current, verdict, delayed, stopping, crashes, outages>>

(* PermanentJobError is not retried, every other error is.                 *)
HandlerThrows(h, v) ==
    /\ h \in handlers
    /\ v \in {"retryable", "permanent"}
    /\ handlers' = handlers \ {h}
    /\ mode' = [w \in Workers |-> IF Runs(w, h) THEN "failing" ELSE mode[w]]
    /\ verdict' = [w \in Workers |-> IF Runs(w, h) THEN v ELSE verdict[w]]
    /\ UNCHANGED <<lifeVars, known, current, returned, delayed, stopping, crashes, outages>>

HandlerTimeout(w) ==
    /\ mode[w] = "executing"
    /\ mode' = [mode EXCEPT ![w] = "failing"]
    /\ verdict' = [verdict EXCEPT ![w] = "retryable"]
    /\ UNCHANGED <<lifeVars, known, current, handlers, returned, delayed, stopping,
                   crashes, outages>>

(* The heartbeat finds the lease gone, or cannot reach Redis: either way   *)
(* the execution ends without reporting anything.                          *)
HeartbeatFails(w) ==
    /\ mode[w] = "executing"
    /\ IF Holds(w) THEN outages < MaxOutages /\ outages' = outages + 1
                   ELSE UNCHANGED outages
    /\ Leave(w)
    /\ UNCHANGED <<lifeVars, known, handlers, returned, delayed, stopping, crashes>>

-----------------------------------------------------------------------------
(* When run() rejects the process ends, once its last handler returned.    *)
Die(w) == /\ mode' = [mode EXCEPT ![w] = "down"]
          /\ current' = [current EXCEPT ![w] = Idle]
          /\ verdict' = [verdict EXCEPT ![w] = "none"]
          /\ stopping' = stopping \ {w}

(* Reporting the outcome.  LEASE_LOST is swallowed, except where a job of  *)
(* a type without handler is failed: then run() rejects.                   *)
\* mutant: completion is not fenced by the lease
Complete_Unfenced(w) ==
    /\ mode[w] = "completing"
    /\ phase' = [phase EXCEPT ![current[w].job] = "succeeded"]
    /\ UNCHANGED <<attempts, holder, live, issued>>
    /\ Leave(w)
    /\ UNCHANGED <<known, handlers, returned, delayed, stopping, crashes, outages>>

Complete(w) ==
    /\ mode[w] = "completing"
    /\ IF Holds(w) THEN Succeed(current[w].job, current[w].lease) ELSE UNCHANGED lifeVars
    /\ Leave(w)
    /\ UNCHANGED <<known, handlers, returned, delayed, stopping, crashes, outages>>

ApplyFailure(j, l, v) ==
    IF v = "retryable" /\ attempts[j] < MaxAttempts
    THEN Retry(j, l) /\ delayed' = delayed \cup {j}
    ELSE GiveUp(j, l) /\ UNCHANGED delayed

Fail(w) ==
    /\ mode[w] = "failing"
    /\ IF Holds(w) THEN ApplyFailure(current[w].job, current[w].lease, verdict[w])
                   ELSE UNCHANGED <<lifeVars, delayed>>
    /\ IF Holds(w) \/ current[w].job \in known THEN Leave(w) /\ UNCHANGED stopping ELSE Die(w)
    /\ UNCHANGED <<known, handlers, returned, crashes, outages>>

(* complete meets a Redis error, before or after it took effect: the error *)
(* is reported as a retryable failure of the handler.                      *)
CompleteErrs(w) ==
    /\ mode[w] = "completing"
    /\ outages < MaxOutages
    /\ outages' = outages + 1
    /\ \/ UNCHANGED lifeVars
       \/ Succeed(current[w].job, current[w].lease)
    /\ mode' = [mode EXCEPT ![w] = "failing"]
    /\ verdict' = [verdict EXCEPT ![w] = "retryable"]
    /\ UNCHANGED <<known, current, handlers, returned, delayed, stopping, crashes>>

(* leaseNext or fail meets a Redis error: run() rejects.  A lease granted  *)
(* in a lost reply has nobody who knows it.                                *)
PollErrs(w) ==
    /\ mode[w] \in {"idle", "polling"}
    /\ w \notin stopping \/ mode[w] = "polling"
    /\ outages < MaxOutages
    /\ outages' = outages + 1
    /\ \/ UNCHANGED lifeVars
       \/ mode[w] = "polling" /\ \E j \in Due : Grant(j)
    /\ Die(w)
    /\ UNCHANGED <<known, handlers, returned, delayed, crashes>>

FailErrs(w) ==
    /\ mode[w] = "failing"
    /\ outages < MaxOutages
    /\ outages' = outages + 1
    /\ \/ UNCHANGED <<lifeVars, delayed>>
       \/ Holds(w) /\ ApplyFailure(current[w].job, current[w].lease, verdict[w])
    /\ Die(w)
    /\ UNCHANGED <<known, handlers, returned, crashes>>

-----------------------------------------------------------------------------
(* Processes.  A crash kills the handlers of the process; SIGTERM lets the *)
(* current execution finish; the container is started again.               *)
Crash(w) ==
    /\ mode[w] # "down"
    /\ crashes < MaxCrashes
    /\ crashes' = crashes + 1
    /\ handlers' = {h \in handlers : h.worker # w}
    /\ Die(w)
    /\ UNCHANGED <<lifeVars, known, returned, delayed, outages>>

Stop(w) ==
    /\ mode[w] # "down"
    /\ w \notin stopping
    /\ crashes < MaxCrashes
    /\ crashes' = crashes + 1
    /\ stopping' = stopping \cup {w}
    /\ UNCHANGED <<lifeVars, known, mode, current, verdict, handlers, returned,
                   delayed, outages>>

Exit(w) ==
    /\ mode[w] = "idle"
    /\ w \in stopping
    /\ Die(w)
    /\ UNCHANGED <<lifeVars, known, handlers, returned, delayed, crashes, outages>>

Restart(w) ==
    /\ mode[w] = "down"
    /\ \A h \in handlers : h.worker # w
    /\ mode' = [mode EXCEPT ![w] = "idle"]
    /\ UNCHANGED <<lifeVars, known, current, verdict, handlers, returned, delayed,
                   stopping, crashes, outages>>

-----------------------------------------------------------------------------
WorkerStep(w) ==
    \/ Poll(w) \/ NothingDue(w) \/ (\E j \in Jobs : Take(w, j))
    \/ HandlerTimeout(w) \/ HeartbeatFails(w)
    \/ Complete(w) \/ Fail(w)
    \/ CompleteErrs(w) \/ PollErrs(w) \/ FailErrs(w)
    \/ Crash(w) \/ Stop(w) \/ Exit(w) \/ Restart(w)

Next ==
    \/ SubmitJob
    \/ CancelJob
    \/ \E j \in Jobs : Ripen(j) \/ LapseOf(j)
    \/ \E h \in handlers : HandlerReturns(h) \/ \E v \in Verdicts : HandlerThrows(h, v)
    \/ \E w \in Workers : WorkerStep(w)

(* The polling loop and the timers of a process always run on, a container *)
(* is always started again, delays pass, and a lease nobody renews ends.   *)
Forgotten(j) == /\ phase[j] = "running"
                /\ \A w \in Workers : current[w].lease # holder[j]

Fairness ==
    /\ \A w \in Workers :
         /\ WF_vars(Poll(w)) /\ WF_vars(NothingDue(w) \/ \E j \in Jobs : Take(w, j))
         /\ WF_vars(HandlerTimeout(w) \/ HeartbeatFails(w))
         /\ WF_vars(Complete(w)) /\ WF_vars(Fail(w))
         /\ WF_vars(Exit(w)) /\ WF_vars(Restart(w))
    /\ \A j \in Jobs : WF_vars(Ripen(j)) /\ WF_vars(Forgotten(j) /\ LapseOf(j))
    /\ WF_vars(\E h \in handlers : HandlerReturns(h) \/ \E v \in Verdicts : HandlerThrows(h, v))

Spec == Init /\ [][Next]_vars

FairSpec == Spec /\ Fairness
-----------------------------------------------------------------------------
(* A job is recorded as succeeded only when a handler returned a result    *)
(* for that very job: no late worker, lost reply or failure report of      *)
(* another execution turns into a success.                                 *)
SuccessIsEarned ==
    \A j \in Jobs : phase[j] = "succeeded" => \E r \in returned : r.job = j

(* However often replies are lost and processes die, the handler of a job  *)
(* is not invoked more often than the job has attempts.                    *)
InvocationsBounded ==
    \A j \in Jobs :
        Cardinality({h.lease : h \in {x \in handlers \cup returned : x.job = j}}) <= attempts[j]

(* Two workers never both hold a job with a live lease, and a worker that  *)
(* is busy is busy under the lease it was granted for that job.            *)
OneHolder ==
    /\ \A w, v \in Workers : current[w].job = current[v].job /\ current[w] # Idle
                              /\ Holds(w) /\ Holds(v) => w = v
    /\ \A w \in Workers : mode[w] \in {"executing", "completing", "failing"}
                          <=> current[w] # Idle

(* The facts about state every report relies on: types, no invocation      *)
(* without an attempt, one live lease per job, no success nobody earned.   *)
WorkerInv == TypeOK /\ InvocationsBounded /\ OneHolder /\ SuccessIsEarned

(* An outcome is final, also when the reply to `complete` was lost and the *)
(* worker went on to report a failure.                                     *)
OutcomeIsFinal == [][\A j \in Jobs : phase[j] \in Final => phase'[j] = phase[j]]_vars

(* Every submitted job reaches an outcome: no crash, no lost reply and no  *)
(* handler that outlives its timeout leaves it waiting or running for ever.*)
EveryJobEnds == \A j \in Jobs : phase[j] = "queued" ~> phase[j] \in Final
=============================================================================
