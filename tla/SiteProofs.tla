---------------------------- MODULE SiteProofs ----------------------------
(***************************************************************************)
(* Proofs about the parts of a site that run beside the problems, for any  *)
(* number of everything in them.  JobWorker, for every set of workers and  *)
(* jobs and all limits: the invariant WorkerInv, the action property       *)
(* OutcomeIsFinal, and that the workers use the queue only as JobLifecycle *)
(* allows.  SiteSettings and ExternalLogin, for every set of pages, sites, *)
(* clients, logins and requests: the invariants SettingsInv and LoginInv.  *)
(* Contests, for every set of pages, accounts and problems: ContestInv.    *)
(* ProblemEditor, for every set of passages: EditorInv.                    *)
(***************************************************************************)
EXTENDS JobWorker, ExternalLogin, Contests, ProblemEditor, FiniteSetTheorems, TLAPS

(* A worker executes nothing, or a job under a lease that was issued.      *)
BusyUnderLease ==
    \A w \in Workers :
        /\ mode[w] \in {"executing", "completing", "failing"} <=> current[w] # Idle
        /\ current[w] # Idle => current[w] \in [job : Jobs, lease : 1..issued]

(* No two workers ever execute under the same lease.                       *)
LeasesDiffer ==
    \A w, v \in Workers :
        current[w] # Idle /\ current[w].lease = current[v].lease => w = v

(* A running handler was started under an issued lease, and it works for   *)
(* the job its worker executes as long as the leases are the same.         *)
HandlersAgree ==
    \A h \in handlers :
        /\ h.lease \in 1..issued
        /\ h.lease = current[h.worker].lease => h.job = current[h.worker].job

(* What is about to be reported as completed has returned a result.        *)
CompletingReturned ==
    \A w \in Workers :
        mode[w] = "completing" =>
            [job |-> current[w].job, lease |-> current[w].lease] \in returned

(* The inductive invariant.                                                *)
WorkerIInv ==
    /\ TypeOK
    /\ BusyUnderLease
    /\ LeasesDiffer
    /\ HandlersAgree
    /\ CompletingReturned
    /\ InvocationsBounded
    /\ SuccessIsEarned

-----------------------------------------------------------------------------
(* What every step of the queue keeps: the types, the leases issued so     *)
(* far, the attempts made and the outcomes.                                *)
LEMMA LifeKeeps ==
    ASSUME LifeTypeOK, [LifeNext]_lifeVars
    PROVE  /\ LifeTypeOK'
           /\ issued <= issued'
           /\ \A j \in Jobs : /\ attempts[j] <= attempts'[j]
                              /\ phase[j] \in Final => phase'[j] = phase[j]
<1>. USE MaxAttemptsAssumption DEF LifeTypeOK, Phases, Final
<1>1. ASSUME NEW j \in Jobs, Submit(j) \/ Grant(j) \/ Cancel(j)
      PROVE  /\ LifeTypeOK' /\ issued <= issued'
             /\ \A k \in Jobs : /\ attempts[k] <= attempts'[k]
                                /\ phase[k] \in Final => phase'[k] = phase[k]
  BY <1>1 DEF Submit, Grant, Cancel, LeaveFor
<1>2. ASSUME NEW j \in Jobs, NEW l \in 1..issued, Succeed(j, l) \/ Retry(j, l) \/ GiveUp(j, l)
      PROVE  /\ LifeTypeOK' /\ issued <= issued'
             /\ \A k \in Jobs : /\ attempts[k] <= attempts'[k]
                                /\ phase[k] \in Final => phase'[k] = phase[k]
  BY <1>2 DEF Succeed, Retry, GiveUp, LeaveFor, HoldsLive
<1>3. ASSUME NEW J \in SUBSET Jobs, Lapse(J) \/ Reclaim(J)
      PROVE  /\ LifeTypeOK' /\ issued <= issued'
             /\ \A k \in Jobs : /\ attempts[k] <= attempts'[k]
                                /\ phase[k] \in Final => phase'[k] = phase[k]
  BY <1>3 DEF Lapse, Reclaim
<1>4. CASE UNCHANGED lifeVars
  BY <1>4 DEF lifeVars
<1>. QED BY <1>1, <1>2, <1>3, <1>4 DEF LifeNext

(* The job and lease a busy worker reports under are ones of the queue.    *)
LEMMA BusyTyped ==
    ASSUME WorkerIInv, NEW w \in Workers, mode[w] \in {"completing", "failing"}
    PROVE  current[w].job \in Jobs /\ current[w].lease \in 1..issued
BY DEF WorkerIInv, BusyUnderLease

(* A failure report is a retry or the final failure of a job.              *)
LEMMA ApplyFailureLife ==
    ASSUME NEW j, NEW l, NEW v, ApplyFailure(j, l, v), HoldsLive(j, l)
    PROVE  (Retry(j, l) \/ GiveUp(j, l)) /\ delayed' \in {delayed, delayed \cup {j}}
BY DEF ApplyFailure

(* Every step of the workers is a step of the queue, or none.              *)
LEMMA WorkersUseQueue == ASSUME WorkerIInv, [Next]_vars PROVE [LifeNext]_lifeVars
<1>1. CASE SubmitJob \/ CancelJob
  BY <1>1 DEF SubmitJob, CancelJob, LifeNext
<1>2. ASSUME NEW j \in Jobs, Ripen(j) \/ LapseOf(j) PROVE [LifeNext]_lifeVars
  BY <1>2 DEF Ripen, LapseOf, LifeNext, lifeVars
<1>3. ASSUME NEW h \in handlers, NEW v \in Verdicts, HandlerReturns(h) \/ HandlerThrows(h, v)
      PROVE  UNCHANGED lifeVars
  BY <1>3 DEF HandlerReturns, HandlerThrows
<1>4. ASSUME NEW w \in Workers, WorkerStep(w) PROVE [LifeNext]_lifeVars
  <2>1. CASE Poll(w)
    BY <2>1 DEF Poll, Lapsed, LifeNext
  <2>2. ASSUME NEW j \in Jobs, Take(w, j) PROVE LifeNext
    BY <2>2 DEF Take, LifeNext
  <2>3. CASE Complete(w) \/ CompleteErrs(w)
    BY <2>3, BusyTyped DEF Complete, CompleteErrs, LifeNext
  <2>4. CASE Fail(w) \/ FailErrs(w)
    <3>1. CASE UNCHANGED lifeVars
      BY <3>1
    <3>2. CASE ~UNCHANGED lifeVars
      <4>1. /\ mode[w] = "failing" /\ Holds(w)
            /\ ApplyFailure(current[w].job, current[w].lease, verdict[w])
        BY <2>4, <3>2 DEF Fail, FailErrs
      <4>. QED BY <4>1, BusyTyped, ApplyFailureLife DEF Holds, LifeNext
    <3>. QED BY <3>1, <3>2
  <2>5. CASE PollErrs(w)
    BY <2>5 DEF PollErrs, Due, LifeNext
  <2>6. CASE \/ NothingDue(w) \/ HandlerTimeout(w) \/ HeartbeatFails(w)
             \/ Crash(w) \/ Stop(w) \/ Exit(w) \/ Restart(w)
    BY <2>6 DEF NothingDue, HandlerTimeout, HeartbeatFails, Crash, Stop, Exit, Restart
  <2>. QED BY <1>4, <2>1, <2>2, <2>3, <2>4, <2>5, <2>6 DEF WorkerStep
<1>5. CASE UNCHANGED vars
  BY <1>5 DEF vars, lifeVars
<1>6. Verdicts # {}
  BY DEF Verdicts
<1>. QED BY <1>1, <1>2, <1>3, <1>4, <1>5, <1>6 DEF Next

-----------------------------------------------------------------------------
(* The part of the invariant that relates workers, leases and handlers.    *)
Bookkeeping ==
    TypeOK /\ BusyUnderLease /\ LeasesDiffer /\ HandlersAgree /\ CompletingReturned

LEMMA LeaseNumbers ==
    ASSUME Bookkeeping, NEW v \in Workers
    PROVE  current[v].lease \in 0..issued /\ (current[v].lease = 0 <=> current[v] = Idle)
BY DEF Bookkeeping, BusyUnderLease, Idle, TypeOK, LifeTypeOK

(* A worker that lets go of its execution, by leaving it or by dying, with *)
(* no handler more and no result less than before.                         *)
LEMMA LettingGo ==
    ASSUME Bookkeeping, LifeTypeOK', issued <= issued', NEW w \in Workers, Leave(w) \/ Die(w),
           UNCHANGED <<known, returned>>, handlers' \subseteq handlers,
           delayed' \in SUBSET Jobs, stopping' \in SUBSET Workers,
           crashes' \in 0..MaxCrashes, outages' \in 0..MaxOutages
    PROVE  Bookkeeping'
<1>1. /\ mode' \in [Workers -> Modes] /\ mode'[w] \in {"idle", "down"}
      /\ current' = [current EXCEPT ![w] = Idle]
      /\ verdict' \in [Workers -> Verdicts]
      /\ \A v \in Workers \ {w} : mode'[v] = mode[v]
  BY DEF Bookkeeping, TypeOK, Leave, Die, Modes, Verdicts
<1>2. issued \in Nat /\ issued' \in Nat
  BY DEF Bookkeeping, TypeOK, LifeTypeOK
<1>3. TypeOK'
  BY <1>1, <1>2 DEF Bookkeeping, TypeOK, Executions, Idle
<1>4. BusyUnderLease'
  BY <1>1, <1>2 DEF Bookkeeping, TypeOK, BusyUnderLease
<1>7. LeasesDiffer'
  <2>1. \A v \in Workers : current[v].lease \in 0..issued /\ (current[v].lease = 0 <=> current[v] = Idle)
    BY <1>2, LeaseNumbers
  <2>2. Idle.lease = 0
    BY DEF Idle
  <2>. QED BY <1>1, <2>1, <2>2 DEF Bookkeeping, TypeOK, LeasesDiffer
<1>5. HandlersAgree'
  BY <1>1, <1>2 DEF Bookkeeping, TypeOK, HandlersAgree, Handlers, Idle
<1>6. CompletingReturned'
  BY <1>1 DEF Bookkeeping, TypeOK, CompletingReturned
<1>. QED BY <1>3, <1>4, <1>5, <1>6, <1>7 DEF Bookkeeping

LEMMA TakeKeeps ==
    ASSUME Bookkeeping, LifeTypeOK', NEW w \in Workers, NEW j \in Jobs, Take(w, j)
    PROVE  Bookkeeping'
<1>. DEFINE new == [job |-> j, lease |-> issued + 1]
            started == [worker |-> w, job |-> j, lease |-> issued + 1]
<1>1. /\ issued \in Nat /\ issued' = issued + 1
      /\ mode[w] = "polling"
      /\ current' = [current EXCEPT ![w] = new]
      /\ handlers' \in {handlers, handlers \cup {started}}
      /\ mode' \in [Workers -> Modes] /\ mode'[w] \in {"executing", "failing"}
      /\ verdict' \in [Workers -> Verdicts]
      /\ \A v \in Workers \ {w} : mode'[v] = mode[v]
      /\ UNCHANGED <<known, returned, delayed, stopping, crashes, outages>>
  BY DEF Take, Grant, Bookkeeping, TypeOK, LifeTypeOK, Modes, Verdicts
<1>2. /\ new \in [job : Jobs, lease : 1..(issued + 1)] /\ new # Idle
      /\ started \in Handlers
  BY <1>1 DEF Idle, Handlers
<1>3. TypeOK'
  BY <1>1, <1>2 DEF Bookkeeping, TypeOK, Executions
<1>4. BusyUnderLease'
  BY <1>1, <1>2 DEF Bookkeeping, TypeOK, BusyUnderLease
<1>5. LeasesDiffer'
  <2>1. \A v \in Workers : current[v].lease \in 0..issued
    BY <1>1, LeaseNumbers
  <2>2. new.lease = issued + 1 /\ issued + 1 \notin 0..issued
    BY <1>1
  <2>. QED BY <1>1, <2>1, <2>2 DEF Bookkeeping, TypeOK, LeasesDiffer
<1>6. HandlersAgree'
  BY <1>1, <1>2 DEF Bookkeeping, TypeOK, HandlersAgree, Handlers
<1>7. CompletingReturned'
  BY <1>1 DEF Bookkeeping, TypeOK, CompletingReturned
<1>. QED BY <1>3, <1>4, <1>5, <1>6, <1>7 DEF Bookkeeping

LEMMA HandlerEnds ==
    ASSUME Bookkeeping, NEW h \in handlers, NEW v \in Verdicts,
           HandlerReturns(h) \/ HandlerThrows(h, v)
    PROVE  Bookkeeping'
<1>1. /\ UNCHANGED <<lifeVars, known, current, delayed, stopping, crashes, outages>>
      /\ handlers' = handlers \ {h} /\ returned \subseteq returned'
      /\ verdict' \in [Workers -> Verdicts]
      /\ h \in Handlers /\ h.lease \in 1..issued
  BY DEF HandlerReturns, HandlerThrows, Bookkeeping, TypeOK, Verdicts, HandlersAgree
<1>2. /\ mode' \in [Workers -> Modes]
      /\ \A w \in Workers :
           \/ mode'[w] = mode[w]
           \/ mode[w] = "executing" /\ mode'[w] = "failing"
           \/ mode[w] = "executing" /\ mode'[w] = "completing" /\ Runs(w, h) /\ HandlerReturns(h)
  BY DEF HandlerReturns, HandlerThrows, Bookkeeping, TypeOK, Modes, Runs
<1>3. TypeOK'
  <2>1. returned' \subseteq [job : Jobs, lease : 1..issued]
    BY <1>1 DEF HandlerReturns, HandlerThrows, Bookkeeping, TypeOK, Handlers
  <2>. QED BY <1>1, <1>2, <2>1 DEF Bookkeeping, TypeOK, LifeTypeOK, lifeVars
<1>4. BusyUnderLease' /\ LeasesDiffer' /\ HandlersAgree'
  BY <1>1, <1>2 DEF Bookkeeping, TypeOK, BusyUnderLease, LeasesDiffer, HandlersAgree, lifeVars
<1>5. CompletingReturned'
  BY <1>1, <1>2 DEF Bookkeeping, CompletingReturned, HandlersAgree, HandlerReturns, Runs, TypeOK
<1>. QED BY <1>3, <1>4, <1>5 DEF Bookkeeping

(* The other steps of a worker.                                            *)
LEMMA WorkerKeeps ==
    ASSUME Bookkeeping, LifeTypeOK', issued <= issued', NEW w \in Workers, WorkerStep(w)
    PROVE  Bookkeeping'
<1>. USE WorkerAssumption DEF WorkerAssumption
<1>0. issued \in Nat /\ issued' \in Nat
  BY DEF Bookkeeping, TypeOK, LifeTypeOK
<1>1. CASE Poll(w) \/ NothingDue(w) \/ HandlerTimeout(w) \/ CompleteErrs(w) \/ Stop(w) \/ Restart(w)
  <2>1. /\ UNCHANGED <<known, current, handlers, returned, delayed>>
        /\ mode' \in [Workers -> Modes] /\ verdict' \in [Workers -> Verdicts]
        /\ stopping' \in SUBSET Workers /\ crashes' \in 0..MaxCrashes /\ outages' \in 0..MaxOutages
    BY <1>1 DEF Poll, NothingDue, HandlerTimeout, CompleteErrs, Stop, Restart, Bookkeeping, TypeOK,
       Modes, Verdicts
  <2>2. \A v \in Workers :
           /\ mode'[v] \in {"executing", "completing", "failing"}
                <=> mode[v] \in {"executing", "completing", "failing"}
           /\ mode'[v] = "completing" => mode[v] = "completing"
    BY <1>1 DEF Poll, NothingDue, HandlerTimeout, CompleteErrs, Stop, Restart, Bookkeeping, TypeOK,
       Modes
  <2>3. TypeOK'
    BY <1>0, <2>1 DEF Bookkeeping, TypeOK
  <2>4. BusyUnderLease' /\ LeasesDiffer' /\ HandlersAgree' /\ CompletingReturned'
    BY <1>0, <2>1, <2>2 DEF Bookkeeping, BusyUnderLease, LeasesDiffer, HandlersAgree,
       CompletingReturned
  <2>. QED BY <2>3, <2>4 DEF Bookkeeping
<1>2. ASSUME NEW j \in Jobs, Take(w, j) PROVE Bookkeeping'
  BY <1>2, TakeKeeps
<1>3. CASE HeartbeatFails(w) \/ Complete(w) \/ Fail(w) \/ PollErrs(w) \/ FailErrs(w)
             \/ Crash(w) \/ Exit(w)
  <2>1. /\ Leave(w) \/ Die(w)
        /\ UNCHANGED <<known, returned>> /\ handlers' \subseteq handlers
        /\ crashes' \in 0..MaxCrashes /\ outages' \in 0..MaxOutages
    BY <1>3 DEF HeartbeatFails, Complete, Fail, PollErrs, FailErrs, Crash, Exit, Bookkeeping, TypeOK
  <2>2. stopping' \in SUBSET Workers
    BY <1>3 DEF HeartbeatFails, Complete, Fail, PollErrs, FailErrs, Crash, Exit, Leave, Die,
       Bookkeeping, TypeOK
  <2>3. delayed' \in SUBSET Jobs
    <3>1. CASE Fail(w) \/ FailErrs(w)
      <4>1. current[w].job \in Jobs
        BY <3>1 DEF Fail, FailErrs, Bookkeeping, BusyUnderLease
      <4>2. delayed' \in {delayed, delayed \cup {current[w].job}}
        BY <3>1 DEF Fail, FailErrs, ApplyFailure
      <4>. QED BY <4>1, <4>2 DEF Bookkeeping, TypeOK
    <3>. QED
      BY <1>3, <3>1 DEF HeartbeatFails, Complete, PollErrs, Crash, Exit, Bookkeeping, TypeOK
  <2>. QED BY <2>1, <2>2, <2>3, LettingGo
<1>. QED BY <1>1, <1>2, <1>3 DEF WorkerStep

LEMMA BookkeepingStep == ASSUME WorkerIInv, [Next]_vars PROVE Bookkeeping'
<1>1. Bookkeeping
  BY DEF WorkerIInv, Bookkeeping
<1>2. /\ LifeTypeOK' /\ issued <= issued' /\ issued \in Nat /\ issued' \in Nat
  BY WorkersUseQueue, LifeKeeps DEF WorkerIInv, TypeOK, LifeTypeOK
<1>3. CASE SubmitJob \/ CancelJob \/ (\E j \in Jobs : Ripen(j) \/ LapseOf(j)) \/ UNCHANGED vars
  <2>1. /\ UNCHANGED <<known, mode, current, verdict, handlers, returned, stopping, crashes, outages>>
        /\ delayed' \subseteq delayed
    BY <1>3 DEF SubmitJob, CancelJob, Ripen, LapseOf, workerVars, vars
  <2>. QED
    BY <1>1, <1>2, <2>1 DEF Bookkeeping, TypeOK, BusyUnderLease, LeasesDiffer, HandlersAgree,
       CompletingReturned
<1>4. ASSUME NEW h \in handlers, NEW v \in Verdicts, HandlerReturns(h) \/ HandlerThrows(h, v)
      PROVE  Bookkeeping'
  BY <1>1, <1>4, HandlerEnds
<1>5. ASSUME NEW w \in Workers, WorkerStep(w) PROVE Bookkeeping'
  BY <1>1, <1>2, <1>5, WorkerKeeps
<1>6. Verdicts # {}
  BY DEF Verdicts
<1>. QED BY <1>3, <1>4, <1>5, <1>6 DEF Next

-----------------------------------------------------------------------------
(* A success is earned: only `complete` makes one, after a result.         *)
LEMMA EarnedStep == ASSUME WorkerIInv, [Next]_vars PROVE SuccessIsEarned'
<1>1. /\ phase \in [Jobs -> Phases] /\ LifeTypeOK' /\ returned \subseteq returned'
  <2>1. returned \subseteq returned'
    BY DEF Next, SubmitJob, CancelJob, Ripen, LapseOf, workerVars, vars, HandlerReturns, HandlerThrows,
       WorkerStep, Poll, NothingDue, Take, HandlerTimeout, HeartbeatFails, Complete, Fail,
       CompleteErrs, PollErrs, FailErrs, Crash, Stop, Exit, Restart
  <2>. QED BY <2>1, WorkersUseQueue, LifeKeeps DEF WorkerIInv, TypeOK, LifeTypeOK
<1>2. ASSUME NEW j \in Jobs, phase'[j] = "succeeded", phase[j] # "succeeded"
      PROVE  \E r \in returned : r.job = j
  <2>1. PICK w \in Workers : /\ mode[w] = "completing"
                             /\ Succeed(current[w].job, current[w].lease)
    <3>1. CASE SubmitJob \/ CancelJob \/ (\E k \in Jobs : Ripen(k) \/ LapseOf(k)) \/ UNCHANGED vars
      BY <1>1, <1>2, <3>1 DEF SubmitJob, CancelJob, Ripen, LapseOf, Submit, Cancel, LeaveFor, Lapse, vars
    <3>2. CASE \E h \in handlers : HandlerReturns(h) \/ \E v \in Verdicts : HandlerThrows(h, v)
      BY <1>2, <3>2 DEF HandlerReturns, HandlerThrows, lifeVars
    <3>3. ASSUME NEW w \in Workers, WorkerStep(w), ~Complete(w), ~CompleteErrs(w)
          PROVE  FALSE
      <4>1. CASE Poll(w)
        BY <1>1, <1>2, <4>1 DEF Poll, Reclaim, lifeVars
      <4>2. CASE (\E k \in Jobs : Take(w, k)) \/ PollErrs(w)
        BY <1>1, <1>2, <4>2 DEF Take, PollErrs, Due, Grant, lifeVars
      <4>3. CASE Fail(w) \/ FailErrs(w)
        BY <1>1, <1>2, <4>3 DEF Fail, FailErrs, ApplyFailure, Retry, GiveUp, LeaveFor, lifeVars
      <4>. QED
        BY <1>2, <3>3, <4>1, <4>2, <4>3 DEF WorkerStep, NothingDue, HandlerTimeout, HeartbeatFails,
           Crash, Stop, Exit, Restart, lifeVars
    <3>4. ASSUME NEW w \in Workers, Complete(w) \/ CompleteErrs(w)
          PROVE  mode[w] = "completing" /\ Succeed(current[w].job, current[w].lease)
      BY <1>2, <3>4 DEF Complete, CompleteErrs, lifeVars
    <3>. QED BY <3>1, <3>2, <3>3, <3>4 DEF Next
  <2>2. current[w].job = j
    BY <1>1, <1>2, <2>1 DEF Succeed, LeaveFor
  <2>. QED BY <2>1, <2>2 DEF WorkerIInv, CompletingReturned
<1>3. ASSUME NEW j \in Jobs, phase'[j] = "succeeded", phase[j] = "succeeded"
      PROVE  \E r \in returned : r.job = j
  BY <1>3 DEF WorkerIInv, SuccessIsEarned
<1>. QED BY <1>1, <1>2, <1>3 DEF SuccessIsEarned

-----------------------------------------------------------------------------
(* The leases under which a handler was ever invoked for job j.            *)
LeasesOf(j) == {h.lease : h \in {x \in handlers \cup returned : x.job = j}}

LEMMA LeasesFinite == ASSUME WorkerIInv, NEW j \in Jobs PROVE IsFiniteSet(LeasesOf(j))
<1>1. issued \in Nat /\ LeasesOf(j) \in SUBSET (1..issued)
  BY DEF WorkerIInv, TypeOK, LifeTypeOK, HandlersAgree, LeasesOf
<1>2. IsFiniteSet(1..issued)
  BY <1>1, FS_Interval
<1>. QED BY <1>1, <1>2, FS_Subset

(* Only leasing a job invokes its handler, once, and counts an attempt.    *)
LEMMA InvocationsStep == ASSUME WorkerIInv, [Next]_vars PROVE InvocationsBounded'
<1>0. /\ LifeTypeOK /\ LifeTypeOK'
      /\ \A j \in Jobs : attempts[j] <= attempts'[j]
  BY WorkersUseQueue, LifeKeeps DEF WorkerIInv, TypeOK
<1>1. \A j \in Jobs : Cardinality(LeasesOf(j)) \in Nat /\ Cardinality(LeasesOf(j)) <= attempts[j]
  BY LeasesFinite, FS_CardinalityType DEF WorkerIInv, InvocationsBounded, LeasesOf
<1>2. SUFFICES ASSUME NEW j \in Jobs PROVE Cardinality(LeasesOf(j)') <= attempts'[j]
  BY DEF InvocationsBounded, LeasesOf
<1>3. CASE LeasesOf(j)' \subseteq LeasesOf(j)
  <2>1. Cardinality(LeasesOf(j)') <= Cardinality(LeasesOf(j)) /\ Cardinality(LeasesOf(j)') \in Nat
    BY <1>3, LeasesFinite, FS_Subset, FS_CardinalityType
  <2>. QED BY <1>0, <1>1, <2>1 DEF LifeTypeOK
<1>4. ASSUME NEW w \in Workers, Take(w, j) PROVE Cardinality(LeasesOf(j)') <= attempts'[j]
  <2>1. /\ attempts'[j] = attempts[j] + 1 /\ attempts[j] \in Nat
        /\ LeasesOf(j)' \in SUBSET (LeasesOf(j) \cup {issued + 1})
    BY <1>0, <1>4 DEF Take, Grant, LeasesOf, LifeTypeOK
  <2>2. /\ IsFiniteSet(LeasesOf(j) \cup {issued + 1})
        /\ Cardinality(LeasesOf(j) \cup {issued + 1}) <= Cardinality(LeasesOf(j)) + 1
    <3>1. IsFiniteSet(LeasesOf(j))
      BY LeasesFinite
    <3>2. /\ IsFiniteSet(LeasesOf(j) \cup {issued + 1})
          /\ Cardinality(LeasesOf(j) \cup {issued + 1}) =
                IF issued + 1 \in LeasesOf(j) THEN Cardinality(LeasesOf(j))
                                              ELSE Cardinality(LeasesOf(j)) + 1
      BY <3>1, FS_AddElement
    <3>. QED BY <1>1, <3>2
  <2>3. ASSUME NEW T \in SUBSET (LeasesOf(j) \cup {issued + 1})
        PROVE  IsFiniteSet(T) /\ Cardinality(T) <= Cardinality(LeasesOf(j) \cup {issued + 1})
    BY <2>2, FS_Subset
  <2>4. /\ Cardinality(LeasesOf(j)') \in Nat
        /\ Cardinality(LeasesOf(j) \cup {issued + 1}) \in Nat
    BY <2>1, <2>2, <2>3, FS_CardinalityType
  <2>5. Cardinality(LeasesOf(j)') <= Cardinality(LeasesOf(j) \cup {issued + 1})
    BY <2>1, <2>3
  <2>. QED BY <1>1, <2>1, <2>2, <2>4, <2>5
<1>5. ASSUME ~\E w \in Workers : Take(w, j) PROVE LeasesOf(j)' \subseteq LeasesOf(j)
  <2>1. CASE SubmitJob \/ CancelJob \/ (\E k \in Jobs : Ripen(k) \/ LapseOf(k)) \/ UNCHANGED vars
    BY <2>1 DEF SubmitJob, CancelJob, Ripen, LapseOf, workerVars, vars, LeasesOf
  <2>2. ASSUME NEW h \in handlers, HandlerReturns(h) \/ \E v \in Verdicts : HandlerThrows(h, v)
        PROVE  LeasesOf(j)' \subseteq LeasesOf(j)
    <3>1. /\ handlers' \subseteq handlers
          /\ returned' \subseteq returned \cup {[job |-> h.job, lease |-> h.lease]}
      BY <2>2 DEF HandlerReturns, HandlerThrows
    <3>2. ASSUME NEW x \in handlers' \cup returned', x.job = j PROVE x.lease \in LeasesOf(j)
      BY <3>1, <3>2 DEF LeasesOf
    <3>. QED BY <3>2 DEF LeasesOf
  <2>3. ASSUME NEW w \in Workers, NEW k \in Jobs, k # j, Take(w, k)
        PROVE  LeasesOf(j)' \subseteq LeasesOf(j)
    BY <2>3 DEF Take, LeasesOf
  <2>4. ASSUME NEW w \in Workers, WorkerStep(w), ~\E k \in Jobs : Take(w, k)
        PROVE  handlers' \subseteq handlers /\ returned' = returned
    BY <2>4 DEF WorkerStep, Poll, NothingDue, HandlerTimeout, HeartbeatFails, Complete, Fail,
       CompleteErrs, PollErrs, FailErrs, Crash, Stop, Exit, Restart
  <2>5. handlers' \subseteq handlers /\ returned' = returned => LeasesOf(j)' \subseteq LeasesOf(j)
    BY DEF LeasesOf
  <2>. QED BY <1>5, <2>1, <2>2, <2>3, <2>4, <2>5 DEF Next
<1>. QED BY <1>3, <1>4, <1>5

-----------------------------------------------------------------------------
LEMMA InitIInv == Init => WorkerIInv
<1>1. SUFFICES ASSUME Init PROVE WorkerIInv
  OBVIOUS
<1>2. TypeOK
  BY <1>1, WorkerAssumption, MaxAttemptsAssumption
     DEF WorkerAssumption, MaxAttemptsAssumption, Init, LifeInit, TypeOK, LifeTypeOK, Phases,
     Executions, Idle, Handlers, Modes, Verdicts
<1>3. BusyUnderLease /\ LeasesDiffer /\ HandlersAgree /\ CompletingReturned /\ SuccessIsEarned
  BY <1>1 DEF Init, LifeInit, BusyUnderLease, LeasesDiffer, HandlersAgree, CompletingReturned,
     SuccessIsEarned
<1>4. InvocationsBounded
  <2>1. \A j \in Jobs : LeasesOf(j) = {} /\ attempts[j] = 0
    BY <1>1 DEF Init, LifeInit, LeasesOf
  <2>2. Cardinality({}) <= 0
    BY FS_EmptySet
  <2>3. \A j \in Jobs : Cardinality(LeasesOf(j)) <= attempts[j]
    BY <2>1, <2>2
  <2>. QED BY <2>3 DEF InvocationsBounded, LeasesOf
<1>. QED BY <1>2, <1>3, <1>4 DEF WorkerIInv

LEMMA StepIInv == WorkerIInv /\ [Next]_vars => WorkerIInv'
BY BookkeepingStep, EarnedStep, InvocationsStep DEF Bookkeeping, WorkerIInv

LEMMA IInvImplies == WorkerIInv => WorkerInv
<1>1. SUFFICES ASSUME WorkerIInv PROVE OneHolder
  BY DEF WorkerIInv, WorkerInv
<1>2. ASSUME NEW w \in Workers, NEW v \in Workers, current[w].job = current[v].job,
             current[w] # Idle, Holds(w), Holds(v)
      PROVE  w = v
  BY <1>1, <1>2 DEF WorkerIInv, LeasesDiffer, Holds, HoldsLive
<1>. QED BY <1>1, <1>2 DEF WorkerIInv, BusyUnderLease, OneHolder

(* Types; the handler of a job is invoked at most once per attempt; one    *)
(* worker per live lease; and no success without a result: in every state, *)
(* for all workers, jobs, crashes and failed Redis commands.               *)
THEOREM WorkersAreSafe == Spec => []WorkerInv
BY InitIInv, StepIInv, IInvImplies, PTL DEF Spec

(* No step of a worker, late, crashed or cut off from Redis, changes the   *)
(* outcome of a job.                                                       *)
THEOREM OutcomesAreFinal == Spec => OutcomeIsFinal
<1>1. WorkerIInv /\ [Next]_vars => [\A j \in Jobs : phase[j] \in Final => phase'[j] = phase[j]]_vars
  BY WorkersUseQueue, LifeKeeps DEF WorkerIInv, TypeOK
<1>. QED BY <1>1, InitIInv, StepIInv, PTL DEF Spec, OutcomeIsFinal

(* The workers implement the queue's promise to its clients: every step of *)
(* theirs is one JobLifecycle allows.                                      *)
THEOREM WorkersImplementLifecycle == Spec => LifeSpec
<1>1. Init => LifeInit
  BY DEF Init
<1>. QED BY <1>1, WorkersUseQueue, InitIInv, StepIInv, PTL DEF Spec, LifeSpec

-----------------------------------------------------------------------------
(* What a page is about to save was built from the draft it shows, and     *)
(* fulfils by itself what is asked of a row.                               *)
BuiltRows ==
    \A p \in Pages : \A row \in page[p].next :
        /\ page[p].form # "none" /\ row.revision = page[p].revision + 1
        /\ page[p].form = "general" => row \in GeneralRows /\ GeneralAllowed(row)
        /\ page[p].form = "oauth" =>
              /\ row \in OAuthRows
              /\ row.secret \subseteq {Identity(row)}
              /\ row.enabled => Sufficient(row)

(* A revision is the number of its row, for the second row until a second  *)
(* INSERT, and so it is with the drafts.                                   *)
RevisionsCount ==
    /\ general.revision = general.version
    /\ \A p \in Pages : page[p].form = "general" =>
          page[p].revision = page[p].version /\ page[p].version <= general.version
    /\ oauth.inserts < oauth.version
    /\ oauth.inserts = 0 => oauth.version = 1
    /\ \A p \in Pages : page[p].form = "oauth" => page[p].version <= oauth.version
    /\ oauth.inserts <= 1 =>
          /\ oauth.revision = oauth.version
          /\ \A p \in Pages : page[p].form = "oauth" => page[p].revision = page[p].version

(* Only a page of the second row comes to an INSERT, from a draft of the   *)
(* row that was not there.                                                 *)
FormsAgree ==
    \A p \in Pages : /\ page[p].form = "none" => page[p].at = "closed"
                     /\ page[p].at = "insert" => page[p].form = "oauth"

SettingsIInv ==
    SettingsTypeOK /\ SecretBound /\ RegistrationWorks /\ BuiltRows /\ RevisionsCount /\ FormsAgree

LEMMA SettingsIInvImplies == SettingsIInv => SettingsInv
  BY DEF SettingsIInv, SettingsInv, RevisionsCount, DraftsAreCurrent

LEMMA SettingsInitInv == SettingsInit => SettingsIInv
<1>. SUFFICES ASSUME SettingsInit PROVE SettingsIInv
  OBVIOUS
<1>. USE SettingsAssumption DEF SettingsAssumption, SettingsInit
<1>1. general \in GeneralRows /\ RegistrationWorks
  <2>1. PICK site \in Sites :
           general = [site |-> site, login |-> TRUE, registration |-> FALSE, mail |-> FALSE,
                      revision |-> 1, version |-> 1]
    OBVIOUS
  <2>2. 1 \in 1..1 + MaxSaves
    OBVIOUS
  <2>3. general \in GeneralRows
    BY ONLY <2>1, <2>2 DEF GeneralRows
  <2>. QED BY <2>1, <2>3 DEF RegistrationWorks, GeneralAllowed
<1>2. oauth \in OAuthRows
  BY DEF OAuthRows, Redirects
<1>3. NoDraft \in PageRows
  BY DEF NoDraft, PageRows
<1>4. SettingsTypeOK
  BY <1>1, <1>2, <1>3 DEF SettingsTypeOK
<1>5. SecretBound
  BY DEF SecretBound
<1>6. BuiltRows /\ FormsAgree
  BY DEF BuiltRows, FormsAgree, NoDraft
<1>7. RevisionsCount
  BY DEF RevisionsCount, NoDraft
<1>. QED BY <1>1, <1>4, <1>5, <1>6, <1>7 DEF SettingsIInv

-----------------------------------------------------------------------------
(* A step that changes one page and neither row.                           *)
LEMMA PageStep ==
  ASSUME SettingsIInv, NEW p \in Pages, NEW d, page' = [page EXCEPT ![p] = d],
         UNCHANGED <<general, oauth>>, d \in PageRows,
         d.form # "none", d.at = "insert" => d.form = "oauth",
         \A row \in d.next :
            /\ row.revision = d.revision + 1
            /\ d.form = "general" => row \in GeneralRows /\ GeneralAllowed(row)
            /\ d.form = "oauth" => /\ row \in OAuthRows
                                   /\ row.secret \subseteq {Identity(row)}
                                   /\ row.enabled => Sufficient(row),
         d.form = "general" => d.revision = d.version /\ d.version <= general.version,
         d.form = "oauth" => /\ d.version <= oauth.version
                             /\ oauth.inserts <= 1 => d.revision = d.version
  PROVE  SettingsIInv'
<1>1. general' = general /\ oauth' = oauth /\ page \in [Pages -> PageRows]
  BY DEF SettingsIInv, SettingsTypeOK
<1>2. page'[p] = d /\ \A q \in Pages : q # p => page'[q] = page[q]
  BY <1>1
<1>3. SettingsTypeOK'
  BY <1>1 DEF SettingsIInv, SettingsTypeOK
<1>4. SecretBound' /\ RegistrationWorks'
  BY <1>1 DEF SettingsIInv, SecretBound, RegistrationWorks, Sufficient, Identity, GeneralAllowed
<1>5. BuiltRows'
  <2>1. SUFFICES ASSUME NEW q \in Pages, NEW row \in page'[q].next
                 PROVE  /\ page'[q].form # "none" /\ row.revision = page'[q].revision + 1
                        /\ page'[q].form = "general" => row \in GeneralRows /\ GeneralAllowed(row)
                        /\ page'[q].form = "oauth" =>
                              /\ row \in OAuthRows
                              /\ row.secret \subseteq {Identity(row)}
                              /\ row.enabled => Sufficient(row)
    BY DEF BuiltRows
  <2>2. CASE q = p
    BY <1>2, <2>2
  <2>3. CASE q # p
    BY <1>2, <2>3 DEF SettingsIInv, BuiltRows
  <2>. QED BY <2>2, <2>3
<1>6. RevisionsCount'
  BY <1>1, <1>2 DEF SettingsIInv, RevisionsCount
<1>7. FormsAgree'
  BY <1>1, <1>2 DEF SettingsIInv, FormsAgree
<1>. QED BY <1>3, <1>4, <1>5, <1>6, <1>7 DEF SettingsIInv

(* A draft made from a row is in step with it.                             *)
LEMMA DraftStep ==
  ASSUME SettingsIInv, NEW form \in {"general", "oauth"}
  PROVE  /\ Draft(form, Row(form)) \in PageRows
         /\ Draft(form, Row(form)).form = form
         /\ Draft(form, Row(form)).at = "open"
         /\ Draft(form, Row(form)).next = {}
         /\ Draft(form, Row(form)).revision = Row(form).revision
         /\ Draft(form, Row(form)).version = Row(form).version
<1>1. Row(form).revision \in 1..1 + MaxSaves /\ Row(form).version \in 1..1 + MaxSaves
  BY DEF SettingsIInv, SettingsTypeOK, GeneralRows, OAuthRows, Row
<1>. QED BY <1>1 DEF Draft, PageRows

LEMMA OpenFormInv ==
  ASSUME SettingsIInv, NEW p \in Pages, NEW form \in {"general", "oauth"}, OpenForm(p, form)
  PROVE  SettingsIInv'
<1>. DEFINE d == Draft(form, Row(form))
<1>1. page' = [page EXCEPT ![p] = d] /\ UNCHANGED <<general, oauth>>
  BY DEF OpenForm
<1>2. /\ d \in PageRows /\ d.form = form /\ d.at = "open" /\ d.next = {}
      /\ d.revision = Row(form).revision /\ d.version = Row(form).version
  BY DraftStep
<1>. HIDE DEF d
<1>3. d.form = "general" => d.revision = d.version /\ d.version <= general.version
  BY <1>2 DEF SettingsIInv, SettingsTypeOK, GeneralRows, RevisionsCount, Row
<1>4. d.form = "oauth" => /\ d.version <= oauth.version
                          /\ oauth.inserts <= 1 => d.revision = d.version
  BY <1>2 DEF SettingsIInv, SettingsTypeOK, OAuthRows, RevisionsCount, Row
<1>. QED BY <1>1, <1>2, <1>3, <1>4, PageStep

(* The page keeps form and revisions and comes to another point, with what *)
(* it was about to save or without.                                        *)
LEMMA MovePage ==
  ASSUME SettingsIInv, NEW p \in Pages, UNCHANGED <<general, oauth>>,
         NEW at \in {"open", "judged", "insert"}, NEW next,
         page' = [page EXCEPT ![p].at = at, ![p].next = next],
         next \subseteq page[p].next, page[p].form # "none",
         at = "insert" => page[p].form = "oauth"
  PROVE  SettingsIInv'
<1>. DEFINE d == [page[p] EXCEPT !.at = at, !.next = next]
<1>1. page[p] \in PageRows
  BY DEF SettingsIInv, SettingsTypeOK
<1>2. page' = [page EXCEPT ![p] = d]
  OBVIOUS
<1>3. /\ d.form = page[p].form /\ d.at = at /\ d.revision = page[p].revision
      /\ d.version = page[p].version /\ d.next = next
  BY <1>1 DEF PageRows
<1>4. d \in PageRows
  BY <1>1 DEF PageRows
<1>. HIDE DEF d
<1>5. \A row \in d.next :
            /\ row.revision = d.revision + 1
            /\ d.form = "general" => row \in GeneralRows /\ GeneralAllowed(row)
            /\ d.form = "oauth" => /\ row \in OAuthRows
                                   /\ row.secret \subseteq {Identity(row)}
                                   /\ row.enabled => Sufficient(row)
  BY <1>3 DEF SettingsIInv, BuiltRows
<1>6. /\ d.form = "general" => d.revision = d.version /\ d.version <= general.version
      /\ d.form = "oauth" => /\ d.version <= oauth.version
                             /\ oauth.inserts <= 1 => d.revision = d.version
  BY <1>3 DEF SettingsIInv, RevisionsCount
<1>. QED BY <1>2, <1>3, <1>4, <1>5, <1>6, PageStep

LEMMA RefusalInv ==
  ASSUME SettingsIInv, NEW p \in Pages, UNCHANGED <<general, oauth>>, Refusal(p),
         page[p].form # "none"
  PROVE  SettingsIInv'
<1>1. page' = [page EXCEPT ![p].at = "open", ![p].next = {}]
  BY DEF Refusal
<1>2. PICK at \in {"open", "judged", "insert"} : at = "open"
  OBVIOUS
<1>3. PICK next \in SUBSET page[p].next : next = {}
  OBVIOUS
<1>4. page' = [page EXCEPT ![p].at = at, ![p].next = next]
  BY <1>1, <1>2, <1>3
<1>. QED BY <1>2, <1>4, MovePage

LEMMA JudgedInv ==
  ASSUME SettingsIInv, NEW p \in Pages, UNCHANGED <<general, oauth>>, page[p].form # "none",
         NEW at \in {"judged", "insert"}, page' = [page EXCEPT ![p].at = at],
         at = "insert" => page[p].form = "oauth"
  PROVE  SettingsIInv'
<1>1. page[p] \in PageRows /\ page \in [Pages -> PageRows]
  BY DEF SettingsIInv, SettingsTypeOK
<1>2. [page[p] EXCEPT !.at = at] = [page[p] EXCEPT !.at = at, !.next = page[p].next]
  BY <1>1 DEF PageRows
<1>3. page' = [page EXCEPT ![p].at = at, ![p].next = page[p].next]
  BY <1>1, <1>2
<1>. QED BY <1>3, MovePage

(* A save builds a row of its form with the next revision.                 *)
LEMMA BuildInv ==
  ASSUME SettingsIInv, NEW p \in Pages, NEW row, Build(p, row), page[p].form # "none",
         row.revision = page[p].revision + 1,
         page[p].form = "general" => row \in GeneralRows /\ GeneralAllowed(row),
         page[p].form = "oauth" => /\ row \in OAuthRows
                                   /\ row.secret \subseteq {Identity(row)}
                                   /\ row.enabled => Sufficient(row)
  PROVE  SettingsIInv'
<1>. DEFINE d == [page[p] EXCEPT !.at = "built", !.next = {row}]
<1>1. page[p] \in PageRows
  BY DEF SettingsIInv, SettingsTypeOK
<1>2. page' = [page EXCEPT ![p] = d] /\ UNCHANGED <<general, oauth>>
  BY DEF Build
<1>3. /\ d.form = page[p].form /\ d.at = "built" /\ d.revision = page[p].revision
      /\ d.version = page[p].version /\ d.next = {row}
  BY <1>1 DEF PageRows
<1>4. row \in GeneralRows \cup OAuthRows
  BY <1>1 DEF PageRows
<1>5. d \in PageRows
  BY <1>1, <1>4 DEF PageRows
<1>. HIDE DEF d
<1>6. /\ d.form = "general" => d.revision = d.version /\ d.version <= general.version
      /\ d.form = "oauth" => /\ d.version <= oauth.version
                             /\ oauth.inserts <= 1 => d.revision = d.version
  BY <1>3 DEF SettingsIInv, RevisionsCount
<1>. QED BY <1>2, <1>3, <1>5, <1>6, PageStep

LEMMA SaveGeneralInv ==
  ASSUME SettingsIInv, NEW p \in Pages, SaveGeneral(p) PROVE SettingsIInv'
<1>1. page[p].form = "general" /\ page[p].revision = general.revision
  BY DEF SaveGeneral, PageIs
<1>2. PICK row \in GeneralRows : /\ row.revision = general.revision + 1
                                 /\ GeneralAllowed(row) /\ Build(p, row)
  BY DEF SaveGeneral
<1>. QED BY <1>1, <1>2, BuildInv

(* The secret that stays was entered for what stays with it.               *)
LEMMA NextOAuthRow ==
  ASSUME SettingsIInv, NEW input \in OAuthInputs, ~MustReenter(oauth, input),
         oauth.revision <= MaxSaves
  PROVE  /\ NextOAuth(oauth, input) \in OAuthRows
         /\ NextOAuth(oauth, input).revision = oauth.revision + 1
         /\ NextOAuth(oauth, input).secret \subseteq {Identity(NextOAuth(oauth, input))}
<1>. DEFINE row == NextOAuth(oauth, input)
            id  == NextIdentity(oauth, input)
<1>1. oauth \in OAuthRows
  BY DEF SettingsIInv, SettingsTypeOK
<1>2. NextClient(oauth, input) \in SUBSET ClientIds
  BY <1>1, SettingsAssumption DEF NextClient, OAuthInputs, OAuthRows, SettingsAssumption
<1>3. id \in Identities
  BY <1>2 DEF NextIdentity, Identities, OAuthInputs
<1>4. NextSecret(oauth, input) \in SUBSET Identities
  BY <1>1, <1>3 DEF NextSecret, OAuthRows
<1>5. oauth.revision + 1 \in 1..1 + MaxSaves
  BY <1>1, SettingsAssumption DEF OAuthRows, SettingsAssumption
<1>6. row \in OAuthRows
  BY <1>1, <1>2, <1>4, <1>5 DEF NextOAuth, OAuthRows, OAuthInputs
<1>7. row.revision = oauth.revision + 1 /\ row.secret = NextSecret(oauth, input)
  BY DEF NextOAuth
<1>8. Identity(row) = id
  BY DEF Identity, NextIdentity, NextOAuth
<1>9. NextSecret(oauth, input) \subseteq {id}
  BY <1>1 DEF NextSecret, MustReenter, SettingsIInv, SecretBound
<1>. QED BY <1>6, <1>7, <1>8, <1>9

LEMMA SaveOAuthInv ==
  ASSUME SettingsIInv, NEW p \in Pages, SaveOAuth(p) PROVE SettingsIInv'
<1>1. /\ page[p].form = "oauth" /\ page[p].revision = oauth.revision
      /\ oauth.revision <= MaxSaves
  BY DEF SaveOAuth, PageIs
<1>2. PICK input \in OAuthInputs :
         /\ ~MustReenter(oauth, input)
         /\ NextOAuth(oauth, input).enabled => Sufficient(NextOAuth(oauth, input))
         /\ Build(p, NextOAuth(oauth, input))
  BY DEF SaveOAuth
<1>3. /\ NextOAuth(oauth, input) \in OAuthRows
      /\ NextOAuth(oauth, input).revision = oauth.revision + 1
      /\ NextOAuth(oauth, input).secret \subseteq {Identity(NextOAuth(oauth, input))}
  BY <1>1, <1>2, NextOAuthRow
<1>. QED BY <1>1, <1>2, <1>3, BuildInv

LEMMA JudgeInv ==
  ASSUME SettingsIInv, NEW p \in Pages, JudgeGeneral(p) \/ JudgeOAuth(p) PROVE SettingsIInv'
<1>1. page[p].form # "none" /\ UNCHANGED <<general, oauth>>
  BY DEF JudgeGeneral, JudgeOAuth, PageIs
<1>2. Refusal(p) \/ page' = [page EXCEPT ![p].at = "judged"]
  BY DEF JudgeGeneral, JudgeOAuth
<1>. QED BY <1>1, <1>2, RefusalInv, JudgedInv

LEMMA CompareAbsentInv ==
  ASSUME SettingsIInv, NEW p \in Pages, CompareAbsent(p) PROVE SettingsIInv'
<1>1. /\ page[p].at = "judged" /\ page[p].form # "general" /\ UNCHANGED <<general, oauth>>
      /\ page' = [page EXCEPT ![p].at = "insert"]
  BY DEF CompareAbsent, Locked
<1>2. page[p].form = "oauth"
  BY <1>1 DEF SettingsIInv, SettingsTypeOK, PageRows, FormsAgree
<1>. QED BY <1>1, <1>2, JudgedInv

-----------------------------------------------------------------------------
(* A row is written: the page shows it, or keeps its draft.                *)
LEMMA StoredPage ==
  ASSUME SettingsIInv, NEW p \in Pages, page[p].form \in {"general", "oauth"}, NEW row,
         row.revision \in 1..1 + MaxSaves, row.version \in 1..1 + MaxSaves,
         page' = [page EXCEPT ![p] = Draft(page[p].form, row)] \/ Refusal(p)
  PROVE  /\ page' \in [Pages -> PageRows]
         /\ \A q \in Pages : q # p => page'[q] = page[q]
         /\ page'[p].form = page[p].form /\ page'[p].at = "open" /\ page'[p].next = {}
         /\ \/ page'[p].revision = row.revision /\ page'[p].version = row.version
            \/ page'[p].revision = page[p].revision /\ page'[p].version = page[p].version
<1>1. page \in [Pages -> PageRows] /\ page[p] \in PageRows
  BY DEF SettingsIInv, SettingsTypeOK
<1>2. CASE page' = [page EXCEPT ![p] = Draft(page[p].form, row)]
  <2>1. Draft(page[p].form, row) \in PageRows
    BY DEF Draft, PageRows
  <2>. QED BY <1>1, <1>2, <2>1 DEF Draft
<1>3. CASE Refusal(p)
  <2>. DEFINE d == [page[p] EXCEPT !.at = "open", !.next = {}]
  <2>1. page' = [page EXCEPT ![p] = d]
    BY <1>3 DEF Refusal
  <2>2. /\ d \in PageRows /\ d.form = page[p].form /\ d.at = "open" /\ d.next = {}
        /\ d.revision = page[p].revision /\ d.version = page[p].version
    BY <1>1 DEF PageRows
  <2>. HIDE DEF d
  <2>. QED BY <1>1, <2>1, <2>2
<1>. QED BY <1>2, <1>3

(* What the written row leaves of the invariant to the numbers.            *)
LEMMA StoredParts ==
  ASSUME SettingsIInv, NEW p \in Pages, page[p].form \in {"general", "oauth"},
         general' \in GeneralRows, GeneralAllowed(general'), oauth' \in OAuthRows,
         oauth'.secret \subseteq {Identity(oauth')}, oauth'.enabled => Sufficient(oauth'),
         page' \in [Pages -> PageRows],
         \A q \in Pages : q # p => page'[q] = page[q],
         page'[p].form = page[p].form, page'[p].at = "open", page'[p].next = {},
         RevisionsCount'
  PROVE  SettingsIInv'
<1>1. SettingsTypeOK' /\ SecretBound' /\ RegistrationWorks'
  BY DEF SettingsTypeOK, SecretBound, RegistrationWorks, Sufficient, Identity, GeneralAllowed
<1>2. BuiltRows'
  <2>1. SUFFICES ASSUME NEW q \in Pages, NEW row \in page'[q].next
                 PROVE  /\ page'[q].form # "none" /\ row.revision = page'[q].revision + 1
                        /\ page'[q].form = "general" => row \in GeneralRows /\ GeneralAllowed(row)
                        /\ page'[q].form = "oauth" =>
                              /\ row \in OAuthRows
                              /\ row.secret \subseteq {Identity(row)}
                              /\ row.enabled => Sufficient(row)
    BY DEF BuiltRows
  <2>2. q # p
    BY <2>1
  <2>. QED BY <2>1, <2>2 DEF SettingsIInv, BuiltRows
<1>3. FormsAgree'
  BY DEF SettingsIInv, FormsAgree
<1>. QED BY <1>1, <1>2, <1>3 DEF SettingsIInv

LEMMA StoreGeneralInv ==
  ASSUME SettingsIInv, NEW p \in Pages, page[p].form = "general", NEW row \in page[p].next,
         UnchangedSince(p), Store(p, Numbered(p, row))
  PROVE  SettingsIInv'
<1>. DEFINE new == [row EXCEPT !.version = general.version + 1]
<1>1. /\ row \in GeneralRows /\ GeneralAllowed(row)
      /\ row.revision = page[p].revision + 1 /\ page[p].revision = general.revision
  BY DEF SettingsIInv, BuiltRows, UnchangedSince, Row
<1>2. /\ Written < MaxSaves /\ general' = new /\ oauth' = oauth
      /\ page' = [page EXCEPT ![p] = Draft(page[p].form, new)] \/ Refusal(p)
  BY DEF Store, Numbered
<1>3. general \in GeneralRows /\ oauth \in OAuthRows
  BY DEF SettingsIInv, SettingsTypeOK
<1>4. general.version + 1 \in 1..1 + MaxSaves
  <2>1. general.version \in Nat /\ oauth.version \in Nat /\ oauth.version >= 1
        /\ general.version >= 1
    BY <1>3, SettingsAssumption DEF GeneralRows, OAuthRows, SettingsAssumption
  <2>. QED BY <1>2, <2>1, SettingsAssumption DEF Written, SettingsAssumption
<1>5. /\ new \in GeneralRows /\ new.revision = general.revision + 1
      /\ new.version = general.version + 1 /\ GeneralAllowed(new)
  BY <1>1, <1>4 DEF GeneralRows, GeneralAllowed
<1>. HIDE DEF new
<1>6. new.revision \in 1..1 + MaxSaves /\ new.version \in 1..1 + MaxSaves
  BY <1>5 DEF GeneralRows
<1>7. /\ page' \in [Pages -> PageRows]
      /\ \A q \in Pages : q # p => page'[q] = page[q]
      /\ page'[p].form = page[p].form /\ page'[p].at = "open" /\ page'[p].next = {}
      /\ \/ page'[p].revision = new.revision /\ page'[p].version = new.version
         \/ page'[p].revision = page[p].revision /\ page'[p].version = page[p].version
  BY <1>2, <1>6, StoredPage
<1>8. RevisionsCount'
  <2>1. /\ \A q \in Pages : page[q].revision \in Int /\ page[q].version \in Int
        /\ general.revision \in Int /\ general.version \in Int
    BY <1>3, SettingsAssumption
       DEF SettingsIInv, SettingsTypeOK, PageRows, GeneralRows, SettingsAssumption
  <2>2. \A q \in Pages : page'[q].form = "general" =>
           page'[q].revision = page'[q].version /\ page'[q].version <= general'.version
    BY <1>2, <1>5, <1>7, <2>1 DEF SettingsIInv, RevisionsCount
  <2>. QED BY <1>2, <1>5, <1>7, <2>2 DEF SettingsIInv, RevisionsCount
<1>9. /\ oauth.secret \subseteq {Identity(oauth)}
      /\ oauth.enabled => Sufficient(oauth)
  BY DEF SettingsIInv, SecretBound
<1>. QED BY <1>2, <1>3, <1>5, <1>7, <1>8, <1>9, StoredParts

LEMMA StoreOAuthInv ==
  ASSUME SettingsIInv, NEW p \in Pages, page[p].form = "oauth", NEW row \in page[p].next,
         Stored /\ page[p].at # "insert" => UnchangedSince(p),
         ~Stored => page[p].at = "insert", Store(p, Numbered(p, row))
  PROVE  SettingsIInv'
<1>. DEFINE count == oauth.inserts + IF page[p].at = "insert" THEN 1 ELSE 0
            new   == [row EXCEPT !.version = oauth.version + 1, !.inserts = count]
<1>1. /\ row \in OAuthRows /\ row.secret \subseteq {Identity(row)}
      /\ row.enabled => Sufficient(row)
      /\ row.revision = page[p].revision + 1
  BY DEF SettingsIInv, BuiltRows
<1>2. /\ Written < MaxSaves /\ general' = general /\ oauth' = new
      /\ page' = [page EXCEPT ![p] = Draft(page[p].form, new)] \/ Refusal(p)
  BY DEF Store, Numbered
<1>3. general \in GeneralRows /\ oauth \in OAuthRows
  BY DEF SettingsIInv, SettingsTypeOK
<1>4. /\ general.version \in Nat /\ oauth.version \in Nat /\ oauth.version >= 1
      /\ general.version >= 1 /\ oauth.inserts \in Nat /\ oauth.revision \in Nat
  BY <1>3, SettingsAssumption DEF GeneralRows, OAuthRows, SettingsAssumption
<1>5. oauth.version + 1 \in 1..1 + MaxSaves
  BY <1>2, <1>4, SettingsAssumption DEF Written, SettingsAssumption
<1>6. count \in 0..MaxSaves /\ count < oauth.version + 1 /\ count \in Nat
      /\ count >= oauth.inserts
  BY <1>4, <1>5, SettingsAssumption DEF SettingsIInv, RevisionsCount, SettingsAssumption
<1>7. count # 0 /\ (count <= 1 /\ Stored => page[p].at # "insert")
  BY <1>4 DEF Stored
<1>. HIDE DEF count
<1>8. /\ new \in OAuthRows /\ new.revision = page[p].revision + 1
      /\ new.version = oauth.version + 1 /\ new.inserts = count
      /\ Identity(new) = Identity(row) /\ new.secret = row.secret
      /\ new.enabled = row.enabled /\ Sufficient(new) = Sufficient(row)
  BY <1>1, <1>5, <1>6 DEF OAuthRows, Identity, Sufficient
<1>. HIDE DEF new
<1>9. new.revision \in 1..1 + MaxSaves /\ new.version \in 1..1 + MaxSaves
  BY <1>8 DEF OAuthRows
<1>10. /\ page' \in [Pages -> PageRows]
       /\ \A q \in Pages : q # p => page'[q] = page[q]
       /\ page'[p].form = page[p].form /\ page'[p].at = "open" /\ page'[p].next = {}
       /\ \/ page'[p].revision = new.revision /\ page'[p].version = new.version
          \/ page'[p].revision = page[p].revision /\ page'[p].version = page[p].version
  BY <1>2, <1>9, StoredPage
<1>11. /\ \A q \in Pages : page[q].revision \in Nat /\ page[q].version \in Nat
       /\ page[p].revision >= 1
  BY SettingsAssumption DEF SettingsIInv, SettingsTypeOK, PageRows, SettingsAssumption
<1>12. page[p].version <= oauth.version
  BY DEF SettingsIInv, RevisionsCount
<1>13. count <= 1 => new.revision = new.version /\ oauth.inserts <= 1
  <2>. SUFFICES ASSUME count <= 1 PROVE new.revision = new.version /\ oauth.inserts <= 1
    OBVIOUS
  <2>1. oauth.inserts <= 1
    BY <1>4, <1>6
  <2>2. oauth.revision = oauth.version /\ page[p].revision = page[p].version
    BY <2>1 DEF SettingsIInv, RevisionsCount
  <2>3. CASE Stored
    <3>1. page[p].revision = oauth.revision
      BY <1>7, <2>3 DEF UnchangedSince, Row
    <3>. QED BY <1>8, <2>1, <2>2, <3>1
  <2>4. CASE ~Stored
    <3>1. oauth.version = 1
      BY <1>4, <2>4 DEF SettingsIInv, RevisionsCount, Stored
    <3>2. page[p].revision = 1
      BY <1>11, <1>12, <2>2, <3>1
    <3>. QED BY <1>8, <2>1, <3>1, <3>2
  <2>. QED BY <2>3, <2>4
<1>14. RevisionsCount'
  <2>1. \A q \in Pages : page'[q].form = "general" =>
           page'[q].revision = page'[q].version /\ page'[q].version <= general.version
    BY <1>10 DEF SettingsIInv, RevisionsCount
  <2>2. \A q \in Pages : page'[q].form = "oauth" => page'[q].version <= oauth'.version
    BY <1>2, <1>4, <1>8, <1>10, <1>11 DEF SettingsIInv, RevisionsCount
  <2>3. count <= 1 => \A q \in Pages : page'[q].form = "oauth" =>
           page'[q].revision = page'[q].version
    BY <1>10, <1>13 DEF SettingsIInv, RevisionsCount
  <2>4. general.revision = general.version
    BY DEF SettingsIInv, RevisionsCount
  <2>. QED BY <1>2, <1>6, <1>7, <1>8, <1>13, <2>1, <2>2, <2>3, <2>4 DEF RevisionsCount
<1>15. GeneralAllowed(general)
  BY DEF SettingsIInv, RegistrationWorks
<1>. QED BY <1>1, <1>2, <1>3, <1>8, <1>10, <1>14, <1>15, StoredParts

LEMMA WriteLockedInv ==
  ASSUME SettingsIInv, NEW p \in Pages, WriteLocked(p) PROVE SettingsIInv'
<1>1. page[p].at = "judged" /\ Locked(p)
  BY DEF WriteLocked
<1>2. page[p].form \in {"general", "oauth"}
  BY <1>1 DEF SettingsIInv, SettingsTypeOK, PageRows, FormsAgree
<1>3. CASE UnchangedSince(p)
  <2>1. PICK row \in page[p].next : Store(p, Numbered(p, row))
    BY <1>3 DEF WriteLocked
  <2>2. CASE page[p].form = "general"
    BY <1>3, <2>1, <2>2, StoreGeneralInv
  <2>3. CASE page[p].form = "oauth"
    <3>1. Stored
      BY <1>1, <2>3 DEF Locked
    <3>. QED BY <1>3, <2>1, <2>3, <3>1, StoreOAuthInv
  <2>. QED BY <1>2, <2>2, <2>3
<1>4. CASE ~UnchangedSince(p)
  BY <1>2, <1>4, RefusalInv DEF WriteLocked
<1>. QED BY <1>3, <1>4

LEMMA InsertInv ==
  ASSUME SettingsIInv, NEW p \in Pages, Insert(p) PROVE SettingsIInv'
<1>1. page[p].at = "insert" /\ page[p].form = "oauth"
  BY DEF Insert, SettingsIInv, FormsAgree
<1>2. PICK row \in page[p].next : Store(p, Numbered(p, row))
  BY DEF Insert
<1>. QED BY <1>1, <1>2, StoreOAuthInv

LEMMA SettingsStep == SettingsIInv /\ [SettingsNext]_settingsVars => SettingsIInv'
<1>. SUFFICES ASSUME SettingsIInv, [SettingsNext]_settingsVars PROVE SettingsIInv'
  OBVIOUS
<1>1. CASE SettingsNext
  <2>1. PICK p \in Pages :
           \/ OpenForm(p, "general") \/ OpenForm(p, "oauth")
           \/ SaveGeneral(p) \/ JudgeGeneral(p)
           \/ SaveOAuth(p) \/ JudgeOAuth(p)
           \/ WriteLocked(p) \/ CompareAbsent(p) \/ Insert(p)
    BY <1>1 DEF SettingsNext
  <2>2. CASE OpenForm(p, "general") \/ OpenForm(p, "oauth")
    BY <2>2, OpenFormInv
  <2>3. CASE SaveGeneral(p) \/ SaveOAuth(p)
    BY <2>3, SaveGeneralInv, SaveOAuthInv
  <2>4. CASE JudgeGeneral(p) \/ JudgeOAuth(p)
    BY <2>4, JudgeInv
  <2>5. CASE WriteLocked(p) \/ CompareAbsent(p) \/ Insert(p)
    BY <2>5, WriteLockedInv, CompareAbsentInv, InsertInv
  <2>. QED BY <2>1, <2>2, <2>3, <2>4, <2>5
<1>2. CASE UNCHANGED settingsVars
  BY <1>2 DEF settingsVars, SettingsIInv, SettingsTypeOK, SecretBound, RegistrationWorks,
     BuiltRows, RevisionsCount, FormsAgree, Sufficient, Identity, GeneralAllowed
<1>. QED BY <1>1, <1>2

(* However pages, saves and lost answers overlap, for any pages, sites and *)
(* clients: the secret belongs to the settings stored with it, a provider  *)
(* that is enabled can be asked, open registration works, and a save whose *)
(* revision is accepted was made from the row it replaces.                 *)
THEOREM SettingsAreSafe == SettingsSpec => []SettingsInv
<1>1. SettingsSpec => []SettingsIInv
  BY SettingsInitInv, SettingsStep, PTL DEF SettingsSpec
<1>. QED BY <1>1, SettingsIInvImplies, PTL

-----------------------------------------------------------------------------
Before == {"start", "put"}
After  == {"exchange"} \cup Known

(* What holds between a request c and its login: before it was begun,      *)
(* past its state, and past the provider.                                  *)
FitsIn(c) ==
    LET a == c.of
    IN  /\ c.at # "idle" => a \in Attempts /\ (c.at \in Before <=> attempt[a].kind = "none")
        /\ c.at \in Before => c.kind \in {"oauth", "link"}
        /\ c.at \in After => /\ c.own /\ a \notin states /\ attempt[a].entered = 0
                             /\ c.kind = attempt[a].kind
        /\ c.at \in Known => attempt[a].code = "redeemed"
        /\ c.at \in Known /\ c.kind # "cas" =>
              c.client = attempt[a].client /\ c.redirect = attempt[a].callback
        /\ c.at \in {"known", "allow", "enter"} => c.kind # "link"
        /\ c.at \in {"link", "save"} => c.kind = "link"
        /\ c.kind = "link" /\ c.at \in {"save", "begin"} => c.session = attempt[a].session

(* Two requests for one login: neither is about to begin it, and one at    *)
(* most is past the state.                                                 *)
Apart(c, d) ==
    c.of = d.of => /\ ~(c.at \in Before /\ d.at # "idle")
                   /\ ~(d.at \in Before /\ c.at # "idle")
                   /\ ~(c.at \in After /\ d.at \in After)

(* A login that was not begun has left nothing; one that led to a session  *)
(* was confirmed, and led to no other.                                     *)
Settled(a) ==
    /\ attempt[a].kind = "none" =>
          attempt[a].code = "none" /\ attempt[a].entered = 0 /\ a \notin states
    /\ attempt[a].entered > 0 =>
          attempt[a].code = "redeemed" /\ a \notin states /\ attempt[a].entered = 1

LoginIInv ==
    /\ LoginTypeOK
    /\ \A a \in Attempts : Settled(a)
    /\ \A h \in Calls : FitsIn(call[h])
    /\ \A h, k \in Calls : h # k => Apart(call[h], call[k])

LEMMA LoginIInvImplies == LoginIInv => LoginInv
<1>. SUFFICES ASSUME LoginIInv PROVE LoginInv
  OBVIOUS
<1>1. StatesWorkOnce
  <2>1. SUFFICES ASSUME NEW a \in Attempts
                 PROVE  LET Past == {h \in Calls : call[h].of = a /\ call[h].at \in After}
                        IN  /\ \A h, k \in Past : h = k
                            /\ \A h \in Past : call[h].own
                            /\ Past # {} => a \notin states /\ attempt[a].entered = 0
                            /\ attempt[a].entered > 0 => /\ attempt[a].code = "redeemed"
                                                         /\ a \notin states
                                                         /\ attempt[a].entered = 1
    BY DEF StatesWorkOnce, After
  <2>. DEFINE Past == {h \in Calls : call[h].of = a /\ call[h].at \in After}
  <2>2. \A h, k \in Past : h = k
    BY DEF LoginIInv, Apart
  <2>3. \A h \in Past : call[h].own /\ a \notin states /\ attempt[a].entered = 0
    BY DEF LoginIInv, FitsIn
  <2>4. Settled(a)
    BY DEF LoginIInv
  <2>. QED BY <2>2, <2>3, <2>4 DEF Settled
<1>2. GrantsAreNotMixed
  <2>1. SUFFICES ASSUME NEW h \in Calls, call[h].at \in Known
                 PROVE  LET a == call[h].of
                        IN  /\ attempt[a].code = "redeemed" /\ attempt[a].kind = call[h].kind
                            /\ call[h].kind # "cas" =>
                                  /\ call[h].client = attempt[a].client
                                  /\ call[h].redirect = attempt[a].callback
    BY DEF GrantsAreNotMixed
  <2>2. FitsIn(call[h]) /\ call[h].at \in After
    BY <2>1 DEF LoginIInv, After
  <2>. QED BY <2>1, <2>2 DEF FitsIn
<1>3. LinksAreAskedFor
  BY DEF LoginIInv, FitsIn, LinksAreAskedFor
<1>. QED BY <1>1, <1>2, <1>3 DEF LoginIInv, LoginInv

LEMMA LoginInitInv == LoginInit => LoginIInv
<1>. SUFFICES ASSUME LoginInit PROVE LoginIInv
  OBVIOUS
<1>. USE DEF LoginInit
<1>1. NoAttempt \in AttemptRows
  BY DEF NoAttempt, AttemptRows, Kinds, Codes, Redirects
<1>2. NoHandler \in CallRows
  BY DEF NoHandler, CallRows, Steps, Redirects
<1>3. LoginTypeOK
  BY <1>1, <1>2 DEF LoginTypeOK
<1>4. \A a \in Attempts : Settled(a)
  BY DEF Settled, NoAttempt
<1>5. \A h \in Calls : call[h].at = "idle" /\ call[h].kind = "none"
  BY DEF NoHandler
<1>6. \A h \in Calls : FitsIn(call[h])
  BY <1>5 DEF FitsIn, Before, After, Known
<1>7. \A h, k \in Calls : h # k => Apart(call[h], call[k])
  BY <1>5 DEF Apart, Before, After, Known
<1>. QED BY <1>3, <1>4, <1>6, <1>7 DEF LoginIInv

-----------------------------------------------------------------------------
(* A step of one request that leaves the logins alone.                     *)
LEMMA CallStep ==
  ASSUME LoginIInv, NEW h \in Calls, NEW c \in CallRows, call' = [call EXCEPT ![h] = c],
         UNCHANGED <<attempt, states>>, FitsIn(c),
         \A k \in Calls : k # h => Apart(c, call[k]),
         signedIn' \in 0..serial', serial' \in Nat, linked' \in BOOLEAN
  PROVE  LoginIInv'
<1>1. /\ call \in [Calls -> CallRows] /\ attempt' = attempt /\ states' = states
      /\ call'[h] = c /\ \A k \in Calls : k # h => call'[k] = call[k]
  BY DEF LoginIInv, LoginTypeOK
<1>2. LoginTypeOK'
  BY <1>1 DEF LoginIInv, LoginTypeOK
<1>3. (\A a \in Attempts : Settled(a))'
  BY <1>1 DEF LoginIInv, Settled
<1>4. ASSUME NEW k \in Calls PROVE FitsIn(call[k])'
  <2>1. PICK e : e = call'[k] /\ FitsIn(e)
    BY <1>1 DEF LoginIInv
  <2>. QED BY <1>1, <2>1 DEF FitsIn
<1>5. ASSUME NEW i \in Calls, NEW k \in Calls, i # k PROVE Apart(call[i], call[k])'
  <2>1. PICK e, f : e = call'[i] /\ f = call'[k]
    OBVIOUS
  <2>2. Apart(e, f)
    <3>1. CASE i = h
      BY <1>1, <1>5, <2>1, <3>1
    <3>2. CASE k = h
      <4>1. Apart(c, call[i])
        BY <1>5, <3>2
      <4>. QED BY <1>1, <1>5, <2>1, <3>2, <4>1 DEF Apart
    <3>3. CASE i # h /\ k # h
      BY <1>1, <1>5, <2>1, <3>3 DEF LoginIInv
    <3>. QED BY <3>1, <3>2, <3>3
  <2>. QED BY <2>1, <2>2 DEF Apart
<1>. QED BY <1>2, <1>3, <1>4, <1>5 DEF LoginIInv

LEMMA LeavesInv ==
  ASSUME LoginIInv, NEW h \in Calls, Leaves(h), UNCHANGED <<attempt, states>>,
         signedIn' \in 0..serial', serial' \in Nat, linked' \in BOOLEAN
  PROVE  LoginIInv'
<1>1. NoHandler \in CallRows /\ NoHandler.at = "idle"
  BY DEF NoHandler, CallRows, Steps, Redirects
<1>2. FitsIn(NoHandler)
  BY <1>1 DEF FitsIn, Before, After, Known
<1>3. \A k \in Calls : Apart(NoHandler, call[k])
  BY <1>1 DEF Apart, Before, After, Known
<1>. QED BY <1>1, <1>2, <1>3, CallStep DEF Leaves

(* A request goes on with its login.                                       *)
LEMMA GoesOn ==
  ASSUME LoginIInv, NEW h \in Calls, NEW c \in CallRows, call' = [call EXCEPT ![h] = c],
         UNCHANGED <<attempt, states>>, FitsIn(c),
         c.of = call[h].of, call[h].at # "idle",
         c.at \in Before => call[h].at \in Before, c.at \in After => call[h].at \in After,
         signedIn' \in 0..serial', serial' \in Nat, linked' \in BOOLEAN
  PROVE  LoginIInv'
<1>1. \A k \in Calls : k # h => Apart(call[h], call[k])
  BY DEF LoginIInv
<1>2. \A k \in Calls : k # h => Apart(c, call[k])
  BY <1>1 DEF Apart
<1>. QED BY <1>2, CallStep

LEMMA Typed ==
  ASSUME LoginIInv
  PROVE  /\ attempt \in [Attempts -> AttemptRows] /\ call \in [Calls -> CallRows]
         /\ states \subseteq Attempts
         /\ signedIn \in 0..serial /\ serial \in Nat /\ linked \in BOOLEAN
  BY DEF LoginIInv, LoginTypeOK

-----------------------------------------------------------------------------
LEMMA ReadClientRow ==
  ASSUME SettingsTypeOK, NEW what \in CallRows
  PROVE  LET c == [what EXCEPT !.client = oauth.client, !.redirect = oauth.redirect]
         IN  /\ c \in CallRows /\ c.at = what.at /\ c.of = what.of /\ c.kind = what.kind
             /\ c.own = what.own /\ c.session = what.session
  BY DEF CallRows, SettingsTypeOK, OAuthRows

LEMMA BeginStartInv ==
  ASSUME SettingsTypeOK, LoginIInv, NEW h \in Calls, NEW a \in Attempts, NEW kind \in Kinds,
         BeginStart(h, a, kind)
  PROVE  LoginIInv'
<1>. DEFINE what == [NoHandler EXCEPT !.at = "start", !.of = a, !.kind = kind,
                                      !.session = signedIn]
            c    == [what EXCEPT !.client = oauth.client, !.redirect = oauth.redirect]
<1>1. /\ attempt[a].kind = "none" /\ \A k \in Calls : call[k].of # a
      /\ kind \in {"oauth", "link"}
      /\ call' = [call EXCEPT ![h] = c]
      /\ UNCHANGED <<attempt, states, signedIn, serial, linked>>
  BY DEF BeginStart, Untaken, ReadClient
<1>2. signedIn \in Nat
  BY Typed
<1>3. /\ what \in CallRows /\ what.at = "start" /\ what.of = a /\ what.kind = kind
  BY <1>2 DEF NoHandler, CallRows, Steps, Redirects, Kinds
<1>. HIDE DEF what
<1>4. c \in CallRows /\ c.at = "start" /\ c.of = a /\ c.kind = kind
  BY <1>3, ReadClientRow
<1>. HIDE DEF c
<1>5. FitsIn(c)
  BY <1>1, <1>4 DEF FitsIn, Before, After, Known
<1>6. \A k \in Calls : Apart(c, call[k])
  BY <1>1, <1>4 DEF Apart
<1>. QED BY <1>1, <1>4, <1>5, <1>6, Typed, CallStep

(* A callback arrives for a login that was begun.                          *)
LEMMA Arrives ==
  ASSUME LoginIInv, NEW h \in Calls, NEW a \in Attempts, attempt[a].code # "none",
         NEW c \in CallRows, c.at \in {"callback", "finish"}, c.of = a,
         call' = [call EXCEPT ![h] = c],
         UNCHANGED <<attempt, states, signedIn, serial, linked>>
  PROVE  LoginIInv'
<1>1. attempt[a].kind # "none"
  BY DEF LoginIInv, Settled
<1>2. FitsIn(c)
  BY <1>1 DEF FitsIn, Before, After, Known
<1>3. \A k \in Calls : FitsIn(call[k])
  BY DEF LoginIInv
<1>4. \A k \in Calls : Apart(c, call[k])
  BY <1>1, <1>3 DEF Apart, FitsIn, Before, After, Known
<1>. QED BY <1>2, <1>4, Typed, CallStep

LEMMA BeginCallbackInv ==
  ASSUME SettingsTypeOK, LoginIInv, NEW h \in Calls, NEW a \in Attempts, NEW own \in BOOLEAN,
         BeginCallback(h, a, own) \/ CasCallback(h, a, own)
  PROVE  LoginIInv'
<1>1. CASE BeginCallback(h, a, own)
  <2>. DEFINE what == [NoHandler EXCEPT !.at = "callback", !.of = a, !.own = own,
                                        !.kind = "oauth"]
              c    == [what EXCEPT !.client = oauth.client, !.redirect = oauth.redirect]
  <2>1. /\ attempt[a].code # "none" /\ call' = [call EXCEPT ![h] = c]
        /\ UNCHANGED <<attempt, states, signedIn, serial, linked>>
    BY <1>1 DEF BeginCallback, ReadClient
  <2>2. /\ what \in CallRows /\ what.at = "callback" /\ what.of = a
    BY DEF NoHandler, CallRows, Steps, Redirects, Kinds
  <2>. HIDE DEF what
  <2>3. c \in CallRows /\ c.at = "callback" /\ c.of = a
    BY <2>2, ReadClientRow
  <2>. HIDE DEF c
  <2>. QED BY <2>1, <2>3, Arrives
<1>2. CASE CasCallback(h, a, own)
  <2>. DEFINE c == [NoHandler EXCEPT !.at = "finish", !.of = a, !.own = own, !.kind = "cas"]
  <2>1. /\ attempt[a].code # "none" /\ call' = [call EXCEPT ![h] = c]
        /\ UNCHANGED <<attempt, states, signedIn, serial, linked>>
    BY <1>2 DEF CasCallback
  <2>2. c \in CallRows /\ c.at = "finish" /\ c.of = a
    BY DEF NoHandler, CallRows, Steps, Redirects, Kinds
  <2>. HIDE DEF c
  <2>. QED BY <2>1, <2>2, Arrives
<1>. QED BY <1>1, <1>2
LEMMA ReadSiteInv ==
  ASSUME SettingsTypeOK, LoginIInv, NEW h \in Calls,
         ReadSite(h, "start", "put") \/ ReadSite(h, "callback", "finish")
  PROVE  LoginIInv'
<1>1. UNCHANGED <<attempt, states, signedIn, serial, linked>>
  BY DEF ReadSite
<1>2. CASE Leaves(h)
  BY <1>1, <1>2, Typed, LeavesInv
<1>3. ASSUME NEW to, call' = [call EXCEPT ![h].at = to, ![h].redirect = CallbackAddress(h)],
             \/ call[h].at = "start" /\ to = "put"
             \/ call[h].at = "callback" /\ to = "finish"
      PROVE  LoginIInv'
  <2>. DEFINE c == [call[h] EXCEPT !.at = to, !.redirect = CallbackAddress(h)]
  <2>1. call[h] \in CallRows
    BY Typed
  <2>2. CallbackAddress(h) \in Redirects
    BY <2>1 DEF CallbackAddress, CallRows, SettingsTypeOK, GeneralRows, Redirects
  <2>3. /\ c \in CallRows /\ c.at = to /\ c.of = call[h].of /\ c.kind = call[h].kind
        /\ call' = [call EXCEPT ![h] = c]
    BY <1>3, <2>1, <2>2 DEF CallRows, Steps
  <2>. HIDE DEF c
  <2>4. FitsIn(c)
    <3>1. FitsIn(call[h])
      BY DEF LoginIInv
    <3>. QED BY <1>3, <2>3, <3>1 DEF FitsIn, Before, After, Known
  <2>5. /\ c.at \in Before => call[h].at \in Before
        /\ c.at \in After => call[h].at \in After
        /\ call[h].at # "idle"
    BY <1>3, <2>3 DEF Before, After, Known
  <2>. QED BY <1>1, <2>3, <2>4, <2>5, Typed, GoesOn
<1>4. Leaves(h) \/ \E to :
         /\ call' = [call EXCEPT ![h].at = to, ![h].redirect = CallbackAddress(h)]
         /\ \/ call[h].at = "start" /\ to = "put"
            \/ call[h].at = "callback" /\ to = "finish"
  BY DEF ReadSite, CallAt
<1>. QED BY <1>2, <1>3, <1>4

(* A login is begun: nothing else refers to it.                            *)
LEMMA Begun ==
  ASSUME LoginIInv, NEW a \in Attempts, NEW begun \in AttemptRows, begun.kind # "none",
         begun.entered = 0, PutState(a, begun), attempt[a].kind = "none",
         NEW quiet, \A k \in Calls : call'[k] = call[k] \/ call'[k] = NoHandler,
         call' \in [Calls -> CallRows], quiet = {k \in Calls : call'[k].at # "idle"},
         \A k \in quiet : call[k].of # a,
         UNCHANGED <<signedIn, serial, linked>>
  PROVE  LoginIInv'
<1>1. /\ attempt \in [Attempts -> AttemptRows] /\ states \subseteq Attempts
      /\ attempt'[a] = begun /\ attempt' = [attempt EXCEPT ![a] = begun]
      /\ \A b \in Attempts : b # a => attempt'[b] = attempt[b]
      /\ states' = states \cup {a}
  BY Typed DEF PutState
<1>2. NoHandler.at = "idle" /\ NoHandler.of = "none" /\ NoHandler.kind = "none"
  BY DEF NoHandler
<1>3. LoginTypeOK'
  BY <1>1 DEF LoginIInv, LoginTypeOK
<1>4. (\A b \in Attempts : Settled(b))'
  BY <1>1 DEF LoginIInv, Settled
<1>5. ASSUME NEW k \in Calls PROVE FitsIn(call[k])'
  <2>1. PICK e : e = call'[k]
    OBVIOUS
  <2>2. CASE e.at = "idle"
    BY <2>1, <2>2 DEF FitsIn, Before, After, Known
  <2>3. CASE e.at # "idle"
    <3>1. e = call[k] /\ FitsIn(e) /\ e.of # a /\ e.of \in Attempts
      BY <1>2, <2>1, <2>3 DEF LoginIInv, FitsIn
    <3>2. attempt'[e.of] = attempt[e.of] /\ (e.of \in states' <=> e.of \in states)
      BY <1>1, <3>1
    <3>. QED BY <2>1, <3>1, <3>2 DEF FitsIn
  <2>. QED BY <2>2, <2>3
<1>6. ASSUME NEW i \in Calls, NEW k \in Calls, i # k PROVE Apart(call[i], call[k])'
  <2>1. PICK e, f : e = call'[i] /\ f = call'[k]
    OBVIOUS
  <2>2. CASE e.at = "idle" \/ f.at = "idle"
    BY <2>1, <2>2 DEF Apart, Before, After, Known
  <2>3. CASE e.at # "idle" /\ f.at # "idle"
    <3>1. e = call[i] /\ f = call[k]
      BY <1>2, <2>1, <2>3
    <3>. QED BY <1>6, <2>1, <3>1 DEF LoginIInv, Apart
  <2>. QED BY <2>2, <2>3
<1>. QED BY <1>3, <1>4, <1>5, <1>6 DEF LoginIInv

LEMMA StartLoginInv ==
  ASSUME LoginIInv, NEW h \in Calls, StartLogin(h) PROVE LoginIInv'
<1>. DEFINE a == call[h].of
            begun == [NoAttempt EXCEPT !.kind = call[h].kind, !.client = call[h].client,
                                       !.callback = call[h].redirect,
                                       !.session = call[h].session]
<1>1. /\ call[h].at = "put" /\ PutState(a, begun) /\ Leaves(h)
      /\ UNCHANGED <<signedIn, serial, linked>>
  BY DEF StartLogin, CallAt
<1>2. call[h] \in CallRows /\ call \in [Calls -> CallRows]
  BY Typed
<1>3. /\ a \in Attempts /\ attempt[a].kind = "none" /\ call[h].kind \in {"oauth", "link"}
  BY <1>1 DEF LoginIInv, FitsIn, Before
<1>4. begun \in AttemptRows /\ begun.kind = call[h].kind /\ begun.entered = 0
  BY <1>2, <1>3 DEF NoAttempt, AttemptRows, CallRows, Codes, Kinds
<1>. HIDE DEF begun
<1>5. NoHandler \in CallRows /\ NoHandler.at = "idle"
  BY DEF NoHandler, CallRows, Steps, Redirects
<1>6. /\ call' \in [Calls -> CallRows] /\ call'[h] = NoHandler
      /\ \A k \in Calls : k # h => call'[k] = call[k]
  BY <1>1, <1>2, <1>5 DEF Leaves
<1>7. ASSUME NEW k \in Calls, call'[k].at # "idle" PROVE call[k].of # a
  <2>1. k # h /\ call'[k] = call[k]
    BY <1>5, <1>6, <1>7
  <2>. QED BY <1>1, <1>7, <2>1 DEF LoginIInv, Apart, Before
<1>8. PICK quiet : quiet = {k \in Calls : call'[k].at # "idle"}
  OBVIOUS
<1>. QED BY <1>1, <1>3, <1>4, <1>6, <1>7, <1>8, Begun

LEMMA StartCasInv ==
  ASSUME LoginIInv, NEW a \in Attempts, StartCas(a) PROVE LoginIInv'
<1>. DEFINE begun == [NoAttempt EXCEPT !.kind = "cas"]
<1>1. /\ attempt[a].kind = "none" /\ \A k \in Calls : call[k].of # a
      /\ PutState(a, begun) /\ call' = call /\ UNCHANGED <<signedIn, serial, linked>>
  BY DEF StartCas, Untaken
<1>2. begun \in AttemptRows /\ begun.kind # "none" /\ begun.entered = 0
  BY DEF NoAttempt, AttemptRows, Codes, Kinds, Redirects
<1>. HIDE DEF begun
<1>3. PICK quiet : quiet = {k \in Calls : call'[k].at # "idle"}
  OBVIOUS
<1>4. call' \in [Calls -> CallRows]
  BY <1>1, Typed
<1>. QED BY <1>1, <1>2, <1>3, <1>4, Begun

-----------------------------------------------------------------------------
(* A login changes that keeps what its requests rely on.                   *)
LEMMA LoginChanges ==
  ASSUME LoginIInv, NEW a \in Attempts, NEW new \in AttemptRows,
         attempt' = [attempt EXCEPT ![a] = new],
         new.kind = attempt[a].kind, new.client = attempt[a].client,
         new.callback = attempt[a].callback, new.session = attempt[a].session,
         new.entered = attempt[a].entered,
         attempt[a].code = "redeemed" => new.code = "redeemed",
         new.code # "none" => new.kind # "none",
         UNCHANGED <<states, signedIn, serial, linked, call>>
  PROVE  LoginIInv'
<1>1. /\ attempt'[a] = new /\ attempt' \in [Attempts -> AttemptRows]
      /\ \A b \in Attempts : b # a => attempt'[b] = attempt[b]
  BY Typed
<1>2. LoginTypeOK'
  BY <1>1 DEF LoginIInv, LoginTypeOK
<1>3. (\A b \in Attempts : Settled(b))'
  BY <1>1 DEF LoginIInv, Settled
<1>4. ASSUME NEW k \in Calls PROVE FitsIn(call[k])'
  <2>1. PICK e : e = call[k] /\ FitsIn(e)
    BY DEF LoginIInv
  <2>2. CASE e.of = a
    BY <1>1, <2>1, <2>2 DEF FitsIn
  <2>3. CASE e.of # a
    <3>1. e.of \in Attempts => attempt'[e.of] = attempt[e.of]
      BY <1>1, <2>3
    <3>2. e.at = "idle" \/ e.of \in Attempts
      BY <2>1 DEF FitsIn
    <3>. QED BY <2>1, <3>1, <3>2 DEF FitsIn, Before, After, Known
  <2>. QED BY <2>2, <2>3
<1>5. (\A h, k \in Calls : h # k => Apart(call[h], call[k]))'
  BY DEF LoginIInv, Apart
<1>. QED BY <1>2, <1>3, <1>4, <1>5 DEF LoginIInv

LEMMA ProviderInv ==
  ASSUME LoginIInv, NEW a \in Attempts, SignIn(a) \/ Outlive(a) PROVE LoginIInv'
<1>1. attempt[a] \in AttemptRows
  BY Typed
<1>2. CASE SignIn(a)
  <2>. DEFINE new == [attempt[a] EXCEPT !.code = "granted"]
  <2>1. /\ attempt[a].kind # "none" /\ attempt[a].code = "none"
        /\ attempt' = [attempt EXCEPT ![a] = new]
        /\ UNCHANGED <<states, signedIn, serial, linked, call>>
    BY <1>2 DEF SignIn
  <2>2. /\ new \in AttemptRows /\ new.kind = attempt[a].kind /\ new.client = attempt[a].client
        /\ new.callback = attempt[a].callback /\ new.session = attempt[a].session
        /\ new.entered = attempt[a].entered
    BY <1>1 DEF AttemptRows, Codes
  <2>. HIDE DEF new
  <2>. QED BY <2>1, <2>2, LoginChanges
<1>3. CASE Outlive(a)
  <2>. DEFINE new == [attempt[a] EXCEPT !.late = TRUE]
  <2>1. /\ a \in states /\ attempt' = [attempt EXCEPT ![a] = new]
        /\ UNCHANGED <<states, signedIn, serial, linked, call>>
    BY <1>3 DEF Outlive
  <2>2. /\ new \in AttemptRows /\ new.kind = attempt[a].kind /\ new.client = attempt[a].client
        /\ new.callback = attempt[a].callback /\ new.session = attempt[a].session
        /\ new.entered = attempt[a].entered /\ new.code = attempt[a].code
    BY <1>1 DEF AttemptRows, Codes
  <2>3. attempt[a].kind # "none"
    BY <2>1 DEF LoginIInv, Settled
  <2>. HIDE DEF new
  <2>. QED BY <2>1, <2>2, <2>3, LoginChanges
<1>. QED BY <1>2, <1>3

(* The state is taken: nobody else is past it, and no session came of it.  *)
LEMMA FinishLoginInv ==
  ASSUME LoginIInv, NEW h \in Calls, FinishLogin(h) PROVE LoginIInv'
<1>. DEFINE a == call[h].of
            kind == attempt[a].kind
            c == [call[h] EXCEPT !.at = "exchange", !.kind = kind]
<1>1. call[h].at = "finish" /\ UNCHANGED <<attempt, signedIn, serial, linked>>
  BY DEF FinishLogin, CallAt
<1>2. CASE Leaves(h) /\ UNCHANGED states
  BY <1>1, <1>2, Typed, LeavesInv
<1>3. CASE StateFits(h) /\ TakeState(h)
  <2>1. /\ a \in states /\ states' = states \ {a} /\ call' = [call EXCEPT ![h] = c]
        /\ call[h].own
    BY <1>3 DEF TakeState, StateFits
  <2>2. /\ call \in [Calls -> CallRows] /\ attempt \in [Attempts -> AttemptRows]
        /\ states \subseteq Attempts
    BY Typed
  <2>3. a \in Attempts /\ attempt[a].kind # "none"
    BY <1>1, <2>1, <2>2 DEF LoginIInv, FitsIn, Before
  <2>31. kind \in Kinds \cup {"none"}
    BY <2>2, <2>3 DEF AttemptRows
  <2>. HIDE DEF kind
  <2>32. /\ c \in CallRows /\ c.at = "exchange" /\ c.of = a /\ c.own = call[h].own
         /\ c.kind = kind
    BY <2>2, <2>31 DEF CallRows, Steps
  <2>. HIDE DEF c
  <2>4. /\ c \in CallRows /\ c.at = "exchange" /\ c.of = a /\ c.own
        /\ c.kind = attempt[a].kind
    BY <2>1, <2>32 DEF kind
  <2>5. attempt[a].entered = 0
    BY <2>1, <2>2, <2>3 DEF LoginIInv, Settled, AttemptRows
  <2>6. \A k \in Calls : call[k].of = a => call[k].at \notin After
    BY <2>1 DEF LoginIInv, FitsIn
  <2>7. /\ call'[h] = c /\ \A k \in Calls : k # h => call'[k] = call[k]
        /\ call' \in [Calls -> CallRows]
    BY <2>1, <2>2, <2>4
  <2>8. LoginTypeOK'
    BY <1>1, <2>1, <2>2, <2>7 DEF LoginIInv, LoginTypeOK
  <2>9. (\A b \in Attempts : Settled(b))'
    BY <1>1, <2>1 DEF LoginIInv, Settled
  <2>10. ASSUME NEW k \in Calls PROVE FitsIn(call[k])'
    <3>1. CASE k = h
      <4>1. PICK e : e = call'[k] /\ e = c
        BY <2>7, <3>1
      <4>. QED BY <1>1, <2>1, <2>3, <2>4, <2>5, <4>1 DEF FitsIn, Before, After, Known
    <3>2. CASE k # h
      <4>1. PICK e : e = call'[k] /\ e = call[k] /\ FitsIn(e)
        BY <2>7, <3>2 DEF LoginIInv
      <4>. QED BY <1>1, <2>1, <4>1 DEF FitsIn
    <3>. QED BY <3>1, <3>2
  <2>11. ASSUME NEW i \in Calls, NEW k \in Calls, i # k PROVE Apart(call[i], call[k])'
    <3>1. PICK e, f : e = call'[i] /\ f = call'[k]
      OBVIOUS
    <3>2. \A j \in Calls : (Apart(c, call[j]) /\ Apart(call[j], c)) \/ j = h
      <4>1. ASSUME NEW j \in Calls, j # h PROVE Apart(c, call[j]) /\ Apart(call[j], c)
        <5>1. call[j].of = a => call[j].at \notin Before /\ call[j].at \notin After
          BY <1>1, <2>6, <4>1 DEF LoginIInv, Apart
        <5>. QED BY <2>4, <5>1 DEF Apart, Before
      <4>. QED BY <4>1
    <3>3. Apart(e, f)
      <4>1. CASE i = h
        BY <2>7, <2>11, <3>1, <3>2, <4>1
      <4>2. CASE k = h
        BY <2>7, <2>11, <3>1, <3>2, <4>2
      <4>3. CASE i # h /\ k # h
        BY <2>7, <2>11, <3>1, <4>3 DEF LoginIInv
      <4>. QED BY <4>1, <4>2, <4>3
    <3>. QED BY <3>1, <3>3 DEF Apart
  <2>. QED BY <2>8, <2>9, <2>10, <2>11 DEF LoginIInv
<1>. QED BY <1>2, <1>3 DEF FinishLogin

-----------------------------------------------------------------------------
(* The provider answers a code once; the client is the one it was for.     *)
LEMMA ExchangeCodeInv ==
  ASSUME LoginIInv, NEW h \in Calls, ExchangeCode(h) PROVE LoginIInv'
<1>. DEFINE a == call[h].of
            step == AfterExchange(call[h].kind)
<1>1. call[h].at = "exchange" /\ UNCHANGED <<states, signedIn, serial, linked>>
  BY DEF ExchangeCode, CallAt
<1>2. CASE Leaves(h) /\ UNCHANGED attempt
  BY <1>1, <1>2, Typed, LeavesInv
<1>3. CASE /\ Grants(h) /\ attempt' = [attempt EXCEPT ![a].code = "redeemed"]
           /\ Moves(h, step) \/ Leaves(h)
  <2>. DEFINE new == [attempt[a] EXCEPT !.code = "redeemed"]
              c   == [call[h] EXCEPT !.at = step]
  <2>1. /\ call \in [Calls -> CallRows] /\ attempt \in [Attempts -> AttemptRows]
        /\ states \subseteq Attempts
    BY Typed
  <2>2. a \in Attempts /\ attempt[a].kind # "none" /\ FitsIn(call[h])
    BY <1>1 DEF LoginIInv, FitsIn, Before
  <2>3. /\ call[h].own /\ a \notin states /\ attempt[a].entered = 0
        /\ call[h].kind = attempt[a].kind
    BY <1>1, <2>2 DEF FitsIn, After
  <2>4. /\ attempt[a].code = "granted"
        /\ call[h].kind # "cas" => /\ attempt[a].client = call[h].client
                                   /\ attempt[a].callback = call[h].redirect
    BY <1>3 DEF Grants
  <2>5. /\ new \in AttemptRows /\ new.kind = attempt[a].kind /\ new.client = attempt[a].client
        /\ new.callback = attempt[a].callback /\ new.session = attempt[a].session
        /\ new.entered = attempt[a].entered /\ new.code = "redeemed"
        /\ attempt' = [attempt EXCEPT ![a] = new]
    BY <1>3, <2>1, <2>2 DEF AttemptRows, Codes
  <2>33. attempt[a].kind \in {"oauth", "link", "cas"}
    BY <2>1, <2>2 DEF AttemptRows, Kinds
  <2>6. \/ step = "enter" /\ call[h].kind = "cas"
        \/ step = "known" /\ call[h].kind = "oauth"
        \/ step = "link" /\ call[h].kind = "link"
    BY <2>3, <2>33 DEF AfterExchange
  <2>. HIDE DEF step
  <2>7. /\ c \in CallRows /\ c.at = step /\ c.of = a /\ c.kind = call[h].kind
        /\ c.own = call[h].own /\ c.client = call[h].client /\ c.redirect = call[h].redirect
    BY <2>1, <2>6 DEF CallRows, Steps
  <2>. HIDE DEF new, c
  <2>8. /\ attempt'[a] = new /\ attempt' \in [Attempts -> AttemptRows]
        /\ \A b \in Attempts : b # a => attempt'[b] = attempt[b]
    BY <2>1, <2>2, <2>5
  <2>9. PICK d \in CallRows : /\ d = c \/ d = NoHandler
                              /\ call' = [call EXCEPT ![h] = d]
    <3>1. NoHandler \in CallRows
      BY DEF NoHandler, CallRows, Steps, Redirects
    <3>2. CASE Leaves(h)
      BY <3>1, <3>2 DEF Leaves
    <3>3. CASE Moves(h, step)
      BY <2>7, <3>3 DEF Moves, c
    <3>. QED BY <1>3, <3>2, <3>3
  <2>10. /\ call' \in [Calls -> CallRows] /\ call'[h] = d
         /\ \A k \in Calls : k # h => call'[k] = call[k]
    BY <2>1, <2>9
  <2>11. LoginTypeOK'
    BY <1>1, <2>8, <2>10 DEF LoginIInv, LoginTypeOK
  <2>12. (\A b \in Attempts : Settled(b))'
    BY <1>1, <2>2, <2>5, <2>8 DEF LoginIInv, Settled
  <2>13. ASSUME NEW k \in Calls PROVE FitsIn(call[k])'
    <3>1. PICK e : e = call'[k]
      OBVIOUS
    <3>2. CASE e.at = "idle"
      BY <3>1, <3>2 DEF FitsIn, Before, After, Known
    <3>3. CASE k = h /\ e.at # "idle"
      <4>1. e = c
        BY <2>9, <2>10, <3>1, <3>3 DEF NoHandler
      <4>2. c.at \in Known /\ c.at \notin Before /\ c.at \notin {"save", "begin"}
        BY <2>6, <2>7 DEF Known, Before
      <4>3. /\ c.own /\ a \notin states' /\ attempt'[a].entered = 0 /\ c.kind = attempt'[a].kind
            /\ attempt'[a].code = "redeemed" /\ attempt'[a].kind # "none"
            /\ c.kind # "cas" => /\ c.client = attempt'[a].client
                                 /\ c.redirect = attempt'[a].callback
        BY <1>1, <2>2, <2>3, <2>4, <2>5, <2>7, <2>8
      <4>4. /\ c.at \in {"known", "allow", "enter"} => c.kind # "link"
            /\ c.at \in {"link", "save"} => c.kind = "link"
        BY <2>6, <2>7
      <4>. QED BY <2>2, <2>7, <3>1, <4>1, <4>2, <4>3, <4>4 DEF FitsIn
    <3>4. CASE k # h /\ e.at # "idle"
      <4>1. e = call[k] /\ FitsIn(e) /\ e.of \in Attempts
        BY <2>10, <3>1, <3>4 DEF LoginIInv, FitsIn
      <4>2. /\ attempt'[e.of].kind = attempt[e.of].kind
            /\ attempt'[e.of].client = attempt[e.of].client
            /\ attempt'[e.of].callback = attempt[e.of].callback
            /\ attempt'[e.of].session = attempt[e.of].session
            /\ attempt'[e.of].entered = attempt[e.of].entered
            /\ attempt'[e.of].code = attempt[e.of].code \/ attempt'[e.of].code = "redeemed"
        BY <2>5, <2>8, <4>1
      <4>. QED BY <1>1, <3>1, <4>1, <4>2 DEF FitsIn
    <3>. QED BY <3>2, <3>3, <3>4
  <2>14. ASSUME NEW i \in Calls, NEW k \in Calls, i # k PROVE Apart(call[i], call[k])'
    <3>1. PICK e, f : e = call'[i] /\ f = call'[k]
      OBVIOUS
    <3>2. \A j \in Calls : j # h => Apart(d, call[j]) /\ Apart(call[j], d)
      <4>1. ASSUME NEW j \in Calls, j # h PROVE Apart(d, call[j]) /\ Apart(call[j], d)
        <5>1. Apart(call[h], call[j])
          BY <4>1 DEF LoginIInv
        <5>2. CASE d = c
          <6>1. c.at \in After /\ c.at \notin Before /\ c.at # "idle" /\ call[h].at \in After
            BY <1>1, <2>6, <2>7 DEF After, Before, Known
          <6>. QED BY <1>1, <2>7, <5>1, <5>2, <6>1 DEF Apart
        <5>3. CASE d = NoHandler
          BY <5>3 DEF Apart, NoHandler, Before, After, Known
        <5>. QED BY <2>9, <5>2, <5>3
      <4>. QED BY <4>1
    <3>3. Apart(e, f)
      <4>1. CASE i = h
        BY <2>10, <2>14, <3>1, <3>2, <4>1
      <4>2. CASE k = h
        BY <2>10, <2>14, <3>1, <3>2, <4>2
      <4>3. CASE i # h /\ k # h
        BY <2>10, <2>14, <3>1, <4>3 DEF LoginIInv
      <4>. QED BY <4>1, <4>2, <4>3
    <3>. QED BY <3>1, <3>3 DEF Apart
  <2>. QED BY <2>11, <2>12, <2>13, <2>14 DEF LoginIInv
<1>. QED BY <1>2, <1>3 DEF ExchangeCode

-----------------------------------------------------------------------------
(* Past the provider a request comes to another step, and nothing else     *)
(* that its login knows of changes.                                        *)
LEMMA NextStepInv ==
  ASSUME LoginIInv, NEW h \in Calls, NEW step \in Known, Moves(h, step),
         call[h].at \in Known, UNCHANGED <<attempt, states>>,
         step \in {"known", "allow", "enter"} => call[h].kind # "link",
         step \in {"link", "save"} => call[h].kind = "link",
         step = "save" => FALSE,
         step = "begin" => call[h].kind # "link" \/ call[h].at = "save",
         signedIn' \in 0..serial', serial' \in Nat, linked' \in BOOLEAN
  PROVE  LoginIInv'
<1>. DEFINE c == [call[h] EXCEPT !.at = step]
<1>1. call[h] \in CallRows /\ FitsIn(call[h])
  BY Typed DEF LoginIInv
<1>2. /\ c \in CallRows /\ c.at = step /\ c.of = call[h].of /\ c.kind = call[h].kind
      /\ c.own = call[h].own /\ c.client = call[h].client /\ c.redirect = call[h].redirect
      /\ c.session = call[h].session /\ call' = [call EXCEPT ![h] = c]
  BY <1>1 DEF CallRows, Steps, Known, Moves
<1>. HIDE DEF c
<1>3. /\ step \in After /\ step \notin Before /\ step # "idle"
      /\ call[h].at \in After /\ call[h].at \notin Before /\ call[h].at # "idle"
  BY DEF After, Before, Known
<1>4. FitsIn(c)
  BY <1>1, <1>2, <1>3 DEF FitsIn
<1>. QED BY <1>2, <1>3, <1>4, GoesOn

LEMMA AccountInv ==
  ASSUME LoginIInv, NEW h \in Calls, Recognise(h) \/ Allow(h) \/ FindOrCreate(h)
  PROVE  LoginIInv'
<1>1. /\ UNCHANGED <<attempt, states, signedIn, serial>> /\ linked' \in BOOLEAN
      /\ call[h].at \in {"known", "allow", "enter"}
  BY Typed DEF Recognise, Allow, FindOrCreate, CallAt
<1>2. call[h].at \in Known /\ call[h].kind # "link"
  BY <1>1 DEF LoginIInv, FitsIn, Known
<1>3. Leaves(h) \/ \E step \in {"enter", "allow", "begin"} : Moves(h, step)
  BY DEF Recognise, Allow, FindOrCreate
<1>4. CASE Leaves(h)
  BY <1>1, <1>4, Typed, LeavesInv
<1>5. ASSUME NEW step \in {"enter", "allow", "begin"}, Moves(h, step) PROVE LoginIInv'
  <2>1. step \in Known
    BY DEF Known
  <2>. QED BY <1>1, <1>2, <1>5, <2>1, Typed, NextStepInv
<1>. QED BY <1>3, <1>4, <1>5

(* The session that is noted is the one the link was asked for by.         *)
LEMMA CheckSessionInv ==
  ASSUME LoginIInv, NEW h \in Calls, CheckSession(h) PROVE LoginIInv'
<1>1. UNCHANGED <<attempt, states, signedIn, serial, linked>> /\ call[h].at = "link"
  BY DEF CheckSession, CallAt
<1>2. CASE Leaves(h)
  BY <1>1, <1>2, Typed, LeavesInv
<1>3. CASE SameSession(h) /\ call' = [call EXCEPT ![h].at = "save", ![h].session = signedIn]
  <2>. DEFINE c == [call[h] EXCEPT !.at = "save", !.session = signedIn]
  <2>1. call[h] \in CallRows /\ FitsIn(call[h]) /\ signedIn \in Nat
    BY Typed DEF LoginIInv
  <2>2. /\ c \in CallRows /\ c.at = "save" /\ c.of = call[h].of /\ c.kind = call[h].kind
        /\ c.own = call[h].own /\ c.client = call[h].client /\ c.redirect = call[h].redirect
        /\ c.session = signedIn /\ call' = [call EXCEPT ![h] = c]
    BY <1>3, <2>1 DEF CallRows, Steps
  <2>. HIDE DEF c
  <2>3. c.session = attempt[c.of].session
    BY <1>3, <2>2 DEF SameSession
  <2>4. FitsIn(c)
    BY <1>1, <2>1, <2>2, <2>3 DEF FitsIn, Before, After, Known
  <2>5. /\ c.at \notin Before /\ call[h].at \in After /\ call[h].at # "idle"
    BY <1>1, <2>2 DEF Before, After, Known
  <2>. QED BY <1>1, <2>2, <2>4, <2>5, Typed, GoesOn
<1>. QED BY <1>2, <1>3 DEF CheckSession

LEMMA LinkIdentityInv ==
  ASSUME LoginIInv, NEW h \in Calls, LinkIdentity(h) PROVE LoginIInv'
<1>1. /\ UNCHANGED <<attempt, states, signedIn, serial>> /\ linked' \in BOOLEAN
      /\ call[h].at = "save"
  BY Typed DEF LinkIdentity, CallAt
<1>2. CASE Leaves(h)
  BY <1>1, <1>2, Typed, LeavesInv
<1>3. CASE Moves(h, "begin")
  <2>1. PICK step \in Known : step = "begin"
    BY DEF Known
  <2>2. call[h].at \in Known
    BY <1>1 DEF Known
  <2>. QED BY <1>1, <1>3, <2>1, <2>2, Typed, NextStepInv
<1>. QED BY <1>2, <1>3 DEF LinkIdentity

(* The first session of the login, and the last: nobody else is past the   *)
(* state.                                                                  *)
LEMMA BeginSessionInv ==
  ASSUME LoginIInv, NEW h \in Calls, BeginSession(h) PROVE LoginIInv'
<1>. DEFINE a == call[h].of
            new == [attempt[a] EXCEPT !.entered = @ + 1]
<1>1. call[h].at = "begin" /\ UNCHANGED <<states, linked>> /\ Leaves(h)
  BY DEF BeginSession, CallAt
<1>2. CASE UNCHANGED <<attempt, signedIn, serial>>
  BY <1>1, <1>2, Typed, LeavesInv
<1>3. CASE /\ serial' = serial + 1 /\ signedIn' = serial'
           /\ attempt' = [attempt EXCEPT ![a].entered = @ + 1]
  <2>1. /\ call \in [Calls -> CallRows] /\ attempt \in [Attempts -> AttemptRows]
        /\ states \subseteq Attempts /\ serial \in Nat /\ linked \in BOOLEAN
    BY Typed
  <2>2. /\ a \in Attempts /\ attempt[a].kind # "none" /\ a \notin states
        /\ attempt[a].entered = 0 /\ attempt[a].code = "redeemed"
    BY <1>1 DEF LoginIInv, FitsIn, Before, After, Known
  <2>3. /\ new \in AttemptRows /\ new.kind = attempt[a].kind /\ new.entered = 1
        /\ new.code = "redeemed" /\ attempt' = [attempt EXCEPT ![a] = new]
    BY <1>3, <2>1, <2>2 DEF AttemptRows
  <2>. HIDE DEF new
  <2>4. NoHandler \in CallRows /\ NoHandler.at = "idle"
    BY DEF NoHandler, CallRows, Steps, Redirects
  <2>5. /\ attempt'[a] = new /\ attempt' \in [Attempts -> AttemptRows]
        /\ \A b \in Attempts : b # a => attempt'[b] = attempt[b]
        /\ call' \in [Calls -> CallRows] /\ call'[h] = NoHandler
        /\ \A k \in Calls : k # h => call'[k] = call[k]
    BY <1>1, <2>1, <2>2, <2>3, <2>4 DEF Leaves
  <2>6. signedIn' \in 0..serial' /\ serial' \in Nat
    BY <1>3, <2>1
  <2>7. LoginTypeOK'
    BY <1>1, <2>1, <2>5, <2>6 DEF LoginTypeOK
  <2>8. (\A b \in Attempts : Settled(b))'
    BY <1>1, <2>2, <2>3, <2>5 DEF LoginIInv, Settled
  <2>9. ASSUME NEW k \in Calls PROVE FitsIn(call[k])'
    <3>1. PICK e : e = call'[k]
      OBVIOUS
    <3>2. CASE e.at = "idle"
      BY <3>1, <3>2 DEF FitsIn, Before, After, Known
    <3>3. CASE e.at # "idle"
      <4>1. k # h /\ e = call[k] /\ FitsIn(e) /\ e.of \in Attempts
        BY <2>4, <2>5, <3>1, <3>3 DEF LoginIInv, FitsIn
      <4>2. CASE e.of = a
        <5>1. Apart(call[h], call[k])
          BY <4>1 DEF LoginIInv
        <5>2. call[h].at \in After
          BY <1>1 DEF After, Known
        <5>3. e.at \notin After /\ e.at \notin Before
          BY <2>2, <4>1, <4>2, <5>1, <5>2 DEF Apart, FitsIn
        <5>4. attempt'[e.of].kind = attempt[e.of].kind
          BY <2>3, <2>5, <4>2
        <5>. QED BY <3>1, <4>1, <5>3, <5>4 DEF FitsIn, After, Known
      <4>3. CASE e.of # a
        <5>1. attempt'[e.of] = attempt[e.of]
          BY <2>5, <4>1, <4>3
        <5>. QED BY <1>1, <3>1, <4>1, <5>1 DEF FitsIn
      <4>. QED BY <4>2, <4>3
    <3>. QED BY <3>2, <3>3
  <2>10. ASSUME NEW i \in Calls, NEW k \in Calls, i # k PROVE Apart(call[i], call[k])'
    <3>1. PICK e, f : e = call'[i] /\ f = call'[k]
      OBVIOUS
    <3>2. CASE i = h \/ k = h
      BY <2>4, <2>5, <3>1, <3>2 DEF Apart, Before, After, Known
    <3>3. CASE i # h /\ k # h
      <4>1. Apart(e, f)
        BY <2>5, <2>10, <3>1, <3>3 DEF LoginIInv
      <4>. QED BY <3>1, <4>1 DEF Apart
    <3>. QED BY <3>2, <3>3
  <2>. QED BY <2>7, <2>8, <2>9, <2>10 DEF LoginIInv
<1>. QED BY <1>2, <1>3 DEF BeginSession

(* Sessions and the identity, beside the logins.                           *)
LEMMA BesideInv ==
  ASSUME LoginIInv, UNCHANGED <<attempt, states, call>>,
         signedIn' \in 0..serial', serial' \in Nat, linked' \in BOOLEAN
  PROVE  LoginIInv'
<1>1. attempt' = attempt /\ states' = states /\ call' = call
  OBVIOUS
<1>2. LoginTypeOK'
  BY DEF LoginIInv, LoginTypeOK
<1>3. (\A a \in Attempts : Settled(a))' /\ (\A h \in Calls : FitsIn(call[h]))'
  BY <1>1 DEF LoginIInv, Settled, FitsIn
<1>4. (\A h, k \in Calls : h # k => Apart(call[h], call[k]))'
  BY <1>1 DEF LoginIInv, Apart
<1>. QED BY <1>2, <1>3, <1>4 DEF LoginIInv

LEMMA SessionsInv ==
  ASSUME LoginIInv, LogIn \/ LogOut \/ Unlink PROVE LoginIInv'
<1>1. UNCHANGED <<attempt, states, call>>
  BY DEF LogIn, LogOut, Unlink
<1>2. signedIn \in 0..serial /\ serial \in Nat /\ linked \in BOOLEAN
  BY Typed
<1>3. CASE LogIn
  <2>1. serial' = serial + 1 /\ signedIn' = serial' /\ linked' = linked
    BY <1>3 DEF LogIn
  <2>2. serial' \in Nat /\ signedIn' \in 0..serial'
    BY <1>2, <2>1
  <2>. QED BY <1>1, <1>2, <2>1, <2>2, BesideInv
<1>4. CASE LogOut
  BY <1>1, <1>2, <1>4, BesideInv DEF LogOut
<1>5. CASE Unlink
  <2>1. serial' = serial /\ signedIn' \in {signedIn, 0} /\ linked' = FALSE
    BY <1>5 DEF Unlink
  <2>2. serial' \in Nat /\ signedIn' \in 0..serial'
    BY <1>2, <2>1
  <2>3. linked' \in BOOLEAN
    BY <2>1
  <2>. QED BY <1>1, <2>2, <2>3, BesideInv
<1>. QED BY <1>3, <1>4, <1>5

LEMMA LoginStepInv ==
  ASSUME SettingsTypeOK, LoginIInv, LoginStep PROVE LoginIInv'
<1>1. CASE \E a \in Attempts : StartCas(a) \/ SignIn(a) \/ Outlive(a)
  BY <1>1, StartCasInv, ProviderInv
<1>2. CASE LogIn \/ LogOut \/ Unlink
  BY <1>2, SessionsInv
<1>3. ASSUME NEW h \in Calls,
             \E a \in Attempts : \/ \E kind \in Kinds : BeginStart(h, a, kind)
                                 \/ \E own \in BOOLEAN : BeginCallback(h, a, own)
                                                         \/ CasCallback(h, a, own)
      PROVE  LoginIInv'
  BY <1>3, BeginStartInv, BeginCallbackInv
<1>4. ASSUME NEW h \in Calls,
             \/ ReadSite(h, "start", "put") \/ ReadSite(h, "callback", "finish")
             \/ StartLogin(h) \/ FinishLogin(h) \/ ExchangeCode(h)
      PROVE  LoginIInv'
  BY <1>4, ReadSiteInv, StartLoginInv, FinishLoginInv, ExchangeCodeInv
<1>5. ASSUME NEW h \in Calls,
             \/ Recognise(h) \/ Allow(h) \/ FindOrCreate(h)
             \/ CheckSession(h) \/ LinkIdentity(h) \/ BeginSession(h)
      PROVE  LoginIInv'
  BY <1>5, AccountInv, CheckSessionInv, LinkIdentityInv, BeginSessionInv
<1>. QED BY <1>1, <1>2, <1>3, <1>4, <1>5 DEF LoginStep

(* Settings and logins together: a login reads the rows of settings that   *)
(* are well-formed, whoever saves them meanwhile.                          *)
LEMMA LoginNextStep ==
  ASSUME SettingsIInv, LoginIInv, [LoginNext]_<<settingsVars, loginVars>>
  PROVE  SettingsIInv' /\ LoginIInv'
<1>1. SettingsTypeOK
  BY DEF SettingsIInv
<1>2. CASE LoginStep /\ UNCHANGED settingsVars
  BY <1>1, <1>2, LoginStepInv, SettingsStep
<1>3. CASE [SettingsNext]_settingsVars /\ UNCHANGED loginVars
  <2>1. /\ UNCHANGED <<attempt, states, call>>
        /\ signedIn' \in 0..serial' /\ serial' \in Nat /\ linked' \in BOOLEAN
    BY <1>3, Typed DEF loginVars
  <2>. QED BY <1>3, <2>1, SettingsStep, BesideInv
<1>. QED BY <1>2, <1>3 DEF LoginNext

(* Any number of logins, requests and sessions, beside any changes of the  *)
(* settings: a state works once and for the browser it was made for, an    *)
(* answer of the provider is used only by the client it was given to, and  *)
(* a link is saved for the session that asked for it.                      *)
THEOREM LoginsAreSafe == LoginSpec => []LoginInv
<1>1. LoginInit => SettingsIInv /\ LoginIInv
  BY LoginInitInv, SettingsInitInv DEF LoginInit
<1>2. SettingsIInv /\ LoginIInv /\ [LoginNext]_<<settingsVars, loginVars>>
        => (SettingsIInv /\ LoginIInv)'
  BY LoginNextStep
<1>3. LoginSpec => [](SettingsIInv /\ LoginIInv)
  BY <1>1, <1>2, PTL DEF LoginSpec
<1>. QED BY <1>3, LoginIInvImplies, PTL
-----------------------------------------------------------------------------
(* A problem with the status is approved at the revision it has.           *)
BankTrue == \A q \in Bank : bank[q].approved => bank[q].revision \in bank[q].passed

(* Nobody has seen a change that has not been made, nor has one been made  *)
(* at an instant that is still to come.                                    *)
TimesTrue ==
    /\ contest.updated < instant
    /\ contest.at = "none" => contest.updated = 0
    /\ \A p \in Editors : seen[p] <= contest.updated

(* A contest is created by one request at a time.                          *)
OneCreator == \A p, e \in Editors : contest.at = "none" /\ Under(p) /\ Under(e) => p = e

(* What an update has read is what is stored, unless the row is newer.     *)
ReadsTheRow(p) ==
    /\ seen[p] <= edit[p].read.updated /\ edit[p].read.updated <= contest.updated
    /\ contest.updated = edit[p].read.updated
          => /\ edit[p].read.state = contest.state
             /\ "members" \in edit[p].unread \/ edit[p].read.members = contest.members
             /\ "picks" \in edit[p].unread \/ edit[p].read.picks = contest.picks

(* An update of a contest that is no draft is about to keep its parts.     *)
KeepsParts(p) ==
    edit[p].read.state # "draft" =>
        /\ edit[p].given = {} /\ edit[p].todo = {}
        /\ edit[p].next.state \in {"draft", "archived"} \ {edit[p].read.state}
        /\ edit[p].next.picks = IF "picks" \in edit[p].unread THEN NoPicks ELSE edit[p].read.picks
        /\ "members" \in edit[p].unread
           \/ \A u \in Persons \ {UserOf[p]} : edit[p].next.members[u] = edit[p].read.members[u]

EditTrue(p) ==
    Under(p) =>
        /\ edit[p].kind \in {"create", "update", "delete"}
        /\ edit[p].kind = "create" <=> contest.at = "none"
        /\ edit[p].kind = "delete" => edit[p].at = "write"
        /\ edit[p].at # "reading" => edit[p].unread = {}
        /\ edit[p].at = "write" => edit[p].started \in 1..(instant - 1) /\ seen[p] < edit[p].started
        /\ ApprovedPicks(edit[p].next.picks)
        /\ edit[p].kind = "update" => ReadsTheRow(p) /\ KeepsParts(p)

(* The inductive invariant of contests.                                    *)
ContestIInv ==
    /\ ContestTypeOK /\ BankTrue /\ TimesTrue /\ OneCreator
    /\ ApprovedPicks(contest.picks)
    /\ \A p \in Editors : EditTrue(p)

LEMMA ContestIInvImplies == ContestIInv => ContestInv
<1>. SUFFICES ASSUME ContestIInv PROVE ContestInv
  OBVIOUS
<1>1. ContestTypeOK /\ TimesTrue /\ ApprovedPicks(contest.picks) /\ \A p \in Editors : EditTrue(p)
  BY DEF ContestIInv
<1>2. ASSUME NEW p \in Editors, Under(p), edit[p].kind = "update", contest.at = "live", Unmoved(p)
      PROVE  /\ edit[p].read.state = contest.state
             /\ "members" \in edit[p].unread \/ edit[p].read.members = contest.members
             /\ "picks" \in edit[p].unread \/ edit[p].read.picks = contest.picks
  <2>1. ReadsTheRow(p)
    BY <1>1, <1>2 DEF EditTrue
  <2>2. /\ seen[p] \in Int /\ contest.updated \in Int /\ edit[p].read.updated \in Int
        /\ contest.updated = seen[p] - (seen[p] % 2)
    BY <1>1, <1>2 DEF ContestTypeOK, ContestRows, Edits, Times, Unmoved, Expected
  <2>3. seen[p] % 2 \in 0..1
    BY <2>2
  <2>4. contest.updated = edit[p].read.updated
    BY <2>1, <2>2, <2>3 DEF ReadsTheRow
  <2>. QED BY <2>1, <2>4 DEF ReadsTheRow
<1>3. SavesMergeTheRow
  BY <1>2 DEF SavesMergeTheRow
<1>4. LockedStays
  BY <1>1 DEF LockedStays, EditTrue, KeepsParts, Under
<1>5. FixedAreApproved
  BY <1>1 DEF FixedAreApproved, EditTrue
<1>. QED BY <1>1, <1>3, <1>4, <1>5 DEF ContestInv

(* A request that is not under way.                                        *)
LEMMA EmptyRows ==
    /\ NoContest \in ContestRows /\ NoPicks \in Picks /\ NoEdit \in Edits
    /\ \A how \in EditSteps : [NoEdit EXCEPT !.at = how] \in Edits
<1>1. (CHOOSE u \in Persons : TRUE) \in Persons
  BY ContestAssumption
<1>2. NoPicks \in Picks
  BY ContestAssumption DEF NoPicks, Picks
<1>3. [u \in Persons |-> "none"] \in Memberships /\ 0 \in Times
  BY ContestAssumption DEF Memberships, Roles, Times
<1>4. NoContest \in ContestRows
  BY <1>1, <1>2, <1>3 DEF NoContest, ContestRows, ContestStates
<1>5. NoEdit \in Edits
  BY <1>3, <1>4 DEF NoEdit, Edits, EditSteps
<1>. QED BY <1>2, <1>4, <1>5 DEF Edits

LEMMA ContestInitInv == ContestInit => ContestIInv
<1>. SUFFICES ASSUME ContestInit PROVE ContestIInv
  OBVIOUS
<1>1. /\ contest = NoContest /\ edit = [p \in Editors |-> NoEdit] /\ seen = [p \in Editors |-> 0]
      /\ instant = 1 /\ rights \in [Persons -> Permits] /\ disabled \in SUBSET Persons
      /\ bank \in [Bank -> BankRows]
      /\ \A q \in Bank : bank[q].revision = 1 /\ bank[q].passed = IF bank[q].approved THEN {1} ELSE {}
  BY DEF ContestInit
<1>2. ContestTypeOK
  BY <1>1, EmptyRows, ContestAssumption DEF ContestTypeOK, Times
<1>3. BankTrue
  BY <1>1 DEF BankTrue
<1>4. contest.updated = 0 /\ contest.picks = NoPicks /\ \A p \in Editors : ~Under(p)
  BY <1>1 DEF NoContest, NoEdit, Under
<1>5. TimesTrue /\ OneCreator /\ ApprovedPicks(contest.picks)
  BY <1>1, <1>4 DEF TimesTrue, OneCreator, ApprovedPicks, NoPicks
<1>6. \A p \in Editors : EditTrue(p)
  BY <1>4 DEF EditTrue
<1>. QED BY <1>2, <1>3, <1>5, <1>6 DEF ContestIInv

(* A request under way whose page sees nothing else, while the row is left *)
(* alone or written with a later time of change.                           *)
LEMMA OthersKeep ==
  ASSUME ContestIInv, NEW e \in Editors, edit'[e] = edit[e], seen'[e] = seen[e],
         instant' \in Int, instant' >= instant, contest'.updated \in Int,
         \A q \in Bank : bank[q].passed \subseteq bank'[q].passed,
         \/ contest' = contest
         \/ contest.at # "none" /\ contest'.at # "none" /\ contest'.updated > contest.updated
  PROVE  EditTrue(e)'
<1>. SUFFICES ASSUME Under(e)' PROVE EditTrue(e)'
  BY DEF EditTrue
<1>1. Under(e) /\ EditTrue(e)
  BY DEF Under, ContestIInv
<1>2. /\ edit[e] \in Edits /\ contest \in ContestRows /\ contest.updated \in Int /\ instant \in Int
      /\ edit[e].read.updated \in Int /\ edit[e].started \in Int /\ seen[e] \in Int
  BY DEF ContestIInv, ContestTypeOK, Edits, ContestRows, Times
<1>3. contest'.at = "none" <=> contest.at = "none"
  OBVIOUS
<1>4. ApprovedPicks(edit[e].next.picks)'
  BY <1>1 DEF EditTrue, ApprovedPicks
<1>5. ReadsTheRow(e) => ReadsTheRow(e)'
  BY <1>2 DEF ReadsTheRow
<1>6. KeepsParts(e) => KeepsParts(e)'
  BY DEF KeepsParts
<1>7. edit[e].started \in 1..(instant - 1) => edit'[e].started \in 1..(instant' - 1)
  BY <1>2
<1>. QED BY <1>1, <1>3, <1>4, <1>5, <1>6, <1>7 DEF EditTrue

(* A step of one request that leaves the contest and everything beside it  *)
(* alone.                                                                  *)
LEMMA RequestMoves ==
  ASSUME ContestIInv, NEW p \in Editors, NEW row \in Edits, edit' = [edit EXCEPT ![p] = row],
         UNCHANGED <<bank, contest, rights, disabled>>,
         instant' \in 1..Instants, instant' >= instant,
         seen' \in [Editors -> Times], \A e \in Editors : e # p => seen'[e] = seen[e],
         seen'[p] <= contest.updated, EditTrue(p)',
         contest.at = "none" /\ Under(p)' => Under(p) \/ \A e \in Editors : ~Under(e)
  PROVE  ContestIInv'
<1>1. /\ ContestTypeOK /\ BankTrue /\ TimesTrue /\ OneCreator /\ ApprovedPicks(contest.picks)
      /\ \A e \in Editors : EditTrue(e)
  BY DEF ContestIInv
<1>2. /\ edit' \in [Editors -> Edits] /\ edit'[p] = row
      /\ \A e \in Editors : e # p => edit'[e] = edit[e]
  BY <1>1 DEF ContestTypeOK
<1>3. ContestTypeOK'
  BY <1>1, <1>2 DEF ContestTypeOK
<1>4. contest.updated \in Int /\ instant \in Int /\ instant' \in Int /\ contest'.updated \in Int
  BY <1>1 DEF ContestTypeOK, ContestRows, Times
<1>5. BankTrue' /\ ApprovedPicks(contest.picks)'
  BY <1>1 DEF BankTrue, ApprovedPicks
<1>6. TimesTrue'
  BY <1>1, <1>4 DEF TimesTrue
<1>7. \A e \in Editors : e # p => (Under(e)' <=> Under(e))
  BY <1>2 DEF Under
<1>8. OneCreator'
  BY <1>1, <1>7 DEF OneCreator
<1>9. \A e \in Editors : EditTrue(e)'
  <2>. SUFFICES ASSUME NEW e \in Editors, e # p PROVE EditTrue(e)'
    OBVIOUS
  <2>1. edit'[e] = edit[e] /\ seen'[e] = seen[e] /\ \A q \in Bank : bank[q].passed \subseteq bank'[q].passed
    BY <1>2
  <2>. QED BY <1>4, <2>1, OthersKeep
<1>. QED BY <1>3, <1>5, <1>6, <1>8, <1>9 DEF ContestIInv

(* Types of one request and of the contest.                                *)
LEMMA EditRow ==
  ASSUME ContestIInv, NEW p \in Editors
  PROVE  /\ edit[p] \in Edits /\ edit[p].read \in ContestRows /\ edit[p].next \in ContestRows
         /\ contest \in ContestRows /\ UserOf[p] \in Persons /\ EditTrue(p)
         /\ contest.updated \in Times /\ instant \in 1..Instants /\ seen \in [Editors -> Times]
         /\ seen[p] \in Times /\ seen[p] <= contest.updated /\ contest.updated < instant
         /\ ApprovedPicks(contest.picks)
BY ContestAssumption DEF ContestIInv, ContestTypeOK, TimesTrue, Edits, ContestRows

(* A request ends without a change.                                        *)
LEMMA Ended ==
  ASSUME ContestIInv, NEW p \in Editors, NEW how \in {"idle", "saved", "refused", "conflict"}, Ends(p, how),
         UNCHANGED <<bank, contest, rights, disabled>>,
         instant' \in 1..Instants, instant' >= instant,
         seen' \in [Editors -> Times], \A e \in Editors : e # p => seen'[e] = seen[e],
         seen'[p] <= contest.updated
  PROVE  ContestIInv'
<1>1. PICK row : row = [NoEdit EXCEPT !.at = how]
  OBVIOUS
<1>2. row \in Edits /\ row.at = how /\ edit' = [edit EXCEPT ![p] = row]
  BY <1>1, EmptyRows DEF EditSteps, Ends, Continues, NoEdit
<1>3. edit'[p] = row
  BY <1>2 DEF ContestIInv, ContestTypeOK
<1>4. ~Under(p)'
  BY <1>2, <1>3 DEF Under
<1>. QED BY <1>2, <1>4, RequestMoves DEF EditTrue

LEMMA OpenContestInv ==
  ASSUME ContestIInv, NEW p \in Editors, OpenContest(p) PROVE ContestIInv'
<1>1. seen' = [seen EXCEPT ![p] = contest.updated] /\ Ends(p, "idle") /\ UNCHANGED <<bank, contest, instant, rights, disabled>>
  BY DEF OpenContest
<1>2. contest.updated \in Times /\ instant \in 1..Instants /\ seen \in [Editors -> Times]
  BY EditRow
<1>3. /\ seen' \in [Editors -> Times] /\ \A e \in Editors : e # p => seen'[e] = seen[e]
      /\ seen'[p] <= contest.updated /\ instant' \in 1..Instants /\ instant' >= instant
  BY <1>1, <1>2 DEF Times
<1>. QED BY <1>1, <1>3, Ended

LEMMA EndedHere ==
  ASSUME ContestIInv, NEW p \in Editors, NEW how \in {"idle", "saved", "refused", "conflict"}, Ends(p, how),
         UNCHANGED <<bank, contest, seen, instant, rights, disabled>>
  PROVE  ContestIInv'
<1>1. instant \in 1..Instants /\ seen \in [Editors -> Times] /\ seen[p] <= contest.updated
  BY EditRow
<1>2. /\ instant' \in 1..Instants /\ instant' >= instant /\ seen' \in [Editors -> Times]
      /\ \A e \in Editors : e # p => seen'[e] = seen[e]
      /\ seen'[p] <= contest.updated
  BY <1>1
<1>. QED BY <1>2, Ended

(* A step of one request that changes nothing else.                        *)
LEMMA MovedHere ==
  ASSUME ContestIInv, NEW p \in Editors, NEW row \in Edits, edit' = [edit EXCEPT ![p] = row],
         UNCHANGED <<bank, contest, seen, rights, disabled>>,
         instant' \in 1..Instants, instant' >= instant, EditTrue(p)',
         contest.at = "none" /\ Under(p)' => Under(p) \/ \A e \in Editors : ~Under(e)
  PROVE  ContestIInv'
<1>1. seen \in [Editors -> Times] /\ seen[p] <= contest.updated
  BY EditRow
<1>. QED BY <1>1, RequestMoves

LEMMA BeginCreateInv ==
  ASSUME ContestIInv, NEW p \in Editors, NEW members \in Offered, NEW problems \in SUBSET Bank,
         BeginCreate(p, members, problems)
  PROVE  ContestIInv'
<1>1. PICK next : next = [contest EXCEPT !.creator = UserOf[p], !.members = members]
  OBVIOUS
<1>2. PICK row : row = [at |-> "reading", kind |-> "create", given |-> Parts, unread |-> {}, read |-> contest,
                        next |-> next, todo |-> problems, started |-> 0]
  OBVIOUS
<1>3. /\ edit' = [edit EXCEPT ![p] = row] /\ UNCHANGED <<bank, contest, seen, instant, rights, disabled>>
      /\ contest.at = "none" /\ \A e \in Editors : edit[e].kind = "create" => ~Under(e)
  BY <1>1, <1>2 DEF BeginCreate, Continues
<1>4. contest \in ContestRows /\ ApprovedPicks(contest.picks) /\ instant \in 1..Instants /\ UserOf[p] \in Persons
  BY EditRow
<1>5. next \in ContestRows /\ next.picks = contest.picks
  BY <1>1, <1>4, ContestAssumption DEF ContestRows
<1>6. 0 \in Times
  BY ContestAssumption DEF Times
<1>7. row \in Edits
  BY <1>2, <1>4, <1>5, <1>6 DEF Edits, EditSteps
<1>8. edit'[p] = row
  BY <1>3 DEF ContestIInv, ContestTypeOK
<1>9. EditTrue(p)'
  BY <1>2, <1>3, <1>4, <1>5, <1>8 DEF EditTrue, ApprovedPicks
<1>10. \A e \in Editors : ~Under(e)
  BY <1>3 DEF ContestIInv, EditTrue
<1>11. instant' \in 1..Instants /\ instant' >= instant
  BY <1>3, <1>4
<1>. QED BY <1>3, <1>7, <1>9, <1>10, <1>11, MovedHere

LEMMA BeginUpdateInv ==
  ASSUME ContestIInv, NEW p \in Editors, NEW fields \in SUBSET (Parts \cup {"text"}),
         NEW state \in ContestStates \cup {"same"}, NEW members \in Offered, NEW problems \in SUBSET Bank,
         BeginUpdate(p, fields, state, members, problems)
  PROVE  ContestIInv'
<1>0. PICK todo : todo = IF "picks" \in fields THEN problems ELSE {}
  OBVIOUS
<1>1. PICK next : next = [contest EXCEPT !.state = IF state = "same" THEN @ ELSE state,
                                         !.members = members, !.picks = NoPicks]
  OBVIOUS
<1>2. PICK row : row = [at |-> "reading", kind |-> "update", given |-> fields \cap Parts, unread |-> Parts,
                        read |-> contest, next |-> next, todo |-> todo, started |-> 0]
  OBVIOUS
<1>3. /\ edit' = [edit EXCEPT ![p] = row] /\ UNCHANGED <<bank, contest, seen, instant, rights, disabled>>
      /\ contest.at = "live" /\ LetsThrough(contest.state, fields, state)
  BY <1>0, <1>1, <1>2 DEF BeginUpdate, Continues
<1>4. /\ contest \in ContestRows /\ ApprovedPicks(contest.picks) /\ instant \in 1..Instants
      /\ seen[p] <= contest.updated /\ contest.updated \in Times /\ contest.state \in ContestStates
  BY EditRow DEF ContestRows
<1>5. /\ next \in ContestRows /\ next.picks = NoPicks
      /\ next.state = IF state = "same" THEN contest.state ELSE state
  BY <1>1, <1>4, ContestAssumption, EmptyRows DEF ContestRows
<1>6. 0 \in Times /\ todo \in SUBSET Bank
  BY <1>0, ContestAssumption DEF Times
<1>7. row \in Edits
  BY <1>2, <1>4, <1>5, <1>6 DEF Edits, EditSteps
<1>8. edit'[p] = row
  BY <1>3 DEF ContestIInv, ContestTypeOK
<1>9. ReadsTheRow(p)'
  BY <1>2, <1>3, <1>4, <1>8 DEF ReadsTheRow, Times
<1>10. KeepsParts(p)'
  <2>. SUFFICES ASSUME contest.state # "draft" PROVE KeepsParts(p)'
    BY <1>2, <1>8 DEF KeepsParts
  <2>1. fields = {} /\ state \in {"draft", "archived"} \ {contest.state}
    BY <1>3 DEF LetsThrough
  <2>2. next.state \in {"draft", "archived"} \ {contest.state} /\ todo = {}
    BY <1>0, <1>5, <2>1
  <2>. QED BY <1>2, <1>5, <1>8, <2>1, <2>2 DEF KeepsParts, Parts
<1>11. ApprovedPicks(next.picks)'
  BY <1>3, <1>5 DEF ApprovedPicks, NoPicks
<1>12. EditTrue(p)'
  BY <1>2, <1>3, <1>8, <1>9, <1>10, <1>11 DEF EditTrue, ApprovedPicks
<1>13. instant' \in 1..Instants /\ instant' >= instant
  BY <1>3, <1>4
<1>. QED BY <1>3, <1>7, <1>12, <1>13, MovedHere

LEMMA ReadMembersInv ==
  ASSUME ContestIInv, NEW p \in Editors, ReadMembers(p) PROVE ContestIInv'
<1>1. PICK old : old = edit[p]
  OBVIOUS
<1>2. /\ old \in Edits /\ old.read \in ContestRows /\ old.next \in ContestRows /\ EditTrue(p)
      /\ contest \in ContestRows /\ instant \in 1..Instants /\ contest.members \in Memberships
  BY <1>1, EditRow DEF ContestRows
<1>5. PICK row : row = [edit[p] EXCEPT !.unread = edit[p].unread \ {"members"}, !.read.members = contest.members,
                                       !.next.members = IF "members" \in edit[p].given
                                                   THEN edit[p].next.members ELSE contest.members]
  OBVIOUS
<1>6. edit' = [edit EXCEPT ![p] = row] /\ old.at = "reading"
      /\ UNCHANGED <<bank, contest, seen, instant, rights, disabled>>
  BY <1>1, <1>5 DEF ReadMembers, Continues
<1>7. PICK read, next : /\ read = [old.read EXCEPT !.members = contest.members]
                        /\ next = [old.next EXCEPT !.members = IF "members" \in old.given THEN old.next.members
                                                              ELSE contest.members]
  OBVIOUS
<1>8. /\ read \in ContestRows /\ read.picks = old.read.picks /\ read.state = old.read.state
      /\ read.updated = old.read.updated /\ read.members = contest.members
      /\ next \in ContestRows /\ next.picks = old.next.picks /\ next.state = old.next.state
      /\ next.members = IF "members" \in old.given THEN old.next.members ELSE contest.members
  BY <1>2, <1>7 DEF ContestRows
<1>9. /\ row \in Edits /\ row.at = old.at /\ row.kind = old.kind /\ row.given = old.given /\ row.todo = old.todo
      /\ row.started = old.started /\ row.unread = old.unread \ {"members"} /\ row.read = read /\ row.next = next
  BY <1>1, <1>2, <1>5, <1>7, <1>8 DEF Edits
<1>10. edit'[p] = row /\ (Under(p)' <=> Under(p))
  BY <1>1, <1>6, <1>9 DEF ContestIInv, ContestTypeOK, Under
<1>11. ReadsTheRow(p) => ReadsTheRow(p)'
  BY <1>1, <1>6, <1>8, <1>9, <1>10 DEF ReadsTheRow
<1>12. KeepsParts(p) => KeepsParts(p)'
  BY <1>1, <1>6, <1>8, <1>9, <1>10 DEF KeepsParts
<1>13. ApprovedPicks(old.next.picks) => ApprovedPicks(next.picks)'
  BY <1>6, <1>8 DEF ApprovedPicks
<1>14. EditTrue(p)'
  BY <1>1, <1>2, <1>6, <1>9, <1>10, <1>11, <1>12, <1>13 DEF EditTrue, ApprovedPicks
<1>15. instant' \in 1..Instants /\ instant' >= instant
  BY <1>2, <1>6
<1>. QED BY <1>6, <1>9, <1>10, <1>14, <1>15, MovedHere

LEMMA ReadPicksInv ==
  ASSUME ContestIInv, NEW p \in Editors, ReadPicks(p) PROVE ContestIInv'
<1>1. PICK old : old = edit[p]
  OBVIOUS
<1>2. /\ old \in Edits /\ old.read \in ContestRows /\ old.next \in ContestRows /\ EditTrue(p)
      /\ contest \in ContestRows /\ instant \in 1..Instants /\ contest.picks \in Picks
      /\ ApprovedPicks(contest.picks)
  BY <1>1, EditRow DEF ContestRows
<1>5. PICK row : row = [edit[p] EXCEPT !.unread = edit[p].unread \ {"picks"}, !.read.picks = contest.picks,
                                       !.next.picks = IF "picks" \in edit[p].given
                                                   THEN edit[p].next.picks ELSE contest.picks]
  OBVIOUS
<1>6. edit' = [edit EXCEPT ![p] = row] /\ old.at = "reading"
      /\ UNCHANGED <<bank, contest, seen, instant, rights, disabled>>
  BY <1>1, <1>5 DEF ReadPicks, Continues
<1>7. PICK read, next : /\ read = [old.read EXCEPT !.picks = contest.picks]
                        /\ next = [old.next EXCEPT !.picks = IF "picks" \in old.given THEN old.next.picks
                                                              ELSE contest.picks]
  OBVIOUS
<1>8. /\ read \in ContestRows /\ read.members = old.read.members /\ read.state = old.read.state
      /\ read.updated = old.read.updated /\ read.picks = contest.picks
      /\ next \in ContestRows /\ next.members = old.next.members /\ next.state = old.next.state
      /\ next.picks = IF "picks" \in old.given THEN old.next.picks ELSE contest.picks
  BY <1>2, <1>7 DEF ContestRows
<1>9. /\ row \in Edits /\ row.at = old.at /\ row.kind = old.kind /\ row.given = old.given /\ row.todo = old.todo
      /\ row.started = old.started /\ row.unread = old.unread \ {"picks"} /\ row.read = read /\ row.next = next
  BY <1>1, <1>2, <1>5, <1>7, <1>8 DEF Edits
<1>10. edit'[p] = row /\ (Under(p)' <=> Under(p))
  BY <1>1, <1>6, <1>9 DEF ContestIInv, ContestTypeOK, Under
<1>11. ReadsTheRow(p) => ReadsTheRow(p)'
  BY <1>1, <1>6, <1>8, <1>9, <1>10 DEF ReadsTheRow
<1>12. KeepsParts(p) => KeepsParts(p)'
  BY <1>1, <1>6, <1>8, <1>9, <1>10 DEF KeepsParts
<1>13. ApprovedPicks(old.next.picks) => ApprovedPicks(next.picks)'
  BY <1>2, <1>6, <1>8 DEF ApprovedPicks
<1>14. EditTrue(p)'
  BY <1>1, <1>2, <1>6, <1>9, <1>10, <1>11, <1>12, <1>13 DEF EditTrue, ApprovedPicks
<1>15. instant' \in 1..Instants /\ instant' >= instant
  BY <1>2, <1>6
<1>. QED BY <1>6, <1>9, <1>10, <1>14, <1>15, MovedHere

LEMMA CheckMembersInv ==
  ASSUME ContestIInv, NEW p \in Editors, CheckMembers(p) PROVE ContestIInv'
<1>1. CASE Ends(p, "refused") /\ UNCHANGED <<bank, contest, seen, instant, rights, disabled>>
  BY <1>1, EndedHere
<1>2. CASE Continues(p, [edit[p] EXCEPT !.at = "problems", !.next.members[UserOf[p]] = "manager"])
  <2>1. PICK old : old = edit[p]
    OBVIOUS
  <2>2. PICK u : u = UserOf[p]
    OBVIOUS
  <2>3. /\ old \in Edits /\ old.next \in ContestRows /\ EditTrue(p) /\ instant \in 1..Instants
        /\ old.next.members \in Memberships /\ u \in Persons /\ old.at = "reading" /\ old.unread = {}
        /\ UNCHANGED <<bank, contest, seen, instant, rights, disabled>>
    BY <2>1, <2>2, EditRow DEF ContestRows, CheckMembers
  <2>4. PICK members : members = [old.next.members EXCEPT ![u] = "manager"]
    OBVIOUS
  <2>5. members \in Memberships /\ \A v \in Persons \ {u} : members[v] = old.next.members[v]
    BY <2>3, <2>4 DEF Memberships, Roles
  <2>6. PICK next : next = [old.next EXCEPT !.members = members]
    OBVIOUS
  <2>7. next \in ContestRows /\ next.members = members /\ next.picks = old.next.picks /\ next.state = old.next.state
    BY <2>3, <2>5, <2>6 DEF ContestRows
  <2>8. PICK row : row = [edit[p] EXCEPT !.at = "problems", !.next.members[UserOf[p]] = "manager"]
    OBVIOUS
  <2>9. edit' = [edit EXCEPT ![p] = row]
    BY <1>2, <2>8 DEF Continues
  <2>10. /\ row \in Edits /\ row.at = "problems" /\ row.kind = old.kind /\ row.given = old.given /\ row.todo = old.todo
         /\ row.started = old.started /\ row.unread = old.unread /\ row.read = old.read /\ row.next = next
    BY <2>1, <2>2, <2>3, <2>4, <2>6, <2>7, <2>8, ZenonT(30) DEF Edits, EditSteps, ContestRows
  <2>11. edit'[p] = row /\ Under(p)' /\ Under(p)
    BY <2>1, <2>3, <2>9, <2>10 DEF ContestIInv, ContestTypeOK, Under
  <2>12. ReadsTheRow(p) => ReadsTheRow(p)'
    BY <2>1, <2>3, <2>10, <2>11 DEF ReadsTheRow
  <2>13. KeepsParts(p) => KeepsParts(p)'
    BY <2>1, <2>2, <2>3, <2>5, <2>7, <2>10, <2>11 DEF KeepsParts
  <2>14. ApprovedPicks(old.next.picks) => ApprovedPicks(next.picks)'
    BY <2>3, <2>7 DEF ApprovedPicks
  <2>15. EditTrue(p)'
    BY <2>1, <2>3, <2>10, <2>11, <2>12, <2>13, <2>14 DEF EditTrue, ApprovedPicks
  <2>16. instant' \in 1..Instants /\ instant' >= instant
    BY <2>3
  <2>. QED BY <2>3, <2>9, <2>10, <2>11, <2>15, <2>16, MovedHere
<1>. QED BY <1>1, <1>2 DEF CheckMembers

LEMMA PickProblemInv ==
  ASSUME ContestIInv, NEW p \in Editors, NEW q \in Bank, PickProblem(p, q) PROVE ContestIInv'
<1>1. CASE Ends(p, "refused") /\ UNCHANGED <<bank, contest, seen, instant, rights, disabled>>
  BY <1>1, EndedHere
<1>2. CASE /\ bank[q].approved
           /\ Continues(p, [edit[p] EXCEPT !.todo = edit[p].todo \ {q}, !.next.picks[q] = bank[q].revision])
  <2>1. PICK old : old = edit[p]
    OBVIOUS
  <2>2. PICK n : n = bank[q].revision
    OBVIOUS
  <2>3. /\ old \in Edits /\ old.next \in ContestRows /\ EditTrue(p) /\ instant \in 1..Instants
        /\ old.next.picks \in Picks /\ old.at = "problems" /\ q \in old.todo
        /\ UNCHANGED <<bank, contest, seen, instant, rights, disabled>>
    BY <2>1, EditRow DEF ContestRows, PickProblem
  <2>4. n \in 1..LastRevision /\ n \in bank[q].passed
    BY <1>2, <2>2 DEF ContestIInv, ContestTypeOK, BankRows, BankTrue
  <2>5. n \in 0..LastRevision
    BY <2>4
  <2>6. PICK picks : picks = [old.next.picks EXCEPT ![q] = n]
    OBVIOUS
  <2>7. picks \in Picks /\ picks[q] = n /\ \A b \in Bank : b # q => picks[b] = old.next.picks[b]
    BY <2>3, <2>5, <2>6 DEF Picks
  <2>8. PICK next : next = [old.next EXCEPT !.picks = picks]
    OBVIOUS
  <2>9. next \in ContestRows /\ next.picks = picks /\ next.members = old.next.members /\ next.state = old.next.state
    BY <2>3, <2>7, <2>8 DEF ContestRows
  <2>10. PICK row : row = [edit[p] EXCEPT !.todo = edit[p].todo \ {q}, !.next.picks[q] = bank[q].revision]
    OBVIOUS
  <2>11. edit' = [edit EXCEPT ![p] = row]
    BY <1>2, <2>10 DEF Continues
  <2>12. /\ row \in Edits /\ row.at = old.at /\ row.kind = old.kind /\ row.given = old.given
         /\ row.started = old.started /\ row.unread = old.unread /\ row.read = old.read /\ row.next = next
    BY <2>1, <2>2, <2>3, <2>6, <2>8, <2>9, <2>10, ZenonT(30) DEF Edits, ContestRows
  <2>13. edit'[p] = row /\ Under(p)' /\ Under(p)
    BY <2>1, <2>3, <2>11, <2>12 DEF ContestIInv, ContestTypeOK, Under
  <2>14. ReadsTheRow(p) => ReadsTheRow(p)'
    BY <2>1, <2>3, <2>12, <2>13 DEF ReadsTheRow
  <2>15. KeepsParts(p) => KeepsParts(p)'
    BY <2>1, <2>3, <2>12, <2>13 DEF KeepsParts
  <2>16. ApprovedPicks(old.next.picks) => ApprovedPicks(next.picks)'
    BY <2>3, <2>4, <2>7, <2>9 DEF ApprovedPicks
  <2>17. EditTrue(p)'
    BY <2>1, <2>3, <2>12, <2>13, <2>14, <2>15, <2>16 DEF EditTrue, ApprovedPicks
  <2>18. instant' \in 1..Instants /\ instant' >= instant
    BY <2>3
  <2>. QED BY <2>3, <2>11, <2>12, <2>13, <2>17, <2>18, MovedHere
<1>. QED BY <1>1, <1>2 DEF PickProblem

LEMMA BeginWriteInv ==
  ASSUME ContestIInv, NEW p \in Editors, BeginWrite(p) PROVE ContestIInv'
<1>1. PICK old : old = edit[p]
  OBVIOUS
<1>2. /\ old \in Edits /\ EditTrue(p) /\ instant \in 1..Instants /\ instant < Instants /\ old.at = "problems"
      /\ seen[p] \in Times /\ seen[p] <= contest.updated /\ contest.updated < instant /\ contest.updated \in Times
      /\ UNCHANGED <<bank, contest, seen, rights, disabled>> /\ instant' = instant + 1
  BY <1>1, EditRow DEF BeginWrite
<1>3. PICK row : row = [edit[p] EXCEPT !.at = "write", !.started = instant]
  OBVIOUS
<1>4. edit' = [edit EXCEPT ![p] = row]
  BY <1>3 DEF BeginWrite, Continues
<1>5. instant \in Times /\ instant' \in 1..Instants /\ instant' >= instant /\ instant \in 1..(instant' - 1)
      /\ seen[p] < instant
  BY <1>2, ContestAssumption DEF Times
<1>6. /\ row \in Edits /\ row.at = "write" /\ row.kind = old.kind /\ row.given = old.given /\ row.todo = old.todo
      /\ row.started = instant /\ row.unread = old.unread /\ row.read = old.read /\ row.next = old.next
  BY <1>1, <1>2, <1>3, <1>5 DEF Edits, EditSteps
<1>7. edit'[p] = row /\ Under(p)' /\ Under(p)
  BY <1>1, <1>2, <1>4, <1>6 DEF ContestIInv, ContestTypeOK, Under
<1>8. ReadsTheRow(p) => ReadsTheRow(p)'
  BY <1>1, <1>2, <1>6, <1>7 DEF ReadsTheRow
<1>9. KeepsParts(p) => KeepsParts(p)'
  BY <1>1, <1>2, <1>6, <1>7 DEF KeepsParts
<1>10. EditTrue(p)'
  BY <1>1, <1>2, <1>5, <1>6, <1>7, <1>8, <1>9 DEF EditTrue, ApprovedPicks
<1>. QED BY <1>2, <1>4, <1>5, <1>6, <1>7, <1>10, MovedHere

LEMMA BeginDeleteInv ==
  ASSUME ContestIInv, NEW p \in Editors, BeginDelete(p) PROVE ContestIInv'
<1>1. PICK row : row = [at |-> "write", kind |-> "delete", given |-> {}, unread |-> {}, read |-> contest,
                        next |-> contest, todo |-> {}, started |-> instant]
  OBVIOUS
<1>2. /\ edit' = [edit EXCEPT ![p] = row] /\ contest.at = "live" /\ instant' = instant + 1
      /\ UNCHANGED <<bank, contest, seen, rights, disabled>> /\ instant < Instants
  BY <1>1 DEF BeginDelete, Continues
<1>3. /\ contest \in ContestRows /\ instant \in 1..Instants /\ ApprovedPicks(contest.picks)
      /\ seen[p] \in Times /\ seen[p] <= contest.updated /\ contest.updated < instant /\ contest.updated \in Times
  BY EditRow
<1>4. instant \in Times /\ instant' \in 1..Instants /\ instant' >= instant /\ instant \in 1..(instant' - 1)
      /\ seen[p] < instant
  BY <1>2, <1>3, ContestAssumption DEF Times
<1>5. row \in Edits
  BY <1>1, <1>3, <1>4 DEF Edits, EditSteps
<1>6. edit'[p] = row
  BY <1>2 DEF ContestIInv, ContestTypeOK
<1>7. EditTrue(p)'
  BY <1>1, <1>2, <1>3, <1>4, <1>6 DEF EditTrue, ApprovedPicks
<1>. QED BY <1>2, <1>4, <1>5, <1>7, MovedHere

(* The row is written with a later time of change, and the writer's own    *)
(* request is over.                                                        *)
LEMMA ContestWritten ==
  ASSUME ContestIInv, contest' \in ContestRows, contest'.at # "none",
         contest'.updated > contest.updated, contest'.updated < instant', instant' \in 1..Instants,
         instant' >= instant, ApprovedPicks(contest'.picks),
         edit' \in [Editors -> Edits], seen' \in [Editors -> Times],
         \A e \in Editors : Under(e)' => edit'[e] = edit[e] /\ seen'[e] = seen[e] /\ contest.at # "none",
         \A e \in Editors : seen'[e] <= contest'.updated,
         bank' = bank, rights' = rights, disabled' \in SUBSET Persons
  PROVE  ContestIInv'
<1>1. ContestTypeOK /\ BankTrue /\ contest.updated \in Int /\ instant \in Int
  BY DEF ContestIInv, ContestTypeOK, ContestRows, Times
<1>2. ContestTypeOK'
  BY <1>1 DEF ContestTypeOK
<1>3. contest'.updated \in Int /\ instant' \in Int
  BY DEF ContestRows, Times
<1>4. BankTrue' /\ ApprovedPicks(contest.picks)' /\ TimesTrue' /\ OneCreator'
  BY <1>1 DEF BankTrue, ApprovedPicks, TimesTrue, OneCreator
<1>5. ASSUME NEW e \in Editors PROVE EditTrue(e)'
  <2>1. CASE ~Under(e)'
    BY <2>1 DEF EditTrue
  <2>2. CASE Under(e)'
    <3>1. edit'[e] = edit[e] /\ seen'[e] = seen[e] /\ contest.at # "none"
          /\ \A q \in Bank : bank[q].passed \subseteq bank'[q].passed
      BY <2>2
    <3>. QED BY <1>3, <3>1, OthersKeep
  <2>. QED BY <2>1, <2>2
<1>. QED BY <1>2, <1>4, <1>5 DEF ContestIInv

(* The answer to the request that wrote the row.                           *)
LEMMA AnsweredFacts ==
  ASSUME ContestIInv, NEW p \in Editors,
         \/ Answered(p)
         \/ Ends(p, "saved") /\ UNCHANGED seen,
         edit[p].started > contest.updated
  PROVE  /\ edit' \in [Editors -> Edits] /\ seen' \in [Editors -> Times] /\ ~Under(p)'
         /\ \A e \in Editors : e # p => edit'[e] = edit[e] /\ seen'[e] = seen[e]
         /\ \A e \in Editors : seen'[e] <= edit[p].started
<1>1. /\ edit \in [Editors -> Edits] /\ seen \in [Editors -> Times] /\ edit[p].started \in Times
      /\ contest.updated \in Times /\ \A e \in Editors : seen[e] \in Times /\ seen[e] <= contest.updated
  BY EditRow DEF ContestIInv, ContestTypeOK, Edits
<1>2. PICK how \in {"saved", "refused"} : edit' = [edit EXCEPT ![p] = [NoEdit EXCEPT !.at = how]]
  BY DEF Answered, Ends, Continues
<1>3. [NoEdit EXCEPT !.at = how] \in Edits /\ [NoEdit EXCEPT !.at = how].at = how
  BY EmptyRows DEF EditSteps, NoEdit
<1>4. edit' \in [Editors -> Edits] /\ ~Under(p)' /\ \A e \in Editors : e # p => edit'[e] = edit[e]
  BY <1>1, <1>2, <1>3 DEF Under
<1>5. seen' = seen \/ seen' = [seen EXCEPT ![p] = edit[p].started]
  BY DEF Answered
<1>6. /\ seen' \in [Editors -> Times] /\ \A e \in Editors : e # p => seen'[e] = seen[e]
      /\ \A e \in Editors : seen'[e] <= edit[p].started
  BY <1>1, <1>5 DEF Times
<1>. QED BY <1>4, <1>6

LEMMA WriteCreateInv ==
  ASSUME ContestIInv, NEW p \in Editors, WriteCreate(p) PROVE ContestIInv'
<1>1. CASE Ends(p, "refused") /\ UNCHANGED <<bank, contest, seen, instant, rights, disabled>>
  BY <1>1, EndedHere
<1>2. CASE contest' = [edit[p].next EXCEPT !.at = "live", !.updated = edit[p].started] /\ Answered(p)
  <2>1. PICK next, t : next = edit[p].next /\ t = edit[p].started
    OBVIOUS
  <2>2. /\ next \in ContestRows /\ Under(p) /\ EditTrue(p) /\ edit[p].at = "write" /\ edit[p].kind = "create"
        /\ instant \in 1..Instants /\ UNCHANGED <<bank, instant, rights, disabled>> /\ t \in Times
        /\ contest' = [next EXCEPT !.at = "live", !.updated = t]
    BY <1>2, <2>1, EditRow DEF WriteCreate, Under, Edits
  <2>3. contest.at = "none" /\ contest.updated = 0 /\ t \in 1..(instant - 1) /\ ApprovedPicks(next.picks)
    BY <2>1, <2>2 DEF EditTrue, ContestIInv, TimesTrue
  <2>4. contest' \in ContestRows /\ contest'.at = "live" /\ contest'.updated = t /\ contest'.picks = next.picks
    BY <2>2 DEF ContestRows
  <2>5. contest'.updated > contest.updated /\ contest'.updated < instant' /\ instant' \in 1..Instants
        /\ instant' >= instant
    BY <2>2, <2>3, <2>4
  <2>6. edit[p].started > contest.updated
    BY <2>1, <2>3
  <2>7. \A e \in Editors : ~Under(e)'
    <3>1. \A e \in Editors : e # p => ~Under(e)
      BY <2>2, <2>3 DEF ContestIInv, OneCreator
    <3>. QED BY <1>2, <2>6, <3>1, AnsweredFacts DEF Under
  <2>8. edit' \in [Editors -> Edits] /\ seen' \in [Editors -> Times] /\ \A e \in Editors : seen'[e] <= contest'.updated
    BY <1>2, <2>1, <2>4, <2>6, AnsweredFacts
  <2>9. ApprovedPicks(contest'.picks)
    BY <2>3, <2>4
  <2>10. disabled' \in SUBSET Persons
    BY <2>2 DEF ContestIInv, ContestTypeOK
  <2>. QED BY <2>2, <2>4, <2>5, <2>7, <2>8, <2>9, <2>10, ContestWritten
<1>. QED BY <1>1, <1>2 DEF WriteCreate

LEMMA NotWrittenInv ==
  ASSUME ContestIInv, NEW p \in Editors, NotWritten(p) PROVE ContestIInv'
<1>1. CASE Ends(p, "refused") /\ UNCHANGED <<bank, contest, seen, instant, rights, disabled>>
  BY <1>1, EndedHere
<1>2. CASE Ends(p, "conflict") /\ UNCHANGED <<bank, contest, seen, instant, rights, disabled>>
  BY <1>2, EndedHere
<1>. QED BY <1>1, <1>2 DEF NotWritten

(* Whoever passes the comparison writes later than the row was written.    *)
LEMMA WritesLater ==
  ASSUME ContestIInv, NEW p \in Editors, edit[p].at = "write", Unmoved(p)
  PROVE  /\ edit[p].started > contest.updated /\ edit[p].started \in 1..(instant - 1)
         /\ edit[p].started \in Times
<1>1. /\ seen[p] \in Int /\ contest.updated \in Int /\ contest.updated = seen[p] - (seen[p] % 2)
      /\ EditTrue(p) /\ edit[p].started \in Times
  BY EditRow DEF Unmoved, Expected, Times, Edits
<1>2. seen[p] % 2 \in 0..1 /\ edit[p].started \in 1..(instant - 1) /\ seen[p] < edit[p].started
  BY <1>1 DEF EditTrue, Under
<1>. QED BY <1>1, <1>2 DEF Times

LEMMA WriteUpdateInv ==
  ASSUME ContestIInv, NEW p \in Editors, WriteUpdate(p) \/ WriteDelete(p) PROVE ContestIInv'
<1>1. PICK next, t : next = edit[p].next /\ t = edit[p].started
  OBVIOUS
<1>2. /\ edit[p].at = "write" /\ Unmoved(p) /\ contest.at = "live" /\ UNCHANGED <<bank, instant, rights, disabled>>
      /\ Answered(p) \/ (Ends(p, "saved") /\ UNCHANGED seen)
  BY DEF WriteUpdate, WriteDelete, Allowed
<1>3. /\ contest \in ContestRows /\ next \in ContestRows /\ EditTrue(p) /\ instant \in 1..Instants
      /\ ApprovedPicks(contest.picks) /\ Under(p)
  BY <1>1, <1>2, EditRow DEF Under
<1>4. t > contest.updated /\ t \in 1..(instant - 1) /\ t \in Times /\ ApprovedPicks(next.picks)
      /\ edit[p].started > contest.updated
  BY <1>1, <1>2, <1>3, WritesLater DEF EditTrue
<1>5. /\ contest' \in ContestRows /\ contest'.at # "none" /\ contest'.updated = t
      /\ contest'.picks \in {contest.picks, next.picks}
  <2>1. CASE contest' = [contest EXCEPT !.state = next.state, !.members = next.members,
                                        !.picks = next.picks, !.updated = t]
    BY <1>2, <1>3, <1>4, <2>1 DEF ContestRows
  <2>2. CASE contest' = [contest EXCEPT !.at = "deleted", !.updated = t]
    BY <1>2, <1>3, <1>4, <2>2 DEF ContestRows
  <2>. QED BY <1>1, <2>1, <2>2 DEF WriteUpdate, WriteDelete
<1>6. contest'.updated > contest.updated /\ contest'.updated < instant' /\ instant' \in 1..Instants
      /\ instant' >= instant
  BY <1>2, <1>3, <1>4, <1>5
<1>7. /\ edit' \in [Editors -> Edits] /\ seen' \in [Editors -> Times] /\ ~Under(p)'
      /\ \A e \in Editors : e # p => edit'[e] = edit[e] /\ seen'[e] = seen[e]
      /\ \A e \in Editors : seen'[e] <= contest'.updated
  BY <1>1, <1>2, <1>4, <1>5, AnsweredFacts
<1>8. \A e \in Editors : Under(e)' => edit'[e] = edit[e] /\ seen'[e] = seen[e] /\ contest.at # "none"
  BY <1>2, <1>7
<1>9. ApprovedPicks(contest'.picks)
  BY <1>3, <1>4, <1>5
<1>10. disabled' \in SUBSET Persons
  BY <1>2 DEF ContestIInv, ContestTypeOK
<1>. QED BY <1>2, <1>5, <1>6, <1>7, <1>8, <1>9, <1>10, ContestWritten

LEMMA DeleteAccountInv ==
  ASSUME ContestIInv, NEW u \in Persons, NEW by \in Persons, DeleteAccount(u, by) PROVE ContestIInv'
<1>1. /\ instant' = instant + 1 /\ instant < Instants /\ disabled' = disabled \cup {u}
      /\ UNCHANGED <<bank, edit, seen, rights>>
  BY DEF DeleteAccount
<1>2. ContestTypeOK /\ TimesTrue /\ ApprovedPicks(contest.picks) /\ instant \in 1..Instants /\ contest.updated \in Times
  BY DEF ContestIInv, ContestTypeOK, ContestRows
<1>3. disabled' \in SUBSET Persons /\ instant' \in 1..Instants /\ instant' >= instant
  <2>1. disabled' \in SUBSET Persons
    BY <1>1, <1>2 DEF ContestTypeOK
  <2>2. instant' \in 1..Instants /\ instant' >= instant
    BY <1>1, <1>2, ContestAssumption
  <2>. QED BY <2>1, <2>2
<1>4. \A e \in Editors : Under(e)' <=> Under(e)
  BY <1>1 DEF Under
<1>5. CASE contest.at # "none" /\ contest' = [contest EXCEPT !.creator = by, !.updated = instant]
  <2>1. instant \in Times /\ contest.updated < instant /\ contest \in ContestRows
    BY <1>2, ContestAssumption DEF Times, TimesTrue, ContestTypeOK
  <2>2. /\ contest' \in ContestRows /\ contest'.at # "none" /\ contest'.updated = instant
        /\ contest'.picks = contest.picks
    BY <1>5, <2>1 DEF ContestRows
  <2>3. contest'.updated > contest.updated /\ contest'.updated < instant'
    BY <1>1, <1>2, <2>1, <2>2 DEF Times
  <2>4. edit' \in [Editors -> Edits] /\ seen' \in [Editors -> Times]
    BY <1>1, <1>2 DEF ContestTypeOK
  <2>5. \A e \in Editors : seen'[e] <= contest'.updated
    BY <1>1, <1>2, <2>1, <2>2 DEF TimesTrue, ContestTypeOK, Times
  <2>6. \A e \in Editors : Under(e)' => edit'[e] = edit[e] /\ seen'[e] = seen[e] /\ contest.at # "none"
    BY <1>1, <1>5
  <2>7. ApprovedPicks(contest'.picks)
    BY <1>2, <2>2
  <2>. QED BY <1>1, <1>3, <2>2, <2>3, <2>4, <2>5, <2>6, <2>7, ContestWritten
<1>6. CASE contest' = contest
  <2>1. ContestTypeOK' /\ BankTrue' /\ TimesTrue' /\ ApprovedPicks(contest.picks)'
    BY <1>1, <1>2, <1>3, <1>6 DEF ContestIInv, ContestTypeOK, BankTrue, TimesTrue, ApprovedPicks, Times
  <2>2. OneCreator'
    BY <1>4, <1>6 DEF ContestIInv, OneCreator
  <2>3. contest'.updated \in Int /\ instant' \in Int /\ \A q \in Bank : bank[q].passed \subseteq bank'[q].passed
    BY <1>1, <1>2, <1>3, <1>6 DEF Times
  <2>4. \A e \in Editors : EditTrue(e)'
    BY <1>1, <1>3, <1>6, <2>3, OthersKeep
  <2>. QED BY <2>1, <2>2, <2>4 DEF ContestIInv
<1>. QED BY <1>5, <1>6 DEF DeleteAccount

(* Problems, permissions and accounts change beside the contest.           *)
LEMMA BesideContest ==
  ASSUME ContestIInv, UNCHANGED <<contest, edit, seen, instant>>,
         bank' \in [Bank -> BankRows], BankTrue', \A q \in Bank : bank[q].passed \subseteq bank'[q].passed,
         rights' \in [Persons -> SUBSET Rights], disabled' \in SUBSET Persons
  PROVE  ContestIInv'
<1>1. ContestTypeOK'
  BY DEF ContestIInv, ContestTypeOK
<1>2. \A e \in Editors : Under(e)' <=> Under(e)
  BY DEF Under
<1>3. TimesTrue' /\ OneCreator' /\ ApprovedPicks(contest.picks)'
  BY <1>2 DEF ContestIInv, TimesTrue, OneCreator, ApprovedPicks
<1>4. contest'.updated \in Int /\ instant' \in Int /\ instant' >= instant
  BY DEF ContestIInv, ContestTypeOK, ContestRows, Times
<1>5. \A e \in Editors : EditTrue(e)'
  BY <1>4, OthersKeep
<1>. QED BY <1>1, <1>3, <1>5 DEF ContestIInv

LEMMA ProblemChangesInv ==
  ASSUME ContestIInv, NEW q \in Bank, ProblemChanges(q) PROVE ContestIInv'
<1>1. /\ UNCHANGED <<contest, edit, seen, instant, rights, disabled>> /\ bank \in [Bank -> BankRows] /\ BankTrue
      /\ rights' \in [Persons -> SUBSET Rights] /\ disabled' \in SUBSET Persons
  BY DEF ProblemChanges, ContestIInv, ContestTypeOK
<1>2. PICK old : old = bank[q]
  OBVIOUS
<1>3. old \in BankRows /\ (old.approved => old.revision \in old.passed)
  BY <1>1, <1>2 DEF BankTrue
<1>4. ASSUME NEW row \in BankRows PROVE Recorded(row) \in BankRows /\ row.passed \subseteq Recorded(row).passed
                                        /\ Recorded(row).approved = row.approved
                                        /\ Recorded(row).revision = row.revision
                                        /\ (row.approved => row.revision \in Recorded(row).passed)
  BY <1>4 DEF Recorded, BankRows
<1>5. \E row \in BankRows : /\ bank' = [bank EXCEPT ![q] = row] /\ old.passed \subseteq row.passed
                            /\ row.approved => row.revision \in row.passed
  <2>1. CASE bank[q].revision < LastRevision /\ Becomes(q, Recorded([bank[q] EXCEPT !.revision = bank[q].revision + 1]))
    <3>1. PICK row : row = [bank[q] EXCEPT !.revision = bank[q].revision + 1]
      OBVIOUS
    <3>2. row \in BankRows /\ row.passed = old.passed
      BY <1>2, <1>3, <2>1, <3>1, ContestAssumption DEF BankRows
    <3>3. bank' = [bank EXCEPT ![q] = Recorded(row)]
      BY <2>1, <3>1 DEF Becomes
    <3>. QED BY <1>4, <3>2, <3>3
  <2>2. CASE Becomes(q, Recorded([bank[q] EXCEPT !.approved = ~bank[q].approved]))
    <3>1. PICK row : row = [bank[q] EXCEPT !.approved = ~bank[q].approved]
      OBVIOUS
    <3>2. row \in BankRows /\ row.passed = old.passed
      BY <1>2, <1>3, <3>1 DEF BankRows
    <3>3. bank' = [bank EXCEPT ![q] = Recorded(row)]
      BY <2>2, <3>1 DEF Becomes
    <3>. QED BY <1>4, <3>2, <3>3
  <2>3. CASE Becomes(q, [bank[q] EXCEPT !.deleted = TRUE])
    <3>1. PICK row : row = [bank[q] EXCEPT !.deleted = TRUE]
      OBVIOUS
    <3>2. row \in BankRows /\ row.passed = old.passed /\ row.approved = old.approved /\ row.revision = old.revision
      BY <1>2, <1>3, <3>1 DEF BankRows
    <3>3. bank' = [bank EXCEPT ![q] = row]
      BY <2>3, <3>1 DEF Becomes
    <3>. QED BY <1>3, <3>2, <3>3
  <2>. QED BY <1>2, <2>1, <2>2, <2>3 DEF ProblemChanges
<1>6. PICK row \in BankRows : /\ bank' = [bank EXCEPT ![q] = row] /\ old.passed \subseteq row.passed
                              /\ row.approved => row.revision \in row.passed
  BY <1>5
<1>7. bank' \in [Bank -> BankRows] /\ bank'[q] = row /\ \A b \in Bank : b # q => bank'[b] = bank[b]
  BY <1>1, <1>6
<1>8. BankTrue' /\ \A b \in Bank : bank[b].passed \subseteq bank'[b].passed
  BY <1>1, <1>2, <1>6, <1>7 DEF BankTrue
<1>. QED BY <1>1, <1>7, <1>8, BesideContest

LEMMA ContestStepInv ==
  ASSUME ContestIInv, [ContestNext]_contestVars PROVE ContestIInv'
<1>0. ContestTypeOK /\ BankTrue
  BY DEF ContestIInv
<1>1. CASE UNCHANGED contestVars
  BY <1>0, <1>1, BesideContest DEF contestVars, ContestTypeOK, BankTrue
<1>2. ASSUME NEW p \in Editors, ContestStep(p) PROVE ContestIInv'
  BY <1>2, OpenContestInv, BeginCreateInv, BeginUpdateInv, BeginDeleteInv, ReadMembersInv, ReadPicksInv,
     CheckMembersInv, PickProblemInv, BeginWriteInv, WriteCreateInv, NotWrittenInv, WriteUpdateInv
     DEF ContestStep, Submits
<1>3. ASSUME NEW q \in Bank, ProblemChanges(q) PROVE ContestIInv'
  BY <1>3, ProblemChangesInv
<1>4. ASSUME NEW u \in Persons, SwitchOff(u) PROVE ContestIInv'
  BY <1>0, <1>4, BesideContest DEF SwitchOff, ContestTypeOK, BankTrue
<1>5. ASSUME NEW u \in Persons, NEW by \in Persons, DeleteAccount(u, by) PROVE ContestIInv'
  BY <1>5, DeleteAccountInv
<1>6. ASSUME NEW u \in Persons, NEW set \in Permits, ChangeRights(u, set) PROVE ContestIInv'
  <2>1. rights' \in [Persons -> SUBSET Rights]
    BY <1>0, <1>6, ContestAssumption DEF ChangeRights, ContestTypeOK
  <2>2. bank' = bank /\ disabled' = disabled /\ UNCHANGED <<contest, edit, seen, instant>>
    BY <1>6 DEF ChangeRights
  <2>. QED BY <1>0, <2>1, <2>2, BesideContest DEF ContestTypeOK, BankTrue
<1>. QED BY <1>1, <1>2, <1>3, <1>4, <1>5, <1>6 DEF ContestNext

(* Any number of pages, accounts and problems: what a save of a contest    *)
(* leaves out is completed from the row it replaces, a locked contest      *)
(* keeps its problems and people, and every revision fixed was approved.   *)
THEOREM ContestsAreSafe == ContestSpec => []ContestInv
BY ContestInitInv, ContestStepInv, ContestIInvImplies, PTL DEF ContestSpec

-----------------------------------------------------------------------------
(* Contents that hold all of revision n.                                   *)
Has(n, contents) == n = 0 \/ history[n] \subseteq contents

(* The errands of which the answer counts for its revision.                *)
Told == Uploads \cup {"toggle", "review"}

(* An errand names revisions there are, and its answer is what one of them *)
(* contains; a switch, an image and a file change nothing of that.         *)
CallFits(k) ==
    /\ request[k].asked <= revision /\ request[k].answer.revision <= revision
    /\ Pending(k) => request[k].asked <= newest
    /\ screen.at # "open" => k = "read" \/ request[k] = NoCall
    /\ screen.at = "gone" => request[k] = NoCall
    /\ request[k].at = "done" =>
          /\ request[k].answer.revision # 0
          /\ request[k].answer.contents = history[request[k].answer.revision]
          /\ k \in Told => request[k].asked # 0
          /\ k \in Told \ {"program"} =>
                history[request[k].answer.revision] = history[request[k].asked]
          /\ k \in Uploads => draft.revision < request[k].answer.revision
CallsFit == \A k \in Errands : CallFits(k)

(* A save makes the revision after the one it names, while nothing is      *)
(* uploaded.                                                               *)
SaveFits ==
    /\ Pending("save") => /\ \A k \in Uploads : request[k].at = "none"
                          /\ request["save"].asked + 1 <= newest
    /\ request["save"].at = "sent" => request["save"].answer.revision = request["save"].asked
    /\ request["save"].at = "done" => request["save"].answer.revision = request["save"].asked + 1

(* The copies are of revisions there are, and the page knows of them.      *)
CopiesFit ==
    /\ \A c \in {screen.copy, cache, draft, stray} : c.revision <= revision
    /\ screen.copy.revision <= newest /\ cache.revision <= newest
    /\ IF screen.at = "open" THEN cache.revision # 0 ELSE typed = {}

(* Every copy holds its revision.                                          *)
CopiesTrue ==
    /\ Has(screen.copy.revision, screen.copy.contents) /\ Has(cache.revision, cache.contents)
    /\ Has(draft.revision, draft.contents) /\ Has(stray.revision, stray.contents)

(* A save holds the revision it names, and the page what was sent, for as  *)
(* long as it can be accepted; what was typed is in it, until more is.     *)
SaveTrue ==
    LET own == request["save"]
    IN /\ Pending("save") => Has(own.asked, own.answer.contents)
       /\ own.at = "sent" /\ own.asked = revision =>
             own.answer.contents \subseteq screen.copy.contents
       /\ own.at = "done" => own.answer.contents \subseteq screen.copy.contents
       /\ own.at = "sent" /\ screen.same =>
             typed \subseteq own.answer.contents \cup history[revision]
       /\ own.at = "done" /\ screen.same => typed \subseteq history[revision]

(* The page holds every revision it has named, twice.                      *)
CallsTrue ==
    \A k \in Told : Pending(k) => /\ Has(request[k].asked, screen.copy.contents)
                                  /\ Has(request[k].asked, cache.contents)
RestTrue == screen.at = "open" /\ ~screen.dirty => Has(screen.copy.revision, cache.contents)

EditorTrue ==
    /\ NothingOverwritten /\ NothingTypedIsLost
    /\ CopiesTrue /\ SaveTrue /\ CallsTrue /\ RestTrue

EditorIInv ==
    /\ EditorTypeOK /\ CallsFit /\ SaveFits /\ CopiesFit
    /\ overtaken \/ EditorTrue

LEMMA EditorIInvImplies == EditorIInv => EditorInv
BY DEF EditorIInv, EditorTrue, EditorInv

LEMMA EditorInitInv == EditorInit => EditorIInv
<1>. SUFFICES ASSUME EditorInit PROVE EditorIInv
  OBVIOUS
<1>. USE EditorAssumption DEF EditorInit
<1>1. NoCopy \in Copies /\ NoCopy.revision = 0 /\ NoCopy.contents = {}
  BY DEF NoCopy, Copies, Contents
<1>2. NoCall \in Requests /\ [NoCall EXCEPT !.at = "sent"] \in Requests
  BY <1>1 DEF NoCall, Requests, Stages
<1>3. request \in [Errands -> Requests]
  BY <1>2 DEF AtFirst
<1>4. NewScreen \in Screens
  BY <1>1 DEF NewScreen, Screens
<1>5. EditorTypeOK
  <2>1. revision \in Revisions /\ newest \in 0..(MaxRevision + 1)
    BY DEF Revisions
  <2>2. history \in [Revisions -> Contents] /\ made \in Contents /\ typed \in Contents
    BY DEF Contents
  <2>. QED BY <1>1, <1>3, <1>4, <2>1, <2>2 DEF EditorTypeOK
<1>6. \A k \in Errands : /\ request[k].asked = 0 /\ request[k].answer = NoCopy
                         /\ request[k].at = IF k = "read" THEN "sent" ELSE "none"
                         /\ k # "read" => request[k] = NoCall
  BY DEF AtFirst, NoCall
<1>7. CallsFit
  BY <1>1, <1>6 DEF CallsFit, CallFits, Pending, NewScreen
<1>8. "save" \in Errands /\ Uploads \subseteq Errands \ {"read"} /\ Told \subseteq Errands \ {"read"}
  BY DEF Errands, Uploads, Told
<1>9. SaveFits
  BY <1>6, <1>8 DEF SaveFits, Pending
<1>10. CopiesFit
  BY <1>1 DEF CopiesFit, NewScreen
<1>11. NothingOverwritten /\ NothingTypedIsLost
  BY DEF NothingOverwritten, NothingTypedIsLost, NewScreen
<1>12. CopiesTrue /\ SaveTrue /\ CallsTrue /\ RestTrue
  BY <1>1, <1>6, <1>8 DEF CopiesTrue, SaveTrue, CallsTrue, RestTrue, Has, NewScreen, Pending
<1>. QED BY <1>5, <1>7, <1>9, <1>10, <1>11, <1>12 DEF EditorIInv, EditorTrue

(* What a step of the page does to its errands: each stays, is over, or is *)
(* on its way for a revision that the page knows of.                       *)
CallMoves(k) ==
    \/ request'[k] = request[k]
    \/ request'[k] = NoCall
    \/ /\ request'[k].at # "done" /\ request'[k].asked <= revision /\ request'[k].asked <= newest'
       /\ request'[k].answer.revision <= revision
       /\ screen'.at = "open" \/ (k = "read" /\ screen'.at # "gone")

LEMMA CallsStayFit ==
  ASSUME EditorTypeOK, EditorTypeOK', CallsFit, UNCHANGED <<revision, history>>, newest <= newest',
         screen'.at = "open" \/ screen'.at = screen.at,
         draft'.revision <= draft.revision \/ \A k \in Uploads : request[k].at = "none",
         \A k \in Errands : CallMoves(k)
  PROVE CallsFit'
<1>. SUFFICES ASSUME NEW k \in Errands PROVE CallFits(k)'
  BY DEF CallsFit
<1>. USE EditorAssumption
<1>0. CallFits(k) /\ CallMoves(k)
  BY DEF CallsFit
<1>1. request[k] \in Requests /\ request'[k] \in Requests /\ draft \in Copies /\ draft' \in Copies
      /\ revision \in Nat /\ newest \in Int /\ newest' \in Int
  BY DEF EditorTypeOK, Revisions
<1>2. CASE request'[k] = request[k]
  <2>1. k \in Uploads /\ request[k].at = "done" => draft'.revision < request[k].answer.revision
    <3>. SUFFICES ASSUME k \in Uploads, request[k].at = "done" PROVE draft'.revision < request[k].answer.revision
      OBVIOUS
    <3>1. draft'.revision <= draft.revision
      OBVIOUS
    <3>2. draft.revision < request[k].answer.revision
      BY <1>0 DEF CallFits
    <3>. QED BY <3>1, <3>2, <1>1 DEF Requests, Copies
  <2>2. (Pending(k) => request[k].asked <= newest)'
    BY <1>0, <1>1, <1>2 DEF CallFits, Pending, Requests
  <2>. QED BY <1>0, <1>1, <1>2, <2>1, <2>2 DEF CallFits
<1>3. CASE request'[k] = NoCall
  <2>1. request'[k].at = "none" /\ request'[k].asked = 0 /\ request'[k].answer.revision = 0
    BY <1>3 DEF NoCall, NoCopy
  <2>. QED BY <1>1, <1>3, <2>1 DEF CallFits, Pending
<1>4. CASE /\ request'[k].at # "done" /\ request'[k].asked <= revision /\ request'[k].asked <= newest'
           /\ request'[k].answer.revision <= revision
           /\ screen'.at = "open" \/ (k = "read" /\ screen'.at # "gone")
  BY <1>1, <1>4 DEF CallFits, Pending
<1>. QED BY <1>0, <1>2, <1>3, <1>4 DEF CallMoves

(* Contents that replace others hold them, or every revision the page was  *)
(* told of.                                                                *)
Kept(old, new) ==
    \/ old \subseteq new
    \/ newest <= revision /\ \A n \in 1..newest : history[n] \subseteq new

LEMMA SaveStaysTrue ==
  ASSUME EditorTypeOK, CallsFit, SaveFits, SaveTrue, UNCHANGED <<revision, history>>,
         request'["save"] = request["save"] \/ request'["save"] = NoCall,
         Kept(screen.copy.contents, screen'.copy.contents) \/ request["save"].at = "none",
         screen'.same => screen.same /\ typed' \subseteq typed
  PROVE SaveTrue'
<1>. DEFINE own == request["save"]
<1>. USE EditorAssumption
<1>1. own \in Requests /\ revision \in Nat /\ newest \in Int /\ "save" \in Errands
  BY DEF EditorTypeOK, Revisions, Errands
<1>2. CASE request'["save"] = NoCall
  BY <1>2 DEF SaveTrue, Pending, NoCall
<1>4. ASSUME request'["save"] = own
      PROVE  /\ (own.at = "sent" /\ screen.same => typed \subseteq own.answer.contents \cup history[revision])'
             /\ (own.at = "done" /\ screen.same => typed \subseteq history[revision])'
  <2>1. screen \in Screens
    BY DEF EditorTypeOK
  <2>2. CASE screen'.same
    BY <1>4, <2>2 DEF SaveTrue
  <2>3. CASE ~screen'.same
    BY <2>3
  <2>. QED BY <2>2, <2>3
<1>3. CASE request'["save"] = own
  <2>1. CASE screen.copy.contents \subseteq screen'.copy.contents
    <3>1. (Pending("save") => Has(own.asked, own.answer.contents))'
      BY <1>3 DEF SaveTrue, Pending, Has
    <3>2. (own.at = "sent" /\ own.asked = revision => own.answer.contents \subseteq screen.copy.contents)'
      BY <1>3, <2>1 DEF SaveTrue
    <3>3. (own.at = "done" => own.answer.contents \subseteq screen.copy.contents)'
      BY <1>3, <2>1 DEF SaveTrue
    <3>. QED BY <1>3, <1>4, <3>1, <3>2, <3>3 DEF SaveTrue
  <2>2. CASE newest <= revision /\ \A n \in 1..newest : history[n] \subseteq screen'.copy.contents
    <3>1. Pending("save") => own.asked + 1 <= newest
      BY DEF SaveFits
    <3>2. own.at = "sent" => own.asked # revision
      BY <1>1, <2>2, <3>1 DEF Pending, Requests
    <3>3. own.at = "done" => own.answer.contents \subseteq screen'.copy.contents
      <4>. SUFFICES ASSUME own.at = "done" PROVE own.answer.contents \subseteq screen'.copy.contents
        OBVIOUS
      <4>1. own.answer.revision \in 1..newest
        BY <1>1, <3>1 DEF Pending, Requests, SaveFits
      <4>2. own.answer.contents = history[own.answer.revision]
        BY <1>1 DEF CallsFit, CallFits
      <4>. QED BY <2>2, <4>1, <4>2
    <3>4. (Pending("save") => Has(own.asked, own.answer.contents))'
      BY <1>3 DEF SaveTrue, Pending, Has
    <3>5. (own.at = "sent" /\ own.asked = revision => own.answer.contents \subseteq screen.copy.contents)'
      BY <1>3, <3>2
    <3>6. (own.at = "done" => own.answer.contents \subseteq screen.copy.contents)'
      BY <1>3, <3>3
    <3>. QED BY <1>3, <1>4, <3>4, <3>5, <3>6 DEF SaveTrue
  <2>3. CASE request["save"].at = "none"
    BY <1>3, <2>3 DEF SaveTrue, Pending
  <2>. QED BY <2>1, <2>2, <2>3 DEF Kept
<1>. QED BY <1>2, <1>3

LEMMA CallsStayTrue ==
  ASSUME EditorTypeOK, CallsFit, CallsTrue, UNCHANGED <<revision, history>>,
         \A k \in Told : request'[k] = request[k] \/ request'[k] = NoCall,
         Kept(screen.copy.contents, screen'.copy.contents) \/ Kept(cache.contents, screen'.copy.contents),
         Kept(cache.contents, cache'.contents)
  PROVE CallsTrue'
<1>. SUFFICES ASSUME NEW k \in Told, Pending(k)'
              PROVE (Has(request[k].asked, screen.copy.contents) /\ Has(request[k].asked, cache.contents))'
  BY DEF CallsTrue
<1>. USE EditorAssumption
<1>1. request'[k] = request[k] /\ Pending(k)
  BY DEF Pending, NoCall
<1>2. k \in Errands /\ request[k] \in Requests /\ revision \in Nat /\ newest \in Int
  BY DEF EditorTypeOK, Revisions, Told, Uploads, Errands
<1>3. request[k].asked <= newest /\ request[k].asked \in Nat
  BY <1>1, <1>2 DEF CallsFit, CallFits, Requests
<1>4. ASSUME NEW old, NEW new, Kept(old, new), Has(request[k].asked, old)
      PROVE  Has(request[k].asked, new)
  BY <1>2, <1>3, <1>4 DEF Kept, Has
<1>5. Has(request[k].asked, screen'.copy.contents) /\ Has(request[k].asked, cache'.contents)
  BY <1>1, <1>4 DEF CallsTrue
<1>. QED BY <1>1, <1>5 DEF Has

LEMMA PageStepInv ==
  ASSUME EditorIInv, EditorTypeOK', UNCHANGED <<revision, history, stray>>, newest <= newest',
         screen'.at = "open" \/ screen'.at = screen.at,
         draft'.revision <= draft.revision \/ \A k \in Uploads : request[k].at = "none",
         \A k \in Errands : CallMoves(k),
         SaveFits', CopiesFit', overtaken => overtaken',
         ~overtaken' =>
            /\ \A k \in Told \cup {"save"} : request'[k] = request[k] \/ request'[k] = NoCall
            /\ \/ Kept(screen.copy.contents, screen'.copy.contents)
               \/ Kept(cache.contents, screen'.copy.contents) /\ request["save"].at = "none"
            /\ Kept(cache.contents, cache'.contents)
            /\ screen'.same => screen.same /\ typed' \subseteq typed
            /\ CopiesTrue' /\ RestTrue' /\ NothingTypedIsLost'
  PROVE EditorIInv'
<1>1. CallsFit'
  BY CallsStayFit DEF EditorIInv
<1>2. ASSUME ~overtaken' PROVE EditorTrue'
  <2>1. EditorTypeOK /\ CallsFit /\ SaveFits /\ EditorTrue
    BY <1>2 DEF EditorIInv
  <2>2. SaveTrue'
    BY <1>2, <2>1, SaveStaysTrue DEF EditorTrue
  <2>3. CallsTrue'
    BY <1>2, <2>1, CallsStayTrue DEF EditorTrue
  <2>4. NothingOverwritten'
    BY <2>1 DEF EditorTrue, NothingOverwritten
  <2>. QED BY <1>2, <2>2, <2>3, <2>4 DEF EditorTrue
<1>. QED BY <1>1, <1>2 DEF EditorIInv

LEMMA EditorKinds ==
  ASSUME EditorTypeOK
  PROVE  /\ revision \in Nat /\ 1 <= revision /\ revision <= MaxRevision /\ MaxRevision \in Nat
         /\ newest \in Nat /\ newest <= MaxRevision + 1
         /\ screen \in Screens /\ screen.copy \in Copies /\ cache \in Copies
         /\ draft \in Copies /\ stray \in Copies
         /\ request \in [Errands -> Requests]
         /\ history \in [Revisions -> Contents]
         /\ typed \in Contents /\ made \in Contents /\ overtaken \in BOOLEAN /\ powers \in SUBSET Powers
BY EditorAssumption DEF EditorTypeOK, Revisions, Screens

LEMMA EditorErrands ==
  /\ Told \cup Uploads \cup {"save"} \subseteq Errands \ {"read"}
  /\ Uploads \subseteq Told \ {"save"}
  /\ {"read", "save", "toggle", "status", "apply", "review", "decision"} \subseteq Errands
  /\ {"read", "save", "toggle", "status", "apply", "review", "decision"} \cap Uploads = {}
BY DEF Told, Uploads, Errands

LEMMA NoCallFacts ==
  /\ NoCopy \in Copies /\ NoCopy.revision = 0 /\ NoCopy.contents = {}
  /\ NoCall \in Requests /\ NoCall.at = "none" /\ NoCall.asked = 0 /\ NoCall.answer = NoCopy
  /\ NewScreen \in Screens /\ NewScreen.at = "loading" /\ NewScreen.copy = NoCopy
  /\ NewScreen.dirty = FALSE
<1>1. NoCopy \in Copies /\ NoCopy.revision = 0 /\ NoCopy.contents = {}
  BY EditorAssumption DEF NoCopy, Copies, Contents
<1>2. NoCall \in Requests /\ NoCall.at = "none" /\ NoCall.asked = 0 /\ NoCall.answer = NoCopy
  BY <1>1, EditorAssumption DEF NoCall, Requests, Stages
<1>3. NewScreen \in Screens /\ NewScreen.at = "loading" /\ NewScreen.copy = NoCopy
      /\ NewScreen.dirty = FALSE
  BY <1>1 DEF NewScreen, Screens
<1>. QED BY <1>1, <1>2, <1>3

(* What the page shows of the cache.                                       *)
OnScreen(p, copy, kept, q) ==
    /\ q \in Screens /\ q.same = p.same
    /\ \/ p.dirty /\ q = p
       \/ /\ ~p.dirty /\ q.at = "open" /\ kept.revision = copy.revision
          /\ q.copy = kept /\ q.dirty = TRUE
       \/ /\ ~p.dirty /\ q.at = "open" /\ kept.revision # copy.revision
          /\ q.copy = copy /\ q.dirty = FALSE

LEMMA ShownIs ==
  ASSUME NEW p \in Screens, NEW copy \in Copies, NEW kept \in Copies, copy.revision # 0
  PROVE  OnScreen(p, copy, kept, Shown(p, copy, kept))
<1>. DEFINE q == Shown(p, copy, kept)
<1>. USE DEF OnScreen
<1>1. CASE p.dirty
  BY <1>1 DEF Shown
<1>2. CASE ~p.dirty /\ kept.revision = copy.revision
  BY <1>2 DEF Shown, Screens
<1>3. CASE ~p.dirty /\ kept.revision # copy.revision
  <2>1. q = [p EXCEPT !.at = "open", !.copy = copy, !.says = "saved"]
    BY <1>3 DEF Shown
  <2>2. p.dirty = FALSE
    BY <1>3 DEF Screens
  <2>. QED BY <1>3, <2>1, <2>2 DEF Screens
<1>. QED BY <1>1, <1>2, <1>3

(* A copy as new as anything the page was told of holds all of that.       *)
LEMMA NewCopyKept ==
  ASSUME EditorTypeOK, NothingOverwritten, NEW c \in Copies, c.revision <= revision,
         newest <= c.revision, Has(c.revision, c.contents), NEW old
  PROVE  Kept(old, c.contents)
<1>1. revision \in Nat /\ newest \in Nat /\ c.revision \in Nat
  BY EditorKinds DEF Copies
<1>2. ASSUME NEW n \in 1..newest PROVE history[n] \subseteq c.contents
  <2>1. n \in 1..revision /\ c.revision \in 1..revision /\ n <= c.revision
    BY <1>1, <1>2
  <2>2. history[n] \subseteq history[c.revision]
    BY <2>1 DEF NothingOverwritten
  <2>3. c.revision # 0
    BY <1>1, <2>1
  <2>. QED BY <2>2, <2>3 DEF Has
<1>. QED BY <1>1, <1>2 DEF Kept

LEMMA SettlesMoves ==
  ASSUME EditorTypeOK, NEW k \in Errands, Settles(k)
  PROVE  /\ request' \in [Errands -> Requests] /\ request'[k] = NoCall
         /\ \A j \in Errands : CallMoves(j) /\ (request'[j] = request[j] \/ request'[j] = NoCall)
<1>1. request' = [request EXCEPT ![k] = NoCall]
  BY DEF Settles, Turns
<1>2. request' \in [Errands -> Requests] /\ request'[k] = NoCall
  BY <1>1, EditorKinds, NoCallFacts
<1>3. \A j \in Errands : request'[j] = request[j] \/ request'[j] = NoCall
  BY <1>1, <1>2, EditorKinds
<1>. QED BY <1>2, <1>3 DEF CallMoves

LEMMA FreshReadMoves ==
  ASSUME EditorTypeOK, EditorTypeOK', request'["read"] = [NoCall EXCEPT !.at = "sent"],
         screen'.at # "gone", \A j \in Errands \ {"read"} : request'[j] = request[j] \/ request'[j] = NoCall
  PROVE  \A j \in Errands : CallMoves(j)
<1>1. revision \in Nat /\ newest' \in Nat
  BY EditorKinds DEF EditorTypeOK
<1>2. request'["read"].at = "sent" /\ request'["read"].asked = 0 /\ request'["read"].answer = NoCopy
  BY NoCallFacts DEF NoCall
<1>3. CallMoves("read")
  BY <1>1, <1>2, NoCallFacts DEF CallMoves
<1>. QED BY <1>3 DEF CallMoves

LEMMA InvalidatesMoves ==
  ASSUME EditorTypeOK, NEW k \in Errands \ {"read"}, Invalidates(k)
  PROVE  /\ request' \in [Errands -> Requests] /\ request'[k] = NoCall
         /\ request'["read"] = [NoCall EXCEPT !.at = "sent"]
         /\ \A j \in Errands \ {"read"} : request'[j] = request[j] \/ request'[j] = NoCall
<1>1. request' = [request EXCEPT ![k] = NoCall, !["read"] = [NoCall EXCEPT !.at = "sent"]]
  BY DEF Invalidates
<1>2. [NoCall EXCEPT !.at = "sent"] \in Requests
  BY NoCallFacts DEF Requests, Stages
<1>. QED BY <1>1, <1>2, EditorKinds, NoCallFacts, EditorErrands

LEMMA SaveStaysFit ==
  ASSUME EditorTypeOK, EditorTypeOK', SaveFits, newest <= newest',
         \A k \in Uploads \cup {"save"} : request'[k] = request[k] \/ request'[k] = NoCall
  PROVE  SaveFits'
<1>1. request["save"] \in Requests /\ newest \in Nat /\ newest' \in Nat
  BY EditorKinds, EditorErrands DEF EditorTypeOK
<1>2. \A k \in Uploads : request[k].at = "none" => request'[k].at = "none"
  BY NoCallFacts
<1>3. CASE request'["save"] = NoCall
  BY <1>3, NoCallFacts DEF SaveFits, Pending
<1>4. CASE request'["save"] = request["save"]
  <2>1. request["save"].asked \in Nat
    BY <1>1 DEF Requests
  <2>2. (Pending("save") => \A k \in Uploads : request[k].at = "none")'
    BY <1>2, <1>4 DEF SaveFits, Pending
  <2>3. (Pending("save") => request["save"].asked + 1 <= newest)'
    BY <1>1, <1>4, <2>1 DEF SaveFits, Pending
  <2>. QED BY <1>4, <2>2, <2>3 DEF SaveFits
<1>. QED BY <1>3, <1>4

LEMMA AnswerIs ==
  ASSUME EditorTypeOK, CallsFit, NEW k \in Errands, request[k].at = "done"
  PROVE  /\ request[k].answer \in Copies
         /\ request[k].answer.revision # 0 /\ request[k].answer.revision <= revision
         /\ request[k].answer.contents = history[request[k].answer.revision]
         /\ Has(request[k].answer.revision, request[k].answer.contents)
<1>1. request[k] \in Requests /\ CallFits(k)
  BY EditorKinds DEF CallsFit
<1>. QED BY <1>1 DEF CallFits, Requests, Has

LEMMA HighestIs ==
  ASSUME EditorTypeOK, NEW n \in Nat
  PROVE  /\ n <= Highest(n) /\ newest <= Highest(n) /\ Highest(n) \in Nat
         /\ n <= MaxRevision + 1 => Highest(n) \in 0..(MaxRevision + 1)
BY EditorKinds DEF Highest

(* One edit in a tab.                                                      *)
LEMMA TypesInv ==
  ASSUME EditorIInv, screen.at = "open", NEW c \in Passages, Types(c)
  PROVE  EditorIInv'
<1>0. EditorTypeOK /\ CallsFit /\ SaveFits /\ CopiesFit
  BY DEF EditorIInv
<1>. USE EditorKinds, <1>0
<1>1. UNCHANGED <<revision, history, cache, draft, request, stray, powers, newest, overtaken>>
      /\ made' = made \cup {c} /\ typed' = typed \cup {c}
  BY DEF Types
<1>2. PICK copy : copy = [screen.copy EXCEPT !.contents = screen.copy.contents \cup {c}]
  OBVIOUS
<1>3. copy \in Copies /\ copy.revision = screen.copy.revision /\ copy.contents = screen.copy.contents \cup {c}
  BY <1>2 DEF Copies, Contents
<1>4. screen' = [screen EXCEPT !.copy = copy, !.dirty = TRUE, !.same = FALSE, !.says = "dirty"]
  BY <1>2 DEF Types, Screens
<1>5. screen' \in Screens /\ screen'.copy = copy /\ screen'.dirty = TRUE /\ screen'.same = FALSE
      /\ screen'.at = "open"
  BY <1>3, <1>4 DEF Screens
<1>6. EditorTypeOK'
  <2>1. made' \in Contents /\ typed' \in Contents
    BY <1>1 DEF Contents
  <2>. QED BY <1>1, <1>5, <2>1 DEF EditorTypeOK
<1>7. SaveFits' /\ CopiesFit'
  <2>1. SaveFits'
    BY <1>1 DEF SaveFits, Pending
  <2>. QED BY <1>1, <1>3, <1>5, <2>1 DEF CopiesFit
<1>8. ASSUME ~overtaken' PROVE CopiesTrue' /\ RestTrue' /\ NothingTypedIsLost'
  <2>1. EditorTrue
    BY <1>1, <1>8 DEF EditorIInv
  <2>2. CopiesTrue'
    BY <1>1, <1>3, <1>5, <2>1 DEF EditorTrue, CopiesTrue, Has
  <2>3. RestTrue' /\ NothingTypedIsLost'
    BY <1>1, <1>3, <1>5, <2>1 DEF EditorTrue, RestTrue, NothingTypedIsLost
  <2>. QED BY <2>2, <2>3
<1>9. screen.copy.contents \subseteq screen'.copy.contents
  BY <1>3, <1>5
<1>10. /\ Kept(screen.copy.contents, screen'.copy.contents) /\ Kept(cache.contents, cache'.contents)
       /\ \A k \in Errands : CallMoves(k)
  BY <1>1, <1>9 DEF Kept, CallMoves
<1>11. newest <= newest' /\ draft'.revision <= draft.revision
  BY <1>1 DEF Copies
<1>. QED BY <1>1, <1>5, <1>6, <1>7, <1>8, <1>10, <1>11, PageStepInv

(* A save is sent.                                                         *)
LEMMA SaveNowInv ==
  ASSUME EditorIInv, screen.at = "open", SaveNow
  PROVE  EditorIInv'
<1>0. EditorTypeOK /\ CallsFit /\ SaveFits /\ CopiesFit
  BY DEF EditorIInv
<1>. USE EditorKinds, <1>0
<1>1. UNCHANGED <<revision, history, stray, powers, made, cache, draft, typed, overtaken>>
      /\ screen.dirty /\ request["save"].at = "none"
      /\ \A k \in Uploads : request[k].at = "none"
  BY DEF SaveNow, ServerStays, CanSave, Pending, Uploading
<1>2. PICK own : own = [at |-> "sent", asked |-> screen.copy.revision, answer |-> screen.copy]
  OBVIOUS
<1>3. own \in Requests /\ own.at = "sent" /\ own.asked = screen.copy.revision /\ own.answer = screen.copy
  BY <1>2 DEF Requests, Stages, Copies
<1>4. request' = [request EXCEPT !["save"] = own]
  BY <1>2 DEF SaveNow, Turns
<1>5. request' \in [Errands -> Requests] /\ request'["save"] = own
      /\ \A k \in Errands \ {"save"} : request'[k] = request[k]
  BY <1>3, <1>4, EditorErrands
<1>6. screen' = [screen EXCEPT !.same = TRUE, !.says = "saving"]
  BY DEF SaveNow
<1>7. screen' \in Screens /\ screen'.copy = screen.copy /\ screen'.dirty = screen.dirty
      /\ screen'.at = "open" /\ screen'.same = TRUE
  BY <1>6 DEF Screens
<1>8. screen.copy.revision \in 0..MaxRevision /\ screen.copy.revision <= revision
  BY DEF Copies, CopiesFit
<1>9. newest' \in 0..(MaxRevision + 1) /\ newest <= newest' /\ screen.copy.revision + 1 <= newest'
  BY <1>8, HighestIs DEF SaveNow
<1>10. EditorTypeOK'
  BY <1>1, <1>5, <1>7, <1>9 DEF EditorTypeOK
<1>11. \A k \in Errands : CallMoves(k)
  <2>1. CallMoves("save")
    BY <1>3, <1>5, <1>7, <1>8, <1>9 DEF CallMoves
  <2>. QED BY <1>5, <2>1 DEF CallMoves
<1>12. CallsFit'
  BY <1>1, <1>7, <1>9, <1>10, <1>11, CallsStayFit DEF Copies
<1>13. SaveFits'
  BY <1>1, <1>3, <1>5, <1>9, EditorErrands DEF SaveFits, Pending
<1>14. CopiesFit'
  BY <1>1, <1>7, <1>9 DEF CopiesFit, Copies
<1>15. ASSUME ~overtaken' PROVE EditorTrue'
  <2>1. EditorTrue
    BY <1>1, <1>15 DEF EditorIInv
  <2>2. CopiesTrue' /\ RestTrue' /\ NothingTypedIsLost' /\ NothingOverwritten'
    BY <1>1, <1>7, <2>1 DEF EditorTrue, CopiesTrue, RestTrue, NothingTypedIsLost, NothingOverwritten, Has
  <2>3. SaveTrue'
    <3>1. typed \subseteq history[revision] \cup screen.copy.contents
      BY <1>1, <2>1 DEF EditorTrue, NothingTypedIsLost
    <3>2. Has(screen.copy.revision, screen.copy.contents)
      BY <2>1 DEF EditorTrue, CopiesTrue
    <3>. QED BY <1>1, <1>3, <1>5, <1>7, <3>1, <3>2 DEF SaveTrue, Has
  <2>4. CallsTrue'
    <3>1. ASSUME NEW k \in Told, Pending(k)'
          PROVE  Pending(k) /\ request'[k] = request[k]
      BY <1>5, <3>1, EditorErrands DEF Pending, Told, Uploads
    <3>. QED BY <1>1, <1>7, <2>1, <3>1 DEF EditorTrue, CallsTrue, Has
  <2>. QED BY <2>2, <2>3, <2>4 DEF EditorTrue
<1>. QED BY <1>10, <1>12, <1>13, <1>14, <1>15 DEF EditorIInv

(* The answer to a save: the page is as the server has it, or keeps what   *)
(* was typed since.                                                        *)
LEMMA SaveArrivesInv ==
  ASSUME EditorIInv, screen.at = "open", SaveArrives
  PROVE  EditorIInv'
<1>0. EditorTypeOK /\ CallsFit /\ SaveFits /\ CopiesFit
  BY DEF EditorIInv
<1>. USE EditorKinds, <1>0
<1>. DEFINE answer == request["save"].answer
<1>1. /\ UNCHANGED <<revision, history, stray, powers, made, typed>>
      /\ request["save"].at = "done" /\ cache' = answer /\ draft' = NoCopy
  BY DEF SaveArrives, ServerStays
<1>2. /\ answer \in Copies /\ answer.revision # 0 /\ answer.revision <= revision
      /\ answer.contents = history[answer.revision] /\ Has(answer.revision, answer.contents)
  BY <1>1, AnswerIs, EditorErrands
<1>. HIDE DEF answer
<1>3. newest' = Highest(answer.revision) /\ overtaken' = (overtaken \/ answer.revision < newest)
  BY <1>1 DEF SaveArrives, Tells
<1>4. newest' \in 0..(MaxRevision + 1) /\ newest <= newest' /\ answer.revision <= newest'
  BY <1>2, <1>3, HighestIs DEF Copies
<1>5. PICK late : late = [screen EXCEPT !.copy.revision = answer.revision, !.says = "dirty"]
  OBVIOUS
<1>6. late \in Screens /\ late.same = screen.same /\ late.dirty = screen.dirty /\ late.at = "open"
      /\ late.copy \in Copies /\ late.copy.revision = answer.revision
      /\ late.copy.contents = screen.copy.contents
  BY <1>2, <1>5 DEF Screens, Copies
<1>7. \/ screen.same /\ screen' = [screen EXCEPT !.copy = answer, !.dirty = FALSE, !.says = "saved"]
      \/ screen' = Shown(late, answer, NoCopy)
  BY <1>1, <1>5 DEF SaveArrives, Unchanged
<1>8. screen' \in Screens /\ screen'.at = "open" /\ screen'.same = screen.same
      /\ \/ /\ screen'.copy = answer /\ screen'.dirty = FALSE
            /\ screen.same \/ ~screen.dirty
         \/ screen'.copy = late.copy /\ screen'.dirty = TRUE /\ screen.dirty
  <2>1. CASE screen.same /\ screen' = [screen EXCEPT !.copy = answer, !.dirty = FALSE, !.says = "saved"]
    BY <1>2, <2>1 DEF Screens
  <2>2. CASE screen' = Shown(late, answer, NoCopy)
    <3>1. NoCopy.revision # answer.revision /\ NoCopy \in Copies
      BY <1>2, NoCallFacts
    <3>5. late \in Screens /\ answer \in Copies /\ answer.revision # 0
      BY <1>2, <1>6
    <3>6. OnScreen(late, answer, NoCopy, screen')
      BY <2>2, <3>1, <3>5, ShownIs
    <3>2. /\ screen' \in Screens /\ screen'.same = late.same
          /\ \/ late.dirty /\ screen' = late
             \/ ~late.dirty /\ screen'.at = "open" /\ screen'.copy = answer /\ screen'.dirty = FALSE
      BY <3>1, <3>6 DEF OnScreen
    <3>3. CASE late.dirty
      BY <1>6, <3>2, <3>3 DEF Screens
    <3>4. CASE ~late.dirty
      BY <1>6, <3>2, <3>4
    <3>. QED BY <3>3, <3>4
  <2>. QED BY <1>7, <2>1, <2>2
<1>9. /\ request' \in [Errands -> Requests] /\ request'["save"] = NoCall
      /\ \A j \in Errands : CallMoves(j) /\ (request'[j] = request[j] \/ request'[j] = NoCall)
  BY EditorErrands, SettlesMoves DEF SaveArrives
<1>10. EditorTypeOK'
  BY <1>1, <1>2, <1>3, <1>4, <1>8, <1>9, NoCallFacts DEF EditorTypeOK
<1>11. SaveFits' /\ CopiesFit'
  <2>1. SaveFits'
    BY <1>4, <1>9, <1>10, SaveStaysFit, EditorErrands
  <2>2. screen'.copy.revision = answer.revision
    BY <1>6, <1>8
  <2>. QED BY <1>1, <1>2, <1>4, <1>8, <2>1, <2>2, NoCallFacts DEF CopiesFit
<1>12. ASSUME ~overtaken'
       PROVE  /\ Kept(screen.copy.contents, screen'.copy.contents) /\ Kept(cache.contents, cache'.contents)
              /\ CopiesTrue' /\ RestTrue' /\ NothingTypedIsLost'
  <2>1. EditorTrue /\ newest <= answer.revision
    <3>1. ~overtaken /\ ~(answer.revision < newest)
      BY <1>3, <1>12
    <3>. QED BY <1>2, <3>1 DEF EditorIInv, Copies
  <2>2. \A old : Kept(old, answer.contents)
    BY <1>2, <2>1, NewCopyKept DEF EditorTrue
  <2>3. answer.contents \subseteq screen.copy.contents
    BY <1>1, <2>1 DEF EditorTrue, SaveTrue, answer
  <2>4. Has(answer.revision, late.copy.contents)
    BY <1>2, <1>6, <2>3 DEF Has
  <2>5. Has(screen'.copy.revision, screen'.copy.contents) /\ Kept(screen.copy.contents, screen'.copy.contents)
    BY <1>2, <1>6, <1>8, <2>2, <2>4 DEF Kept
  <2>6. CopiesTrue'
    BY <1>1, <1>2, <2>1, <2>5, NoCallFacts DEF EditorTrue, CopiesTrue, Has
  <2>7. RestTrue'
    BY <1>1, <1>2, <1>8 DEF RestTrue, Has
  <2>8. NothingTypedIsLost'
    <3>1. CASE screen.dirty /\ screen'.copy = late.copy /\ screen'.dirty = TRUE
      BY <1>1, <1>6, <2>1, <3>1 DEF EditorTrue, NothingTypedIsLost
    <3>2. CASE screen.same
      BY <1>1, <2>1, <3>2 DEF EditorTrue, SaveTrue, NothingTypedIsLost
    <3>3. CASE ~screen.dirty
      BY <1>1, <2>1, <3>3 DEF EditorTrue, NothingTypedIsLost
    <3>. QED BY <1>8, <3>1, <3>2, <3>3
  <2>. QED BY <1>1, <2>2, <2>5, <2>6, <2>7, <2>8
<1>13. draft'.revision <= draft.revision
  BY <1>1, NoCallFacts DEF Copies
<1>. QED BY <1>1, <1>3, <1>4, <1>8, <1>9, <1>10, <1>11, <1>12, <1>13, EditorErrands, PageStepInv

(* A save has failed: what was sent is the draft of this session.          *)
LEMMA SaveFailsInv ==
  ASSUME EditorIInv, screen.at = "open", SaveFails
  PROVE  EditorIInv'
<1>0. EditorTypeOK /\ CallsFit /\ SaveFits /\ CopiesFit
  BY DEF EditorIInv
<1>. USE EditorKinds, <1>0
<1>1. /\ UNCHANGED <<revision, history, stray, powers, made, cache, typed, newest, overtaken>>
      /\ request["save"].at = "failed" /\ Pending("save")
  BY DEF SaveFails, ServerStays, Pending
<1>2. screen' = [screen EXCEPT !.says = "failed"]
  BY DEF SaveFails
<1>3. screen' \in Screens /\ screen'.copy = screen.copy /\ screen'.dirty = screen.dirty
      /\ screen'.at = "open" /\ screen'.same = screen.same
  BY <1>2 DEF Screens
<1>4. request["save"] \in Requests /\ request["save"].answer \in Copies /\ CallFits("save")
  BY EditorErrands DEF Requests, CallsFit
<1>5. draft' \in Copies /\ draft'.revision = request["save"].asked
      /\ draft'.contents = request["save"].answer.contents
  BY <1>4 DEF SaveFails, Copies, Requests
<1>6. /\ request' \in [Errands -> Requests] /\ request'["save"] = NoCall
      /\ \A j \in Errands : CallMoves(j) /\ (request'[j] = request[j] \/ request'[j] = NoCall)
  BY EditorErrands, SettlesMoves DEF SaveFails
<1>7. EditorTypeOK'
  BY <1>1, <1>3, <1>5, <1>6 DEF EditorTypeOK
<1>8. SaveFits' /\ CopiesFit'
  <2>1. SaveFits'
    BY <1>1, <1>6, <1>7, SaveStaysFit, EditorErrands
  <2>. QED BY <1>1, <1>3, <1>4, <1>5, <2>1 DEF CopiesFit, CallFits
<1>9. \A k \in Uploads : request[k].at = "none"
  BY <1>1 DEF SaveFits
<1>10. ASSUME ~overtaken' PROVE CopiesTrue' /\ RestTrue' /\ NothingTypedIsLost'
  <2>1. EditorTrue
    BY <1>1, <1>10 DEF EditorIInv
  <2>2. Has(request["save"].asked, request["save"].answer.contents)
    BY <1>1, <2>1 DEF EditorTrue, SaveTrue
  <2>. QED BY <1>1, <1>3, <1>5, <2>1, <2>2
           DEF EditorTrue, CopiesTrue, RestTrue, NothingTypedIsLost, Has
<1>11. Kept(screen.copy.contents, screen'.copy.contents) /\ Kept(cache.contents, cache'.contents)
  BY <1>1, <1>3 DEF Kept
<1>. QED BY <1>1, <1>3, <1>6, <1>7, <1>8, <1>9, <1>10, <1>11, EditorErrands, PageStepInv

(* Steps that change the errands only.                                     *)
LEMMA ErrandsOnlyInv ==
  ASSUME EditorIInv, ServerStays, UNCHANGED <<screen, cache, draft, typed, newest, overtaken>>,
         request' \in [Errands -> Requests], \A k \in Errands : CallMoves(k),
         \A k \in Told \cup {"save"} : request'[k] = request[k] \/ request'[k] = NoCall
  PROVE  EditorIInv'
<1>0. EditorTypeOK /\ CallsFit /\ SaveFits /\ CopiesFit
  BY DEF EditorIInv
<1>. USE EditorKinds, <1>0 DEF ServerStays
<1>1. EditorTypeOK'
  BY DEF EditorTypeOK
<1>2. SaveFits' /\ CopiesFit'
  <2>1. SaveFits'
    BY <1>1, SaveStaysFit, EditorErrands
  <2>. QED BY <2>1 DEF CopiesFit
<1>3. ASSUME ~overtaken' PROVE CopiesTrue' /\ RestTrue' /\ NothingTypedIsLost'
  BY <1>3 DEF EditorIInv, EditorTrue, CopiesTrue, RestTrue, NothingTypedIsLost, Has
<1>4. Kept(screen.copy.contents, screen'.copy.contents) /\ Kept(cache.contents, cache'.contents)
  BY DEF Kept
<1>5. newest <= newest' /\ draft'.revision <= draft.revision
  BY DEF Copies
<1>. QED BY <1>1, <1>2, <1>3, <1>4, <1>5, PageStepInv

LEMMA SettlesOnlyInv ==
  ASSUME EditorIInv, ServerStays, UNCHANGED <<screen, cache, draft, typed, newest, overtaken>>,
         NEW k \in Errands, Settles(k)
  PROVE  EditorIInv'
<1>1. EditorTypeOK
  BY DEF EditorIInv
<1>. QED BY <1>1, SettlesMoves, ErrandsOnlyInv, EditorErrands

LEMMA InvalidatesOnlyInv ==
  ASSUME EditorIInv, ServerStays, UNCHANGED <<screen, cache, draft, typed, newest, overtaken>>,
         NEW k \in Errands \ {"read"}, Invalidates(k), screen.at # "gone"
  PROVE  EditorIInv'
<1>1. EditorTypeOK
  BY DEF EditorIInv
<1>2. request' \in [Errands -> Requests]
  BY <1>1, InvalidatesMoves
<1>3. EditorTypeOK'
  BY <1>1, <1>2 DEF EditorTypeOK, ServerStays
<1>4. \A j \in Errands : CallMoves(j)
  BY <1>1, <1>3, InvalidatesMoves, FreshReadMoves
<1>. QED BY <1>1, <1>2, <1>4, InvalidatesMoves, ErrandsOnlyInv, EditorErrands

LEMMA ReadsAnewInv == EditorIInv /\ ReadsAnew => EditorIInv'
<1>. SUFFICES ASSUME EditorIInv, ReadsAnew PROVE EditorIInv'
  OBVIOUS
<1>1. EditorTypeOK
  BY DEF EditorIInv
<1>2. request' = [request EXCEPT !["read"] = [NoCall EXCEPT !.at = "sent"]]
  BY DEF ReadsAnew, Turns
<1>3. [NoCall EXCEPT !.at = "sent"] \in Requests
  BY NoCallFacts DEF Requests, Stages
<1>4. request' \in [Errands -> Requests] /\ request'["read"] = [NoCall EXCEPT !.at = "sent"]
      /\ \A k \in Errands \ {"read"} : request'[k] = request[k]
  BY <1>1, <1>2, <1>3, EditorKinds, EditorErrands
<1>5. ServerStays /\ UNCHANGED <<screen, cache, draft, typed, newest, overtaken>> /\ screen'.at # "gone"
  BY DEF ReadsAnew
<1>6. EditorTypeOK'
  BY <1>1, <1>4, <1>5 DEF EditorTypeOK, ServerStays
<1>7. \A k \in Errands : CallMoves(k)
  BY <1>1, <1>4, <1>5, <1>6, FreshReadMoves
<1>. QED BY <1>4, <1>5, <1>7, ErrandsOnlyInv, EditorErrands

LEMMA ApplyFailsInv == EditorIInv /\ screen.at = "open" /\ ApplyFails => EditorIInv'
<1>. SUFFICES ASSUME EditorIInv, screen.at = "open", ApplyFails PROVE EditorIInv'
  OBVIOUS
<1>1. EditorTypeOK
  BY DEF EditorIInv
<1>2. ServerStays /\ UNCHANGED <<screen, cache, draft, typed, newest, overtaken>>
  BY DEF ApplyFails
<1>3. CASE Settles("apply")
  BY <1>2, <1>3, SettlesOnlyInv, EditorErrands
<1>4. CASE Invalidates("apply")
  BY <1>2, <1>4, InvalidatesOnlyInv, EditorErrands
<1>5. CASE Turns("apply", [NoCall EXCEPT !.at = "again"])
  <2>1. PICK row : row = [NoCall EXCEPT !.at = "again"]
    OBVIOUS
  <2>2. row \in Requests /\ row.at = "again" /\ row.asked = 0 /\ row.answer = NoCopy
    BY <2>1, NoCallFacts DEF Requests, Stages
  <2>3. request' = [request EXCEPT !["apply"] = row]
    BY <1>5, <2>1 DEF Turns
  <2>4. request' \in [Errands -> Requests] /\ request'["apply"] = row
        /\ \A k \in Errands \ {"apply"} : request'[k] = request[k]
    BY <1>1, <2>2, <2>3, EditorKinds, EditorErrands
  <2>5. revision \in Nat /\ newest' \in Nat /\ screen'.at = "open"
    BY <1>1, <1>2, EditorKinds
  <2>6. \A k \in Errands : CallMoves(k)
    BY <2>2, <2>4, <2>5, NoCallFacts DEF CallMoves
  <2>7. \A k \in Told \cup {"save"} : request'[k] = request[k]
    BY <2>4, EditorErrands DEF Told, Uploads
  <2>. QED BY <1>2, <2>4, <2>6, <2>7, ErrandsOnlyInv
<1>. QED BY <1>3, <1>4, <1>5 DEF ApplyFails

(* An errand other than a save starts from a page without unsaved edits.   *)
LEMMA StartsInv ==
  ASSUME EditorIInv, screen.at = "open", NEW k \in Errands \ {"read", "save"}, Starts(k),
         ~screen.dirty, k \in Uploads => request["save"].at = "none"
  PROVE  EditorIInv'
<1>0. EditorTypeOK /\ CallsFit /\ SaveFits /\ CopiesFit
  BY DEF EditorIInv
<1>. USE EditorKinds, <1>0
<1>1. UNCHANGED <<revision, history, stray, powers, made, screen, cache, draft, typed, newest, overtaken>>
      /\ request[k].at = "none"
  BY DEF Starts, ServerStays, Pending
<1>2. PICK own : own = [NoCall EXCEPT !.at = "sent", !.asked = screen.copy.revision]
  OBVIOUS
<1>3. own \in Requests /\ own.at = "sent" /\ own.asked = screen.copy.revision /\ own.answer = NoCopy
  BY <1>2, NoCallFacts DEF Requests, Stages, Copies
<1>4. request' = [request EXCEPT ![k] = own]
  BY <1>2 DEF Starts, Sends, Turns
<1>5. request' \in [Errands -> Requests] /\ request'[k] = own
      /\ \A j \in Errands \ {k} : request'[j] = request[j]
  BY <1>3, <1>4
<1>6. EditorTypeOK'
  BY <1>1, <1>5 DEF EditorTypeOK
<1>7. screen.copy.revision <= revision /\ screen.copy.revision <= newest
  BY DEF CopiesFit
<1>8. \A j \in Errands : CallMoves(j)
  <2>1. CallMoves(k)
    BY <1>1, <1>3, <1>5, <1>7, NoCallFacts DEF CallMoves
  <2>. QED BY <1>5, <2>1 DEF CallMoves
<1>9. CallsFit'
  <2>1. newest <= newest' /\ draft'.revision <= draft.revision
    BY <1>1 DEF Copies
  <2>. QED BY <1>1, <1>6, <1>8, <2>1, CallsStayFit
<1>10. SaveFits'
  <2>1. request'["save"] = request["save"]
    BY <1>5, EditorErrands
  <2>2. Pending("save")' => \A j \in Uploads : request'[j].at = "none"
    BY <1>5, <2>1, EditorErrands DEF SaveFits, Pending
  <2>. QED BY <1>1, <2>1, <2>2 DEF SaveFits, Pending
<1>11. CopiesFit'
  BY <1>1 DEF CopiesFit
<1>12. ASSUME ~overtaken' PROVE EditorTrue'
  <2>1. EditorTrue
    BY <1>1, <1>12 DEF EditorIInv
  <2>2. CopiesTrue' /\ RestTrue' /\ NothingTypedIsLost' /\ NothingOverwritten'
    BY <1>1, <2>1 DEF EditorTrue, CopiesTrue, RestTrue, NothingTypedIsLost, NothingOverwritten, Has
  <2>3. SaveTrue'
    <3>1. request'["save"] = request["save"]
      BY <1>5, EditorErrands
    <3>. QED BY <1>1, <2>1, <3>1 DEF EditorTrue, SaveTrue, Pending, Has
  <2>4. CallsTrue'
    <3>1. Has(screen.copy.revision, screen.copy.contents) /\ Has(screen.copy.revision, cache.contents)
      BY <2>1 DEF EditorTrue, CopiesTrue, RestTrue
    <3>2. ASSUME NEW j \in Told, Pending(j)'
          PROVE (Has(request[j].asked, screen.copy.contents) /\ Has(request[j].asked, cache.contents))'
      <4>1. CASE j = k
        BY <1>1, <1>3, <1>5, <3>1, <4>1 DEF Has
      <4>2. CASE j # k
        <5>1. request'[j] = request[j] /\ Pending(j)
          BY <1>5, <3>2, <4>2, EditorErrands DEF Pending
        <5>. QED BY <1>1, <2>1, <5>1 DEF EditorTrue, CallsTrue, Has
      <4>. QED BY <4>1, <4>2
    <3>. QED BY <3>2 DEF CallsTrue
  <2>. QED BY <2>2, <2>3, <2>4 DEF EditorTrue
<1>. QED BY <1>6, <1>9, <1>10, <1>11, <1>12 DEF EditorIInv

(* The answer to a read: in the cache, and shown if nothing is unsaved.    *)
LEMMA ReadArrivesInv ==
  ASSUME EditorIInv, ReadArrives
  PROVE  EditorIInv'
<1>0. EditorTypeOK /\ CallsFit /\ SaveFits /\ CopiesFit
  BY DEF EditorIInv
<1>. USE EditorKinds, <1>0
<1>. DEFINE answer == request["read"].answer
<1>1. /\ UNCHANGED <<revision, history, stray, powers, made, typed, draft>>
      /\ request["read"].at = "done" /\ cache' = answer
  BY DEF ReadArrives, ServerStays
<1>2. /\ answer \in Copies /\ answer.revision # 0 /\ answer.revision <= revision
      /\ answer.contents = history[answer.revision] /\ Has(answer.revision, answer.contents)
  BY <1>1, AnswerIs, EditorErrands
<1>. HIDE DEF answer
<1>3. newest' = Highest(answer.revision) /\ overtaken' = (overtaken \/ answer.revision < newest)
  BY <1>1 DEF ReadArrives, Tells
<1>4. newest' \in 0..(MaxRevision + 1) /\ newest <= newest' /\ answer.revision <= newest'
  BY <1>2, <1>3, HighestIs DEF Copies
<1>5. \/ cache = answer /\ screen' = screen
      \/ OnScreen(screen, answer, draft, screen')
  BY <1>1, <1>2, ShownIs DEF ReadArrives
<1>6. /\ screen' \in Screens /\ screen'.same = screen.same
      /\ \/ screen' = screen /\ (screen.dirty \/ cache = answer)
         \/ /\ ~screen.dirty /\ screen'.at = "open" /\ draft.revision = answer.revision
            /\ screen'.copy = draft /\ screen'.dirty = TRUE
         \/ ~screen.dirty /\ screen'.at = "open" /\ screen'.copy = answer /\ screen'.dirty = FALSE
  BY <1>5 DEF OnScreen
<1>7. /\ request' \in [Errands -> Requests] /\ request'["read"] = NoCall
      /\ \A j \in Errands : CallMoves(j) /\ (request'[j] = request[j] \/ request'[j] = NoCall)
  BY EditorErrands, SettlesMoves DEF ReadArrives
<1>8. EditorTypeOK'
  BY <1>1, <1>2, <1>3, <1>4, <1>6, <1>7 DEF EditorTypeOK
<1>9. SaveFits' /\ CopiesFit'
  <2>1. SaveFits'
    BY <1>4, <1>7, <1>8, SaveStaysFit, EditorErrands
  <2>2. screen'.copy.revision \in {screen.copy.revision, answer.revision}
    BY <1>6
  <2>3. screen'.copy.revision <= revision /\ screen'.copy.revision <= newest'
    BY <1>2, <1>4, <2>2 DEF CopiesFit, Copies
  <2>4. screen'.at # "open" => typed' = {}
    BY <1>1, <1>6 DEF CopiesFit
  <2>. QED BY <1>1, <1>2, <1>4, <2>1, <2>3, <2>4 DEF CopiesFit
<1>10. ASSUME ~overtaken'
       PROVE  /\ Kept(screen.copy.contents, screen'.copy.contents) /\ Kept(cache.contents, cache'.contents)
              /\ CopiesTrue' /\ RestTrue' /\ NothingTypedIsLost'
  <2>1. EditorTrue /\ newest <= answer.revision
    <3>1. ~overtaken /\ ~(answer.revision < newest)
      BY <1>3, <1>10
    <3>. QED BY <1>2, <3>1 DEF EditorIInv, Copies
  <2>2. \A old : Kept(old, answer.contents)
    BY <1>2, <2>1, NewCopyKept DEF EditorTrue
  <2>3. Has(draft.revision, draft.contents)
    BY <2>1 DEF EditorTrue, CopiesTrue
  <2>4. draft.revision = answer.revision => \A old : Kept(old, draft.contents)
    BY <1>2, <2>1, <2>3, NewCopyKept DEF EditorTrue, CopiesFit
  <2>5. Kept(screen.copy.contents, screen'.copy.contents)
    BY <1>6, <2>2, <2>4 DEF Kept
  <2>6. Has(screen'.copy.revision, screen'.copy.contents)
    BY <1>2, <1>6, <2>1, <2>3 DEF EditorTrue, CopiesTrue
  <2>7. CopiesTrue'
    BY <1>1, <1>2, <2>1, <2>6 DEF EditorTrue, CopiesTrue, Has
  <2>8. RestTrue'
    BY <1>1, <1>2, <1>6, <2>1 DEF EditorTrue, RestTrue, Has
  <2>9. NothingTypedIsLost'
    <3>1. CASE screen' = screen
      BY <1>1, <2>1, <3>1 DEF EditorTrue, NothingTypedIsLost
    <3>2. CASE ~screen.dirty
      BY <1>1, <2>1, <3>2 DEF EditorTrue, NothingTypedIsLost, CopiesFit
    <3>. QED BY <1>6, <3>1, <3>2
  <2>. QED BY <1>1, <2>2, <2>5, <2>7, <2>8, <2>9
<1>11. draft'.revision <= draft.revision /\ (screen'.at = "open" \/ screen'.at = screen.at)
  BY <1>1, <1>6 DEF Copies
<1>. QED BY <1>1, <1>3, <1>4, <1>6, <1>7, <1>8, <1>9, <1>10, <1>11, EditorErrands, PageStepInv

(* The answer to a submission or a withdrawal is shown.                    *)
LEMMA StatusArrivesInv ==
  ASSUME EditorIInv, screen.at = "open", StatusArrives
  PROVE  EditorIInv'
<1>0. EditorTypeOK /\ CallsFit /\ SaveFits /\ CopiesFit
  BY DEF EditorIInv
<1>. USE EditorKinds, <1>0
<1>. DEFINE answer == request["status"].answer
<1>1. /\ UNCHANGED <<revision, history, stray, powers, made>> /\ typed' = typed \cap history[revision]
      /\ request["status"].at = "done" /\ cache' = answer /\ draft' = NoCopy
  BY DEF StatusArrives, ServerStays, OnlySafe
<1>2. /\ answer \in Copies /\ answer.revision # 0 /\ answer.revision <= revision
      /\ answer.contents = history[answer.revision] /\ Has(answer.revision, answer.contents)
  BY <1>1, AnswerIs, EditorErrands
<1>. HIDE DEF answer
<1>3. newest' = Highest(answer.revision) /\ overtaken' = (overtaken \/ answer.revision < newest)
  BY <1>1 DEF StatusArrives, Tells
<1>4. newest' \in 0..(MaxRevision + 1) /\ newest <= newest' /\ answer.revision <= newest'
  BY <1>2, <1>3, HighestIs DEF Copies
<1>5. screen' = [screen EXCEPT !.copy = answer, !.dirty = FALSE, !.says = "saved"]
  BY <1>1 DEF StatusArrives, Replaced
<1>6. screen' \in Screens /\ screen'.same = screen.same /\ screen'.at = "open"
      /\ screen'.copy = answer /\ screen'.dirty = FALSE
  BY <1>2, <1>5 DEF Screens
<1>7. /\ request' \in [Errands -> Requests]
      /\ \A j \in Errands : CallMoves(j) /\ (request'[j] = request[j] \/ request'[j] = NoCall)
  BY EditorErrands, SettlesMoves DEF StatusArrives
<1>8. typed' \in Contents /\ typed' \subseteq typed /\ typed' \subseteq history[revision]
  BY <1>1 DEF Contents
<1>9. EditorTypeOK'
  BY <1>1, <1>2, <1>3, <1>4, <1>6, <1>7, <1>8, NoCallFacts DEF EditorTypeOK
<1>10. SaveFits' /\ CopiesFit'
  <2>1. SaveFits'
    BY <1>4, <1>7, <1>9, SaveStaysFit, EditorErrands
  <2>. QED BY <1>1, <1>2, <1>4, <1>6, <2>1, NoCallFacts DEF CopiesFit
<1>11. ASSUME ~overtaken'
       PROVE  /\ Kept(screen.copy.contents, screen'.copy.contents) /\ Kept(cache.contents, cache'.contents)
              /\ CopiesTrue' /\ RestTrue' /\ NothingTypedIsLost'
  <2>1. EditorTrue /\ newest <= answer.revision
    <3>1. ~overtaken /\ ~(answer.revision < newest)
      BY <1>3, <1>11
    <3>. QED BY <1>2, <3>1 DEF EditorIInv, Copies
  <2>2. \A old : Kept(old, answer.contents)
    BY <1>2, <2>1, NewCopyKept DEF EditorTrue
  <2>3. CopiesTrue'
    BY <1>1, <1>2, <1>6, <2>1, NoCallFacts DEF EditorTrue, CopiesTrue, Has
  <2>4. RestTrue' /\ NothingTypedIsLost'
    BY <1>1, <1>2, <1>6, <1>8 DEF RestTrue, NothingTypedIsLost, Has
  <2>. QED BY <1>1, <1>6, <2>2, <2>3, <2>4
<1>12. draft'.revision <= draft.revision
  BY <1>1, NoCallFacts DEF Copies
<1>. QED BY <1>1, <1>3, <1>4, <1>6, <1>7, <1>8, <1>9, <1>10, <1>11, <1>12, EditorErrands, PageStepInv

(* Suggestions that were written back, or the problem read instead.        *)
LEMMA ApplyArrivesInv ==
  ASSUME EditorIInv, screen.at = "open", ApplyArrives
  PROVE  EditorIInv'
<1>0. EditorTypeOK /\ CallsFit /\ SaveFits /\ CopiesFit
  BY DEF EditorIInv
<1>. USE EditorKinds, <1>0
<1>. DEFINE answer == request["apply"].answer
<1>1. /\ UNCHANGED <<revision, history, stray, powers, made, draft>> /\ typed' = typed \cap history[revision]
      /\ request["apply"].at = "done" /\ cache' = answer
  BY DEF ApplyArrives, ServerStays, OnlySafe
<1>2. /\ answer \in Copies /\ answer.revision # 0 /\ answer.revision <= revision
      /\ answer.contents = history[answer.revision] /\ Has(answer.revision, answer.contents)
  BY <1>1, AnswerIs, EditorErrands
<1>. HIDE DEF answer
<1>3. newest' = Highest(answer.revision) /\ overtaken' = (overtaken \/ answer.revision < newest)
  BY <1>1 DEF ApplyArrives, Tells
<1>4. newest' \in 0..(MaxRevision + 1) /\ newest <= newest' /\ answer.revision <= newest'
  BY <1>2, <1>3, HighestIs DEF Copies
<1>5. PICK p : p = [screen EXCEPT !.copy = answer, !.dirty = FALSE, !.says = "saved"]
  OBVIOUS
<1>6. p \in Screens /\ p.same = screen.same /\ p.dirty = FALSE
  BY <1>2, <1>5 DEF Screens
<1>7. OnScreen(p, answer, draft, screen')
  BY <1>1, <1>2, <1>5, <1>6, ShownIs DEF ApplyArrives, Replaced
<1>8. /\ screen' \in Screens /\ screen'.same = screen.same /\ screen'.at = "open"
      /\ \/ draft.revision = answer.revision /\ screen'.copy = draft /\ screen'.dirty = TRUE
         \/ screen'.copy = answer /\ screen'.dirty = FALSE
  BY <1>6, <1>7 DEF OnScreen
<1>9. /\ request' \in [Errands -> Requests] /\ request'["read"] = [NoCall EXCEPT !.at = "sent"]
      /\ \A j \in Errands \ {"read"} : request'[j] = request[j] \/ request'[j] = NoCall
  BY EditorErrands, InvalidatesMoves DEF ApplyArrives
<1>10. typed' \in Contents /\ typed' \subseteq typed /\ typed' \subseteq history[revision]
  BY <1>1 DEF Contents
<1>11. EditorTypeOK'
  BY <1>1, <1>2, <1>3, <1>4, <1>8, <1>9, <1>10 DEF EditorTypeOK
<1>12. \A j \in Errands : CallMoves(j)
  BY <1>8, <1>9, <1>11, FreshReadMoves
<1>13. SaveFits' /\ CopiesFit'
  <2>1. SaveFits'
    BY <1>4, <1>9, <1>11, SaveStaysFit, EditorErrands
  <2>2. screen'.copy.revision = answer.revision
    BY <1>8
  <2>. QED BY <1>1, <1>2, <1>4, <1>8, <2>1, <2>2 DEF CopiesFit
<1>14. ASSUME ~overtaken'
       PROVE  /\ Kept(screen.copy.contents, screen'.copy.contents) /\ Kept(cache.contents, cache'.contents)
              /\ CopiesTrue' /\ RestTrue' /\ NothingTypedIsLost'
  <2>1. EditorTrue /\ newest <= answer.revision
    <3>1. ~overtaken /\ ~(answer.revision < newest)
      BY <1>3, <1>14
    <3>. QED BY <1>2, <3>1 DEF EditorIInv, Copies
  <2>2. \A old : Kept(old, answer.contents)
    BY <1>2, <2>1, NewCopyKept DEF EditorTrue
  <2>3. Has(draft.revision, draft.contents)
    BY <2>1 DEF EditorTrue, CopiesTrue
  <2>4. draft.revision = answer.revision => \A old : Kept(old, draft.contents)
    BY <1>2, <2>1, <2>3, NewCopyKept DEF EditorTrue, CopiesFit
  <2>5. Kept(screen.copy.contents, screen'.copy.contents)
    BY <1>8, <2>2, <2>4
  <2>6. Has(screen'.copy.revision, screen'.copy.contents)
    BY <1>2, <1>8, <2>3
  <2>7. CopiesTrue'
    BY <1>1, <1>2, <2>1, <2>6 DEF EditorTrue, CopiesTrue, Has
  <2>8. RestTrue' /\ NothingTypedIsLost'
    BY <1>1, <1>2, <1>8, <1>10 DEF RestTrue, NothingTypedIsLost, Has
  <2>. QED BY <1>1, <2>2, <2>5, <2>7, <2>8
<1>15. draft'.revision <= draft.revision
  BY <1>1 DEF Copies
<1>16. \A j \in Told \cup {"save"} : request'[j] = request[j] \/ request'[j] = NoCall
  BY <1>9, EditorErrands
<1>. QED BY <1>1, <1>3, <1>4, <1>8, <1>10, <1>11, <1>12, <1>13, <1>14, <1>15, <1>16, PageStepInv

(* An answer that counts for its revision: the page holds all of it, but   *)
(* for the judge program it brings.                                        *)
LEMMA ToldIs ==
  ASSUME EditorTypeOK, CallsFit, CallsTrue, NEW k \in Told, request[k].at = "done"
  PROVE  /\ history[request[k].answer.revision] \subseteq screen.copy.contents \cup Bound(k)
         /\ history[request[k].answer.revision] \subseteq cache.contents \cup Bound(k)
<1>1. k \in Errands /\ CallFits(k) /\ Pending(k)
  BY EditorErrands DEF CallsFit, Pending
<1>2. history[request[k].asked] \subseteq screen.copy.contents
      /\ history[request[k].asked] \subseteq cache.contents
  BY <1>1 DEF CallsTrue, CallFits, Has
<1>3. history[request[k].answer.revision] \subseteq history[request[k].asked] \cup Bound(k)
  BY <1>1 DEF CallFits, Bound
<1>. QED BY <1>2, <1>3

(* The switch for external reviews has answered: its revision counts.      *)
LEMMA ToggleArrivesInv ==
  ASSUME EditorIInv, screen.at = "open", ToggleArrives
  PROVE  EditorIInv'
<1>0. EditorTypeOK /\ CallsFit /\ SaveFits /\ CopiesFit
  BY DEF EditorIInv
<1>. USE EditorKinds, <1>0
<1>. DEFINE answer == request["toggle"].answer
<1>1. /\ UNCHANGED <<revision, history, stray, powers, made, cache, draft, typed, overtaken>>
      /\ request["toggle"].at = "done" /\ newest' = Highest(answer.revision)
  BY DEF ToggleArrives, ServerStays
<1>2. answer \in Copies /\ answer.revision # 0 /\ answer.revision <= revision
  BY <1>1, AnswerIs, EditorErrands
<1>3. ASSUME EditorTrue
      PROVE  history[answer.revision] \subseteq screen.copy.contents
             /\ history[answer.revision] \subseteq cache.contents
  <2>1. Bound("toggle") = {}
    BY DEF Bound
  <2>. QED BY <1>1, <1>3, <2>1, ToldIs DEF EditorTrue, Told
<1>4. PICK n : n = IF screen.copy.revision > answer.revision THEN screen.copy.revision ELSE answer.revision
  OBVIOUS
<1>5. screen' = IF screen.copy.revision > answer.revision THEN screen
                ELSE [screen EXCEPT !.copy.revision = answer.revision]
  BY DEF ToggleArrives
<1>. HIDE DEF answer
<1>6. newest' \in 0..(MaxRevision + 1) /\ newest <= newest' /\ answer.revision <= newest'
  BY <1>1, <1>2, HighestIs DEF Copies
<1>7. n \in {screen.copy.revision, answer.revision}
  BY <1>4
<1>8. /\ screen' \in Screens /\ screen'.same = screen.same /\ screen'.at = "open"
      /\ screen'.dirty = screen.dirty /\ screen'.copy.contents = screen.copy.contents
      /\ screen'.copy.revision = n
  <2>1. CASE screen.copy.revision > answer.revision
    BY <1>4, <1>5, <2>1 DEF Screens
  <2>2. CASE ~(screen.copy.revision > answer.revision)
    BY <1>2, <1>4, <1>5, <2>2 DEF Screens, Copies
  <2>. QED BY <2>1, <2>2
<1>9. /\ request' \in [Errands -> Requests] /\ request'["read"] = [NoCall EXCEPT !.at = "sent"]
      /\ \A j \in Errands \ {"read"} : request'[j] = request[j] \/ request'[j] = NoCall
  BY EditorErrands, InvalidatesMoves DEF ToggleArrives
<1>10. EditorTypeOK'
  BY <1>1, <1>6, <1>8, <1>9 DEF EditorTypeOK
<1>11. \A j \in Errands : CallMoves(j)
  BY <1>8, <1>9, <1>10, FreshReadMoves
<1>12. SaveFits' /\ CopiesFit'
  <2>1. SaveFits'
    BY <1>6, <1>9, <1>10, SaveStaysFit, EditorErrands
  <2>2. n <= revision /\ n <= newest' /\ cache.revision <= newest'
    BY <1>2, <1>6, <1>7 DEF CopiesFit, Copies
  <2>. QED BY <1>1, <1>8, <2>1, <2>2 DEF CopiesFit
<1>13. ASSUME ~overtaken' PROVE CopiesTrue' /\ RestTrue' /\ NothingTypedIsLost'
  <2>1. EditorTrue
    BY <1>1, <1>13 DEF EditorIInv
  <2>2. Has(n, screen.copy.contents)
    BY <1>3, <1>7, <2>1 DEF EditorTrue, CopiesTrue, Has
  <2>3. ~screen.dirty => Has(n, cache.contents)
    BY <1>3, <1>7, <2>1 DEF EditorTrue, RestTrue, Has
  <2>4. CopiesTrue'
    BY <1>1, <1>8, <2>1, <2>2 DEF EditorTrue, CopiesTrue, Has
  <2>5. RestTrue' /\ NothingTypedIsLost'
    BY <1>1, <1>8, <2>1, <2>3 DEF EditorTrue, RestTrue, NothingTypedIsLost, Has
  <2>. QED BY <2>4, <2>5
<1>14. Kept(screen.copy.contents, screen'.copy.contents) /\ Kept(cache.contents, cache'.contents)
  BY <1>1, <1>8 DEF Kept
<1>15. draft'.revision <= draft.revision
  BY <1>1 DEF Copies
<1>16. \A j \in Told \cup {"save"} : request'[j] = request[j] \/ request'[j] = NoCall
  BY <1>9, EditorErrands
<1>. QED BY <1>1, <1>6, <1>8, <1>10, <1>11, <1>12, <1>13, <1>14, <1>15, <1>16, PageStepInv

(* A file, an image or a judge program is uploaded.                        *)
LEMMA UploadArrivesInv ==
  ASSUME EditorIInv, screen.at = "open", NEW k \in Uploads, UploadArrives(k)
  PROVE  EditorIInv'
<1>0. EditorTypeOK /\ CallsFit /\ SaveFits /\ CopiesFit
  BY DEF EditorIInv
<1>. USE EditorKinds, <1>0
<1>. DEFINE answer == request[k].answer
<1>1. /\ UNCHANGED <<revision, history, stray, powers, draft, overtaken>>
      /\ request[k].at = "done" /\ newest' = Highest(answer.revision)
  BY DEF UploadArrives
<1>2. k \in Errands \ {"read", "save"} /\ k \in Told
  BY EditorErrands
<1>3. answer \in Copies /\ answer.revision # 0 /\ answer.revision <= revision /\ draft.revision < answer.revision
  BY <1>1, <1>2, AnswerIs DEF CallsFit, CallFits
<1>4. Bound(k) \in Contents
  BY <1>3 DEF Bound, Contents, Copies
<1>5. ASSUME EditorTrue
      PROVE  /\ history[answer.revision] \subseteq screen.copy.contents \cup Bound(k)
             /\ history[answer.revision] \subseteq cache.contents \cup Bound(k)
  BY <1>1, <1>2, <1>5, ToldIs DEF EditorTrue
<1>6. PICK new \in {{}} \cup {{c} : c \in Passages} :
        /\ cache' = [revision |-> answer.revision, contents |-> cache.contents \cup Bound(k)]
        /\ LET copy == [revision |-> answer.revision,
                        contents |-> screen.copy.contents \cup Bound(k) \cup new]
           IN screen' = IF new = {} THEN Shown([screen EXCEPT !.copy = copy], cache', draft)
                        ELSE [screen EXCEPT !.copy = copy, !.dirty = TRUE, !.same = FALSE,
                                            !.says = "dirty"]
        /\ made' = made \cup new /\ typed' = typed \cup new
  BY DEF UploadArrives
<1>. HIDE DEF answer
<1>7. PICK copy : copy = [revision |-> answer.revision,
                          contents |-> screen.copy.contents \cup Bound(k) \cup new]
  OBVIOUS
<1>8. new \in Contents /\ copy \in Copies /\ cache' \in Copies /\ cache'.revision = answer.revision
      /\ cache'.contents = cache.contents \cup Bound(k)
      /\ copy.revision = answer.revision /\ copy.contents = screen.copy.contents \cup Bound(k) \cup new
  BY <1>3, <1>4, <1>6, <1>7 DEF Copies, Contents
<1>9. made' \in Contents /\ typed' \in Contents
  BY <1>6, <1>8 DEF Contents
<1>10. newest' \in 0..(MaxRevision + 1) /\ newest <= newest' /\ answer.revision <= newest'
  BY <1>1, <1>3, HighestIs DEF Copies
<1>11. /\ screen' \in Screens /\ screen'.at = "open" /\ (screen'.same => screen.same /\ new = {})
       /\ \/ screen'.copy = copy /\ screen'.dirty = TRUE /\ (screen.dirty \/ new # {})
          \/ screen'.copy = cache' /\ screen'.dirty = FALSE /\ ~screen.dirty /\ new = {}
  <2>1. CASE new # {}
    <3>1. screen' = [screen EXCEPT !.copy = copy, !.dirty = TRUE, !.same = FALSE, !.says = "dirty"]
      BY <1>6, <1>7, <2>1
    <3>. QED BY <1>8, <2>1, <3>1 DEF Screens
  <2>2. CASE new = {}
    <3>1. PICK p : p = [screen EXCEPT !.copy = copy]
      OBVIOUS
    <3>2. p \in Screens /\ p.same = screen.same /\ p.dirty = screen.dirty /\ p.at = "open" /\ p.copy = copy
      BY <1>8, <3>1 DEF Screens
    <3>3. screen' = Shown(p, cache', draft)
      BY <1>6, <1>7, <2>2, <3>1
    <3>4. cache'.revision # 0 /\ draft.revision # cache'.revision
      BY <1>3, <1>8 DEF Copies
    <3>5. OnScreen(p, cache', draft, screen')
      BY <1>8, <3>2, <3>3, <3>4, ShownIs
    <3>. QED BY <2>2, <3>2, <3>4, <3>5 DEF OnScreen, Screens
  <2>. QED BY <2>1, <2>2
<1>12. /\ request' \in [Errands -> Requests] /\ request'["read"] = [NoCall EXCEPT !.at = "sent"]
       /\ \A j \in Errands \ {"read"} : request'[j] = request[j] \/ request'[j] = NoCall
  BY <1>2, InvalidatesMoves DEF UploadArrives
<1>13. EditorTypeOK'
  BY <1>1, <1>8, <1>9, <1>10, <1>11, <1>12 DEF EditorTypeOK
<1>14. \A j \in Errands : CallMoves(j)
  BY <1>11, <1>12, <1>13, FreshReadMoves
<1>15. SaveFits' /\ CopiesFit'
  <2>1. SaveFits'
    BY <1>10, <1>12, <1>13, SaveStaysFit, EditorErrands
  <2>2. screen'.copy.revision = answer.revision
    BY <1>8, <1>11
  <2>. QED BY <1>1, <1>3, <1>8, <1>10, <1>11, <2>1, <2>2 DEF CopiesFit
<1>16. request["save"].at = "none"
  BY <1>1, <1>2 DEF SaveFits, Pending
<1>17. ASSUME ~overtaken'
       PROVE  /\ CopiesTrue' /\ RestTrue' /\ NothingTypedIsLost'
              /\ Kept(screen.copy.contents, screen'.copy.contents) \/ Kept(cache.contents, screen'.copy.contents)
              /\ Kept(cache.contents, cache'.contents)
  <2>1. EditorTrue
    BY <1>1, <1>17 DEF EditorIInv
  <2>2. Has(answer.revision, copy.contents) /\ Has(answer.revision, cache'.contents)
    BY <1>5, <1>8, <2>1 DEF Has
  <2>3. CopiesTrue'
    BY <1>1, <1>8, <1>11, <2>1, <2>2 DEF EditorTrue, CopiesTrue, Has
  <2>4. RestTrue'
    BY <1>1, <1>8, <1>11, <2>2 DEF RestTrue, Has
  <2>5. NothingTypedIsLost'
    <3>1. CASE screen'.copy = copy /\ screen'.dirty = TRUE
      BY <1>1, <1>6, <1>8, <2>1, <3>1 DEF EditorTrue, NothingTypedIsLost
    <3>2. CASE ~screen.dirty /\ new = {}
      BY <1>1, <1>6, <2>1, <3>2 DEF EditorTrue, NothingTypedIsLost
    <3>. QED BY <1>11, <3>1, <3>2
  <2>6. screen.copy.contents \subseteq copy.contents /\ cache.contents \subseteq cache'.contents
    BY <1>8
  <2>7. Kept(cache.contents, cache'.contents) /\ Kept(screen.copy.contents, copy.contents)
    BY <2>6 DEF Kept
  <2>. QED BY <1>11, <2>3, <2>4, <2>5, <2>7
<1>18. draft'.revision <= draft.revision
  BY <1>1 DEF Copies
<1>19. \A j \in Told \cup {"save"} : request'[j] = request[j] \/ request'[j] = NoCall
  BY <1>12, EditorErrands
<1>20. screen'.same => screen.same /\ typed' \subseteq typed
  BY <1>6, <1>11
<1>. QED BY <1>1, <1>10, <1>11, <1>13, <1>14, <1>15, <1>16, <1>17, <1>18, <1>19, <1>20, PageStepInv

(* External reviews switched on the tab of reviews.                        *)
LEMMA ReviewArrivesInv ==
  ASSUME EditorIInv, screen.at = "open", ReviewArrives
  PROVE  EditorIInv'
<1>0. EditorTypeOK /\ CallsFit /\ SaveFits /\ CopiesFit
  BY DEF EditorIInv
<1>. USE EditorKinds, <1>0
<1>. DEFINE answer == request["review"].answer
<1>1. /\ UNCHANGED <<revision, history, stray, powers, made, cache, draft>> /\ typed' = typed \cap history[revision]
      /\ request["review"].at = "done" /\ newest' = Highest(answer.revision)
      /\ overtaken' = (overtaken \/ screen'.copy.revision < newest')
  BY DEF ReviewArrives, ServerStays, OnlySafe
<1>2. /\ answer \in Copies /\ answer.revision # 0 /\ answer.revision <= revision
      /\ answer.contents = history[answer.revision] /\ Has(answer.revision, answer.contents)
  BY <1>1, AnswerIs, EditorErrands
<1>3. ASSUME EditorTrue PROVE Has(answer.revision, cache.contents)
  <2>1. Bound("review") = {}
    BY DEF Bound
  <2>. QED BY <1>1, <1>3, <2>1, ToldIs DEF EditorTrue, Told, Has
<1>4. screen' = IF screen.dirty THEN Shown(Replaced(screen.copy), cache, draft) ELSE Replaced(answer)
  BY DEF ReviewArrives
<1>. HIDE DEF answer
<1>5. newest' \in 0..(MaxRevision + 1) /\ newest <= newest' /\ answer.revision <= newest'
  BY <1>1, <1>2, HighestIs DEF Copies
<1>6. cache.revision # 0
  BY DEF CopiesFit
<1>7. /\ screen' \in Screens /\ screen'.same = screen.same /\ screen'.at = "open"
      /\ \/ screen'.copy = answer /\ screen'.dirty = FALSE /\ ~screen.dirty
         \/ screen'.copy = draft /\ draft.revision = cache.revision /\ screen'.dirty = TRUE
         \/ screen'.copy = cache /\ screen'.dirty = FALSE
  <2>1. CASE ~screen.dirty
    <3>1. screen' = [screen EXCEPT !.copy = answer, !.dirty = FALSE, !.says = "saved"]
      BY <1>4, <2>1 DEF Replaced
    <3>. QED BY <1>2, <2>1, <3>1 DEF Screens
  <2>2. CASE screen.dirty
    <3>1. PICK p : p = [screen EXCEPT !.copy = screen.copy, !.dirty = FALSE, !.says = "saved"]
      OBVIOUS
    <3>2. p \in Screens /\ p.same = screen.same /\ p.dirty = FALSE
      BY <3>1 DEF Screens
    <3>3. screen' = Shown(p, cache, draft)
      BY <1>4, <2>2, <3>1 DEF Replaced
    <3>4. OnScreen(p, cache, draft, screen')
      BY <1>6, <3>2, <3>3, ShownIs
    <3>. QED BY <3>2, <3>4 DEF OnScreen
  <2>. QED BY <2>1, <2>2
<1>8. /\ request' \in [Errands -> Requests]
      /\ \A j \in Errands : CallMoves(j) /\ (request'[j] = request[j] \/ request'[j] = NoCall)
  BY EditorErrands, SettlesMoves DEF ReviewArrives
<1>9. typed' \in Contents /\ typed' \subseteq typed /\ typed' \subseteq history[revision]
  BY <1>1 DEF Contents
<1>10. EditorTypeOK'
  BY <1>1, <1>5, <1>7, <1>8, <1>9 DEF EditorTypeOK
<1>11. SaveFits' /\ CopiesFit'
  <2>1. SaveFits'
    BY <1>5, <1>8, <1>10, SaveStaysFit, EditorErrands
  <2>2. screen'.copy.revision \in {answer.revision, cache.revision}
    BY <1>7
  <2>3. screen'.copy.revision <= revision /\ screen'.copy.revision <= newest' /\ cache.revision <= newest'
    BY <1>2, <1>5, <2>2 DEF CopiesFit, Copies
  <2>. QED BY <1>1, <1>7, <2>1, <2>3 DEF CopiesFit
<1>12. ASSUME ~overtaken'
       PROVE  /\ Kept(screen.copy.contents, screen'.copy.contents) /\ Kept(cache.contents, cache'.contents)
              /\ CopiesTrue' /\ RestTrue' /\ NothingTypedIsLost'
  <2>1. ~overtaken /\ ~(screen'.copy.revision < newest')
    BY <1>1, <1>12
  <2>2. screen'.copy \in Copies /\ EditorTrue
    <3>1. screen'.copy \in Copies
      BY <1>7 DEF Screens
    <3>2. EditorTrue
      BY <2>1 DEF EditorIInv
    <3>. QED BY <3>1, <3>2
  <2>3. newest <= screen'.copy.revision /\ screen'.copy.revision <= revision
    <3>1. screen'.copy.revision <= revision
      BY <1>1, <1>11 DEF CopiesFit
    <3>2. newest' <= screen'.copy.revision
      BY <1>5, <2>1, <2>2 DEF Copies
    <3>. QED BY <1>5, <2>2, <3>1, <3>2 DEF Copies
  <2>4. Has(screen'.copy.revision, screen'.copy.contents)
    BY <1>2, <1>7, <2>2 DEF EditorTrue, CopiesTrue
  <2>5. Kept(screen.copy.contents, screen'.copy.contents)
    BY <2>2, <2>3, <2>4, NewCopyKept DEF EditorTrue
  <2>6. CopiesTrue'
    BY <1>1, <2>2, <2>4 DEF EditorTrue, CopiesTrue, Has
  <2>7. RestTrue'
    BY <1>1, <1>3, <1>7, <2>2 DEF EditorTrue, CopiesTrue, RestTrue, Has
  <2>8. NothingTypedIsLost'
    BY <1>1, <1>9 DEF NothingTypedIsLost
  <2>. QED BY <1>1, <2>5, <2>6, <2>7, <2>8 DEF Kept
<1>13. draft'.revision <= draft.revision
  BY <1>1 DEF Copies
<1>. QED BY <1>1, <1>5, <1>7, <1>8, <1>9, <1>10, <1>11, <1>12, <1>13, EditorErrands, PageStepInv

(* The page is cleared, or loaded again.                                   *)
LEMMA LeavesCallInv ==
  ASSUME EditorIInv, UNCHANGED <<revision, history, powers, made, overtaken>>,
         NEW at \in {"loading", "gone"},
         screen' = IF at = "gone" THEN [NewScreen EXCEPT !.at = "gone"] ELSE NewScreen,
         cache' = NoCopy, draft' \in {draft, NoCopy}, typed' = {}, newest' \in {newest, 0},
         stray' = IF request["save"].at = "sent" THEN request["save"].answer ELSE stray,
         request' \in [Errands -> Requests],
         \A k \in Errands \ {"read"} : request'[k] = NoCall,
         IF at = "gone" THEN request'["read"] = NoCall
                        ELSE request'["read"] = [NoCall EXCEPT !.at = "sent"]
  PROVE  EditorIInv'
<1>0. EditorTypeOK /\ CallsFit /\ SaveFits /\ CopiesFit
  BY DEF EditorIInv
<1>. USE EditorKinds, <1>0
<1>1. screen' \in Screens /\ screen'.at = at /\ screen'.copy = NoCopy /\ screen'.dirty = FALSE
  BY NoCallFacts DEF Screens
<1>2. request["save"] \in Requests /\ request["save"].answer \in Copies /\ CallFits("save")
  BY EditorErrands DEF Requests, CallsFit
<1>3. stray' \in Copies /\ draft' \in Copies /\ newest' \in 0..(MaxRevision + 1)
  BY <1>2, NoCallFacts
<1>4. EditorTypeOK'
  <2>1. {} \in Contents
    BY DEF Contents
  <2>. QED BY <1>1, <1>3, <2>1, NoCallFacts DEF EditorTypeOK
<1>5. \A k \in Errands : /\ request'[k].asked = 0 /\ request'[k].answer = NoCopy
                         /\ request'[k].at # "done"
                         /\ k # "read" \/ at = "gone" => request'[k] = NoCall
  BY NoCallFacts DEF NoCall
<1>6. CallsFit'
  BY <1>1, <1>3, <1>5, NoCallFacts DEF CallsFit, CallFits, Pending
<1>7. SaveFits' /\ CopiesFit'
  <2>1. request'["save"].at = "none" /\ \A k \in Uploads : request'[k].at = "none"
    BY NoCallFacts, EditorErrands
  <2>2. SaveFits'
    BY <2>1 DEF SaveFits, Pending
  <2>3. stray'.revision <= revision /\ draft'.revision <= revision
    BY <1>2, NoCallFacts DEF CopiesFit, CallFits
  <2>. QED BY <1>1, <1>3, <2>2, <2>3, NoCallFacts DEF CopiesFit
<1>8. ASSUME ~overtaken' PROVE EditorTrue'
  <2>1. EditorTrue
    BY <1>8 DEF EditorIInv
  <2>2. NothingOverwritten'
    BY <2>1 DEF EditorTrue, NothingOverwritten
  <2>3. NothingTypedIsLost' /\ RestTrue'
    BY <1>1 DEF NothingTypedIsLost, RestTrue
  <2>4. CopiesTrue'
    <3>1. Has(draft'.revision, draft'.contents)
      BY <2>1, NoCallFacts DEF EditorTrue, CopiesTrue, Has
    <3>2. request["save"].at = "sent" => Has(request["save"].answer.revision, request["save"].answer.contents)
      BY <2>1 DEF EditorTrue, SaveTrue, SaveFits, Pending
    <3>3. Has(stray'.revision, stray'.contents)
      BY <2>1, <3>2 DEF EditorTrue, CopiesTrue
    <3>. QED BY <1>1, <3>1, <3>3, NoCallFacts DEF CopiesTrue, Has
  <2>5. request'["save"].at = "none" /\ \A k \in Told : request'[k].at = "none"
    BY NoCallFacts, EditorErrands
  <2>6. SaveTrue' /\ CallsTrue'
    BY <2>5 DEF SaveTrue, CallsTrue, Pending
  <2>. QED BY <2>2, <2>3, <2>4, <2>6 DEF EditorTrue
<1>. QED BY <1>4, <1>6, <1>7, <1>8 DEF EditorIInv

LEMMA ClearedInv ==
  ASSUME EditorIInv, NEW k \in Errands, Cleared(k)
  PROVE  EditorIInv'
<1>1. request' \in [Errands -> Requests] /\ \A j \in Errands : request'[j] = NoCall
  BY NoCallFacts DEF Cleared
<1>2. /\ UNCHANGED <<revision, history, powers, made, overtaken, newest>> /\ cache' = NoCopy /\ draft' = NoCopy
      /\ typed' = {} /\ screen' = [NewScreen EXCEPT !.at = "gone"]
      /\ stray' = IF request["save"].at = "sent" THEN request["save"].answer ELSE stray
  BY DEF Cleared
<1>. QED BY <1>1, <1>2, EditorErrands, LeavesCallInv

LEMMA ReopenInv == EditorIInv /\ Reopen => EditorIInv'
<1>. SUFFICES ASSUME EditorIInv, Reopen PROVE EditorIInv'
  OBVIOUS
<1>1. [NoCall EXCEPT !.at = "sent"] \in Requests
  BY NoCallFacts DEF Requests, Stages
<1>2. /\ request' \in [Errands -> Requests] /\ request'["read"] = [NoCall EXCEPT !.at = "sent"]
      /\ \A j \in Errands \ {"read"} : request'[j] = NoCall
  BY <1>1, NoCallFacts, EditorErrands DEF Reopen, AtFirst
<1>4. /\ UNCHANGED <<revision, history, powers, made, overtaken, draft>> /\ cache' = NoCopy
      /\ typed' = {} /\ newest' = 0 /\ screen' = NewScreen
      /\ stray' = IF request["save"].at = "sent" THEN request["save"].answer ELSE stray
  BY DEF Reopen
<1>. QED BY <1>2, <1>4, LeavesCallInv

(* What a step of the server leaves, and what it adds.                     *)
LEMMA ServerStepInv ==
  ASSUME EditorIInv, UNCHANGED <<screen, cache, powers, typed, newest, overtaken>>,
         revision' \in Revisions, revision <= revision', history' \in [Revisions -> Contents],
         \A n \in 1..revision : history'[n] = history[n],
         \/ revision' = revision
         \/ revision' = revision + 1 /\ (overtaken \/ history[revision] \subseteq history'[revision']),
         draft' \in Copies, stray' \in Copies, made' \in Contents,
         draft' = draft \/ screen.at = "gone",
         draft'.revision <= revision, stray'.revision <= revision,
         overtaken \/ Has(draft'.revision, draft'.contents), overtaken \/ Has(stray'.revision, stray'.contents),
         request' \in [Errands -> Requests],
         \A j \in Errands : request'[j] = request[j] \/ CallFits(j)',
         SaveFits',
         \A j \in Told : Pending(j)' => Pending(j) /\ request'[j].asked = request[j].asked,
         request'["save"] = request["save"] \/ overtaken \/ SaveTrue'
  PROVE  EditorIInv'
<1>0. EditorTypeOK /\ CallsFit /\ SaveFits /\ CopiesFit
  BY DEF EditorIInv
<1>. USE EditorKinds, <1>0
<1>1. EditorTypeOK'
  BY DEF EditorTypeOK
<1>2. CallsFit'
  <2>. SUFFICES ASSUME NEW j \in Errands, request'[j] = request[j] PROVE CallFits(j)'
    BY DEF CallsFit
  <2>1. request[j] \in Requests /\ CallFits(j)
    BY DEF CallsFit
  <2>2. revision' \in Nat /\ request[j].asked \in Nat /\ request[j].answer.revision \in Nat
    BY <2>1 DEF Revisions, Requests, Copies
  <2>3. request'[j].asked <= revision' /\ request'[j].answer.revision <= revision'
    BY <2>1, <2>2 DEF CallFits
  <2>4. (Pending(j) => request[j].asked <= newest)' /\ (screen.at # "open" => j = "read" \/ request[j] = NoCall)'
        /\ (screen.at = "gone" => request[j] = NoCall)'
    BY <2>1 DEF CallFits, Pending
  <2>5. (request[j].at = "done" =>
            /\ request[j].answer.revision # 0
            /\ request[j].answer.contents = history[request[j].answer.revision]
            /\ j \in Told => request[j].asked # 0
            /\ j \in Told \ {"program"} => history[request[j].answer.revision] = history[request[j].asked]
            /\ j \in Uploads => draft.revision < request[j].answer.revision)'
    <3>. SUFFICES ASSUME request[j].at = "done"
                  PROVE /\ request[j].answer.revision # 0
                        /\ request[j].answer.contents = history'[request[j].answer.revision]
                        /\ j \in Told => request[j].asked # 0
                        /\ j \in Told \ {"program"} => history'[request[j].answer.revision] = history'[request[j].asked]
                        /\ j \in Uploads => draft'.revision < request[j].answer.revision
      OBVIOUS
    <3>1. request[j].answer.revision \in 1..revision /\ (j \in Told => request[j].asked \in 1..revision)
      BY <2>1, <2>2 DEF CallFits
    <3>2. j \in Uploads => draft' = draft
      BY <2>1, NoCallFacts, EditorErrands DEF CallFits
    <3>. QED BY <2>1, <3>1, <3>2 DEF CallFits
  <2>. QED BY <2>3, <2>4, <2>5 DEF CallFits
<1>3. CopiesFit'
  BY DEF CopiesFit, Revisions, Copies
<1>4. ASSUME ~overtaken' PROVE EditorTrue'
  <2>1. EditorTrue
    BY <1>4 DEF EditorIInv
  <2>2. history[revision] \subseteq history'[revision']
    BY <1>4 DEF Revisions
  <2>3. \A n, contents : n \in 0..revision /\ Has(n, contents) => n = 0 \/ history'[n] \subseteq contents
    BY DEF Has
  <2>4. NothingOverwritten'
    <3>. SUFFICES ASSUME NEW m \in 1..revision', NEW n \in 1..revision', m <= n
                  PROVE history'[m] \subseteq history'[n]
      BY DEF NothingOverwritten
    <3>1. CASE n \in 1..revision
      <4>1. m \in 1..revision
        BY <3>1
      <4>. QED BY <2>1, <3>1, <4>1 DEF EditorTrue, NothingOverwritten
    <3>2. CASE n \notin 1..revision
      <4>1. n = revision'
        BY <3>2 DEF Revisions
      <4>2. CASE m = n
        BY <4>2
      <4>3. CASE m # n
        <5>1. m \in 1..revision /\ revision \in 1..revision
          BY <4>1, <4>3, <3>2 DEF Revisions
        <5>2. history[m] \subseteq history[revision]
          BY <2>1, <5>1 DEF EditorTrue, NothingOverwritten
        <5>. QED BY <2>2, <4>1, <5>1, <5>2
      <4>. QED BY <4>2, <4>3
    <3>. QED BY <3>1, <3>2
  <2>5. NothingTypedIsLost'
    BY <2>1, <2>2 DEF EditorTrue, NothingTypedIsLost
  <2>6. /\ screen.copy.revision \in 0..revision /\ cache.revision \in 0..revision
        /\ draft'.revision \in 0..revision /\ stray'.revision \in 0..revision
    BY DEF CopiesFit, Copies
  <2>7. CopiesTrue'
    <3>1. Has(screen.copy.revision, screen.copy.contents) /\ Has(cache.revision, cache.contents)
      BY <2>1 DEF EditorTrue, CopiesTrue
    <3>2. /\ screen.copy.revision = 0 \/ history'[screen.copy.revision] \subseteq screen.copy.contents
          /\ cache.revision = 0 \/ history'[cache.revision] \subseteq cache.contents
      BY <2>3, <2>6, <3>1
    <3>3. /\ draft'.revision = 0 \/ history'[draft'.revision] \subseteq draft'.contents
          /\ stray'.revision = 0 \/ history'[stray'.revision] \subseteq stray'.contents
      BY <1>4, <2>6 DEF Has
    <3>. QED BY <3>2, <3>3 DEF CopiesTrue, Has
  <2>8. RestTrue'
    <3>1. screen.at = "open" /\ ~screen.dirty => screen.copy.revision = 0 \/ history'[screen.copy.revision] \subseteq cache.contents
      BY <2>1, <2>3, <2>6 DEF EditorTrue, RestTrue
    <3>. QED BY <3>1 DEF RestTrue, Has
  <2>9. CallsTrue'
    <3>. SUFFICES ASSUME NEW j \in Told, Pending(j)'
                  PROVE (Has(request[j].asked, screen.copy.contents) /\ Has(request[j].asked, cache.contents))'
      BY DEF CallsTrue
    <3>1. Pending(j) /\ request'[j].asked = request[j].asked /\ request[j].asked \in 0..revision
      BY EditorErrands DEF CallsFit, CallFits, Requests
    <3>2. Has(request[j].asked, screen.copy.contents) /\ Has(request[j].asked, cache.contents)
      BY <2>1, <3>1 DEF EditorTrue, CallsTrue
    <3>3. /\ request[j].asked = 0 \/ history'[request[j].asked] \subseteq screen.copy.contents
          /\ request[j].asked = 0 \/ history'[request[j].asked] \subseteq cache.contents
      BY <2>3, <3>1, <3>2
    <3>. QED BY <3>1, <3>3 DEF Has
  <2>10. SaveTrue'
    <3>1. CASE request'["save"] = request["save"]
      <4>1. request["save"] \in Requests /\ request["save"].asked \in 0..revision
        BY EditorErrands DEF CallsFit, CallFits, Requests
      <4>2. (Pending("save") => Has(request["save"].asked, request["save"].answer.contents))'
        <5>1. Pending("save") => Has(request["save"].asked, request["save"].answer.contents)
          BY <2>1 DEF EditorTrue, SaveTrue
        <5>2. Pending("save") => request["save"].asked = 0
                                 \/ history'[request["save"].asked] \subseteq request["save"].answer.contents
          BY <2>3, <4>1, <5>1
        <5>. QED BY <3>1, <5>2 DEF Has, Pending
      <4>3. (request["save"].at = "sent" /\ request["save"].asked = revision =>
               request["save"].answer.contents \subseteq screen.copy.contents)'
        <5>1. request["save"].asked = revision' => request["save"].asked = revision
          BY <4>1 DEF Revisions
        <5>. QED BY <2>1, <3>1, <5>1 DEF EditorTrue, SaveTrue
      <4>4. (request["save"].at = "done" => request["save"].answer.contents \subseteq screen.copy.contents)'
        BY <2>1, <3>1 DEF EditorTrue, SaveTrue
      <4>5. (request["save"].at = "sent" /\ screen.same =>
               typed \subseteq request["save"].answer.contents \cup history[revision])'
        BY <2>1, <2>2, <3>1 DEF EditorTrue, SaveTrue
      <4>6. (request["save"].at = "done" /\ screen.same => typed \subseteq history[revision])'
        BY <2>1, <2>2, <3>1 DEF EditorTrue, SaveTrue
      <4>. QED BY <4>2, <4>3, <4>4, <4>5, <4>6 DEF SaveTrue
    <3>. QED BY <1>4, <3>1
  <2>. QED BY <2>4, <2>5, <2>7, <2>8, <2>9, <2>10 DEF EditorTrue
<1>. QED BY <1>1, <1>2, <1>3, <1>4 DEF EditorIInv

LEMMA ServerKeeps ==
  ASSUME EditorIInv
  PROVE  /\ EditorTypeOK /\ CallsFit /\ SaveFits /\ CopiesFit
         /\ draft.revision <= revision /\ stray.revision <= revision
         /\ overtaken \/ Has(draft.revision, draft.contents)
         /\ overtaken \/ Has(stray.revision, stray.contents)
<1>1. CASE overtaken
  BY <1>1 DEF EditorIInv, CopiesFit
<1>2. CASE ~overtaken
  BY <1>2 DEF EditorIInv, CopiesFit, EditorTrue, CopiesTrue
<1>. QED BY <1>1, <1>2

LEMMA WritesIs ==
  ASSUME EditorTypeOK, NEW contents \in Contents, Writes(contents)
  PROVE  /\ revision' = revision + 1 /\ revision' \in Revisions
         /\ history' \in [Revisions -> Contents] /\ history'[revision'] = contents
         /\ \A n \in 1..revision : history'[n] = history[n]
<1>1. revision < MaxRevision /\ revision' = revision + 1 /\ history' = [history EXCEPT ![revision + 1] = contents]
  BY DEF Writes
<1>2. revision + 1 \in Revisions
  BY <1>1, EditorKinds DEF Revisions
<1>3. \A n \in 1..revision : n \in Revisions /\ n # revision + 1
  BY EditorKinds DEF Revisions
<1>. QED BY <1>1, <1>2, <1>3, EditorKinds

(* The server answers an errand, and has written nothing.                  *)
LEMMA AnswersInv ==
  ASSUME EditorIInv, ScreenStays, UNCHANGED <<revision, history, stray, made, newest, overtaken>>,
         NEW k \in Errands, NEW row \in Requests, request' = [request EXCEPT ![k] = row],
         request[k].at # "none", row.asked = request[k].asked, row.at # "none",
         \/ /\ k # "save" /\ row.at = "done" /\ row.answer = Current
            /\ k \in Told => row.asked = revision /\ k \notin Uploads
         \/ row.at \in {"failed", "denied"} /\ row.answer = request[k].answer
  PROVE  EditorIInv'
<1>. USE EditorKinds, ServerKeeps DEF ScreenStays
<1>1. request' \in [Errands -> Requests] /\ request'[k] = row
      /\ \A j \in Errands \ {k} : request'[j] = request[j]
  OBVIOUS
<1>2. CallFits(k) /\ request[k] # NoCall
  BY NoCallFacts DEF CallsFit
<1>3. row.asked <= revision /\ row.answer.revision <= revision /\ row.asked <= newest
      /\ (screen.at # "open" => k = "read") /\ screen.at # "gone"
  BY <1>2 DEF CallFits, Pending, Current
<1>4. row.at = "done" => /\ row.answer.revision # 0 /\ row.answer.contents = history[row.answer.revision]
                         /\ k \in Told => row.asked # 0 /\ history[row.answer.revision] = history[row.asked]
                         /\ k \notin Uploads
  BY EditorErrands DEF Current
<1>5. CallFits(k)'
  BY <1>1, <1>3, <1>4 DEF CallFits, Pending
<1>6. SaveFits'
  <2>1. \A j \in Uploads : Pending(j)' => Pending(j)
    BY <1>1, EditorErrands DEF Pending
  <2>2. /\ Pending("save")' => Pending("save")
        /\ request'["save"].asked = request["save"].asked
        /\ request'["save"].at \in {"sent", "done"} => request'["save"] = request["save"]
    BY <1>1, EditorErrands DEF Pending
  <2>3. SaveFits
    OBVIOUS
  <2>. QED BY <2>1, <2>2, <2>3 DEF SaveFits, Pending
<1>7. \A j \in Told : Pending(j)' => Pending(j) /\ request'[j].asked = request[j].asked
  BY <1>1, EditorErrands DEF Pending
<1>8. request'["save"] = request["save"] \/ overtaken \/ SaveTrue'
  <2>. SUFFICES ASSUME k = "save", ~overtaken PROVE SaveTrue'
    BY <1>1, EditorErrands
  <2>1. row.at \in {"failed", "denied"} /\ row.answer = request["save"].answer
    OBVIOUS
  <2>2. SaveTrue
    BY DEF EditorIInv, EditorTrue
  <2>3. Has(row.asked, row.answer.contents)
    BY <2>1, <2>2 DEF SaveTrue, Pending
  <2>. QED BY <1>1, <2>1, <2>3 DEF SaveTrue, Has
<1>9. /\ revision' \in Revisions /\ revision <= revision' /\ draft' \in Copies /\ stray' \in Copies
      /\ history' \in [Revisions -> Contents] /\ made' \in Contents
  BY DEF Revisions
<1>. QED BY <1>1, <1>5, <1>6, <1>7, <1>8, <1>9, ServerStepInv

LEMMA ReadInv == \A k \in Errands : EditorIInv /\ Read(k) => EditorIInv'
<1>. SUFFICES ASSUME NEW k \in Errands, EditorIInv, Read(k) PROVE EditorIInv'
  OBVIOUS
<1>. USE EditorKinds, ServerKeeps
<1>1. k \in {"read", "apply"} /\ request[k].at \in {"sent", "again"} /\ ScreenStays
      /\ UNCHANGED <<revision, history, stray, made, newest, overtaken>>
  BY DEF Read
<1>2. PICK row : row = [request[k] EXCEPT !.at = "done", !.answer = Current]
  OBVIOUS
<1>3. Current \in Copies
  BY DEF Current, Copies, Revisions
<1>4. row \in Requests /\ row.at = "done" /\ row.answer = Current /\ row.asked = request[k].asked
  BY <1>2, <1>3 DEF Requests, Stages
<1>5. request' = [request EXCEPT ![k] = row]
  BY <1>2 DEF Read, Replies, Turns
<1>6. k # "save" /\ k \notin Told
  BY <1>1 DEF Told, Uploads
<1>. QED BY <1>1, <1>4, <1>5, <1>6, AnswersInv

LEMMA KeepsInv == \A k \in Errands : EditorIInv /\ Keeps(k) => EditorIInv'
<1>. SUFFICES ASSUME NEW k \in Errands, EditorIInv, Keeps(k) PROVE EditorIInv'
  OBVIOUS
<1>. USE EditorKinds, ServerKeeps
<1>1. k \in {"toggle", "review", "decision"} /\ request[k].at = "sent" /\ ScreenStays
      /\ (request[k].asked = revision \/ k = "decision")
      /\ UNCHANGED <<revision, history, stray, made, newest, overtaken>>
  BY DEF Keeps
<1>2. PICK row : row = [request[k] EXCEPT !.at = "done", !.answer = Current]
  OBVIOUS
<1>3. Current \in Copies
  BY DEF Current, Copies, Revisions
<1>4. row \in Requests /\ row.at = "done" /\ row.answer = Current /\ row.asked = request[k].asked
  BY <1>2, <1>3 DEF Requests, Stages
<1>5. request' = [request EXCEPT ![k] = row]
  BY <1>2 DEF Keeps, Replies, Turns
<1>6. k # "save" /\ k \notin Uploads /\ (k \in Told => row.asked = revision)
  BY <1>1, <1>4 DEF Told, Uploads
<1>. QED BY <1>1, <1>4, <1>5, <1>6, AnswersInv

LEMMA FailsInv == \A k \in Errands : EditorIInv /\ Fails(k) => EditorIInv'
<1>. SUFFICES ASSUME NEW k \in Errands, EditorIInv, Fails(k) PROVE EditorIInv'
  OBVIOUS
<1>. USE EditorKinds, ServerKeeps
<1>1. request[k].at \in {"sent", "done"} /\ ScreenStays
      /\ UNCHANGED <<revision, history, stray, made, newest, overtaken>>
  BY DEF Fails
<1>2. ASSUME NEW at \in {"failed", "denied"}, Turns(k, [request[k] EXCEPT !.at = at])
      PROVE  EditorIInv'
  <2>1. PICK row : row = [request[k] EXCEPT !.at = at]
    OBVIOUS
  <2>2. row \in Requests /\ row.at = at /\ row.answer = request[k].answer /\ row.asked = request[k].asked
    BY <2>1 DEF Requests, Stages
  <2>3. request' = [request EXCEPT ![k] = row]
    BY <1>2, <2>1 DEF Turns
  <2>. QED BY <1>1, <2>2, <2>3, AnswersInv
<1>. QED BY <1>2 DEF Fails

(* The server accepts an errand that names the latest revision, or an      *)
(* opinion.                                                                *)
LEMMA AcceptsInv == \A k \in Errands : EditorIInv /\ Accepts(k) => EditorIInv'
<1>. SUFFICES ASSUME NEW k \in Errands, EditorIInv, Accepts(k) PROVE EditorIInv'
  OBVIOUS
<1>. USE EditorKinds, ServerKeeps
<1>1. /\ k # "read" /\ request[k].at = "sent" /\ (request[k].asked = revision \/ k = "decision")
      /\ UNCHANGED <<screen, cache, draft, powers, typed, stray, newest, overtaken>>
  BY DEF Accepts, ScreenStays
<1>2. PICK new \in Adds(k) :
        LET contents == IF k = "save" THEN request[k].answer.contents ELSE history[revision] \cup new
        IN /\ Writes(contents)
           /\ Replies(k, [revision |-> revision + 1, contents |-> contents])
           /\ made' = made \cup new
  BY DEF Accepts
<1>3. new \in Contents /\ (k \notin {"program", "apply"} => new = {})
  BY <1>2 DEF Adds, Contents
<1>4. PICK contents : contents = IF k = "save" THEN request[k].answer.contents ELSE history[revision] \cup new
  OBVIOUS
<1>5. request[k] \in Requests /\ request[k].answer.contents \in Contents /\ history[revision] \in Contents
  BY DEF Requests, Copies, Revisions
<1>6. contents \in Contents
  BY <1>3, <1>4, <1>5 DEF Contents
<1>7. PICK row : row = [request[k] EXCEPT !.at = "done", !.answer = [revision |-> revision + 1, contents |-> contents]]
  OBVIOUS
<1>8. Writes(contents) /\ request' = [request EXCEPT ![k] = row] /\ made' = made \cup new
  BY <1>2, <1>4, <1>7 DEF Replies, Turns
<1>9. /\ revision' = revision + 1 /\ revision' \in Revisions
      /\ history' \in [Revisions -> Contents] /\ history'[revision'] = contents
      /\ \A n \in 1..revision : history'[n] = history[n]
  BY <1>6, <1>8, WritesIs
<1>10. /\ row \in Requests /\ row.at = "done" /\ row.asked = request[k].asked
       /\ row.answer.revision = revision + 1 /\ row.answer.contents = contents
  <2>1. [revision |-> revision + 1, contents |-> contents] \in Copies
    BY <1>6, <1>9 DEF Copies, Revisions
  <2>. QED BY <1>5, <1>7, <2>1 DEF Requests, Stages
<1>11. request' \in [Errands -> Requests] /\ request'[k] = row
       /\ \A j \in Errands \ {k} : request'[j] = request[j]
  BY <1>8, <1>10
<1>12. CallFits(k)
  BY DEF CallsFit
<1>13. request[k] # NoCall /\ screen.at = "open"
  BY <1>1, <1>12, NoCallFacts DEF CallFits
<1>14. CallFits(k)'
  <2>1. row.asked \in Nat /\ row.asked <= revision /\ row.asked <= newest
    BY <1>1, <1>10, <1>12 DEF CallFits, Pending, Requests
  <2>2. (request[k].asked <= revision /\ request[k].answer.revision <= revision)'
    BY <1>9, <1>10, <1>11, <2>1
  <2>3. k \in Told => row.asked = revision
    BY <1>1, <1>10 DEF Told, Uploads
  <2>4. k \in Told \ {"program"} => contents = history[revision]
    BY <1>3, <1>4 DEF Told, Uploads
  <2>5. revision \in 1..revision
    OBVIOUS
  <2>6. (request[k].at = "done" =>
            /\ request[k].answer.revision # 0
            /\ request[k].answer.contents = history[request[k].answer.revision]
            /\ k \in Told => request[k].asked # 0
            /\ k \in Told \ {"program"} => history[request[k].answer.revision] = history[request[k].asked]
            /\ k \in Uploads => draft.revision < request[k].answer.revision)'
    <3>1. draft.revision \in Nat /\ draft.revision <= revision
      BY DEF Copies, CopiesFit
    <3>2. draft'.revision < row.answer.revision /\ row.answer.revision # 0
      BY <1>1, <1>10, <3>1
    <3>. QED BY <1>9, <1>10, <1>11, <2>3, <2>4, <2>5, <3>2
  <2>. QED BY <1>1, <1>11, <1>13, <2>1, <2>2, <2>6 DEF CallFits, Pending
<1>15. SaveFits'
  <2>1. \A j \in Uploads : Pending(j)' => Pending(j)
    BY <1>1, <1>11, EditorErrands DEF Pending
  <2>2. CASE k = "save"
    BY <1>1, <1>9, <1>10, <1>11, <2>1, <2>2 DEF SaveFits, Pending
  <2>3. CASE k # "save"
    <3>1. request'["save"] = request["save"]
      BY <1>11, <2>3, EditorErrands
    <3>. QED BY <1>1, <2>1, <3>1 DEF SaveFits, Pending
  <2>. QED BY <2>2, <2>3
<1>16. \A j \in Told : Pending(j)' => Pending(j) /\ request'[j].asked = request[j].asked
  BY <1>1, <1>10, <1>11, EditorErrands DEF Pending
<1>17. ASSUME k = "save", ~overtaken
       PROVE  /\ history[revision] \subseteq contents /\ contents \subseteq screen.copy.contents
              /\ screen.same => typed \subseteq contents
              /\ request[k].asked = revision
  <2>1. SaveTrue
    BY <1>17 DEF EditorIInv, EditorTrue
  <2>2. request["save"].asked = revision /\ contents = request["save"].answer.contents
    BY <1>1, <1>4, <1>17
  <2>3. history[revision] \subseteq contents
    BY <1>1, <1>17, <2>1, <2>2 DEF SaveTrue, Pending, Has
  <2>. QED BY <1>1, <1>17, <2>1, <2>2, <2>3 DEF SaveTrue
<1>18. overtaken \/ history[revision] \subseteq history'[revision']
  BY <1>4, <1>9, <1>17
<1>19. request'["save"] = request["save"] \/ overtaken \/ SaveTrue'
  <2>. SUFFICES ASSUME k = "save", ~overtaken PROVE SaveTrue'
    BY <1>11, EditorErrands
  <2>1. (Pending("save") => Has(request["save"].asked, request["save"].answer.contents))'
    <3>1. history'[row.asked] \subseteq contents
      BY <1>9, <1>10, <1>17
    <3>. QED BY <1>10, <1>11, <3>1 DEF Has
  <2>. QED BY <1>1, <1>9, <1>10, <1>11, <1>17, <2>1 DEF SaveTrue
<1>20. made' \in Contents /\ revision <= revision'
  BY <1>3, <1>8, <1>9 DEF Contents
<1>. QED BY <1>1, <1>9, <1>11, <1>14, <1>15, <1>16, <1>18, <1>19, <1>20, ServerStepInv

(* A save whose page is gone ends, accepted or not.                        *)
LEMMA StrayEndsInv == EditorIInv /\ StrayEnds => EditorIInv'
<1>. SUFFICES ASSUME EditorIInv, StrayEnds PROVE EditorIInv'
  OBVIOUS
<1>. USE EditorKinds, ServerKeeps
<1>1. /\ UNCHANGED <<screen, cache, request, powers, typed, made, newest, overtaken>>
      /\ stray.revision # 0 /\ stray' = NoCopy
      /\ draft' = draft \/ (screen.at = "gone" /\ draft' = stray)
  BY DEF StrayEnds
<1>2. /\ draft' \in Copies /\ stray' \in Copies /\ draft'.revision <= revision /\ stray'.revision <= revision
      /\ overtaken \/ Has(draft'.revision, draft'.contents)
      /\ overtaken \/ Has(stray'.revision, stray'.contents)
  BY <1>1, NoCallFacts DEF Has
<1>3. SaveFits' /\ (\A j \in Told : Pending(j)' => Pending(j) /\ request'[j].asked = request[j].asked)
  BY <1>1 DEF SaveFits, Pending
<1>4. CASE UNCHANGED <<revision, history>>
  BY <1>1, <1>2, <1>3, <1>4, ServerStepInv DEF Revisions
<1>5. CASE stray.revision = revision /\ Writes(stray.contents)
  <2>1. stray.contents \in Contents
    BY DEF Copies
  <2>2. /\ revision' = revision + 1 /\ revision' \in Revisions
        /\ history' \in [Revisions -> Contents] /\ history'[revision'] = stray.contents
        /\ \A n \in 1..revision : history'[n] = history[n]
    BY <1>5, <2>1, WritesIs
  <2>3. overtaken \/ history[revision] \subseteq history'[revision']
    BY <1>1, <1>5, <2>2 DEF Has
  <2>. QED BY <1>1, <1>2, <1>3, <2>2, <2>3, ServerStepInv
<1>. QED BY <1>4, <1>5 DEF StrayEnds

LEMMA OthersWriteInv == EditorIInv /\ OthersWrite => EditorIInv'
<1>. SUFFICES ASSUME EditorIInv, OthersWrite PROVE EditorIInv'
  OBVIOUS
<1>. USE EditorKinds, ServerKeeps
<1>1. UNCHANGED <<screen, cache, draft, powers, typed, request, stray, newest, overtaken>>
  BY DEF OthersWrite, ScreenStays
<1>2. PICK new \in {{}} \cup {{c} : c \in Passages} : Writes(history[revision] \cup new) /\ made' = made \cup new
  BY DEF OthersWrite
<1>3. new \in Contents /\ history[revision] \in Contents
  BY DEF Contents, Revisions
<1>4. history[revision] \cup new \in Contents /\ made' \in Contents
  BY <1>2, <1>3 DEF Contents
<1>5. /\ revision' = revision + 1 /\ revision' \in Revisions
      /\ history' \in [Revisions -> Contents] /\ history'[revision'] = history[revision] \cup new
      /\ \A n \in 1..revision : history'[n] = history[n]
  BY <1>2, <1>4, WritesIs
<1>6. SaveFits' /\ (\A j \in Told : Pending(j)' => Pending(j) /\ request'[j].asked = request[j].asked)
  BY <1>1 DEF SaveFits, Pending
<1>. QED BY <1>1, <1>4, <1>5, <1>6, ServerStepInv

(* What a tab or a button can do.                                          *)
LEMMA TabsInv ==
  ASSUME EditorIInv, screen.at = "open",
         OverviewTab \/ StatementTab \/ SamplesTab \/ JudgeTab \/ SolutionTab \/ ReviewTab \/ Buttons \/ Autosave
  PROVE  EditorIInv'
<1>1. ASSUME NEW right, TypesWith(right) PROVE EditorIInv'
  BY <1>1, TypesInv DEF TypesWith
<1>2. ASSUME NEW k \in Errands \ {"read", "save"}, AtRest, Starts(k) PROVE EditorIInv'
  BY <1>2, StartsInv DEF AtRest, Pending
<1>3. ASSUME NEW k \in Uploads, Upload(k) PROVE EditorIInv'
  BY <1>2, <1>3, EditorErrands DEF Upload
<1>4. ASSUME NEW k \in {"status", "apply", "review", "decision"}, ~screen.dirty, Starts(k) PROVE EditorIInv'
  BY <1>4, StartsInv, EditorErrands
<1>5. CASE SaveNow
  BY <1>5, SaveNowInv
<1>6. CASE OverviewTab
  BY <1>1, <1>2, <1>6, EditorErrands DEF OverviewTab
<1>7. CASE StatementTab \/ SamplesTab \/ JudgeTab \/ SolutionTab
  BY <1>1, <1>3, <1>7 DEF StatementTab, SamplesTab, JudgeTab, SolutionTab, Uploads
<1>8. CASE ReviewTab
  BY <1>4, <1>8 DEF ReviewTab, Quiet
<1>9. CASE Buttons
  BY <1>2, <1>4, <1>5, <1>9, EditorErrands DEF Buttons, SaveAgain, SubmitNow, WithdrawNow
<1>. QED BY <1>5, <1>6, <1>7, <1>8, <1>9 DEF Autosave

LEMMA AnswersArriveInv ==
  ASSUME EditorIInv, screen.at = "open", AnswersArrive
  PROVE  EditorIInv'
<1>1. CASE DecisionArrives
  BY <1>1, InvalidatesOnlyInv, EditorErrands DEF DecisionArrives
<1>2. ASSUME NEW k \in Errands, OtherFails(k) PROVE EditorIInv'
  BY <1>2, SettlesOnlyInv DEF OtherFails
<1>. QED BY <1>1, <1>2, SaveArrivesInv, SaveFailsInv, ToggleArrivesInv, StatusArrivesInv, ApplyArrivesInv,
            ApplyFailsInv, ReviewArrivesInv, UploadArrivesInv DEF AnswersArrive

LEMMA EditorStepInv ==
  ASSUME EditorIInv, [EditorNext]_editorVars PROVE EditorIInv'
<1>1. CASE UNCHANGED editorVars
  <2>. USE <1>1 DEF editorVars
  <2>1. EditorTypeOK' = EditorTypeOK
    BY DEF EditorTypeOK
  <2>2. CallsFit' /\ SaveFits' /\ CopiesFit'
    BY DEF EditorIInv, CallsFit, CallFits, SaveFits, CopiesFit, Pending
  <2>3. ASSUME ~overtaken PROVE EditorTrue'
    <3>1. EditorTrue
      BY <2>3 DEF EditorIInv
    <3>2. NothingOverwritten' /\ NothingTypedIsLost' /\ CopiesTrue' /\ RestTrue'
      BY <3>1 DEF EditorTrue, NothingOverwritten, NothingTypedIsLost, CopiesTrue, RestTrue, Has
    <3>3. SaveTrue' /\ CallsTrue'
      BY <3>1 DEF EditorTrue, SaveTrue, CallsTrue, Has, Pending
    <3>. QED BY <3>2, <3>3 DEF EditorTrue
  <2>. QED BY <2>1, <2>2, <2>3 DEF EditorIInv
<1>2. CASE Server
  BY <1>2, ReadInv, AcceptsInv, KeepsInv, FailsInv, StrayEndsInv, OthersWriteInv DEF Server
<1>3. CASE ReadsAnew \/ ReadArrives \/ Reopen
  BY <1>3, ReadsAnewInv, ReadArrivesInv, ReopenInv
<1>4. ASSUME NEW k \in Errands, Cleared(k) PROVE EditorIInv'
  BY <1>4, ClearedInv
<1>. QED BY <1>1, <1>2, <1>3, <1>4, TabsInv, AnswersArriveInv DEF EditorNext

(* Any number of passages, and any course of the requests of the page: as  *)
(* long as no contents were shown that were older than a revision the page *)
(* knew of, no save overwrites what it has not seen, and what was typed is *)
(* on the page or on the server.                                           *)
THEOREM EditorIsSafe == EditorSpec => []EditorInv
BY EditorInitInv, EditorStepInv, EditorIInvImplies, PTL DEF EditorSpec
=============================================================================
