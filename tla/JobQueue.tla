------------------------------ MODULE JobQueue ------------------------------
(***************************************************************************)
(* The Redis job queue of packages/jobs (redis.ts).  Each action is one    *)
(* Lua script: Redis runs it atomically and reads its own clock, here      *)
(* `now`.  The state is the job records, the idempotency index and the two *)
(* sorted sets the scripts keep beside the records: `queued`, scored by    *)
(* the time a job becomes available, and `running`, scored by the end of   *)
(* its lease.  Callers are not modelled here: any lease number ever issued *)
(* may be presented at any time, so a caller may be arbitrarily late.      *)
(* LocalJobQueue (local.ts) has the same transitions without the sets.     *)
(***************************************************************************)
EXTENDS Integers, FiniteSets

CONSTANTS
    Jobs,          \* job ids
    Keys,          \* pairs <idempotency scope, idempotency key>
    Digests,       \* request digests
    Requests,      \* the enqueue requests clients may send
    Percents,      \* progress values a handler may report
    Items,         \* item ids a handler may report on
    MaxReports,    \* the limit of 10000 reports per job
    MaxAttempts,   \* maxAttempts of every job
    LeaseMs,       \* lease length
    RetryDelayMs,  \* delay before a retryable failure is available again
    MaxTime        \* bound of the model: the clock stops here

Unset == "unset"   \* no job, key or digest

ASSUME QueueAssumption ==
    /\ Unset \notin Jobs
    /\ Requests \subseteq [id : Jobs, key : Keys, digest : Digests]
    /\ Percents \subseteq 0..100
    /\ MaxReports \in Nat
    /\ MaxAttempts \in Nat \ {0}
    /\ LeaseMs \in Nat \ {0}
    /\ RetryDelayMs \in Nat
    /\ MaxTime \in Nat

VARIABLES
    job,      \* job[j]: the record of job j
    index,    \* index[k]: what idempotency key k was first used for
    queued,   \* queued[j]: score of j in the sorted set "queued"
    running,  \* running[j]: score of j in the sorted set "running"
    now,      \* the Redis clock
    leases    \* how many lease ids were drawn; the next one is leases + 1

vars == <<job, index, queued, running, now, leases>>

NoScore == -1
NoId    == 0
Done    == 100
NoLease == [id |-> NoId, expiresAt |-> 0]

Terminal == {"succeeded", "failed", "cancelled"}
States   == {"absent", "queued", "running"} \cup Terminal
Failures == {"none", "handler", "lease_expired"}

Lease     == [id : Nat, expiresAt : Nat]
Index     == [id : Jobs \cup {Unset}, digest : Digests \cup {Unset}]
JobRecord == [ state       : States,
               key         : Keys \cup {Unset},
               digest      : Digests \cup {Unset},
               attempt     : 0..MaxAttempts,
               progress    : 0..100,
               reports     : SUBSET Items,
               lease       : Lease,
               availableAt : Nat,
               failure     : Failures ]

NoIndex == [id |-> Unset, digest |-> Unset]
NoJob   == [ state |-> "absent", key |-> Unset, digest |-> Unset, attempt |-> 0,
             progress |-> 0, reports |-> {}, lease |-> NoLease, availableAt |-> 0,
             failure |-> "none" ]

Scores == Nat \cup {NoScore}

TypeOK ==
    /\ job \in [Jobs -> JobRecord]
    /\ index \in [Keys -> Index]
    /\ queued \in [Jobs -> Scores]
    /\ running \in [Jobs -> Scores]
    /\ now \in 0..MaxTime
    /\ leases \in Nat

Init ==
    /\ job = [j \in Jobs |-> NoJob]
    /\ index = [k \in Keys |-> NoIndex]
    /\ queued = [j \in Jobs |-> NoScore]
    /\ running = [j \in Jobs |-> NoScore]
    /\ now = 0
    /\ leases = 0

-----------------------------------------------------------------------------
(* enqueue.  The index must not name another job or another request, and a *)
(* stored record must be of this very request; a known job is returned as  *)
(* it stands and at most its missing index entry is repaired.              *)
IndexAgrees(r) == index[r.key] \in {NoIndex, [id |-> r.id, digest |-> r.digest]}

RecordAgrees(r) == /\ job[r.id].key = r.key
                   /\ job[r.id].digest = r.digest

NewJob(r) ==
    [ state |-> "queued", key |-> r.key, digest |-> r.digest, attempt |-> 0,
      progress |-> 0, reports |-> {}, lease |-> NoLease, availableAt |-> now,
      failure |-> "none" ]

Enqueue(r) ==
    /\ IndexAgrees(r)
    /\ index' = [index EXCEPT ![r.key] = [id |-> r.id, digest |-> r.digest]]
    /\ IF job[r.id].state # "absent"
       THEN RecordAgrees(r) /\ UNCHANGED <<job, queued, running>>
       ELSE /\ job' = [job EXCEPT ![r.id] = NewJob(r)]
            /\ queued' = [queued EXCEPT ![r.id] = now]
            /\ running' = [running EXCEPT ![r.id] = NoScore]
    /\ UNCHANGED <<now, leases>>

-----------------------------------------------------------------------------
(* leaseNext, its second script: entries whose record is not queued are    *)
(* dropped on the way, and the entry that has waited longest is leased.    *)
Due(j)      == queued[j] # NoScore /\ queued[j] <= now
Leasable(j) == Due(j) /\ job[j].state = "queued"
Dropped(j)  == Due(j) /\ job[j].state # "queued"

\* mutant: the attempt is not counted when the job is leased
LeaseJob_Uncounted(j) ==
    /\ Leasable(j)
    /\ leases' = leases + 1
    /\ job' = [job EXCEPT ![j].state = "running",
                          ![j].lease = [id |-> leases + 1, expiresAt |-> now + LeaseMs]]
    /\ queued' = [queued EXCEPT ![j] = NoScore]
    /\ running' = [running EXCEPT ![j] = now + LeaseMs]
    /\ UNCHANGED <<index, now>>

LeaseJob(j) ==
    /\ Leasable(j)
    /\ \A k \in Jobs : Leasable(k) => queued[j] <= queued[k]
    /\ leases' = leases + 1
    /\ job' = [job EXCEPT ![j].state = "running",
                          ![j].attempt = @ + 1,
                          ![j].lease = [id |-> leases + 1, expiresAt |-> now + LeaseMs]]
    /\ queued' = [k \in Jobs |-> IF k = j \/ (Dropped(k) /\ queued[k] < queued[j])
                                 THEN NoScore ELSE queued[k]]
    /\ running' = [running EXCEPT ![j] = now + LeaseMs]
    /\ UNCHANGED <<index, now>>

LeaseNext == \E j \in Jobs : LeaseJob(j)

-----------------------------------------------------------------------------
(* What renew, progress, report, complete and fail check first: the sorted *)
(* set, the record and the presented lease id must all agree that the      *)
(* lease is the current one and has not run out.  A caller that fails the  *)
(* check is told LEASE_LOST and nothing changes.                           *)
\* mutant: the lease end is not compared with the clock
ActiveLease_NoClock(j, l) == job[j].state = "running" /\ job[j].lease.id = l

ActiveLease(j, l) ==
    /\ running[j] > now
    /\ job[j].state = "running"
    /\ job[j].lease.id = l
    /\ job[j].lease.expiresAt = running[j]

RenewLease(j, l) ==
    /\ ActiveLease(j, l)
    /\ job' = [job EXCEPT ![j].lease.expiresAt = now + LeaseMs]
    /\ running' = [running EXCEPT ![j] = now + LeaseMs]
    /\ UNCHANGED <<index, queued, now, leases>>

UpdateProgress(j, l, p) ==
    /\ ActiveLease(j, l)
    /\ p >= job[j].progress
    /\ job' = [job EXCEPT ![j].progress = p]
    /\ UNCHANGED <<index, queued, running, now, leases>>

PutItemReport(j, l, i) ==
    /\ ActiveLease(j, l)
    /\ i \in job[j].reports \/ Cardinality(job[j].reports) < MaxReports
    /\ job' = [job EXCEPT ![j].reports = @ \cup {i}]
    /\ UNCHANGED <<index, queued, running, now, leases>>

Complete(j, l) ==
    /\ ActiveLease(j, l)
    /\ job' = [job EXCEPT ![j].state = "succeeded", ![j].lease = NoLease,
                          ![j].failure = "none", ![j].progress = Done]
    /\ running' = [running EXCEPT ![j] = NoScore]
    /\ UNCHANGED <<index, queued, now, leases>>

(* A retryable failure with attempts left goes back to the queue after the *)
(* retry delay, any other one is final.                                    *)
Fail(j, l, retryable) ==
    /\ ActiveLease(j, l)
    /\ running' = [running EXCEPT ![j] = NoScore]
    /\ IF retryable /\ job[j].attempt < MaxAttempts
       THEN /\ job' = [job EXCEPT ![j].state = "queued", ![j].lease = NoLease,
                                  ![j].failure = "handler",
                                  ![j].availableAt = now + RetryDelayMs]
            /\ queued' = [queued EXCEPT ![j] = now + RetryDelayMs]
       ELSE /\ job' = [job EXCEPT ![j].state = "failed", ![j].lease = NoLease,
                                  ![j].failure = "handler"]
            /\ UNCHANGED queued
    /\ UNCHANGED <<index, now, leases>>

\* mutant: a cancelled job stays in the running set
Cancel_KeepsEntry(j) ==
    /\ job[j].state \in {"queued", "running"}
    /\ job' = [job EXCEPT ![j].state = "cancelled", ![j].lease = NoLease]
    /\ queued' = [queued EXCEPT ![j] = NoScore]
    /\ UNCHANGED <<index, running, now, leases>>

\* mutant: a finished job can be cancelled
Cancel_Finished(j) ==
    /\ job[j].state # "absent"
    /\ job' = [job EXCEPT ![j].state = "cancelled", ![j].lease = NoLease]
    /\ queued' = [queued EXCEPT ![j] = NoScore]
    /\ running' = [running EXCEPT ![j] = NoScore]
    /\ UNCHANGED <<index, now, leases>>

Cancel(j) ==
    /\ job[j].state \in {"queued", "running"}
    /\ job' = [job EXCEPT ![j].state = "cancelled", ![j].lease = NoLease]
    /\ queued' = [queued EXCEPT ![j] = NoScore]
    /\ running' = [running EXCEPT ![j] = NoScore]
    /\ UNCHANGED <<index, now, leases>>

-----------------------------------------------------------------------------
(* recoverExpiredLeases: every entry of "running" that is due.  A record   *)
(* whose own lease is later than its score has its score corrected; a      *)
(* record that is not running loses its entry; the others are requeued, or *)
(* failed after their last attempt.  The client repeats the script until   *)
(* no batch is full, so one step stands for all batches.                   *)
Overdue(j) == running[j] # NoScore /\ running[j] <= now
Leased(j)  == job[j].state = "running" /\ job[j].lease.id # NoId
Expired(j) == Overdue(j) /\ Leased(j) /\ job[j].lease.expiresAt <= now

Reclaimed(r) ==
    IF r.attempt < MaxAttempts
    THEN [r EXCEPT !.state = "queued", !.lease = NoLease, !.availableAt = now,
                   !.failure = "lease_expired"]
    ELSE [r EXCEPT !.state = "failed", !.lease = NoLease, !.failure = "lease_expired"]

RecoverExpired ==
    /\ job' = [j \in Jobs |-> IF Expired(j) THEN Reclaimed(job[j]) ELSE job[j]]
    /\ running' = [j \in Jobs |->
                     IF ~Overdue(j) THEN running[j]
                     ELSE IF Leased(j) /\ ~Expired(j) THEN job[j].lease.expiresAt
                     ELSE NoScore]
    /\ queued' = [j \in Jobs |->
                    IF Expired(j) /\ job[j].attempt < MaxAttempts THEN now ELSE queued[j]]
    /\ UNCHANGED <<index, now, leases>>

Tick == /\ now < MaxTime
        /\ now' = now + 1
        /\ UNCHANGED <<job, index, queued, running, leases>>

-----------------------------------------------------------------------------
HolderStep(j, l) ==
    \/ RenewLease(j, l)
    \/ \E p \in Percents : UpdateProgress(j, l, p)
    \/ \E i \in Items : PutItemReport(j, l, i)
    \/ Complete(j, l)
    \/ \E retryable \in BOOLEAN : Fail(j, l, retryable)

Next ==
    \/ \E r \in Requests : Enqueue(r)
    \/ LeaseNext
    \/ \E j \in Jobs : \E l \in 1..leases : HolderStep(j, l)
    \/ \E j \in Jobs : Cancel(j)
    \/ RecoverExpired
    \/ Tick

Spec == Init /\ [][Next]_vars

-----------------------------------------------------------------------------
(* The sorted sets are an index over the records: a job is in "queued"     *)
(* exactly while its record waits, under the time it becomes available,    *)
(* and in "running" exactly while its record is leased, under the end of   *)
(* that lease.  A job missing from its set would never be picked up or     *)
(* never be recovered; one in the wrong set would run twice.               *)
SetsMatchRecords ==
    \A j \in Jobs :
        /\ queued[j] = IF job[j].state = "queued" THEN job[j].availableAt ELSE NoScore
        /\ running[j] = IF job[j].state = "running" THEN job[j].lease.expiresAt ELSE NoScore

(* A lease id belongs to one running job; a lease is held exactly while    *)
(* the job runs; ids in use were drawn before.                             *)
LeasesUnique ==
    /\ \A j \in Jobs : /\ job[j].state = "running" <=> job[j].lease.id # NoId
                       /\ job[j].lease.id <= leases
    /\ \A j, k \in Jobs : job[j].lease.id = job[k].lease.id /\ job[j].lease.id # NoId
                            => j = k

(* A waiting job has an attempt left (README of packages/jobs: at          *)
(* maxAttempts a job is failed and never executed again).                  *)
AttemptsBounded == \A j \in Jobs : job[j].state = "queued" => job[j].attempt < MaxAttempts

(* An idempotency key stands for one job and one request, the record and   *)
(* the index never disagree, and two jobs never share a key.               *)
KeysMatchRecords ==
    /\ \A j \in Jobs : job[j].state # "absent" =>
         /\ job[j].key \in Keys
         /\ index[job[j].key] = [id |-> j, digest |-> job[j].digest]
    /\ \A k \in Keys : index[k] # NoIndex =>
         /\ index[k].id \in Jobs
         /\ job[index[k].id].key = k
         /\ job[index[k].id].state # "absent"

(* Nothing is stored of a job nobody enqueued.                             *)
AbsentIsBlank == \A j \in Jobs : job[j].state = "absent" => job[j] = NoJob

(* The inductive invariant.                                                *)
Inv == /\ TypeOK
       /\ SetsMatchRecords
       /\ LeasesUnique
       /\ AttemptsBounded
       /\ KeysMatchRecords
       /\ AbsentIsBlank

(* A finished job is never touched again: no replay, late holder, cancel   *)
(* or recovery changes its record or lists it in a set.                    *)
FinalUntouched ==
    \A j \in Jobs : job[j].state \in Terminal =>
        job'[j] = job[j] /\ queued'[j] = NoScore /\ running'[j] = NoScore

TerminalIsFinal == [][FinalUntouched]_vars

(* While a lease is live nobody else gets the job: its id can only change  *)
(* to "none", never to another holder, and each new lease costs exactly    *)
(* one attempt of the job it is granted for.                               *)
Handover(old, new) ==
    /\ new.lease.id \notin {old.lease.id, NoId} => old.lease.id = NoId /\ new.lease.id > leases
    /\ new.attempt = IF new.lease.id \notin {old.lease.id, NoId}
                     THEN old.attempt + 1 ELSE old.attempt

(* Progress and reports survive retries and recoveries: a job never loses  *)
(* reported work, across whatever sequence of holders.                     *)
Grows(old, new) == old.progress <= new.progress /\ old.reports \subseteq new.reports

(* A job changes hands only through "no lease", at the cost of an attempt, *)
(* and its next holder finds all that was reported before.                 *)
LeaseHandover ==
    [][\A j \in Jobs : Handover(job[j], job'[j]) /\ Grows(job[j], job'[j])]_vars

-----------------------------------------------------------------------------
(* The queue implements JobLifecycle.  A lease is live while its end lies  *)
(* in the future; the clock makes leases lapse.                            *)
Life == INSTANCE JobLifecycle WITH
    phase    <- [j \in Jobs |-> job[j].state],
    attempts <- [j \in Jobs |-> job[j].attempt],
    holder   <- [j \in Jobs |-> job[j].lease.id],
    live     <- {j \in Jobs : job[j].state = "running" /\ job[j].lease.expiresAt > now},
    issued   <- leases

(* Every step of the scripts is a step the abstract queue may take.        *)
ImplementsLifecycle == Life!LifeSpec
=============================================================================
