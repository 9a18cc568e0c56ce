--------------------------- MODULE JobQueueProofs ---------------------------
(***************************************************************************)
(* Proofs about JobQueue for every set of jobs, keys and requests and all  *)
(* limits: the invariant Inv, the action properties and the refinement of  *)
(* JobLifecycle.                                                           *)
(***************************************************************************)
EXTENDS JobQueue, TLAPS

(* What the records are built of.                                          *)
LEMMA RecordParts ==
    /\ NoLease \in Lease
    /\ {"queued", "running", "succeeded", "failed", "cancelled"} \subseteq States
    /\ {"none", "handler", "lease_expired"} \subseteq Failures
BY DEF NoLease, NoId, Lease, States, Terminal, Failures

(* One lemma per script: the script keeps the invariant.                   *)
LEMMA EnqueueInv == ASSUME Inv, NEW r \in Requests, Enqueue(r) PROVE Inv'
<1>. USE QueueAssumption DEF QueueAssumption
<1>1. r.id \in Jobs /\ r.key \in Keys /\ r.digest \in Digests
  OBVIOUS
<1>2. CASE job[r.id].state # "absent"
  BY <1>1, <1>2 DEF Inv, TypeOK, SetsMatchRecords, LeasesUnique, AttemptsBounded,
     KeysMatchRecords, AbsentIsBlank, Enqueue, IndexAgrees, RecordAgrees, Index, NoIndex
<1>3. CASE job[r.id].state = "absent"
  <2>. DEFINE new == NewJob(r)
  <2>1. /\ job' = [job EXCEPT ![r.id] = new]
        /\ queued' = [queued EXCEPT ![r.id] = now]
        /\ running' = [running EXCEPT ![r.id] = NoScore]
        /\ index' = [index EXCEPT ![r.key] = [id |-> r.id, digest |-> r.digest]]
        /\ UNCHANGED <<now, leases>>
    BY <1>3 DEF Enqueue
  <2>2. /\ new \in JobRecord
        /\ new.state = "queued" /\ new.key = r.key /\ new.digest = r.digest
        /\ new.availableAt = now /\ new.lease = NoLease /\ new.attempt = 0
    BY <1>1 DEF NewJob, JobRecord, States, Terminal, Failures, Lease, NoLease, NoId, Inv, TypeOK
  <2>. HIDE DEF new
  <2>3. TypeOK'
    BY <1>1, <2>1, <2>2 DEF Inv, TypeOK, Scores, NoScore, Index
  <2>4. SetsMatchRecords'
    BY <1>1, <2>1, <2>2 DEF Inv, TypeOK, SetsMatchRecords
  <2>5. LeasesUnique' /\ AttemptsBounded'
    BY <1>1, <2>1, <2>2 DEF Inv, TypeOK, LeasesUnique, AttemptsBounded, NoLease, NoId
  <2>6. KeysMatchRecords' /\ AbsentIsBlank'
    BY <1>1, <1>3, <2>1, <2>2 DEF Inv, TypeOK, KeysMatchRecords, AbsentIsBlank, Enqueue, IndexAgrees,
       NoIndex, Index
  <2>. QED BY <2>3, <2>4, <2>5, <2>6 DEF Inv
<1>. QED BY <1>2, <1>3

LEMMA LeaseJobInv == ASSUME Inv, NEW j \in Jobs, LeaseJob(j) PROVE Inv'
<1>. USE QueueAssumption DEF QueueAssumption
<1>1. /\ job[j].state = "queued" /\ job[j].attempt < MaxAttempts
      /\ job[j] \in JobRecord
  BY DEF LeaseJob, Leasable, Inv, TypeOK, AttemptsBounded
<1>2. now \in Nat /\ leases \in Nat /\ now + LeaseMs \in Nat
  BY DEF Inv, TypeOK
<1>. DEFINE new == [job[j] EXCEPT !.state = "running", !.attempt = @ + 1,
                        !.lease = [id |-> leases + 1, expiresAt |-> now + LeaseMs]]
<1>3. TypeOK'
  <2>1. job' = [job EXCEPT ![j] = new]
    BY DEF LeaseJob
  <2>2. new \in JobRecord
    <3>1. /\ job[j].attempt + 1 \in 0..MaxAttempts
          /\ [id |-> leases + 1, expiresAt |-> now + LeaseMs] \in Lease
          /\ "running" \in States
      BY <1>1, <1>2 DEF JobRecord, Lease, States
    <3>. QED BY <1>1, <3>1 DEF JobRecord
  <2>3. queued' \in [Jobs -> Scores] /\ running' \in [Jobs -> Scores]
    BY <1>2 DEF LeaseJob, Inv, TypeOK, Scores
  <2>4. leases' \in Nat /\ UNCHANGED <<index, now>>
    BY <1>2 DEF LeaseJob
  <2>. HIDE DEF new
  <2>. QED BY <2>1, <2>2, <2>3, <2>4 DEF Inv, TypeOK
<1>4. SetsMatchRecords'
  BY <1>1, <1>2 DEF LeaseJob, Inv, TypeOK, SetsMatchRecords, Dropped, Due, NoScore
<1>5. LeasesUnique'
  BY <1>1, <1>2 DEF LeaseJob, Inv, TypeOK, LeasesUnique, NoId, JobRecord, Lease
<1>6. AttemptsBounded' /\ KeysMatchRecords' /\ AbsentIsBlank'
  BY <1>1 DEF LeaseJob, Inv, TypeOK, AttemptsBounded, KeysMatchRecords, AbsentIsBlank
<1>. QED BY <1>3, <1>4, <1>5, <1>6 DEF Inv

LEMMA RenewLeaseInv ==
    ASSUME Inv, NEW j \in Jobs, NEW l \in 1..leases, RenewLease(j, l) PROVE Inv'
<1>. USE QueueAssumption DEF QueueAssumption
<1>1. job[j].state = "running" /\ job[j].lease.id = l /\ job[j] \in JobRecord
  BY DEF RenewLease, ActiveLease, Inv, TypeOK
<1>2. now \in Nat /\ leases \in Nat /\ now + LeaseMs \in Nat
  BY DEF Inv, TypeOK
<1>3. TypeOK'
  <2>. DEFINE new == [job[j] EXCEPT !.lease.expiresAt = now + LeaseMs]
  <2>1. job' = [job EXCEPT ![j] = new]
    BY DEF RenewLease
  <2>2. [job[j].lease EXCEPT !.expiresAt = now + LeaseMs] \in Lease
    BY <1>1, <1>2 DEF JobRecord, Lease
  <2>3. new \in JobRecord
    BY <1>1, <2>2 DEF JobRecord
  <2>. HIDE DEF new
  <2>4. job' \in [Jobs -> JobRecord]
    BY <2>1, <2>3 DEF Inv, TypeOK
  <2>5. running' \in [Jobs -> Scores]
    BY <1>2 DEF RenewLease, Inv, TypeOK, Scores
  <2>. QED BY <2>4, <2>5 DEF RenewLease, Inv, TypeOK
<1>4. SetsMatchRecords'
  BY <1>1, <1>2 DEF RenewLease, Inv, TypeOK, SetsMatchRecords, JobRecord, Lease
<1>5. LeasesUnique'
  BY <1>1, <1>2 DEF RenewLease, Inv, TypeOK, LeasesUnique, NoId, JobRecord, Lease
<1>6. AttemptsBounded' /\ KeysMatchRecords' /\ AbsentIsBlank'
  BY <1>1 DEF RenewLease, Inv, TypeOK, AttemptsBounded, KeysMatchRecords, AbsentIsBlank
<1>. QED BY <1>3, <1>4, <1>5, <1>6 DEF Inv

LEMMA UpdateProgressInv ==
    ASSUME Inv, NEW j \in Jobs, NEW l \in 1..leases, NEW p \in Percents,
           UpdateProgress(j, l, p)
    PROVE  Inv'
<1>. USE QueueAssumption DEF QueueAssumption
<1>1. job[j] \in JobRecord /\ job[j].state = "running" /\ p \in 0..100
  BY DEF UpdateProgress, ActiveLease, Inv, TypeOK
<1>2. TypeOK'
  BY <1>1 DEF UpdateProgress, Inv, TypeOK, JobRecord
<1>3. SetsMatchRecords' /\ LeasesUnique' /\ AttemptsBounded' /\ KeysMatchRecords' /\ AbsentIsBlank'
  BY <1>1 DEF UpdateProgress, Inv, TypeOK, SetsMatchRecords, LeasesUnique, AttemptsBounded,
     KeysMatchRecords, AbsentIsBlank, JobRecord
<1>. QED BY <1>2, <1>3 DEF Inv

LEMMA PutItemReportInv ==
    ASSUME Inv, NEW j \in Jobs, NEW l \in 1..leases, NEW i \in Items,
           PutItemReport(j, l, i)
    PROVE  Inv'
<1>1. /\ job[j] \in JobRecord /\ job[j].state = "running"
      /\ job[j].reports \cup {i} \in SUBSET Items
  BY DEF PutItemReport, ActiveLease, Inv, TypeOK, JobRecord
<1>2. TypeOK'
  BY <1>1 DEF PutItemReport, Inv, TypeOK, JobRecord
<1>3. SetsMatchRecords' /\ LeasesUnique' /\ AttemptsBounded' /\ KeysMatchRecords' /\ AbsentIsBlank'
  BY <1>1 DEF PutItemReport, Inv, TypeOK, SetsMatchRecords, LeasesUnique, AttemptsBounded,
     KeysMatchRecords, AbsentIsBlank, JobRecord
<1>. QED BY <1>2, <1>3 DEF Inv

LEMMA CompleteInv ==
    ASSUME Inv, NEW j \in Jobs, NEW l \in 1..leases, Complete(j, l) PROVE Inv'
<1>. USE QueueAssumption DEF QueueAssumption
<1>1. job[j].state = "running" /\ job[j] \in JobRecord
  BY DEF Complete, ActiveLease, Inv, TypeOK
<1>. DEFINE new == [job[j] EXCEPT !.state = "succeeded", !.lease = NoLease,
                                  !.failure = "none", !.progress = Done]
<1>2. TypeOK'
  <2>1. /\ job' = [job EXCEPT ![j] = new]
        /\ running' = [running EXCEPT ![j] = NoScore]
        /\ UNCHANGED <<index, queued, now, leases>>
    BY DEF Complete
  <2>2. Done \in 0..100
    BY DEF Done
  <2>3. new \in JobRecord
    BY <1>1, <2>2, RecordParts DEF JobRecord
  <2>. HIDE DEF new
  <2>. QED BY <2>1, <2>3 DEF Inv, TypeOK, Scores
<1>3. SetsMatchRecords' /\ LeasesUnique' /\ AttemptsBounded' /\ KeysMatchRecords' /\ AbsentIsBlank'
  BY <1>1 DEF Complete, Inv, TypeOK, SetsMatchRecords, LeasesUnique, AttemptsBounded,
     KeysMatchRecords, AbsentIsBlank, JobRecord, NoLease, NoId
<1>. QED BY <1>2, <1>3 DEF Inv

LEMMA FailInv ==
    ASSUME Inv, NEW j \in Jobs, NEW l \in 1..leases, NEW retryable \in BOOLEAN,
           Fail(j, l, retryable)
    PROVE  Inv'
<1>. USE QueueAssumption DEF QueueAssumption
<1>1. /\ job[j].state = "running" /\ job[j] \in JobRecord
      /\ now + RetryDelayMs \in Nat
  BY DEF Fail, ActiveLease, Inv, TypeOK
<1>2. CASE retryable /\ job[j].attempt < MaxAttempts
  <2>. DEFINE new == [job[j] EXCEPT !.state = "queued", !.lease = NoLease,
                          !.failure = "handler", !.availableAt = now + RetryDelayMs]
  <2>1. TypeOK'
    <3>1. job' = [job EXCEPT ![j] = new]
      BY <1>2 DEF Fail
    <3>2. new \in JobRecord
      BY <1>1, RecordParts DEF JobRecord
    <3>. HIDE DEF new
    <3>3. job' \in [Jobs -> JobRecord]
      BY <3>1, <3>2 DEF Inv, TypeOK
    <3>4. running' \in [Jobs -> Scores] /\ queued' \in [Jobs -> Scores]
      <4>1. now + RetryDelayMs \in Scores /\ NoScore \in Scores
        BY <1>1 DEF Scores
      <4>2. /\ running' = [running EXCEPT ![j] = NoScore]
            /\ queued' = [queued EXCEPT ![j] = now + RetryDelayMs]
        BY <1>2 DEF Fail
      <4>. QED BY <4>1, <4>2 DEF Inv, TypeOK
    <3>. QED BY <1>2, <3>3, <3>4 DEF Fail, Inv, TypeOK
  <2>2. SetsMatchRecords'
    BY <1>1, <1>2 DEF Fail, Inv, TypeOK, SetsMatchRecords, JobRecord, NoLease, NoId
  <2>3. LeasesUnique'
    BY <1>1, <1>2 DEF Fail, Inv, TypeOK, LeasesUnique, JobRecord, NoLease, NoId
  <2>4. /\ \A k \in Jobs : k # j => job'[k] = job[k]
        /\ job'[j].state = "queued" /\ job'[j].attempt = job[j].attempt
        /\ job'[j].key = job[j].key /\ job'[j].digest = job[j].digest
    BY <1>1, <1>2 DEF Fail, Inv, TypeOK, JobRecord
  <2>5. index' = index /\ index \in [Keys -> Index]
    BY DEF Fail, Inv, TypeOK
  <2>6. AttemptsBounded'
    BY <1>1, <1>2, <2>4 DEF Inv, AttemptsBounded
  <2>7. KeysMatchRecords'
    BY <1>1, <2>4, <2>5 DEF Inv, KeysMatchRecords
  <2>8. AbsentIsBlank'
    BY <1>1, <2>4 DEF Inv, AbsentIsBlank
  <2>. QED BY <2>1, <2>2, <2>3, <2>6, <2>7, <2>8 DEF Inv
<1>3. CASE ~(retryable /\ job[j].attempt < MaxAttempts)
  <2>. DEFINE new == [job[j] EXCEPT !.state = "failed", !.lease = NoLease,
                                    !.failure = "handler"]
  <2>1. TypeOK'
    <3>1. job' = [job EXCEPT ![j] = new]
      BY <1>3 DEF Fail
    <3>2. new \in JobRecord
      BY <1>1, RecordParts DEF JobRecord
    <3>. HIDE DEF new
    <3>3. job' \in [Jobs -> JobRecord]
      BY <3>1, <3>2 DEF Inv, TypeOK
    <3>4. running' \in [Jobs -> Scores] /\ queued' \in [Jobs -> Scores]
      <4>1. now + RetryDelayMs \in Scores /\ NoScore \in Scores
        BY <1>1 DEF Scores
      <4>2. /\ running' = [running EXCEPT ![j] = NoScore]
            /\ queued' = queued
        BY <1>3 DEF Fail
      <4>. QED BY <4>1, <4>2 DEF Inv, TypeOK
    <3>. QED BY <1>3, <3>3, <3>4 DEF Fail, Inv, TypeOK
  <2>2. SetsMatchRecords'
    BY <1>1, <1>3 DEF Fail, Inv, TypeOK, SetsMatchRecords, JobRecord, NoLease, NoId
  <2>3. LeasesUnique'
    BY <1>1, <1>3 DEF Fail, Inv, TypeOK, LeasesUnique, JobRecord, NoLease, NoId
  <2>4. /\ \A k \in Jobs : k # j => job'[k] = job[k]
        /\ job'[j].state = "failed" /\ job'[j].attempt = job[j].attempt
        /\ job'[j].key = job[j].key /\ job'[j].digest = job[j].digest
    BY <1>1, <1>3 DEF Fail, Inv, TypeOK, JobRecord
  <2>5. index' = index /\ index \in [Keys -> Index]
    BY DEF Fail, Inv, TypeOK
  <2>6. AttemptsBounded'
    BY <1>1, <1>3, <2>4 DEF Inv, AttemptsBounded
  <2>7. KeysMatchRecords'
    BY <1>1, <2>4, <2>5 DEF Inv, KeysMatchRecords
  <2>8. AbsentIsBlank'
    BY <1>1, <2>4 DEF Inv, AbsentIsBlank
  <2>. QED BY <2>1, <2>2, <2>3, <2>6, <2>7, <2>8 DEF Inv
<1>. QED BY <1>2, <1>3

LEMMA CancelInv == ASSUME Inv, NEW j \in Jobs, Cancel(j) PROVE Inv'
<1>1. job[j] \in JobRecord /\ job[j].state \in {"queued", "running"}
  BY DEF Cancel, Inv, TypeOK
<1>2. TypeOK'
  <2>. DEFINE new == [job[j] EXCEPT !.state = "cancelled", !.lease = NoLease]
  <2>1. job' = [job EXCEPT ![j] = new]
    BY DEF Cancel
  <2>2. new \in JobRecord
    BY <1>1, RecordParts DEF JobRecord
  <2>. HIDE DEF new
  <2>3. job' \in [Jobs -> JobRecord]
    BY <2>1, <2>2 DEF Inv, TypeOK
  <2>4. running' \in [Jobs -> Scores] /\ queued' \in [Jobs -> Scores]
    BY DEF Cancel, Inv, TypeOK, Scores
  <2>. QED BY <2>3, <2>4 DEF Cancel, Inv, TypeOK
<1>3. SetsMatchRecords' /\ LeasesUnique' /\ AttemptsBounded' /\ KeysMatchRecords' /\ AbsentIsBlank'
  BY <1>1 DEF Cancel, Inv, TypeOK, SetsMatchRecords, LeasesUnique, AttemptsBounded,
     KeysMatchRecords, AbsentIsBlank, JobRecord, NoLease, NoId
<1>. QED BY <1>2, <1>3 DEF Inv

(* What recovery makes of one expired record.                              *)
LEMMA ReclaimedFacts ==
    ASSUME now \in Nat, NEW r \in JobRecord
    PROVE  /\ Reclaimed(r) \in JobRecord
           /\ Reclaimed(r).lease = NoLease
           /\ Reclaimed(r).key = r.key /\ Reclaimed(r).digest = r.digest
           /\ Reclaimed(r).attempt = r.attempt
           /\ Reclaimed(r).progress = r.progress /\ Reclaimed(r).reports = r.reports
           /\ r.attempt < MaxAttempts => /\ Reclaimed(r).state = "queued"
                                         /\ Reclaimed(r).availableAt = now
           /\ ~(r.attempt < MaxAttempts) => Reclaimed(r).state = "failed"
<1>1. CASE r.attempt < MaxAttempts
  <2>1. Reclaimed(r) = [r EXCEPT !.state = "queued", !.lease = NoLease, !.availableAt = now,
                                 !.failure = "lease_expired"]
    BY <1>1 DEF Reclaimed
  <2>2. Reclaimed(r) \in JobRecord
    BY <2>1, RecordParts DEF JobRecord
  <2>. QED BY <1>1, <2>1, <2>2 DEF JobRecord
<1>2. CASE ~(r.attempt < MaxAttempts)
  <2>1. Reclaimed(r) = [r EXCEPT !.state = "failed", !.lease = NoLease, !.failure = "lease_expired"]
    BY <1>2 DEF Reclaimed
  <2>2. Reclaimed(r) \in JobRecord
    BY <2>1, RecordParts DEF JobRecord
  <2>. QED BY <1>2, <2>1, <2>2 DEF JobRecord
<1>. QED BY <1>1, <1>2

LEMMA RecoverExpiredInv == ASSUME Inv, RecoverExpired PROVE Inv'
<1>. USE QueueAssumption DEF QueueAssumption
<1>1. now \in Nat
  BY DEF Inv, TypeOK
<1>2. ASSUME NEW j \in Jobs, Expired(j)
      PROVE  /\ job[j].state = "running"
             /\ Reclaimed(job[j]) \in JobRecord
             /\ Reclaimed(job[j]).lease = NoLease
             /\ Reclaimed(job[j]).key = job[j].key
             /\ Reclaimed(job[j]).digest = job[j].digest
             /\ Reclaimed(job[j]).attempt = job[j].attempt
             /\ job[j].attempt < MaxAttempts => /\ Reclaimed(job[j]).state = "queued"
                                               /\ Reclaimed(job[j]).availableAt = now
             /\ ~(job[j].attempt < MaxAttempts) => Reclaimed(job[j]).state = "failed"
  BY <1>1, <1>2, ReclaimedFacts DEF Inv, TypeOK, Expired, Leased
<1>3. ASSUME NEW j \in Jobs PROVE Overdue(j) => Expired(j)
  BY DEF Overdue, Expired, Leased, Inv, TypeOK, SetsMatchRecords, LeasesUnique
<1>4. TypeOK'
  BY <1>1, <1>2, <1>3 DEF RecoverExpired, Inv, TypeOK, Scores, NoScore
<1>5. SetsMatchRecords'
  BY <1>1, <1>2, <1>3 DEF RecoverExpired, Inv, TypeOK, SetsMatchRecords, Expired
<1>6. LeasesUnique' /\ AttemptsBounded'
  BY <1>1, <1>2 DEF RecoverExpired, Inv, TypeOK, LeasesUnique, AttemptsBounded, NoLease, NoId
<1>7. KeysMatchRecords' /\ AbsentIsBlank'
  BY <1>2 DEF RecoverExpired, Inv, TypeOK, KeysMatchRecords, AbsentIsBlank
<1>. QED BY <1>4, <1>5, <1>6, <1>7 DEF Inv

LEMMA TickInv == ASSUME Inv, Tick PROVE Inv'
BY QueueAssumption DEF QueueAssumption, Tick, Inv, TypeOK, SetsMatchRecords, LeasesUnique,
   AttemptsBounded, KeysMatchRecords, AbsentIsBlank

LEMMA InitInv == ASSUME Init PROVE Inv
BY QueueAssumption DEF QueueAssumption, Init, Inv, TypeOK, SetsMatchRecords, LeasesUnique,
   AttemptsBounded, KeysMatchRecords, AbsentIsBlank, NoJob, JobRecord, States, Terminal, Failures, Lease,
   NoLease, NoId, NoScore, Scores, Index, NoIndex

LEMMA StepInv == ASSUME Inv, [Next]_vars PROVE Inv'
<1>1. CASE UNCHANGED vars
  BY <1>1 DEF vars, Inv, TypeOK, SetsMatchRecords, LeasesUnique, AttemptsBounded,
     KeysMatchRecords, AbsentIsBlank
<1>2. ASSUME NEW j \in Jobs, NEW l \in 1..leases, HolderStep(j, l) PROVE Inv'
  BY <1>2, RenewLeaseInv, UpdateProgressInv, PutItemReportInv, CompleteInv, FailInv
     DEF HolderStep
<1>. QED
  BY <1>1, <1>2, EnqueueInv, LeaseJobInv, CancelInv, RecoverExpiredInv, TickInv
     DEF Next, LeaseNext

(* The records, the index and the sorted sets stay consistent, whatever    *)
(* order the scripts are called in and however late their callers are.     *)
THEOREM InvariantHolds == Spec => []Inv
BY InitInv, StepInv, PTL DEF Spec

-----------------------------------------------------------------------------
(* What one step does to the record of one job.                            *)
LEMMA StepFinal == ASSUME Inv, Inv', [Next]_vars PROVE FinalUntouched
<1>. SUFFICES ASSUME NEW j \in Jobs, job[j].state \in Terminal
              PROVE  job'[j] = job[j] /\ queued'[j] = NoScore /\ running'[j] = NoScore
  BY DEF FinalUntouched
<1>. USE DEF Terminal
<1>1. job'[j] = job[j]
  <2>1. ASSUME NEW r \in Requests, Enqueue(r) PROVE job'[j] = job[j]
    BY <2>1 DEF Enqueue, Inv, TypeOK
  <2>2. ASSUME NEW k \in Jobs, LeaseJob(k) PROVE job'[j] = job[j]
    BY <2>2 DEF LeaseJob, Leasable, Inv, TypeOK
  <2>3. ASSUME NEW k \in Jobs, NEW l \in 1..leases, HolderStep(k, l) PROVE job'[j] = job[j]
    BY <2>3 DEF HolderStep, RenewLease, UpdateProgress, PutItemReport, Complete, Fail,
       ActiveLease, Inv, TypeOK
  <2>4. ASSUME NEW k \in Jobs, Cancel(k) PROVE job'[j] = job[j]
    BY <2>4 DEF Cancel, Inv, TypeOK
  <2>5. CASE RecoverExpired
    BY <2>5 DEF RecoverExpired, Expired, Leased
  <2>6. CASE Tick \/ UNCHANGED vars
    BY <2>6 DEF Tick, vars
  <2>. QED BY <2>1, <2>2, <2>3, <2>4, <2>5, <2>6 DEF Next, LeaseNext
<1>. QED BY <1>1 DEF Inv, SetsMatchRecords

(* A finished job keeps its outcome and is never listed again.             *)
THEOREM FinalOutcome == Spec => TerminalIsFinal
BY InitInv, StepInv, StepFinal, PTL DEF Spec, TerminalIsFinal

LEMMA StepHandover ==
    ASSUME Inv, [Next]_vars PROVE \A j \in Jobs : Handover(job[j], job'[j])
<1>. SUFFICES ASSUME NEW j \in Jobs PROVE Handover(job[j], job'[j])
  OBVIOUS
<1>. USE DEF Handover
<1>0. /\ job[j] \in JobRecord /\ leases \in Nat
      /\ job[j].state = "running" <=> job[j].lease.id # NoId
      /\ job[j].attempt \in Nat
  BY QueueAssumption DEF QueueAssumption, Inv, TypeOK, LeasesUnique, JobRecord
<1>1. ASSUME NEW r \in Requests, Enqueue(r) PROVE Handover(job[j], job'[j])
  <2>1. CASE job[r.id].state # "absent"
    BY <1>1, <2>1 DEF Enqueue
  <2>2. CASE job[r.id].state = "absent"
    <3>1. r.id \in Jobs /\ job[r.id] = NoJob /\ job' = [job EXCEPT ![r.id] = NewJob(r)]
      BY <1>1, <2>2, QueueAssumption DEF QueueAssumption, Enqueue, Inv, AbsentIsBlank
    <3>. QED BY <3>1 DEF NewJob, NoJob, NoLease, Inv, TypeOK
  <2>. QED BY <2>1, <2>2
<1>2. ASSUME NEW k \in Jobs, LeaseJob(k) PROVE Handover(job[j], job'[j])
  BY <1>0, <1>2 DEF LeaseJob, Leasable, Inv, TypeOK, NoId
<1>3. ASSUME NEW k \in Jobs, NEW l \in 1..leases, HolderStep(k, l)
      PROVE  Handover(job[j], job'[j])
  <2>1. /\ job'[j].lease.id \in {job[j].lease.id, NoId}
        /\ job'[j].attempt = job[j].attempt
    <3>1. ASSUME NEW retryable \in BOOLEAN, Fail(k, l, retryable)
          PROVE  /\ job'[j].lease.id \in {job[j].lease.id, NoId}
                 /\ job'[j].attempt = job[j].attempt
      BY <1>0, <3>1 DEF Fail, Inv, TypeOK, JobRecord, NoLease
    <3>2. CASE Complete(k, l)
      BY <1>0, <3>2 DEF Complete, Inv, TypeOK, JobRecord, NoLease
    <3>3. CASE RenewLease(k, l)
      BY <1>0, <3>3 DEF RenewLease, Inv, TypeOK, JobRecord, Lease
    <3>4. ASSUME NEW p \in Percents, UpdateProgress(k, l, p)
          PROVE  job'[j].lease = job[j].lease /\ job'[j].attempt = job[j].attempt
      BY <1>0, <3>4 DEF UpdateProgress, Inv, TypeOK, JobRecord
    <3>5. ASSUME NEW i \in Items, PutItemReport(k, l, i)
          PROVE  job'[j].lease = job[j].lease /\ job'[j].attempt = job[j].attempt
      BY <1>0, <3>5 DEF PutItemReport, Inv, TypeOK, JobRecord
    <3>. QED BY <1>3, <3>1, <3>2, <3>3, <3>4, <3>5 DEF HolderStep
  <2>. QED BY <2>1
<1>4. ASSUME NEW k \in Jobs, Cancel(k) PROVE Handover(job[j], job'[j])
  BY <1>0, <1>4 DEF Cancel, Inv, TypeOK, JobRecord, NoLease
<1>5. CASE RecoverExpired
  <2>1. Handover(job[j], Reclaimed(job[j]))
    <3>1. /\ Reclaimed(job[j]).lease.id = NoId
          /\ Reclaimed(job[j]).attempt = job[j].attempt
      BY <1>0, ReclaimedFacts DEF NoLease, Inv, TypeOK
    <3>. QED BY <3>1
  <2>2. Handover(job[j], job[j])
    OBVIOUS
  <2>. QED BY <1>5, <2>1, <2>2 DEF RecoverExpired
<1>6. CASE Tick \/ UNCHANGED vars
  BY <1>0, <1>6 DEF Tick, vars
<1>. QED BY <1>1, <1>2, <1>3, <1>4, <1>5, <1>6 DEF Next, LeaseNext

LEMMA StepGrows ==
    ASSUME Inv, [Next]_vars PROVE \A j \in Jobs : Grows(job[j], job'[j])
<1>. SUFFICES ASSUME NEW j \in Jobs PROVE Grows(job[j], job'[j])
  OBVIOUS
<1>. USE DEF Grows
<1>0. job[j] \in JobRecord /\ job[j].progress \in 0..100
  BY DEF Inv, TypeOK, JobRecord
<1>1. ASSUME NEW r \in Requests, Enqueue(r) PROVE Grows(job[j], job'[j])
  <2>1. CASE job[r.id].state # "absent"
    BY <1>0, <1>1, <2>1 DEF Enqueue
  <2>2. CASE job[r.id].state = "absent"
    <3>1. r.id \in Jobs /\ job[r.id] = NoJob /\ job' = [job EXCEPT ![r.id] = NewJob(r)]
      BY <1>1, <2>2, QueueAssumption DEF QueueAssumption, Enqueue, Inv, AbsentIsBlank
    <3>. QED BY <1>0, <3>1 DEF NewJob, NoJob, Inv, TypeOK
  <2>. QED BY <2>1, <2>2
<1>2. ASSUME NEW k \in Jobs, LeaseJob(k) PROVE Grows(job[j], job'[j])
  BY <1>0, <1>2 DEF LeaseJob, Inv, TypeOK
<1>3. ASSUME NEW k \in Jobs, NEW l \in 1..leases, HolderStep(k, l)
      PROVE  Grows(job[j], job'[j])
  <2>1. QueueAssumption
    BY QueueAssumption
  <2>2. CASE RenewLease(k, l)
    BY <1>0, <2>1, <2>2 DEF QueueAssumption, RenewLease, Inv, TypeOK, JobRecord
  <2>3. ASSUME NEW p \in Percents, UpdateProgress(k, l, p) PROVE Grows(job[j], job'[j])
    BY <1>0, <2>1, <2>3 DEF QueueAssumption, UpdateProgress, Inv, TypeOK, JobRecord
  <2>4. ASSUME NEW i \in Items, PutItemReport(k, l, i) PROVE Grows(job[j], job'[j])
    BY <1>0, <2>1, <2>4 DEF QueueAssumption, PutItemReport, Inv, TypeOK, JobRecord
  <2>5. CASE Complete(k, l)
    BY <1>0, <2>1, <2>5 DEF QueueAssumption, Complete, Done, Inv, TypeOK, JobRecord
  <2>6. ASSUME NEW retryable \in BOOLEAN, Fail(k, l, retryable) PROVE Grows(job[j], job'[j])
    BY <1>0, <2>1, <2>6 DEF QueueAssumption, Fail, Inv, TypeOK, JobRecord
  <2>. QED BY <1>3, <2>2, <2>3, <2>4, <2>5, <2>6 DEF HolderStep
<1>4. ASSUME NEW k \in Jobs, Cancel(k) PROVE Grows(job[j], job'[j])
  BY <1>0, <1>4 DEF Cancel, Inv, TypeOK, JobRecord
<1>5. CASE RecoverExpired
  <2>1. Grows(job[j], Reclaimed(job[j]))
    BY <1>0, ReclaimedFacts DEF Inv, TypeOK
  <2>2. Grows(job[j], job[j])
    BY <1>0
  <2>. QED BY <1>5, <2>1, <2>2 DEF RecoverExpired
<1>6. CASE Tick \/ UNCHANGED vars
  BY <1>0, <1>6 DEF Tick, vars
<1>. QED BY <1>1, <1>2, <1>3, <1>4, <1>5, <1>6 DEF Next, LeaseNext

(* A lease changes hands only through "no lease", under a fresh id, every  *)
(* hand-over costs one attempt, and progress and reports survive it.       *)
THEOREM HandoverHolds == Spec => LeaseHandover
<1>1. ASSUME Inv, [Next]_vars
      PROVE  \A j \in Jobs : Handover(job[j], job'[j]) /\ Grows(job[j], job'[j])
  BY <1>1, StepHandover, StepGrows
<1>. QED BY <1>1, InitInv, StepInv, PTL DEF Spec, LeaseHandover

-----------------------------------------------------------------------------
(* The refinement: every script is a step of JobLifecycle, or a stutter.   *)
LEMMA InitRefines == ASSUME Init PROVE Life!LifeInit
BY DEF Init, NoJob, NoLease, NoId, Life!LifeInit

(* The abstract variables, seen through the mapping.                       *)
AbsPhase    == [j \in Jobs |-> job[j].state]
AbsAttempts == [j \in Jobs |-> job[j].attempt]
AbsHolder   == [j \in Jobs |-> job[j].lease.id]
AbsLive     == {j \in Jobs : job[j].state = "running" /\ job[j].lease.expiresAt > now}

(* When only the record of k changes, so do only the abstract values of k. *)
LEMMA OneMoves ==
    ASSUME TypeOK, NEW k \in Jobs, NEW new, job' = [job EXCEPT ![k] = new], now' = now
    PROVE  /\ AbsPhase' = [AbsPhase EXCEPT ![k] = new.state]
           /\ AbsAttempts' = [AbsAttempts EXCEPT ![k] = new.attempt]
           /\ AbsHolder' = [AbsHolder EXCEPT ![k] = new.lease.id]
           /\ new.state = "running" /\ new.lease.expiresAt > now => AbsLive' = AbsLive \cup {k}
           /\ new.state # "running" => AbsLive' = AbsLive \ {k}
<1>1. \A j \in Jobs : job'[j] = IF j = k THEN new ELSE job[j]
  BY DEF TypeOK
<1>2. AbsPhase' = [AbsPhase EXCEPT ![k] = new.state]
  BY DEF TypeOK, AbsPhase
<1>3. AbsAttempts' = [AbsAttempts EXCEPT ![k] = new.attempt]
  BY DEF TypeOK, AbsAttempts
<1>4. AbsHolder' = [AbsHolder EXCEPT ![k] = new.lease.id]
  BY DEF TypeOK, AbsHolder
<1>5. new.state = "running" /\ new.lease.expiresAt > now => AbsLive' = AbsLive \cup {k}
  BY <1>1 DEF AbsLive
<1>6. new.state # "running" => AbsLive' = AbsLive \ {k}
  BY <1>1 DEF AbsLive
<1>. QED BY <1>2, <1>3, <1>4, <1>5, <1>6

LEMMA GrantRefines == ASSUME Inv, NEW k \in Jobs, LeaseJob(k) PROVE Life!Grant(k)
<1>. DEFINE new == [job[k] EXCEPT !.state = "running", !.attempt = @ + 1,
                        !.lease = [id |-> leases + 1, expiresAt |-> now + LeaseMs]]
<1>1. job[k] \in JobRecord /\ job[k].state = "queued" /\ job[k].attempt < MaxAttempts
  BY DEF LeaseJob, Leasable, Inv, TypeOK, AttemptsBounded
<1>2. job' = [job EXCEPT ![k] = new] /\ leases' = leases + 1 /\ now' = now
  BY DEF LeaseJob
<1>3. /\ new.state = "running" /\ new.attempt = job[k].attempt + 1
      /\ new.lease.id = leases + 1 /\ new.lease.expiresAt > now
  BY <1>1, QueueAssumption DEF QueueAssumption, JobRecord, Inv, TypeOK
<1>. HIDE DEF new
<1>4. /\ AbsPhase' = [AbsPhase EXCEPT ![k] = "running"]
      /\ AbsAttempts' = [AbsAttempts EXCEPT ![k] = job[k].attempt + 1]
      /\ AbsHolder' = [AbsHolder EXCEPT ![k] = leases + 1]
      /\ AbsLive' = AbsLive \cup {k}
  <2>1. /\ AbsPhase' = [AbsPhase EXCEPT ![k] = new.state]
        /\ AbsAttempts' = [AbsAttempts EXCEPT ![k] = new.attempt]
        /\ AbsHolder' = [AbsHolder EXCEPT ![k] = new.lease.id]
        /\ new.state = "running" /\ new.lease.expiresAt > now => AbsLive' = AbsLive \cup {k}
        /\ new.state # "running" => AbsLive' = AbsLive \ {k}
    BY <1>2, OneMoves DEF Inv
  <2>. QED BY <1>3, <2>1
<1>5. AbsPhase[k] = "queued" /\ AbsAttempts[k] = job[k].attempt
  BY <1>1 DEF AbsPhase, AbsAttempts
<1>. QED
  BY <1>1, <1>2, <1>4, <1>5 DEF Life!Grant, AbsPhase, AbsAttempts, AbsHolder, AbsLive

LEMMA LeaveRefines ==
    ASSUME Inv, NEW k \in Jobs, NEW new, job' = [job EXCEPT ![k] = new],
           NEW p, p # "running", new.state = p,
           new.lease = NoLease, new.attempt = job[k].attempt,
           now' = now, leases' = leases
    PROVE  Life!LeaveFor(k, p)
<1>0. new.lease.id = 0
  BY DEF NoLease, NoId
<1>1. /\ AbsPhase' = [AbsPhase EXCEPT ![k] = p]
      /\ AbsAttempts' = [AbsAttempts EXCEPT ![k] = job[k].attempt]
      /\ AbsHolder' = [AbsHolder EXCEPT ![k] = 0]
      /\ AbsLive' = AbsLive \ {k}
  <2>1. /\ AbsPhase' = [AbsPhase EXCEPT ![k] = new.state]
        /\ AbsAttempts' = [AbsAttempts EXCEPT ![k] = new.attempt]
        /\ AbsHolder' = [AbsHolder EXCEPT ![k] = new.lease.id]
        /\ new.state = "running" /\ new.lease.expiresAt > now => AbsLive' = AbsLive \cup {k}
        /\ new.state # "running" => AbsLive' = AbsLive \ {k}
    BY OneMoves DEF Inv
  <2>. QED BY <1>0, <2>1
<1>2. AbsAttempts' = AbsAttempts
  BY <1>1 DEF AbsAttempts
<1>. QED
  BY <1>1, <1>2 DEF Life!LeaveFor, AbsPhase, AbsAttempts, AbsHolder, AbsLive

LEMMA CompleteRefines ==
    ASSUME Inv, NEW k \in Jobs, NEW l, Complete(k, l) PROVE Life!LeaveFor(k, "succeeded")
<1>. DEFINE new == [job[k] EXCEPT !.state = "succeeded", !.lease = NoLease,
                                  !.failure = "none", !.progress = Done]
<1>1. job[k] \in JobRecord
  BY DEF Inv, TypeOK
<1>2. job' = [job EXCEPT ![k] = new] /\ now' = now /\ leases' = leases
  BY DEF Complete
<1>3. new.lease = NoLease /\ new.state = "succeeded" /\ new.attempt = job[k].attempt
  BY <1>1 DEF JobRecord
<1>. HIDE DEF new
<1>. QED BY <1>2, <1>3, LeaveRefines

LEMMA FailRefines ==
    ASSUME Inv, NEW k \in Jobs, NEW l, NEW retryable \in BOOLEAN, Fail(k, l, retryable)
    PROVE  \/ job[k].attempt < MaxAttempts /\ Life!LeaveFor(k, "queued")
           \/ Life!LeaveFor(k, "failed")
<1>1. job[k] \in JobRecord
  BY DEF Inv, TypeOK
<1>2. CASE retryable /\ job[k].attempt < MaxAttempts
  <2>. DEFINE new == [job[k] EXCEPT !.state = "queued", !.lease = NoLease,
                          !.failure = "handler", !.availableAt = now + RetryDelayMs]
  <2>1. job' = [job EXCEPT ![k] = new] /\ now' = now /\ leases' = leases
    BY <1>2 DEF Fail
  <2>2. new.lease = NoLease /\ new.state = "queued" /\ new.attempt = job[k].attempt
    BY <1>1 DEF JobRecord
  <2>. HIDE DEF new
  <2>. QED BY <1>2, <2>1, <2>2, LeaveRefines
<1>3. CASE ~(retryable /\ job[k].attempt < MaxAttempts)
  <2>. DEFINE new == [job[k] EXCEPT !.state = "failed", !.lease = NoLease,
                                    !.failure = "handler"]
  <2>1. job' = [job EXCEPT ![k] = new] /\ now' = now /\ leases' = leases
    BY <1>3 DEF Fail
  <2>2. new.lease = NoLease /\ new.state = "failed" /\ new.attempt = job[k].attempt
    BY <1>1 DEF JobRecord
  <2>. HIDE DEF new
  <2>. QED BY <2>1, <2>2, LeaveRefines
<1>. QED BY <1>2, <1>3

LEMMA CancelRefines == ASSUME Inv, NEW k \in Jobs, Cancel(k) PROVE Life!Cancel(k)
<1>. DEFINE new == [job[k] EXCEPT !.state = "cancelled", !.lease = NoLease]
<1>1. job[k] \in JobRecord /\ job[k].state \in {"queued", "running"}
  BY DEF Cancel, Inv, TypeOK
<1>2. job' = [job EXCEPT ![k] = new] /\ now' = now /\ leases' = leases
  BY DEF Cancel
<1>3. new.lease = NoLease /\ new.state = "cancelled" /\ new.attempt = job[k].attempt
  BY <1>1 DEF JobRecord
<1>. HIDE DEF new
<1>4. Life!LeaveFor(k, "cancelled")
  BY <1>2, <1>3, LeaveRefines
<1>. QED BY <1>1, <1>4 DEF Life!Cancel

(* Renewing, reporting progress or an item changes nothing of it.          *)
LEMMA QuietRefines ==
    ASSUME Inv, NEW k \in Jobs, NEW l \in 1..leases,
           \/ RenewLease(k, l)
           \/ \E p \in Percents : UpdateProgress(k, l, p)
           \/ \E i \in Items : PutItemReport(k, l, i)
    PROVE  UNCHANGED Life!lifeVars
<1>1. /\ job[k] \in JobRecord /\ job[k].state = "running"
      /\ job[k].lease.expiresAt > now /\ now + LeaseMs > now
      /\ now' = now /\ leases' = leases
  BY QueueAssumption DEF QueueAssumption, RenewLease, UpdateProgress, PutItemReport,
     ActiveLease, Inv, TypeOK
<1>2. PICK new : /\ job' = [job EXCEPT ![k] = new]
                 /\ new.state = "running" /\ new.attempt = job[k].attempt
                 /\ new.lease.id = job[k].lease.id /\ new.lease.expiresAt > now
  <2>1. CASE RenewLease(k, l)
    <3>. DEFINE new == [job[k] EXCEPT !.lease.expiresAt = now + LeaseMs]
    <3>1. job' = [job EXCEPT ![k] = new]
      BY <2>1 DEF RenewLease
    <3>2. /\ new.state = "running" /\ new.attempt = job[k].attempt
          /\ new.lease.id = job[k].lease.id /\ new.lease.expiresAt > now
      BY <1>1 DEF JobRecord, Lease
    <3>. QED BY <3>1, <3>2
  <2>2. ASSUME NEW p \in Percents, UpdateProgress(k, l, p)
        PROVE  LET new == [job[k] EXCEPT !.progress = p] IN
               /\ job' = [job EXCEPT ![k] = new]
               /\ new.state = "running" /\ new.attempt = job[k].attempt
               /\ new.lease = job[k].lease
    BY <1>1, <2>2 DEF UpdateProgress, JobRecord
  <2>3. ASSUME NEW i \in Items, PutItemReport(k, l, i)
        PROVE  LET new == [job[k] EXCEPT !.reports = @ \cup {i}] IN
               /\ job' = [job EXCEPT ![k] = new]
               /\ new.state = "running" /\ new.attempt = job[k].attempt
               /\ new.lease = job[k].lease
    BY <1>1, <2>3 DEF PutItemReport, JobRecord
  <2>. QED BY <1>1, <2>1, <2>2, <2>3
<1>3. /\ AbsPhase' = [AbsPhase EXCEPT ![k] = "running"]
      /\ AbsAttempts' = [AbsAttempts EXCEPT ![k] = job[k].attempt]
      /\ AbsHolder' = [AbsHolder EXCEPT ![k] = job[k].lease.id]
      /\ AbsLive' = AbsLive \cup {k}
  <2>1. /\ AbsPhase' = [AbsPhase EXCEPT ![k] = new.state]
        /\ AbsAttempts' = [AbsAttempts EXCEPT ![k] = new.attempt]
        /\ AbsHolder' = [AbsHolder EXCEPT ![k] = new.lease.id]
        /\ new.state = "running" /\ new.lease.expiresAt > now => AbsLive' = AbsLive \cup {k}
        /\ new.state # "running" => AbsLive' = AbsLive \ {k}
    BY <1>1, <1>2, OneMoves DEF Inv
  <2>. QED BY <1>1, <1>2, <2>1
<1>4. AbsPhase' = AbsPhase /\ AbsAttempts' = AbsAttempts /\ AbsHolder' = AbsHolder
  BY <1>1, <1>3 DEF AbsPhase, AbsAttempts, AbsHolder
<1>5. AbsLive' = AbsLive
  <2>1. k \in AbsLive
    BY <1>1 DEF AbsLive
  <2>. QED BY <1>3, <2>1
<1>. QED
  BY <1>1, <1>4, <1>5 DEF Life!lifeVars, AbsPhase, AbsAttempts, AbsHolder, AbsLive

LEMMA RecoverRefines == ASSUME Inv, RecoverExpired PROVE [Life!LifeNext]_Life!lifeVars
<1>0. PICK J : J = {j \in Jobs : Expired(j)}
  OBVIOUS
<1>1. /\ now \in Nat /\ now' = now /\ leases' = leases
      /\ \A j \in Jobs : job[j] \in JobRecord
      /\ job' = [j \in Jobs |-> IF j \in J THEN Reclaimed(job[j]) ELSE job[j]]
  BY <1>0, QueueAssumption DEF QueueAssumption, RecoverExpired, Inv, TypeOK
<1>2. ASSUME NEW j \in J
      PROVE  /\ j \in Jobs /\ job[j].state = "running" /\ ~(job[j].lease.expiresAt > now)
             /\ Reclaimed(job[j]).state = IF job[j].attempt < MaxAttempts THEN "queued"
                                          ELSE "failed"
             /\ Reclaimed(job[j]).attempt = job[j].attempt
             /\ Reclaimed(job[j]).lease.id = 0
  <2>1. j \in Jobs /\ job[j].state = "running" /\ ~(job[j].lease.expiresAt > now)
    BY <1>0, <1>1 DEF Expired, Leased, JobRecord, Lease
  <2>. QED BY <1>1, <2>1, ReclaimedFacts DEF NoLease, NoId
<1>3. AbsPhase' = [j \in Jobs |-> IF j \notin J THEN AbsPhase[j]
                                 ELSE IF AbsAttempts[j] < MaxAttempts THEN "queued"
                                 ELSE "failed"]
  BY <1>1, <1>2 DEF AbsPhase, AbsAttempts
<1>4. AbsHolder' = [j \in Jobs |-> IF j \in J THEN 0 ELSE AbsHolder[j]]
  BY <1>1, <1>2 DEF AbsHolder
<1>5. AbsAttempts' = AbsAttempts
  BY <1>1, <1>2 DEF AbsAttempts
<1>6. AbsLive' = AbsLive
  <2>1. ASSUME NEW j \in Jobs
        PROVE  (job'[j].state = "running" /\ job'[j].lease.expiresAt > now')
               <=> (job[j].state = "running" /\ job[j].lease.expiresAt > now)
    BY <1>1, <1>2
  <2>. QED BY <2>1 DEF AbsLive
<1>7. \A j \in J : AbsPhase[j] = "running" /\ j \notin AbsLive
  BY <1>2 DEF AbsPhase, AbsLive
<1>8. J \in SUBSET Jobs
  BY <1>2
<1>9. CASE J = {}
  <2>1. AbsPhase' = AbsPhase /\ AbsHolder' = AbsHolder
    BY <1>3, <1>4, <1>9 DEF AbsPhase, AbsHolder
  <2>. QED
    BY <1>1, <1>5, <1>6, <2>1 DEF Life!lifeVars, AbsPhase, AbsHolder, AbsAttempts, AbsLive
<1>10. CASE J # {}
  <2>1. Life!Reclaim(J)
    BY <1>1, <1>3, <1>4, <1>5, <1>6, <1>7, <1>10 DEF Life!Reclaim, AbsPhase, AbsHolder,
       AbsAttempts, AbsLive
  <2>. QED BY <1>8, <2>1 DEF Life!LifeNext
<1>. QED BY <1>9, <1>10

LEMMA TickRefines == ASSUME Inv, Tick PROVE [Life!LifeNext]_Life!lifeVars
<1>0. PICK J : J = {j \in Jobs : job[j].state = "running" /\ job[j].lease.expiresAt = now + 1}
  OBVIOUS
<1>1. /\ now \in Nat /\ now' = now + 1 /\ job' = job /\ leases' = leases
      /\ \A j \in Jobs : job[j].lease.expiresAt \in Nat
  BY QueueAssumption DEF QueueAssumption, Tick, Inv, TypeOK, JobRecord, Lease
<1>2. AbsPhase' = AbsPhase /\ AbsAttempts' = AbsAttempts /\ AbsHolder' = AbsHolder
  BY <1>1 DEF AbsPhase, AbsAttempts, AbsHolder
<1>3. AbsLive' = AbsLive \ J
  <2>1. ASSUME NEW j \in Jobs
        PROVE  (job'[j].state = "running" /\ job'[j].lease.expiresAt > now')
               <=> (job[j].state = "running" /\ job[j].lease.expiresAt > now) /\ j \notin J
    BY <1>0, <1>1
  <2>. QED BY <2>1 DEF AbsLive
<1>4. J \subseteq AbsLive
  BY <1>0, <1>1 DEF AbsLive
<1>5. J \in SUBSET Jobs
  BY <1>0
<1>6. CASE J = {}
  <2>1. AbsLive' = AbsLive
    BY <1>3, <1>6
  <2>. QED
    BY <1>1, <1>2, <2>1 DEF Life!lifeVars, AbsPhase, AbsHolder, AbsAttempts, AbsLive
<1>7. CASE J # {}
  <2>1. Life!Lapse(J)
    BY <1>1, <1>2, <1>3, <1>4, <1>7 DEF Life!Lapse, AbsPhase, AbsHolder, AbsAttempts, AbsLive
  <2>. QED BY <1>5, <2>1 DEF Life!LifeNext
<1>. QED BY <1>6, <1>7

LEMMA StepRefines == ASSUME Inv, Inv', [Next]_vars PROVE [Life!LifeNext]_Life!lifeVars
<1>. USE QueueAssumption DEF QueueAssumption
<1>0. /\ now \in Nat /\ leases \in Nat
      /\ \A j \in Jobs : job[j] \in JobRecord
  BY DEF Inv, TypeOK
<1>1. ASSUME NEW r \in Requests, Enqueue(r) PROVE [Life!LifeNext]_Life!lifeVars
  <2>0. r.id \in Jobs
    OBVIOUS
  <2>1. CASE job[r.id].state # "absent"
    BY <1>1, <2>1 DEF Enqueue, Life!lifeVars
  <2>2. CASE job[r.id].state = "absent"
    <3>1. job[r.id] = NoJob /\ job' = [job EXCEPT ![r.id] = NewJob(r)]
          /\ UNCHANGED <<now, leases>>
      BY <1>1, <2>0, <2>2 DEF Enqueue, Inv, AbsentIsBlank
    <3>2. Life!Submit(r.id)
      BY <2>0, <3>1 DEF NewJob, NoJob, NoLease, NoId, Life!Submit, Inv, TypeOK
    <3>. QED BY <2>0, <3>2 DEF Life!LifeNext
  <2>. QED BY <2>1, <2>2
<1>2. ASSUME NEW k \in Jobs, LeaseJob(k) PROVE Life!Grant(k)
  BY <1>2, GrantRefines
<1>3. ASSUME NEW k \in Jobs, NEW l \in 1..leases, HolderStep(k, l)
      PROVE  [Life!LifeNext]_Life!lifeVars
  <2>1. ActiveLease(k, l)
    BY <1>3 DEF HolderStep, RenewLease, UpdateProgress, PutItemReport, Complete, Fail
  <2>2. Life!HoldsLive(k, l)
    BY <1>0, <2>1 DEF ActiveLease, Life!HoldsLive, Inv, TypeOK
  <2>3. CASE Complete(k, l)
    BY <2>2, <2>3, CompleteRefines DEF Life!Succeed, Life!LifeNext
  <2>4. ASSUME NEW retryable \in BOOLEAN, Fail(k, l, retryable)
        PROVE  Life!Retry(k, l) \/ Life!GiveUp(k, l)
    BY <2>2, <2>4, FailRefines DEF Life!Retry, Life!GiveUp
  <2>. QED
    BY <1>3, <2>3, <2>4, QuietRefines DEF HolderStep, Life!LifeNext
<1>4. ASSUME NEW k \in Jobs, Cancel(k) PROVE Life!Cancel(k)
  BY <1>4, CancelRefines
<1>5. CASE RecoverExpired
  BY <1>5, RecoverRefines
<1>6. CASE Tick
  BY <1>6, TickRefines
<1>7. CASE UNCHANGED vars
  BY <1>7 DEF vars, Life!lifeVars
<1>. QED BY <1>1, <1>2, <1>3, <1>4, <1>5, <1>6, <1>7 DEF Next, LeaseNext, Life!LifeNext

(* The Redis scripts implement the queue its clients rely on.              *)
THEOREM Refinement == Spec => ImplementsLifecycle
BY InitInv, StepInv, InitRefines, StepRefines, PTL
   DEF Spec, ImplementsLifecycle, Life!LifeSpec
=============================================================================
