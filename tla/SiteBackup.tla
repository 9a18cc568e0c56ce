----------------------------- MODULE SiteBackup -----------------------------
(***************************************************************************)
(* Complete backups of the site and their restoration: BackupService and   *)
(* PostgresBackupEngine (apps/api/src/backup), RestoreMaintenance, which   *)
(* holds back the requests of users meanwhile, and the embedded worker.    *)
(*                                                                         *)
(* One operation at a time, kept in the memory of the API process; its     *)
(* record is written to settings.json when it begins and ends.  The        *)
(* contents of the database are the requests whose writes it holds.        *)
(*                                                                         *)
(* Left out: encryption and checksums of the archive (an archive that does *)
(* not verify is a step that fails), the attachments, which are added to   *)
(* the storage and never taken from it, and the sender of review mails,    *)
(* which maintenance does not stop.                                        *)
(***************************************************************************)
EXTENDS Naturals, FiniteSets

CONSTANTS
    Requests,       \* of users; each writes once
    MaxOperations,  \* bounds backups and restorations
    MaxFailures     \* bounds crashes, failing calls and lost replies

ASSUME BackupAssumption == MaxOperations \in Nat /\ MaxFailures \in Nat

VARIABLES
    up,          \* the API process runs
    db,          \* what the database holds, and whether a package job is pending
    committed,   \* requests that ever wrote
    browser,     \* per request: out, in, held back, answered
    maintenance, \* RestoreMaintenance.active
    working,     \* the embedded worker polls
    remote,      \* files under urmotiv/: operation, purpose, contents, moved into place
    busy,        \* BackupService.busy
    op,          \* the operation under way: step, what it carries
    job,         \* settings.job in memory
    disk,        \* settings.json
    operations, restored, failures

backupVars == <<up, db, committed, browser, maintenance, working, remote, busy, op, job,
                disk, operations, restored, failures>>

site   == <<db, committed, browser, maintenance, working, restored>>
record == <<busy, job, disk, operations>>

NoContents  == [rows |-> {}, pending |-> FALSE]
NoOperation == [step |-> "none", purpose |-> "backup", carries |-> NoContents,
                source |-> NoContents, staged |-> FALSE, ok |-> TRUE]
NoJob == [id |-> 0, operation |-> "backup", status |-> "none"]

SiteBackupInit ==
    /\ up = TRUE /\ maintenance = FALSE /\ working = TRUE /\ busy = FALSE
    /\ db = NoContents /\ committed = {} /\ browser = [r \in Requests |-> "out"]
    /\ remote = {} /\ op = NoOperation /\ job = NoJob /\ disk = NoJob
    /\ operations = 0 /\ restored = {} /\ failures = 0

Trouble    == failures < MaxFailures /\ failures' = failures + 1
NoTrouble  == UNCHANGED failures
OpAt(step) == up /\ op.step = step
GoOn(step)   == op' = [op EXCEPT !.step = step]
Complete     == {f \in remote : f.moved}
-----------------------------------------------------------------------------
(* RestoreMaintenance.attach: a request is held back, or counted until its *)
(* answer; one that starts a package job leaves it to the worker.          *)
Arrives(r) ==
    /\ up /\ browser[r] \in {"out", "held back"}
    /\ browser' = [browser EXCEPT ![r] = IF maintenance THEN "held back" ELSE "in"]
    /\ UNCHANGED <<up, db, committed, maintenance, working, remote, record, op, restored, failures>>

Writes(r) ==
    /\ up /\ browser[r] = "in"
    /\ \E pending \in {db.pending, TRUE} :
           db' = [rows |-> db.rows \cup {r}, pending |-> pending]
    /\ committed' = committed \cup {r}
    /\ browser' = [browser EXCEPT ![r] = "answered"]
    /\ UNCHANGED <<up, maintenance, working, remote, record, op, restored, failures>>

WorkerFinishes ==
    /\ up /\ working /\ db.pending
    /\ db' = [db EXCEPT !.pending = FALSE]
    /\ UNCHANGED <<up, committed, browser, maintenance, working, remote, record, op, restored,
                   failures>>
-----------------------------------------------------------------------------
(* startBackup, startRestore: assertReady and begin run in one turn, up to *)
(* the write of settings.json.                                             *)
Begin(purpose, file) ==
    /\ up /\ ~busy /\ operations < MaxOperations
    /\ purpose = "restore" => file \in Complete
    /\ operations' = operations + 1
    /\ busy' = TRUE
    /\ job' = [id |-> operations + 1, operation |-> purpose, status |-> "running"]
    /\ op' = [NoOperation EXCEPT !.step = "begin", !.purpose = purpose,
                                 !.source = IF purpose = "restore" THEN file.contents ELSE NoContents]
    /\ UNCHANGED <<up, site, remote, disk, failures>>

\* mutant: a write that fails leaves the service busy
PersistBegin_StaysBusy ==
    /\ OpAt("begin")
    /\ \/ disk' = job /\ GoOn(IF op.purpose = "backup" THEN "check" ELSE "download") /\ NoTrouble
       \/ op' = NoOperation /\ Trouble /\ UNCHANGED disk
    /\ UNCHANGED <<busy, up, site, remote, job, operations>>

(* Where the write fails the operation never starts; the record in memory  *)
(* keeps saying that it runs.                                              *)
PersistBegin ==
    /\ OpAt("begin")
    /\ \/ disk' = job /\ GoOn(IF op.purpose = "backup" THEN "check" ELSE "download")
          /\ UNCHANGED busy /\ NoTrouble
       \/ busy' = FALSE /\ op' = NoOperation /\ Trouble /\ UNCHANGED disk
    /\ UNCHANGED <<up, site, remote, job, operations>>

(* An error: a restoration gives back what it has taken.                   *)
Fails == op' = [op EXCEPT !.ok = FALSE,
                          !.step = IF maintenance THEN "leave" ELSE IF op.staged THEN "dispose" ELSE "finish"]

(* download and prepareRestore: verified, rehearsed in a database of its   *)
(* own, its robots' assignments closed.                                    *)
Prepare ==
    /\ OpAt("download")
    /\ \/ op' = [op EXCEPT !.staged = TRUE, !.step = "enter"] /\ NoTrouble
       \/ Fails /\ Trouble
    /\ UNCHANGED <<up, site, remote, record>>

(* maintenance.enter: no pending job and no robot at work on a review      *)
(* (assertRestoreIdle), then no new requests ...                           *)
EnterMaintenance ==
    /\ OpAt("enter")
    /\ \/ ~db.pending /\ maintenance' = TRUE /\ GoOn("drain")
       \/ Fails /\ UNCHANGED maintenance
    /\ NoTrouble
    /\ UNCHANGED <<up, db, committed, browser, working, remote, record, restored>>

(* ... then none unanswered, and still no pending job and no robot at      *)
(* work; or thirty seconds are over.                                       *)
InFlight == \E r \in Requests : browser[r] = "in"

\* mutant: the requests under way are not waited for
Drained_AtOnce == ~db.pending

Drained == ~InFlight /\ ~db.pending

DrainRequests ==
    /\ OpAt("drain")
    /\ \/ Drained /\ GoOn("stop") /\ UNCHANGED maintenance
       \/ maintenance' = FALSE
          /\ op' = [op EXCEPT !.ok = FALSE, !.step = "dispose"]
    /\ NoTrouble
    /\ UNCHANGED <<up, db, committed, browser, working, remote, record, restored>>

(* stop() rejects only when the loop of the worker has failed, and then    *)
(* the process ends, for nobody handles the promise of run(): see Crash.   *)
StopWorker ==
    /\ OpAt("stop")
    /\ working' = FALSE /\ GoOn("check") /\ NoTrouble
    /\ UNCHANGED <<up, db, committed, browser, maintenance, remote, record, restored>>
-----------------------------------------------------------------------------
(* engine.create: a first look at the pending jobs, then the snapshot with *)
(* a second one, then the archive.                                         *)
CheckPending ==
    /\ OpAt("check")
    /\ IF db.pending THEN Fails ELSE GoOn("snapshot")
    /\ NoTrouble /\ UNCHANGED <<up, site, remote, record>>

Snapshot ==
    /\ OpAt("snapshot")
    /\ \/ ~db.pending /\ op' = [op EXCEPT !.carries = db, !.step = "put"] /\ NoTrouble
       \/ db.pending /\ Fails /\ NoTrouble
       \/ Fails /\ Trouble
    /\ UNCHANGED <<up, site, remote, record>>

(* WebDavClient.upload: under a name ending in .partial, then moved.       *)
File(moved) == [id |-> job.id, purpose |-> op.purpose, contents |-> op.carries, moved |-> moved]

Put ==
    /\ OpAt("put")
    /\ \/ remote' = remote \cup {File(FALSE)} /\ GoOn("move") /\ NoTrouble
       \/ remote' \in {remote, remote \cup {File(FALSE)}} /\ Fails /\ Trouble
    /\ UNCHANGED <<up, site, record>>

AfterUpload == IF op.purpose = "backup" THEN "finish" ELSE "note"

MoveIntoPlace ==
    /\ OpAt("move")
    /\ \/ remote' = (remote \ {File(FALSE)}) \cup {File(TRUE)} /\ GoOn(AfterUpload) /\ NoTrouble
       \/ remote' \in {remote, (remote \ {File(FALSE)}) \cup {File(TRUE)}} /\ Fails /\ Trouble
    /\ UNCHANGED <<up, site, record>>

(* The name of the snapshot is on disk before the database is replaced.    *)
NoteSafety ==
    /\ OpAt("note")
    /\ \/ disk' = job /\ GoOn("apply") /\ NoTrouble
       \/ Fails /\ Trouble /\ UNCHANGED disk
    /\ UNCHANGED <<up, site, remote, busy, job, operations>>

(* pg_restore in a single transaction; its exit code may be lost.          *)
Apply ==
    /\ OpAt("apply")
    /\ \/ /\ db' = op.source /\ restored' = restored \cup {job.id}
          /\ \/ GoOn("leave") /\ NoTrouble
             \/ Fails /\ Trouble
       \/ Fails /\ Trouble /\ UNCHANGED <<db, restored>>
    /\ UNCHANGED <<up, committed, browser, maintenance, working, remote, record>>

LeaveMaintenance ==
    /\ OpAt("leave")
    /\ working' = TRUE /\ maintenance' = FALSE /\ GoOn("dispose")
    /\ NoTrouble
    /\ UNCHANGED <<up, db, committed, browser, remote, record, restored>>

Dispose ==
    /\ OpAt("dispose")
    /\ op' = [op EXCEPT !.staged = FALSE, !.step = "finish"]
    /\ NoTrouble /\ UNCHANGED <<up, site, remote, record>>

(* execute, finally: the outcome goes to memory and to disk, or is a       *)
(* failure in memory and left running on disk.                             *)
Finish ==
    /\ OpAt("finish")
    /\ \/ /\ job' = [job EXCEPT !.status = IF op.ok THEN "succeeded" ELSE "failed"]
          /\ disk' = job' /\ NoTrouble
       \/ job' = [job EXCEPT !.status = "failed"] /\ Trouble /\ UNCHANGED disk
    /\ busy' = FALSE /\ op' = NoOperation
    /\ UNCHANGED <<up, site, remote, operations>>

(* configure: probes the server, writes the settings with the record as it *)
(* is in memory.                                                           *)
Configure ==
    /\ up /\ ~busy /\ disk # job
    /\ disk' = job
    /\ UNCHANGED <<up, site, remote, op, busy, job, operations, failures>>
-----------------------------------------------------------------------------
Crash ==
    /\ up /\ Trouble
    /\ up' = FALSE /\ maintenance' = FALSE /\ working' = FALSE
    /\ busy' = FALSE /\ op' = NoOperation /\ job' = NoJob
    /\ browser' = [r \in Requests |-> IF browser[r] = "in" THEN "answered" ELSE browser[r]]
    /\ UNCHANGED <<db, committed, remote, disk, operations, restored>>

(* BackupService.open: what ran was interrupted.                           *)
Interrupted(j) == IF j.status = "running" THEN [j EXCEPT !.status = "failed"] ELSE j

Restart ==
    /\ ~up
    /\ up' = TRUE /\ working' = TRUE
    /\ job' = Interrupted(disk) /\ disk' = Interrupted(disk)
    /\ UNCHANGED <<db, committed, browser, maintenance, remote, busy, op, operations, restored,
                   failures>>

OperationStep ==
    \/ PersistBegin \/ Prepare \/ EnterMaintenance \/ DrainRequests \/ StopWorker
    \/ CheckPending \/ Snapshot \/ Put \/ MoveIntoPlace \/ NoteSafety \/ Apply
    \/ LeaveMaintenance \/ Dispose \/ Finish

SiteBackupNext ==
    \/ \E r \in Requests : Arrives(r) \/ Writes(r)
    \/ WorkerFinishes
    \/ Begin("backup", "none")
    \/ \E f \in remote : Begin("restore", f)
    \/ OperationStep \/ Configure \/ Crash \/ Restart

(* Every call of an operation has a time limit or ends with its process,   *)
(* and the container is started again.                                     *)
SiteBackupFairness == WF_backupVars(OperationStep) /\ WF_backupVars(Restart)

SiteBackupSpec == SiteBackupInit /\ [][SiteBackupNext]_backupVars /\ SiteBackupFairness
-----------------------------------------------------------------------------
(* Types, and memory that fits the process.                                *)
SiteBackupTypeOK ==
    /\ db.rows \subseteq Requests /\ committed \subseteq Requests
    /\ operations \in 0..MaxOperations /\ restored \subseteq 1..operations
    /\ disk.status \in {"none", "running", "succeeded", "failed"}
    /\ busy <=> op.step # "none"
    /\ maintenance \/ ~working => busy \/ ~up

(* docs/admin-guide.md, complete backups: a restoration pauses the site    *)
(* and saves it before it replaces the database, so whatever a request     *)
(* ever wrote is in the database or in a complete file.                    *)
NothingLost ==
    committed \subseteq db.rows \cup UNION {f.contents.rows : f \in Complete}

(* A complete file never holds a package job under way, which could not be *)
(* restored, and neither does a restored database.                         *)
BackupsRestorable ==
    /\ \A f \in Complete : ~f.contents.pending
    /\ OpAt("apply") => ~op.source.pending

(* docs/admin-guide.md: the outcome is shown and kept: a success in memory *)
(* or on disk stands for a file in place or a replaced database.           *)
RecordIsTrue ==
    \A j \in {job, disk} : j.status = "succeeded" =>
        IF j.operation = "backup" THEN \E f \in Complete : f.id = j.id /\ f.purpose = "backup"
                                  ELSE j.id \in restored

(* What is true of backups and restorations.                               *)
SiteBackupInv == SiteBackupTypeOK /\ NothingLost /\ BackupsRestorable /\ RecordIsTrue

(* Every operation ends, and with it the pause of the site.                *)
OperationsEnd == busy ~> ~busy
=============================================================================
