----------------------------- MODULE ExportTask -----------------------------
(***************************************************************************)
(* One problem-package export: the row of export_jobs, the object each     *)
(* attempt writes into the object store with its row of stored_files, and  *)
(* the handler of the embedded worker.  The handler reads the problems,    *)
(* publishes an object, and names it in the transaction that seals the     *)
(* task (DatabaseExportArtifactWriter.writeAndComplete).                   *)
(***************************************************************************)
EXTENDS EmbeddedWorker

CONSTANTS
    Problems,      \* how many problems are exported
    MaxRestarts,   \* bound of the model: restarts of the API process
    MaxFaults      \* bound of the model: calls that throw

ASSUME ExportAssumption == /\ Problems \in Nat \ {0}
                           /\ MaxRestarts \in Nat
                           /\ MaxFaults \in Nat

VARIABLES
    task,         \* export_jobs.state, "absent" before the row exists
    percent,      \* export_jobs.progress_percent
    result,       \* export_jobs.result_file_id: the attempt's object, or None
    artifacts,    \* the published objects
    files,        \* the objects stored_files has a row for
    allowed,      \* the requester may read every problem and file
    convertible,  \* the format can hold the problems
    restarts, faults

rowVars    == <<task, percent, result, files>>
exportEnv  == <<allowed, convertible, restarts>>
exportVars == <<phase, attempts, holder, live, issued, run, task, percent, result, files,
                artifacts, allowed, convertible, restarts, faults>>

None       == <<>>
Object(e)  == <<restarts, e>>
Objects    == {None} \cup ((0..MaxRestarts) \X Runs)
ExportRun  == [at : {"none", "start", "precheck", "announce", "read", "convert", "told", "writing",
                     "publish", "commit", "undo", "catch", "last", "bury", "ended"},
               next : 1..Problems + 1, aborted : BOOLEAN, error : {"none", "temporary", "package"}]
NoExport   == [at |-> "none", next |-> 1, aborted |-> FALSE, error |-> "none"]

ExportTypeOK ==
    /\ LifeTypeOK
    /\ run \in [Runs -> ExportRun]
    /\ task \in {"absent", "queued", "running", "succeeded", "failed"}
    /\ percent \in 0..100
    /\ result \in Objects
    /\ artifacts \subseteq Objects /\ files \subseteq Objects
    /\ allowed \in BOOLEAN /\ convertible \in BOOLEAN
    /\ restarts \in 0..MaxRestarts /\ faults \in 0..MaxFaults

ExportInit ==
    /\ LifeInit
    /\ run = [e \in Runs |-> NoExport]
    /\ task = "absent" /\ percent = 0 /\ result = None
    /\ artifacts = {} /\ files = {}
    /\ allowed = TRUE /\ convertible \in BOOLEAN
    /\ restarts = 0 /\ faults = 0

-----------------------------------------------------------------------------
(* The request: the row, then the queue entry; a replayed request only     *)
(* enqueues again (reenqueueExportJob).                                    *)
CreateExport == /\ task = "absent"
                /\ task' = "queued"
                /\ UNCHANGED <<lifeVars, run, percent, result, files, artifacts, exportEnv, faults>>

EnqueueExport == /\ task # "absent"
                 /\ Submit(Task)
                 /\ UNCHANGED <<run, rowVars, artifacts, exportEnv, faults>>

StoreQuiet == UNCHANGED <<rowVars, artifacts>>
Calm       == UNCHANGED <<exportEnv, faults>>

LeaseExport   == LeaseTo([NoExport EXCEPT !.at = "start"]) /\ StoreQuiet /\ Calm
ReclaimExport == TakeBackTask /\ StoreQuiet /\ Calm
ExportLapses  == TaskLapses /\ StoreQuiet /\ Calm
ExportTimeout(e)  == RunTimesOut(e) /\ StoreQuiet /\ Calm
ExportLeaseGone(e) == RunLosesLease(e) /\ StoreQuiet /\ Calm

Done(e, outcome) ==
    /\ run' = [run EXCEPT ![e] = [NoExport EXCEPT !.at = "ended", !.aborted = run[e].aborted]]
    /\ Report(e, outcome)

-----------------------------------------------------------------------------
(* What the statements do.                                                 *)
BeginRow == /\ task' = IF task = "queued" THEN "running" ELSE task
            /\ UNCHANGED <<percent, result, files>>

(* updateExport: WHERE state = 'running' AND progress_percent <= new.      *)
Reached(new) == task = "running" /\ percent <= new

MoveTo(new) == /\ percent' = IF Reached(new) THEN new ELSE percent
               /\ UNCHANGED <<task, result, files>>

(* createStoredFile and completeDatabaseExportJob in one transaction.      *)
SealRow(e) ==
    IF task = "running"
    THEN /\ task' = "succeeded"
         /\ percent' = 100
         /\ result' = Object(e)
         /\ files' = files \cup {Object(e)}
    ELSE UNCHANGED rowVars

FailExport == /\ task' = IF task = "running" THEN "failed" ELSE task
              /\ UNCHANGED <<percent, result, files>>

-----------------------------------------------------------------------------
(* The handler, one action per call that can fail or be overtaken.         *)
StartExport(e) ==
    /\ At(e, "start")
    /\ BeginRow
    /\ CASE task' = "running"   -> Continue(e, "precheck")
         [] task' = "succeeded" -> Done(e, "succeeded")
         [] OTHER               -> Done(e, "permanent")
    /\ UNCHANGED artifacts /\ Calm

(* assertActive and the permissions, looked at before anything is read.    *)
Welcome(e) == allowed /\ ~run[e].aborted

Precheck(e) ==
    /\ At(e, "precheck")
    /\ IF Welcome(e) THEN Continue(e, "announce") ELSE Raise(e, "package")
    /\ StoreQuiet /\ Calm

(* The item reports go to the queue, which asks for the lease.             *)
Announce(e) ==
    /\ At(e, "announce")
    /\ IF run[e].aborted THEN Raise(e, "package")
       ELSE IF Holds(e) THEN Continue(e, "read") ELSE Raise(e, "temporary")
    /\ StoreQuiet /\ Calm

Share(n)       == (n * 70) \div Problems
AtLeastTen(n)  == IF n < 10 THEN 10 ELSE n
ReadPercent(e) == AtLeastTen(Share(run[e].next - 1))
ConvPercent(e) == AtLeastTen(Share(run[e].next))

ReadProblem(e) ==
    /\ At(e, "read")
    /\ IF allowed
       THEN /\ MoveTo(ReadPercent(e))
            /\ IF Reached(ReadPercent(e)) THEN Continue(e, "convert") ELSE Raise(e, "temporary")
       ELSE Raise(e, "package") /\ UNCHANGED rowVars
    /\ UNCHANGED artifacts /\ Calm

(* The files are read under the permissions of that moment, the progress   *)
(* is moved, and only then the format is asked.                            *)
ConvertProblem(e) ==
    /\ At(e, "convert")
    /\ IF Welcome(e)
       THEN /\ MoveTo(ConvPercent(e))
            /\ IF ~Reached(ConvPercent(e)) THEN Raise(e, "temporary")
               ELSE IF convertible THEN Continue(e, "told") ELSE Raise(e, "package")
       ELSE Raise(e, "package") /\ UNCHANGED rowVars
    /\ UNCHANGED artifacts /\ Calm

ReportProblem(e) ==
    /\ At(e, "told")
    /\ IF Holds(e)
       THEN /\ run' = [run EXCEPT ![e].next = @ + 1,
                                  ![e].at = IF run[e].next = Problems THEN "writing" ELSE "announce"]
            /\ UNCHANGED lifeVars
       ELSE Raise(e, "temporary")
    /\ StoreQuiet /\ Calm

StartWriting(e) ==
    /\ At(e, "writing")
    /\ IF run[e].aborted THEN Raise(e, "package") /\ UNCHANGED rowVars
       ELSE /\ MoveTo(85)
            /\ IF Reached(85) THEN Continue(e, "publish") ELSE Raise(e, "temporary")
    /\ UNCHANGED artifacts /\ Calm

PublishArtifact(e) ==
    /\ At(e, "publish")
    /\ IF run[e].aborted THEN Raise(e, "package") /\ UNCHANGED artifacts
       ELSE Continue(e, "commit") /\ artifacts' = artifacts \cup {Object(e)}
    /\ UNCHANGED rowVars /\ Calm

(* A refusal by the task's state is definite: the object is deleted.       *)
CommitExport(e) ==
    /\ At(e, "commit")
    /\ SealRow(e)
    /\ IF task = "running" THEN Done(e, "succeeded") ELSE Continue(e, "undo")
    /\ UNCHANGED artifacts /\ Calm

UndoArtifact(e) ==
    /\ At(e, "undo")
    /\ artifacts' = artifacts \ {Object(e)}
    /\ Raise(e, "temporary")
    /\ UNCHANGED rowVars /\ Calm

-----------------------------------------------------------------------------
(* The catch block.                                                        *)
CatchExport(e) ==
    /\ At(e, "catch")
    /\ IF run[e].error = "package" THEN Continue(e, "bury")
       ELSE IF e < MaxAttempts THEN Done(e, "retryable")
       ELSE Continue(e, "last")
    /\ StoreQuiet /\ Calm

LastExport(e) ==
    /\ At(e, "last")
    /\ BeginRow
    /\ CASE task' = "running"   -> Continue(e, "bury")
         [] task' = "succeeded" -> Done(e, "succeeded")
         [] OTHER               -> Done(e, "permanent")
    /\ UNCHANGED artifacts /\ Calm

(* failExportJob accepts a running task only; the last attempt that was    *)
(* overtaken looks whether another attempt has succeeded.                  *)
BuryExport(e) ==
    /\ At(e, "bury")
    /\ FailExport
    /\ CASE task = "running" -> Done(e, "permanent")
         [] task = "succeeded" /\ run[e].error = "temporary" -> Done(e, "succeeded")
         [] OTHER -> Done(e, "retryable")
    /\ UNCHANGED artifacts /\ Calm

(* A call throws, before or after it took effect.                          *)
Effect(e) ==
    CASE At(e, "start") \/ At(e, "last") -> BeginRow
      [] At(e, "read")    -> MoveTo(ReadPercent(e))
      [] At(e, "convert") -> MoveTo(ConvPercent(e))
      [] At(e, "writing") -> MoveTo(85)
      [] At(e, "bury")    -> FailExport
      [] OTHER            -> UNCHANGED rowVars

CallThrows(e) ==
    /\ UNCHANGED rowVars \/ Effect(e)
    /\ UNCHANGED artifacts
    /\ \/ run[e].at \in {"start", "precheck", "announce", "read", "convert", "told", "writing"}
          /\ Raise(e, "temporary")
       \/ At(e, "publish") /\ Raise(e, "temporary")
       \/ run[e].at \in {"last", "bury"} /\ Done(e, "retryable")

\* mutant: an object whose commit got no answer is deleted
CommitThrows_Deletes(e) ==
    /\ At(e, "commit")
    /\ SealRow(e)
    /\ artifacts' = artifacts \ {Object(e)}
    /\ Raise(e, "temporary")

(* The transaction fails in a statement, or its reply is lost: then the    *)
(* row is read again, and when that does not show the result the object    *)
(* is kept for whoever may still see it committed.                         *)
CommitThrows(e) ==
    /\ At(e, "commit")
    /\ UNCHANGED artifacts
    /\ \/ UNCHANGED rowVars /\ Continue(e, "undo")
       \/ UNCHANGED rowVars /\ Raise(e, "temporary")
       \/ task = "running" /\ SealRow(e) /\ (Raise(e, "temporary") \/ Done(e, "succeeded"))

DeleteThrows(e) ==
    /\ At(e, "undo")
    /\ Raise(e, "temporary")
    /\ UNCHANGED <<rowVars, artifacts>>

ExportErrs(e) ==
    /\ faults < MaxFaults
    /\ faults' = faults + 1
    /\ CallThrows(e) \/ CommitThrows(e) \/ DeleteThrows(e)
    /\ UNCHANGED exportEnv

-----------------------------------------------------------------------------
RevokeExport == /\ allowed
                /\ allowed' = FALSE
                /\ UNCHANGED <<lifeVars, run, rowVars, artifacts, convertible, restarts, faults>>

RestartExport ==
    /\ restarts < MaxRestarts
    /\ restarts' = restarts + 1
    /\ ProcessRestarts(NoExport)
    /\ UNCHANGED <<rowVars, artifacts, allowed, convertible, faults>>

ExportHandler(e) ==
    \/ StartExport(e) \/ Precheck(e) \/ Announce(e) \/ ReadProblem(e) \/ ConvertProblem(e)
    \/ ReportProblem(e) \/ StartWriting(e) \/ PublishArtifact(e) \/ CommitExport(e)
    \/ UndoArtifact(e) \/ CatchExport(e) \/ LastExport(e) \/ BuryExport(e)

ExportNext ==
    \/ CreateExport \/ EnqueueExport
    \/ LeaseExport \/ ReclaimExport \/ ExportLapses
    \/ \E e \in Runs : ExportHandler(e) \/ ExportErrs(e) \/ ExportTimeout(e) \/ ExportLeaseGone(e)
    \/ RevokeExport \/ RestartExport

ExportSpec == ExportInit /\ [][ExportNext]_exportVars

(* As for imports: the process serves its loop, its handlers and timers.   *)
ExportFairness ==
    /\ WF_exportVars(LeaseExport) /\ WF_exportVars(ReclaimExport)
    /\ \A e \in Runs : WF_exportVars(ExportHandler(e)) /\ WF_exportVars(ExportLeaseGone(e))

ExportFairSpec == ExportSpec /\ ExportFairness
-----------------------------------------------------------------------------
(* An export that is reported as succeeded can be downloaded: the object   *)
(* its row names exists and has its metadata, whatever late attempts,      *)
(* lost replies and clean-ups of other attempts did (the comments of       *)
(* writeAndComplete: deleting it "would turn a valid result into a broken  *)
(* one").  The queue never says succeeded of a task the row does not.      *)
ResultIsReadable ==
    /\ task = "succeeded" => result \in artifacts \cap files
    /\ phase[Task] = "succeeded" => task = "succeeded"

(* Objects nobody can reach remain only after a fault or a restart.        *)
NoStrayArtifacts ==
    (\A e \in Runs : ~Active(e)) /\ faults = 0 /\ restarts = 0 => artifacts \subseteq {result}

(* Types, results that can be read, and no artifact left unaccounted.      *)
ExportInv == ExportTypeOK /\ ResultIsReadable /\ NoStrayArtifacts

(* An export the queue knows ends with an outcome in the database; only a  *)
(* restart or a failing call may leave it unfinished.                      *)
QueuedExportEnds ==
    phase[Task] = "queued" ~>
        task \in {"succeeded", "failed"} \/ phase[Task] = "absent" \/ faults > 0
=============================================================================
