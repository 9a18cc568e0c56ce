----------------------------- MODULE ImportTask -----------------------------
(***************************************************************************)
(* One problem-package import as apps/api runs it: the row of import_jobs  *)
(* and its items in PostgreSQL, the queue entry for it, and the handler    *)
(* invocations of the embedded worker.  Only the database survives a       *)
(* restart of the API.                                                     *)
(***************************************************************************)
EXTENDS EmbeddedWorker, FiniteSets

CONSTANTS
    Problems,     \* how many problems the package holds
    MaxRestarts,  \* bound of the model: restarts of the API process
    MaxFaults     \* bound of the model: database calls that throw

ASSUME ImportAssumption == /\ Problems \in Nat \ {0}
                           /\ MaxRestarts \in Nat
                           /\ MaxFaults \in Nat

VARIABLES
    task,       \* import_jobs.state, "absent" before the row exists
    progress,   \* import_jobs.progress_percent
    items,      \* import_job_items.state by position
    created,    \* created[p]: how many problems exist for position p
    allowed,    \* the requester still has problem.import
    valid,      \* the adapter can convert the package
    restarts, faults

taskVars == <<task, progress, items, created>>
envVars  == <<allowed, valid, restarts>>
vars     == <<phase, attempts, holder, live, issued, task, progress, items, created, run,
              allowed, valid, restarts, faults>>

Positions == 1..Problems
Steps     == {"none", "start", "items", "access", "convert", "parse", "announce", "advance",
              "write", "commit", "record", "seal", "catch", "last", "count", "resolve", "mark", "bury", "ended"}
Errors    == {"none", "temporary", "refused", "package", "deferred"}

NoRun == [at |-> "none", seen |-> {}, next |-> 1, parsed |-> FALSE, wrote |-> FALSE,
          aborted |-> FALSE, error |-> "none"]

TypeOK ==
    /\ LifeTypeOK
    /\ task \in {"absent", "queued", "running", "succeeded", "failed"}
    /\ progress \in {0, 30, 60, 100}
    /\ items \in [Positions -> {"queued", "failed", "succeeded"}]
    /\ created \in [Positions -> Nat]
    /\ run \in [Runs -> [at : Steps, seen : SUBSET Positions, next : 1..Problems + 1,
                         parsed : BOOLEAN, wrote : BOOLEAN, aborted : BOOLEAN,
                         error : Errors]]
    /\ allowed \in BOOLEAN
    /\ valid \in BOOLEAN
    /\ restarts \in 0..MaxRestarts
    /\ faults \in 0..MaxFaults

Init ==
    /\ LifeInit
    /\ task = "absent"
    /\ progress = 0
    /\ items = [p \in Positions |-> "queued"]
    /\ created = [p \in Positions |-> 0]
    /\ run = [e \in Runs |-> NoRun]
    /\ allowed = TRUE
    /\ valid \in BOOLEAN
    /\ restarts = 0
    /\ faults = 0

-----------------------------------------------------------------------------
(* The request that creates the task: the row first, then the queue entry. *)
(* A replayed request enqueues again; the queue ignores a job it knows.    *)
CreateRow == /\ task = "absent"
             /\ task' = "queued"
             /\ UNCHANGED <<lifeVars, progress, items, created, run, envVars, faults>>

Enqueue == /\ task # "absent"
           /\ Submit(Task)
           /\ UNCHANGED <<taskVars, run, envVars, faults>>

-----------------------------------------------------------------------------
(* The embedded worker and the timers.                                     *)
Lease == /\ LeaseTo([NoRun EXCEPT !.at = "start"])
         /\ UNCHANGED <<taskVars, envVars, faults>>

TakeBack == TakeBackTask /\ UNCHANGED <<taskVars, envVars, faults>>

LeaseLapses == TaskLapses /\ UNCHANGED <<taskVars, envVars, faults>>

Timeout(e) == RunTimesOut(e) /\ UNCHANGED <<taskVars, envVars, faults>>

HeartbeatFails(e) == RunLosesLease(e) /\ UNCHANGED <<taskVars, envVars, faults>>

-----------------------------------------------------------------------------
Finish(e, outcome, error) ==
    /\ run' = [run EXCEPT ![e] = [NoRun EXCEPT !.at = "ended", !.seen = run[e].seen,
                                               !.error = error]]
    /\ Report(e, outcome)

Untouched == UNCHANGED taskVars
Quiet     == UNCHANGED <<envVars, faults>>

-----------------------------------------------------------------------------
(* What the statements of DatabaseProblemPackageJobStore and of the writer *)
(* do to the database.                                                     *)
Imported == {p \in Positions : items[p] = "succeeded"}

StartRow == /\ task' = IF task = "queued" THEN "running" ELSE task
            /\ UNCHANGED <<progress, items, created>>

\* mutant: progress may fall
ProgressAccepted_Any(new) == task = "running" \/ progress = new

(* UPDATE ... WHERE state = 'running' AND progress_percent <= new.         *)
ProgressAccepted(new) == task = "running" /\ progress <= new

SetProgress(new) ==
    /\ progress' = IF ProgressAccepted(new) THEN new ELSE progress
    /\ UNCHANGED <<task, items, created>>

(* One transaction: the problem, its files, and the item that names it.    *)
WriteAccepted(p) == task = "running" /\ allowed /\ items[p] # "succeeded"

\* mutant: the item is left to recordImportItem, after the transaction
WriteProblem_ItemLater(p) ==
    IF WriteAccepted(p)
    THEN /\ created' = [created EXCEPT ![p] = @ + 1]
         /\ UNCHANGED <<task, progress, items>>
    ELSE Untouched

WriteProblem(p) ==
    IF WriteAccepted(p)
    THEN /\ created' = [created EXCEPT ![p] = @ + 1]
         /\ items' = [items EXCEPT ![p] = "succeeded"]
         /\ UNCHANGED <<task, progress>>
    ELSE Untouched

(* completeImportJob asks only that the task is running.                   *)
CompleteRow ==
    IF task = "running"
    THEN /\ task' = "succeeded"
         /\ progress' = 100
         /\ UNCHANGED <<items, created>>
    ELSE Untouched

MarkFirstFailed ==
    IF task = "running" /\ items[1] # "succeeded"
    THEN items' = [items EXCEPT ![1] = "failed"] /\ UNCHANGED <<task, progress, created>>
    ELSE Untouched

MayFail == task = "running" /\ Imported = {}

FailRow ==
    IF MayFail
    THEN task' = "failed" /\ UNCHANGED <<progress, items, created>>
    ELSE Untouched

-----------------------------------------------------------------------------
(* The handler up to its catch block, one action per database call.        *)
Start(e) ==
    /\ At(e, "start")
    /\ StartRow
    /\ CASE task' = "running"   -> Continue(e, "items")
         [] task' = "succeeded" -> Finish(e, "succeeded", "none")
         [] OTHER               -> Finish(e, "permanent", "none")
    /\ Quiet

(* When every problem is imported the package is not read again.           *)
ReadItems(e) ==
    /\ At(e, "items")
    /\ run' = [run EXCEPT ![e].seen = Imported,
                          ![e].at = IF Imported = Positions THEN "seal" ELSE "access"]
    /\ UNCHANGED lifeVars
    /\ Untouched /\ Quiet

Access(e) ==
    /\ At(e, "access")
    /\ IF allowed /\ ~run[e].aborted THEN Continue(e, "convert") ELSE Raise(e, "package")
    /\ Untouched /\ Quiet

Convert(e) ==
    /\ At(e, "convert")
    /\ SetProgress(30)
    /\ IF ProgressAccepted(30) THEN Continue(e, "parse")
       ELSE Raise(e, IF task = "running" THEN "refused" ELSE "temporary")
    /\ Quiet

(* The first position that still has no problem, from p on.                *)
Pending(e, p) == LET left == {q \in Positions \ run[e].seen : q >= p}
                 IN  IF left = {} THEN Problems + 1
                     ELSE CHOOSE q \in left : \A r \in left : q <= r

Parse(e) ==
    /\ At(e, "parse")
    /\ IF valid /\ ~run[e].aborted
       THEN /\ run' = [run EXCEPT ![e].parsed = TRUE, ![e].next = Pending(e, 1),
                                  ![e].at = "announce"]
            /\ UNCHANGED lifeVars
       ELSE Raise(e, "package")
    /\ Untouched /\ Quiet

(* The item reports go to the queue and need the lease; the progress goes  *)
(* to the database, which does not ask for it.                             *)
Announce(e) ==
    /\ At(e, "announce")
    /\ IF Holds(e) THEN Continue(e, "advance") ELSE Raise(e, "temporary")
    /\ Untouched /\ Quiet

Advance(e) ==
    /\ At(e, "advance")
    /\ SetProgress(60)
    /\ IF ProgressAccepted(60) THEN Continue(e, "write") ELSE Raise(e, "temporary")
    /\ Quiet

(* The last look at the permission, the abort signal and the item before   *)
(* the writer publishes the files; an item with a problem is not written.  *)
Write(e) ==
    /\ At(e, "write")
    /\ IF ~allowed \/ run[e].aborted THEN Raise(e, "package")
       ELSE IF items[run[e].next] = "succeeded" THEN Continue(e, "record")
       ELSE Continue(e, "commit")
    /\ Untouched /\ Quiet

(* The transaction comes later, perhaps after a successor's.  A writer     *)
(* that was refused answers with the problem of the item if there is one.  *)
(* An abort is noticed only between two files.                             *)
Commit(e) ==
    /\ At(e, "commit")
    /\ IF ~allowed THEN Raise(e, "package") /\ Untouched
       ELSE /\ WriteProblem(run[e].next) \/ (run[e].aborted /\ Untouched)
            /\ IF items'[run[e].next] = "succeeded" THEN Continue(e, "record")
                                                    ELSE Raise(e, "temporary")
    /\ Quiet

Record(e) ==
    /\ At(e, "record")
    /\ IF task = "running"
       THEN LET following == Pending(e, run[e].next + 1)
            IN  /\ run' = [run EXCEPT ![e].wrote = TRUE, ![e].next = following,
                                      ![e].at = IF following > Problems THEN "seal"
                                                ELSE "write"]
                /\ UNCHANGED lifeVars
       ELSE Raise(e, "package")
    /\ Untouched /\ Quiet

(* A refused completion still counts when the task has succeeded.          *)
Seal(e) ==
    /\ At(e, "seal")
    /\ CompleteRow
    /\ IF task' = "succeeded" THEN Finish(e, "succeeded", "none") ELSE Raise(e, "temporary")
    /\ Quiet

-----------------------------------------------------------------------------
(* The catch block.  Temporary errors are left to the queue, except on the *)
(* last attempt.                                                           *)
\* mutant: the last attempt is left to the queue like the others
Catch_AlwaysRetry(e) ==
    /\ At(e, "catch")
    /\ IF run[e].error = "package" THEN Continue(e, "count")
                                   ELSE Finish(e, "retryable", run[e].error)
    /\ Untouched /\ Quiet

Catch(e) ==
    /\ At(e, "catch")
    /\ IF run[e].error = "package" THEN Continue(e, "count")
       ELSE IF e < MaxAttempts THEN Finish(e, "retryable", run[e].error)
       ELSE Continue(e, "last")
    /\ Untouched /\ Quiet

Last(e) ==
    /\ At(e, "last")
    /\ StartRow
    /\ CASE task' = "running"   -> Continue(e, "count")
         [] task' = "succeeded" -> Finish(e, "succeeded", "none")
         [] OTHER               -> Finish(e, "permanent", "none")
    /\ Quiet

Count(e) ==
    /\ At(e, "count")
    /\ IF run[e].parsed /\ Imported = Positions THEN Continue(e, "resolve")
       ELSE IF run[e].error # "package" /\ Imported # {} THEN Finish(e, "retryable", "deferred")
       ELSE IF run[e].error = "package" /\ run[e].wrote
            THEN Finish(e, "retryable", "temporary")
       ELSE Continue(e, "mark")
    /\ Untouched /\ Quiet

Resolve(e) ==
    /\ At(e, "resolve")
    /\ CompleteRow
    /\ IF task' = "succeeded" THEN Finish(e, "succeeded", "none")
                              ELSE Finish(e, "retryable", "temporary")
    /\ Quiet

Mark(e) ==
    /\ At(e, "mark")
    /\ MarkFirstFailed
    /\ Continue(e, "bury")
    /\ Quiet

Bury(e) ==
    /\ At(e, "bury")
    /\ FailRow
    /\ IF MayFail THEN Finish(e, "permanent", "none")
       ELSE IF run[e].error # "package" /\ run[e].parsed /\ Imported = Positions
            THEN Continue(e, "resolve")
       ELSE Finish(e, "retryable", "temporary")
    /\ Quiet

(* A database call throws, before or after its statement took effect.  A   *)
(* completion whose reply was lost is found by reading the task again, and *)
(* a lost commit of the writer by reading the item again, if that works.   *)
Statement(e) ==
    CASE At(e, "start") \/ At(e, "last") -> StartRow
      [] At(e, "convert")  -> SetProgress(30)
      [] At(e, "advance")  -> SetProgress(60)
      [] At(e, "commit")   -> allowed /\ WriteProblem(run[e].next)
      [] At(e, "mark")     -> MarkFirstFailed
      [] At(e, "bury")     -> FailRow
      [] OTHER             -> Untouched

StoreErrs(e) ==
    /\ faults < MaxFaults
    /\ faults' = faults + 1
    /\ Untouched \/ Statement(e)
    /\ \/ /\ run[e].at \in {"start", "items", "access", "convert", "advance", "write",
                          "commit", "seal"}
          /\ Raise(e, "temporary")
       \/ At(e, "commit") /\ items'[run[e].next] = "succeeded" /\ Continue(e, "record")
       \/ At(e, "record") /\ Raise(e, "package")
       \/ At(e, "mark") /\ Continue(e, "bury")
       \/ /\ run[e].at \in {"last", "count", "resolve", "bury"}
          /\ Finish(e, "retryable", "temporary")
    /\ UNCHANGED envVars

-----------------------------------------------------------------------------
(* The environment: an administrator takes the permission away, the API    *)
(* process is restarted.                                                   *)
Revoke == /\ allowed
          /\ allowed' = FALSE
          /\ UNCHANGED <<lifeVars, taskVars, run, valid, restarts, faults>>

Restart ==
    /\ restarts < MaxRestarts
    /\ restarts' = restarts + 1
    /\ ProcessRestarts(NoRun)
    /\ UNCHANGED <<taskVars, allowed, valid, faults>>

Handler(e) ==
    \/ Start(e) \/ ReadItems(e) \/ Access(e) \/ Convert(e) \/ Parse(e) \/ Announce(e)
    \/ Advance(e) \/ Write(e) \/ Commit(e) \/ Record(e) \/ Seal(e)
    \/ Catch(e) \/ Last(e) \/ Count(e) \/ Resolve(e) \/ Mark(e) \/ Bury(e)

Next ==
    \/ CreateRow \/ Enqueue
    \/ Lease \/ TakeBack \/ LeaseLapses
    \/ \E e \in Runs : Handler(e) \/ StoreErrs(e) \/ Timeout(e) \/ HeartbeatFails(e)
    \/ Revoke \/ Restart

Spec == Init /\ [][Next]_vars

(* The event loop of the process keeps serving the polling loop, the       *)
(* handlers and the timers; nothing is assumed of clients, of              *)
(* administrators or of restarts.                                          *)
ImportFairness ==
    /\ WF_vars(Lease) /\ WF_vars(TakeBack)
    /\ \A e \in Runs : WF_vars(Handler(e)) /\ WF_vars(HeartbeatFails(e))

FairSpec == Spec /\ ImportFairness
-----------------------------------------------------------------------------
(* Each position of the package yields at most one problem, and an item is *)
(* marked succeeded exactly when its problem exists, whatever timed-out    *)
(* invocations, retries, restarts and lost replies the writer sees.        *)
OneProblemPerPosition ==
    \A p \in Positions : created[p] = IF items[p] = "succeeded" THEN 1 ELSE 0

(* A task is sealed as succeeded only when every problem was imported.     *)
SealedIsComplete == task = "succeeded" => Imported = Positions

(* A task is recorded as failed only when it left no problem behind, and a *)
(* late handler adds none afterwards.                                      *)
FailedIsEmpty == task = "failed" => \A p \in Positions : created[p] = 0

(* The queue never says succeeded of a task the database does not.         *)
QueueSuccessIsReal == phase[Task] = "succeeded" => task = "succeeded"

(* What the four records of one import say of each other: row, items,      *)
(* problems and queue never contradict, whoever wrote last.                *)
ImportInv ==
    /\ TypeOK
    /\ OneProblemPerPosition
    /\ SealedIsComplete
    /\ FailedIsEmpty
    /\ QueueSuccessIsReal

(* The outcome of a task is final and its progress never falls.            *)
TaskOnlyAdvances ==
    [][/\ task \in {"succeeded", "failed"} => task' = task
       /\ progress' >= progress]_vars

(* An import the queue knows ends with an outcome in the database.  Only a *)
(* restart, a failing database or a package imported in part may leave the *)
(* task unfinished.                                                        *)
QueuedImportEnds ==
    phase[Task] = "queued" ~>
        \/ task \in {"succeeded", "failed"}
        \/ phase[Task] = "absent"
        \/ faults > 0
        \/ Imported \notin {{}, Positions}

(* What problem-package-handlers.ts:275 and the test of partial imports    *)
(* say: a partly imported task is continued by the next attempt.           *)
PartialImportContinues ==
    \A e \in Runs : run[e].error = "refused" => run[e].seen = {}
=============================================================================
