---------------------------- MODULE BatchImport ----------------------------
(***************************************************************************)
(* importHistoryPackages: the import of a batch of approved packages into  *)
(* a database, one package after the other                                 *)
(* (apps/api/src/history-migration/import-phase.ts).  Every effect of a    *)
(* package is bracketed by two phases of its journal, and the batch ends   *)
(* with a manifest and a marker.                                           *)
(*                                                                         *)
(* Importers are processes with an output directory of their own each, on  *)
(* one database and one object storage.  An importer that failed or died   *)
(* is started again in its directory.  An effect may report an error, with *)
(* or without having taken place; MaxSlips bounds errors, deaths and       *)
(* changes of permission, packages and batch together.                     *)
(***************************************************************************)
EXTENDS Naturals, FiniteSets

CONSTANTS
    Importers,    \* processes, each with an output directory
    MaxPackages,  \* packages are 1..MaxPackages, imported in this order
    MaxSlips

ASSUME BatchAssumption == MaxPackages \in Nat /\ MaxSlips \in Nat

Packages == 1..MaxPackages

(* Storage identifiers of a package: derived from its identity, or drawn   *)
(* for one output directory by the first version of the tool.              *)
Derived  == "derived"
Drawn(r) == r

(* Journal phases, by their place in SOURCE_INTENT_PHASES.                 *)
Confirmed     == 0
Publishing    == 1
Published     == 2
Registering   == 3
Registered    == 4
Creating      == 5
Created       == 6
Committing    == 7
Committed     == 8

VARIABLES
    importer,     \* per process: place, package, packages left, entries, failure
    journal,      \* per process and package: the journal file and its .v2 sidecar
    manifest,     \* per process: packages listed in the manifest file
    publication,  \* per process: the batch publication journal
    completeMark, \* per process: the batch IMPORT_COMPLETE speaks of, or {}
    report,       \* the packages of the batch
    damaged,      \* packages whose file is not what the report says
    mayImport,    \* whether the executing account has problem.import
    stored,       \* objects, and rows of stored_files, as <<package, identifier>>
    listed,
    task,         \* per package: the row of import_jobs
    item,         \* per package: whether its item names a problem
    problems,     \* per package: problems created from it
    doubt,        \* packages whose writer was cut off while it committed
    slips

directoryVars == <<journal, manifest, publication, completeMark>>
databaseVars  == <<listed, task, item, problems, doubt>>
worldVars     == <<report, damaged, mayImport, slips>>
batchVars     == <<importer, directoryVars, worldVars, stored, databaseVars>>

NoTask == [state |-> "none"]

BatchInit ==
    /\ importer \in [Importers -> {[at |-> place, package |-> 0, left |-> {}, entries |-> {},
                                     failed |-> FALSE] : place \in {"idle", "never"}}]
    /\ journal \in [Importers -> [Packages -> {[file |-> "none", phase |-> Confirmed, sidecar |-> FALSE],
                                               [file |-> "v1", phase |-> Confirmed, sidecar |-> FALSE]}]]
    /\ \A r \in Importers, p, q \in Packages : journal[r][p] = journal[r][q]
    /\ manifest = [r \in Importers |-> {}]
    /\ publication = [r \in Importers |-> [batch |-> {}, entries |-> {}, phase |-> 0]]
    /\ completeMark = [r \in Importers |-> {}]
    /\ report \in (SUBSET Packages) \ {{}}
    /\ damaged = {}
    /\ mayImport = TRUE
    /\ stored = {} /\ listed = {}
    /\ task = [p \in Packages |-> NoTask]
    /\ item = [p \in Packages |-> FALSE]
    /\ problems = [p \in Packages |-> 0]
    /\ doubt = {}
    /\ slips = 0

Slip == slips < MaxSlips /\ slips' = slips + 1

At(r, place)   == importer[r].at = place
Go(r, place)   == importer' = [importer EXCEPT ![r].at = place]
Package(r)     == importer[r].package

(* One package that fails does not stop the others.                        *)
PackageFails(r) == importer' = [importer EXCEPT ![r].at = "next", ![r].failed = TRUE]

(* What a reader of the journal sees: the sidecar if there is one.         *)
JournalId(r, p)    == IF journal[r][p].file = "v1" \/ journal[r][p].sidecar THEN Drawn(r) ELSE Derived
JournalPhase(r, p) == IF journal[r][p].sidecar THEN Confirmed ELSE journal[r][p].phase

Source(r) == <<Package(r), JournalId(r, Package(r))>>

(* The comparison is with the phase that was read, the write goes to the   *)
(* main file.                                                              *)
AdvanceJournal(r, ph) ==
    journal' = IF ph < JournalPhase(r, Package(r)) THEN journal
               ELSE [journal EXCEPT ![r][Package(r)].phase = ph, ![r][Package(r)].file = "v2"]
-----------------------------------------------------------------------------
(* A run: the packages the manifest does not list yet.                     *)
BeginBatch(r) ==
    /\ At(r, "idle")
    /\ completeMark[r] # report
    /\ importer' = [importer EXCEPT ![r] = [at |-> "next", package |-> 0, failed |-> FALSE,
                                            entries |-> manifest[r] \cap report,
                                            left |-> report \ manifest[r]]]
    /\ UNCHANGED <<directoryVars, worldVars, stored, databaseVars>>

NextPackage(r) ==
    /\ At(r, "next")
    /\ LET left == importer[r].left
           p == CHOOSE q \in left : \A s \in left : q <= s
       IN importer' = IF left = {} THEN [importer EXCEPT ![r].at = "publish"]
                      ELSE [importer EXCEPT ![r].at = "read", ![r].package = p,
                                            ![r].left = left \ {p}]
    /\ UNCHANGED <<directoryVars, worldVars, stored, databaseVars>>

\* mutant: a journal of the first version ends the run
ReadPackage_OldEnds(r) ==
    /\ At(r, "read")
    /\ LET p == Package(r)
       IN IF journal[r][p].file = "v1" THEN Go(r, "idle") /\ UNCHANGED journal
          ELSE Go(r, "replay") /\ journal' = [journal EXCEPT ![r][p].file = "v2"]
    /\ UNCHANGED <<manifest, publication, completeMark, worldVars, stored, databaseVars>>

(* The file is read and compared with the report; the journal is read, or  *)
(* created exclusively; one of the first version gets a sidecar.           *)
ReadPackage(r) ==
    /\ At(r, "read")
    /\ LET p == Package(r)
           j == journal[r][p]
       IN IF p \in damaged THEN PackageFails(r) /\ UNCHANGED journal
          ELSE /\ Go(r, "replay")
               /\ journal' = [journal EXCEPT ![r][p] =
                                CASE j.file = "none" -> [j EXCEPT !.file = "v2"]
                                  [] j.file = "v1" -> [j EXCEPT !.sidecar = TRUE]
                                  [] OTHER -> j]
    /\ UNCHANGED <<manifest, publication, completeMark, worldVars, stored, databaseVars>>

(* A task that exists must have this journal's identifier.                 *)
CheckReplay(r) ==
    /\ At(r, "replay")
    /\ LET row == task[Package(r)]
       IN IF row.state # "none" /\ row.source # Source(r)[2]
          THEN PackageFails(r) /\ UNCHANGED journal
          ELSE Go(r, "store") /\ AdvanceJournal(r, Publishing)
    /\ UNCHANGED <<manifest, publication, completeMark, worldVars, stored, databaseVars>>

PublishPackage(r) ==
    /\ At(r, "store")
    /\ stored' = stored \cup {Source(r)}
    /\ Go(r, "register")
    /\ AdvanceJournal(r, Registering)
    /\ UNCHANGED <<manifest, publication, completeMark, worldVars, databaseVars>>

(* A row that another importer inserted meanwhile is as good.              *)
RegisterFile(r) ==
    /\ At(r, "register")
    /\ listed' = listed \cup {Source(r)}
    /\ Go(r, "create")
    /\ AdvanceJournal(r, Creating)
    /\ UNCHANGED <<manifest, publication, completeMark, worldVars, stored, task, item, problems, doubt>>

(* One task per package: whoever comes later gets the task that exists,    *)
(* and stops when it was created for another identifier.                   *)
NewTask(r) == [state |-> "queued", source |-> Source(r)[2], owner |-> r, live |-> FALSE]

TaskCreated(r) ==
    task' = IF task[Package(r)].state = "none" THEN [task EXCEPT ![Package(r)] = NewTask(r)] ELSE task

CreateTask(r) ==
    /\ At(r, "create")
    /\ TaskCreated(r)
    /\ IF task'[Package(r)].source # Source(r)[2]
       THEN PackageFails(r) /\ UNCHANGED journal
       ELSE Go(r, "claim") /\ AdvanceJournal(r, Created)
    /\ UNCHANGED <<manifest, publication, completeMark, worldVars, stored, listed, item, problems, doubt>>
-----------------------------------------------------------------------------
(* Claiming and writing.  A lease number is never drawn twice, so that the *)
(* owner of the lease is the process that drew it last and still runs.     *)
Holds(r, p) == task[p].state = "running" /\ task[p].owner = r /\ task[p].live

(* A cut-off transaction keeps its lock on the task until it ends.         *)
\* mutant: the task is read without FOR UPDATE
Unlocked_NoLock(p) == TRUE

Unlocked(p) == p \notin doubt

Claimable(p) == \/ task[p].state \in {"queued", "failed"}
                \/ task[p].state = "running" /\ ~task[p].live

(* The package is imported: its entry joins the manifest of this run.      *)
PackageDone(r) ==
    /\ importer' = [importer EXCEPT ![r].at = "next", ![r].entries = @ \cup {Package(r)}]
    /\ AdvanceJournal(r, Committed)

Claimed(r) == [task EXCEPT ![Package(r)].state = "running", ![Package(r)].owner = r,
                           ![Package(r)].live = TRUE]

ClaimTask(r) ==
    /\ At(r, "claim") /\ Unlocked(Package(r))
    /\ LET p == Package(r)
       IN \/ /\ task[p].state = "succeeded"
             /\ IF item[p] THEN PackageDone(r) ELSE PackageFails(r) /\ UNCHANGED journal
             /\ UNCHANGED task
          \/ /\ task[p].state # "succeeded" /\ ~Claimable(p)
             /\ PackageFails(r) /\ UNCHANGED <<journal, task>>
          \/ /\ Claimable(p)
             /\ task' = Claimed(r)
             /\ Go(r, "authorize") /\ AdvanceJournal(r, Committing)
    /\ UNCHANGED <<manifest, publication, completeMark, worldVars, stored, listed, item, problems, doubt>>

(* The permission is asked for before the writer is called, which returns  *)
(* the problem of an item that has one.                                    *)
Authorize(r) ==
    /\ At(r, "authorize")
    /\ Go(r, CASE ~mayImport -> "caught"
               [] item[Package(r)] -> "complete"
               [] OTHER -> "write")
    /\ UNCHANGED <<directoryVars, worldVars, stored, databaseVars>>

Written(p) == /\ item' = [item EXCEPT ![p] = TRUE]
              /\ problems' = [problems EXCEPT ![p] = @ + 1]

(* The writer's transaction asks for the permission again and locks the    *)
(* task under the lease; an item that has a problem is left alone.         *)
WriteImported(r) ==
    /\ At(r, "write") /\ Unlocked(Package(r))
    /\ LET p == Package(r)
       IN \/ /\ mayImport /\ Holds(r, p) /\ ~item[p]
             /\ Written(p) /\ Go(r, "complete")
          \/ /\ ~(mayImport /\ Holds(r, p) /\ ~item[p])
             /\ Go(r, IF mayImport /\ item[p] THEN "complete" ELSE "caught")
             /\ UNCHANGED <<item, problems>>
    /\ UNCHANGED <<directoryVars, worldVars, stored, listed, task, doubt>>

(* A heartbeat renews the lease, also one that ran out and was not taken;  *)
(* one that was taken makes the run give up.                               *)
RenewLease(r) ==
    /\ importer[r].at \in {"authorize", "write"}
    /\ Unlocked(Package(r))
    /\ LET p == Package(r)
       IN IF task[p].state = "running" /\ task[p].owner = r
          THEN /\ ~task[p].live /\ task' = [task EXCEPT ![p].live = TRUE]
               /\ UNCHANGED importer
          ELSE Go(r, "caught") /\ UNCHANGED task
    /\ UNCHANGED <<directoryVars, worldVars, stored, listed, item, problems, doubt>>

(* After an error of the writer: what the item says decides.               *)
CatchWriter(r) ==
    /\ At(r, "caught")
    /\ Go(r, IF item[Package(r)] THEN "complete" ELSE "fail")
    /\ UNCHANGED <<directoryVars, worldVars, stored, databaseVars>>

Settled(r, state) ==
    LET p == Package(r)
    IN /\ Unlocked(p)
       /\ task' = IF Holds(r, p) THEN [task EXCEPT ![p].state = state] ELSE task
       /\ IF task'[p].state = "succeeded" THEN PackageDone(r)
          ELSE PackageFails(r) /\ UNCHANGED journal
       /\ UNCHANGED <<manifest, publication, completeMark, worldVars, stored, listed, item, problems, doubt>>

CompleteTask(r) == At(r, "complete") /\ Settled(r, "succeeded")

FailTask(r) == At(r, "fail") /\ Settled(r, "failed")
-----------------------------------------------------------------------------
(* Publication of the batch.                                               *)
SameBatch(r) == /\ publication[r].batch = report
                /\ publication[r].entries = importer[r].entries

AfterManifest(r) == IF importer[r].failed THEN "idle" ELSE "announce"

DecidePublication(r) ==
    /\ At(r, "publish")
    /\ Go(r, CASE ~(SameBatch(r) /\ publication[r].phase >= 2) -> "unmark"
               [] SameBatch(r) /\ publication[r].phase = 4 -> "idle"
               [] OTHER -> AfterManifest(r))
    /\ UNCHANGED <<directoryVars, worldVars, stored, databaseVars>>

Publication(r, ph) == publication' = [publication EXCEPT ![r] =
                         [batch |-> report, entries |-> importer[r].entries, phase |-> ph]]

(* In this order: the old marker goes, the journal says that a manifest is *)
(* coming, the manifest, the journal says so; then the same for the new    *)
(* marker.  Each of the six may fail.                                      *)
PublicationEffect(r) ==
    \/ At(r, "unmark") /\ completeMark' = [completeMark EXCEPT ![r] = {}]
       /\ UNCHANGED <<manifest, publication>>
    \/ At(r, "promise") /\ Publication(r, 1) /\ UNCHANGED <<manifest, completeMark>>
    \/ At(r, "list") /\ manifest' = [manifest EXCEPT ![r] = importer[r].entries]
       /\ UNCHANGED <<publication, completeMark>>
    \/ At(r, "confirm") /\ Publication(r, 2) /\ UNCHANGED <<manifest, completeMark>>
    \/ At(r, "announce") /\ Publication(r, 3) /\ UNCHANGED <<manifest, completeMark>>
    \/ At(r, "mark") /\ completeMark' = [completeMark EXCEPT ![r] = report]
       /\ UNCHANGED <<manifest, publication>>
    \/ At(r, "finish") /\ Publication(r, 4) /\ UNCHANGED <<manifest, completeMark>>

After(r) ==
    CASE At(r, "unmark")   -> "promise"
      [] At(r, "promise")  -> "list"
      [] At(r, "list")     -> "confirm"
      [] At(r, "confirm")  -> AfterManifest(r)
      [] At(r, "announce") -> "mark"
      [] At(r, "mark")     -> "finish"
      [] OTHER             -> "idle"

PublishBatch(r) ==
    /\ PublicationEffect(r)
    /\ Go(r, After(r))
    /\ UNCHANGED <<journal, worldVars, stored, databaseVars>>
-----------------------------------------------------------------------------
(* Errors.  A call that throws may have taken effect; what the code does   *)
(* next is the next package, or a look at what is there.                   *)
PackageErrs(r) ==
    \/ /\ At(r, "store")
       /\ stored' \in {stored, stored \cup {Source(r)}}
       /\ PackageFails(r) /\ UNCHANGED databaseVars
    \/ /\ At(r, "register")
       /\ listed' \in {listed, listed \cup {Source(r)}}
       /\ PackageFails(r) /\ UNCHANGED <<stored, task, item, problems, doubt>>
    \/ /\ At(r, "create")
       /\ TaskCreated(r) \/ UNCHANGED task
       /\ PackageFails(r) /\ UNCHANGED <<stored, listed, item, problems, doubt>>
    \/ /\ At(r, "claim") /\ Unlocked(Package(r))
       /\ task[Package(r)].state \in {"queued", "failed"}
       /\ task' = Claimed(r)
       /\ PackageFails(r) /\ UNCHANGED <<stored, listed, item, problems, doubt>>
    \/ /\ At(r, "write") /\ Unlocked(Package(r)) /\ Holds(r, Package(r)) /\ ~item[Package(r)]
       /\ mayImport
       /\ doubt' = doubt \cup {Package(r)}
       /\ Go(r, "caught") /\ UNCHANGED <<stored, listed, task, item, problems>>
    \/ /\ At(r, "complete") /\ Unlocked(Package(r))
       /\ task' \in {task, IF Holds(r, Package(r))
                           THEN [task EXCEPT ![Package(r)].state = "succeeded"] ELSE task}
       /\ PackageFails(r) /\ UNCHANGED <<stored, listed, item, problems, doubt>>
    \/ /\ importer[r].at \in {"read", "replay", "caught", "fail"}
       /\ PackageFails(r) /\ UNCHANGED <<stored, databaseVars>>

BatchErrs(r) ==
    /\ Slip
    /\ \/ PackageErrs(r) /\ UNCHANGED directoryVars
       \/ /\ \/ PublicationEffect(r)
             \/ At(r, "publish") /\ UNCHANGED <<manifest, publication, completeMark>>
          /\ Go(r, "idle") /\ UNCHANGED <<journal, stored, databaseVars>>
    /\ UNCHANGED <<report, damaged, mayImport>>

(* The process dies; its lease runs out later.                             *)
ImporterDies(r) ==
    /\ Slip
    /\ importer[r].at \notin {"idle", "never"}
    /\ Go(r, "idle")
    /\ UNCHANGED <<directoryVars, report, damaged, mayImport, stored, databaseVars>>

(* A lease runs out when its holder is gone, or slower than its heartbeat. *)
LeaseRunsOut(p) ==
    /\ task[p].state = "running" /\ task[p].live /\ Unlocked(p)
    /\ LET r == task[p].owner
           working == Package(r) = p /\ importer[r].at \in {"authorize", "write", "caught", "complete", "fail"}
       IN IF working THEN Slip ELSE UNCHANGED slips
    /\ task' = [task EXCEPT ![p].live = FALSE]
    /\ UNCHANGED <<importer, directoryVars, report, damaged, mayImport, stored, listed, item, problems, doubt>>

(* The cut-off transaction ends.                                           *)
DoubtEnds(p) ==
    /\ p \in doubt
    /\ doubt' = doubt \ {p}
    /\ Written(p) \/ UNCHANGED <<item, problems>>
    /\ UNCHANGED <<importer, directoryVars, worldVars, stored, listed, task>>

(* The world: a file is damaged, the permission is withdrawn, a new batch  *)
(* takes the place of the old one; and files and permission are restored.  *)
WorldChanges ==
    /\ Slip
    /\ \/ \E p \in report : damaged' = damaged \cup {p} /\ UNCHANGED <<mayImport, report>>
       \/ mayImport' = FALSE /\ UNCHANGED <<damaged, report>>
       \/ /\ \A r \in Importers : importer[r].at \in {"idle", "never"}
          /\ report' \in (SUBSET Packages) \ {{}, report}
          /\ UNCHANGED <<damaged, mayImport>>
    /\ UNCHANGED <<importer, directoryVars, stored, databaseVars>>

Restored ==
    /\ damaged # {} \/ ~mayImport
    /\ damaged' = {} /\ mayImport' = TRUE
    /\ UNCHANGED <<importer, directoryVars, report, slips, stored, databaseVars>>

ImporterStep(r) ==
    \/ BeginBatch(r) \/ NextPackage(r) \/ ReadPackage(r) \/ CheckReplay(r) \/ PublishPackage(r)
    \/ RegisterFile(r) \/ CreateTask(r) \/ ClaimTask(r) \/ Authorize(r) \/ WriteImported(r)
    \/ CatchWriter(r) \/ CompleteTask(r) \/ FailTask(r)
    \/ DecidePublication(r) \/ PublishBatch(r)

BatchNext ==
    \/ \E r \in Importers : ImporterStep(r) \/ RenewLease(r) \/ BatchErrs(r) \/ ImporterDies(r)
    \/ \E p \in Packages : LeaseRunsOut(p) \/ DoubtEnds(p)
    \/ WorldChanges \/ Restored

BatchSpec == BatchInit /\ [][BatchNext]_batchVars

(* The operator starts an importer again until its marker is there, dead   *)
(* leases run out, cut-off transactions end, and nobody leaves packages    *)
(* damaged or the permission withdrawn.                                    *)
BatchFairness ==
    /\ \A r \in Importers : WF_batchVars(ImporterStep(r))
    /\ \A p \in Packages : WF_batchVars(LeaseRunsOut(p)) /\ WF_batchVars(DoubtEnds(p))
    /\ WF_batchVars(Restored)
-----------------------------------------------------------------------------
(* Types: places, packages, phases and states are the ones of the code.    *)
BatchTypeOK ==
    /\ \A r \in Importers :
           /\ importer[r].left \cup importer[r].entries \subseteq Packages
           /\ At(r, "idle") \/ At(r, "never") \/ Package(r) \in Packages \cup {0}
           /\ publication[r].phase \in 0..4
           /\ manifest[r] \cup completeMark[r] \subseteq Packages
    /\ \A r \in Importers, p \in Packages :
           journal[r][p] \in [file : {"none", "v1", "v2"}, phase : Confirmed..Committed, sidecar : BOOLEAN]
    /\ stored \cup listed \subseteq Packages \X ({Derived} \cup Importers)
    /\ \A p \in Packages : task[p].state \in {"none", "queued", "running", "succeeded", "failed"}

(* "Exactly one problem" for a package, however importers race, lose their *)
(* replies and are repeated; a task that succeeded has its problem, and it *)
(* has an object and a row under the identifier it was created for.        *)
ExactlyOneProblem ==
    \A p \in Packages :
        /\ problems[p] = IF item[p] THEN 1 ELSE 0
        /\ task[p].state = "succeeded" => item[p]
        /\ task[p].state # "none" => <<p, task[p].source>> \in stored \cap listed

(* A confirmed phase in the journal is true: the object, the row, the task *)
(* and the problem exist.                                                  *)
JournalIsTrue ==
    \A r \in Importers, p \in Packages :
        LET source == <<p, JournalId(r, p)>>
            ph == journal[r][p].phase
        IN /\ ph >= Published => source \in stored
           /\ ph >= Registered => source \in listed
           /\ ph >= Created => task[p].state # "none" /\ task[p].source = source[2]
           /\ ph = Committed => item[p] /\ task[p].state = "succeeded"

(* The manifest lists imported packages only, and a marker that says that  *)
(* a batch is complete stands beside the manifest of all its packages.     *)
MarkerIsTrue ==
    \A r \in Importers :
        /\ \A p \in manifest[r] : task[p].state = "succeeded"
        /\ completeMark[r] # {} => completeMark[r] = manifest[r]

(* What the database, the journals and the published files say together.   *)
BatchInv == BatchTypeOK /\ ExactlyOneProblem /\ JournalIsTrue /\ MarkerIsTrue

(* The publication journal says that the marker of the present batch is    *)
(* there although it is not: the batch was replaced, the importer failed   *)
(* after it removed the marker, and then the old batch came back.          *)
ConfirmedUnmarked(r) ==
    /\ publication[r].batch = report /\ publication[r].phase = 4
    /\ completeMark[r] # report

(* Repeating an importer ends with the marker of the batch, unless a task  *)
(* of the batch was created for another identifier than its journal has,   *)
(* or the journal confirms a marker that is gone.                          *)
BatchesEnd ==
    \A r \in Importers :
        []<>(\/ At(r, "never") \/ completeMark[r] = report \/ ConfirmedUnmarked(r)
             \/ \E p \in report : task[p].state # "none" /\ task[p].source # JournalId(r, p))
=============================================================================
