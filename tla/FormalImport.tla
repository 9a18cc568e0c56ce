---------------------------- MODULE FormalImport ----------------------------
(***************************************************************************)
(* The one-off import of the historical archive into the production        *)
(* database (apps/api/src/history-migration/formal-runner-core.ts): an     *)
(* operator runs it under a single-use approval; it copies database and    *)
(* object storage, imports, and either commits or restores both copies.    *)
(*                                                                         *)
(* A run is a process that works through the protocol one effect at a      *)
(* time and keeps its phase in a file (formal-recovery-state.ts).  Every   *)
(* effect may report an error, before or after it took place, and every    *)
(* process may die between two effects; MaxFaults bounds both together.    *)
(***************************************************************************)
EXTENDS RecoveryPhases

CONSTANTS
    Runs,        \* processes, each with an output directory of its own
    Approvals,   \* approval files, each with a nonce
    Approvable   \* target contents an operator signs an approval for

ASSUME FormalAssumption == Approvable \subseteq Contents \ {"none"}

VARIABLES
    db, storage,   \* the production database and its object directory
    backup,        \* the database "<target>_backup", one name for all runs
    snapshot,      \* per run, the copy of the object directory
    phase,         \* per run, the recovery phase on disk
    receipt,       \* per run, the verdict of the receipt file
    marker,        \* per run, whether the PASS marker exists
    evidence,      \* per run, whether the backup evidence was written
    nonces,        \* nonces with a claim file, nonces in the log
    approved,      \* per approval, the target contents it was signed for
    uses,          \* per run, the approval it was started with
    restored,      \* per run, what its rollback has proved restored
    pc, faults

files == <<snapshot, phase, receipt, marker, evidence>>
formalVars == <<db, storage, backup, snapshot, phase, receipt, marker, evidence,
                nonces, approved, uses, restored, pc, faults>>

Unsigned == "unsigned"

FormalInit ==
    /\ db = "original" /\ storage = "original" /\ backup = "none"
    /\ snapshot = [r \in Runs |-> "none"]
    /\ phase = [r \in Runs |-> "none"]
    /\ receipt = [r \in Runs |-> "none"]
    /\ marker = [r \in Runs |-> FALSE]
    /\ evidence = [r \in Runs |-> FALSE]
    /\ nonces = [claimed |-> {}, logged |-> {}]
    /\ approved = [a \in Approvals |-> Unsigned]
    /\ uses \in [Runs -> Approvals]
    /\ restored = [r \in Runs |-> {}]
    /\ pc = [r \in Runs |-> "idle"]
    /\ faults = 0

Live(r) == pc[r] \notin {"idle", "over"}

Goto(r, l) == pc' = [pc EXCEPT ![r] = l]
Faulty == faults < MaxFaults /\ faults' = faults + 1

(* One phase move of a run; `failed` is where an error leads.               *)
Advance(r, from, to, done, failed) ==
    LET legal == Legal(phase[r], from, to)
        Write(ph) == phase' = [phase EXCEPT ![r] = ph]
    IN  \/ legal /\ Write(to) /\ Goto(r, done) /\ UNCHANGED faults
        \/ ~legal /\ Goto(r, failed) /\ UNCHANGED <<phase, faults>>
        \/ legal /\ Faulty /\ Goto(r, failed) /\ \E ph \in AfterError(from, to) : Write(ph)

(* A run that only moves its phase.                                        *)
Moves(r, at, from, to, done, failed) ==
    /\ pc[r] = at
    /\ Advance(r, from, to, done, failed)
    /\ UNCHANGED <<db, storage, backup, snapshot, receipt, marker, evidence,
                   nonces, approved, uses, restored>>

(***************************************************************************)
(* Approval, gate and nonce.                                               *)
(***************************************************************************)

(* The operator signs an approval for what the target holds now, when no   *)
(* run is under way and no signed approval is left to be used.             *)
Approve(a) ==
    /\ approved[a] = Unsigned
    /\ \A r \in Runs : ~Live(r)
    /\ \A b \in Approvals : approved[b] = Unsigned \/ b \in nonces.claimed
    /\ db = storage /\ db \in Approvable
    /\ approved' = [approved EXCEPT ![a] = db]
    /\ UNCHANGED <<db, storage, backup, files, nonces, uses, restored, pc, faults>>

(* consumeFormalApprovalNonce reads the log ...                            *)
Begin(r) ==
    /\ pc[r] = "idle"
    /\ approved[uses[r]] # Unsigned
    /\ Goto(r, IF uses[r] \in nonces.logged THEN "over" ELSE "claim")
    /\ UNCHANGED <<db, storage, backup, files, nonces, approved, uses, restored, faults>>

(* ... creates the claim file, which must not exist ...                    *)
\* mutant: an existing claim file is opened
ClaimNonce_Shared(r) ==
    /\ pc[r] = "claim"
    /\ Goto(r, "log")
    /\ nonces' = [nonces EXCEPT !.claimed = @ \cup {uses[r]}]
    /\ UNCHANGED <<db, storage, backup, files, approved, uses, restored, faults>>

ClaimNonce(r) ==
    /\ pc[r] = "claim"
    /\ IF uses[r] \in nonces.claimed
       THEN Goto(r, "over") /\ UNCHANGED nonces
       ELSE /\ Goto(r, "log")
            /\ nonces' = [nonces EXCEPT !.claimed = @ \cup {uses[r]}]
    /\ UNCHANGED <<db, storage, backup, files, approved, uses, restored, faults>>

(* ... and appends to the log; then the first phase is written.            *)
LogNonce(r) ==
    /\ pc[r] = "log"
    /\ nonces' = [nonces EXCEPT !.logged = @ \cup {uses[r]}]
    /\ phase' = [phase EXCEPT ![r] = "pre_backup"]
    /\ Goto(r, "prestate")
    /\ UNCHANGED <<db, storage, backup, snapshot, receipt, marker, evidence, approved, uses,
                   restored, faults>>

(* Database and storage must be what the approval was signed for.          *)
ComparePrestate(r) ==
    /\ pc[r] = "prestate"
    /\ Goto(r, IF db = approved[uses[r]] /\ storage = approved[uses[r]]
               THEN "to_backup" ELSE "over")
    /\ UNCHANGED <<db, storage, backup, files, nonces, approved, uses, restored, faults>>

(***************************************************************************)
(* The copies (createVerifiedFormalBackup) and what undoes them.           *)
(***************************************************************************)
StartBackup(r) ==
    Moves(r, "to_backup", "pre_backup", "backup_create_pending", "copy_database", "over")

CopyDatabase(r) ==
    /\ pc[r] = "copy_database"
    /\ \/ /\ backup = "none" /\ backup' = db
          /\ Goto(r, "copy_storage") /\ UNCHANGED faults
       \/ /\ backup # "none"
          /\ Goto(r, "undo_database") /\ UNCHANGED <<backup, faults>>
       \/ /\ backup = "none" /\ Faulty
          /\ backup' \in {backup, db} /\ Goto(r, "undo_database")
    /\ UNCHANGED <<db, storage, files, nonces, approved, uses, restored>>

CopyStorage(r) ==
    /\ pc[r] = "copy_storage"
    /\ \/ /\ snapshot' = [snapshot EXCEPT ![r] = storage]
          /\ Goto(r, "backup_made") /\ UNCHANGED faults
       \/ /\ Faulty /\ Goto(r, "undo_database")
          /\ \E c \in {"none", "partial"} : snapshot' = [snapshot EXCEPT ![r] = c]
    /\ UNCHANGED <<db, storage, backup, phase, receipt, marker, evidence, nonces, approved, uses,
                   restored>>

(* The catch block: in phase backup_create_pending it drops the database   *)
(* of the backup's name, whoever made it, and the run's own directory.     *)
UndoDatabase(r) ==
    /\ pc[r] = "undo_database"
    /\ Goto(r, IF phase[r] = "backup_create_pending" THEN "undo_storage" ELSE "over")
    /\ \/ /\ backup' = IF phase[r] = "backup_create_pending" THEN "none" ELSE backup
          /\ UNCHANGED faults
       \/ Faulty /\ UNCHANGED backup
    /\ UNCHANGED <<db, storage, files, nonces, approved, uses, restored>>

UndoStorage(r) ==
    /\ pc[r] = "undo_storage"
    /\ \/ snapshot' = [snapshot EXCEPT ![r] = "none"] /\ UNCHANGED faults
       \/ Faulty /\ UNCHANGED snapshot
    /\ Goto(r, "to_backup_failed")
    /\ UNCHANGED <<db, storage, backup, phase, receipt, marker, evidence, nonces, approved, uses,
                   restored>>

BackupFailed(r) ==
    Moves(r, "to_backup_failed", "backup_create_pending", "backup_failed", "over", "over")

BackupMade(r) ==
    Moves(r, "backup_made", "backup_create_pending", "backup_verified", "evidence", "over")

WriteEvidence(r) ==
    /\ pc[r] = "evidence"
    /\ \/ evidence' = [evidence EXCEPT ![r] = TRUE] /\ Goto(r, "to_import") /\ UNCHANGED faults
       \/ Faulty /\ Goto(r, "over") /\ UNCHANGED evidence
    /\ UNCHANGED <<db, storage, backup, snapshot, phase, receipt, marker, nonces, approved, uses,
                   restored>>

(***************************************************************************)
(* The import pass: packages are committed one by one, objects first, and  *)
(* the outcome is compared with the approved inventories.                  *)
(***************************************************************************)
StartImport(r) ==
    Moves(r, "to_import", "backup_verified", "import_started", "import", "over")

ImportObjects(r) ==
    /\ pc[r] = "import"
    /\ storage' = "partial" /\ Goto(r, "import_rows")
    /\ UNCHANGED <<db, backup, files, nonces, approved, uses, restored, faults>>

ImportRows(r) ==
    /\ pc[r] = "import_rows"
    /\ db' = "partial" /\ Goto(r, "import_rest")
    /\ UNCHANGED <<storage, backup, files, nonces, approved, uses, restored, faults>>

(* Only an import into the original data matches the approved inventories. *)
ImportRest(r) ==
    /\ pc[r] = "import_rest"
    /\ approved[uses[r]] = "original"
    /\ db' = "imported" /\ storage' = "imported" /\ Goto(r, "to_verified")
    /\ UNCHANGED <<backup, files, nonces, approved, uses, restored, faults>>

(* A package is refused, an object or a row cannot be written, or the      *)
(* comparison fails.                                                       *)
ImportFails(r) ==
    /\ pc[r] \in {"import", "import_rows", "import_rest"}
    /\ Goto(r, "to_rollback")
    /\ UNCHANGED <<db, storage, backup, files, nonces, approved, uses, restored, faults>>

(***************************************************************************)
(* The commit: PASS receipt, PASS marker and the phase success_committed,  *)
(* in this order and while both copies exist.                              *)
(***************************************************************************)
ImportVerified(r) ==
    Moves(r, "to_verified", "import_started", "import_verified", "to_cleanup", "over")

StartCommit(r) ==
    Moves(r, "to_cleanup", "import_verified", "cleanup_pending", "pass_receipt", "over")

PassReceipt(r) ==
    /\ pc[r] = "pass_receipt"
    /\ \/ receipt' = [receipt EXCEPT ![r] = "PASS"] /\ Goto(r, "pass_marker") /\ UNCHANGED faults
       \/ /\ Faulty /\ Goto(r, "retire_early")
          /\ receipt' \in {receipt, [receipt EXCEPT ![r] = "PASS"]}
    /\ UNCHANGED <<db, storage, backup, snapshot, phase, marker, evidence, nonces, approved, uses,
                   restored>>

PassMarker(r) ==
    /\ pc[r] = "pass_marker"
    /\ \/ marker' = [marker EXCEPT ![r] = TRUE] /\ Goto(r, "commit") /\ UNCHANGED faults
       \/ /\ Faulty /\ Goto(r, "retire_early")
          /\ marker' \in {marker, [marker EXCEPT ![r] = TRUE]}
    /\ UNCHANGED <<db, storage, backup, snapshot, phase, receipt, evidence, nonces, approved, uses,
                   restored>>

Commit(r) ==
    Moves(r, "commit", "cleanup_pending", "success_committed", "drop_backup", "retire_early")

(***************************************************************************)
(* After the commit: destroy the copies, best effort.  The operator may    *)
(* call completeFormalFinalizationCleanup as often as needed.              *)
(***************************************************************************)
Resume(r) ==
    /\ pc[r] = "over"
    /\ phase[r] \in {"success_committed", "cleanup_incomplete"}
    /\ receipt[r] = "PASS" /\ evidence[r] /\ db # "none"
    /\ Goto(r, "again_drop_backup")
    /\ UNCHANGED <<db, storage, backup, files, nonces, approved, uses, restored, faults>>

DropBackup(r) ==
    /\ pc[r] \in {"drop_backup", "again_drop_backup"}
    /\ LET again == pc[r] = "again_drop_backup" IN
       \/ /\ backup' = "none" /\ UNCHANGED faults
          /\ Goto(r, IF again THEN "again_drop_snapshot" ELSE "drop_snapshot")
       \/ /\ Faulty /\ backup' \in {backup, "none"}
          /\ Goto(r, IF again THEN "over" ELSE "to_incomplete")
    /\ UNCHANGED <<db, storage, files, nonces, approved, uses, restored>>

DropSnapshot(r) ==
    /\ pc[r] \in {"drop_snapshot", "again_drop_snapshot"}
    /\ LET again == pc[r] = "again_drop_snapshot" IN
       \/ /\ snapshot' = [snapshot EXCEPT ![r] = "none"] /\ UNCHANGED faults
          /\ Goto(r, IF again THEN "again_to_finalized" ELSE "to_finalized")
       \/ /\ Faulty /\ snapshot' = [snapshot EXCEPT ![r] = "partial"]
          /\ Goto(r, IF again THEN "over" ELSE "to_incomplete")
    /\ UNCHANGED <<db, storage, backup, phase, receipt, marker, evidence, nonces, approved, uses,
                   restored>>

Finalize(r) ==
    \/ Moves(r, "to_finalized", "success_committed", "finalized", "over", "to_incomplete")
    \/ Moves(r, "again_to_finalized", phase[r], "finalized", "over", "over")

CleanupIncomplete(r) ==
    Moves(r, "to_incomplete", "success_committed", "cleanup_incomplete", "over", "over")

(***************************************************************************)
(* The refusal: rollback of both copies, the PASS files retired, verdict,  *)
(* copies destroyed when the rollback is proved, FAIL receipt.             *)
(***************************************************************************)
StartRollback(r) ==
    \/ Moves(r, "to_rollback", "import_started", "rollback_pending", "restore_storage", "over")
    \/ Moves(r, "to_rollback_late", "cleanup_pending", "rollback_pending", "restore_storage", "over")

(* restoreStorageDirectory: checks the snapshot, copies it, swaps it in    *)
(* and verifies; a late error may leave the target damaged.                *)
RestoreStorage(r) ==
    /\ pc[r] = "restore_storage"
    /\ \/ /\ snapshot[r] = approved[uses[r]] /\ storage' = snapshot[r]
          /\ restored' = [restored EXCEPT ![r] = @ \cup {"storage"}]
          /\ UNCHANGED faults
       \/ /\ snapshot[r] # approved[uses[r]] /\ UNCHANGED <<storage, restored, faults>>
       \/ /\ Faulty /\ storage' \in {storage, "partial"} /\ UNCHANGED restored
    /\ Goto(r, "drop_target")
    /\ UNCHANGED <<db, backup, files, nonces, approved, uses>>

DropTarget(r) ==
    /\ pc[r] = "drop_target"
    /\ \/ db' = "none" /\ Goto(r, "create_target") /\ UNCHANGED faults
       \/ Faulty /\ db' \in {db, "none"} /\ Goto(r, "retire")
    /\ UNCHANGED <<storage, backup, files, nonces, approved, uses, restored>>

CreateTarget(r) ==
    /\ pc[r] = "create_target"
    /\ \/ /\ backup # "none" /\ db' = backup /\ UNCHANGED faults
          /\ restored' = IF backup = approved[uses[r]]
                         THEN [restored EXCEPT ![r] = @ \cup {"database"}] ELSE restored
       \/ backup = "none" /\ UNCHANGED <<db, restored, faults>>
       \/ Faulty /\ db' \in {db, backup} /\ UNCHANGED restored
    /\ Goto(r, "retire")
    /\ UNCHANGED <<storage, backup, files, nonces, approved, uses>>

(* retireFormalPassArtifacts: marker, then receipt, then the evidence of   *)
(* it.  Before the rollback its errors are ignored, in concludeRefusedRun  *)
(* they stop the process.                                                  *)
Retire(r) ==
    /\ pc[r] \in {"retire_early", "retire"}
    /\ LET early == pc[r] = "retire_early"
           noMarker  == [marker EXCEPT ![r] = FALSE]
           noReceipt == [receipt EXCEPT ![r] = IF @ = "PASS" THEN "none" ELSE @]
       IN  \/ /\ marker' = noMarker /\ receipt' = noReceipt /\ UNCHANGED faults
              /\ Goto(r, IF early THEN "to_rollback_late" ELSE "to_verdict")
           \/ /\ Faulty
              /\ \/ UNCHANGED <<marker, receipt>>
                 \/ marker' = noMarker /\ receipt' \in {receipt, noReceipt}
              /\ Goto(r, IF early THEN "to_rollback_late" ELSE "over")
    /\ UNCHANGED <<db, storage, backup, snapshot, phase, evidence, nonces, approved, uses, restored>>

RestoredAll(r) == restored[r] = {"storage", "database"}

Verdict(r) ==
    IF RestoredAll(r)
    THEN Moves(r, "to_verdict", "rollback_pending", "rollback_verified", "drop_copies", "over")
    ELSE Moves(r, "to_verdict", "rollback_pending", "rollback_refused", "fail_receipt", "over")

(* Only when everything is restored; errors are ignored.                   *)
DropCopies(r) ==
    /\ pc[r] = "drop_copies"
    /\ \/ backup' = "none" /\ snapshot' = [snapshot EXCEPT ![r] = "none"] /\ UNCHANGED faults
       \/ /\ Faulty /\ backup' \in {backup, "none"}
          /\ \E c \in {snapshot[r], "partial", "none"} : snapshot' = [snapshot EXCEPT ![r] = c]
    /\ Goto(r, "fail_receipt")
    /\ UNCHANGED <<db, storage, phase, receipt, marker, evidence, nonces, approved, uses, restored>>

FailReceipt(r) ==
    /\ pc[r] = "fail_receipt"
    /\ \/ /\ receipt' = [receipt EXCEPT ![r] = "FAIL"] /\ UNCHANGED faults
          /\ Goto(r, IF RestoredAll(r) THEN "to_closing" ELSE "to_refused_unproved")
       \/ /\ Faulty /\ Goto(r, "over")
          /\ receipt' \in {receipt, [receipt EXCEPT ![r] = "FAIL"]}
    /\ UNCHANGED <<db, storage, backup, snapshot, phase, marker, evidence, nonces, approved, uses,
                   restored>>

CloseRefused(r) ==
    \/ Moves(r, "to_closing", "rollback_verified", "cleanup_pending", "to_refused", "to_refused")
    \/ Moves(r, "to_refused", "cleanup_pending", "finalization_refused", "over", "over")
    \/ Moves(r, "to_refused_unproved", "rollback_refused", "finalization_refused", "over", "over")

(***************************************************************************)
(* The process dies; in the middle of the swap the object directory is     *)
(* missing.                                                                *)
(***************************************************************************)
Die(r) ==
    /\ Live(r) /\ Faulty /\ Goto(r, "over")
    /\ \/ UNCHANGED storage
       \/ /\ pc[r] = "restore_storage" /\ snapshot[r] = approved[uses[r]]
          /\ storage' = "none"
    /\ UNCHANGED <<db, backup, files, nonces, approved, uses, restored>>

Step(r) ==
    \/ ClaimNonce(r) \/ LogNonce(r) \/ ComparePrestate(r)
    \/ StartBackup(r) \/ CopyDatabase(r) \/ CopyStorage(r)
    \/ UndoDatabase(r) \/ UndoStorage(r) \/ BackupFailed(r)
    \/ BackupMade(r) \/ WriteEvidence(r)
    \/ StartImport(r) \/ ImportObjects(r) \/ ImportRows(r) \/ ImportRest(r) \/ ImportFails(r)
    \/ ImportVerified(r) \/ StartCommit(r) \/ PassReceipt(r) \/ PassMarker(r) \/ Commit(r)
    \/ DropBackup(r) \/ DropSnapshot(r) \/ Finalize(r) \/ CleanupIncomplete(r)
    \/ StartRollback(r) \/ RestoreStorage(r) \/ DropTarget(r) \/ CreateTarget(r)
    \/ Retire(r) \/ Verdict(r) \/ DropCopies(r) \/ FailReceipt(r) \/ CloseRefused(r)

FormalNext ==
    \/ \E a \in Approvals : Approve(a)
    \/ \E r \in Runs : Begin(r) \/ Step(r) \/ Resume(r) \/ Die(r)

FormalSpec == FormalInit /\ [][FormalNext]_formalVars

(* A process that is not killed goes on, and the operator calls the        *)
(* clean-up again until it went through.                                   *)
FormalFairSpec ==
    FormalSpec /\ \A r \in Runs : WF_formalVars(Step(r)) /\ WF_formalVars(Resume(r))
=============================================================================
