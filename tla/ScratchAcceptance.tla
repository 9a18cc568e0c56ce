-------------------------- MODULE ScratchAcceptance --------------------------
(***************************************************************************)
(* The rehearsal of the history import on a scratch database               *)
(* (apps/api/src/history-migration/phase2-runner-core.ts, with the         *)
(* database and directory copies of history-import-snapshot.ts).  Before   *)
(* the import it makes a first generation of copies; afterwards it makes a *)
(* second one, retires the first and at last deletes everything.  A        *)
(* clean-up that was interrupted by an error can be taken up again.        *)
(*                                                                         *)
(* A generation is a pair: a copy of the database and a copy of the object *)
(* directory with the same contents.                                       *)
(***************************************************************************)
EXTENDS RecoveryPhases

VARIABLES
    sdb, sstore,   \* the scratch database and its object directory
    snap, g2,      \* databases "__snapshot" and "__snapshot_g2"
    dir, next, trash,  \* directories "storage.snapshot", ".next", ".terminal-trash"
    sphase,        \* the recovery phase on disk
    record,        \* the phase noted in the clean-up evidence, or "none"
    sreceipt,      \* the receipt of the rehearsal
    spc, sfaults

copies == <<snap, g2, dir, next, trash>>
scratchVars == <<sdb, sstore, snap, g2, dir, next, trash, sphase, record, sreceipt, spc, sfaults>>

ScratchInit ==
    /\ sdb = "none" /\ sstore = "original"
    /\ snap = "none" /\ g2 = "none"
    /\ dir = "none" /\ next = "none" /\ trash = "none"
    /\ sphase = "none" /\ record = "none" /\ sreceipt = "none"
    /\ spc = "idle" /\ sfaults = 0

SAt(l) == spc = l
SGoto(l) == spc' = l
SFaulty == sfaults < MaxFaults /\ sfaults' = sfaults + 1

(* Where an error of the clean-up leads: the handler knows whether the     *)
(* final deletion had begun (terminalDeletionStarted).                     *)
Broken == SGoto(IF spc \in {"hide_dir", "drop_snap", "drop_trash", "to_finalized"}
                THEN "diagnose_terminal" ELSE "diagnose")

(* Phase moves inside the guarded clean-up; the process is the only writer *)
(* of the file, so the move is never refused.                              *)
SMoves(at, from, to, done) ==
    /\ SAt(at) /\ Legal(sphase, from, to)
    /\ \/ sphase' = to /\ SGoto(done) /\ UNCHANGED sfaults
       \/ SFaulty /\ Broken /\ sphase' \in AfterError(from, to)
    /\ UNCHANGED <<sdb, sstore, copies, record, sreceipt>>

(***************************************************************************)
(* The scratch database, the first generation, the import.                 *)
(***************************************************************************)

(* prepareHistoryImportDatabase and the capture of the baseline.           *)
Prepare ==
    /\ SAt("idle")
    /\ sdb' = "original" /\ SGoto("copy_database")
    /\ UNCHANGED <<sstore, copies, sphase, record, sreceipt, sfaults>>

(* snapshotScratchDatabase; an error drops the scratch database.           *)
SCopyDatabase ==
    /\ SAt("copy_database")
    /\ \/ snap' = sdb /\ SGoto("copy_storage") /\ UNCHANGED <<sdb, sfaults>>
       \/ SFaulty /\ snap' \in {"none", sdb} /\ sdb' = "none" /\ SGoto("over")
    /\ UNCHANGED <<sstore, g2, dir, next, trash, sphase, record, sreceipt>>

(* snapshotStorageDirectory; an error removes what was made so far.        *)
SCopyStorage ==
    /\ SAt("copy_storage")
    /\ \/ dir' = sstore /\ SGoto("import") /\ UNCHANGED <<sdb, snap, sfaults>>
       \/ SFaulty /\ dir' = "none" /\ snap' = "none" /\ sdb' = "none" /\ SGoto("over")
    /\ UNCHANGED <<sstore, g2, next, trash, sphase, record, sreceipt>>

(* executeImport: two passes and the comparison with what was approved.    *)
SImport ==
    /\ SAt("import")
    /\ sdb' = "partial" /\ sstore' = "partial" /\ SGoto("import_rest")
    /\ UNCHANGED <<copies, sphase, record, sreceipt, sfaults>>

SImportRest ==
    /\ SAt("import_rest")
    /\ sdb' = "imported" /\ sstore' = "imported" /\ SGoto("established")
    /\ UNCHANGED <<copies, sphase, record, sreceipt, sfaults>>

SImportFails ==
    /\ spc \in {"import", "import_rest"}
    /\ SGoto("restore_database")
    /\ UNCHANGED <<sdb, sstore, copies, sphase, record, sreceipt, sfaults>>

(* restoreAndVerify: both restores are tried, the copies are dropped only  *)
(* when both are proved.                                                   *)
RestoreDatabase ==
    /\ SAt("restore_database")
    /\ \/ snap = "original" /\ sdb' = snap /\ SGoto("restore_objects") /\ UNCHANGED sfaults
       \/ SFaulty /\ sdb' \in {sdb, "none"} /\ SGoto("restore_objects_only")
    /\ UNCHANGED <<sstore, copies, sphase, record, sreceipt>>

RestoreObjects ==
    /\ spc \in {"restore_objects", "restore_objects_only"}
    /\ \/ /\ dir = "original" /\ sstore' = dir /\ UNCHANGED sfaults
          /\ SGoto(IF SAt("restore_objects") THEN "drop_first" ELSE "over")
       \/ SFaulty /\ sstore' \in {sstore, "partial"} /\ SGoto("over")
    /\ UNCHANGED <<sdb, copies, sphase, record, sreceipt>>

DropFirst ==
    /\ SAt("drop_first")
    /\ \/ snap' = "none" /\ dir' = "none" /\ UNCHANGED sfaults
       \/ SFaulty /\ snap' \in {snap, "none"} /\ dir' \in {dir, "partial"}
    /\ SGoto("over")
    /\ UNCHANGED <<sdb, sstore, g2, next, trash, sphase, record, sreceipt>>

(***************************************************************************)
(* The change of generations.                                              *)
(***************************************************************************)
Establish ==
    /\ SAt("established")
    /\ \/ sphase' = "scratch_established" /\ SGoto("make_g2") /\ UNCHANGED sfaults
       \/ SFaulty /\ sphase' \in {sphase, "scratch_established"} /\ SGoto("over")
    /\ UNCHANGED <<sdb, sstore, copies, record, sreceipt>>

MakeG2 ==
    /\ SAt("make_g2")
    /\ \/ g2' = sdb /\ SGoto("to_sealed") /\ UNCHANGED sfaults
       \/ SFaulty /\ g2' \in {"none", sdb} /\ Broken
    /\ UNCHANGED <<sdb, sstore, snap, dir, next, trash, sphase, record, sreceipt>>

\* mutant: the second copy of the objects is forgotten
Seal_NoNext == SMoves("to_sealed", "scratch_established", "scratch_g2_sealed", "to_retiring")

Seal == SMoves("to_sealed", "scratch_established", "scratch_g2_sealed", "make_next")

MakeNext ==
    /\ SAt("make_next")
    /\ \/ next' = sstore /\ SGoto("to_retiring") /\ UNCHANGED sfaults
       \/ SFaulty /\ next' \in {"none", "partial"} /\ Broken
    /\ UNCHANGED <<sdb, sstore, snap, g2, dir, trash, sphase, record, sreceipt>>

StartRetiring == SMoves("to_retiring", "scratch_g2_sealed", "scratch_retiring_g1", "drop_canonical")

DropCanonical ==
    /\ SAt("drop_canonical")
    /\ \/ snap' = "none" /\ SGoto("drop_dir") /\ UNCHANGED sfaults
       \/ SFaulty /\ snap' \in {snap, "none"} /\ Broken
    /\ UNCHANGED <<sdb, sstore, g2, dir, next, trash, sphase, record, sreceipt>>

DropDir ==
    /\ SAt("drop_dir")
    /\ \/ dir' = "none" /\ SGoto("promote_dir") /\ UNCHANGED sfaults
       \/ SFaulty /\ dir' \in {dir, "partial"} /\ Broken
    /\ UNCHANGED <<sdb, sstore, snap, g2, next, trash, sphase, record, sreceipt>>

PromoteDir ==
    /\ SAt("promote_dir")
    /\ \/ dir' = next /\ next' = "none" /\ SGoto("promote_g2") /\ UNCHANGED sfaults
       \/ SFaulty /\ Broken /\ UNCHANGED <<dir, next>>
    /\ UNCHANGED <<sdb, sstore, snap, g2, trash, sphase, record, sreceipt>>

PromoteG2 ==
    /\ SAt("promote_g2")
    /\ \/ /\ g2 # "none" /\ snap = "none" /\ snap' = g2 /\ g2' = "none"
          /\ SGoto("to_retired") /\ UNCHANGED sfaults
       \/ SFaulty /\ Broken /\ \/ UNCHANGED <<snap, g2>>
                               \/ snap = "none" /\ snap' = g2 /\ g2' = "none"
    /\ UNCHANGED <<sdb, sstore, dir, next, trash, sphase, record, sreceipt>>

Retired == SMoves("to_retired", "scratch_retiring_g1", "scratch_g1_retired", "to_terminal")

(***************************************************************************)
(* The final deletion: hide the directory, drop the database copy, delete  *)
(* the hidden directory.                                                   *)
(***************************************************************************)
StartTerminal == SMoves("to_terminal", "scratch_g1_retired", "scratch_terminal_pending", "hide_dir")

HideDir ==
    /\ SAt("hide_dir")
    /\ \/ /\ trash' = (IF dir = "none" THEN trash ELSE dir) /\ dir' = "none"
          /\ SGoto("drop_snap") /\ UNCHANGED sfaults
       \/ SFaulty /\ Broken /\ UNCHANGED <<dir, trash>>
    /\ UNCHANGED <<sdb, sstore, snap, g2, next, sphase, record, sreceipt>>

DropSnap ==
    /\ SAt("drop_snap")
    /\ \/ snap' = "none" /\ SGoto("drop_trash") /\ UNCHANGED sfaults
       \/ SFaulty /\ snap' \in {snap, "none"} /\ Broken
    /\ UNCHANGED <<sdb, sstore, g2, dir, next, trash, sphase, record, sreceipt>>

DropTrash ==
    /\ SAt("drop_trash")
    /\ \/ trash' = "none" /\ SGoto("to_finalized") /\ UNCHANGED sfaults
       \/ SFaulty /\ trash' \in {trash, "partial"} /\ Broken
    /\ UNCHANGED <<sdb, sstore, snap, g2, dir, next, sphase, record, sreceipt>>

SFinalize == SMoves("to_finalized", "scratch_terminal_pending", "scratch_finalized", "receipt")

Pass ==
    /\ SAt("receipt")
    /\ \/ sreceipt' = "PASS" /\ UNCHANGED sfaults
       \/ SFaulty /\ UNCHANGED sreceipt
    /\ SGoto("over")
    /\ UNCHANGED <<sdb, sstore, copies, sphase, record>>

(***************************************************************************)
(* The handler of an interrupted clean-up: only a complete pair may be     *)
(* called recoverable (scratch_terminal_failed); evidence for the resume.  *)
(***************************************************************************)
ProbedSnapshot == IF snap # "none" THEN snap ELSE g2

Diagnose ==
    /\ spc \in {"diagnose", "diagnose_terminal"}
    /\ LET recoverable == /\ SAt("diagnose_terminal")
                          /\ ProbedSnapshot = "imported"
                          /\ "imported" \in {dir, trash}
           verdict == IF recoverable THEN "scratch_terminal_failed" ELSE sphase
       IN  \/ sphase' = verdict /\ record' = verdict /\ UNCHANGED sfaults
           \/ /\ SFaulty /\ sphase' \in {sphase, verdict}
              /\ record' \in {record, sphase'}
    /\ SGoto("over")
    /\ UNCHANGED <<sdb, sstore, copies, sreceipt>>

(***************************************************************************)
(* completePhase2TerminalCleanup, called by the operator.                  *)
(***************************************************************************)
Takeable ==
    /\ sphase \in {"scratch_terminal_pending", "scratch_terminal_failed"}
    /\ record = sphase
    /\ ProbedSnapshot \in {"none", "imported"}
    /\ dir \in {"none", "imported"}
    /\ ProbedSnapshot = "none" \/ trash \in {"none", "imported"}
    /\ sphase = "scratch_terminal_failed" =>
           ProbedSnapshot = "imported" /\ "imported" \in {dir, trash}

TakeUp ==
    /\ SAt("over") /\ Takeable
    /\ SGoto("again_hide")
    /\ UNCHANGED <<sdb, sstore, copies, sphase, record, sreceipt, sfaults>>

(* A hidden directory is first brought back when the database copy exists, *)
(* then hidden again.                                                      *)
AgainHide ==
    /\ SAt("again_hide")
    /\ \/ /\ trash' = (IF dir = "none" THEN trash ELSE dir) /\ dir' = "none"
          /\ SGoto("again_drop_snap") /\ UNCHANGED sfaults
       \/ /\ SFaulty /\ SGoto("over")
          /\ \/ UNCHANGED <<dir, trash>>
             \/ /\ dir = "none" /\ ProbedSnapshot = "imported"
                /\ dir' = trash /\ trash' = "none"
    /\ UNCHANGED <<sdb, sstore, snap, g2, next, sphase, record, sreceipt>>

AgainDropSnap ==
    /\ SAt("again_drop_snap")
    /\ \/ snap' = "none" /\ SGoto("again_drop_trash") /\ UNCHANGED sfaults
       \/ SFaulty /\ snap' \in {snap, "none"} /\ SGoto("over")
    /\ UNCHANGED <<sdb, sstore, g2, dir, next, trash, sphase, record, sreceipt>>

AgainDropTrash ==
    /\ SAt("again_drop_trash")
    /\ \/ trash' = "none" /\ SGoto("again_rest") /\ UNCHANGED sfaults
       \/ SFaulty /\ trash' \in {trash, "partial"} /\ SGoto("over")
    /\ UNCHANGED <<sdb, sstore, snap, g2, dir, next, sphase, record, sreceipt>>

AgainRest ==
    /\ SAt("again_rest")
    /\ \/ g2' = "none" /\ next' = "none" /\ SGoto("again_to_finalized") /\ UNCHANGED sfaults
       \/ SFaulty /\ g2' \in {g2, "none"} /\ SGoto("over") /\ UNCHANGED next
    /\ UNCHANGED <<sdb, sstore, snap, dir, trash, sphase, record, sreceipt>>

AgainFinalize ==
    /\ SAt("again_to_finalized")
    /\ \/ sphase' = "scratch_finalized" /\ UNCHANGED sfaults
       \/ SFaulty /\ sphase' \in AfterError(sphase, "scratch_finalized")
    /\ SGoto("over")
    /\ UNCHANGED <<sdb, sstore, copies, record, sreceipt>>

(***************************************************************************)
(* The process dies; a swap of the object directory in progress leaves it  *)
(* missing.                                                                *)
(***************************************************************************)
SDie ==
    /\ spc \notin {"idle", "over"} /\ SFaulty /\ SGoto("over")
    /\ \/ UNCHANGED sstore
       \/ spc \in {"restore_objects", "restore_objects_only"} /\ sstore' = "none"
    /\ UNCHANGED <<sdb, copies, sphase, record, sreceipt>>

SStep ==
    \/ SCopyDatabase \/ SCopyStorage \/ SImport \/ SImportRest \/ SImportFails
    \/ RestoreDatabase \/ RestoreObjects \/ DropFirst
    \/ Establish \/ MakeG2 \/ Seal \/ MakeNext \/ StartRetiring \/ DropCanonical \/ DropDir
    \/ PromoteDir \/ PromoteG2 \/ Retired \/ StartTerminal
    \/ HideDir \/ DropSnap \/ DropTrash \/ SFinalize \/ Pass \/ Diagnose
    \/ AgainHide \/ AgainDropSnap \/ AgainDropTrash \/ AgainRest \/ AgainFinalize

ScratchNext == Prepare \/ SStep \/ TakeUp \/ SDie

ScratchSpec == ScratchInit /\ [][ScratchNext]_scratchVars
=============================================================================
