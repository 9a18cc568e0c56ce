--------------------------- MODULE RecoveryPhases ---------------------------
(***************************************************************************)
(* The phase file that protects every destructive step of the history      *)
(* migration (apps/api/src/history-migration/formal-recovery-state.ts),    *)
(* shared by the rehearsal on a scratch database and the formal import.    *)
(***************************************************************************)
EXTENDS Naturals

CONSTANT MaxFaults  \* bound: errors and process deaths in a behaviour

ASSUME FaultsAssumption == MaxFaults \in Nat

(* What a database or an object directory holds: nothing, the data as it   *)
(* was, a part of the import, the whole import.                            *)
Contents == {"none", "original", "partial", "imported"}

AllowedTransitions ==
    {<<"pre_backup", "backup_create_pending">>,
     <<"backup_create_pending", "backup_verified">>,
     <<"backup_create_pending", "backup_failed">>,
     <<"backup_verified", "import_started">>,
     <<"import_started", "import_verified">>,
     <<"import_started", "rollback_pending">>,
     <<"import_verified", "cleanup_pending">>,
     <<"cleanup_pending", "success_committed">>,
     <<"cleanup_pending", "rollback_pending">>,
     <<"cleanup_pending", "finalization_refused">>,
     <<"success_committed", "finalized">>,
     <<"success_committed", "cleanup_incomplete">>,
     <<"cleanup_incomplete", "finalized">>,
     <<"rollback_pending", "rollback_verified">>,
     <<"rollback_pending", "rollback_refused">>,
     <<"rollback_verified", "cleanup_pending">>,
     <<"rollback_verified", "finalization_refused">>,
     <<"rollback_refused", "finalization_refused">>,
     <<"scratch_established", "scratch_g2_sealed">>,
     <<"scratch_g2_sealed", "scratch_retiring_g1">>,
     <<"scratch_retiring_g1", "scratch_g1_retired">>,
     <<"scratch_g1_retired", "scratch_terminal_pending">>,
     <<"scratch_terminal_pending", "scratch_finalized">>,
     <<"scratch_terminal_pending", "scratch_terminal_failed">>,
     <<"scratch_terminal_failed", "scratch_finalized">>}

Phases == {"none", "pre_backup", "scratch_established"} \cup {move[2] : move \in AllowedTransitions}

(* advanceFormalRecoveryPhase reads the file, refuses unless it holds the  *)
(* expected phase and the move is allowed, and replaces it by a rename     *)
(* that is synced afterwards: an error may come before or after the new    *)
(* phase is on disk.  The two results below are what a caller can meet.    *)
Legal(current, from, to) == current = from /\ <<from, to>> \in AllowedTransitions
AfterError(current, to) == {current, to}
=============================================================================
