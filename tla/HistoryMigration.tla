-------------------------- MODULE HistoryMigration --------------------------
(***************************************************************************)
(* The history migration as the operator runs it: the rehearsal on a       *)
(* scratch database, and after its PASS receipt the formal import, whose   *)
(* gate (validateFormalGate in formal-runner-core.ts) demands the receipt. *)
(***************************************************************************)
EXTENDS ScratchAcceptance, FormalImport

HistoryInit == ScratchInit /\ FormalInit

HistoryNext ==
    \/ ScratchNext /\ UNCHANGED formalVars
    \/ sreceipt = "PASS" /\ FormalNext /\ UNCHANGED scratchVars

HistorySpec == HistoryInit /\ [][HistoryNext]_<<scratchVars, formalVars>>

(* A process that is not killed goes on, and the operator calls the        *)
(* clean-ups again until they went through.                                *)
HistoryFairness ==
    /\ WF_scratchVars(SStep) /\ WF_scratchVars(TakeUp)
    /\ \A r \in Runs : WF_formalVars(Step(r)) /\ WF_formalVars(Resume(r))

-----------------------------------------------------------------------------

(* TypeOK: contents, phases and verdicts are the ones the files can hold.  *)
HistoryTypeOK ==
    /\ {sdb, sstore, snap, g2, dir, next, trash, db, storage, backup} \subseteq Contents
    /\ {sphase, record} \subseteq Phases
    /\ snapshot \in [Runs -> Contents] /\ phase \in [Runs -> Phases]
    /\ receipt \in [Runs -> {"none", "PASS", "FAIL"}]
    /\ marker \in [Runs -> BOOLEAN] /\ evidence \in [Runs -> BOOLEAN]
    /\ nonces.claimed \subseteq Approvals /\ nonces.logged \subseteq nonces.claimed
    /\ restored \in [Runs -> SUBSET {"storage", "database"}]

(* From the first write of the rehearsal's import to its final deletion    *)
(* there is always a database copy and a directory copy of one generation  *)
(* ("at least one verified pair in every phase", formal-recovery-state.ts, *)
(* phase2-runner-core.ts).                                                 *)
PairSurvives ==
    \/ sdb \in {"none", "original"}
    \/ sphase \in {"scratch_terminal_pending", "scratch_terminal_failed", "scratch_finalized"}
    \/ \E c \in {"original", "imported"} : c \in {snap, g2} /\ c \in {dir, next}

(* At rest, the phase scratch_terminal_failed says that a complete pair    *)
(* can be restored ("never claim a rollback that is not possible any       *)
(* more", completePhase2TerminalCleanup), and so that the clean-up can be  *)
(* taken up again.                                                         *)
FailedMeansRecoverable ==
    spc = "over" /\ sphase = "scratch_terminal_failed" =>
        "imported" \in {snap, g2} /\ "imported" \in {dir, trash}

CommittedPhases == {"success_committed", "cleanup_incomplete", "finalized"}

(* The data of the archive's target is never lost: a committed run left    *)
(* the whole import behind, and until there is one the original database   *)
(* and the original objects exist somewhere.                               *)
DataSurvives ==
    IF \E r \in Runs : phase[r] \in CommittedPhases
    THEN db = "imported" /\ storage = "imported"
    ELSE /\ "original" \in {db, backup}
         /\ "original" \in {storage} \cup {snapshot[r] : r \in Runs}

(* Neither the rehearsal nor the formal run ever holds the only copy of    *)
(* something in its hands.                                                 *)
CopiesSurvive == PairSurvives /\ DataSurvives

(* A FAIL receipt never stands beside a PASS marker or a commit, and when  *)
(* it says that everything was restored, it was, until a later run starts. *)
RefusalIsTrue ==
    \A r \in Runs :
        receipt[r] = "FAIL" =>
            /\ ~marker[r] /\ phase[r] \notin CommittedPhases
            /\ \/ ~RestoredAll(r)
               \/ db = "original" /\ storage = "original"
               \/ \E q \in Runs \ {r} : phase[q] \notin {"none", "pre_backup"}

(* Two runs never act under the same approval (consumeFormalApprovalNonce).*)
NonceOnce ==
    \A r, q \in Runs :
        r # q /\ uses[r] = uses[q] => phase[r] = "none" \/ phase[q] = "none"

(* The types, the single use of an approval, and receipts that are true.   *)
HistoryInv == HistoryTypeOK /\ NonceOnce /\ RefusalIsTrue

(* A clean-up that stopped after the commit, or in the rehearsal after the *)
(* database copy was gone, ends once the operator repeats it.              *)
CleanupsEnd ==
    /\ \A r \in Runs :
           (pc[r] = "over" /\ phase[r] \in CommittedPhases /\ receipt[r] = "PASS")
               ~> (phase[r] = "finalized" /\ snapshot[r] = "none")
    /\ (spc = "over" /\ sphase = "scratch_terminal_pending" /\ record = sphase)
           ~> (sphase = "scratch_finalized" /\ copies = <<"none", "none", "none", "none", "none">>)
=============================================================================
