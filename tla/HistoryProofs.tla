---------------------------- MODULE HistoryProofs ----------------------------
(***************************************************************************)
(* Proofs about the migration of the history, for every value of the       *)
(* constants: the rehearsal on scratch copies, the import into production, *)
(* and the import of a batch of packages by any number of importers.  For  *)
(* each: the inductive invariant, a lemma per kind of step, the theorem.   *)
(***************************************************************************)
EXTENDS HistoryMigration, BatchImport, WellFoundedInduction, TLAPS

-----------------------------------------------------------------------------
(* The rehearsal.  What the copies hold is told by the step the process    *)
(* stands at; where it has stopped, by the pair of copies that is left.    *)
ScratchLabels ==
    {"idle", "copy_database", "copy_storage", "import", "import_rest", "restore_database",
     "restore_objects", "restore_objects_only", "drop_first", "over", "established", "make_g2",
     "to_sealed", "make_next", "to_retiring", "drop_canonical", "drop_dir", "promote_dir",
     "promote_g2", "to_retired", "to_terminal", "hide_dir", "drop_snap", "drop_trash",
     "to_finalized", "receipt", "diagnose", "diagnose_terminal", "again_hide", "again_drop_snap",
     "again_drop_trash", "again_rest", "again_to_finalized"}

FinalPhases == {"scratch_terminal_pending", "scratch_terminal_failed", "scratch_finalized"}

ScratchTypes ==
    /\ sdb \in Contents /\ sstore \in Contents /\ snap \in Contents /\ g2 \in Contents
    /\ dir \in Contents /\ next \in Contents /\ trash \in Contents
    /\ sphase \in Phases /\ record \in Phases /\ spc \in ScratchLabels

Stage ==
    /\ spc \in {"idle", "copy_database", "copy_storage"} => sstore = "original"
    /\ spc = "idle" => sdb = "none"
    /\ spc \in {"copy_database", "copy_storage", "restore_objects", "drop_first"} => sdb = "original"
    /\ spc = "copy_storage" => snap = "original"
    /\ spc \in {"import", "import_rest", "restore_database", "restore_objects",
                "restore_objects_only", "established", "make_g2", "to_sealed", "make_next",
                "to_retiring"} => snap = "original" /\ dir = "original"
    /\ spc \in {"established", "make_g2", "to_sealed", "make_next"} =>
           sdb = "imported" /\ sstore = "imported"
    /\ spc \in {"to_sealed", "make_next", "to_retiring", "drop_canonical", "drop_dir", "promote_dir",
                "promote_g2"} =>
           g2 = "imported"
    /\ spc \in {"to_retiring", "drop_canonical", "drop_dir", "promote_dir"} => next = "imported"
    /\ spc = "promote_g2" => dir = "imported"
    /\ spc \in {"to_retired", "to_terminal"} => snap = "imported" /\ dir = "imported"
    /\ spc \in {"hide_dir", "drop_snap", "drop_trash", "to_finalized", "receipt", "diagnose_terminal",
                "again_hide", "again_drop_snap", "again_drop_trash", "again_rest",
                "again_to_finalized"} => sphase \in FinalPhases

ScratchIInv == ScratchTypes /\ Stage /\ PairSurvives

LEMMA PhaseNames ==
    /\ \A from, to : <<from, to>> \in AllowedTransitions => to \in Phases
    /\ {"none", "pre_backup", "scratch_established", "scratch_terminal_failed", "scratch_finalized"}
           \subseteq Phases
<1>1. ASSUME NEW from, NEW to, <<from, to>> \in AllowedTransitions
      PROVE  to \in Phases
  <2>1. <<from, to>>[2] = to
    OBVIOUS
  <2>. QED BY <1>1, <2>1 DEF Phases
<1>2. /\ <<"scratch_terminal_pending", "scratch_terminal_failed">> \in AllowedTransitions
      /\ <<"scratch_terminal_pending", "scratch_finalized">> \in AllowedTransitions
  BY DEF AllowedTransitions
<1>. QED BY <1>1, <1>2 DEF Phases

(* A phase move of the rehearsal: where it may lead.                       *)
LEMMA ScratchMoves ==
    ASSUME ScratchIInv, NEW at, NEW from, NEW to, NEW done \in ScratchLabels,
           done # "diagnose_terminal", SMoves(at, from, to, done)
    PROVE  /\ spc = at /\ sphase = from
           /\ \/ sphase' = to /\ spc' = done
              \/ sphase' \in {from, to} /\ spc' \in {"diagnose", "diagnose_terminal"}
           /\ spc' = "diagnose_terminal" =>
                  spc \in {"hide_dir", "drop_snap", "drop_trash", "to_finalized"}
           /\ spc' \in ScratchLabels /\ sphase' \in Phases
           /\ UNCHANGED <<sdb, sstore, snap, g2, dir, next, trash, record, sreceipt>>
<1>1. from \in Phases /\ to \in Phases
  BY PhaseNames DEF SMoves, Legal, ScratchIInv, ScratchTypes
<1>2. spc = at /\ sphase = from /\ UNCHANGED <<sdb, sstore, snap, g2, dir, next, trash, record, sreceipt>>
  BY DEF SMoves, SAt, Legal, copies
<1>3. CASE sphase' = to /\ spc' = done
  BY <1>1, <1>2, <1>3 DEF ScratchLabels
<1>4. CASE Broken /\ sphase' \in {from, to}
  <2>1. /\ spc' \in {"diagnose", "diagnose_terminal"}
        /\ spc' = "diagnose_terminal" => spc \in {"hide_dir", "drop_snap", "drop_trash", "to_finalized"}
    BY <1>4 DEF Broken, SGoto
  <2>. QED BY <1>1, <1>2, <1>4, <2>1 DEF ScratchLabels
<1>. QED BY <1>3, <1>4 DEF SMoves, SGoto, AfterError

LEMMA ScratchInitially == ScratchInit => ScratchIInv
BY PhaseNames DEF ScratchInit, ScratchIInv, ScratchTypes, ScratchLabels, Stage, PairSurvives, Contents

LEMMA ScratchKeeps == ScratchIInv /\ [ScratchNext]_scratchVars => ScratchIInv'
<1>. SUFFICES ASSUME ScratchIInv, [ScratchNext]_scratchVars
              PROVE  ScratchIInv'
  OBVIOUS
<1>. USE PhaseNames DEF ScratchIInv, ScratchTypes, Stage, PairSurvives
<1>0. CASE UNCHANGED scratchVars
  BY <1>0 DEF scratchVars
<1>1. CASE Prepare
  BY <1>1 DEF Prepare, SAt, SGoto, SFaulty, Broken, AfterError, copies, ScratchLabels, FinalPhases, Contents
<1>2. CASE SCopyDatabase
  BY <1>2 DEF SCopyDatabase, SAt, SGoto, SFaulty, Broken, AfterError, copies, ScratchLabels, FinalPhases, Contents
<1>3. CASE SCopyStorage
  BY <1>3 DEF SCopyStorage, SAt, SGoto, SFaulty, Broken, AfterError, copies, ScratchLabels, FinalPhases, Contents
<1>4. CASE SImport
  BY <1>4 DEF SImport, SAt, SGoto, SFaulty, Broken, AfterError, copies, ScratchLabels, FinalPhases, Contents
<1>5. CASE SImportRest
  BY <1>5 DEF SImportRest, SAt, SGoto, SFaulty, Broken, AfterError, copies, ScratchLabels, FinalPhases, Contents
<1>6. CASE SImportFails
  BY <1>6 DEF SImportFails, SAt, SGoto, SFaulty, Broken, AfterError, copies, ScratchLabels, FinalPhases, Contents
<1>7. CASE RestoreDatabase
  BY <1>7 DEF RestoreDatabase, SAt, SGoto, SFaulty, Broken, AfterError, copies, ScratchLabels, FinalPhases, Contents
<1>8. CASE RestoreObjects
  BY <1>8 DEF RestoreObjects, SAt, SGoto, SFaulty, Broken, AfterError, copies, ScratchLabels, FinalPhases, Contents
<1>9. CASE DropFirst
  BY <1>9 DEF DropFirst, SAt, SGoto, SFaulty, Broken, AfterError, copies, ScratchLabels, FinalPhases, Contents
<1>10. CASE Establish
  BY <1>10 DEF Establish, SAt, SGoto, SFaulty, Broken, AfterError, copies, ScratchLabels, FinalPhases, Contents
<1>11. CASE MakeG2
  BY <1>11 DEF MakeG2, SAt, SGoto, SFaulty, Broken, AfterError, copies, ScratchLabels, FinalPhases, Contents
<1>12. CASE MakeNext
  BY <1>12 DEF MakeNext, SAt, SGoto, SFaulty, Broken, AfterError, copies, ScratchLabels, FinalPhases, Contents
<1>13. CASE DropCanonical
  BY <1>13 DEF DropCanonical, SAt, SGoto, SFaulty, Broken, AfterError, copies, ScratchLabels, FinalPhases, Contents
<1>14. CASE DropDir
  BY <1>14 DEF DropDir, SAt, SGoto, SFaulty, Broken, AfterError, copies, ScratchLabels, FinalPhases, Contents
<1>15. CASE PromoteDir
  BY <1>15 DEF PromoteDir, SAt, SGoto, SFaulty, Broken, AfterError, copies, ScratchLabels, FinalPhases, Contents
<1>16. CASE PromoteG2
  BY <1>16 DEF PromoteG2, SAt, SGoto, SFaulty, Broken, AfterError, copies, ScratchLabels, FinalPhases, Contents
<1>17. CASE HideDir
  BY <1>17 DEF HideDir, SAt, SGoto, SFaulty, Broken, AfterError, copies, ScratchLabels, FinalPhases, Contents
<1>18. CASE DropSnap
  BY <1>18 DEF DropSnap, SAt, SGoto, SFaulty, Broken, AfterError, copies, ScratchLabels, FinalPhases, Contents
<1>19. CASE DropTrash
  BY <1>19 DEF DropTrash, SAt, SGoto, SFaulty, Broken, AfterError, copies, ScratchLabels, FinalPhases, Contents
<1>20. CASE Pass
  BY <1>20 DEF Pass, SAt, SGoto, SFaulty, Broken, AfterError, copies, ScratchLabels, FinalPhases, Contents
<1>21. CASE Diagnose
  BY <1>21 DEF Diagnose, SAt, SGoto, SFaulty, Broken, AfterError, copies, ProbedSnapshot, ScratchLabels, FinalPhases, Contents
<1>22. CASE TakeUp
  BY <1>22 DEF TakeUp, SAt, SGoto, SFaulty, Broken, AfterError, copies, Takeable, ScratchLabels, FinalPhases, Contents
<1>23. CASE AgainHide
  BY <1>23 DEF AgainHide, SAt, SGoto, SFaulty, Broken, AfterError, copies, ProbedSnapshot, ScratchLabels, FinalPhases, Contents
<1>24. CASE AgainDropSnap
  BY <1>24 DEF AgainDropSnap, SAt, SGoto, SFaulty, Broken, AfterError, copies, ScratchLabels, FinalPhases, Contents
<1>25. CASE AgainDropTrash
  BY <1>25 DEF AgainDropTrash, SAt, SGoto, SFaulty, Broken, AfterError, copies, ScratchLabels, FinalPhases, Contents
<1>26. CASE AgainRest
  BY <1>26 DEF AgainRest, SAt, SGoto, SFaulty, Broken, AfterError, copies, ScratchLabels, FinalPhases, Contents
<1>27. CASE AgainFinalize
  BY <1>27 DEF AgainFinalize, SAt, SGoto, SFaulty, Broken, AfterError, copies, ScratchLabels, FinalPhases, Contents
<1>28. CASE SDie
  BY <1>28 DEF SDie, SAt, SGoto, SFaulty, Broken, AfterError, copies, ScratchLabels, FinalPhases, Contents
<1>29. CASE Seal
  <2>1. /\ spc = "to_sealed" /\ sphase = "scratch_established"
        /\ \/ sphase' = "scratch_g2_sealed" /\ spc' = "make_next"
           \/ sphase' \in {"scratch_established", "scratch_g2_sealed"} /\ spc' \in {"diagnose", "diagnose_terminal"}
        /\ spc' = "diagnose_terminal" => spc \in {"hide_dir", "drop_snap", "drop_trash", "to_finalized"}
        /\ spc' \in ScratchLabels /\ sphase' \in Phases
        /\ UNCHANGED <<sdb, sstore, snap, g2, dir, next, trash, record, sreceipt>>
    BY <1>29, ScratchMoves DEF Seal, ScratchLabels
  <2>. QED BY <2>1 DEF FinalPhases
<1>30. CASE StartRetiring
  <2>1. /\ spc = "to_retiring" /\ sphase = "scratch_g2_sealed"
        /\ \/ sphase' = "scratch_retiring_g1" /\ spc' = "drop_canonical"
           \/ sphase' \in {"scratch_g2_sealed", "scratch_retiring_g1"} /\ spc' \in {"diagnose", "diagnose_terminal"}
        /\ spc' = "diagnose_terminal" => spc \in {"hide_dir", "drop_snap", "drop_trash", "to_finalized"}
        /\ spc' \in ScratchLabels /\ sphase' \in Phases
        /\ UNCHANGED <<sdb, sstore, snap, g2, dir, next, trash, record, sreceipt>>
    BY <1>30, ScratchMoves DEF StartRetiring, ScratchLabels
  <2>. QED BY <2>1 DEF FinalPhases
<1>31. CASE Retired
  <2>1. /\ spc = "to_retired" /\ sphase = "scratch_retiring_g1"
        /\ \/ sphase' = "scratch_g1_retired" /\ spc' = "to_terminal"
           \/ sphase' \in {"scratch_retiring_g1", "scratch_g1_retired"} /\ spc' \in {"diagnose", "diagnose_terminal"}
        /\ spc' = "diagnose_terminal" => spc \in {"hide_dir", "drop_snap", "drop_trash", "to_finalized"}
        /\ spc' \in ScratchLabels /\ sphase' \in Phases
        /\ UNCHANGED <<sdb, sstore, snap, g2, dir, next, trash, record, sreceipt>>
    BY <1>31, ScratchMoves DEF Retired, ScratchLabels
  <2>. QED BY <2>1 DEF FinalPhases
<1>32. CASE StartTerminal
  <2>1. /\ spc = "to_terminal" /\ sphase = "scratch_g1_retired"
        /\ \/ sphase' = "scratch_terminal_pending" /\ spc' = "hide_dir"
           \/ sphase' \in {"scratch_g1_retired", "scratch_terminal_pending"} /\ spc' \in {"diagnose", "diagnose_terminal"}
        /\ spc' = "diagnose_terminal" => spc \in {"hide_dir", "drop_snap", "drop_trash", "to_finalized"}
        /\ spc' \in ScratchLabels /\ sphase' \in Phases
        /\ UNCHANGED <<sdb, sstore, snap, g2, dir, next, trash, record, sreceipt>>
    BY <1>32, ScratchMoves DEF StartTerminal, ScratchLabels
  <2>. QED BY <2>1 DEF FinalPhases
<1>33. CASE SFinalize
  <2>1. /\ spc = "to_finalized" /\ sphase = "scratch_terminal_pending"
        /\ \/ sphase' = "scratch_finalized" /\ spc' = "receipt"
           \/ sphase' \in {"scratch_terminal_pending", "scratch_finalized"} /\ spc' \in {"diagnose", "diagnose_terminal"}
        /\ spc' = "diagnose_terminal" => spc \in {"hide_dir", "drop_snap", "drop_trash", "to_finalized"}
        /\ spc' \in ScratchLabels /\ sphase' \in Phases
        /\ UNCHANGED <<sdb, sstore, snap, g2, dir, next, trash, record, sreceipt>>
    BY <1>33, ScratchMoves DEF SFinalize, ScratchLabels
  <2>. QED BY <2>1 DEF FinalPhases
<1>. QED BY <1>0, <1>1, <1>2, <1>3, <1>4, <1>5, <1>6, <1>7, <1>8, <1>9, <1>10, <1>11, <1>12, <1>13, <1>14, <1>15, <1>16, <1>17, <1>18, <1>19, <1>20, <1>21, <1>22, <1>23, <1>24, <1>25, <1>26, <1>27, <1>28, <1>29, <1>30, <1>31, <1>32, <1>33 DEF ScratchNext, SStep

-----------------------------------------------------------------------------
(* The formal run.  A run works once it has claimed its approval and until *)
(* it is over; what database and copies hold is told by the step at which  *)
(* it stands.                                                              *)
Compared  == {"to_backup", "copy_database", "copy_storage", "undo_database", "undo_storage",
              "to_backup_failed", "backup_made", "evidence", "to_import"}
Importing == {"import", "import_rows", "import_rest", "to_rollback"}
Complete  == {"to_verified", "to_cleanup", "pass_receipt", "pass_marker", "commit"}
Retiring  == {"retire_early", "to_rollback_late"}
Cleaning == {"drop_backup", "drop_snapshot", "to_finalized", "to_incomplete", "again_drop_backup",
              "again_drop_snapshot", "again_to_finalized"}
Restoring == {"restore_storage", "drop_target", "create_target", "retire", "to_verdict"}
Refusing  == {"drop_copies", "fail_receipt", "to_closing", "to_refused", "to_refused_unproved"}
Labels    == {"idle", "claim", "over", "log", "prestate"} \cup Compared \cup Importing \cup Complete
             \cup Retiring \cup Cleaning \cup Restoring \cup Refusing

Working(r) == pc[r] \notin {"idle", "claim", "over"}

FormalTypes ==
    /\ db \in Contents /\ storage \in Contents /\ backup \in Contents
    /\ snapshot \in [Runs -> Contents] /\ phase \in [Runs -> Phases]
    /\ receipt \in [Runs -> {"none", "PASS", "FAIL"}]
    /\ marker \in [Runs -> BOOLEAN] /\ evidence \in [Runs -> BOOLEAN]
    /\ DOMAIN nonces = {"claimed", "logged"}
    /\ nonces = [claimed |-> nonces.claimed, logged |-> nonces.logged]
    /\ nonces.claimed \subseteq Approvals /\ nonces.logged \subseteq nonces.claimed
    /\ approved \in [Approvals -> Contents \cup {Unsigned}]
    /\ uses \in [Runs -> Approvals]
    /\ restored \in [Runs -> SUBSET {"storage", "database"}]
    /\ pc \in [Runs -> Labels]

(* The phase on disk at each step.                                         *)
PhaseFacts(r) ==
    /\ pc[r] \in {"idle", "claim", "log"} => phase[r] = "none"
    /\ pc[r] \in {"prestate", "to_backup"} => phase[r] = "pre_backup"
    /\ pc[r] \in Compared \ {"to_backup", "evidence", "to_import"} => phase[r] = "backup_create_pending"
    /\ pc[r] \in {"evidence", "to_import"} => phase[r] = "backup_verified"
    /\ pc[r] \in Importing \cup {"to_verified"} => phase[r] = "import_started"
    /\ pc[r] = "to_cleanup" => phase[r] = "import_verified"
    /\ pc[r] \in {"pass_receipt", "pass_marker", "commit"} => phase[r] = "cleanup_pending"
    /\ pc[r] \in Retiring => phase[r] \in {"cleanup_pending", "success_committed"}
    /\ pc[r] \in Cleaning => phase[r] \in CommittedPhases
    /\ pc[r] \in Restoring => phase[r] = "rollback_pending"
    /\ pc[r] \in {"drop_copies", "to_closing"} => phase[r] = "rollback_verified"
    /\ pc[r] = "fail_receipt" =>
           phase[r] = IF RestoredAll(r) THEN "rollback_verified" ELSE "rollback_refused"
    /\ pc[r] = "to_refused" => phase[r] \in {"rollback_verified", "cleanup_pending"}
    /\ pc[r] = "to_refused_unproved" => phase[r] = "rollback_refused"

(* What is restored has been restored by this run.                         *)
Truly(r) == /\ "storage" \in restored[r] => storage = "original"
            /\ "database" \in restored[r] => db = "original"

(* What database, storage and copies hold at each step.                    *)
DataFacts(r) ==
    /\ pc[r] \in Compared => db = "original" /\ storage = "original"
    /\ pc[r] \in {"copy_storage", "backup_made", "evidence", "to_import"} \cup Importing \cup Complete
                 \cup Retiring \cup Restoring /\ phase[r] \notin CommittedPhases =>
           backup = "original"
    /\ pc[r] \in {"backup_made", "evidence", "to_import"} \cup Importing \cup Complete
                 \cup Retiring \cup Restoring /\ phase[r] \notin CommittedPhases =>
           snapshot[r] = "original"
    /\ pc[r] \in Complete \cup Retiring => db = "imported" /\ storage = "imported"
    /\ pc[r] \in {"idle", "claim", "log", "prestate", "restore_storage"} \cup Compared \cup Importing
                 \cup Complete \cup Retiring => restored[r] = {}
    /\ pc[r] \in Restoring \cup {"drop_copies", "fail_receipt"} => Truly(r)
    /\ pc[r] \in {"drop_target", "create_target"} => "database" \notin restored[r]
    /\ pc[r] = "drop_copies" => RestoredAll(r)
    /\ pc[r] \in {"to_verdict"} \cup Refusing => ~marker[r]
    /\ receipt[r] = "FAIL" => /\ pc[r] \in {"to_closing", "to_refused", "to_refused_unproved", "over"}
                              /\ ~marker[r]
                              /\ phase[r] \in {"rollback_verified", "rollback_refused",
                                               "cleanup_pending", "finalization_refused"}
    /\ pc[r] # "idle" => approved[uses[r]] = "original"

(* A run that has claimed its approval, now or before.                     *)
Passed(r)  == Working(r) \/ phase[r] # "none"
Fresh(a)   == approved[a] # Unsigned /\ a \notin nonces.claimed
Decided(r) == phase[r] \in CommittedPhases

OneAtATime ==
    /\ \A r, q \in Runs : Working(r) /\ Working(q) => r = q
    /\ \A a \in Approvals, r \in Runs : Fresh(a) => ~Working(r) /\ ~Decided(r)
    /\ \A a, b \in Approvals : Fresh(a) /\ Fresh(b) => a = b
    /\ \A r, q \in Runs : Decided(r) /\ (Working(q) \/ Decided(q)) => r = q
    /\ \A r \in Runs : Passed(r) => uses[r] \in nonces.claimed
    /\ \A r, q \in Runs : Passed(r) /\ Passed(q) /\ uses[r] = uses[q] => r = q
    /\ \A a \in Approvals : approved[a] \in {Unsigned, "original"}

Refused(r) ==
    receipt[r] = "FAIL" =>
        /\ ~marker[r] /\ phase[r] \notin CommittedPhases
        /\ \/ ~RestoredAll(r)
           \/ db = "original" /\ storage = "original"
           \/ \E q \in Runs \ {r} : phase[q] \notin {"none", "pre_backup"}

FormalIInv ==
    /\ FormalTypes /\ OneAtATime /\ DataSurvives
    /\ \A r \in Runs : PhaseFacts(r) /\ DataFacts(r) /\ Refused(r)

HistoryIInv == ScratchIInv /\ FormalIInv

-----------------------------------------------------------------------------
(* A step of a working run leaves the others alone: none of them works.    *)
Alone(r) ==
    /\ \A q \in Runs \ {r} : /\ pc'[q] = pc[q] /\ snapshot'[q] = snapshot[q] /\ phase'[q] = phase[q]
                             /\ receipt'[q] = receipt[q] /\ marker'[q] = marker[q]
                             /\ evidence'[q] = evidence[q] /\ restored'[q] = restored[q]
    /\ UNCHANGED <<approved, uses>> /\ nonces'.claimed = nonces.claimed

LEMMA OthersKeep ==
    ASSUME FormalIInv, NEW r \in Runs, Working(r), Alone(r), FormalTypes', DataSurvives',
           PhaseFacts(r)', DataFacts(r)', Refused(r)',
           phase'[r] \in {"none", "pre_backup"} =>
               phase[r] \in {"none", "pre_backup"} /\ db' = db /\ storage' = storage
    PROVE  FormalIInv'
<1>1. \A q \in Runs : q # r => ~Working(q) /\ ~Working(q)'
  BY DEF FormalIInv, OneAtATime, Working, Alone
<1>2. \A q \in Runs : q # r => ~Decided(q)
  BY DEF FormalIInv, OneAtATime
<1>3. uses[r] \in nonces.claimed /\ \A a \in Approvals : ~Fresh(a) /\ ~Fresh(a)'
  BY DEF FormalIInv, OneAtATime, Alone, Fresh, Passed
<1>4. OneAtATime'
  <2>1. \A q \in Runs : q # r => ~Decided(q)' /\ (Passed(q)' <=> Passed(q))
    BY <1>1, <1>2 DEF Decided, Passed, Alone
  <2>2. Passed(r)
    BY DEF Passed
  <2>3. \A q, p \in Runs : Passed(q)' /\ Passed(p)' /\ uses'[q] = uses'[p] => q = p
    BY <2>1, <2>2 DEF FormalIInv, OneAtATime, Alone
  <2>4. \A q \in Runs : Passed(q)' => uses'[q] \in nonces'.claimed
    BY <1>3, <2>1 DEF FormalIInv, OneAtATime, Alone
  <2>5. \A a \in Approvals : approved'[a] \in {Unsigned, "original"}
    BY DEF FormalIInv, OneAtATime, Alone
  <2>. QED BY <1>1, <1>3, <2>1, <2>3, <2>4, <2>5 DEF OneAtATime
<1>5. ASSUME NEW q \in Runs, q # r
      PROVE  PhaseFacts(q)' /\ DataFacts(q)' /\ Refused(q)'
  <2>1. /\ pc'[q] = pc[q] /\ snapshot'[q] = snapshot[q] /\ phase'[q] = phase[q]
        /\ receipt'[q] = receipt[q] /\ marker'[q] = marker[q] /\ restored'[q] = restored[q]
        /\ approved' = approved /\ uses' = uses /\ pc[q] \in {"idle", "claim", "over"}
    BY <1>1, <1>5 DEF Alone, Working
  <2>2. PhaseFacts(q) /\ DataFacts(q) /\ Refused(q)
    BY DEF FormalIInv
  <2>3. PhaseFacts(q)'
    BY <2>1, <2>2 DEF PhaseFacts, Compared, Importing, Retiring, Cleaning, Restoring
  <2>4. DataFacts(q)'
    BY <2>1, <2>2 DEF DataFacts, Compared, Importing, Complete, Retiring, Restoring, Refusing
  <2>5. \A p \in Runs \ {q} : phase[p] \notin {"none", "pre_backup"} => phase'[p] \notin {"none", "pre_backup"}
    BY DEF Alone
  <2>6. phase'[r] \in {"none", "pre_backup"} => db' = db /\ storage' = storage
    OBVIOUS
  <2>7. RestoredAll(q)' <=> RestoredAll(q)
    BY <2>1 DEF RestoredAll
  <2>. QED BY <1>5, <2>1, <2>2, <2>3, <2>4, <2>5, <2>6, <2>7 DEF Refused
<1>. QED BY <1>4, <1>5 DEF FormalIInv

(* The data survive a step of an undecided run when an original is left of *)
(* both halves, or when the step touches neither data nor copies.          *)
LEMMA OriginalsLeft ==
    ASSUME FormalIInv, NEW r \in Runs, Working(r), Alone(r), ~Decided(r), ~Decided(r)',
           \/ "original" \in {db', backup'}
           \/ db' = db /\ backup' = backup,
           \/ "original" \in {storage', snapshot'[r]}
           \/ storage' = storage /\ snapshot'[r] = snapshot[r]
    PROVE  DataSurvives'
<1>1. \A q \in Runs : ~Decided(q) /\ ~Decided(q)'
  BY DEF FormalIInv, OneAtATime, Alone, Decided
<1>2. /\ "original" \in {db, backup}
      /\ storage = "original" \/ \E q \in Runs : snapshot[q] = "original"
  BY <1>1 DEF FormalIInv, DataSurvives, Decided
<1>3. storage' = "original" \/ \E q \in Runs : snapshot'[q] = "original"
  <2>1. CASE "original" \in {storage', snapshot'[r]}
    BY <2>1
  <2>2. CASE storage' = storage /\ snapshot'[r] = snapshot[r]
    BY <1>2, <2>2 DEF Alone
  <2>. QED BY <2>1, <2>2
<1>4. "original" \in {db', backup'}
  BY <1>2
<1>. QED BY <1>1, <1>3, <1>4 DEF DataSurvives, Decided

LEMMA CommitLeft ==
    ASSUME FormalIInv, NEW r \in Runs, Decided(r)', db' = "imported", storage' = "imported"
    PROVE  DataSurvives'
BY DEF DataSurvives, Decided

(* A phase move of the formal run: where it may lead.                      *)
Moved(r, at, from, to, done, failed) ==
    /\ pc[r] = at
    /\ \/ phase[r] = from /\ phase'[r] = to /\ pc'[r] = done
       \/ phase'[r] = phase[r] /\ pc'[r] = failed
       \/ phase[r] = from /\ phase'[r] = to /\ pc'[r] = failed
    /\ db' = db /\ storage' = storage /\ backup' = backup /\ snapshot' = snapshot
    /\ receipt' = receipt /\ marker' = marker /\ restored' = restored
    /\ approved' = approved /\ uses' = uses
    /\ RestoredAll(r)' <=> RestoredAll(r)

LEMMA FormalMoves ==
    ASSUME FormalIInv, NEW r \in Runs, NEW at, NEW from, NEW to,
           NEW done \in Labels, NEW failed \in Labels, Moves(r, at, from, to, done, failed)
    PROVE  FormalTypes' /\ Alone(r) /\ Moved(r, at, from, to, done, failed)
<1>1. /\ pc[r] = at /\ FormalTypes /\ Advance(r, from, to, done, failed)
      /\ UNCHANGED <<db, storage, backup, snapshot, receipt, marker, evidence, nonces, approved, uses, restored>>
  BY DEF Moves, FormalIInv
<1>2. PICK l \in {done, failed} : pc' = [pc EXCEPT ![r] = l]
  BY <1>1 DEF Advance, Goto
<1>3. PICK p \in Phases : phase' = [phase EXCEPT ![r] = p]
  <2>1. CASE UNCHANGED phase
    <3>1. phase' = [phase EXCEPT ![r] = phase[r]] /\ phase[r] \in Phases
      BY <1>1, <2>1 DEF FormalTypes
    <3>. QED BY <3>1
  <2>2. CASE Legal(phase[r], from, to) /\ \E ph \in {from, to} : phase' = [phase EXCEPT ![r] = ph]
    <3>1. from \in Phases /\ to \in Phases
      BY <1>1, <2>2, PhaseNames DEF Legal, FormalTypes
    <3>. QED BY <2>2, <3>1
  <2>. QED BY <1>1, <2>1, <2>2 DEF Advance, AfterError
<1>4. pc'[r] = l /\ phase'[r] = p /\ FormalTypes'
  BY <1>1, <1>2, <1>3 DEF FormalTypes
<1>5. Alone(r)
  BY <1>1, <1>2, <1>3 DEF Alone, FormalTypes
<1>6. \/ phase[r] = from /\ phase'[r] = to /\ pc'[r] = done
      \/ phase'[r] = phase[r] /\ pc'[r] = failed
      \/ phase[r] = from /\ phase'[r] = to /\ pc'[r] = failed
  BY <1>1, <1>4 DEF Advance, Goto, Legal, AfterError, FormalTypes
<1>. QED BY <1>1, <1>4, <1>5, <1>6 DEF Moved, RestoredAll

(* A phase move needs only what the new step says of phase and data.       *)
LEMMA MoveKeeps ==
    ASSUME FormalIInv, NEW r \in Runs, NEW at, NEW from, NEW to, NEW done, NEW failed,
           FormalTypes', Alone(r), Moved(r, at, from, to, done, failed), Working(r),
           to \notin {"none", "pre_backup"}, phase[r] # "none", PhaseFacts(r)', DataFacts(r)', Refused(r)',
           \/ ~Decided(r) /\ ~Decided(r)'
           \/ Decided(r) /\ Decided(r)'
           \/ Decided(r)' /\ db = "imported" /\ storage = "imported"
    PROVE  FormalIInv'
<1>1. phase'[r] \in {phase[r], to} /\ db' = db /\ storage' = storage /\ backup' = backup /\ snapshot' = snapshot
  BY DEF Moved
<1>2. DataSurvives'
  <2>1. CASE ~Decided(r) /\ ~Decided(r)'
    BY <1>1, <2>1, OriginalsLeft
  <2>2. CASE Decided(r)
    <3>1. Decided(r)' /\ db = "imported" /\ storage = "imported"
      BY <1>1, <2>2 DEF FormalIInv, DataSurvives, Decided
    <3>. QED BY <1>1, <3>1, CommitLeft
  <2>3. CASE Decided(r)' /\ db = "imported" /\ storage = "imported"
    BY <1>1, <2>3, CommitLeft
  <2>. QED BY <2>1, <2>2, <2>3
<1>. QED BY <1>1, <1>2, OthersKeep

LEMMA RefusedKeeps ==
    ASSUME FormalIInv, NEW r \in Runs, Alone(r), receipt'[r] = "FAIL" => receipt[r] = "FAIL" /\ ~marker'[r],
           db' = db, storage' = storage, restored' = restored,
           receipt'[r] = "FAIL" => phase'[r] \notin CommittedPhases
    PROVE  Refused(r)'
<1>1. RestoredAll(r)' <=> RestoredAll(r)
  BY DEF RestoredAll
<1>2. \A q \in Runs \ {r} : phase'[q] = phase[q]
  BY DEF Alone
<1>. QED BY <1>1, <1>2 DEF FormalIInv, Refused

(* The phase moves of a run, one after the other.                          *)
LEMMA PhaseMovesKeep ==
    ASSUME FormalIInv, NEW r \in Runs,
           \/ StartBackup(r) \/ BackupFailed(r) \/ BackupMade(r) \/ StartImport(r)
           \/ ImportVerified(r) \/ StartCommit(r) \/ Commit(r) \/ Finalize(r)
           \/ CleanupIncomplete(r) \/ StartRollback(r) \/ Verdict(r) \/ CloseRefused(r)
    PROVE  FormalIInv'
<1>0. FormalTypes /\ PhaseFacts(r) /\ DataFacts(r) /\ Refused(r)
  BY DEF FormalIInv
<1>1. CASE Moves(r, "to_backup", "pre_backup", "backup_create_pending", "copy_database", "over")
  <2>1. /\ "copy_database" \in Labels /\ "over" \in Labels
        /\ "backup_create_pending" \notin {"none", "pre_backup"}
    BY DEF Labels, Compared, Importing, Complete, Retiring, Cleaning, Restoring, Refusing
  <2>2. FormalTypes' /\ Alone(r) /\ Moved(r, "to_backup", "pre_backup", "backup_create_pending", "copy_database", "over")
    BY <1>1, <2>1, FormalMoves
  <2>3. pc[r] = "to_backup" /\ Working(r) /\ phase[r] # "none"
    BY <1>0, <2>2 DEF Moved, Working, PhaseFacts, Compared, Importing, Retiring, Cleaning, Restoring, CommittedPhases
  <2>4. PhaseFacts(r)'
    BY <1>0, <1>1, <2>2, <2>3 DEF Moved, PhaseFacts, Compared, Importing, Retiring, Cleaning, Restoring, CommittedPhases
  <2>5. DataFacts(r)'
    BY <1>0, <1>1, <2>2, <2>3 DEF Moved, DataFacts, Truly, PhaseFacts, Compared, Importing, Complete, Retiring, Cleaning, Restoring, Refusing, CommittedPhases
  <2>6. Refused(r)'
    <3>1. receipt'[r] = "FAIL" => receipt[r] = "FAIL" /\ ~marker'[r] /\ phase'[r] \notin CommittedPhases
      BY <2>2, <2>5 DEF Moved, DataFacts, CommittedPhases
    <3>. QED BY <2>2, <3>1, RefusedKeeps DEF Moved
  <2>7. \/ ~Decided(r) /\ ~Decided(r)'
        \/ Decided(r) /\ Decided(r)'
        \/ Decided(r)' /\ db = "imported" /\ storage = "imported"
    BY <1>0, <2>2, <2>3 DEF Moved, Decided, PhaseFacts, DataFacts, Compared, Importing, Complete, Retiring, Cleaning, Restoring, CommittedPhases
  <2>. QED BY <2>1, <2>2, <2>3, <2>4, <2>5, <2>6, <2>7, MoveKeeps
<1>2. CASE Moves(r, "to_backup_failed", "backup_create_pending", "backup_failed", "over", "over")
  <2>1. /\ "over" \in Labels /\ "over" \in Labels
        /\ "backup_failed" \notin {"none", "pre_backup"}
    BY DEF Labels, Compared, Importing, Complete, Retiring, Cleaning, Restoring, Refusing
  <2>2. FormalTypes' /\ Alone(r) /\ Moved(r, "to_backup_failed", "backup_create_pending", "backup_failed", "over", "over")
    BY <1>2, <2>1, FormalMoves
  <2>3. pc[r] = "to_backup_failed" /\ Working(r) /\ phase[r] # "none"
    BY <1>0, <2>2 DEF Moved, Working, PhaseFacts, Compared, Importing, Retiring, Cleaning, Restoring, CommittedPhases
  <2>4. PhaseFacts(r)'
    BY <1>0, <1>2, <2>2, <2>3 DEF Moved, PhaseFacts, Compared, Importing, Retiring, Cleaning, Restoring, CommittedPhases
  <2>5. DataFacts(r)'
    BY <1>0, <1>2, <2>2, <2>3 DEF Moved, DataFacts, Truly, PhaseFacts, Compared, Importing, Complete, Retiring, Cleaning, Restoring, Refusing, CommittedPhases
  <2>6. Refused(r)'
    <3>1. receipt'[r] = "FAIL" => receipt[r] = "FAIL" /\ ~marker'[r] /\ phase'[r] \notin CommittedPhases
      BY <2>2, <2>5 DEF Moved, DataFacts, CommittedPhases
    <3>. QED BY <2>2, <3>1, RefusedKeeps DEF Moved
  <2>7. \/ ~Decided(r) /\ ~Decided(r)'
        \/ Decided(r) /\ Decided(r)'
        \/ Decided(r)' /\ db = "imported" /\ storage = "imported"
    BY <1>0, <2>2, <2>3 DEF Moved, Decided, PhaseFacts, DataFacts, Compared, Importing, Complete, Retiring, Cleaning, Restoring, CommittedPhases
  <2>. QED BY <2>1, <2>2, <2>3, <2>4, <2>5, <2>6, <2>7, MoveKeeps
<1>3. CASE Moves(r, "backup_made", "backup_create_pending", "backup_verified", "evidence", "over")
  <2>1. /\ "evidence" \in Labels /\ "over" \in Labels
        /\ "backup_verified" \notin {"none", "pre_backup"}
    BY DEF Labels, Compared, Importing, Complete, Retiring, Cleaning, Restoring, Refusing
  <2>2. FormalTypes' /\ Alone(r) /\ Moved(r, "backup_made", "backup_create_pending", "backup_verified", "evidence", "over")
    BY <1>3, <2>1, FormalMoves
  <2>3. pc[r] = "backup_made" /\ Working(r) /\ phase[r] # "none"
    BY <1>0, <2>2 DEF Moved, Working, PhaseFacts, Compared, Importing, Retiring, Cleaning, Restoring, CommittedPhases
  <2>4. PhaseFacts(r)'
    BY <1>0, <1>3, <2>2, <2>3 DEF Moved, PhaseFacts, Compared, Importing, Retiring, Cleaning, Restoring, CommittedPhases
  <2>5. DataFacts(r)'
    BY <1>0, <1>3, <2>2, <2>3 DEF Moved, DataFacts, Truly, PhaseFacts, Compared, Importing, Complete, Retiring, Cleaning, Restoring, Refusing, CommittedPhases
  <2>6. Refused(r)'
    <3>1. receipt'[r] = "FAIL" => receipt[r] = "FAIL" /\ ~marker'[r] /\ phase'[r] \notin CommittedPhases
      BY <2>2, <2>5 DEF Moved, DataFacts, CommittedPhases
    <3>. QED BY <2>2, <3>1, RefusedKeeps DEF Moved
  <2>7. \/ ~Decided(r) /\ ~Decided(r)'
        \/ Decided(r) /\ Decided(r)'
        \/ Decided(r)' /\ db = "imported" /\ storage = "imported"
    BY <1>0, <2>2, <2>3 DEF Moved, Decided, PhaseFacts, DataFacts, Compared, Importing, Complete, Retiring, Cleaning, Restoring, CommittedPhases
  <2>. QED BY <2>1, <2>2, <2>3, <2>4, <2>5, <2>6, <2>7, MoveKeeps
<1>4. CASE Moves(r, "to_import", "backup_verified", "import_started", "import", "over")
  <2>1. /\ "import" \in Labels /\ "over" \in Labels
        /\ "import_started" \notin {"none", "pre_backup"}
    BY DEF Labels, Compared, Importing, Complete, Retiring, Cleaning, Restoring, Refusing
  <2>2. FormalTypes' /\ Alone(r) /\ Moved(r, "to_import", "backup_verified", "import_started", "import", "over")
    BY <1>4, <2>1, FormalMoves
  <2>3. pc[r] = "to_import" /\ Working(r) /\ phase[r] # "none"
    BY <1>0, <2>2 DEF Moved, Working, PhaseFacts, Compared, Importing, Retiring, Cleaning, Restoring, CommittedPhases
  <2>4. PhaseFacts(r)'
    BY <1>0, <1>4, <2>2, <2>3 DEF Moved, PhaseFacts, Compared, Importing, Retiring, Cleaning, Restoring, CommittedPhases
  <2>5. DataFacts(r)'
    BY <1>0, <1>4, <2>2, <2>3 DEF Moved, DataFacts, Truly, PhaseFacts, Compared, Importing, Complete, Retiring, Cleaning, Restoring, Refusing, CommittedPhases
  <2>6. Refused(r)'
    <3>1. receipt'[r] = "FAIL" => receipt[r] = "FAIL" /\ ~marker'[r] /\ phase'[r] \notin CommittedPhases
      BY <2>2, <2>5 DEF Moved, DataFacts, CommittedPhases
    <3>. QED BY <2>2, <3>1, RefusedKeeps DEF Moved
  <2>7. \/ ~Decided(r) /\ ~Decided(r)'
        \/ Decided(r) /\ Decided(r)'
        \/ Decided(r)' /\ db = "imported" /\ storage = "imported"
    BY <1>0, <2>2, <2>3 DEF Moved, Decided, PhaseFacts, DataFacts, Compared, Importing, Complete, Retiring, Cleaning, Restoring, CommittedPhases
  <2>. QED BY <2>1, <2>2, <2>3, <2>4, <2>5, <2>6, <2>7, MoveKeeps
<1>5. CASE Moves(r, "to_verified", "import_started", "import_verified", "to_cleanup", "over")
  <2>1. /\ "to_cleanup" \in Labels /\ "over" \in Labels
        /\ "import_verified" \notin {"none", "pre_backup"}
    BY DEF Labels, Compared, Importing, Complete, Retiring, Cleaning, Restoring, Refusing
  <2>2. FormalTypes' /\ Alone(r) /\ Moved(r, "to_verified", "import_started", "import_verified", "to_cleanup", "over")
    BY <1>5, <2>1, FormalMoves
  <2>3. pc[r] = "to_verified" /\ Working(r) /\ phase[r] # "none"
    BY <1>0, <2>2 DEF Moved, Working, PhaseFacts, Compared, Importing, Retiring, Cleaning, Restoring, CommittedPhases
  <2>4. PhaseFacts(r)'
    BY <1>0, <1>5, <2>2, <2>3 DEF Moved, PhaseFacts, Compared, Importing, Retiring, Cleaning, Restoring, CommittedPhases
  <2>5. DataFacts(r)'
    BY <1>0, <1>5, <2>2, <2>3 DEF Moved, DataFacts, Truly, PhaseFacts, Compared, Importing, Complete, Retiring, Cleaning, Restoring, Refusing, CommittedPhases
  <2>6. Refused(r)'
    <3>1. receipt'[r] = "FAIL" => receipt[r] = "FAIL" /\ ~marker'[r] /\ phase'[r] \notin CommittedPhases
      BY <2>2, <2>5 DEF Moved, DataFacts, CommittedPhases
    <3>. QED BY <2>2, <3>1, RefusedKeeps DEF Moved
  <2>7. \/ ~Decided(r) /\ ~Decided(r)'
        \/ Decided(r) /\ Decided(r)'
        \/ Decided(r)' /\ db = "imported" /\ storage = "imported"
    BY <1>0, <2>2, <2>3 DEF Moved, Decided, PhaseFacts, DataFacts, Compared, Importing, Complete, Retiring, Cleaning, Restoring, CommittedPhases
  <2>. QED BY <2>1, <2>2, <2>3, <2>4, <2>5, <2>6, <2>7, MoveKeeps
<1>6. CASE Moves(r, "to_cleanup", "import_verified", "cleanup_pending", "pass_receipt", "over")
  <2>1. /\ "pass_receipt" \in Labels /\ "over" \in Labels
        /\ "cleanup_pending" \notin {"none", "pre_backup"}
    BY DEF Labels, Compared, Importing, Complete, Retiring, Cleaning, Restoring, Refusing
  <2>2. FormalTypes' /\ Alone(r) /\ Moved(r, "to_cleanup", "import_verified", "cleanup_pending", "pass_receipt", "over")
    BY <1>6, <2>1, FormalMoves
  <2>3. pc[r] = "to_cleanup" /\ Working(r) /\ phase[r] # "none"
    BY <1>0, <2>2 DEF Moved, Working, PhaseFacts, Compared, Importing, Retiring, Cleaning, Restoring, CommittedPhases
  <2>4. PhaseFacts(r)'
    BY <1>0, <1>6, <2>2, <2>3 DEF Moved, PhaseFacts, Compared, Importing, Retiring, Cleaning, Restoring, CommittedPhases
  <2>5. DataFacts(r)'
    BY <1>0, <1>6, <2>2, <2>3 DEF Moved, DataFacts, Truly, PhaseFacts, Compared, Importing, Complete, Retiring, Cleaning, Restoring, Refusing, CommittedPhases
  <2>6. Refused(r)'
    <3>1. receipt'[r] = "FAIL" => receipt[r] = "FAIL" /\ ~marker'[r] /\ phase'[r] \notin CommittedPhases
      BY <2>2, <2>5 DEF Moved, DataFacts, CommittedPhases
    <3>. QED BY <2>2, <3>1, RefusedKeeps DEF Moved
  <2>7. \/ ~Decided(r) /\ ~Decided(r)'
        \/ Decided(r) /\ Decided(r)'
        \/ Decided(r)' /\ db = "imported" /\ storage = "imported"
    BY <1>0, <2>2, <2>3 DEF Moved, Decided, PhaseFacts, DataFacts, Compared, Importing, Complete, Retiring, Cleaning, Restoring, CommittedPhases
  <2>. QED BY <2>1, <2>2, <2>3, <2>4, <2>5, <2>6, <2>7, MoveKeeps
<1>7. CASE Moves(r, "commit", "cleanup_pending", "success_committed", "drop_backup", "retire_early")
  <2>1. /\ "drop_backup" \in Labels /\ "retire_early" \in Labels
        /\ "success_committed" \notin {"none", "pre_backup"}
    BY DEF Labels, Compared, Importing, Complete, Retiring, Cleaning, Restoring, Refusing
  <2>2. FormalTypes' /\ Alone(r) /\ Moved(r, "commit", "cleanup_pending", "success_committed", "drop_backup", "retire_early")
    BY <1>7, <2>1, FormalMoves
  <2>3. pc[r] = "commit" /\ Working(r) /\ phase[r] # "none"
    BY <1>0, <2>2 DEF Moved, Working, PhaseFacts, Compared, Importing, Retiring, Cleaning, Restoring, CommittedPhases
  <2>4. PhaseFacts(r)'
    BY <1>0, <1>7, <2>2, <2>3 DEF Moved, PhaseFacts, Compared, Importing, Retiring, Cleaning, Restoring, CommittedPhases
  <2>5. DataFacts(r)'
    BY <1>0, <1>7, <2>2, <2>3 DEF Moved, DataFacts, Truly, PhaseFacts, Compared, Importing, Complete, Retiring, Cleaning, Restoring, Refusing, CommittedPhases
  <2>6. Refused(r)'
    <3>1. receipt'[r] = "FAIL" => receipt[r] = "FAIL" /\ ~marker'[r] /\ phase'[r] \notin CommittedPhases
      BY <2>2, <2>5 DEF Moved, DataFacts, CommittedPhases
    <3>. QED BY <2>2, <3>1, RefusedKeeps DEF Moved
  <2>7. \/ ~Decided(r) /\ ~Decided(r)'
        \/ Decided(r) /\ Decided(r)'
        \/ Decided(r)' /\ db = "imported" /\ storage = "imported"
    BY <1>0, <2>2, <2>3 DEF Moved, Decided, PhaseFacts, DataFacts, Compared, Importing, Complete, Retiring, Cleaning, Restoring, CommittedPhases
  <2>. QED BY <2>1, <2>2, <2>3, <2>4, <2>5, <2>6, <2>7, MoveKeeps
<1>8. CASE Moves(r, "to_finalized", "success_committed", "finalized", "over", "to_incomplete")
  <2>1. /\ "over" \in Labels /\ "to_incomplete" \in Labels
        /\ "finalized" \notin {"none", "pre_backup"}
    BY DEF Labels, Compared, Importing, Complete, Retiring, Cleaning, Restoring, Refusing
  <2>2. FormalTypes' /\ Alone(r) /\ Moved(r, "to_finalized", "success_committed", "finalized", "over", "to_incomplete")
    BY <1>8, <2>1, FormalMoves
  <2>3. pc[r] = "to_finalized" /\ Working(r) /\ phase[r] # "none"
    BY <1>0, <2>2 DEF Moved, Working, PhaseFacts, Compared, Importing, Retiring, Cleaning, Restoring, CommittedPhases
  <2>4. PhaseFacts(r)'
    BY <1>0, <1>8, <2>2, <2>3 DEF Moved, PhaseFacts, Compared, Importing, Retiring, Cleaning, Restoring, CommittedPhases
  <2>5. DataFacts(r)'
    BY <1>0, <1>8, <2>2, <2>3 DEF Moved, DataFacts, Truly, PhaseFacts, Compared, Importing, Complete, Retiring, Cleaning, Restoring, Refusing, CommittedPhases
  <2>6. Refused(r)'
    <3>1. receipt'[r] = "FAIL" => receipt[r] = "FAIL" /\ ~marker'[r] /\ phase'[r] \notin CommittedPhases
      BY <2>2, <2>5 DEF Moved, DataFacts, CommittedPhases
    <3>. QED BY <2>2, <3>1, RefusedKeeps DEF Moved
  <2>7. \/ ~Decided(r) /\ ~Decided(r)'
        \/ Decided(r) /\ Decided(r)'
        \/ Decided(r)' /\ db = "imported" /\ storage = "imported"
    BY <1>0, <2>2, <2>3 DEF Moved, Decided, PhaseFacts, DataFacts, Compared, Importing, Complete, Retiring, Cleaning, Restoring, CommittedPhases
  <2>. QED BY <2>1, <2>2, <2>3, <2>4, <2>5, <2>6, <2>7, MoveKeeps
<1>9. CASE Moves(r, "again_to_finalized", phase[r], "finalized", "over", "over")
  <2>1. /\ "over" \in Labels /\ "over" \in Labels
        /\ "finalized" \notin {"none", "pre_backup"}
    BY DEF Labels, Compared, Importing, Complete, Retiring, Cleaning, Restoring, Refusing
  <2>2. FormalTypes' /\ Alone(r) /\ Moved(r, "again_to_finalized", phase[r], "finalized", "over", "over")
    BY <1>9, <2>1, FormalMoves
  <2>3. pc[r] = "again_to_finalized" /\ Working(r) /\ phase[r] # "none"
    BY <1>0, <2>2 DEF Moved, Working, PhaseFacts, Compared, Importing, Retiring, Cleaning, Restoring, CommittedPhases
  <2>4. PhaseFacts(r)'
    BY <1>0, <1>9, <2>2, <2>3 DEF Moved, PhaseFacts, Compared, Importing, Retiring, Cleaning, Restoring, CommittedPhases
  <2>5. DataFacts(r)'
    BY <1>0, <1>9, <2>2, <2>3 DEF Moved, DataFacts, Truly, PhaseFacts, Compared, Importing, Complete, Retiring, Cleaning, Restoring, Refusing, CommittedPhases
  <2>6. Refused(r)'
    <3>1. receipt'[r] = "FAIL" => receipt[r] = "FAIL" /\ ~marker'[r] /\ phase'[r] \notin CommittedPhases
      BY <2>2, <2>5 DEF Moved, DataFacts, CommittedPhases
    <3>. QED BY <2>2, <3>1, RefusedKeeps DEF Moved
  <2>7. \/ ~Decided(r) /\ ~Decided(r)'
        \/ Decided(r) /\ Decided(r)'
        \/ Decided(r)' /\ db = "imported" /\ storage = "imported"
    BY <1>0, <2>2, <2>3 DEF Moved, Decided, PhaseFacts, DataFacts, Compared, Importing, Complete, Retiring, Cleaning, Restoring, CommittedPhases
  <2>. QED BY <2>1, <2>2, <2>3, <2>4, <2>5, <2>6, <2>7, MoveKeeps
<1>10. CASE Moves(r, "to_incomplete", "success_committed", "cleanup_incomplete", "over", "over")
  <2>1. /\ "over" \in Labels /\ "over" \in Labels
        /\ "cleanup_incomplete" \notin {"none", "pre_backup"}
    BY DEF Labels, Compared, Importing, Complete, Retiring, Cleaning, Restoring, Refusing
  <2>2. FormalTypes' /\ Alone(r) /\ Moved(r, "to_incomplete", "success_committed", "cleanup_incomplete", "over", "over")
    BY <1>10, <2>1, FormalMoves
  <2>3. pc[r] = "to_incomplete" /\ Working(r) /\ phase[r] # "none"
    BY <1>0, <2>2 DEF Moved, Working, PhaseFacts, Compared, Importing, Retiring, Cleaning, Restoring, CommittedPhases
  <2>4. PhaseFacts(r)'
    BY <1>0, <1>10, <2>2, <2>3 DEF Moved, PhaseFacts, Compared, Importing, Retiring, Cleaning, Restoring, CommittedPhases
  <2>5. DataFacts(r)'
    BY <1>0, <1>10, <2>2, <2>3 DEF Moved, DataFacts, Truly, PhaseFacts, Compared, Importing, Complete, Retiring, Cleaning, Restoring, Refusing, CommittedPhases
  <2>6. Refused(r)'
    <3>1. receipt'[r] = "FAIL" => receipt[r] = "FAIL" /\ ~marker'[r] /\ phase'[r] \notin CommittedPhases
      BY <2>2, <2>5 DEF Moved, DataFacts, CommittedPhases
    <3>. QED BY <2>2, <3>1, RefusedKeeps DEF Moved
  <2>7. \/ ~Decided(r) /\ ~Decided(r)'
        \/ Decided(r) /\ Decided(r)'
        \/ Decided(r)' /\ db = "imported" /\ storage = "imported"
    BY <1>0, <2>2, <2>3 DEF Moved, Decided, PhaseFacts, DataFacts, Compared, Importing, Complete, Retiring, Cleaning, Restoring, CommittedPhases
  <2>. QED BY <2>1, <2>2, <2>3, <2>4, <2>5, <2>6, <2>7, MoveKeeps
<1>11. CASE Moves(r, "to_rollback", "import_started", "rollback_pending", "restore_storage", "over")
  <2>1. /\ "restore_storage" \in Labels /\ "over" \in Labels
        /\ "rollback_pending" \notin {"none", "pre_backup"}
    BY DEF Labels, Compared, Importing, Complete, Retiring, Cleaning, Restoring, Refusing
  <2>2. FormalTypes' /\ Alone(r) /\ Moved(r, "to_rollback", "import_started", "rollback_pending", "restore_storage", "over")
    BY <1>11, <2>1, FormalMoves
  <2>3. pc[r] = "to_rollback" /\ Working(r) /\ phase[r] # "none"
    BY <1>0, <2>2 DEF Moved, Working, PhaseFacts, Compared, Importing, Retiring, Cleaning, Restoring, CommittedPhases
  <2>4. PhaseFacts(r)'
    BY <1>0, <1>11, <2>2, <2>3 DEF Moved, PhaseFacts, Compared, Importing, Retiring, Cleaning, Restoring, CommittedPhases
  <2>5. DataFacts(r)'
    BY <1>0, <1>11, <2>2, <2>3 DEF Moved, DataFacts, Truly, PhaseFacts, Compared, Importing, Complete, Retiring, Cleaning, Restoring, Refusing, CommittedPhases
  <2>6. Refused(r)'
    <3>1. receipt'[r] = "FAIL" => receipt[r] = "FAIL" /\ ~marker'[r] /\ phase'[r] \notin CommittedPhases
      BY <2>2, <2>5 DEF Moved, DataFacts, CommittedPhases
    <3>. QED BY <2>2, <3>1, RefusedKeeps DEF Moved
  <2>7. \/ ~Decided(r) /\ ~Decided(r)'
        \/ Decided(r) /\ Decided(r)'
        \/ Decided(r)' /\ db = "imported" /\ storage = "imported"
    BY <1>0, <2>2, <2>3 DEF Moved, Decided, PhaseFacts, DataFacts, Compared, Importing, Complete, Retiring, Cleaning, Restoring, CommittedPhases
  <2>. QED BY <2>1, <2>2, <2>3, <2>4, <2>5, <2>6, <2>7, MoveKeeps
<1>12. CASE Moves(r, "to_rollback_late", "cleanup_pending", "rollback_pending", "restore_storage", "over")
  <2>1. /\ "restore_storage" \in Labels /\ "over" \in Labels
        /\ "rollback_pending" \notin {"none", "pre_backup"}
    BY DEF Labels, Compared, Importing, Complete, Retiring, Cleaning, Restoring, Refusing
  <2>2. FormalTypes' /\ Alone(r) /\ Moved(r, "to_rollback_late", "cleanup_pending", "rollback_pending", "restore_storage", "over")
    BY <1>12, <2>1, FormalMoves
  <2>3. pc[r] = "to_rollback_late" /\ Working(r) /\ phase[r] # "none"
    BY <1>0, <2>2 DEF Moved, Working, PhaseFacts, Compared, Importing, Retiring, Cleaning, Restoring, CommittedPhases
  <2>4. PhaseFacts(r)'
    BY <1>0, <1>12, <2>2, <2>3 DEF Moved, PhaseFacts, Compared, Importing, Retiring, Cleaning, Restoring, CommittedPhases
  <2>5. DataFacts(r)'
    BY <1>0, <1>12, <2>2, <2>3 DEF Moved, DataFacts, Truly, PhaseFacts, Compared, Importing, Complete, Retiring, Cleaning, Restoring, Refusing, CommittedPhases
  <2>6. Refused(r)'
    <3>1. receipt'[r] = "FAIL" => receipt[r] = "FAIL" /\ ~marker'[r] /\ phase'[r] \notin CommittedPhases
      BY <2>2, <2>5 DEF Moved, DataFacts, CommittedPhases
    <3>. QED BY <2>2, <3>1, RefusedKeeps DEF Moved
  <2>7. \/ ~Decided(r) /\ ~Decided(r)'
        \/ Decided(r) /\ Decided(r)'
        \/ Decided(r)' /\ db = "imported" /\ storage = "imported"
    BY <1>0, <2>2, <2>3 DEF Moved, Decided, PhaseFacts, DataFacts, Compared, Importing, Complete, Retiring, Cleaning, Restoring, CommittedPhases
  <2>. QED BY <2>1, <2>2, <2>3, <2>4, <2>5, <2>6, <2>7, MoveKeeps
<1>13. CASE RestoredAll(r) /\ Moves(r, "to_verdict", "rollback_pending", "rollback_verified", "drop_copies", "over")
  <2>1. /\ "drop_copies" \in Labels /\ "over" \in Labels
        /\ "rollback_verified" \notin {"none", "pre_backup"}
    BY DEF Labels, Compared, Importing, Complete, Retiring, Cleaning, Restoring, Refusing
  <2>2. FormalTypes' /\ Alone(r) /\ Moved(r, "to_verdict", "rollback_pending", "rollback_verified", "drop_copies", "over")
    BY <1>13, <2>1, FormalMoves
  <2>3. pc[r] = "to_verdict" /\ Working(r) /\ phase[r] # "none"
    BY <1>0, <2>2 DEF Moved, Working, PhaseFacts, Compared, Importing, Retiring, Cleaning, Restoring, CommittedPhases
  <2>4. PhaseFacts(r)'
    BY <1>0, <1>13, <2>2, <2>3 DEF Moved, PhaseFacts, Compared, Importing, Retiring, Cleaning, Restoring, CommittedPhases
  <2>5. DataFacts(r)'
    BY <1>0, <1>13, <2>2, <2>3 DEF Moved, DataFacts, Truly, PhaseFacts, Compared, Importing, Complete, Retiring, Cleaning, Restoring, Refusing, CommittedPhases
  <2>6. Refused(r)'
    <3>1. receipt'[r] = "FAIL" => receipt[r] = "FAIL" /\ ~marker'[r] /\ phase'[r] \notin CommittedPhases
      BY <2>2, <2>5 DEF Moved, DataFacts, CommittedPhases
    <3>. QED BY <2>2, <3>1, RefusedKeeps DEF Moved
  <2>7. \/ ~Decided(r) /\ ~Decided(r)'
        \/ Decided(r) /\ Decided(r)'
        \/ Decided(r)' /\ db = "imported" /\ storage = "imported"
    BY <1>0, <2>2, <2>3 DEF Moved, Decided, PhaseFacts, DataFacts, Compared, Importing, Complete, Retiring, Cleaning, Restoring, CommittedPhases
  <2>. QED BY <2>1, <2>2, <2>3, <2>4, <2>5, <2>6, <2>7, MoveKeeps
<1>14. CASE ~RestoredAll(r) /\ Moves(r, "to_verdict", "rollback_pending", "rollback_refused", "fail_receipt", "over")
  <2>1. /\ "fail_receipt" \in Labels /\ "over" \in Labels
        /\ "rollback_refused" \notin {"none", "pre_backup"}
    BY DEF Labels, Compared, Importing, Complete, Retiring, Cleaning, Restoring, Refusing
  <2>2. FormalTypes' /\ Alone(r) /\ Moved(r, "to_verdict", "rollback_pending", "rollback_refused", "fail_receipt", "over")
    BY <1>14, <2>1, FormalMoves
  <2>3. pc[r] = "to_verdict" /\ Working(r) /\ phase[r] # "none"
    BY <1>0, <2>2 DEF Moved, Working, PhaseFacts, Compared, Importing, Retiring, Cleaning, Restoring, CommittedPhases
  <2>4. PhaseFacts(r)'
    BY <1>0, <1>14, <2>2, <2>3 DEF Moved, PhaseFacts, Compared, Importing, Retiring, Cleaning, Restoring, CommittedPhases
  <2>5. DataFacts(r)'
    BY <1>0, <1>14, <2>2, <2>3 DEF Moved, DataFacts, Truly, PhaseFacts, Compared, Importing, Complete, Retiring, Cleaning, Restoring, Refusing, CommittedPhases
  <2>6. Refused(r)'
    <3>1. receipt'[r] = "FAIL" => receipt[r] = "FAIL" /\ ~marker'[r] /\ phase'[r] \notin CommittedPhases
      BY <2>2, <2>5 DEF Moved, DataFacts, CommittedPhases
    <3>. QED BY <2>2, <3>1, RefusedKeeps DEF Moved
  <2>7. \/ ~Decided(r) /\ ~Decided(r)'
        \/ Decided(r) /\ Decided(r)'
        \/ Decided(r)' /\ db = "imported" /\ storage = "imported"
    BY <1>0, <2>2, <2>3 DEF Moved, Decided, PhaseFacts, DataFacts, Compared, Importing, Complete, Retiring, Cleaning, Restoring, CommittedPhases
  <2>. QED BY <2>1, <2>2, <2>3, <2>4, <2>5, <2>6, <2>7, MoveKeeps
<1>15. CASE Moves(r, "to_closing", "rollback_verified", "cleanup_pending", "to_refused", "to_refused")
  <2>1. /\ "to_refused" \in Labels /\ "to_refused" \in Labels
        /\ "cleanup_pending" \notin {"none", "pre_backup"}
    BY DEF Labels, Compared, Importing, Complete, Retiring, Cleaning, Restoring, Refusing
  <2>2. FormalTypes' /\ Alone(r) /\ Moved(r, "to_closing", "rollback_verified", "cleanup_pending", "to_refused", "to_refused")
    BY <1>15, <2>1, FormalMoves
  <2>3. pc[r] = "to_closing" /\ Working(r) /\ phase[r] # "none"
    BY <1>0, <2>2 DEF Moved, Working, PhaseFacts, Compared, Importing, Retiring, Cleaning, Restoring, CommittedPhases
  <2>4. PhaseFacts(r)'
    BY <1>0, <1>15, <2>2, <2>3 DEF Moved, PhaseFacts, Compared, Importing, Retiring, Cleaning, Restoring, CommittedPhases
  <2>5. DataFacts(r)'
    BY <1>0, <1>15, <2>2, <2>3 DEF Moved, DataFacts, Truly, PhaseFacts, Compared, Importing, Complete, Retiring, Cleaning, Restoring, Refusing, CommittedPhases
  <2>6. Refused(r)'
    <3>1. receipt'[r] = "FAIL" => receipt[r] = "FAIL" /\ ~marker'[r] /\ phase'[r] \notin CommittedPhases
      BY <2>2, <2>5 DEF Moved, DataFacts, CommittedPhases
    <3>. QED BY <2>2, <3>1, RefusedKeeps DEF Moved
  <2>7. \/ ~Decided(r) /\ ~Decided(r)'
        \/ Decided(r) /\ Decided(r)'
        \/ Decided(r)' /\ db = "imported" /\ storage = "imported"
    BY <1>0, <2>2, <2>3 DEF Moved, Decided, PhaseFacts, DataFacts, Compared, Importing, Complete, Retiring, Cleaning, Restoring, CommittedPhases
  <2>. QED BY <2>1, <2>2, <2>3, <2>4, <2>5, <2>6, <2>7, MoveKeeps
<1>16. CASE Moves(r, "to_refused", "cleanup_pending", "finalization_refused", "over", "over")
  <2>1. /\ "over" \in Labels /\ "over" \in Labels
        /\ "finalization_refused" \notin {"none", "pre_backup"}
    BY DEF Labels, Compared, Importing, Complete, Retiring, Cleaning, Restoring, Refusing
  <2>2. FormalTypes' /\ Alone(r) /\ Moved(r, "to_refused", "cleanup_pending", "finalization_refused", "over", "over")
    BY <1>16, <2>1, FormalMoves
  <2>3. pc[r] = "to_refused" /\ Working(r) /\ phase[r] # "none"
    BY <1>0, <2>2 DEF Moved, Working, PhaseFacts, Compared, Importing, Retiring, Cleaning, Restoring, CommittedPhases
  <2>4. PhaseFacts(r)'
    BY <1>0, <1>16, <2>2, <2>3 DEF Moved, PhaseFacts, Compared, Importing, Retiring, Cleaning, Restoring, CommittedPhases
  <2>5. DataFacts(r)'
    BY <1>0, <1>16, <2>2, <2>3 DEF Moved, DataFacts, Truly, PhaseFacts, Compared, Importing, Complete, Retiring, Cleaning, Restoring, Refusing, CommittedPhases
  <2>6. Refused(r)'
    <3>1. receipt'[r] = "FAIL" => receipt[r] = "FAIL" /\ ~marker'[r] /\ phase'[r] \notin CommittedPhases
      BY <2>2, <2>5 DEF Moved, DataFacts, CommittedPhases
    <3>. QED BY <2>2, <3>1, RefusedKeeps DEF Moved
  <2>7. \/ ~Decided(r) /\ ~Decided(r)'
        \/ Decided(r) /\ Decided(r)'
        \/ Decided(r)' /\ db = "imported" /\ storage = "imported"
    BY <1>0, <2>2, <2>3 DEF Moved, Decided, PhaseFacts, DataFacts, Compared, Importing, Complete, Retiring, Cleaning, Restoring, CommittedPhases
  <2>. QED BY <2>1, <2>2, <2>3, <2>4, <2>5, <2>6, <2>7, MoveKeeps
<1>17. CASE Moves(r, "to_refused_unproved", "rollback_refused", "finalization_refused", "over", "over")
  <2>1. /\ "over" \in Labels /\ "over" \in Labels
        /\ "finalization_refused" \notin {"none", "pre_backup"}
    BY DEF Labels, Compared, Importing, Complete, Retiring, Cleaning, Restoring, Refusing
  <2>2. FormalTypes' /\ Alone(r) /\ Moved(r, "to_refused_unproved", "rollback_refused", "finalization_refused", "over", "over")
    BY <1>17, <2>1, FormalMoves
  <2>3. pc[r] = "to_refused_unproved" /\ Working(r) /\ phase[r] # "none"
    BY <1>0, <2>2 DEF Moved, Working, PhaseFacts, Compared, Importing, Retiring, Cleaning, Restoring, CommittedPhases
  <2>4. PhaseFacts(r)'
    BY <1>0, <1>17, <2>2, <2>3 DEF Moved, PhaseFacts, Compared, Importing, Retiring, Cleaning, Restoring, CommittedPhases
  <2>5. DataFacts(r)'
    BY <1>0, <1>17, <2>2, <2>3 DEF Moved, DataFacts, Truly, PhaseFacts, Compared, Importing, Complete, Retiring, Cleaning, Restoring, Refusing, CommittedPhases
  <2>6. Refused(r)'
    <3>1. receipt'[r] = "FAIL" => receipt[r] = "FAIL" /\ ~marker'[r] /\ phase'[r] \notin CommittedPhases
      BY <2>2, <2>5 DEF Moved, DataFacts, CommittedPhases
    <3>. QED BY <2>2, <3>1, RefusedKeeps DEF Moved
  <2>7. \/ ~Decided(r) /\ ~Decided(r)'
        \/ Decided(r) /\ Decided(r)'
        \/ Decided(r)' /\ db = "imported" /\ storage = "imported"
    BY <1>0, <2>2, <2>3 DEF Moved, Decided, PhaseFacts, DataFacts, Compared, Importing, Complete, Retiring, Cleaning, Restoring, CommittedPhases
  <2>. QED BY <2>1, <2>2, <2>3, <2>4, <2>5, <2>6, <2>7, MoveKeeps
<1>. QED BY <1>1, <1>2, <1>3, <1>4, <1>5, <1>6, <1>7, <1>8, <1>9, <1>10, <1>11, <1>12, <1>13, <1>14, <1>15, <1>16, <1>17 DEF StartBackup, BackupFailed, BackupMade, StartImport, ImportVerified, StartCommit, Commit, Finalize, CleanupIncomplete, StartRollback, Verdict, CloseRefused

(* The steps that touch data, copies or verdicts.                          *)
LEMMA EffectsKeep ==
    ASSUME FormalIInv, NEW r \in Runs,
           \/ LogNonce(r) \/ ComparePrestate(r) \/ CopyDatabase(r) \/ CopyStorage(r)
           \/ UndoDatabase(r) \/ UndoStorage(r) \/ WriteEvidence(r) \/ ImportObjects(r)
           \/ ImportRows(r) \/ ImportRest(r) \/ ImportFails(r) \/ PassReceipt(r) \/ PassMarker(r)
           \/ DropBackup(r) \/ DropSnapshot(r) \/ RestoreStorage(r) \/ DropTarget(r)
           \/ CreateTarget(r) \/ Retire(r) \/ DropCopies(r) \/ FailReceipt(r)
    PROVE  FormalIInv'
<1>0. FormalTypes /\ PhaseFacts(r) /\ DataFacts(r) /\ Refused(r)
  BY DEF FormalIInv
<1>1. CASE LogNonce(r)
  <2>1. Working(r)
    BY <1>1 DEF LogNonce, Working
  <2>2. FormalTypes'
    <3>1. /\ nonces = [claimed |-> nonces.claimed, logged |-> nonces.logged]
          /\ nonces' = [nonces EXCEPT !.logged = @ \cup {uses[r]}]
      BY <1>0, <1>1 DEF LogNonce, FormalTypes
    <3>2. nonces' = [claimed |-> nonces.claimed, logged |-> nonces.logged \cup {uses[r]}]
      BY <3>1
    <3>3. uses[r] \in nonces.claimed
      BY <2>1 DEF FormalIInv, OneAtATime, Passed
    <3>4. /\ nonces'.claimed \subseteq Approvals /\ nonces'.logged \subseteq nonces'.claimed
          /\ nonces' = [claimed |-> nonces'.claimed, logged |-> nonces'.logged]
          /\ DOMAIN nonces' = {"claimed", "logged"}
      BY <1>0, <3>2, <3>3 DEF FormalTypes
    <3>5. /\ pc' \in [Runs -> Labels] /\ phase' \in [Runs -> Phases]
      BY <1>0, <1>1, PhaseNames DEF LogNonce, Goto, FormalTypes, Labels, Compared, Importing, Complete, Retiring, Cleaning, Restoring, Refusing
    <3>. QED BY <1>0, <1>1, <3>4, <3>5 DEF LogNonce, FormalTypes
  <2>3. Alone(r)
    BY <1>0, <1>1 DEF LogNonce, Goto, Faulty, files, FormalTypes, Alone
  <2>4. PhaseFacts(r)' /\ phase'[r] # "none" /\ (phase'[r] = "pre_backup" => phase[r] \in {"none", "pre_backup"})
    BY <1>0, <1>1 DEF LogNonce, Goto, Faulty, files, FormalTypes, RestoredAll, PhaseFacts, Compared, Importing, Retiring, Cleaning, Restoring, CommittedPhases
  <2>5. DataFacts(r)'
    BY <1>0, <1>1 DEF LogNonce, Goto, Faulty, files, FormalTypes, DataFacts, Truly, RestoredAll, PhaseFacts, Compared, Importing, Complete, Retiring, Cleaning, Restoring, Refusing, CommittedPhases
  <2>6. Refused(r)'
    <3>1. receipt'[r] # "FAIL"
      BY <1>0, <1>1 DEF LogNonce, Goto, Faulty, files, FormalTypes, DataFacts
    <3>. QED BY <3>1 DEF Refused
  <2>7. DataSurvives'
    BY <1>0, <1>1, <2>1, <2>3, OriginalsLeft DEF LogNonce, Goto, Faulty, files, FormalTypes, Decided, DataFacts, Truly, RestoredAll, PhaseFacts, Compared, Importing, Complete, Retiring, Cleaning, Restoring, Refusing, CommittedPhases
  <2>8. phase'[r] = "pre_backup" => db' = db /\ storage' = storage
    BY <1>0, <1>1 DEF LogNonce, files, PhaseFacts, Importing, Restoring, Compared
  <2>. QED BY <2>1, <2>2, <2>3, <2>4, <2>5, <2>6, <2>7, <2>8, OthersKeep
<1>2. CASE ComparePrestate(r)
  <2>1. Working(r)
    BY <1>2 DEF ComparePrestate, Working
  <2>2. FormalTypes'
    BY <1>0, <1>2 DEF ComparePrestate, Goto, Faulty, files, FormalTypes, Contents, Labels, Compared, Importing, Complete, Retiring, Cleaning, Restoring, Refusing
  <2>3. Alone(r)
    BY <1>0, <1>2 DEF ComparePrestate, Goto, Faulty, files, FormalTypes, Alone
  <2>4. PhaseFacts(r)' /\ phase'[r] # "none" /\ (phase'[r] = "pre_backup" => phase[r] \in {"none", "pre_backup"})
    BY <1>0, <1>2 DEF ComparePrestate, Goto, Faulty, files, FormalTypes, RestoredAll, PhaseFacts, Compared, Importing, Retiring, Cleaning, Restoring, CommittedPhases
  <2>5. DataFacts(r)'
    BY <1>0, <1>2 DEF ComparePrestate, Goto, Faulty, files, FormalTypes, DataFacts, Truly, RestoredAll, PhaseFacts, Compared, Importing, Complete, Retiring, Cleaning, Restoring, Refusing, CommittedPhases
  <2>6. Refused(r)'
    <3>1. receipt'[r] # "FAIL"
      BY <1>0, <1>2 DEF ComparePrestate, Goto, Faulty, files, FormalTypes, DataFacts
    <3>. QED BY <3>1 DEF Refused
  <2>7. DataSurvives'
    BY <1>0, <1>2, <2>1, <2>3, OriginalsLeft DEF ComparePrestate, Goto, Faulty, files, FormalTypes, Decided, DataFacts, Truly, RestoredAll, PhaseFacts, Compared, Importing, Complete, Retiring, Cleaning, Restoring, Refusing, CommittedPhases
  <2>8. phase'[r] = "pre_backup" => db' = db /\ storage' = storage
    BY <1>0, <1>2 DEF ComparePrestate, files, PhaseFacts, Importing, Restoring, Compared
  <2>. QED BY <2>1, <2>2, <2>3, <2>4, <2>5, <2>6, <2>7, <2>8, OthersKeep
<1>3. CASE CopyDatabase(r)
  <2>1. Working(r)
    BY <1>3 DEF CopyDatabase, Working
  <2>2. FormalTypes'
    BY <1>0, <1>3 DEF CopyDatabase, Goto, Faulty, files, FormalTypes, Contents, Labels, Compared, Importing, Complete, Retiring, Cleaning, Restoring, Refusing
  <2>3. Alone(r)
    BY <1>0, <1>3 DEF CopyDatabase, Goto, Faulty, files, FormalTypes, Alone
  <2>4. PhaseFacts(r)' /\ phase'[r] # "none" /\ (phase'[r] = "pre_backup" => phase[r] \in {"none", "pre_backup"})
    BY <1>0, <1>3 DEF CopyDatabase, Goto, Faulty, files, FormalTypes, RestoredAll, PhaseFacts, Compared, Importing, Retiring, Cleaning, Restoring, CommittedPhases
  <2>5. DataFacts(r)'
    BY <1>0, <1>3 DEF CopyDatabase, Goto, Faulty, files, FormalTypes, DataFacts, Truly, RestoredAll, PhaseFacts, Compared, Importing, Complete, Retiring, Cleaning, Restoring, Refusing, CommittedPhases
  <2>6. Refused(r)'
    <3>1. receipt'[r] # "FAIL"
      BY <1>0, <1>3 DEF CopyDatabase, Goto, Faulty, files, FormalTypes, DataFacts
    <3>. QED BY <3>1 DEF Refused
  <2>7. DataSurvives'
    BY <1>0, <1>3, <2>1, <2>3, OriginalsLeft DEF CopyDatabase, Goto, Faulty, files, FormalTypes, Decided, DataFacts, Truly, RestoredAll, PhaseFacts, Compared, Importing, Complete, Retiring, Cleaning, Restoring, Refusing, CommittedPhases
  <2>8. phase'[r] = "pre_backup" => db' = db /\ storage' = storage
    BY <1>0, <1>3 DEF CopyDatabase, files, PhaseFacts, Importing, Restoring, Compared
  <2>. QED BY <2>1, <2>2, <2>3, <2>4, <2>5, <2>6, <2>7, <2>8, OthersKeep
<1>4. CASE CopyStorage(r)
  <2>1. Working(r)
    BY <1>4 DEF CopyStorage, Working
  <2>2. FormalTypes'
    BY <1>0, <1>4 DEF CopyStorage, Goto, Faulty, files, FormalTypes, Contents, Labels, Compared, Importing, Complete, Retiring, Cleaning, Restoring, Refusing
  <2>3. Alone(r)
    BY <1>0, <1>4 DEF CopyStorage, Goto, Faulty, files, FormalTypes, Alone
  <2>4. PhaseFacts(r)' /\ phase'[r] # "none" /\ (phase'[r] = "pre_backup" => phase[r] \in {"none", "pre_backup"})
    BY <1>0, <1>4 DEF CopyStorage, Goto, Faulty, files, FormalTypes, RestoredAll, PhaseFacts, Compared, Importing, Retiring, Cleaning, Restoring, CommittedPhases
  <2>5. DataFacts(r)'
    BY <1>0, <1>4 DEF CopyStorage, Goto, Faulty, files, FormalTypes, DataFacts, Truly, RestoredAll, PhaseFacts, Compared, Importing, Complete, Retiring, Cleaning, Restoring, Refusing, CommittedPhases
  <2>6. Refused(r)'
    <3>1. receipt'[r] # "FAIL"
      BY <1>0, <1>4 DEF CopyStorage, Goto, Faulty, files, FormalTypes, DataFacts
    <3>. QED BY <3>1 DEF Refused
  <2>7. DataSurvives'
    BY <1>0, <1>4, <2>1, <2>3, OriginalsLeft DEF CopyStorage, Goto, Faulty, files, FormalTypes, Decided, DataFacts, Truly, RestoredAll, PhaseFacts, Compared, Importing, Complete, Retiring, Cleaning, Restoring, Refusing, CommittedPhases
  <2>8. phase'[r] = "pre_backup" => db' = db /\ storage' = storage
    BY <1>0, <1>4 DEF CopyStorage, files, PhaseFacts, Importing, Restoring, Compared
  <2>. QED BY <2>1, <2>2, <2>3, <2>4, <2>5, <2>6, <2>7, <2>8, OthersKeep
<1>5. CASE UndoDatabase(r)
  <2>1. Working(r)
    BY <1>5 DEF UndoDatabase, Working
  <2>2. FormalTypes'
    BY <1>0, <1>5 DEF UndoDatabase, Goto, Faulty, files, FormalTypes, Contents, Labels, Compared, Importing, Complete, Retiring, Cleaning, Restoring, Refusing
  <2>3. Alone(r)
    BY <1>0, <1>5 DEF UndoDatabase, Goto, Faulty, files, FormalTypes, Alone
  <2>4. PhaseFacts(r)' /\ phase'[r] # "none" /\ (phase'[r] = "pre_backup" => phase[r] \in {"none", "pre_backup"})
    BY <1>0, <1>5 DEF UndoDatabase, Goto, Faulty, files, FormalTypes, RestoredAll, PhaseFacts, Compared, Importing, Retiring, Cleaning, Restoring, CommittedPhases
  <2>5. DataFacts(r)'
    BY <1>0, <1>5 DEF UndoDatabase, Goto, Faulty, files, FormalTypes, DataFacts, Truly, RestoredAll, PhaseFacts, Compared, Importing, Complete, Retiring, Cleaning, Restoring, Refusing, CommittedPhases
  <2>6. Refused(r)'
    <3>1. receipt'[r] # "FAIL"
      BY <1>0, <1>5 DEF UndoDatabase, Goto, Faulty, files, FormalTypes, DataFacts
    <3>. QED BY <3>1 DEF Refused
  <2>7. DataSurvives'
    BY <1>0, <1>5, <2>1, <2>3, OriginalsLeft DEF UndoDatabase, Goto, Faulty, files, FormalTypes, Decided, DataFacts, Truly, RestoredAll, PhaseFacts, Compared, Importing, Complete, Retiring, Cleaning, Restoring, Refusing, CommittedPhases
  <2>8. phase'[r] = "pre_backup" => db' = db /\ storage' = storage
    BY <1>0, <1>5 DEF UndoDatabase, files, PhaseFacts, Importing, Restoring, Compared
  <2>. QED BY <2>1, <2>2, <2>3, <2>4, <2>5, <2>6, <2>7, <2>8, OthersKeep
<1>6. CASE UndoStorage(r)
  <2>1. Working(r)
    BY <1>6 DEF UndoStorage, Working
  <2>2. FormalTypes'
    BY <1>0, <1>6 DEF UndoStorage, Goto, Faulty, files, FormalTypes, Contents, Labels, Compared, Importing, Complete, Retiring, Cleaning, Restoring, Refusing
  <2>3. Alone(r)
    BY <1>0, <1>6 DEF UndoStorage, Goto, Faulty, files, FormalTypes, Alone
  <2>4. PhaseFacts(r)' /\ phase'[r] # "none" /\ (phase'[r] = "pre_backup" => phase[r] \in {"none", "pre_backup"})
    BY <1>0, <1>6 DEF UndoStorage, Goto, Faulty, files, FormalTypes, RestoredAll, PhaseFacts, Compared, Importing, Retiring, Cleaning, Restoring, CommittedPhases
  <2>5. DataFacts(r)'
    BY <1>0, <1>6 DEF UndoStorage, Goto, Faulty, files, FormalTypes, DataFacts, Truly, RestoredAll, PhaseFacts, Compared, Importing, Complete, Retiring, Cleaning, Restoring, Refusing, CommittedPhases
  <2>6. Refused(r)'
    <3>1. receipt'[r] # "FAIL"
      BY <1>0, <1>6 DEF UndoStorage, Goto, Faulty, files, FormalTypes, DataFacts
    <3>. QED BY <3>1 DEF Refused
  <2>7. DataSurvives'
    BY <1>0, <1>6, <2>1, <2>3, OriginalsLeft DEF UndoStorage, Goto, Faulty, files, FormalTypes, Decided, DataFacts, Truly, RestoredAll, PhaseFacts, Compared, Importing, Complete, Retiring, Cleaning, Restoring, Refusing, CommittedPhases
  <2>8. phase'[r] = "pre_backup" => db' = db /\ storage' = storage
    BY <1>0, <1>6 DEF UndoStorage, files, PhaseFacts, Importing, Restoring, Compared
  <2>. QED BY <2>1, <2>2, <2>3, <2>4, <2>5, <2>6, <2>7, <2>8, OthersKeep
<1>7. CASE WriteEvidence(r)
  <2>1. Working(r)
    BY <1>7 DEF WriteEvidence, Working
  <2>2. FormalTypes'
    <3>1. evidence' \in [Runs -> BOOLEAN]
      BY <1>0, <1>7 DEF WriteEvidence, FormalTypes
    <3>2. pc' \in [Runs -> Labels]
      BY <1>0, <1>7 DEF WriteEvidence, Goto, FormalTypes, Labels, Compared, Importing, Complete, Retiring, Cleaning, Restoring, Refusing
    <3>. QED BY <1>0, <1>7, <3>1, <3>2 DEF WriteEvidence, FormalTypes
  <2>3. Alone(r)
    BY <1>0, <1>7 DEF WriteEvidence, Goto, Faulty, files, FormalTypes, Alone
  <2>4. PhaseFacts(r)' /\ phase'[r] # "none" /\ (phase'[r] = "pre_backup" => phase[r] \in {"none", "pre_backup"})
    BY <1>0, <1>7 DEF WriteEvidence, Goto, Faulty, files, FormalTypes, RestoredAll, PhaseFacts, Compared, Importing, Retiring, Cleaning, Restoring, CommittedPhases
  <2>5. DataFacts(r)'
    BY <1>0, <1>7 DEF WriteEvidence, Goto, Faulty, files, FormalTypes, DataFacts, Truly, RestoredAll, PhaseFacts, Compared, Importing, Complete, Retiring, Cleaning, Restoring, Refusing, CommittedPhases
  <2>6. Refused(r)'
    <3>1. receipt'[r] # "FAIL"
      BY <1>0, <1>7 DEF WriteEvidence, Goto, Faulty, files, FormalTypes, DataFacts
    <3>. QED BY <3>1 DEF Refused
  <2>7. DataSurvives'
    BY <1>0, <1>7, <2>1, <2>3, OriginalsLeft DEF WriteEvidence, Goto, Faulty, files, FormalTypes, Decided, DataFacts, Truly, RestoredAll, PhaseFacts, Compared, Importing, Complete, Retiring, Cleaning, Restoring, Refusing, CommittedPhases
  <2>8. phase'[r] = "pre_backup" => db' = db /\ storage' = storage
    BY <1>0, <1>7 DEF WriteEvidence, files, PhaseFacts, Importing, Restoring, Compared
  <2>. QED BY <2>1, <2>2, <2>3, <2>4, <2>5, <2>6, <2>7, <2>8, OthersKeep
<1>8. CASE ImportObjects(r)
  <2>1. Working(r)
    BY <1>8 DEF ImportObjects, Working
  <2>2. FormalTypes'
    BY <1>0, <1>8 DEF ImportObjects, Goto, Faulty, files, FormalTypes, Contents, Labels, Compared, Importing, Complete, Retiring, Cleaning, Restoring, Refusing
  <2>3. Alone(r)
    BY <1>0, <1>8 DEF ImportObjects, Goto, Faulty, files, FormalTypes, Alone
  <2>4. PhaseFacts(r)' /\ phase'[r] # "none" /\ (phase'[r] = "pre_backup" => phase[r] \in {"none", "pre_backup"})
    BY <1>0, <1>8 DEF ImportObjects, Goto, Faulty, files, FormalTypes, RestoredAll, PhaseFacts, Compared, Importing, Retiring, Cleaning, Restoring, CommittedPhases
  <2>5. DataFacts(r)'
    BY <1>0, <1>8 DEF ImportObjects, Goto, Faulty, files, FormalTypes, DataFacts, Truly, RestoredAll, PhaseFacts, Compared, Importing, Complete, Retiring, Cleaning, Restoring, Refusing, CommittedPhases
  <2>6. Refused(r)'
    <3>1. receipt'[r] # "FAIL"
      BY <1>0, <1>8 DEF ImportObjects, Goto, Faulty, files, FormalTypes, DataFacts
    <3>. QED BY <3>1 DEF Refused
  <2>7. DataSurvives'
    BY <1>0, <1>8, <2>1, <2>3, OriginalsLeft DEF ImportObjects, Goto, Faulty, files, FormalTypes, Decided, DataFacts, Truly, RestoredAll, PhaseFacts, Compared, Importing, Complete, Retiring, Cleaning, Restoring, Refusing, CommittedPhases
  <2>8. phase'[r] = "pre_backup" => db' = db /\ storage' = storage
    BY <1>0, <1>8 DEF ImportObjects, files, PhaseFacts, Importing, Restoring, Compared
  <2>. QED BY <2>1, <2>2, <2>3, <2>4, <2>5, <2>6, <2>7, <2>8, OthersKeep
<1>9. CASE ImportRows(r)
  <2>1. Working(r)
    BY <1>9 DEF ImportRows, Working
  <2>2. FormalTypes'
    BY <1>0, <1>9 DEF ImportRows, Goto, Faulty, files, FormalTypes, Contents, Labels, Compared, Importing, Complete, Retiring, Cleaning, Restoring, Refusing
  <2>3. Alone(r)
    BY <1>0, <1>9 DEF ImportRows, Goto, Faulty, files, FormalTypes, Alone
  <2>4. PhaseFacts(r)' /\ phase'[r] # "none" /\ (phase'[r] = "pre_backup" => phase[r] \in {"none", "pre_backup"})
    BY <1>0, <1>9 DEF ImportRows, Goto, Faulty, files, FormalTypes, RestoredAll, PhaseFacts, Compared, Importing, Retiring, Cleaning, Restoring, CommittedPhases
  <2>5. DataFacts(r)'
    BY <1>0, <1>9 DEF ImportRows, Goto, Faulty, files, FormalTypes, DataFacts, Truly, RestoredAll, PhaseFacts, Compared, Importing, Complete, Retiring, Cleaning, Restoring, Refusing, CommittedPhases
  <2>6. Refused(r)'
    <3>1. receipt'[r] # "FAIL"
      BY <1>0, <1>9 DEF ImportRows, Goto, Faulty, files, FormalTypes, DataFacts
    <3>. QED BY <3>1 DEF Refused
  <2>7. DataSurvives'
    BY <1>0, <1>9, <2>1, <2>3, OriginalsLeft DEF ImportRows, Goto, Faulty, files, FormalTypes, Decided, DataFacts, Truly, RestoredAll, PhaseFacts, Compared, Importing, Complete, Retiring, Cleaning, Restoring, Refusing, CommittedPhases
  <2>8. phase'[r] = "pre_backup" => db' = db /\ storage' = storage
    BY <1>0, <1>9 DEF ImportRows, files, PhaseFacts, Importing, Restoring, Compared
  <2>. QED BY <2>1, <2>2, <2>3, <2>4, <2>5, <2>6, <2>7, <2>8, OthersKeep
<1>10. CASE ImportRest(r)
  <2>1. Working(r)
    BY <1>10 DEF ImportRest, Working
  <2>2. FormalTypes'
    BY <1>0, <1>10 DEF ImportRest, Goto, Faulty, files, FormalTypes, Contents, Labels, Compared, Importing, Complete, Retiring, Cleaning, Restoring, Refusing
  <2>3. Alone(r)
    BY <1>0, <1>10 DEF ImportRest, Goto, Faulty, files, FormalTypes, Alone
  <2>4. PhaseFacts(r)' /\ phase'[r] # "none" /\ (phase'[r] = "pre_backup" => phase[r] \in {"none", "pre_backup"})
    BY <1>0, <1>10 DEF ImportRest, Goto, Faulty, files, FormalTypes, RestoredAll, PhaseFacts, Compared, Importing, Retiring, Cleaning, Restoring, CommittedPhases
  <2>5. DataFacts(r)'
    BY <1>0, <1>10 DEF ImportRest, Goto, Faulty, files, FormalTypes, DataFacts, Truly, RestoredAll, PhaseFacts, Compared, Importing, Complete, Retiring, Cleaning, Restoring, Refusing, CommittedPhases
  <2>6. Refused(r)'
    <3>1. receipt'[r] # "FAIL"
      BY <1>0, <1>10 DEF ImportRest, Goto, Faulty, files, FormalTypes, DataFacts
    <3>. QED BY <3>1 DEF Refused
  <2>7. DataSurvives'
    BY <1>0, <1>10, <2>1, <2>3, OriginalsLeft DEF ImportRest, Goto, Faulty, files, FormalTypes, Decided, DataFacts, Truly, RestoredAll, PhaseFacts, Compared, Importing, Complete, Retiring, Cleaning, Restoring, Refusing, CommittedPhases
  <2>8. phase'[r] = "pre_backup" => db' = db /\ storage' = storage
    BY <1>0, <1>10 DEF ImportRest, files, PhaseFacts, Importing, Restoring, Compared
  <2>. QED BY <2>1, <2>2, <2>3, <2>4, <2>5, <2>6, <2>7, <2>8, OthersKeep
<1>11. CASE ImportFails(r)
  <2>1. Working(r)
    BY <1>11 DEF ImportFails, Working
  <2>2. FormalTypes'
    BY <1>0, <1>11 DEF ImportFails, Goto, Faulty, files, FormalTypes, Contents, Labels, Compared, Importing, Complete, Retiring, Cleaning, Restoring, Refusing
  <2>3. Alone(r)
    BY <1>0, <1>11 DEF ImportFails, Goto, Faulty, files, FormalTypes, Alone
  <2>4. PhaseFacts(r)' /\ phase'[r] # "none" /\ (phase'[r] = "pre_backup" => phase[r] \in {"none", "pre_backup"})
    BY <1>0, <1>11 DEF ImportFails, Goto, Faulty, files, FormalTypes, RestoredAll, PhaseFacts, Compared, Importing, Retiring, Cleaning, Restoring, CommittedPhases
  <2>5. DataFacts(r)'
    BY <1>0, <1>11 DEF ImportFails, Goto, Faulty, files, FormalTypes, DataFacts, Truly, RestoredAll, PhaseFacts, Compared, Importing, Complete, Retiring, Cleaning, Restoring, Refusing, CommittedPhases
  <2>6. Refused(r)'
    <3>1. receipt'[r] # "FAIL"
      BY <1>0, <1>11 DEF ImportFails, Goto, Faulty, files, FormalTypes, DataFacts
    <3>. QED BY <3>1 DEF Refused
  <2>7. DataSurvives'
    BY <1>0, <1>11, <2>1, <2>3, OriginalsLeft DEF ImportFails, Goto, Faulty, files, FormalTypes, Decided, DataFacts, Truly, RestoredAll, PhaseFacts, Compared, Importing, Complete, Retiring, Cleaning, Restoring, Refusing, CommittedPhases
  <2>8. phase'[r] = "pre_backup" => db' = db /\ storage' = storage
    BY <1>0, <1>11 DEF ImportFails, files, PhaseFacts, Importing, Restoring, Compared
  <2>. QED BY <2>1, <2>2, <2>3, <2>4, <2>5, <2>6, <2>7, <2>8, OthersKeep
<1>12. CASE PassReceipt(r)
  <2>1. Working(r)
    BY <1>12 DEF PassReceipt, Working
  <2>2. FormalTypes'
    BY <1>0, <1>12 DEF PassReceipt, Goto, Faulty, files, FormalTypes, Contents, Labels, Compared, Importing, Complete, Retiring, Cleaning, Restoring, Refusing
  <2>3. Alone(r)
    BY <1>0, <1>12 DEF PassReceipt, Goto, Faulty, files, FormalTypes, Alone
  <2>4. PhaseFacts(r)' /\ phase'[r] # "none" /\ (phase'[r] = "pre_backup" => phase[r] \in {"none", "pre_backup"})
    BY <1>0, <1>12 DEF PassReceipt, Goto, Faulty, files, FormalTypes, RestoredAll, PhaseFacts, Compared, Importing, Retiring, Cleaning, Restoring, CommittedPhases
  <2>5. DataFacts(r)'
    BY <1>0, <1>12 DEF PassReceipt, Goto, Faulty, files, FormalTypes, DataFacts, Truly, RestoredAll, PhaseFacts, Compared, Importing, Complete, Retiring, Cleaning, Restoring, Refusing, CommittedPhases
  <2>6. Refused(r)'
    <3>1. receipt'[r] # "FAIL"
      BY <1>0, <1>12 DEF PassReceipt, Goto, Faulty, files, FormalTypes, DataFacts
    <3>. QED BY <3>1 DEF Refused
  <2>7. DataSurvives'
    BY <1>0, <1>12, <2>1, <2>3, OriginalsLeft DEF PassReceipt, Goto, Faulty, files, FormalTypes, Decided, DataFacts, Truly, RestoredAll, PhaseFacts, Compared, Importing, Complete, Retiring, Cleaning, Restoring, Refusing, CommittedPhases
  <2>8. phase'[r] = "pre_backup" => db' = db /\ storage' = storage
    BY <1>0, <1>12 DEF PassReceipt, files, PhaseFacts, Importing, Restoring, Compared
  <2>. QED BY <2>1, <2>2, <2>3, <2>4, <2>5, <2>6, <2>7, <2>8, OthersKeep
<1>13. CASE PassMarker(r)
  <2>1. Working(r)
    BY <1>13 DEF PassMarker, Working
  <2>2. FormalTypes'
    <3>1. marker' \in [Runs -> BOOLEAN]
      BY <1>0, <1>13 DEF PassMarker, FormalTypes
    <3>2. pc' \in [Runs -> Labels]
      BY <1>0, <1>13 DEF PassMarker, Goto, FormalTypes, Labels, Compared, Importing, Complete, Retiring, Cleaning, Restoring, Refusing
    <3>. QED BY <1>0, <1>13, <3>1, <3>2 DEF PassMarker, FormalTypes
  <2>3. Alone(r)
    BY <1>0, <1>13 DEF PassMarker, Goto, Faulty, files, FormalTypes, Alone
  <2>4. PhaseFacts(r)' /\ phase'[r] # "none" /\ (phase'[r] = "pre_backup" => phase[r] \in {"none", "pre_backup"})
    BY <1>0, <1>13 DEF PassMarker, Goto, Faulty, files, FormalTypes, RestoredAll, PhaseFacts, Compared, Importing, Retiring, Cleaning, Restoring, CommittedPhases
  <2>5. DataFacts(r)'
    BY <1>0, <1>13 DEF PassMarker, Goto, Faulty, files, FormalTypes, DataFacts, Truly, RestoredAll, PhaseFacts, Compared, Importing, Complete, Retiring, Cleaning, Restoring, Refusing, CommittedPhases
  <2>6. Refused(r)'
    <3>1. receipt'[r] # "FAIL"
      BY <1>0, <1>13 DEF PassMarker, Goto, Faulty, files, FormalTypes, DataFacts
    <3>. QED BY <3>1 DEF Refused
  <2>7. DataSurvives'
    BY <1>0, <1>13, <2>1, <2>3, OriginalsLeft DEF PassMarker, Goto, Faulty, files, FormalTypes, Decided, DataFacts, Truly, RestoredAll, PhaseFacts, Compared, Importing, Complete, Retiring, Cleaning, Restoring, Refusing, CommittedPhases
  <2>8. phase'[r] = "pre_backup" => db' = db /\ storage' = storage
    BY <1>0, <1>13 DEF PassMarker, files, PhaseFacts, Importing, Restoring, Compared
  <2>. QED BY <2>1, <2>2, <2>3, <2>4, <2>5, <2>6, <2>7, <2>8, OthersKeep
<1>14. CASE DropBackup(r)
  <2>1. Working(r)
    BY <1>14 DEF DropBackup, Working
  <2>2. FormalTypes'
    BY <1>0, <1>14 DEF DropBackup, Goto, Faulty, files, FormalTypes, Contents, Labels, Compared, Importing, Complete, Retiring, Cleaning, Restoring, Refusing
  <2>3. Alone(r)
    BY <1>0, <1>14 DEF DropBackup, Goto, Faulty, files, FormalTypes, Alone
  <2>4. PhaseFacts(r)' /\ phase'[r] # "none" /\ (phase'[r] = "pre_backup" => phase[r] \in {"none", "pre_backup"})
    BY <1>0, <1>14 DEF DropBackup, Goto, Faulty, files, FormalTypes, RestoredAll, PhaseFacts, Compared, Importing, Retiring, Cleaning, Restoring, CommittedPhases
  <2>5. DataFacts(r)'
    BY <1>0, <1>14 DEF DropBackup, Goto, Faulty, files, FormalTypes, DataFacts, Truly, RestoredAll, PhaseFacts, Compared, Importing, Complete, Retiring, Cleaning, Restoring, Refusing, CommittedPhases
  <2>6. Refused(r)'
    <3>1. receipt'[r] # "FAIL"
      BY <1>0, <1>14 DEF DropBackup, Goto, Faulty, files, FormalTypes, DataFacts
    <3>. QED BY <3>1 DEF Refused
  <2>7. DataSurvives'
    <3>1. Decided(r) /\ Decided(r)' /\ db' = db /\ storage' = storage
      BY <1>0, <1>14 DEF DropBackup, Goto, Faulty, files, Decided, PhaseFacts, Cleaning
    <3>. QED BY <3>1, CommitLeft DEF FormalIInv, DataSurvives, Decided
  <2>8. phase'[r] = "pre_backup" => db' = db /\ storage' = storage
    BY <1>0, <1>14 DEF DropBackup, files, PhaseFacts, Importing, Restoring, Compared
  <2>. QED BY <2>1, <2>2, <2>3, <2>4, <2>5, <2>6, <2>7, <2>8, OthersKeep
<1>15. CASE DropSnapshot(r)
  <2>1. Working(r)
    BY <1>15 DEF DropSnapshot, Working
  <2>2. FormalTypes'
    BY <1>0, <1>15 DEF DropSnapshot, Goto, Faulty, files, FormalTypes, Contents, Labels, Compared, Importing, Complete, Retiring, Cleaning, Restoring, Refusing
  <2>3. Alone(r)
    BY <1>0, <1>15 DEF DropSnapshot, Goto, Faulty, files, FormalTypes, Alone
  <2>4. PhaseFacts(r)' /\ phase'[r] # "none" /\ (phase'[r] = "pre_backup" => phase[r] \in {"none", "pre_backup"})
    BY <1>0, <1>15 DEF DropSnapshot, Goto, Faulty, files, FormalTypes, RestoredAll, PhaseFacts, Compared, Importing, Retiring, Cleaning, Restoring, CommittedPhases
  <2>5. DataFacts(r)'
    BY <1>0, <1>15 DEF DropSnapshot, Goto, Faulty, files, FormalTypes, DataFacts, Truly, RestoredAll, PhaseFacts, Compared, Importing, Complete, Retiring, Cleaning, Restoring, Refusing, CommittedPhases
  <2>6. Refused(r)'
    <3>1. receipt'[r] # "FAIL"
      BY <1>0, <1>15 DEF DropSnapshot, Goto, Faulty, files, FormalTypes, DataFacts
    <3>. QED BY <3>1 DEF Refused
  <2>7. DataSurvives'
    <3>1. Decided(r) /\ Decided(r)' /\ db' = db /\ storage' = storage
      BY <1>0, <1>15 DEF DropSnapshot, Goto, Faulty, files, Decided, PhaseFacts, Cleaning
    <3>. QED BY <3>1, CommitLeft DEF FormalIInv, DataSurvives, Decided
  <2>8. phase'[r] = "pre_backup" => db' = db /\ storage' = storage
    BY <1>0, <1>15 DEF DropSnapshot, files, PhaseFacts, Importing, Restoring, Compared
  <2>. QED BY <2>1, <2>2, <2>3, <2>4, <2>5, <2>6, <2>7, <2>8, OthersKeep
<1>16. CASE RestoreStorage(r)
  <2>1. Working(r)
    BY <1>16 DEF RestoreStorage, Working
  <2>2. FormalTypes'
    BY <1>0, <1>16 DEF RestoreStorage, Goto, Faulty, files, FormalTypes, Contents, Labels, Compared, Importing, Complete, Retiring, Cleaning, Restoring, Refusing
  <2>3. Alone(r)
    BY <1>0, <1>16 DEF RestoreStorage, Goto, Faulty, files, FormalTypes, Alone
  <2>4. PhaseFacts(r)' /\ phase'[r] # "none" /\ (phase'[r] = "pre_backup" => phase[r] \in {"none", "pre_backup"})
    BY <1>0, <1>16 DEF RestoreStorage, Goto, Faulty, files, FormalTypes, RestoredAll, PhaseFacts, Compared, Importing, Retiring, Cleaning, Restoring, CommittedPhases
  <2>5. DataFacts(r)'
    BY <1>0, <1>16 DEF RestoreStorage, Goto, Faulty, files, FormalTypes, DataFacts, Truly, RestoredAll, PhaseFacts, Compared, Importing, Complete, Retiring, Cleaning, Restoring, Refusing, CommittedPhases
  <2>6. Refused(r)'
    <3>1. receipt'[r] # "FAIL"
      BY <1>0, <1>16 DEF RestoreStorage, Goto, Faulty, files, FormalTypes, DataFacts
    <3>. QED BY <3>1 DEF Refused
  <2>7. DataSurvives'
    BY <1>0, <1>16, <2>1, <2>3, OriginalsLeft DEF RestoreStorage, Goto, Faulty, files, FormalTypes, Decided, DataFacts, Truly, RestoredAll, PhaseFacts, Compared, Importing, Complete, Retiring, Cleaning, Restoring, Refusing, CommittedPhases
  <2>8. phase'[r] = "pre_backup" => db' = db /\ storage' = storage
    BY <1>0, <1>16 DEF RestoreStorage, files, PhaseFacts, Importing, Restoring, Compared
  <2>. QED BY <2>1, <2>2, <2>3, <2>4, <2>5, <2>6, <2>7, <2>8, OthersKeep
<1>17. CASE DropTarget(r)
  <2>1. Working(r)
    BY <1>17 DEF DropTarget, Working
  <2>2. FormalTypes'
    BY <1>0, <1>17 DEF DropTarget, Goto, Faulty, files, FormalTypes, Contents, Labels, Compared, Importing, Complete, Retiring, Cleaning, Restoring, Refusing
  <2>3. Alone(r)
    BY <1>0, <1>17 DEF DropTarget, Goto, Faulty, files, FormalTypes, Alone
  <2>4. PhaseFacts(r)' /\ phase'[r] # "none" /\ (phase'[r] = "pre_backup" => phase[r] \in {"none", "pre_backup"})
    BY <1>0, <1>17 DEF DropTarget, Goto, Faulty, files, FormalTypes, RestoredAll, PhaseFacts, Compared, Importing, Retiring, Cleaning, Restoring, CommittedPhases
  <2>5. DataFacts(r)'
    BY <1>0, <1>17 DEF DropTarget, Goto, Faulty, files, FormalTypes, DataFacts, Truly, RestoredAll, PhaseFacts, Compared, Importing, Complete, Retiring, Cleaning, Restoring, Refusing, CommittedPhases
  <2>6. Refused(r)'
    <3>1. receipt'[r] # "FAIL"
      BY <1>0, <1>17 DEF DropTarget, Goto, Faulty, files, FormalTypes, DataFacts
    <3>. QED BY <3>1 DEF Refused
  <2>7. DataSurvives'
    BY <1>0, <1>17, <2>1, <2>3, OriginalsLeft DEF DropTarget, Goto, Faulty, files, FormalTypes, Decided, DataFacts, Truly, RestoredAll, PhaseFacts, Compared, Importing, Complete, Retiring, Cleaning, Restoring, Refusing, CommittedPhases
  <2>8. phase'[r] = "pre_backup" => db' = db /\ storage' = storage
    BY <1>0, <1>17 DEF DropTarget, files, PhaseFacts, Importing, Restoring, Compared
  <2>. QED BY <2>1, <2>2, <2>3, <2>4, <2>5, <2>6, <2>7, <2>8, OthersKeep
<1>18. CASE CreateTarget(r)
  <2>1. Working(r)
    BY <1>18 DEF CreateTarget, Working
  <2>2. FormalTypes'
    BY <1>0, <1>18 DEF CreateTarget, Goto, Faulty, files, FormalTypes, Contents, Labels, Compared, Importing, Complete, Retiring, Cleaning, Restoring, Refusing
  <2>3. Alone(r)
    BY <1>0, <1>18 DEF CreateTarget, Goto, Faulty, files, FormalTypes, Alone
  <2>4. PhaseFacts(r)' /\ phase'[r] # "none" /\ (phase'[r] = "pre_backup" => phase[r] \in {"none", "pre_backup"})
    BY <1>0, <1>18 DEF CreateTarget, Goto, Faulty, files, FormalTypes, RestoredAll, PhaseFacts, Compared, Importing, Retiring, Cleaning, Restoring, CommittedPhases
  <2>5. DataFacts(r)'
    BY <1>0, <1>18 DEF CreateTarget, Goto, Faulty, files, FormalTypes, DataFacts, Truly, RestoredAll, PhaseFacts, Compared, Importing, Complete, Retiring, Cleaning, Restoring, Refusing, CommittedPhases
  <2>6. Refused(r)'
    <3>1. receipt'[r] # "FAIL"
      BY <1>0, <1>18 DEF CreateTarget, Goto, Faulty, files, FormalTypes, DataFacts
    <3>. QED BY <3>1 DEF Refused
  <2>7. DataSurvives'
    BY <1>0, <1>18, <2>1, <2>3, OriginalsLeft DEF CreateTarget, Goto, Faulty, files, FormalTypes, Decided, DataFacts, Truly, RestoredAll, PhaseFacts, Compared, Importing, Complete, Retiring, Cleaning, Restoring, Refusing, CommittedPhases
  <2>8. phase'[r] = "pre_backup" => db' = db /\ storage' = storage
    BY <1>0, <1>18 DEF CreateTarget, files, PhaseFacts, Importing, Restoring, Compared
  <2>. QED BY <2>1, <2>2, <2>3, <2>4, <2>5, <2>6, <2>7, <2>8, OthersKeep
<1>19. CASE Retire(r)
  <2>1. Working(r)
    BY <1>19 DEF Retire, Working
  <2>2. FormalTypes'
    <3>1. [marker EXCEPT ![r] = FALSE] \in [Runs -> BOOLEAN]
      BY <1>0 DEF FormalTypes
    <3>2. [receipt EXCEPT ![r] = IF @ = "PASS" THEN "none" ELSE @] \in [Runs -> {"none", "PASS", "FAIL"}]
      BY <1>0 DEF FormalTypes
    <3>3. marker' \in [Runs -> BOOLEAN] /\ receipt' \in [Runs -> {"none", "PASS", "FAIL"}]
      BY <1>0, <1>19, <3>1, <3>2 DEF Retire, FormalTypes
    <3>4. pc' \in [Runs -> Labels]
      BY <1>0, <1>19 DEF Retire, Goto, Faulty, files, FormalTypes, Labels, Compared, Importing, Complete, Retiring, Cleaning, Restoring, Refusing
    <3>. QED BY <1>0, <1>19, <3>3, <3>4 DEF Retire, FormalTypes
  <2>3. Alone(r)
    BY <1>0, <1>19 DEF Retire, Goto, Faulty, files, FormalTypes, Alone
  <2>4. PhaseFacts(r)' /\ phase'[r] # "none" /\ (phase'[r] = "pre_backup" => phase[r] \in {"none", "pre_backup"})
    BY <1>0, <1>19 DEF Retire, Goto, Faulty, files, FormalTypes, RestoredAll, PhaseFacts, Compared, Importing, Retiring, Cleaning, Restoring, CommittedPhases
  <2>5. DataFacts(r)'
    BY <1>0, <1>19 DEF Retire, Goto, Faulty, files, FormalTypes, DataFacts, Truly, RestoredAll, PhaseFacts, Compared, Importing, Complete, Retiring, Cleaning, Restoring, Refusing, CommittedPhases
  <2>6. Refused(r)'
    <3>1. receipt'[r] # "FAIL"
      BY <1>0, <1>19 DEF Retire, Goto, Faulty, files, FormalTypes, DataFacts
    <3>. QED BY <3>1 DEF Refused
  <2>7. DataSurvives'
    <3>1. /\ db' = db /\ storage' = storage /\ backup' = backup /\ snapshot' = snapshot /\ phase' = phase
      BY <1>19 DEF Retire
    <3>. QED BY <3>1 DEF FormalIInv, DataSurvives
  <2>8. phase'[r] = "pre_backup" => db' = db /\ storage' = storage
    BY <1>0, <1>19 DEF Retire, files, PhaseFacts, Importing, Restoring, Compared
  <2>. QED BY <2>1, <2>2, <2>3, <2>4, <2>5, <2>6, <2>7, <2>8, OthersKeep
<1>20. CASE DropCopies(r)
  <2>1. Working(r)
    BY <1>20 DEF DropCopies, Working
  <2>2. FormalTypes'
    BY <1>0, <1>20 DEF DropCopies, Goto, Faulty, files, FormalTypes, Contents, Labels, Compared, Importing, Complete, Retiring, Cleaning, Restoring, Refusing
  <2>3. Alone(r)
    BY <1>0, <1>20 DEF DropCopies, Goto, Faulty, files, FormalTypes, Alone
  <2>4. PhaseFacts(r)' /\ phase'[r] # "none" /\ (phase'[r] = "pre_backup" => phase[r] \in {"none", "pre_backup"})
    <3>1. /\ pc[r] = "drop_copies" /\ pc'[r] = "fail_receipt" /\ phase' = phase /\ restored' = restored
      BY <1>0, <1>20 DEF DropCopies, Goto, FormalTypes
    <3>2. RestoredAll(r)' /\ phase[r] = "rollback_verified"
      BY <1>0, <3>1 DEF DataFacts, RestoredAll, PhaseFacts
    <3>. QED BY <3>1, <3>2 DEF PhaseFacts, Compared, Importing, Retiring, Cleaning, Restoring
  <2>5. DataFacts(r)'
    BY <1>0, <1>20 DEF DropCopies, Goto, Faulty, files, FormalTypes, DataFacts, Truly, RestoredAll, PhaseFacts, Compared, Importing, Complete, Retiring, Cleaning, Restoring, Refusing, CommittedPhases
  <2>6. Refused(r)'
    <3>1. receipt'[r] # "FAIL"
      BY <1>0, <1>20 DEF DropCopies, Goto, Faulty, files, FormalTypes, DataFacts
    <3>. QED BY <3>1 DEF Refused
  <2>7. DataSurvives'
    BY <1>0, <1>20, <2>1, <2>3, OriginalsLeft DEF DropCopies, Goto, Faulty, files, FormalTypes, Decided, DataFacts, Truly, RestoredAll, PhaseFacts, Compared, Importing, Complete, Retiring, Cleaning, Restoring, Refusing, CommittedPhases
  <2>8. phase'[r] = "pre_backup" => db' = db /\ storage' = storage
    BY <1>0, <1>20 DEF DropCopies, files, PhaseFacts, Importing, Restoring, Compared
  <2>. QED BY <2>1, <2>2, <2>3, <2>4, <2>5, <2>6, <2>7, <2>8, OthersKeep
<1>21. CASE FailReceipt(r)
  <2>1. Working(r)
    BY <1>21 DEF FailReceipt, Working
  <2>2. FormalTypes'
    BY <1>0, <1>21 DEF FailReceipt, Goto, Faulty, files, FormalTypes, Contents, Labels, Compared, Importing, Complete, Retiring, Cleaning, Restoring, Refusing
  <2>3. Alone(r)
    BY <1>0, <1>21 DEF FailReceipt, Goto, Faulty, files, FormalTypes, Alone
  <2>4. PhaseFacts(r)' /\ phase'[r] # "none" /\ (phase'[r] = "pre_backup" => phase[r] \in {"none", "pre_backup"})
    BY <1>0, <1>21 DEF FailReceipt, Goto, Faulty, files, FormalTypes, RestoredAll, PhaseFacts, Compared, Importing, Retiring, Cleaning, Restoring, CommittedPhases
  <2>5. DataFacts(r)'
    BY <1>0, <1>21 DEF FailReceipt, Goto, Faulty, files, FormalTypes, DataFacts, Truly, RestoredAll, PhaseFacts, Compared, Importing, Complete, Retiring, Cleaning, Restoring, Refusing, CommittedPhases
  <2>6. Refused(r)'
    <3>1. Truly(r) /\ db' = db /\ storage' = storage /\ restored' = restored
      BY <1>0, <1>21 DEF FailReceipt, DataFacts
    <3>2. receipt'[r] = "FAIL" => ~marker'[r] /\ phase'[r] \notin CommittedPhases
      BY <2>5 DEF DataFacts, CommittedPhases
    <3>. QED BY <3>1, <3>2 DEF Refused, RestoredAll, Truly
  <2>7. DataSurvives'
    BY <1>0, <1>21, <2>1, <2>3, OriginalsLeft DEF FailReceipt, Goto, Faulty, files, FormalTypes, Decided, DataFacts, Truly, RestoredAll, PhaseFacts, Compared, Importing, Complete, Retiring, Cleaning, Restoring, Refusing, CommittedPhases
  <2>8. phase'[r] = "pre_backup" => db' = db /\ storage' = storage
    BY <1>0, <1>21 DEF FailReceipt, files, PhaseFacts, Importing, Restoring, Compared
  <2>. QED BY <2>1, <2>2, <2>3, <2>4, <2>5, <2>6, <2>7, <2>8, OthersKeep
<1>. QED BY <1>1, <1>2, <1>3, <1>4, <1>5, <1>6, <1>7, <1>8, <1>9, <1>10, <1>11, <1>12, <1>13, <1>14, <1>15, <1>16, <1>17, <1>18, <1>19, <1>20, <1>21

(* The steps around the single use of an approval.                         *)
LEMMA DieKeeps ==
    ASSUME FormalIInv, NEW r \in Runs, Working(r), Die(r)
    PROVE  FormalIInv'
<1>0. FormalTypes /\ PhaseFacts(r) /\ DataFacts(r) /\ Refused(r)
  BY DEF FormalIInv
<1>1. FormalTypes'
  BY <1>0 DEF Die, Goto, files, FormalTypes, Contents, Labels
<1>2. /\ Alone(r) /\ pc'[r] = "over" /\ db' = db /\ backup' = backup /\ phase' = phase /\ snapshot' = snapshot
      /\ receipt' = receipt /\ marker' = marker /\ restored' = restored /\ approved' = approved /\ uses' = uses
  BY <1>0 DEF Die, Goto, files, FormalTypes, Alone
<1>3. \/ storage' = storage
      \/ phase[r] = "rollback_pending" /\ snapshot[r] = "original" /\ receipt[r] # "FAIL"
  BY <1>0 DEF Die, PhaseFacts, DataFacts, Restoring, CommittedPhases
<1>4. PhaseFacts(r)'
  BY <1>2 DEF PhaseFacts, Compared, Importing, Retiring, Cleaning, Restoring
<1>5. DataFacts(r)'
  BY <1>0, <1>2 DEF DataFacts, Working, Compared, Importing, Complete, Retiring, Restoring, Refusing
<1>6. Refused(r)'
  BY <1>0, <1>2, <1>3 DEF Refused, RestoredAll
<1>7. DataSurvives'
  <2>1. CASE storage' = storage
    BY <1>2, <2>1 DEF FormalIInv, DataSurvives
  <2>2. CASE phase[r] = "rollback_pending" /\ snapshot[r] = "original"
    <3>1. ~Decided(r) /\ ~Decided(r)'
      BY <1>2, <2>2 DEF Decided, CommittedPhases
    <3>. QED BY <1>2, <2>2, <3>1, OriginalsLeft
  <2>. QED BY <1>3, <2>1, <2>2
<1>8. phase'[r] \in {"none", "pre_backup"} => db' = db /\ storage' = storage
  BY <1>2, <1>3
<1>. QED BY <1>1, <1>2, <1>4, <1>5, <1>6, <1>7, <1>8, OthersKeep

LEMMA QuietKeeps ==
    ASSUME FormalIInv, NEW r \in Runs, NEW l \in {"claim", "over"}, pc' = [pc EXCEPT ![r] = l],
           pc[r] \in {"idle", "claim"}, approved[uses[r]] = "original",
           UNCHANGED <<db, storage, backup, files, nonces, approved, uses, restored>>
    PROVE  FormalIInv'
<1>0. FormalTypes /\ PhaseFacts(r) /\ DataFacts(r) /\ Refused(r)
  BY DEF FormalIInv
<1>1. FormalTypes' /\ pc'[r] = l /\ \A q \in Runs : q # r => pc'[q] = pc[q]
  BY <1>0 DEF files, FormalTypes, Labels
<1>2. \A q \in Runs : (Working(q)' <=> Working(q)) /\ (Decided(q)' <=> Decided(q)) /\ (Passed(q)' <=> Passed(q))
  BY <1>1 DEF Working, Decided, Passed, files
<1>3. \A a \in Approvals : Fresh(a)' <=> Fresh(a)
  BY DEF Fresh
<1>4. OneAtATime'
  BY <1>2, <1>3 DEF OneAtATime, FormalIInv
<1>5. DataSurvives'
  BY DEF FormalIInv, DataSurvives, files
<1>6. ASSUME NEW q \in Runs
      PROVE  PhaseFacts(q)' /\ DataFacts(q)' /\ Refused(q)'
  <2>1. PhaseFacts(q) /\ DataFacts(q) /\ Refused(q)
    BY DEF FormalIInv
  <2>2. Refused(q)'
    BY <2>1 DEF Refused, RestoredAll, files
  <2>3. CASE q = r
    <3>1. PhaseFacts(r)'
      BY <1>0, <1>1 DEF PhaseFacts, Compared, Importing, Retiring, Cleaning, Restoring, files
    <3>2. DataFacts(r)'
      BY <1>0, <1>1 DEF DataFacts, Compared, Importing, Complete, Retiring, Restoring, Refusing, files
    <3>. QED BY <2>2, <2>3, <3>1, <3>2
  <2>4. CASE q # r
    <3>1. PhaseFacts(q)'
      BY <1>1, <2>1, <2>4 DEF PhaseFacts, RestoredAll, files
    <3>2. DataFacts(q)'
      BY <1>1, <2>1, <2>4 DEF DataFacts, Truly, RestoredAll, files
    <3>. QED BY <2>2, <3>1, <3>2
  <2>. QED BY <2>3, <2>4
<1>. QED BY <1>1, <1>4, <1>5, <1>6 DEF FormalIInv

LEMMA BeginKeeps ==
    ASSUME FormalIInv, NEW r \in Runs, Begin(r)
    PROVE  FormalIInv'
<1>1. approved[uses[r]] = "original"
  BY DEF Begin, FormalIInv, OneAtATime, FormalTypes
<1>2. PICK l \in {"claim", "over"} : pc' = [pc EXCEPT ![r] = l]
  BY DEF Begin, Goto
<1>. QED BY <1>1, <1>2, QuietKeeps DEF Begin

LEMMA DieEarlyKeeps ==
    ASSUME FormalIInv, NEW r \in Runs, ~Working(r), Die(r)
    PROVE  FormalIInv'
<1>1. pc[r] = "claim" /\ storage' = storage
  BY DEF Die, Live, Working
<1>2. approved[uses[r]] = "original"
  BY <1>1 DEF FormalIInv, DataFacts
<1>. QED BY <1>1, <1>2, QuietKeeps DEF Die, Goto

LEMMA ClaimKeeps ==
    ASSUME FormalIInv, NEW r \in Runs, ClaimNonce(r)
    PROVE  FormalIInv'
<1>0. FormalTypes /\ PhaseFacts(r) /\ DataFacts(r) /\ Refused(r) /\ OneAtATime
  BY DEF FormalIInv
<1>1. approved[uses[r]] = "original" /\ pc[r] = "claim" /\ phase[r] = "none" /\ uses[r] \in Approvals
  BY <1>0 DEF ClaimNonce, DataFacts, PhaseFacts, FormalTypes
<1>2. CASE uses[r] \in nonces.claimed
  BY <1>1, <1>2, QuietKeeps DEF ClaimNonce, Goto
<1>3. CASE uses[r] \notin nonces.claimed
  <2>1. /\ pc' = [pc EXCEPT ![r] = "log"] /\ nonces' = [nonces EXCEPT !.claimed = @ \cup {uses[r]}]
        /\ UNCHANGED <<db, storage, backup, files, approved, uses, restored>>
    BY <1>3 DEF ClaimNonce, Goto
  <2>2. pc'[r] = "log" /\ \A q \in Runs : q # r => pc'[q] = pc[q]
    BY <1>0, <2>1 DEF FormalTypes
  <2>3. nonces' = [claimed |-> nonces.claimed \cup {uses[r]}, logged |-> nonces.logged]
    BY <1>0, <2>1 DEF FormalTypes
  <2>4. FormalTypes'
    <3>1. /\ nonces'.claimed \subseteq Approvals /\ nonces'.logged \subseteq nonces'.claimed
          /\ nonces' = [claimed |-> nonces'.claimed, logged |-> nonces'.logged]
          /\ DOMAIN nonces' = {"claimed", "logged"}
      BY <1>0, <1>1, <2>3 DEF FormalTypes
    <3>2. pc' \in [Runs -> Labels]
      BY <1>0, <2>1 DEF FormalTypes, Labels
    <3>. QED BY <1>0, <2>1, <3>1, <3>2 DEF FormalTypes, files
  <2>5. Fresh(uses[r])
    BY <1>1, <1>3 DEF Fresh, Unsigned
  <2>6. \A q \in Runs : ~Working(q) /\ ~Decided(q)
    BY <1>0, <1>1, <2>5 DEF OneAtATime
  <2>7. /\ \A q \in Runs : ~Decided(q)' /\ (q # r => ~Working(q)' /\ (Passed(q)' <=> Passed(q)))
        /\ ~Passed(r)
    BY <1>1, <2>1, <2>2, <2>6 DEF Working, Decided, Passed, files
  <2>8. \A a \in Approvals : ~Fresh(a)'
    <3>1. \A a \in Approvals : Fresh(a)' => Fresh(a) /\ a # uses[r]
      BY <2>1, <2>3 DEF Fresh
    <3>. QED BY <1>0, <1>1, <2>5, <3>1 DEF OneAtATime
  <2>9. \A q \in Runs : q # r /\ Passed(q)' => uses[q] # uses[r]
    BY <1>0, <1>3, <2>7 DEF OneAtATime
  <2>10. OneAtATime'
    <3>1. /\ \A q, p \in Runs : Working(q)' /\ Working(p)' => q = p
          /\ \A q, p \in Runs : Decided(q)' /\ (Working(p)' \/ Decided(p)') => q = p
      BY <2>7
    <3>2. \A q \in Runs : Passed(q)' => uses'[q] \in nonces'.claimed
      BY <1>0, <2>1, <2>3, <2>7 DEF OneAtATime
    <3>3. \A q, p \in Runs : Passed(q)' /\ Passed(p)' /\ uses'[q] = uses'[p] => q = p
      BY <1>0, <2>1, <2>7, <2>9 DEF OneAtATime
    <3>4. \A a \in Approvals : approved'[a] \in {Unsigned, "original"}
      BY <1>0, <2>1 DEF OneAtATime
    <3>. QED BY <2>7, <2>8, <3>1, <3>2, <3>3, <3>4 DEF OneAtATime
  <2>11. DataSurvives'
    BY <2>1 DEF FormalIInv, DataSurvives, files
  <2>12. ASSUME NEW q \in Runs
         PROVE  PhaseFacts(q)' /\ DataFacts(q)' /\ Refused(q)'
    <3>1. PhaseFacts(q) /\ DataFacts(q) /\ Refused(q)
      BY DEF FormalIInv
    <3>2. Refused(q)'
      BY <2>1, <3>1 DEF Refused, RestoredAll, files
    <3>3. CASE q = r
      <4>1. PhaseFacts(r)'
        BY <1>1, <2>1, <2>2 DEF PhaseFacts, Compared, Importing, Retiring, Cleaning, Restoring, files
      <4>2. DataFacts(r)'
        BY <1>0, <1>1, <2>1, <2>2 DEF DataFacts, Compared, Importing, Complete, Retiring, Restoring, Refusing, files
      <4>. QED BY <3>2, <3>3, <4>1, <4>2
    <3>4. CASE q # r
      <4>1. PhaseFacts(q)'
        BY <2>1, <2>2, <3>1, <3>4 DEF PhaseFacts, RestoredAll, files
      <4>2. DataFacts(q)'
        BY <2>1, <2>2, <3>1, <3>4 DEF DataFacts, Truly, RestoredAll, files
      <4>. QED BY <3>2, <4>1, <4>2
    <3>. QED BY <3>3, <3>4
  <2>. QED BY <2>4, <2>10, <2>11, <2>12 DEF FormalIInv
<1>. QED BY <1>2, <1>3

LEMMA ResumeKeeps ==
    ASSUME FormalIInv, NEW r \in Runs, Resume(r)
    PROVE  FormalIInv'
<1>0. FormalTypes /\ PhaseFacts(r) /\ DataFacts(r) /\ Refused(r) /\ OneAtATime
  BY DEF FormalIInv
<1>1. /\ pc[r] = "over" /\ receipt[r] = "PASS" /\ phase[r] \in CommittedPhases
      /\ pc' = [pc EXCEPT ![r] = "again_drop_backup"]
      /\ UNCHANGED <<db, storage, backup, files, nonces, approved, uses, restored>>
  BY DEF Resume, Goto, CommittedPhases
<1>2. /\ FormalTypes' /\ pc'[r] = "again_drop_backup"
      /\ \A q \in Runs : q # r => pc'[q] = pc[q]
  BY <1>0, <1>1 DEF FormalTypes, files, Labels, Cleaning
<1>3. Decided(r) /\ \A q \in Runs : Decided(q)' <=> Decided(q)
  BY <1>1 DEF Decided, files
<1>4. /\ \A q \in Runs : q # r => ~Working(q) /\ ~Working(q)' /\ ~Decided(q)
      /\ \A a \in Approvals : ~Fresh(a) /\ ~Fresh(a)'
  <2>1. \A q \in Runs : q # r => ~Working(q) /\ ~Decided(q)
    BY <1>0, <1>3 DEF OneAtATime
  <2>2. \A a \in Approvals : ~Fresh(a)
    BY <1>0, <1>3 DEF OneAtATime
  <2>. QED BY <1>1, <1>2, <2>1, <2>2 DEF Working, Fresh
<1>5. \A q \in Runs : Passed(q)' <=> Passed(q)
  <2>1. Passed(r) /\ Passed(r)'
    BY <1>1 DEF Passed, files, CommittedPhases
  <2>2. \A q \in Runs : q # r => (Passed(q)' <=> Passed(q))
    BY <1>1, <1>4 DEF Passed, files
  <2>. QED BY <2>1, <2>2
<1>6. OneAtATime'
  <2>1. /\ \A q, p \in Runs : Working(q)' /\ Working(p)' => q = p
        /\ \A q, p \in Runs : Decided(q)' /\ (Working(p)' \/ Decided(p)') => q = p
    BY <1>3, <1>4
  <2>2. /\ \A q \in Runs : Passed(q)' => uses'[q] \in nonces'.claimed
        /\ \A q, p \in Runs : Passed(q)' /\ Passed(p)' /\ uses'[q] = uses'[p] => q = p
        /\ \A a \in Approvals : approved'[a] \in {Unsigned, "original"}
    BY <1>0, <1>1, <1>5 DEF OneAtATime
  <2>. QED BY <1>4, <2>1, <2>2 DEF OneAtATime
<1>7. DataSurvives'
  BY <1>1 DEF FormalIInv, DataSurvives, files
<1>8. ASSUME NEW q \in Runs
      PROVE  PhaseFacts(q)' /\ DataFacts(q)' /\ Refused(q)'
  <2>1. PhaseFacts(q) /\ DataFacts(q) /\ Refused(q)
    BY DEF FormalIInv
  <2>2. Refused(q)'
    BY <1>1, <2>1 DEF Refused, RestoredAll, files
  <2>3. CASE q = r
    <3>1. PhaseFacts(r)'
      BY <1>1, <1>2 DEF PhaseFacts, Compared, Importing, Retiring, Cleaning, Restoring, files
    <3>2. DataFacts(r)'
      BY <1>0, <1>1, <1>2 DEF DataFacts, Compared, Importing, Complete, Retiring, Restoring, Refusing, files
    <3>. QED BY <2>2, <2>3, <3>1, <3>2
  <2>4. CASE q # r
    <3>1. PhaseFacts(q)'
      BY <1>1, <1>2, <2>1, <2>4 DEF PhaseFacts, RestoredAll, files
    <3>2. DataFacts(q)'
      BY <1>1, <1>2, <2>1, <2>4 DEF DataFacts, Truly, RestoredAll, files
    <3>. QED BY <2>2, <3>1, <3>2
  <2>. QED BY <2>3, <2>4
<1>. QED BY <1>2, <1>6, <1>7, <1>8 DEF FormalIInv

(* The operator signs only for the data as they were: the inventories that *)
(* the approval names are those of the archive's target before any import. *)
SignedForOriginal == Approvable \subseteq {"original"}

LEMMA ApproveKeeps ==
    ASSUME SignedForOriginal, FormalIInv, NEW a \in Approvals, Approve(a)
    PROVE  FormalIInv'
<1>0. FormalTypes /\ OneAtATime /\ DataSurvives
  BY DEF FormalIInv
<1>1. /\ db = "original" /\ approved[a] = Unsigned
      /\ approved' = [approved EXCEPT ![a] = "original"]
      /\ UNCHANGED <<db, storage, backup, files, nonces, uses, restored, pc>>
      /\ \A r \in Runs : pc[r] \in {"idle", "over"}
      /\ \A b \in Approvals : approved[b] = Unsigned \/ b \in nonces.claimed
  BY DEF Approve, SignedForOriginal, Live
<1>2. \A b \in Approvals : approved'[b] = IF b = a THEN "original" ELSE approved[b]
  BY <1>0, <1>1 DEF FormalTypes
<1>3. FormalTypes'
  BY <1>0, <1>1 DEF FormalTypes, files, Contents
<1>4. /\ \A r \in Runs : ~Working(r) /\ ~Working(r)' /\ ~Decided(r) /\ ~Decided(r)'
      /\ \A r \in Runs : Passed(r)' <=> Passed(r)
  BY <1>0, <1>1 DEF Working, Decided, Passed, DataSurvives, files
<1>5. \A b \in Approvals : Fresh(b)' => b = a
  BY <1>1, <1>2 DEF Fresh
<1>6. OneAtATime'
  <2>1. /\ \A q \in Runs : Passed(q)' => uses'[q] \in nonces'.claimed
        /\ \A q, p \in Runs : Passed(q)' /\ Passed(p)' /\ uses'[q] = uses'[p] => q = p
    BY <1>0, <1>1, <1>4 DEF OneAtATime
  <2>2. \A b \in Approvals : approved'[b] \in {Unsigned, "original"}
    BY <1>0, <1>2 DEF OneAtATime
  <2>. QED BY <1>4, <1>5, <2>1, <2>2 DEF OneAtATime
<1>7. DataSurvives'
  BY <1>0, <1>1 DEF DataSurvives, files
<1>8. ASSUME NEW q \in Runs
      PROVE  PhaseFacts(q)' /\ DataFacts(q)' /\ Refused(q)'
  <2>1. PhaseFacts(q) /\ DataFacts(q) /\ Refused(q) /\ uses[q] \in Approvals
    BY DEF FormalIInv, FormalTypes
  <2>2. Refused(q)'
    BY <1>1, <2>1 DEF Refused, RestoredAll, files
  <2>3. PhaseFacts(q)'
    BY <1>1, <2>1 DEF PhaseFacts, RestoredAll, files
  <2>4. DataFacts(q)'
    BY <1>1, <1>2, <2>1 DEF DataFacts, Truly, RestoredAll, files
  <2>. QED BY <2>2, <2>3, <2>4
<1>. QED BY <1>3, <1>6, <1>7, <1>8 DEF FormalIInv

LEMMA FormalInitially == FormalInit => FormalIInv
<1>. SUFFICES ASSUME FormalInit PROVE FormalIInv
  OBVIOUS
<1>1. FormalTypes
  BY PhaseNames DEF FormalInit, FormalTypes, Contents, Labels
<1>2. \A r \in Runs : ~Working(r) /\ ~Decided(r) /\ ~Passed(r)
  BY DEF FormalInit, Working, Decided, Passed, CommittedPhases
<1>3. \A a \in Approvals : approved[a] = Unsigned
  BY DEF FormalInit
<1>4. OneAtATime
  BY <1>2, <1>3 DEF OneAtATime, Fresh
<1>5. DataSurvives
  BY <1>2 DEF FormalInit, DataSurvives, Decided
<1>6. ASSUME NEW r \in Runs
      PROVE  PhaseFacts(r) /\ DataFacts(r) /\ Refused(r)
  <2>1. pc[r] = "idle" /\ phase[r] = "none" /\ receipt[r] = "none" /\ restored[r] = {}
    BY DEF FormalInit
  <2>2. PhaseFacts(r)
    BY <2>1 DEF PhaseFacts, Compared, Importing, Retiring, Cleaning, Restoring
  <2>3. DataFacts(r)
    BY <2>1 DEF DataFacts, Compared, Importing, Complete, Retiring, Restoring, Refusing
  <2>. QED BY <2>1, <2>2, <2>3 DEF Refused
<1>. QED BY <1>1, <1>4, <1>5, <1>6 DEF FormalIInv

LEMMA FormalKeeps ==
    ASSUME SignedForOriginal, FormalIInv, [FormalNext]_formalVars
    PROVE  FormalIInv'
<1>1. ASSUME NEW a \in Approvals, Approve(a)
      PROVE  FormalIInv'
  BY <1>1, ApproveKeeps
<1>2. ASSUME NEW r \in Runs, Begin(r) \/ Step(r) \/ Resume(r) \/ Die(r)
      PROVE  FormalIInv'
  <2>1. CASE Begin(r)
    BY <2>1, BeginKeeps
  <2>2. CASE Step(r)
    BY <2>2, ClaimKeeps, PhaseMovesKeep, EffectsKeep DEF Step
  <2>3. CASE Resume(r)
    BY <2>3, ResumeKeeps
  <2>4. CASE Die(r)
    BY <2>4, DieKeeps, DieEarlyKeeps
  <2>. QED BY <1>2, <2>1, <2>2, <2>3, <2>4
<1>3. CASE UNCHANGED formalVars
  <2>. USE <1>3 DEF formalVars, files
  <2>1. FormalTypes' /\ OneAtATime' /\ DataSurvives'
    BY DEF FormalIInv, FormalTypes, OneAtATime, DataSurvives, Working, Fresh, Decided, Passed
  <2>2. ASSUME NEW r \in Runs
        PROVE  PhaseFacts(r)' /\ DataFacts(r)' /\ Refused(r)'
    BY DEF FormalIInv, PhaseFacts, DataFacts, Refused, Truly, RestoredAll
  <2>. QED BY <2>1, <2>2 DEF FormalIInv
<1>. QED BY <1>1, <1>2, <1>3 DEF FormalNext

-----------------------------------------------------------------------------
LEMMA HistoryIsInductive ==
    ASSUME SignedForOriginal
    PROVE  HistorySpec => []HistoryIInv
<1>1. HistoryInit => HistoryIInv
  BY ScratchInitially, FormalInitially DEF HistoryInit, HistoryIInv
<1>2. HistoryIInv /\ [HistoryNext]_<<scratchVars, formalVars>> => HistoryIInv'
  <2>. SUFFICES ASSUME HistoryIInv, [HistoryNext]_<<scratchVars, formalVars>>
                PROVE  HistoryIInv'
    OBVIOUS
  <2>1. [ScratchNext]_scratchVars /\ [FormalNext]_formalVars
    BY DEF HistoryNext
  <2>. QED BY <2>1, ScratchKeeps, FormalKeeps DEF HistoryIInv
<1>. QED BY <1>1, <1>2, PTL DEF HistorySpec

(* No approval serves two runs (consumeFormalApprovalNonce), and a FAIL    *)
(* receipt stands beside no PASS marker and no commit; where it says that  *)
(* everything was restored, it was, until a later run begins to write.     *)
THEOREM HistoryIsTrue ==
    ASSUME SignedForOriginal
    PROVE  HistorySpec => []HistoryInv
<1>1. HistoryIInv => HistoryInv
  <2>. SUFFICES ASSUME HistoryIInv PROVE HistoryInv
    OBVIOUS
  <2>1. HistoryTypeOK
    BY DEF HistoryIInv, ScratchIInv, ScratchTypes, FormalIInv, FormalTypes, HistoryTypeOK
  <2>2. NonceOnce
    BY DEF HistoryIInv, FormalIInv, OneAtATime, Passed, NonceOnce
  <2>3. RefusalIsTrue
    BY DEF HistoryIInv, FormalIInv, Refused, RefusalIsTrue
  <2>. QED BY <2>1, <2>2, <2>3 DEF HistoryInv
<1>. QED BY <1>1, HistoryIsInductive, PTL

(* From the first write of the rehearsal's import to its last deletion a   *)
(* verified pair of copies exists, and the data of the formal run's target *)
(* are never lost, whatever errors and deaths a run meets on its way.      *)
THEOREM CopiesAreSafe ==
    ASSUME SignedForOriginal
    PROVE  HistorySpec => []CopiesSurvive
<1>1. HistoryIInv => CopiesSurvive
  BY DEF HistoryIInv, ScratchIInv, FormalIInv, CopiesSurvive
<1>. QED BY <1>1, HistoryIsInductive, PTL

-----------------------------------------------------------------------------
(* The import of a batch.  Where an importer stands tells what its package *)
(* has left behind in object storage and database, and what its directory  *)
(* holds.                                                                  *)
WritingPlaces == {"claim", "authorize", "write", "caught", "complete", "fail"}
PackagePlaces == {"read", "replay", "store", "register", "create"} \cup WritingPlaces
ClosingPlaces == {"publish", "unmark", "promise", "list", "confirm", "announce", "mark", "finish"}
Places        == {"idle", "never", "next"} \cup PackagePlaces \cup ClosingPlaces

Identifiers  == {Derived} \cup Importers
JournalFiles == [file : {"none", "v1", "v2"}, phase : Confirmed..Committed, sidecar : BOOLEAN]
TaskRows     == [state : {"queued", "running", "succeeded", "failed"}, source : Identifiers,
                 owner : Importers, live : BOOLEAN]

BatchTypes ==
    /\ importer \in [Importers -> [at : Places, package : Packages \cup {0}, left : SUBSET Packages,
                                   entries : SUBSET Packages, failed : BOOLEAN]]
    /\ journal \in [Importers -> [Packages -> JournalFiles]]
    /\ manifest \in [Importers -> SUBSET Packages]
    /\ publication \in [Importers -> [batch : SUBSET Packages, entries : SUBSET Packages, phase : 0..4]]
    /\ completeMark \in [Importers -> SUBSET Packages]
    /\ report \in SUBSET Packages
    /\ stored \in SUBSET (Packages \X Identifiers) /\ listed \in SUBSET (Packages \X Identifiers)
    /\ task \in [Packages -> {NoTask} \cup TaskRows]
    /\ item \in [Packages -> BOOLEAN] /\ problems \in [Packages -> Nat]
    /\ doubt \in SUBSET Packages

(* Only an item without a problem is written, also by a transaction whose  *)
(* outcome the importer never learns.                                      *)
RowFacts(p) ==
    /\ problems[p] = IF item[p] THEN 1 ELSE 0
    /\ p \in doubt => ~item[p]
    /\ task[p].state = "succeeded" => item[p]
    /\ task[p].state # "none" => <<p, task[p].source>> \in stored \cap listed

Known(r, p) == task[p].state # "none" /\ task[p].source = JournalId(r, p)

PackageFacts(r) ==
    /\ importer[r].at \in PackagePlaces => Package(r) \in Packages
    /\ importer[r].at \in PackagePlaces \ {"read"} =>
           journal[r][Package(r)].file = "v2" \/ journal[r][Package(r)].sidecar
    /\ importer[r].at \in {"register", "create"} => Source(r) \in stored
    /\ importer[r].at = "create" => Source(r) \in listed
    /\ importer[r].at \in WritingPlaces => Known(r, Package(r))
    /\ importer[r].at = "complete" => item[Package(r)]
    /\ \A p \in importer[r].entries \cup manifest[r] : task[p].state = "succeeded"

JournalFacts(r, p) ==
    /\ journal[r][p].phase >= Published => <<p, JournalId(r, p)>> \in stored
    /\ journal[r][p].phase >= Registered => <<p, JournalId(r, p)>> \in listed
    /\ journal[r][p].phase >= Created => Known(r, p)
    /\ journal[r][p].phase = Committed => item[p] /\ task[p].state = "succeeded"

DirectoryFacts(r) ==
    /\ importer[r].at \in {"next"} \cup PackagePlaces \cup ClosingPlaces /\ ~importer[r].failed =>
           report = importer[r].entries \cup importer[r].left
                        \cup (IF importer[r].at \in PackagePlaces THEN {Package(r)} ELSE {})
    /\ importer[r].at \in ClosingPlaces => importer[r].left = {}
    /\ importer[r].at \in {"promise", "list", "confirm"} => completeMark[r] = {}
    /\ importer[r].at \in {"list", "confirm"} => publication[r].phase = 1
    /\ importer[r].at = "confirm" => manifest[r] = importer[r].entries
    /\ importer[r].at \in {"announce", "mark", "finish"} =>
           manifest[r] = report /\ importer[r].entries = report
    /\ publication[r].phase >= 2 => manifest[r] = publication[r].entries
    /\ completeMark[r] # {} => completeMark[r] = manifest[r]

BatchIInv ==
    /\ BatchTypes
    /\ \A p \in Packages : RowFacts(p)
    /\ \A r \in Importers : PackageFacts(r) /\ DirectoryFacts(r)
    /\ \A r \in Importers, p \in Packages : JournalFacts(r, p)

ImporterRows == [at : Places, package : Packages \cup {0}, left : SUBSET Packages,
                 entries : SUBSET Packages, failed : BOOLEAN]

(* Where an importer stands after a step, with the fields of its record.   *)
Arrives(r, place, entries, failed) ==
    /\ importer' \in [Importers -> ImporterRows]
    /\ importer'[r].at = place /\ importer'[r].package = importer[r].package
    /\ importer'[r].left = importer[r].left
    /\ importer'[r].entries = entries /\ importer'[r].failed = failed
    /\ \A q \in Importers : q # r => importer'[q] = importer[q]

LEMMA Going ==
    ASSUME BatchTypes, NEW r \in Importers, NEW place \in Places, Go(r, place)
    PROVE  Arrives(r, place, importer[r].entries, importer[r].failed)
<1>1. importer \in [Importers -> ImporterRows] /\ importer[r] \in ImporterRows
  BY DEF BatchTypes, ImporterRows
<1>2. PICK row : row = [importer[r] EXCEPT !.at = place]
  OBVIOUS
<1>3. importer' = [importer EXCEPT ![r] = row]
  BY <1>2 DEF Go
<1>4. /\ row \in ImporterRows /\ row.at = place /\ row.package = importer[r].package
      /\ row.left = importer[r].left /\ row.entries = importer[r].entries
      /\ row.failed = importer[r].failed
  BY <1>1, <1>2 DEF ImporterRows
<1>5. importer'[r] = row /\ (\A q \in Importers : q # r => importer'[q] = importer[q])
  BY <1>1, <1>3
<1>6. importer' \in [Importers -> ImporterRows]
  BY <1>1, <1>3, <1>4
<1>. QED BY <1>4, <1>5, <1>6 DEF Arrives

LEMMA Failing ==
    ASSUME BatchTypes, NEW r \in Importers, PackageFails(r)
    PROVE  Arrives(r, "next", importer[r].entries, TRUE)
<1>1. importer \in [Importers -> ImporterRows] /\ importer[r] \in ImporterRows
  BY DEF BatchTypes, ImporterRows
<1>2. PICK row : row = [importer[r] EXCEPT !.at = "next", !.failed = TRUE]
  OBVIOUS
<1>3. importer' = [importer EXCEPT ![r] = row]
  BY <1>1, <1>2 DEF PackageFails
<1>4. /\ row \in ImporterRows /\ row.at = "next" /\ row.package = importer[r].package
      /\ row.left = importer[r].left /\ row.entries = importer[r].entries
      /\ row.failed = TRUE
  BY <1>1, <1>2 DEF ImporterRows, Places
<1>5. importer'[r] = row /\ (\A q \in Importers : q # r => importer'[q] = importer[q])
  BY <1>1, <1>3
<1>6. importer' \in [Importers -> ImporterRows]
  BY <1>1, <1>3, <1>4
<1>. QED BY <1>4, <1>5, <1>6 DEF Arrives

(* The journal of the current package moves on, or stays.                  *)
Advanced(r, ph) ==
    /\ journal' \in [Importers -> [Packages -> JournalFiles]]
    /\ \A q \in Importers, p \in Packages : JournalId(q, p)' = JournalId(q, p)
    /\ \A q \in Importers : q # r => journal'[q] = journal[q]
    /\ \A p \in Packages : p # Package(r) => journal'[r][p] = journal[r][p]
    /\ journal'[r][Package(r)].phase \in {journal[r][Package(r)].phase, ph}
    /\ journal'[r][Package(r)].file = "v2" \/ journal'[r][Package(r)].sidecar

LEMMA Advancing ==
    ASSUME BatchTypes, NEW r \in Importers, Package(r) \in Packages, NEW ph \in Confirmed..Committed,
           AdvanceJournal(r, ph),
           journal[r][Package(r)].file = "v2" \/ journal[r][Package(r)].sidecar
    PROVE  Advanced(r, ph)
<1>1. PICK p \in Packages : p = Package(r)
  OBVIOUS
<1>2. /\ journal \in [Importers -> [Packages -> JournalFiles]]
      /\ journal[r] \in [Packages -> JournalFiles] /\ journal[r][p] \in JournalFiles
  BY DEF BatchTypes
<1>3. CASE journal' = journal
  BY <1>1, <1>2, <1>3 DEF Advanced, JournalId
<1>4. CASE journal' = [journal EXCEPT ![r][p].phase = ph, ![r][p].file = "v2"]
  <2>1. PICK j : j = [journal[r][p] EXCEPT !.phase = ph, !.file = "v2"]
    OBVIOUS
  <2>2. j \in JournalFiles /\ j.phase = ph /\ j.file = "v2" /\ j.sidecar = journal[r][p].sidecar
    BY <1>2, <2>1 DEF JournalFiles
  <2>3. PICK js : js = [journal[r] EXCEPT ![p] = j]
    OBVIOUS
  <2>4. journal' = [journal EXCEPT ![r] = js]
    BY <1>2, <1>4, <2>1, <2>3
  <2>5. js \in [Packages -> JournalFiles] /\ js[p] = j /\ (\A s \in Packages : s # p => js[s] = journal[r][s])
    BY <1>2, <2>2, <2>3
  <2>6. /\ journal' \in [Importers -> [Packages -> JournalFiles]] /\ journal'[r] = js
        /\ \A q \in Importers : q # r => journal'[q] = journal[q]
    BY <1>2, <2>4, <2>5
  <2>7. ASSUME NEW q \in Importers, NEW s \in Packages
        PROVE  JournalId(q, s)' = JournalId(q, s)
    BY <1>1, <2>2, <2>5, <2>6 DEF JournalId
  <2>. QED BY <1>1, <2>2, <2>5, <2>6, <2>7 DEF Advanced
<1>. QED BY <1>1, <1>3, <1>4 DEF AdvanceJournal

(* What database and object storage say only grows.                        *)
Grown ==
    /\ stored \subseteq stored' /\ listed \subseteq listed'
    /\ \A p \in Packages : /\ task[p].state # "none" => task'[p].state # "none" /\ task'[p].source = task[p].source
                           /\ task[p].state = "succeeded" => task'[p].state = "succeeded"
                           /\ item[p] => item'[p]

Own(q) == /\ importer'[q] = importer[q] /\ journal'[q] = journal[q] /\ manifest'[q] = manifest[q]
          /\ publication'[q] = publication[q] /\ completeMark'[q] = completeMark[q]

LEMMA JournalsKeep ==
    ASSUME BatchIInv, Grown, NEW r \in Importers, NEW p \in Packages, journal'[r][p] = journal[r][p]
    PROVE  JournalFacts(r, p)'
<1>1. JournalFacts(r, p) /\ JournalId(r, p)' = JournalId(r, p)
  BY DEF BatchIInv, JournalId
<1>. QED BY <1>1 DEF JournalFacts, Grown, Known

LEMMA OwnKeep ==
    ASSUME BatchIInv, Grown, NEW q \in Importers, Own(q),
           report' = report \/ importer[q].at \in {"idle", "never"}
    PROVE  PackageFacts(q)' /\ DirectoryFacts(q)' /\ \A p \in Packages : JournalFacts(q, p)'
<1>1. PackageFacts(q) /\ DirectoryFacts(q)
  BY DEF BatchIInv
<1>2. \A p \in Packages : JournalId(q, p)' = JournalId(q, p)
  BY DEF Own, JournalId
<1>3. manifest[q] \subseteq Packages /\ importer[q].entries \subseteq Packages
  BY DEF BatchIInv, BatchTypes
<1>4. PackageFacts(q)'
  BY <1>1, <1>2, <1>3 DEF PackageFacts, Own, Grown, Known, Source, Package, PackagePlaces, WritingPlaces
<1>5. DirectoryFacts(q)'
  BY <1>1 DEF DirectoryFacts, Own, Package, PackagePlaces, WritingPlaces, ClosingPlaces
<1>6. \A p \in Packages : JournalFacts(q, p)'
  BY JournalsKeep DEF Own
<1>. QED BY <1>4, <1>5, <1>6

LEMMA StepKeeps ==
    ASSUME BatchIInv, Grown, BatchTypes', report' = report, NEW r \in Importers,
           \A q \in Importers : q # r => Own(q), \A p \in Packages : RowFacts(p)',
           PackageFacts(r)', DirectoryFacts(r)', \A p \in Packages : JournalFacts(r, p)'
    PROVE  BatchIInv'
<1>1. \A q \in Importers : PackageFacts(q)' /\ DirectoryFacts(q)' /\ \A p \in Packages : JournalFacts(q, p)'
  BY OwnKeep
<1>. QED BY <1>1 DEF BatchIInv

LEMMA AdvancesKeep ==
    ASSUME BatchIInv, Grown, NEW r \in Importers, Package(r) \in Packages,
           NEW ph \in Confirmed..Committed, Advanced(r, ph),
           ph >= Published => Source(r) \in stored',
           ph >= Registered => Source(r) \in listed',
           ph >= Created => task'[Package(r)].state # "none"
                            /\ task'[Package(r)].source = JournalId(r, Package(r)),
           ph = Committed => item'[Package(r)] /\ task'[Package(r)].state = "succeeded"
    PROVE  \A p \in Packages : JournalFacts(r, p)'
<1>. SUFFICES ASSUME NEW p \in Packages
              PROVE  JournalFacts(r, p)'
  OBVIOUS
<1>1. JournalFacts(r, p) /\ JournalId(r, p)' = JournalId(r, p)
  BY DEF BatchIInv, Advanced
<1>2. CASE p # Package(r) \/ journal'[r][p].phase = journal[r][p].phase
  <2>1. journal'[r][p].phase = journal[r][p].phase
    BY <1>2 DEF Advanced
  <2>. QED BY <1>1, <2>1 DEF JournalFacts, Grown, Known
<1>3. CASE p = Package(r) /\ journal'[r][p].phase = ph
  BY <1>1, <1>3 DEF JournalFacts, Known, Source
<1>. QED BY <1>2, <1>3 DEF Advanced

(* A step inside of a package: what it must show for the place it leads to. *)
LEMMA PackageStepKeeps ==
    ASSUME BatchIInv, Grown, NEW r \in Importers, importer[r].at \in PackagePlaces,
           UNCHANGED <<manifest, publication, completeMark, report>>,
           NEW place, NEW entries, NEW failed, Arrives(r, place, entries, failed),
           \/ place \in PackagePlaces \ {"read"} /\ entries = importer[r].entries /\ failed = importer[r].failed
           \/ place = "next" /\ entries = importer[r].entries /\ failed = TRUE
           \/ /\ place = "next" /\ entries = importer[r].entries \cup {Package(r)} /\ failed = importer[r].failed
              /\ task'[Package(r)].state = "succeeded",
           journal' \in [Importers -> [Packages -> JournalFiles]],
           \A q \in Importers : q # r => journal'[q] = journal[q],
           JournalId(r, Package(r))' = JournalId(r, Package(r)),
           \/ place = "next" \/ journal'[r][Package(r)].file = "v2" \/ journal'[r][Package(r)].sidecar,
           stored' \in SUBSET (Packages \X Identifiers), listed' \in SUBSET (Packages \X Identifiers),
           task' \in [Packages -> {NoTask} \cup TaskRows], item' \in [Packages -> BOOLEAN],
           problems' \in [Packages -> Nat], doubt' \in SUBSET Packages,
           \A p \in Packages : RowFacts(p)',
           place \in {"register", "create"} => Source(r) \in stored',
           place = "create" => Source(r) \in listed',
           place \in WritingPlaces => task'[Package(r)].state # "none"
                                      /\ task'[Package(r)].source = JournalId(r, Package(r)),
           place = "complete" => item'[Package(r)],
           \A p \in Packages : JournalFacts(r, p)'
    PROVE  BatchIInv'
<1>0. BatchTypes /\ PackageFacts(r) /\ DirectoryFacts(r) /\ Package(r) \in Packages
  BY DEF BatchIInv, PackageFacts
<1>1. BatchTypes'
  BY <1>0 DEF BatchTypes, Arrives, ImporterRows
<1>2. \A q \in Importers : q # r => Own(q)
  BY DEF Own, Arrives
<1>3. /\ Package(r)' = Package(r) /\ Source(r)' = Source(r) /\ importer'[r].at = place
      /\ importer'[r].left = importer[r].left /\ importer'[r].entries = entries /\ importer'[r].failed = failed
  BY DEF Arrives, Package, Source
<1>4. \A p \in entries \cup manifest[r] : task'[p].state = "succeeded"
  <2>1. importer[r].entries \cup manifest[r] \subseteq Packages
    BY <1>0 DEF BatchTypes
  <2>. QED BY <1>0, <2>1 DEF PackageFacts, Grown
<1>5. PackageFacts(r)'
  BY <1>0, <1>3, <1>4 DEF PackageFacts, PackagePlaces, WritingPlaces, Known
<1>6. DirectoryFacts(r)'
  <2>1. place \notin ClosingPlaces /\ importer[r].at \notin ClosingPlaces
    BY DEF ClosingPlaces, PackagePlaces, WritingPlaces
  <2>2. place \in {"next"} \cup PackagePlaces /\ ~failed =>
            report = entries \cup importer[r].left
                         \cup (IF place \in PackagePlaces THEN {Package(r)} ELSE {})
    <3>1. ~importer[r].failed => report = importer[r].entries \cup importer[r].left \cup {Package(r)}
      BY <1>0 DEF DirectoryFacts
    <3>2. "next" \notin PackagePlaces
      BY DEF PackagePlaces, WritingPlaces
    <3>. QED BY <3>1, <3>2
  <2>3. report' = report /\ manifest' = manifest /\ publication' = publication /\ completeMark' = completeMark
    OBVIOUS
  <2>4. {"promise", "list", "confirm", "announce", "mark", "finish"} \subseteq ClosingPlaces
    BY DEF ClosingPlaces
  <2>5. /\ publication[r].phase >= 2 => manifest[r] = publication[r].entries
        /\ completeMark[r] # {} => completeMark[r] = manifest[r]
    BY <1>0 DEF DirectoryFacts
  <2>. QED BY <1>3, <2>1, <2>2, <2>3, <2>4, <2>5 DEF DirectoryFacts
<1>. QED BY <1>1, <1>2, <1>5, <1>6, StepKeeps

(* The row of a task once its fields are written.                          *)
LEMMA RowWritten ==
    ASSUME BatchTypes, NEW p \in Packages, task[p].state # "none",
           NEW st \in {"queued", "running", "succeeded", "failed"}, NEW o \in Importers, NEW l \in BOOLEAN,
           \/ task' = [task EXCEPT ![p].state = st, ![p].owner = o, ![p].live = l]
           \/ task' = [task EXCEPT ![p].state = st] /\ l = task[p].live
           \/ task' = [task EXCEPT ![p].live = l] /\ st = task[p].state
    PROVE  /\ task' \in [Packages -> {NoTask} \cup TaskRows]
           /\ task'[p].state = st /\ task'[p].source = task[p].source
           /\ \A q \in Packages : q # p => task'[q] = task[q]
<1>1. task \in [Packages -> {NoTask} \cup TaskRows] /\ task[p] \in TaskRows
  BY DEF BatchTypes, NoTask
<1>2. PICK row : /\ row \in TaskRows /\ row.state = st /\ row.source = task[p].source
                 /\ task' = [task EXCEPT ![p] = row]
  <2>1. CASE task' = [task EXCEPT ![p].state = st, ![p].owner = o, ![p].live = l]
    <3>1. PICK row : row = [task[p] EXCEPT !.state = st, !.owner = o, !.live = l]
      OBVIOUS
    <3>2. row \in TaskRows /\ row.state = st /\ row.source = task[p].source
      BY <1>1, <3>1 DEF TaskRows
    <3>3. task' = [task EXCEPT ![p] = row]
      BY <1>1, <2>1, <3>1
    <3>. QED BY <3>2, <3>3
  <2>2. CASE task' = [task EXCEPT ![p].state = st]
    <3>1. PICK row : row = [task[p] EXCEPT !.state = st]
      OBVIOUS
    <3>2. row \in TaskRows /\ row.state = st /\ row.source = task[p].source
      BY <1>1, <3>1 DEF TaskRows
    <3>3. task' = [task EXCEPT ![p] = row]
      BY <1>1, <2>2, <3>1
    <3>. QED BY <3>2, <3>3
  <2>3. CASE task' = [task EXCEPT ![p].live = l] /\ st = task[p].state
    <3>1. PICK row : row = [task[p] EXCEPT !.live = l]
      OBVIOUS
    <3>2. row \in TaskRows /\ row.state = st /\ row.source = task[p].source
      BY <1>1, <2>3, <3>1 DEF TaskRows
    <3>3. task' = [task EXCEPT ![p] = row]
      BY <1>1, <2>3, <3>1
    <3>. QED BY <3>2, <3>3
  <2>. QED BY <2>1, <2>2, <2>3
<1>. QED BY <1>1, <1>2

(* A task that is not finished may be written: nothing else changes.       *)
LEMMA TaskMoves ==
    ASSUME BatchIInv, NEW p \in Packages, task' \in [Packages -> {NoTask} \cup TaskRows],
           task[p].state \notin {"none", "succeeded"}, task'[p].state # "none",
           task'[p].source = task[p].source, \A q \in Packages : q # p => task'[q] = task[q],
           task'[p].state = "succeeded" => item[p],
           UNCHANGED <<stored, listed, item, problems, doubt>>
    PROVE  Grown /\ \A q \in Packages : RowFacts(q)'
<1>1. \A q \in Packages : RowFacts(q)
  BY DEF BatchIInv
<1>2. Grown
  BY DEF Grown
<1>3. ASSUME NEW q \in Packages
      PROVE  RowFacts(q)'
  <2>1. CASE q = p
    BY <1>1, <2>1 DEF RowFacts
  <2>2. CASE q # p
    BY <1>1, <2>2 DEF RowFacts
  <2>. QED BY <2>1, <2>2
<1>. QED BY <1>2, <1>3

LEMMA DatabaseStill ==
    ASSUME BatchIInv, UNCHANGED <<stored, listed, task, item, problems, doubt>>
    PROVE  /\ Grown /\ \A q \in Packages : RowFacts(q)'
           /\ stored' \in SUBSET (Packages \X Identifiers) /\ listed' \in SUBSET (Packages \X Identifiers)
           /\ task' \in [Packages -> {NoTask} \cup TaskRows] /\ item' \in [Packages -> BOOLEAN]
           /\ problems' \in [Packages -> Nat] /\ doubt' \in SUBSET Packages
<1>1. Grown
  BY DEF Grown
<1>2. \A q \in Packages : RowFacts(q)'
  BY DEF BatchIInv, RowFacts
<1>. QED BY <1>1, <1>2 DEF BatchIInv, BatchTypes

LEMMA JournalStill ==
    ASSUME BatchIInv, Grown, NEW r \in Importers, UNCHANGED journal
    PROVE  /\ journal' \in [Importers -> [Packages -> JournalFiles]]
           /\ \A q \in Importers : q # r => journal'[q] = journal[q]
           /\ JournalId(r, Package(r))' = JournalId(r, Package(r)) \/ Package(r)' # Package(r)
           /\ \A p \in Packages : JournalFacts(r, p)'
<1>1. \A p \in Packages : JournalFacts(r, p)'
  BY JournalsKeep
<1>. QED BY <1>1 DEF BatchIInv, BatchTypes, JournalId

(* The package is given up: the next one follows.                          *)
LEMMA FailingKeeps ==
    ASSUME BatchIInv, Grown, NEW r \in Importers, importer[r].at \in PackagePlaces, PackageFails(r),
           UNCHANGED <<journal, manifest, publication, completeMark, report>>,
           stored' \in SUBSET (Packages \X Identifiers), listed' \in SUBSET (Packages \X Identifiers),
           task' \in [Packages -> {NoTask} \cup TaskRows], item' \in [Packages -> BOOLEAN],
           problems' \in [Packages -> Nat], doubt' \in SUBSET Packages,
           \A p \in Packages : RowFacts(p)'
    PROVE  BatchIInv'
<1>1. BatchTypes /\ Package(r) \in Packages
  BY DEF BatchIInv, PackageFacts
<1>2. Arrives(r, "next", importer[r].entries, TRUE)
  BY <1>1, Failing
<1>3. Package(r)' = Package(r) /\ journal' = journal
  BY <1>2 DEF Arrives, Package
<1>4. JournalId(r, Package(r))' = JournalId(r, Package(r))
  BY <1>3 DEF JournalId
<1>5. "next" \notin WritingPlaces
  BY DEF WritingPlaces
<1>. QED BY <1>1, <1>2, <1>4, <1>5, JournalStill, PackageStepKeeps

(* The importer goes on within the package, its journal moved or not.      *)
LEMMA GoingKeeps ==
    ASSUME BatchIInv, Grown, NEW r \in Importers, importer[r].at \in PackagePlaces \ {"read"},
           NEW place \in PackagePlaces \ {"read"}, Go(r, place),
           NEW ph \in Confirmed..Committed, AdvanceJournal(r, ph) \/ UNCHANGED journal,
           UNCHANGED <<manifest, publication, completeMark, report>>,
           stored' \in SUBSET (Packages \X Identifiers), listed' \in SUBSET (Packages \X Identifiers),
           task' \in [Packages -> {NoTask} \cup TaskRows], item' \in [Packages -> BOOLEAN],
           problems' \in [Packages -> Nat], doubt' \in SUBSET Packages,
           \A p \in Packages : RowFacts(p)',
           ph >= Published => Source(r) \in stored',
           ph >= Registered => Source(r) \in listed',
           ph >= Created => Source(r) \in listed' /\ task'[Package(r)].state # "none"
                                /\ task'[Package(r)].source = JournalId(r, Package(r)),
           ph = Committed => item'[Package(r)] /\ task'[Package(r)].state = "succeeded",
           place \in {"register", "create"} => Source(r) \in stored',
           place = "create" => Source(r) \in listed',
           place \in WritingPlaces => task'[Package(r)].state # "none"
                                      /\ task'[Package(r)].source = JournalId(r, Package(r)),
           place = "complete" => item'[Package(r)]
    PROVE  BatchIInv'
<1>1. /\ BatchTypes /\ Package(r) \in Packages
      /\ journal[r][Package(r)].file = "v2" \/ journal[r][Package(r)].sidecar
  BY DEF BatchIInv, PackageFacts
<1>2. Arrives(r, place, importer[r].entries, importer[r].failed)
  BY <1>1, Going DEF Places
<1>3. Package(r)' = Package(r)
  BY <1>2 DEF Arrives, Package
<1>4. CASE AdvanceJournal(r, ph)
  <2>1. Advanced(r, ph)
    BY <1>1, <1>4, Advancing
  <2>2. \A p \in Packages : JournalFacts(r, p)'
    BY <1>1, <2>1, AdvancesKeep
  <2>3. JournalId(r, Package(r))' = JournalId(r, Package(r))
    BY <1>1, <1>3, <2>1 DEF Advanced
  <2>. QED BY <1>1, <1>2, <2>1, <2>2, <2>3, PackageStepKeeps DEF Advanced
<1>5. CASE UNCHANGED journal
  <2>1. JournalId(r, Package(r))' = JournalId(r, Package(r))
    BY <1>3, <1>5 DEF JournalId
  <2>2. journal'[r][Package(r)].file = "v2" \/ journal'[r][Package(r)].sidecar
    BY <1>1, <1>5
  <2>. QED BY <1>1, <1>2, <1>5, <2>1, <2>2, JournalStill, PackageStepKeeps
<1>. QED BY <1>4, <1>5

(* The package is imported: its entry joins the list of the run.           *)
LEMMA DoneKeeps ==
    ASSUME BatchIInv, Grown, NEW r \in Importers, importer[r].at \in WritingPlaces, PackageDone(r),
           UNCHANGED <<manifest, publication, completeMark, report>>,
           stored' \in SUBSET (Packages \X Identifiers), listed' \in SUBSET (Packages \X Identifiers),
           task' \in [Packages -> {NoTask} \cup TaskRows], item' \in [Packages -> BOOLEAN],
           problems' \in [Packages -> Nat], doubt' \in SUBSET Packages,
           \A p \in Packages : RowFacts(p)', task'[Package(r)].state = "succeeded"
    PROVE  BatchIInv'
<1>1. /\ BatchTypes /\ Package(r) \in Packages /\ Known(r, Package(r))
      /\ journal[r][Package(r)].file = "v2" \/ journal[r][Package(r)].sidecar
      /\ importer[r].at \in PackagePlaces
  BY DEF BatchIInv, PackageFacts, PackagePlaces, WritingPlaces
<1>2. Arrives(r, "next", importer[r].entries \cup {Package(r)}, importer[r].failed)
  <2>1. importer \in [Importers -> ImporterRows] /\ importer[r] \in ImporterRows
    BY <1>1 DEF BatchTypes, ImporterRows
  <2>2. PICK row : row = [importer[r] EXCEPT !.at = "next", !.entries = @ \cup {Package(r)}]
    OBVIOUS
  <2>3. importer' = [importer EXCEPT ![r] = row]
    BY <2>1, <2>2 DEF PackageDone
  <2>4. /\ row \in ImporterRows /\ row.at = "next" /\ row.package = importer[r].package
        /\ row.left = importer[r].left /\ row.entries = importer[r].entries \cup {Package(r)}
        /\ row.failed = importer[r].failed
    BY <1>1, <2>1, <2>2 DEF ImporterRows, Places
  <2>5. importer'[r] = row /\ (\A q \in Importers : q # r => importer'[q] = importer[q])
    BY <2>1, <2>3
  <2>6. importer' \in [Importers -> ImporterRows]
    BY <2>1, <2>3, <2>4
  <2>. QED BY <2>4, <2>5, <2>6 DEF Arrives
<1>3. Package(r)' = Package(r)
  BY <1>2 DEF Arrives, Package
<1>4. Committed \in Confirmed..Committed
  BY DEF Confirmed, Committed
<1>5. Advanced(r, Committed)
  BY <1>1, <1>4, Advancing DEF PackageDone
<1>6. /\ task'[Package(r)].state # "none" /\ task'[Package(r)].source = JournalId(r, Package(r))
      /\ Source(r) \in stored' /\ Source(r) \in listed' /\ item'[Package(r)]
  BY <1>1 DEF Known, Grown, BatchIInv, RowFacts, Source
<1>7. \A p \in Packages : JournalFacts(r, p)'
  BY <1>1, <1>4, <1>5, <1>6, AdvancesKeep
<1>8. JournalId(r, Package(r))' = JournalId(r, Package(r))
  BY <1>1, <1>3, <1>5 DEF Advanced
<1>9. "next" \notin WritingPlaces
  BY DEF WritingPlaces
<1>10. /\ journal' \in [Importers -> [Packages -> JournalFiles]]
       /\ \A q \in Importers : q # r => journal'[q] = journal[q]
  BY <1>5 DEF Advanced
<1>11. PICK entries, failed : /\ entries = importer[r].entries \cup {Package(r)} /\ failed = importer[r].failed
                              /\ Arrives(r, "next", entries, failed)
  BY <1>2
<1>12. /\ "next" \in {"register", "create"} => Source(r) \in stored'
       /\ "next" = "create" => Source(r) \in listed'
       /\ "next" \in WritingPlaces => task'[Package(r)].state # "none"
                                     /\ task'[Package(r)].source = JournalId(r, Package(r))
       /\ "next" = "complete" => item'[Package(r)]
  BY <1>9
<1>. QED BY <1>1, <1>7, <1>8, <1>10, <1>11, <1>12, PackageStepKeeps

(* ReadPackage: the sidecar of a first version keeps the identifier.       *)
LEMMA ReadKeeps ==
    ASSUME BatchIInv, NEW r \in Importers, ReadPackage(r)
    PROVE  BatchIInv'
<1>1. /\ importer[r].at = "read" /\ importer[r].at \in PackagePlaces /\ BatchTypes /\ Package(r) \in Packages
      /\ UNCHANGED <<manifest, publication, completeMark, report>>
      /\ UNCHANGED <<stored, listed, task, item, problems, doubt>>
  BY DEF ReadPackage, At, PackagePlaces, BatchIInv, PackageFacts, worldVars, databaseVars
<1>2. PICK p \in Packages : p = Package(r)
  BY <1>1
<1>3. CASE PackageFails(r) /\ UNCHANGED journal
  BY <1>1, <1>3, DatabaseStill, FailingKeeps
<1>4. CASE Go(r, "replay") /\ journal' = [journal EXCEPT ![r][p] =
                                CASE journal[r][p].file = "none" -> [journal[r][p] EXCEPT !.file = "v2"]
                                  [] journal[r][p].file = "v1" -> [journal[r][p] EXCEPT !.sidecar = TRUE]
                                  [] OTHER -> journal[r][p]]
  <2>1. /\ journal \in [Importers -> [Packages -> JournalFiles]]
        /\ journal[r] \in [Packages -> JournalFiles] /\ journal[r][p] \in JournalFiles
    BY <1>1 DEF BatchTypes
  <2>2. PICK j : j = CASE journal[r][p].file = "none" -> [journal[r][p] EXCEPT !.file = "v2"]
                       [] journal[r][p].file = "v1" -> [journal[r][p] EXCEPT !.sidecar = TRUE]
                       [] OTHER -> journal[r][p]
    OBVIOUS
  <2>3. /\ j \in JournalFiles /\ j.phase = journal[r][p].phase
        /\ j.file = "v2" \/ j.sidecar
        /\ (j.file = "v1" \/ j.sidecar) <=> (journal[r][p].file = "v1" \/ journal[r][p].sidecar)
    <3>1. CASE journal[r][p].file = "none"
      <4>1. j = [journal[r][p] EXCEPT !.file = "v2"]
        BY <2>2, <3>1
      <4>. QED BY <2>1, <3>1, <4>1 DEF JournalFiles
    <3>2. CASE journal[r][p].file = "v1"
      <4>1. j = [journal[r][p] EXCEPT !.sidecar = TRUE]
        BY <2>2, <3>2
      <4>. QED BY <2>1, <3>2, <4>1 DEF JournalFiles
    <3>3. CASE journal[r][p].file = "v2"
      <4>1. j = journal[r][p]
        BY <2>2, <3>3
      <4>. QED BY <2>1, <3>3, <4>1
    <3>. QED BY <2>1, <3>1, <3>2, <3>3 DEF JournalFiles
  <2>4. PICK js : js = [journal[r] EXCEPT ![p] = j]
    OBVIOUS
  <2>5. journal' = [journal EXCEPT ![r] = js]
    BY <1>4, <2>1, <2>2, <2>4
  <2>6. js \in [Packages -> JournalFiles] /\ js[p] = j /\ (\A s \in Packages : s # p => js[s] = journal[r][s])
    BY <2>1, <2>3, <2>4
  <2>7. /\ journal' \in [Importers -> [Packages -> JournalFiles]] /\ journal'[r] = js
        /\ \A q \in Importers : q # r => journal'[q] = journal[q]
    BY <2>1, <2>5, <2>6
  <2>8. \A s \in Packages : JournalId(r, s)' = JournalId(r, s)
    BY <2>3, <2>6, <2>7 DEF JournalId
  <2>9. Advanced(r, journal[r][p].phase)
    <3>1. ASSUME NEW q \in Importers, NEW s \in Packages
          PROVE  JournalId(q, s)' = JournalId(q, s)
      BY <2>7, <2>8 DEF JournalId
    <3>. QED BY <1>2, <2>3, <2>6, <2>7, <3>1 DEF Advanced
  <2>10. /\ Grown /\ \A q \in Packages : RowFacts(q)'
         /\ stored' \in SUBSET (Packages \X Identifiers) /\ listed' \in SUBSET (Packages \X Identifiers)
         /\ task' \in [Packages -> {NoTask} \cup TaskRows] /\ item' \in [Packages -> BOOLEAN]
         /\ problems' \in [Packages -> Nat] /\ doubt' \in SUBSET Packages
    BY <1>1, DatabaseStill
  <2>11. \A s \in Packages : JournalFacts(r, s)'
    <3>1. ASSUME NEW s \in Packages PROVE JournalFacts(r, s)'
      <4>1. JournalFacts(r, s) /\ journal'[r][s].phase = journal[r][s].phase
        BY <2>3, <2>6, <2>7 DEF BatchIInv
      <4>. QED BY <1>1, <2>8, <4>1 DEF JournalFacts, Known
    <3>. QED BY <3>1
  <2>12. Arrives(r, "replay", importer[r].entries, importer[r].failed)
    BY <1>1, <1>4, Going DEF Places, PackagePlaces
  <2>13. JournalId(r, Package(r))' = JournalId(r, Package(r))
    BY <1>1, <2>8, <2>12 DEF Arrives, Package
  <2>14. "replay" \in PackagePlaces \ {"read"} /\ "replay" \notin WritingPlaces
    BY DEF PackagePlaces, WritingPlaces
  <2>15. journal'[r][Package(r)].file = "v2" \/ journal'[r][Package(r)].sidecar
    BY <1>2, <2>3, <2>6, <2>7
  <2>16. PICK entries, failed : /\ entries = importer[r].entries /\ failed = importer[r].failed
                                /\ Arrives(r, "replay", entries, failed)
    BY <2>12
  <2>17. "replay" \notin {"register", "create", "complete"}
    OBVIOUS
  <2>18. /\ journal' \in [Importers -> [Packages -> JournalFiles]]
         /\ \A q \in Importers : q # r => journal'[q] = journal[q]
    BY <2>7
  <2>. QED BY <1>1, <2>10, <2>11, <2>13, <2>14, <2>15, <2>16, <2>17, <2>18, PackageStepKeeps
<1>. QED BY <1>2, <1>3, <1>4 DEF ReadPackage

LEMMA ReplayKeeps ==
    ASSUME BatchIInv, NEW r \in Importers, CheckReplay(r)
    PROVE  BatchIInv'
<1>1. /\ importer[r].at = "replay" /\ importer[r].at \in PackagePlaces \ {"read"}
      /\ UNCHANGED <<manifest, publication, completeMark, report>>
      /\ UNCHANGED <<stored, listed, task, item, problems, doubt>>
  BY DEF CheckReplay, At, PackagePlaces, worldVars, databaseVars
<1>2. CASE PackageFails(r) /\ UNCHANGED journal
  BY <1>1, <1>2, DatabaseStill, FailingKeeps
<1>3. CASE Go(r, "store") /\ AdvanceJournal(r, Publishing)
  <2>1. /\ Publishing \in Confirmed..Committed /\ Publishing < Published /\ Publishing < Registered
        /\ Publishing < Created /\ Publishing # Committed
        /\ ~(Publishing >= Published) /\ ~(Publishing >= Registered) /\ ~(Publishing >= Created)
    BY DEF Publishing, Published, Registered, Created, Committed, Confirmed
  <2>2. "store" \in PackagePlaces \ {"read"} /\ "store" \notin WritingPlaces
    BY DEF PackagePlaces, WritingPlaces
  <2>. QED BY <1>1, <1>3, <2>1, <2>2, DatabaseStill, GoingKeeps
<1>. QED BY <1>2, <1>3 DEF CheckReplay

(* A step that adds an object or a row of stored_files.                    *)
LEMMA SourceAdded ==
    ASSUME BatchIInv, NEW r \in Importers, Package(r) \in Packages,
           stored' \in {stored, stored \cup {Source(r)}}, listed' \in {listed, listed \cup {Source(r)}},
           UNCHANGED <<task, item, problems, doubt>>
    PROVE  /\ Grown /\ \A q \in Packages : RowFacts(q)'
           /\ stored' \in SUBSET (Packages \X Identifiers) /\ listed' \in SUBSET (Packages \X Identifiers)
           /\ task' \in [Packages -> {NoTask} \cup TaskRows] /\ item' \in [Packages -> BOOLEAN]
           /\ problems' \in [Packages -> Nat] /\ doubt' \in SUBSET Packages
<1>1. BatchTypes /\ \A q \in Packages : RowFacts(q)
  BY DEF BatchIInv
<1>2. Source(r) \in Packages \X Identifiers
  BY DEF Source, JournalId, Identifiers, Drawn
<1>3. Grown
  BY DEF Grown
<1>4. \A q \in Packages : RowFacts(q)'
  BY <1>1 DEF RowFacts
<1>. QED BY <1>1, <1>2, <1>3, <1>4 DEF BatchTypes

LEMMA PublishKeeps ==
    ASSUME BatchIInv, NEW r \in Importers, PublishPackage(r)
    PROVE  BatchIInv'
<1>1. /\ importer[r].at = "store" /\ importer[r].at \in PackagePlaces \ {"read"} /\ Package(r) \in Packages
      /\ UNCHANGED <<manifest, publication, completeMark, report>>
      /\ UNCHANGED <<listed, task, item, problems, doubt>> /\ stored' = stored \cup {Source(r)}
      /\ Go(r, "register") /\ AdvanceJournal(r, Registering)
  BY DEF PublishPackage, At, PackagePlaces, worldVars, databaseVars, BatchIInv, PackageFacts
<1>2. /\ Registering \in Confirmed..Committed /\ Registering # Committed
      /\ ~(Registering >= Registered) /\ ~(Registering >= Created)
  BY DEF Registering, Registered, Created, Committed, Confirmed
<1>3. "register" \in PackagePlaces \ {"read"} /\ "register" \notin WritingPlaces
  BY DEF PackagePlaces, WritingPlaces
<1>. QED BY <1>1, <1>2, <1>3, SourceAdded, GoingKeeps

LEMMA RegisterKeeps ==
    ASSUME BatchIInv, NEW r \in Importers, RegisterFile(r)
    PROVE  BatchIInv'
<1>1. /\ importer[r].at = "register" /\ importer[r].at \in PackagePlaces \ {"read"} /\ Package(r) \in Packages
      /\ UNCHANGED <<manifest, publication, completeMark, report>> /\ Source(r) \in stored
      /\ UNCHANGED <<stored, task, item, problems, doubt>> /\ listed' = listed \cup {Source(r)}
      /\ Go(r, "create") /\ AdvanceJournal(r, Creating)
  BY DEF RegisterFile, At, PackagePlaces, worldVars, databaseVars, BatchIInv, PackageFacts
<1>2. /\ Creating \in Confirmed..Committed /\ Creating # Committed /\ ~(Creating >= Created)
  BY DEF Creating, Created, Committed, Confirmed
<1>3. "create" \in PackagePlaces \ {"read"} /\ "create" \notin WritingPlaces
  BY DEF PackagePlaces, WritingPlaces
<1>. QED BY <1>1, <1>2, <1>3, SourceAdded, GoingKeeps

(* The task is created for what has been stored and listed, or it exists.  *)
LEMMA TaskAdded ==
    ASSUME BatchIInv, NEW r \in Importers, importer[r].at = "create", TaskCreated(r) \/ UNCHANGED task,
           UNCHANGED <<stored, listed, item, problems, doubt>>
    PROVE  /\ Grown /\ \A q \in Packages : RowFacts(q)'
           /\ stored' \in SUBSET (Packages \X Identifiers) /\ listed' \in SUBSET (Packages \X Identifiers)
           /\ task' \in [Packages -> {NoTask} \cup TaskRows] /\ item' \in [Packages -> BOOLEAN]
           /\ problems' \in [Packages -> Nat] /\ doubt' \in SUBSET Packages
           /\ TaskCreated(r) => task'[Package(r)].state # "none"
<1>1. /\ BatchTypes /\ Package(r) \in Packages /\ Source(r) \in stored /\ Source(r) \in listed
      /\ \A q \in Packages : RowFacts(q)
  BY DEF BatchIInv, PackageFacts, PackagePlaces
<1>2. CASE UNCHANGED task /\ ~TaskCreated(r)
  BY <1>2, DatabaseStill
<1>3. CASE task[Package(r)].state # "none" /\ task' = task
  BY <1>3, DatabaseStill
<1>4. CASE task[Package(r)].state = "none" /\ task' = [task EXCEPT ![Package(r)] = NewTask(r)]
  <2>1. PICK row : row = NewTask(r)
    OBVIOUS
  <2>2. /\ row \in TaskRows /\ row.state = "queued" /\ <<Package(r), row.source>> = Source(r)
    BY <2>1 DEF NewTask, TaskRows, Source, JournalId, Identifiers, Drawn
  <2>3. /\ task' \in [Packages -> {NoTask} \cup TaskRows] /\ task'[Package(r)] = row
        /\ \A q \in Packages : q # Package(r) => task'[q] = task[q]
    BY <1>1, <1>4, <2>1, <2>2 DEF BatchTypes
  <2>4. Grown
    BY <1>4, <2>3 DEF Grown
  <2>5. \A q \in Packages : RowFacts(q)'
    BY <1>1, <1>4, <2>2, <2>3 DEF RowFacts
  <2>. QED BY <1>1, <2>2, <2>3, <2>4, <2>5 DEF BatchTypes
<1>. QED BY <1>2, <1>3, <1>4 DEF TaskCreated

LEMMA CreateKeeps ==
    ASSUME BatchIInv, NEW r \in Importers, CreateTask(r)
    PROVE  BatchIInv'
<1>1. /\ importer[r].at = "create" /\ importer[r].at \in PackagePlaces \ {"read"} /\ Package(r) \in Packages
      /\ UNCHANGED <<manifest, publication, completeMark, report>>
      /\ UNCHANGED <<stored, listed, item, problems, doubt>> /\ TaskCreated(r)
      /\ Source(r) \in stored /\ Source(r) \in listed
  BY DEF CreateTask, At, PackagePlaces, worldVars, BatchIInv, PackageFacts
<1>2. /\ Grown /\ \A q \in Packages : RowFacts(q)'
      /\ stored' \in SUBSET (Packages \X Identifiers) /\ listed' \in SUBSET (Packages \X Identifiers)
      /\ task' \in [Packages -> {NoTask} \cup TaskRows] /\ item' \in [Packages -> BOOLEAN]
      /\ problems' \in [Packages -> Nat] /\ doubt' \in SUBSET Packages
      /\ task'[Package(r)].state # "none"
  BY <1>1, TaskAdded
<1>3. CASE PackageFails(r) /\ UNCHANGED journal
  BY <1>1, <1>2, <1>3, FailingKeeps
<1>4. CASE task'[Package(r)].source = Source(r)[2] /\ Go(r, "claim") /\ AdvanceJournal(r, Created)
  <2>1. task'[Package(r)].source = JournalId(r, Package(r)) /\ Created \in Confirmed..Committed /\ Created # Committed
    BY <1>4 DEF Source, Created, Committed, Confirmed
  <2>2. "claim" \in PackagePlaces \ {"read"} /\ "claim" \notin {"register", "create", "complete"}
    BY DEF PackagePlaces, WritingPlaces
  <2>. QED BY <1>1, <1>2, <1>4, <2>1, <2>2, GoingKeeps
<1>. QED BY <1>3, <1>4 DEF CreateTask

(* At a writing place the task exists, for this importer's identifier.     *)
LEMMA AtWriting ==
    ASSUME BatchIInv, NEW r \in Importers, importer[r].at \in WritingPlaces
    PROVE  /\ importer[r].at \in PackagePlaces \ {"read"} /\ Package(r) \in Packages
           /\ task[Package(r)].state # "none" /\ task[Package(r)].source = JournalId(r, Package(r))
           /\ Source(r) \in stored /\ Source(r) \in listed
           /\ importer[r].at = "complete" => item[Package(r)]
<1>1. importer[r].at \in PackagePlaces \ {"read"}
  BY DEF PackagePlaces, WritingPlaces
<1>. QED BY <1>1 DEF BatchIInv, PackageFacts, Known, RowFacts, Source

LEMMA WritingNames ==
    /\ WritingPlaces \subseteq PackagePlaces \ {"read"}
    /\ \A place \in WritingPlaces : place \notin {"register", "create", "next"}
    /\ Committing \in Confirmed..Committed /\ Committing # Committed
BY DEF PackagePlaces, WritingPlaces, Committing, Committed, Confirmed

(* A step among the writing places.                                        *)
LEMMA WritingKeeps ==
    ASSUME BatchIInv, Grown, NEW r \in Importers, importer[r].at \in WritingPlaces,
           NEW place \in WritingPlaces, Go(r, place), AdvanceJournal(r, Committing) \/ UNCHANGED journal,
           UNCHANGED <<manifest, publication, completeMark, report>>,
           stored' \in SUBSET (Packages \X Identifiers), listed' \in SUBSET (Packages \X Identifiers),
           task' \in [Packages -> {NoTask} \cup TaskRows], item' \in [Packages -> BOOLEAN],
           problems' \in [Packages -> Nat], doubt' \in SUBSET Packages,
           \A p \in Packages : RowFacts(p)',
           place = "complete" => item'[Package(r)]
    PROVE  BatchIInv'
<1>1. /\ importer[r].at \in PackagePlaces \ {"read"} /\ Package(r) \in Packages
      /\ Source(r) \in stored' /\ Source(r) \in listed'
      /\ task'[Package(r)].state # "none" /\ task'[Package(r)].source = JournalId(r, Package(r))
  BY AtWriting DEF Grown
<1>2. /\ place \in PackagePlaces \ {"read"} /\ place \notin {"register", "create"}
      /\ Committing \in Confirmed..Committed /\ Committing # Committed
  BY WritingNames
<1>. QED BY <1>1, <1>2, GoingKeeps

(* The lease of a task is drawn by this process.                           *)
LEMMA ClaimedKeeps ==
    ASSUME BatchIInv, NEW r \in Importers, importer[r].at \in WritingPlaces, Unlocked(Package(r)),
           Claimable(Package(r)), task' = Claimed(r), UNCHANGED <<stored, listed, item, problems, doubt>>
    PROVE  Grown /\ task' \in [Packages -> {NoTask} \cup TaskRows] /\ \A q \in Packages : RowFacts(q)'
<1>1. BatchTypes /\ Package(r) \in Packages /\ task[Package(r)].state \notin {"none", "succeeded"}
  BY AtWriting DEF BatchIInv, Claimable
<1>2. PICK p \in Packages : p = Package(r)
  BY <1>1
<1>3. task' = [task EXCEPT ![p].state = "running", ![p].owner = r, ![p].live = TRUE]
  BY <1>2, SMTT(30) DEF Claimed
<1>4. /\ task' \in [Packages -> {NoTask} \cup TaskRows]
      /\ task'[p].state = "running" /\ task'[p].source = task[p].source
      /\ \A q \in Packages : q # p => task'[q] = task[q]
  BY <1>1, <1>2, <1>3, RowWritten
<1>. QED BY <1>1, <1>2, <1>4, TaskMoves

LEMMA ClaimTaskKeeps ==
    ASSUME BatchIInv, NEW r \in Importers, ClaimTask(r)
    PROVE  BatchIInv'
<1>1. /\ importer[r].at = "claim" /\ importer[r].at \in WritingPlaces /\ importer[r].at \in PackagePlaces
      /\ Unlocked(Package(r)) /\ UNCHANGED <<manifest, publication, completeMark, report>>
      /\ UNCHANGED <<stored, listed, item, problems, doubt>>
  BY DEF ClaimTask, At, WritingPlaces, PackagePlaces, worldVars
<1>2. CASE PackageFails(r) /\ UNCHANGED journal /\ UNCHANGED task
  BY <1>1, <1>2, DatabaseStill, FailingKeeps
<1>3. CASE PackageDone(r) /\ UNCHANGED task /\ task[Package(r)].state = "succeeded"
  <2>1. task'[Package(r)].state = "succeeded"
    BY <1>3
  <2>. QED BY <1>1, <1>3, <2>1, DatabaseStill, DoneKeeps
<1>4. CASE Claimable(Package(r)) /\ task' = Claimed(r) /\ Go(r, "authorize") /\ AdvanceJournal(r, Committing)
  <2>1. Grown /\ task' \in [Packages -> {NoTask} \cup TaskRows] /\ \A q \in Packages : RowFacts(q)'
    BY <1>1, <1>4, ClaimedKeeps
  <2>2. "authorize" \in WritingPlaces
    BY DEF WritingPlaces
  <2>3. /\ stored' \in SUBSET (Packages \X Identifiers) /\ listed' \in SUBSET (Packages \X Identifiers)
        /\ item' \in [Packages -> BOOLEAN] /\ problems' \in [Packages -> Nat] /\ doubt' \in SUBSET Packages
    BY <1>1 DEF BatchIInv, BatchTypes
  <2>. QED BY <1>1, <1>4, <2>1, <2>2, <2>3, WritingKeeps
<1>. QED BY <1>2, <1>3, <1>4 DEF ClaimTask

LEMMA AuthorizeKeeps ==
    ASSUME BatchIInv, NEW r \in Importers, Authorize(r) \/ CatchWriter(r)
    PROVE  BatchIInv'
<1>1. /\ importer[r].at \in {"authorize", "caught"} /\ importer[r].at \in WritingPlaces
      /\ UNCHANGED <<journal, manifest, publication, completeMark, report>>
      /\ UNCHANGED <<stored, listed, task, item, problems, doubt>>
  BY DEF Authorize, CatchWriter, At, WritingPlaces, worldVars, databaseVars, directoryVars
<1>2. PICK place \in WritingPlaces : Go(r, place) /\ (place = "complete" => item[Package(r)])
  <2>1. {"caught", "complete", "write", "fail"} \subseteq WritingPlaces
    BY DEF WritingPlaces
  <2>2. CASE Authorize(r)
    <3>1. CASE ~mayImport
      BY <2>1, <2>2, <3>1 DEF Authorize
    <3>2. CASE mayImport /\ item[Package(r)]
      BY <2>1, <2>2, <3>2 DEF Authorize
    <3>3. CASE mayImport /\ ~item[Package(r)]
      BY <2>1, <2>2, <3>3 DEF Authorize
    <3>. QED BY <3>1, <3>2, <3>3
  <2>3. CASE CatchWriter(r)
    BY <2>1, <2>3 DEF CatchWriter
  <2>. QED BY <2>2, <2>3
<1>. QED BY <1>1, <1>2, DatabaseStill, WritingKeeps

(* An item is written once: nothing else writes it, and it had no problem. *)
LEMMA WrittenKeeps ==
    ASSUME BatchIInv, NEW p \in Packages, Written(p), ~item[p], doubt' \subseteq doubt, p \notin doubt',
           UNCHANGED <<stored, listed, task>>
    PROVE  /\ Grown /\ \A q \in Packages : RowFacts(q)'
           /\ stored' \in SUBSET (Packages \X Identifiers) /\ listed' \in SUBSET (Packages \X Identifiers)
           /\ task' \in [Packages -> {NoTask} \cup TaskRows] /\ item' \in [Packages -> BOOLEAN]
           /\ problems' \in [Packages -> Nat] /\ doubt' \in SUBSET Packages /\ item'[p]
<1>1. BatchTypes /\ \A q \in Packages : RowFacts(q)
  BY DEF BatchIInv
<1>2. /\ item' \in [Packages -> BOOLEAN] /\ item'[p] /\ \A q \in Packages : q # p => item'[q] = item[q]
      /\ problems' \in [Packages -> Nat] /\ problems'[p] = problems[p] + 1
      /\ \A q \in Packages : q # p => problems'[q] = problems[q]
  BY <1>1 DEF Written, BatchTypes
<1>3. Grown
  BY <1>2 DEF Grown
<1>4. ASSUME NEW q \in Packages
      PROVE  RowFacts(q)'
  <2>1. CASE q = p
    BY <1>1, <1>2, <2>1 DEF RowFacts
  <2>2. CASE q # p
    BY <1>1, <1>2, <2>2 DEF RowFacts
  <2>. QED BY <2>1, <2>2
<1>. QED BY <1>1, <1>2, <1>3, <1>4 DEF BatchTypes

LEMMA WriteKeeps ==
    ASSUME BatchIInv, NEW r \in Importers, WriteImported(r)
    PROVE  BatchIInv'
<1>1. /\ importer[r].at = "write" /\ importer[r].at \in WritingPlaces /\ Package(r) \in Packages
      /\ Unlocked(Package(r)) /\ UNCHANGED <<journal, manifest, publication, completeMark, report>>
      /\ UNCHANGED <<stored, listed, task, doubt>>
      /\ "complete" \in WritingPlaces /\ "caught" \in WritingPlaces
  BY AtWriting DEF WriteImported, At, WritingPlaces, worldVars, directoryVars
<1>2. CASE ~item[Package(r)] /\ Written(Package(r)) /\ Go(r, "complete")
  BY <1>1, <1>2, WrittenKeeps, WritingKeeps DEF Unlocked
<1>3. CASE Go(r, "complete") /\ item[Package(r)] /\ UNCHANGED <<item, problems>>
  <2>1. item'[Package(r)]
    BY <1>3
  <2>. QED BY <1>1, <1>3, <2>1, DatabaseStill, WritingKeeps
<1>4. CASE Go(r, "caught") /\ UNCHANGED <<item, problems>>
  BY <1>1, <1>4, DatabaseStill, WritingKeeps
<1>. QED BY <1>2, <1>3, <1>4 DEF WriteImported

LEMMA SettledKeeps ==
    ASSUME BatchIInv, NEW r \in Importers, CompleteTask(r) \/ FailTask(r)
    PROVE  BatchIInv'
<1>1. PICK state \in {"succeeded", "failed"} :
          Settled(r, state) /\ (state = "succeeded" => importer[r].at = "complete")
  BY DEF CompleteTask, FailTask, At
<1>2. /\ importer[r].at \in WritingPlaces /\ importer[r].at \in PackagePlaces /\ Package(r) \in Packages
      /\ importer[r].at = "complete" => item[Package(r)]
  <2>1. importer[r].at \in WritingPlaces
    BY DEF CompleteTask, FailTask, At, WritingPlaces
  <2>. QED BY <2>1, AtWriting
<1>3. /\ UNCHANGED <<manifest, publication, completeMark, report>>
      /\ UNCHANGED <<stored, listed, item, problems, doubt>>
  BY <1>1 DEF Settled, worldVars
<1>4. Grown /\ task' \in [Packages -> {NoTask} \cup TaskRows] /\ \A q \in Packages : RowFacts(q)'
  <2>1. CASE task' = task
    BY <1>3, <2>1, DatabaseStill
  <2>2. CASE Holds(r, Package(r)) /\ task' = [task EXCEPT ![Package(r)].state = state]
    <3>1. /\ BatchTypes /\ task[Package(r)].state = "running" /\ task[Package(r)].live \in BOOLEAN
          /\ task[Package(r)].state # "none"
      BY <1>2, <2>2, SMTT(30) DEF Holds, BatchIInv, BatchTypes, TaskRows, NoTask
    <3>2. PICK p \in Packages, l \in BOOLEAN : p = Package(r) /\ l = task[p].live
      BY <1>2, <3>1
    <3>3. state \in {"queued", "running", "succeeded", "failed"} /\ task' = [task EXCEPT ![p].state = state]
      BY <2>2, <3>2
    <3>4. /\ task' \in [Packages -> {NoTask} \cup TaskRows]
          /\ task'[p].state = state /\ task'[p].source = task[p].source
          /\ \A q \in Packages : q # p => task'[q] = task[q]
      BY <3>1, <3>2, <3>3, RowWritten
    <3>5. task'[p].state # "none" /\ task[p].state \notin {"none", "succeeded"}
          /\ (task'[p].state = "succeeded" => item[p])
      BY <1>1, <1>2, <3>1, <3>2, <3>4
    <3>. QED BY <1>3, <3>4, <3>5, TaskMoves
  <2>. QED BY <1>1, <2>1, <2>2 DEF Settled
<1>5. /\ stored' \in SUBSET (Packages \X Identifiers) /\ listed' \in SUBSET (Packages \X Identifiers)
      /\ item' \in [Packages -> BOOLEAN] /\ problems' \in [Packages -> Nat] /\ doubt' \in SUBSET Packages
  BY <1>3 DEF BatchIInv, BatchTypes
<1>6. CASE task'[Package(r)].state = "succeeded" /\ PackageDone(r)
  BY <1>2, <1>3, <1>4, <1>5, <1>6, DoneKeeps
<1>7. CASE PackageFails(r) /\ UNCHANGED journal
  BY <1>2, <1>3, <1>4, <1>5, <1>7, FailingKeeps
<1>. QED BY <1>1, <1>6, <1>7 DEF Settled

(* Steps that change only what the database says.                          *)
LEMMA DatabaseMoves ==
    ASSUME BatchIInv, Grown, UNCHANGED <<importer, journal, manifest, publication, completeMark>>,
           report' \in SUBSET Packages,
           report' = report \/ \A r \in Importers : importer[r].at \in {"idle", "never"},
           stored' \in SUBSET (Packages \X Identifiers), listed' \in SUBSET (Packages \X Identifiers),
           task' \in [Packages -> {NoTask} \cup TaskRows], item' \in [Packages -> BOOLEAN],
           problems' \in [Packages -> Nat], doubt' \in SUBSET Packages,
           \A p \in Packages : RowFacts(p)'
    PROVE  BatchIInv'
<1>1. BatchTypes'
  BY DEF BatchIInv, BatchTypes
<1>2. \A q \in Importers : Own(q)
  BY DEF Own
<1>3. \A q \in Importers : PackageFacts(q)' /\ DirectoryFacts(q)' /\ \A p \in Packages : JournalFacts(q, p)'
  BY <1>2, OwnKeep
<1>. QED BY <1>1, <1>3 DEF BatchIInv

(* A lease is renewed or runs out; its task stays with its owner.          *)
LEMMA LeaseMoves ==
    ASSUME BatchIInv, NEW p \in Packages, NEW l \in BOOLEAN, task[p].state = "running",
           task' = [task EXCEPT ![p].live = l], UNCHANGED <<stored, listed, item, problems, doubt>>
    PROVE  Grown /\ task' \in [Packages -> {NoTask} \cup TaskRows] /\ \A q \in Packages : RowFacts(q)'
<1>1. BatchTypes /\ task[p].owner \in Importers
  BY DEF BatchIInv, BatchTypes, TaskRows, NoTask
<1>2. /\ task' \in [Packages -> {NoTask} \cup TaskRows]
      /\ task'[p].state = "running" /\ task'[p].source = task[p].source
      /\ \A q \in Packages : q # p => task'[q] = task[q]
  BY <1>1, RowWritten
<1>. QED BY <1>2, TaskMoves

LEMMA RenewKeeps ==
    ASSUME BatchIInv, NEW r \in Importers, RenewLease(r)
    PROVE  BatchIInv'
<1>1. /\ importer[r].at \in WritingPlaces /\ Package(r) \in Packages /\ "caught" \in WritingPlaces
      /\ UNCHANGED <<journal, manifest, publication, completeMark, report>>
      /\ UNCHANGED <<stored, listed, item, problems, doubt>>
  BY AtWriting DEF RenewLease, WritingPlaces, worldVars, directoryVars
<1>2. CASE Go(r, "caught") /\ UNCHANGED task
  BY <1>1, <1>2, DatabaseStill, WritingKeeps
<1>3. CASE task[Package(r)].state = "running" /\ task' = [task EXCEPT ![Package(r)].live = TRUE] /\ UNCHANGED importer
  <2>1. PICK p \in Packages : p = Package(r)
    BY <1>1
  <2>2. Grown /\ task' \in [Packages -> {NoTask} \cup TaskRows] /\ \A q \in Packages : RowFacts(q)'
    BY <1>1, <1>3, <2>1, LeaseMoves
  <2>3. /\ stored' \in SUBSET (Packages \X Identifiers) /\ listed' \in SUBSET (Packages \X Identifiers)
        /\ item' \in [Packages -> BOOLEAN] /\ problems' \in [Packages -> Nat] /\ doubt' \in SUBSET Packages
        /\ report' \in SUBSET Packages
    BY <1>1 DEF BatchIInv, BatchTypes
  <2>. QED BY <1>1, <1>3, <2>2, <2>3, DatabaseMoves
<1>. QED BY <1>1, <1>2, <1>3 DEF RenewLease

LEMMA LeaseRunsOutKeeps ==
    ASSUME BatchIInv, NEW p \in Packages, LeaseRunsOut(p)
    PROVE  BatchIInv'
<1>1. /\ task[p].state = "running" /\ task' = [task EXCEPT ![p].live = FALSE]
      /\ UNCHANGED <<importer, journal, manifest, publication, completeMark, report>>
      /\ UNCHANGED <<stored, listed, item, problems, doubt>>
  BY DEF LeaseRunsOut, directoryVars
<1>2. Grown /\ task' \in [Packages -> {NoTask} \cup TaskRows] /\ \A q \in Packages : RowFacts(q)'
  BY <1>1, LeaseMoves
<1>3. /\ stored' \in SUBSET (Packages \X Identifiers) /\ listed' \in SUBSET (Packages \X Identifiers)
      /\ item' \in [Packages -> BOOLEAN] /\ problems' \in [Packages -> Nat] /\ doubt' \in SUBSET Packages
      /\ report' \in SUBSET Packages
  BY <1>1 DEF BatchIInv, BatchTypes
<1>. QED BY <1>1, <1>2, <1>3, DatabaseMoves

LEMMA DoubtEndsKeeps ==
    ASSUME BatchIInv, NEW p \in Packages, DoubtEnds(p)
    PROVE  BatchIInv'
<1>1. /\ ~item[p] /\ doubt' = doubt \ {p} /\ BatchTypes /\ \A q \in Packages : RowFacts(q)
      /\ UNCHANGED <<importer, journal, manifest, publication, completeMark, report>>
      /\ UNCHANGED <<stored, listed, task>>
  BY DEF DoubtEnds, directoryVars, worldVars, BatchIInv, RowFacts
<1>2. report' \in SUBSET Packages
  BY <1>1 DEF BatchTypes
<1>3. CASE Written(p)
  BY <1>1, <1>2, <1>3, WrittenKeeps, DatabaseMoves
<1>4. CASE UNCHANGED <<item, problems>>
  <2>1. Grown /\ \A q \in Packages : RowFacts(q)'
    BY <1>1, <1>4 DEF Grown, RowFacts
  <2>2. /\ stored' \in SUBSET (Packages \X Identifiers) /\ listed' \in SUBSET (Packages \X Identifiers)
        /\ task' \in [Packages -> {NoTask} \cup TaskRows] /\ item' \in [Packages -> BOOLEAN]
        /\ problems' \in [Packages -> Nat] /\ doubt' \in SUBSET Packages
    BY <1>1, <1>4 DEF BatchTypes
  <2>. QED BY <1>1, <1>2, <2>1, <2>2, DatabaseMoves
<1>. QED BY <1>3, <1>4 DEF DoubtEnds

LEMMA WorldKeeps ==
    ASSUME BatchIInv, WorldChanges \/ Restored
    PROVE  BatchIInv'
<1>1. /\ UNCHANGED <<importer, journal, manifest, publication, completeMark>>
      /\ UNCHANGED <<stored, listed, task, item, problems, doubt>>
  BY DEF WorldChanges, Restored, directoryVars, databaseVars
<1>2. /\ report' \in SUBSET Packages
      /\ report' = report \/ \A r \in Importers : importer[r].at \in {"idle", "never"}
  BY DEF WorldChanges, Restored, BatchIInv, BatchTypes
<1>. QED BY <1>1, <1>2, DatabaseStill, DatabaseMoves

(* An error inside of a package, with or without its effect.               *)
LEMMA PackageErrsKeep ==
    ASSUME BatchIInv, NEW r \in Importers, PackageErrs(r), UNCHANGED directoryVars, UNCHANGED report
    PROVE  BatchIInv'
<1>1. /\ UNCHANGED <<journal, manifest, publication, completeMark, report>>
      /\ importer[r].at \in PackagePlaces /\ Package(r) \in Packages /\ BatchTypes
  <2>1. importer[r].at \in PackagePlaces
    BY DEF PackageErrs, At, PackagePlaces, WritingPlaces
  <2>. QED BY <2>1 DEF directoryVars, BatchIInv, PackageFacts
<1>2. CASE /\ PackageFails(r) /\ UNCHANGED <<task, item, problems, doubt>>
           /\ stored' \in {stored, stored \cup {Source(r)}} /\ listed' \in {listed, listed \cup {Source(r)}}
  BY <1>1, <1>2, SourceAdded, FailingKeeps
<1>3. CASE /\ importer[r].at = "create" /\ (TaskCreated(r) \/ UNCHANGED task)
           /\ PackageFails(r) /\ UNCHANGED <<stored, listed, item, problems, doubt>>
  BY <1>1, <1>3, TaskAdded, FailingKeeps
<1>4. CASE /\ importer[r].at = "claim" /\ Unlocked(Package(r)) /\ Claimable(Package(r)) /\ task' = Claimed(r)
           /\ PackageFails(r) /\ UNCHANGED <<stored, listed, item, problems, doubt>>
  <2>1. Grown /\ task' \in [Packages -> {NoTask} \cup TaskRows] /\ \A q \in Packages : RowFacts(q)'
    BY <1>4, ClaimedKeeps DEF WritingPlaces
  <2>2. /\ stored' \in SUBSET (Packages \X Identifiers) /\ listed' \in SUBSET (Packages \X Identifiers)
        /\ item' \in [Packages -> BOOLEAN] /\ problems' \in [Packages -> Nat] /\ doubt' \in SUBSET Packages
    BY <1>1, <1>4 DEF BatchTypes
  <2>. QED BY <1>1, <1>4, <2>1, <2>2, FailingKeeps
<1>5. CASE /\ importer[r].at = "write" /\ ~item[Package(r)] /\ doubt' = doubt \cup {Package(r)}
           /\ Go(r, "caught") /\ UNCHANGED <<stored, listed, task, item, problems>>
  <2>1. Grown
    BY <1>5 DEF Grown
  <2>2. \A q \in Packages : RowFacts(q)'
    BY <1>1, <1>5 DEF BatchIInv, RowFacts
  <2>3. /\ stored' \in SUBSET (Packages \X Identifiers) /\ listed' \in SUBSET (Packages \X Identifiers)
        /\ task' \in [Packages -> {NoTask} \cup TaskRows] /\ item' \in [Packages -> BOOLEAN]
        /\ problems' \in [Packages -> Nat] /\ doubt' \in SUBSET Packages
    BY <1>1, <1>5 DEF BatchTypes
  <2>4. importer[r].at \in WritingPlaces /\ "caught" \in WritingPlaces
    BY <1>5 DEF WritingPlaces
  <2>. QED BY <1>1, <1>5, <2>1, <2>2, <2>3, <2>4, WritingKeeps
<1>6. CASE /\ importer[r].at = "complete"
           /\ task' \in {task, IF Holds(r, Package(r))
                               THEN [task EXCEPT ![Package(r)].state = "succeeded"] ELSE task}
           /\ PackageFails(r) /\ UNCHANGED <<stored, listed, item, problems, doubt>>
  <2>1. Grown /\ task' \in [Packages -> {NoTask} \cup TaskRows] /\ \A q \in Packages : RowFacts(q)'
    <3>1. CASE task' = task
      BY <1>6, <3>1, DatabaseStill
    <3>2. CASE Holds(r, Package(r)) /\ task' = [task EXCEPT ![Package(r)].state = "succeeded"]
      <4>1. item[Package(r)]
        BY <1>6 DEF BatchIInv, PackageFacts
      <4>2. /\ task[Package(r)].state = "running" /\ task[Package(r)].live \in BOOLEAN
        BY <1>1, <3>2 DEF Holds, BatchTypes, TaskRows, NoTask
      <4>3. PICK p \in Packages, l \in BOOLEAN : p = Package(r) /\ l = task[p].live
        BY <1>1, <4>2
      <4>4. /\ task' \in [Packages -> {NoTask} \cup TaskRows]
            /\ task'[p].state = "succeeded" /\ task'[p].source = task[p].source
            /\ \A q \in Packages : q # p => task'[q] = task[q]
        <5>1. task[p].state # "none" /\ task' = [task EXCEPT ![p].state = "succeeded"]
          BY <3>2, <4>2, <4>3
        <5>. QED BY <1>1, <4>3, <5>1, RowWritten
      <4>. QED BY <1>6, <4>1, <4>2, <4>3, <4>4, TaskMoves
    <3>. QED BY <1>6, <3>1, <3>2
  <2>2. /\ stored' \in SUBSET (Packages \X Identifiers) /\ listed' \in SUBSET (Packages \X Identifiers)
        /\ item' \in [Packages -> BOOLEAN] /\ problems' \in [Packages -> Nat] /\ doubt' \in SUBSET Packages
    BY <1>1, <1>6 DEF BatchTypes
  <2>. QED BY <1>1, <1>6, <2>1, <2>2, FailingKeeps
<1>7. CASE PackageFails(r) /\ UNCHANGED <<stored, listed, task, item, problems, doubt>>
  BY <1>1, <1>7, DatabaseStill, FailingKeeps
<1>. QED BY <1>2, <1>3, <1>4, <1>5, <1>6, <1>7 DEF PackageErrs, At, databaseVars, Claimable

LEMMA LeastNumber ==
    ASSUME NEW T \in SUBSET Nat, T # {}
    PROVE  \E x \in T : \A y \in T : x <= y
<1>. DEFINE Below == {ss \in Nat \X Nat : ss[1] < ss[2]}
<1>1. IsWellFoundedOn(Below, Nat)
  BY NatLessThanWellFounded DEF OpToRel
<1>2. \A x \in T, y \in T : y < x => <<y, x>> \in Below
  OBVIOUS
<1>. HIDE DEF Below
<1>. T \subseteq Nat
  OBVIOUS
<1>3. \E x \in T : \A y \in T : ~(<<y, x>> \in Below)
  BY ONLY <1>1, T # {}, T \subseteq Nat, WFMin, Zenon
<1>4. PICK x \in T : \A y \in T : ~(<<y, x>> \in Below)
  BY <1>3
<1>5. \A y \in T : ~(y < x)
  BY <1>2, <1>4, Zenon
<1>. QED BY <1>4, <1>5

(* A step of an importer outside of its packages: the database stays.      *)
LEMMA OuterKeeps ==
    ASSUME BatchIInv, NEW r \in Importers,
           UNCHANGED <<journal, report, stored, listed, task, item, problems, doubt>>,
           importer' \in [Importers -> ImporterRows],
           manifest' \in [Importers -> SUBSET Packages],
           publication' \in [Importers -> [batch : SUBSET Packages, entries : SUBSET Packages, phase : 0..4]],
           completeMark' \in [Importers -> SUBSET Packages],
           \A q \in Importers : q # r => Own(q),
           importer'[r].at \in PackagePlaces => importer'[r].at = "read" /\ importer'[r].package \in Packages,
           \A p \in importer'[r].entries \cup manifest'[r] : task[p].state = "succeeded",
           DirectoryFacts(r)'
    PROVE  BatchIInv'
<1>1. BatchTypes'
  BY DEF BatchIInv, BatchTypes, ImporterRows
<1>2. Grown /\ (\A p \in Packages : RowFacts(p)') /\ \A p \in Packages : JournalFacts(r, p)'
  <2>1. Grown /\ \A p \in Packages : RowFacts(p)'
    BY DatabaseStill
  <2>. QED BY <2>1, JournalStill
<1>3. PackageFacts(r)'
  <2>1. importer'[r].at \notin WritingPlaces /\ importer'[r].at \notin {"register", "create", "complete"}
        /\ importer'[r].at \notin PackagePlaces \ {"read"}
    BY DEF PackagePlaces, WritingPlaces
  <2>. QED BY <2>1 DEF PackageFacts, Package
<1>. QED BY <1>1, <1>2, <1>3, StepKeeps

LEMMA BeginBatchKeeps ==
    ASSUME BatchIInv, NEW r \in Importers, BeginBatch(r)
    PROVE  BatchIInv'
<1>1. /\ BatchTypes /\ PackageFacts(r) /\ DirectoryFacts(r)
      /\ UNCHANGED <<journal, manifest, publication, completeMark, report, stored, listed, task, item, problems, doubt>>
  BY DEF BatchIInv, BeginBatch, directoryVars, worldVars, databaseVars
<1>2. PICK row : row = [at |-> "next", package |-> 0, failed |-> FALSE,
                        entries |-> manifest[r] \cap report, left |-> report \ manifest[r]]
  OBVIOUS
<1>3. importer' = [importer EXCEPT ![r] = row] /\ row \in ImporterRows
  BY <1>1, <1>2 DEF BeginBatch, BatchTypes, ImporterRows, Places
<1>4. /\ importer' \in [Importers -> ImporterRows] /\ importer'[r] = row
      /\ \A q \in Importers : q # r => importer'[q] = importer[q]
  BY <1>1, <1>3 DEF BatchTypes, ImporterRows
<1>5. \A q \in Importers : q # r => Own(q)
  BY <1>1, <1>4 DEF Own
<1>6. /\ row.at = "next" /\ row.entries = manifest[r] \cap report /\ row.left = report \ manifest[r]
      /\ row.package = 0
  BY <1>2
<1>7. DirectoryFacts(r)'
  BY <1>1, <1>4, <1>6 DEF DirectoryFacts, PackagePlaces, WritingPlaces, ClosingPlaces
<1>8. \A p \in importer'[r].entries \cup manifest'[r] : task[p].state = "succeeded"
  BY <1>1, <1>4, <1>6 DEF PackageFacts
<1>9. importer'[r].at \notin PackagePlaces
  BY <1>4, <1>6 DEF PackagePlaces, WritingPlaces
<1>10. /\ manifest' \in [Importers -> SUBSET Packages] /\ completeMark' \in [Importers -> SUBSET Packages]
       /\ publication' \in [Importers -> [batch : SUBSET Packages, entries : SUBSET Packages, phase : 0..4]]
  BY <1>1 DEF BatchTypes
<1>. QED BY <1>1, <1>4, <1>5, <1>7, <1>8, <1>9, <1>10, OuterKeeps

LEMMA NextPackageKeeps ==
    ASSUME BatchIInv, NEW r \in Importers, NextPackage(r)
    PROVE  BatchIInv'
<1>1. /\ BatchTypes /\ PackageFacts(r) /\ DirectoryFacts(r) /\ importer[r].at = "next"
      /\ UNCHANGED <<journal, manifest, publication, completeMark, report, stored, listed, task, item, problems, doubt>>
  BY DEF BatchIInv, NextPackage, At, directoryVars, worldVars, databaseVars
<1>2. importer \in [Importers -> ImporterRows] /\ importer[r] \in ImporterRows
  BY <1>1 DEF BatchTypes, ImporterRows
<1>3. /\ manifest' \in [Importers -> SUBSET Packages] /\ completeMark' \in [Importers -> SUBSET Packages]
      /\ publication' \in [Importers -> [batch : SUBSET Packages, entries : SUBSET Packages, phase : 0..4]]
  BY <1>1 DEF BatchTypes
<1>4. CASE importer[r].left = {} /\ Go(r, "publish")
  <2>1. Arrives(r, "publish", importer[r].entries, importer[r].failed)
    BY <1>1, <1>4, Going DEF Places, ClosingPlaces
  <2>2. "publish" \notin PackagePlaces
    BY DEF PackagePlaces, WritingPlaces
  <2>3. DirectoryFacts(r)'
    BY <1>1, <1>4, <2>1 DEF DirectoryFacts, Arrives, PackagePlaces, WritingPlaces, ClosingPlaces
  <2>4. \A p \in importer'[r].entries \cup manifest'[r] : task[p].state = "succeeded"
    BY <1>1, <2>1 DEF PackageFacts, Arrives
  <2>5. /\ importer' \in [Importers -> ImporterRows] /\ importer'[r].at = "publish"
        /\ \A q \in Importers : q # r => Own(q)
    BY <1>1, <2>1 DEF Arrives, Own
  <2>. QED BY <1>1, <1>3, <2>2, <2>3, <2>4, <2>5, OuterKeeps
<1>5. CASE importer[r].left # {}
  <2>. DEFINE left == importer[r].left
  <2>1. left \in SUBSET Packages /\ left # {}
    BY <1>2, <1>5 DEF ImporterRows
  <2>2. PICK p : /\ p = CHOOSE q \in left : \A s \in left : q <= s
                 /\ importer' = [importer EXCEPT ![r].at = "read", ![r].package = p, ![r].left = left \ {p}]
    BY <1>5, Zenon DEF NextPackage
  <2>3. left \in SUBSET Nat
    BY <2>1 DEF Packages
  <2>4. \E q \in left : \A s \in left : q <= s
    BY <2>1, <2>3, LeastNumber, Zenon
  <2>5. p \in left
    BY <2>2, <2>4
  <2>6. PICK row : row = [importer[r] EXCEPT !.at = "read", !.package = p, !.left = left \ {p}]
    OBVIOUS
  <2>7. importer' = [importer EXCEPT ![r] = row]
    <3>1. PICK rest : rest = left \ {p}
      OBVIOUS
    <3>2. importer' = [importer EXCEPT ![r].at = "read", ![r].package = p, ![r].left = rest]
      BY <2>2, <3>1
    <3>3. row = [importer[r] EXCEPT !.at = "read", !.package = p, !.left = rest]
      BY <2>6, <3>1
    <3>. QED BY <1>2, <3>2, <3>3
  <2>8. /\ row \in ImporterRows /\ row.at = "read" /\ row.package = p /\ row.left = left \ {p}
        /\ row.entries = importer[r].entries /\ row.failed = importer[r].failed
    BY <1>2, <2>1, <2>5, <2>6 DEF ImporterRows, Places, PackagePlaces
  <2>9. /\ importer' \in [Importers -> ImporterRows] /\ importer'[r] = row
        /\ \A q \in Importers : q # r => importer'[q] = importer[q]
    BY <1>2, <2>7, <2>8
  <2>10. \A q \in Importers : q # r => Own(q)
    BY <1>1, <2>9 DEF Own
  <2>11. Package(r)' = p /\ "read" \in PackagePlaces /\ "read" \notin ClosingPlaces
    BY <2>8, <2>9 DEF Package, PackagePlaces, ClosingPlaces
  <2>12. ~importer[r].failed => report = importer[r].entries \cup left
    BY <1>1, <2>1 DEF DirectoryFacts, PackagePlaces, WritingPlaces
  <2>13. ~row.failed => report = row.entries \cup row.left \cup {p}
    BY <2>5, <2>8, <2>12
  <2>14. DirectoryFacts(r)'
    <3>1. /\ publication[r].phase >= 2 => manifest[r] = publication[r].entries
          /\ completeMark[r] # {} => completeMark[r] = manifest[r]
      BY <1>1 DEF DirectoryFacts
    <3>. QED BY <1>1, <2>8, <2>9, <2>11, <2>13, <3>1 DEF DirectoryFacts
  <2>15. \A s \in importer'[r].entries \cup manifest'[r] : task[s].state = "succeeded"
    BY <1>1, <2>8, <2>9 DEF PackageFacts
  <2>16. importer'[r].at = "read" /\ importer'[r].package \in Packages
    BY <2>1, <2>5, <2>8, <2>9
  <2>. QED BY <1>1, <1>3, <2>9, <2>10, <2>14, <2>15, <2>16, OuterKeeps
<1>. QED BY <1>4, <1>5 DEF NextPackage, Go

LEMMA BatchEndsKeep ==
    ASSUME BatchIInv, NEW r \in Importers, Go(r, "idle"),
           UNCHANGED <<journal, report, manifest, publication, completeMark>>,
           UNCHANGED <<stored, listed, task, item, problems, doubt>>
    PROVE  BatchIInv'
<1>1. BatchTypes /\ PackageFacts(r) /\ DirectoryFacts(r)
  BY DEF BatchIInv
<1>2. Arrives(r, "idle", importer[r].entries, importer[r].failed)
  BY <1>1, Going DEF Places
<1>3. /\ manifest' \in [Importers -> SUBSET Packages] /\ completeMark' \in [Importers -> SUBSET Packages]
      /\ publication' \in [Importers -> [batch : SUBSET Packages, entries : SUBSET Packages, phase : 0..4]]
  BY <1>1 DEF BatchTypes
<1>4. DirectoryFacts(r)'
  BY <1>1, <1>2 DEF DirectoryFacts, Arrives, PackagePlaces, WritingPlaces, ClosingPlaces
<1>5. \A p \in importer'[r].entries \cup manifest'[r] : task[p].state = "succeeded"
  BY <1>1, <1>2 DEF PackageFacts, Arrives
<1>6. /\ importer' \in [Importers -> ImporterRows] /\ importer'[r].at \notin PackagePlaces
      /\ \A q \in Importers : q # r => Own(q)
  BY <1>2 DEF Arrives, Own, PackagePlaces, WritingPlaces
<1>. QED BY <1>3, <1>4, <1>5, <1>6, OuterKeeps

LEMMA DecideKeeps ==
    ASSUME BatchIInv, NEW r \in Importers, DecidePublication(r)
    PROVE  BatchIInv'
<1>1. /\ BatchTypes /\ PackageFacts(r) /\ DirectoryFacts(r) /\ importer[r].at = "publish"
      /\ UNCHANGED <<journal, report, manifest, publication, completeMark>>
      /\ UNCHANGED <<stored, listed, task, item, problems, doubt>>
  BY DEF BatchIInv, DecidePublication, At, directoryVars, worldVars, databaseVars
<1>2. PICK place : /\ Go(r, place) /\ place \in {"unmark", "idle", "announce"}
                   /\ place = "announce" => ~importer[r].failed /\ SameBatch(r) /\ publication[r].phase >= 2
  <2>1. CASE ~(SameBatch(r) /\ publication[r].phase >= 2)
    BY <2>1 DEF DecidePublication
  <2>2. CASE SameBatch(r) /\ publication[r].phase >= 2 /\ publication[r].phase = 4
    BY <2>2 DEF DecidePublication
  <2>3. CASE SameBatch(r) /\ publication[r].phase >= 2 /\ publication[r].phase # 4
    <3>1. Go(r, AfterManifest(r))
      BY <2>3 DEF DecidePublication
    <3>. QED BY <2>3, <3>1 DEF AfterManifest
  <2>. QED BY <2>1, <2>2, <2>3
<1>3. Arrives(r, place, importer[r].entries, importer[r].failed)
  BY <1>1, <1>2, Going DEF Places, ClosingPlaces
<1>4. /\ manifest' \in [Importers -> SUBSET Packages] /\ completeMark' \in [Importers -> SUBSET Packages]
      /\ publication' \in [Importers -> [batch : SUBSET Packages, entries : SUBSET Packages, phase : 0..4]]
  BY <1>1 DEF BatchTypes
<1>5. /\ ~importer[r].failed => importer[r].entries = report
      /\ importer[r].left = {}
      /\ place = "announce" => manifest[r] = report
  BY <1>1, <1>2 DEF DirectoryFacts, SameBatch, PackagePlaces, WritingPlaces, ClosingPlaces
<1>6. DirectoryFacts(r)'
  BY <1>1, <1>2, <1>3, <1>5 DEF DirectoryFacts, Arrives, PackagePlaces, WritingPlaces, ClosingPlaces
<1>7. \A p \in importer'[r].entries \cup manifest'[r] : task[p].state = "succeeded"
  BY <1>1, <1>3 DEF PackageFacts, Arrives
<1>8. /\ importer' \in [Importers -> ImporterRows] /\ importer'[r].at \notin PackagePlaces
      /\ \A q \in Importers : q # r => Own(q)
  BY <1>1, <1>2, <1>3 DEF Arrives, Own, PackagePlaces, WritingPlaces
<1>. QED BY <1>1, <1>4, <1>6, <1>7, <1>8, OuterKeeps

(* One effect of the publication, after which the importer goes on or      *)
(* stops.                                                                  *)
PublicationRows == [batch : SUBSET Packages, entries : SUBSET Packages, phase : 0..4]

LEMMA Publishes ==
    ASSUME BatchTypes, NEW r \in Importers, NEW ph \in 0..4, Publication(r, ph)
    PROVE  /\ publication' \in [Importers -> PublicationRows]
           /\ publication'[r].phase = ph /\ publication'[r].entries = importer[r].entries
           /\ \A q \in Importers : q # r => publication'[q] = publication[q]
<1>1. /\ publication \in [Importers -> PublicationRows] /\ report \in SUBSET Packages
      /\ importer[r].entries \in SUBSET Packages
  BY DEF BatchTypes, PublicationRows
<1>2. PICK row : row = [batch |-> report, entries |-> importer[r].entries, phase |-> ph]
  OBVIOUS
<1>3. row \in PublicationRows /\ row.phase = ph /\ row.entries = importer[r].entries
  BY <1>1, <1>2 DEF PublicationRows
<1>4. publication' = [publication EXCEPT ![r] = row]
  BY <1>2 DEF Publication
<1>. QED BY <1>1, <1>3, <1>4

LEMMA EffectsOfBatchKeep ==
    ASSUME BatchIInv, NEW r \in Importers, PublicationEffect(r), NEW place \in {After(r), "idle"}, Go(r, place),
           UNCHANGED <<journal, report, stored, listed, task, item, problems, doubt>>
    PROVE  BatchIInv'
<1>1. /\ BatchTypes /\ PackageFacts(r) /\ DirectoryFacts(r)
      /\ importer[r].at \in {"unmark", "promise", "list", "confirm", "announce", "mark", "finish"}
      /\ importer[r].at \in ClosingPlaces
  BY DEF BatchIInv, PublicationEffect, At, ClosingPlaces
<1>2. /\ place \in {"idle", "promise", "list", "confirm", "announce", "mark", "finish"}
      /\ place = "promise" => importer[r].at = "unmark"
      /\ place = "list" => importer[r].at = "promise"
      /\ place = "confirm" => importer[r].at = "list"
      /\ place = "announce" => importer[r].at = "confirm" /\ ~importer[r].failed
      /\ place = "mark" => importer[r].at = "announce"
      /\ place = "finish" => importer[r].at = "mark"
  <2>1. CASE place = "idle"
    BY <2>1
  <2>2. CASE place = After(r)
    <3>1. CASE importer[r].at = "confirm"
      BY <2>2, <3>1 DEF After, AfterManifest, At
    <3>2. CASE importer[r].at # "confirm"
      BY <1>1, <2>2, <3>2 DEF After, At
    <3>. QED BY <3>1, <3>2
  <2>. QED BY <2>1, <2>2
<1>3. place \in Places /\ place \notin PackagePlaces
  BY <1>2 DEF Places, ClosingPlaces, PackagePlaces, WritingPlaces
<1>4. Arrives(r, place, importer[r].entries, importer[r].failed)
  BY <1>1, <1>3, Going
<1>5. /\ manifest \in [Importers -> SUBSET Packages] /\ completeMark \in [Importers -> SUBSET Packages]
      /\ publication \in [Importers -> PublicationRows] /\ importer[r].entries \in SUBSET Packages
      /\ report \in SUBSET Packages
  BY <1>1 DEF BatchTypes, PublicationRows
<1>6. /\ ~importer[r].failed => report = importer[r].entries
      /\ importer[r].left = {}
      /\ publication[r].phase >= 2 => manifest[r] = publication[r].entries
      /\ completeMark[r] # {} => completeMark[r] = manifest[r]
      /\ importer[r].at \in {"promise", "list", "confirm"} => completeMark[r] = {}
      /\ importer[r].at \in {"list", "confirm"} => publication[r].phase = 1
      /\ importer[r].at = "confirm" => manifest[r] = importer[r].entries
      /\ importer[r].at \in {"announce", "mark", "finish"} =>
             manifest[r] = report /\ importer[r].entries = report
  <2>1. importer[r].at \notin PackagePlaces
    BY <1>1 DEF PackagePlaces, WritingPlaces
  <2>. QED BY <1>1, <2>1 DEF DirectoryFacts
<1>7. /\ importer' \in [Importers -> ImporterRows] /\ importer'[r].at = place
      /\ importer'[r].entries = importer[r].entries /\ importer'[r].left = {}
      /\ importer'[r].failed = importer[r].failed
      /\ \A q \in Importers : q # r => importer'[q] = importer[q]
  BY <1>4, <1>6 DEF Arrives
<1>8. ASSUME manifest' \in [Importers -> SUBSET Packages],
             publication' \in [Importers -> PublicationRows],
             completeMark' \in [Importers -> SUBSET Packages],
             \A q \in Importers : q # r => /\ manifest'[q] = manifest[q] /\ publication'[q] = publication[q]
                                           /\ completeMark'[q] = completeMark[q],
             manifest'[r] \in {manifest[r], importer[r].entries},
             DirectoryFacts(r)'
      PROVE  BatchIInv'
  <2>1. \A q \in Importers : q # r => Own(q)
    BY <1>7, <1>8 DEF Own
  <2>2. \A p \in importer'[r].entries \cup manifest'[r] : task[p].state = "succeeded"
    BY <1>1, <1>7, <1>8 DEF PackageFacts
  <2>. QED BY <1>3, <1>7, <1>8, <2>1, <2>2, OuterKeeps DEF PublicationRows
<1>9. CASE importer[r].at = "unmark" /\ completeMark' = [completeMark EXCEPT ![r] = {}] /\ UNCHANGED <<manifest, publication>>
  <2>1. /\ completeMark' \in [Importers -> SUBSET Packages] /\ completeMark'[r] = {}
        /\ \A q \in Importers : q # r => completeMark'[q] = completeMark[q]
    BY <1>5, <1>9
  <2>2. DirectoryFacts(r)'
    BY <1>2, <1>3, <1>6, <1>7, <1>9, <2>1 DEF DirectoryFacts, ClosingPlaces
  <2>. QED BY <1>5, <1>8, <1>9, <2>1, <2>2
<1>10. CASE /\ importer[r].at \in {"promise", "confirm", "announce", "finish"} /\ UNCHANGED <<manifest, completeMark>>
            /\ \E ph \in 1..4 : /\ Publication(r, ph)
                                /\ ph >= 2 => importer[r].at # "promise"
                                /\ importer[r].at = "promise" => ph = 1
  <2>1. PICK ph \in 1..4 : /\ Publication(r, ph) /\ (ph >= 2 => importer[r].at # "promise")
                           /\ (importer[r].at = "promise" => ph = 1)
    BY <1>10
  <2>2. /\ publication' \in [Importers -> PublicationRows]
        /\ publication'[r].phase = ph /\ publication'[r].entries = importer[r].entries
        /\ \A q \in Importers : q # r => publication'[q] = publication[q]
    BY <1>1, <2>1, Publishes
  <2>3. ph >= 2 => manifest[r] = importer[r].entries
    BY <1>6, <1>10, <2>1
  <2>4. DirectoryFacts(r)'
    BY <1>2, <1>3, <1>6, <1>7, <1>10, <2>1, <2>2, <2>3 DEF DirectoryFacts, ClosingPlaces
  <2>. QED BY <1>5, <1>8, <1>10, <2>2, <2>4
<1>11. CASE /\ importer[r].at = "list" /\ manifest' = [manifest EXCEPT ![r] = importer[r].entries]
            /\ UNCHANGED <<publication, completeMark>>
  <2>1. /\ manifest' \in [Importers -> SUBSET Packages] /\ manifest'[r] = importer[r].entries
        /\ \A q \in Importers : q # r => manifest'[q] = manifest[q]
    BY <1>5, <1>11
  <2>2. DirectoryFacts(r)'
    BY <1>2, <1>3, <1>6, <1>7, <1>11, <2>1 DEF DirectoryFacts, ClosingPlaces
  <2>. QED BY <1>5, <1>8, <1>11, <2>1, <2>2
<1>12. CASE /\ importer[r].at = "mark" /\ completeMark' = [completeMark EXCEPT ![r] = report]
            /\ UNCHANGED <<manifest, publication>>
  <2>1. /\ completeMark' \in [Importers -> SUBSET Packages] /\ completeMark'[r] = report
        /\ \A q \in Importers : q # r => completeMark'[q] = completeMark[q]
    BY <1>5, <1>12
  <2>2. DirectoryFacts(r)'
    BY <1>2, <1>3, <1>6, <1>7, <1>12, <2>1 DEF DirectoryFacts, ClosingPlaces
  <2>. QED BY <1>5, <1>8, <1>12, <2>1, <2>2
<1>. QED BY <1>9, <1>10, <1>11, <1>12 DEF PublicationEffect, At

-----------------------------------------------------------------------------
LEMMA BatchInitially == BatchInit => BatchIInv
<1>. SUFFICES ASSUME BatchInit PROVE BatchIInv
  OBVIOUS
<1>1. BatchTypes
  <2>1. importer \in [Importers -> ImporterRows]
    <3>1. ASSUME NEW place \in {"idle", "never"}
          PROVE  [at |-> place, package |-> 0, left |-> {}, entries |-> {}, failed |-> FALSE] \in ImporterRows
      BY DEF ImporterRows, Places
    <3>2. PICK Begun : /\ Begun = {[at |-> place, package |-> 0, left |-> {}, entries |-> {}, failed |-> FALSE]
                                      : place \in {"idle", "never"}}
                       /\ importer \in [Importers -> Begun]
      BY DEF BatchInit
    <3>3. Begun \subseteq ImporterRows
      BY <3>1, <3>2
    <3>. QED BY <3>2, <3>3
  <2>2. journal \in [Importers -> [Packages -> JournalFiles]]
    <3>1. ASSUME NEW f \in {"none", "v1"}
          PROVE  [file |-> f, phase |-> Confirmed, sidecar |-> FALSE] \in JournalFiles
      BY DEF JournalFiles, Confirmed, Committed
    <3>2. PICK Found : /\ Found = {[file |-> "none", phase |-> Confirmed, sidecar |-> FALSE],
                                   [file |-> "v1", phase |-> Confirmed, sidecar |-> FALSE]}
                       /\ journal \in [Importers -> [Packages -> Found]]
      BY DEF BatchInit
    <3>3. Found \subseteq JournalFiles
      BY <3>1, <3>2
    <3>. QED BY <3>2, <3>3
  <2>. QED BY <2>1, <2>2 DEF BatchInit, BatchTypes, ImporterRows
<1>2. \A p \in Packages : RowFacts(p)
  BY DEF BatchInit, RowFacts, NoTask
<1>3. ASSUME NEW r \in Importers
      PROVE  PackageFacts(r) /\ DirectoryFacts(r) /\ \A p \in Packages : JournalFacts(r, p)
  <2>1. /\ importer[r].at \in {"idle", "never"} /\ importer[r].entries = {} /\ manifest[r] = {}
        /\ publication[r].phase = 0 /\ completeMark[r] = {}
        /\ \A p \in Packages : journal[r][p].phase = Confirmed
    BY DEF BatchInit
  <2>2. PackageFacts(r)
    BY <2>1 DEF PackageFacts, PackagePlaces, WritingPlaces
  <2>3. DirectoryFacts(r)
    BY <2>1 DEF DirectoryFacts, PackagePlaces, WritingPlaces, ClosingPlaces
  <2>4. \A p \in Packages : JournalFacts(r, p)
    BY <2>1 DEF JournalFacts, Confirmed, Published, Registered, Created, Committed
  <2>. QED BY <2>2, <2>3, <2>4
<1>. QED BY <1>1, <1>2, <1>3 DEF BatchIInv

LEMMA BatchKeeps == BatchIInv /\ [BatchNext]_batchVars => BatchIInv'
<1>. SUFFICES ASSUME BatchIInv, [BatchNext]_batchVars
              PROVE  BatchIInv'
  OBVIOUS
<1>1. ASSUME NEW r \in Importers, ImporterStep(r)
      PROVE  BatchIInv'
  <2>1. CASE BeginBatch(r)
    BY <2>1, BeginBatchKeeps
  <2>2. CASE NextPackage(r)
    BY <2>2, NextPackageKeeps
  <2>3. CASE ReadPackage(r) \/ CheckReplay(r) \/ PublishPackage(r) \/ RegisterFile(r) \/ CreateTask(r)
    BY <2>3, ReadKeeps, ReplayKeeps, PublishKeeps, RegisterKeeps, CreateKeeps
  <2>4. CASE ClaimTask(r) \/ Authorize(r) \/ CatchWriter(r) \/ WriteImported(r) \/ CompleteTask(r) \/ FailTask(r)
    BY <2>4, ClaimTaskKeeps, AuthorizeKeeps, WriteKeeps, SettledKeeps
  <2>5. CASE DecidePublication(r)
    BY <2>5, DecideKeeps
  <2>6. CASE PublishBatch(r)
    BY <2>6, EffectsOfBatchKeep DEF PublishBatch, worldVars, databaseVars
  <2>. QED BY <1>1, <2>1, <2>2, <2>3, <2>4, <2>5, <2>6 DEF ImporterStep
<1>2. ASSUME NEW r \in Importers, RenewLease(r) \/ BatchErrs(r) \/ ImporterDies(r)
      PROVE  BatchIInv'
  <2>1. CASE RenewLease(r)
    BY <2>1, RenewKeeps
  <2>2. CASE ImporterDies(r)
    BY <2>2, BatchEndsKeep DEF ImporterDies, directoryVars, databaseVars
  <2>3. CASE BatchErrs(r)
    <3>1. report' = report
      BY <2>3 DEF BatchErrs
    <3>2. CASE PackageErrs(r) /\ UNCHANGED directoryVars
      BY <3>1, <3>2, PackageErrsKeep
    <3>3. CASE PublicationEffect(r) /\ Go(r, "idle") /\ UNCHANGED <<journal, stored, databaseVars>>
      BY <3>1, <3>3, EffectsOfBatchKeep DEF databaseVars
    <3>4. CASE UNCHANGED <<manifest, publication, completeMark>> /\ Go(r, "idle") /\ UNCHANGED <<journal, stored, databaseVars>>
      BY <3>1, <3>4, BatchEndsKeep DEF databaseVars
    <3>. QED BY <2>3, <3>2, <3>3, <3>4 DEF BatchErrs
  <2>. QED BY <1>2, <2>1, <2>2, <2>3
<1>3. ASSUME NEW p \in Packages, LeaseRunsOut(p) \/ DoubtEnds(p)
      PROVE  BatchIInv'
  BY <1>3, LeaseRunsOutKeeps, DoubtEndsKeeps
<1>4. CASE WorldChanges \/ Restored
  BY <1>4, WorldKeeps
<1>5. CASE UNCHANGED batchVars
  <2>1. /\ UNCHANGED <<importer, journal, manifest, publication, completeMark, report>>
        /\ UNCHANGED <<stored, listed, task, item, problems, doubt>>
    BY <1>5 DEF batchVars, directoryVars, databaseVars, worldVars
  <2>2. report' \in SUBSET Packages
    BY <2>1 DEF BatchIInv, BatchTypes
  <2>. QED BY <2>1, <2>2, DatabaseStill, DatabaseMoves
<1>. QED BY <1>1, <1>2, <1>3, <1>4, <1>5 DEF BatchNext

LEMMA BatchImplied == BatchIInv => BatchInv
<1>. SUFFICES ASSUME BatchIInv PROVE BatchInv
  OBVIOUS
<1>1. BatchTypeOK
  BY DEF BatchIInv, BatchTypes, BatchTypeOK, PackageFacts, PackagePlaces, WritingPlaces, Package, At,
         JournalFiles, TaskRows, NoTask, Identifiers
<1>2. ExactlyOneProblem
  BY DEF BatchIInv, RowFacts, ExactlyOneProblem
<1>3. JournalIsTrue
  BY DEF BatchIInv, JournalFacts, Known, JournalIsTrue
<1>4. MarkerIsTrue
  BY DEF BatchIInv, PackageFacts, DirectoryFacts, MarkerIsTrue
<1>. QED BY <1>1, <1>2, <1>3, <1>4 DEF BatchInv

(* Whatever races, errors, deaths and repetitions the importers of a batch *)
(* meet: a package becomes one problem, every phase a journal confirms is  *)
(* true of storage and database, a manifest lists imported packages only   *)
(* and the completion marker stands beside the manifest of its batch.      *)
THEOREM BatchIsTrue == BatchSpec => []BatchInv
<1>1. BatchIInv /\ [BatchNext]_batchVars => BatchIInv'
  BY BatchKeeps
<1>. QED BY <1>1, BatchInitially, BatchImplied, PTL DEF BatchSpec
=============================================================================
