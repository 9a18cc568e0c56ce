------------------------- MODULE MCHistoryMigration -------------------------
(* The two layers of the history migration: the rehearsal and the formal   *)
(* run around an import (HistoryMigration), and the import of a batch      *)
(* inside of one (BatchImport).  They share no state; a behaviour follows  *)
(* one of them, chosen at the beginning among Parts.  Importers either     *)
(* compete for one package, with one slip, or one works alone through two, *)
(* after which the batch that its publication journal names may come back. *)
EXTENDS HistoryMigration, BatchImport

CONSTANTS r1, r2, a1, a2, q1, q2, Parts

VARIABLE chosen

MCVars == <<chosen, scratchVars, formalVars, batchVars>>

Rivals == \A r \in Importers : importer[r].at # "never"

MCInit ==
    /\ chosen \in Parts
    /\ HistoryInit /\ BatchInit
    /\ IF chosen = "batch"
       THEN /\ importer[q1].at = "idle" /\ (Rivals => report = {1})
            /\ journal[q1][1].file = "v1" /\ Rivals => journal[q2][1].file = "v1"
            /\ journal[q2][1].file = "v1" => Rivals
            /\ \A r \in Runs : uses[r] = a1
       ELSE \A r \in Importers : /\ importer[r].at = "never" /\ report = {1}
                                 /\ \A p \in Packages : journal[r][p].file = "none"

MCNext ==
    /\ UNCHANGED chosen
    /\ \/ chosen = "migration" /\ HistoryNext /\ UNCHANGED batchVars
       \/ /\ chosen = "batch" /\ BatchNext /\ UNCHANGED <<scratchVars, formalVars>>
          /\ Rivals => report' = {1} /\ slips' <= 1
          /\ slips' > 2 => slips' = slips \/ (report' # report /\ report' = publication[q1].batch)

(* In the part that was not chosen no fair action is ever enabled: nobody  *)
(* started it.                                                             *)
MCSpec == MCInit /\ [][MCNext]_MCVars /\ HistoryFairness /\ BatchFairness

(* Whoever repeats a tool that died or failed gets to the end of it, but   *)
(* for the two dead ends that BatchesEnd names.                            *)
HistoryEnds == CleanupsEnd /\ BatchesEnd
=============================================================================
