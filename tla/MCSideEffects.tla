--------------------------- MODULE MCSideEffects ---------------------------
(* What the API does outside its PostgreSQL transactions: objects of       *)
(* uploads, objects of exports, mails, complete backups.  They share no    *)
(* state, so a behaviour follows one of them, chosen at the beginning.     *)
EXTENDS ExportTask, StoredFiles, ReviewMail, SiteBackup

CONSTANTS task1, u1, u2, p1, p2, none, v1, s1, s2, r1, r2

VARIABLE chosen

MCInit == /\ chosen \in {"export", "files", "mail", "backup"}
          /\ ExportInit /\ FilesInit /\ MailInit /\ SiteBackupInit
          /\ convertible \/ chosen = "export"

MCNext ==
    /\ UNCHANGED chosen
    /\ \/ chosen = "export" /\ ExportNext /\ UNCHANGED <<filesVars, mailVars, backupVars>>
       \/ chosen = "files" /\ FilesNext /\ UNCHANGED <<exportVars, mailVars, backupVars>>
       \/ chosen = "mail" /\ MailNext /\ UNCHANGED <<exportVars, filesVars, backupVars>>
       \/ chosen = "backup" /\ SiteBackupNext /\ UNCHANGED <<exportVars, filesVars, mailVars>>

(* Where a part was not chosen, none of its fair actions is ever enabled.  *)
MCSpec ==
    /\ MCInit /\ [][MCNext]_<<chosen, exportVars, filesVars, mailVars, backupVars>>
    /\ ExportFairness /\ MailFairness /\ SiteBackupFairness

(* An export, a mail and a backup or restoration that was begun gets an    *)
(* outcome, through time-outs, deaths and failing calls.                   *)
EffectsEnd == QueuedExportEnds /\ EveryMailEnds /\ OperationsEnd
=============================================================================
