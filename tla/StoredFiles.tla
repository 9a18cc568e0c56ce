----------------------------- MODULE StoredFiles -----------------------------
(***************************************************************************)
(* The files of one problem: every revision lists the files it links and   *)
(* the judge program its configuration names; the bytes live in the local  *)
(* object store, outside the database.  An upload stages and publishes its *)
(* object first and links it in the transaction of a new revision          *)
(* (problem-file-service.ts, problem-file-store.ts, storage/src/local.ts). *)
(***************************************************************************)
EXTENDS Integers, Sequences, FiniteSets

CONSTANTS
    Uploads,       \* upload requests; each is also the id of its stored file
    Paths,         \* logical paths
    NoProgram,     \* a configuration that names no judge program
    MaxRevision,   \* bound of the model: revisions of the problem
    MaxMishaps     \* bound of the model: uploads that die, or lose a call or a reply

ASSUME FilesAssumption == /\ NoProgram \notin Paths
                          /\ {"add", "existing"} \cap Uploads = {}
                          /\ MaxRevision \in Nat \ {0}
                          /\ MaxMishaps \in Nat

VARIABLES
    history,    \* history[r]: the linked files and the program of revision r
    upload,     \* upload[u]: where the request is, and what it asks for
    staged,     \* staging/<id>/<attempt>.part
    objects,    \* objects/<id>
    unlucky,    \* uploads whose process died or whose clean-up failed
    unanswered  \* uploads whose transaction was committed without a reply

filesVars == <<history, upload, staged, objects, unlucky, unanswered>>

Revisions == [files : SUBSET Uploads, program : Paths \cup {NoProgram}]
UploadAt  == {"none", "stage", "publish", "link", "delete", "over"}
Modes     == {"add", "existing"} \cup Uploads   \* replaceExisting, replaceFileId
NoUpload  == [at |-> "none", judge |-> FALSE, path |-> NoProgram, mode |-> "add", seen |-> 0]

FilesTypeOK ==
    /\ history \in Seq(Revisions) /\ Len(history) \in 1..MaxRevision
    /\ upload \in [Uploads -> [at : UploadAt, judge : BOOLEAN, path : Paths \cup {NoProgram},
                               mode : Modes, seen : 0..MaxRevision]]
    /\ {staged, objects, unlucky, unanswered} \subseteq SUBSET Uploads

FilesInit ==
    /\ history = <<[files |-> {}, program |-> NoProgram]>>
    /\ upload = [u \in Uploads |-> NoUpload]
    /\ staged = {} /\ objects = {} /\ unlucky = {} /\ unanswered = {}

Current     == history[Len(history)]
Programs(F) == {f \in F : upload[f].judge}
AtPath(F, p) == {f \in F : upload[f].path = p}

-----------------------------------------------------------------------------
(* A new revision starts with its predecessor's relations                  *)
(* (insertProblemRevision); synchronizeJudgeProgramFiles then wants the    *)
(* named program among them and drops the programs that are not named.     *)
Resolves(F, program) == program = NoProgram \/ AtPath(Programs(F), program) # {}

Synchronized(F, program) ==
    [files |-> F \ (Programs(F) \ AtPath(F, program)), program |-> program]

(* updateProblem: the compare-and-set on the revision the client had seen. *)
MayWrite(seen, F, program) ==
    /\ seen = Len(history)
    /\ Resolves(F, program)
    /\ \A f, g \in F : upload[f].path = upload[g].path => f = g

Revise(F, program) ==
    /\ Len(history) < MaxRevision
    /\ history' = Append(history, Synchronized(F, program))

-----------------------------------------------------------------------------
(* The request is judged against the problem as it is now; a file to be    *)
(* replaced must be linked and of the same category.                       *)
BeginUpload(u, judge, path, mode, seen) ==
    /\ upload[u].at = "none"
    /\ seen \in 1..Len(history)
    /\ mode \in Uploads => mode \in Current.files /\ upload[mode].judge = judge
    /\ upload' = [upload EXCEPT ![u] = [at |-> "stage", judge |-> judge, path |-> path,
                                        mode |-> mode, seen |-> seen]]
    /\ UNCHANGED <<history, staged, objects, unlucky, unanswered>>

Goto(u, step) == upload' = [upload EXCEPT ![u].at = step]

Stage(u) == /\ upload[u].at = "stage"
            /\ \/ Goto(u, "publish") /\ staged' = staged \cup {u}
               \/ Goto(u, "over") /\ UNCHANGED staged
            /\ UNCHANGED <<history, objects, unlucky, unanswered>>

(* link and rm; when that fails the staged file is discarded.              *)
Publish(u) == /\ upload[u].at = "publish"
              /\ staged' = staged \ {u}
              /\ \/ Goto(u, "link") /\ objects' = objects \cup {u}
                 \/ Goto(u, "over") /\ UNCHANGED objects
              /\ UNCHANGED <<history, unlucky, unanswered>>

Replaced(u) ==
    CASE upload[u].judge             -> Programs(Current.files)
      [] upload[u].mode \in Uploads  -> {upload[u].mode}
      [] upload[u].mode = "existing" -> AtPath(Current.files, upload[u].path)
      [] OTHER                       -> {}

Linked(u)   == (Current.files \ Replaced(u)) \cup {u}
ProgramOf(u) == IF upload[u].judge THEN upload[u].path ELSE Current.program

MayLink(u) ==
    /\ MayWrite(upload[u].seen, Linked(u), ProgramOf(u))
    /\ Replaced(u) \subseteq Current.files
    /\ \A f \in Replaced(u) : upload[f].judge = upload[u].judge

LinkUpload(u) ==
    /\ upload[u].at = "link"
    /\ IF MayLink(u) THEN Revise(Linked(u), ProgramOf(u)) /\ Goto(u, "over")
                     ELSE Goto(u, "delete") /\ UNCHANGED history
    /\ UNCHANGED <<staged, objects, unlucky, unanswered>>

(* Every error of the transaction deletes the object, a lost reply too.    *)
LinkThrows(u) ==
    /\ upload[u].at = "link"
    /\ Cardinality(unlucky \cup unanswered) < MaxMishaps
    /\ Goto(u, "delete")
    /\ \/ UNCHANGED <<history, unanswered>>
       \/ MayLink(u) /\ Revise(Linked(u), ProgramOf(u)) /\ unanswered' = unanswered \cup {u}
    /\ UNCHANGED <<staged, objects, unlucky>>

DeleteUpload(u) ==
    /\ upload[u].at = "delete"
    /\ Goto(u, "over")
    /\ objects' = objects \ {u}
    /\ UNCHANGED <<history, staged, unlucky, unanswered>>

(* The process dies in the upload, perhaps between link and rm of publish, *)
(* or rm fails, which is swallowed.                                        *)
UploadDies(u) ==
    /\ upload[u].at \in {"publish", "link", "delete"}
    /\ Cardinality(unlucky \cup unanswered) < MaxMishaps
    /\ Goto(u, "over")
    /\ unlucky' = unlucky \cup {u}
    /\ objects' \in {objects} \cup {objects \cup {u} : x \in staged \cap {u}}
    /\ UNCHANGED <<history, staged, unanswered>>

-----------------------------------------------------------------------------
(* A saved problem may name another program, or none; like every edit it   *)
(* writes a new revision (one that was refused changes nothing).           *)
SaveProblem(program) ==
    /\ MayWrite(Len(history), Current.files, program)
    /\ Revise(Current.files, program)
    /\ UNCHANGED <<upload, staged, objects, unlucky, unanswered>>

WithoutFile(f) == IF upload[f].judge /\ upload[f].path = Current.program
                  THEN NoProgram ELSE Current.program

\* mutant: removing a file removes its object
RemoveFile_Object(f) ==
    /\ f \in Current.files
    /\ Revise(Current.files \ {f}, WithoutFile(f))
    /\ objects' = objects \ {f}
    /\ UNCHANGED <<upload, staged, unlucky, unanswered>>

(* Removing a file drops the relation in the new revision only.            *)
RemoveFile(f) ==
    /\ f \in Current.files
    /\ Revise(Current.files \ {f}, WithoutFile(f))
    /\ UNCHANGED <<upload, staged, objects, unlucky, unanswered>>

FilesNext ==
    \/ \E u \in Uploads, judge \in BOOLEAN, path \in Paths, mode \in Modes, seen \in 1..MaxRevision :
           BeginUpload(u, judge, path, mode, seen)
    \/ \E u \in Uploads : \/ Stage(u) \/ Publish(u) \/ LinkUpload(u) \/ LinkThrows(u)
                          \/ DeleteUpload(u) \/ UploadDies(u)
    \/ \E program \in Paths \cup {NoProgram} : SaveProblem(program)
    \/ \E f \in Uploads : RemoveFile(f)

FilesSpec == FilesInit /\ [][FilesNext]_filesVars
-----------------------------------------------------------------------------
(* Old revisions stay complete: the object of every file any revision      *)
(* links exists, whatever later revisions replace or remove ("the object   *)
(* stays intact because older immutable revisions can still refer to it",  *)
(* problem-file-store.ts).  The one exception is an upload whose commit    *)
(* was not answered: its clean-up deletes the object of a linked file.     *)
RevisionsStayComplete ==
    \A r \in 1..Len(history) : history[r].files \subseteq objects \cup unanswered

(* No ownerless bytes stay behind (comment of uploadFile), except of an    *)
(* upload that died or could not delete.                                   *)
NoOwnerlessFiles ==
    \A u \in staged \cup objects :
        \/ upload[u].at \in {"publish", "link", "delete"}
        \/ u \in unlucky
        \/ \E r \in 1..Len(history) : u \in history[r].files

(* In every revision the judge program linked is the one its configuration *)
(* names, and there is none when it names none.                            *)
ProgramMatchesConfig ==
    \A r \in 1..Len(history) :
        {upload[f].path : f \in Programs(history[r].files)}
            = {history[r].program} \ {NoProgram}

(* Types, no missing and no ownerless bytes, and programs that follow      *)
(* their configuration in every revision.                                  *)
FilesInv == FilesTypeOK /\ RevisionsStayComplete /\ NoOwnerlessFiles /\ ProgramMatchesConfig
=============================================================================
