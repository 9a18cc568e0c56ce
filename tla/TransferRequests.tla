-------------------------- MODULE TransferRequests --------------------------
(***************************************************************************)
(* The requests of one account for transfers of problem packages: upload a *)
(* package, import it, export a problem or the problem of a contest, fetch *)
(* the result (apps/api/src/transfer-service.ts).  Between two calls of a  *)
(* handler everything else may change.  A request that creates a task      *)
(* carries a key; the key, with the digest of the request, makes a repeated*)
(* request find the task of the first.  The account is read at the         *)
(* beginning of a request, problems and contests when they are looked at.  *)
(* What then happens to a task is modelled by ImportTask and ExportTask.   *)
(***************************************************************************)
EXTENDS Integers, Sequences

CONSTANTS
    Transfers,   \* the requests; that of an upload names its stored file
    Earlier,     \* a package that was uploaded before
    RequestKeys, \* idempotency keys
    LastPicked,  \* bound of the model: revisions of the problem
    MaxPlans,    \* bound of the model: versions of the contest
    MaxFormats,  \* bound of the model: versions of the format
    MaxChanges   \* bound of the model: changes beside the requests

ASSUME TransferAssumption == /\ Earlier \notin Transfers
                             /\ RequestKeys # {}
                             /\ LastPicked \in Nat \ {0}
                             /\ MaxPlans \in Nat \ {0}
                             /\ MaxFormats \in Nat \ {0}
                             /\ MaxChanges \in Nat

VARIABLES
    entry,     \* the problem: its revision, and whether it is deleted
    plans,     \* plans[n]: the revision the contest holds at its n-th version
    grants,    \* what the account may do
    format,    \* the format: its version, and whether it is enabled
    package,   \* objects in the store, rows of stored_files, expired packages
    undecided, \* uploads whose transaction got no answer and may yet commit
    belated,   \* uploads that were committed after they had been given up
    tasks,     \* tasks[kind][k]: the row of import_jobs or export_jobs
    results,   \* results[k]: of the export with the key k
    queued,    \* the tasks the queue was told of
    transfer,  \* transfer[t]: a request and what its handler has read
    changes    \* how much has changed beside the requests

worldVars    == <<entry, plans, grants, format>>
storeVars    == <<package, undecided, belated>>
rowVars      == <<tasks, results, queued>>
transferVars == <<worldVars, storeVars, rowVars, transfer, changes>>

Files      == Transfers \cup {Earlier}
Pickable   == 1..LastPicked
Privileges == {"import", "export", "testdata", "contest"}
TaskKinds  == {"import", "export"}
NoFile     == Earlier

(* What a digest is computed of: the package; or the version of the        *)
(* contest, the revision of the preview, 0 for none, and whether internal  *)
(* files are wanted.                                                       *)
Orders  == [file : Files, contest : 0..MaxPlans, pinned : 0..LastPicked, inner : BOOLEAN]
NoOrder == [file |-> NoFile, contest |-> 0, pinned |-> 0, inner |-> FALSE]
Tasks   == [order : Orders, version : 1..MaxFormats, revision : 0..LastPicked]
NoTask  == [order |-> NoOrder, version |-> 0, revision |-> 0]

Places  == {"none", "publish", "save", "look", "drop", "contest", "picks", "replay", "access",
            "read", "evaluate", "create", "enqueue", "fetch", "ok", "refused", "failed"}
Reasons == {"none", "right", "hidden", "stale", "key", "file", "format", "content"}
TransferRows ==
    [at : Places, kind : TaskKinds \cup {"upload", "preview", "download"}, key : RequestKeys,
     order : Orders, grants : SUBSET Privileges, deleted : BOOLEAN, known : BOOLEAN,
     version : 0..MaxFormats, revision : 0..LastPicked, why : Reasons]
NoTransfer ==
    [at |-> "none", kind |-> "upload", key |-> CHOOSE k \in RequestKeys : TRUE, order |-> NoOrder,
     grants |-> {}, deleted |-> FALSE, known |-> FALSE, version |-> 0, revision |-> 0,
     why |-> "none"]

TransferInit ==
    /\ entry \in [revision : Pickable, deleted : {FALSE}]
    /\ plans \in {<<n>> : n \in 1..entry.revision}
    /\ grants \in SUBSET Privileges
    /\ format = [version |-> 1, enabled |-> TRUE]
    /\ package = [objects |-> {Earlier}, rows |-> {Earlier}, expired |-> {}]
    /\ undecided = {} /\ belated = {}
    /\ tasks = [kind \in TaskKinds |-> [k \in RequestKeys |-> NoTask]]
    /\ results = [k \in RequestKeys |-> "none"]
    /\ queued = {}
    /\ transfer = [t \in Transfers |-> NoTransfer]
    /\ changes = 0

-----------------------------------------------------------------------------
(* Steps of a handler.                                                     *)
Stands(t, place) == transfer[t].at = place
Proceeds(t, row) == transfer' = [transfer EXCEPT ![t] = row]
Goes(t, place)   == Proceeds(t, [transfer[t] EXCEPT !.at = place])
Rejects(t, why)  == Proceeds(t, [transfer[t] EXCEPT !.at = "refused", !.why = why])
Fail(t)          == Goes(t, "failed")

WorldStays == UNCHANGED <<worldVars, changes>>
TasksStay  == UNCHANGED rowVars
StoreStays == UNCHANGED storeVars

TaskOf(t)  == tasks[transfer[t].kind][transfer[t].key]
HasTask(t) == TaskOf(t) # NoTask
SameRequest(t) == TaskOf(t).order = transfer[t].order

Arrives(t, kind, k, order, first) ==
    /\ Stands(t, "none")
    /\ LET known == kind \in TaskKinds /\ tasks[kind][k] # NoTask /\ tasks[kind][k].order = order
           row   == [NoTransfer EXCEPT !.at = first, !.kind = kind, !.key = k, !.order = order,
                                       !.grants = grants, !.deleted = entry.deleted,
                                       !.known = known]
       IN Proceeds(t, IF kind \in {"upload", "import"} /\ "import" \notin grants
                     THEN [row EXCEPT !.at = "refused", !.why = "right"] ELSE row)
    /\ WorldStays /\ StoreStays /\ TasksStay

-----------------------------------------------------------------------------
(* An upload: the bytes are published, then row and audit event written in *)
(* one transaction.                                                        *)
BeginPackage(t) == \E k \in RequestKeys : Arrives(t, "upload", k, NoOrder, "publish")

PublishPackage(t) ==
    /\ Stands(t, "publish")
    /\ \/ Goes(t, "save") /\ package' = [package EXCEPT !.objects = @ \cup {t}]
       \/ (Fail(t) \/ Rejects(t, "content")) /\ UNCHANGED package
    /\ WorldStays /\ TasksStay /\ UNCHANGED <<undecided, belated>>

(* The transaction is committed; or an error comes back, and it was, or    *)
(* was not, or will be only later.                                         *)
SavePackage(t) ==
    /\ Stands(t, "save")
    /\ \/ /\ (Goes(t, "ok") \/ Goes(t, "look"))
          /\ package' = [package EXCEPT !.rows = @ \cup {t}]
          /\ UNCHANGED undecided
       \/ /\ Goes(t, "look")
          /\ undecided' \in {undecided, undecided \cup {t}}
          /\ UNCHANGED package
    /\ WorldStays /\ TasksStay /\ UNCHANGED belated

\* mutant: what was not answered is deleted without a look
LookAfter_Not(t) ==
    /\ Stands(t, "look")
    /\ Goes(t, "drop")
    /\ WorldStays /\ TasksStay /\ StoreStays

(* #uploadSaveState: is there a row, and its audit event?                  *)
LookAfter(t) ==
    /\ Stands(t, "look")
    /\ \/ Fail(t)
       \/ Goes(t, IF t \in package.rows THEN "ok" ELSE "drop")
    /\ WorldStays /\ TasksStay /\ StoreStays

DropPackage(t) ==
    /\ Stands(t, "drop")
    /\ package' \in {package, [package EXCEPT !.objects = @ \ {t}]}
    /\ Fail(t)
    /\ WorldStays /\ TasksStay /\ UNCHANGED <<undecided, belated>>

CommitsLate(t) ==
    /\ t \in undecided
    /\ undecided' = undecided \ {t}
    /\ \/ UNCHANGED <<package, belated>>
       \/ /\ package' = [package EXCEPT !.rows = @ \cup {t}]
          /\ belated' = IF Stands(t, "look") THEN belated ELSE belated \cup {t}
    /\ WorldStays /\ TasksStay /\ UNCHANGED transfer

-----------------------------------------------------------------------------
(* An import.  A task that exists already is told to the queue again.      *)
BeginImport(t) ==
    \E k \in RequestKeys, f \in package.rows :
        Arrives(t, "import", k, [NoOrder EXCEPT !.file = f], "replay")

ReplayImport(t) ==
    /\ Stands(t, "replay") /\ transfer[t].kind = "import"
    /\ \/ ~HasTask(t) /\ Goes(t, "read")
       \/ HasTask(t) /\ SameRequest(t) /\ Goes(t, "enqueue")
       \/ HasTask(t) /\ ~SameRequest(t) /\ Rejects(t, "key")
       \/ Fail(t)
    /\ WorldStays /\ TasksStay /\ StoreStays

Unexpired(f) == f \in package.rows \ package.expired

(* The package is read once more and inspected by the format.              *)
ReadPackage(t) ==
    /\ Stands(t, "read")
    /\ \/ ~Unexpired(transfer[t].order.file) /\ Rejects(t, "file")
       \/ ~format.enabled /\ Rejects(t, "format")
       \/ Rejects(t, "content")
       \/ Fail(t)
       \/ /\ Unexpired(transfer[t].order.file) /\ format.enabled
          /\ transfer[t].order.file \in package.objects
          /\ Proceeds(t, [transfer[t] EXCEPT !.at = "create", !.version = format.version])
    /\ WorldStays /\ TasksStay /\ StoreStays

-----------------------------------------------------------------------------
(* A preview of an export, and the export.  That of a contest takes the   *)
(* revision the contest holds, at the version of the contest the page      *)
(* shows.  The page pins the revision of a preview it has made since it    *)
(* shows that version; a client of the API need not.                       *)
Previewed(version) ==
    {transfer[t].revision : t \in {t \in Transfers :
        transfer[t].kind = "preview" /\ Stands(t, "ok") /\ transfer[t].order.contest = version}}

Asks(version, pinned, inner) ==
    [NoOrder EXCEPT !.contest = version, !.pinned = pinned, !.inner = inner]

BeginPreview(t) ==
    \E k \in RequestKeys, version \in 0..Len(plans), inner \in BOOLEAN :
        Arrives(t, "preview", k, Asks(version, 0, inner),
                IF version = 0 THEN "evaluate" ELSE "contest")

BeginExport(t) ==
    \E k \in RequestKeys, version \in 0..Len(plans), inner \in BOOLEAN :
        \E pinned \in {0} \cup Previewed(version) :
            Arrives(t, "export", k, Asks(version, pinned, inner),
                    IF version = 0 THEN "replay" ELSE "contest")

(* #contestSelections: the row of the contest, with its version, and then  *)
(* what it holds.                                                          *)
ReadContest(t) ==
    /\ Stands(t, "contest")
    /\ \/ "contest" \notin transfer[t].grants /\ Rejects(t, "hidden")
       \/ transfer[t].order.contest # Len(plans) /\ Rejects(t, "stale")
       \/ Fail(t)
       \/ /\ "contest" \in transfer[t].grants /\ transfer[t].order.contest = Len(plans)
          /\ Goes(t, "picks")
    /\ WorldStays /\ TasksStay /\ StoreStays

ReadFixed(t) ==
    /\ Stands(t, "picks")
    /\ \/ Fail(t)
       \/ Proceeds(t, [transfer[t] EXCEPT
                          !.at = IF transfer[t].kind = "preview" THEN "evaluate" ELSE "replay",
                          !.revision = plans[Len(plans)]])
    /\ WorldStays /\ TasksStay /\ StoreStays

ReplayExport(t) ==
    /\ Stands(t, "replay") /\ transfer[t].kind = "export"
    /\ \/ Goes(t, IF HasTask(t) THEN "access" ELSE "evaluate")
       \/ Fail(t)
    /\ WorldStays /\ TasksStay /\ StoreStays

(* What the account needs for an export of this kind.                      *)
Needs(order) ==
    {"export"} \cup (IF order.inner THEN {"testdata"} ELSE {})
               \cup (IF order.contest # 0 THEN {"contest"} ELSE {})

MayHave(t, order) == Needs(order) \subseteq transfer[t].grants /\ ~entry.deleted

Exported(t) == tasks["export"][transfer[t].key]

(* #requireReplayExportAccess, for a task found again and for a download.  *)
CheckAccess(t) ==
    /\ Stands(t, "access")
    /\ \/ ~MayHave(t, Exported(t).order) /\ Rejects(t, "hidden")
       \/ Fail(t)
       \/ /\ MayHave(t, Exported(t).order)
          /\ \/ transfer[t].kind = "download" /\ Goes(t, "fetch")
             \/ transfer[t].kind = "export" /\ SameRequest(t) /\ Goes(t, "enqueue")
             \/ transfer[t].kind = "export" /\ ~SameRequest(t) /\ Rejects(t, "key")
    /\ WorldStays /\ TasksStay /\ StoreStays

Chosen(t) == IF transfer[t].order.contest # 0 THEN transfer[t].revision ELSE entry.revision

(* #evaluateExportSelection, and that the revision is the previewed one.   *)
Evaluate(t) ==
    /\ Stands(t, "evaluate")
    /\ \/ ~format.enabled /\ Rejects(t, "format")
       \/ ~MayHave(t, transfer[t].order) /\ Rejects(t, "hidden")
       \/ Rejects(t, "content")
       \/ Fail(t)
       \/ /\ format.enabled /\ MayHave(t, transfer[t].order)
          /\ transfer[t].order.pinned \in {0, Chosen(t)}
          /\ Proceeds(t, [transfer[t] EXCEPT
                             !.at = IF transfer[t].kind = "preview" THEN "ok" ELSE "create",
                             !.version = format.version, !.revision = Chosen(t)])
    /\ WorldStays /\ TasksStay /\ StoreStays

-----------------------------------------------------------------------------
(* createImportJob and createExportJob: one transaction, which looks for   *)
(* the key itself.  After an error the row is looked for once more.        *)
RowWritten(t) ==
    tasks' = [tasks EXCEPT ![transfer[t].kind][transfer[t].key] =
                  [order |-> transfer[t].order, version |-> transfer[t].version,
                   revision |-> transfer[t].revision]]

CreateTask(t) ==
    /\ Stands(t, "create")
    /\ \/ /\ HasTask(t) /\ SameRequest(t)
          /\ Goes(t, "enqueue") /\ UNCHANGED tasks
       \/ /\ HasTask(t) /\ ~SameRequest(t)
          /\ Rejects(t, "key") /\ UNCHANGED tasks
       \/ /\ ~HasTask(t) /\ transfer[t].kind = "import" /\ ~Unexpired(transfer[t].order.file)
          /\ Rejects(t, "file") /\ UNCHANGED tasks
       \/ /\ ~HasTask(t) /\ (transfer[t].kind = "import" => Unexpired(transfer[t].order.file))
          /\ (Goes(t, "enqueue") \/ Fail(t))
          /\ RowWritten(t)
       \/ Fail(t) /\ UNCHANGED tasks
    /\ WorldStays /\ StoreStays /\ UNCHANGED <<results, queued>>

TellQueue(t) ==
    /\ Stands(t, "enqueue")
    /\ \/ /\ (Goes(t, "ok") \/ Fail(t))
          /\ queued' = queued \cup {<<transfer[t].kind, transfer[t].key>>}
       \/ Fail(t) /\ UNCHANGED queued
    /\ WorldStays /\ StoreStays /\ UNCHANGED <<tasks, results>>

-----------------------------------------------------------------------------
(* A download of a result that has not expired.                            *)
BeginDownload(t) ==
    \E k \in RequestKeys :
        /\ tasks["export"][k] # NoTask /\ results[k] = "ready"
        /\ Arrives(t, "download", k, tasks["export"][k].order, "access")

FetchResult(t) ==
    /\ Stands(t, "fetch")
    /\ \/ Goes(t, "ok")
       \/ Rejects(t, "hidden")
       \/ Fail(t)
    /\ WorldStays /\ TasksStay /\ StoreStays

-----------------------------------------------------------------------------
(* What happens beside the requests.                                       *)
Apart  == UNCHANGED <<undecided, belated, tasks, queued, transfer>>
Around == /\ changes < MaxChanges
          /\ changes' = changes + 1
          /\ Apart

EntryMoves ==
    /\ \/ /\ ~entry.deleted /\ entry.revision < LastPicked
          /\ entry' = [entry EXCEPT !.revision = @ + 1]
       \/ ~entry.deleted /\ entry' = [entry EXCEPT !.deleted = TRUE]
    /\ Around /\ UNCHANGED <<plans, grants, format, package, results>>

ContestMoves ==
    /\ Len(plans) < MaxPlans
    /\ \E n \in 1..entry.revision : plans' = Append(plans, n)
    /\ Around /\ UNCHANGED <<entry, grants, format, package, results>>

GrantsMove ==
    /\ \E g \in Privileges : grants' \in {grants \cup {g}, grants \ {g}} \ {grants}
    /\ Around /\ UNCHANGED <<entry, plans, format, package, results>>

FormatMoves ==
    /\ \/ format' = [format EXCEPT !.enabled = ~@]
       \/ format.version < MaxFormats /\ format' = [format EXCEPT !.version = @ + 1]
    /\ Around /\ UNCHANGED <<entry, plans, grants, package, results>>

PackageExpires ==
    /\ \E f \in package.rows \ package.expired :
          package' = [package EXCEPT !.expired = @ \cup {f}]
    /\ Around /\ UNCHANGED <<entry, plans, grants, format, results>>

(* The worker finishes an export; its result expires.                      *)
ResultMoves ==
    /\ \E k \in RequestKeys :
          \/ results[k] = "none" /\ <<"export", k>> \in queued
             /\ results' = [results EXCEPT ![k] = "ready"]
          \/ results[k] = "ready" /\ results' = [results EXCEPT ![k] = "expired"]
    /\ Apart /\ UNCHANGED <<entry, plans, grants, format, package, changes>>

Handles(t) ==
    \/ BeginPackage(t) \/ PublishPackage(t) \/ SavePackage(t) \/ LookAfter(t) \/ DropPackage(t)
    \/ BeginImport(t) \/ ReplayImport(t) \/ ReadPackage(t)
    \/ BeginPreview(t) \/ BeginExport(t) \/ ReadContest(t) \/ ReadFixed(t)
    \/ ReplayExport(t) \/ CheckAccess(t) \/ Evaluate(t)
    \/ CreateTask(t) \/ TellQueue(t) \/ BeginDownload(t) \/ FetchResult(t)

TransferNext ==
    \/ \E t \in Transfers : Handles(t) \/ CommitsLate(t)
    \/ EntryMoves \/ ContestMoves \/ GrantsMove \/ FormatMoves \/ PackageExpires \/ ResultMoves

TransferSpec == TransferInit /\ [][TransferNext]_transferVars

-----------------------------------------------------------------------------
TransferTypeOK ==
    /\ entry \in [revision : Pickable, deleted : BOOLEAN]
    /\ plans \in Seq(Pickable) /\ Len(plans) \in 1..MaxPlans
    /\ grants \subseteq Privileges
    /\ format \in [version : 1..MaxFormats, enabled : BOOLEAN]
    /\ package \in [objects : SUBSET Files, rows : SUBSET Files, expired : SUBSET Files]
    /\ undecided \subseteq Transfers /\ belated \subseteq Transfers
    /\ tasks \in [TaskKinds -> [RequestKeys -> Tasks \cup {NoTask}]]
    /\ results \in [RequestKeys -> {"none", "ready", "expired"}]
    /\ queued \subseteq TaskKinds \X RequestKeys
    /\ transfer \in [Transfers -> TransferRows]
    /\ changes \in 0..MaxChanges

(* A package that is stored can be read, and whoever was told that the     *)
(* upload succeeded has one; bytes without a row belong to an upload under *)
(* way or one that was answered with an error.  Only a transaction that    *)
(* commits after the look leaves a row whose bytes may be gone.            *)
PackagesAreWhole ==
    /\ package.rows \ package.objects \subseteq belated
    /\ \A t \in Transfers :
          /\ transfer[t].kind = "upload" /\ Stands(t, "ok") => t \in package.rows \cap package.objects
          /\ t \in package.objects \ package.rows => transfer[t].at \in {"save", "look", "drop", "failed"}

(* A request answered with a task got the task of that very request, and   *)
(* the queue knows it.                                                     *)
AnswersAgree ==
    \A t \in Transfers :
        Stands(t, "ok") /\ transfer[t].kind \in TaskKinds =>
            HasTask(t) /\ SameRequest(t) /\ <<transfer[t].kind, transfer[t].key>> \in queued

(* An export that was previewed holds the revision the preview showed, and *)
(* that is the one the contest held at the version the page shows ("uses   *)
(* the version fixed when added to the plan", ExportSection of             *)
(* transfer-page.tsx), though row and problems of the contest are read one *)
(* after the other and change in between.  Without a preview it may be one *)
(* the contest held later.                                                 *)
ExportsAreFixed ==
    \A k \in RequestKeys : LET task == tasks["export"][k] IN
        task # NoTask =>
            /\ task.order.pinned # 0 =>
                  /\ task.revision = task.order.pinned
                  /\ task.order.contest # 0 => task.revision = plans[task.order.contest]
            /\ task.order.contest # 0 =>
                  \E n \in task.order.contest..Len(plans) : task.revision = plans[n]

(* Nothing is answered to an account that at the beginning of the request  *)
(* may not have it, or about a problem that was deleted before ("an old    *)
(* address cannot be used once the permission is revoked",                 *)
(* ExportSection), also when the task is older.                            *)
RevocationHolds ==
    \A t \in Transfers : Stands(t, "ok") =>
        IF transfer[t].kind \in {"preview", "export", "download"}
        THEN Needs(transfer[t].order) \subseteq transfer[t].grants /\ ~transfer[t].deleted
        ELSE "import" \in transfer[t].grants

(* A repeated request whose task exists is not refused for what has        *)
(* happened to format, package or revision since (the comment of           *)
(* digestImportCreateRequest); only a contest that was changed is in its   *)
(* way.                                                                    *)
RetriesRecover ==
    \A t \in Transfers : Stands(t, "refused") /\ transfer[t].known =>
        \/ transfer[t].why \in {"right", "hidden"}
        \/ transfer[t].why = "stale" /\ transfer[t].order.contest # 0

TransferInv ==
    /\ TransferTypeOK /\ PackagesAreWhole /\ AnswersAgree
    /\ ExportsAreFixed /\ RevocationHolds /\ RetriesRecover
=============================================================================
