# Urmotiv: verification project

Urmotiv is a TypeScript monorepo for preparing programming-contest problems:
authors write problems, reviewers (people and robots) decide about them in
review rounds, packages of problems are imported and exported by background
jobs, and one-off tools bring an old archive of problems into the system. This
directory holds TLA+ modules of its protocols, TLC configurations that
model-check them on small instances, and TLAPS proofs of the results that
matter most, for every value of the constants. Paths below are relative to `src/`.

`PROJECT.json` ties every definition to the lines it translates, and lists runs,
mutants (plausible bugs that each property must catch), hazards, findings and theorems.

Contents: 1 inventory, 2 modules, 3 runs and properties, 4 proofs, 5 findings,
6 differences without a run, 7 what is not modelled, 8 what is left to do.

## 1. Inventory

| Component | State | Operations | What is hard | What makes it correct |
|---|---|---|---|---|
| Redis job queue (`packages/jobs/src/redis.ts`) | job records, idempotency index, sorted sets of waiting and running jobs | Lua scripts: enqueue, lease, renew, progress, item report, complete, fail, cancel, recover | several keys per job; callers whose lease ran out; lost replies; attempt limits | keys agree; one live lease per job; outcome final; reports survive retries |
| Local job queue (`packages/jobs/src/local.ts`) | the same in the memory of one process | the same, and `close` | emptied by a restart | as above, until the restart |
| Worker runtime (`packages/jobs/src/worker-runtime.ts`, `apps/worker`) | current execution, heartbeat, timeout | poll, lease, run the handler, report, stop | handlers cannot be killed; a report can fail after it took effect | success is earned; every job ends |
| Package import and export (`packages/jobs/src/problem-package-handlers.ts`, `apps/api/src/problem-package-*.ts`) | rows of `import_jobs`, `import_job_items`, `export_jobs`; problems and files written | create, handler steps, seal, fail | zombie handlers, restarts, lost replies of commits, partial imports | one problem per position; a sealed task is complete; a failed one left nothing |
| Problem life cycle and review rounds (`apps/api/src/service.ts`, `database-store.ts`, `review-decision.ts`, `plugins/review-default`) | problem row and revision, rounds, opinions | edit, submit, forced edit, review, withdraw, finalize, apply, delete | every save replaces the row with one composed from an earlier read; permissions and policy change meanwhile | status and rounds agree; closed rounds read-only; decisions justified |
| Robot review leases (`apps/api/src/robot-store.ts`) | assignments, stored answers | claim, renew, complete | repeated and reordered messages; the problem changes under the claim | one opinion per robot and round; answers final |
| Tag catalog (`tag-catalog-service.ts`) | catalog version, tags, revisions it writes | preview, confirm, deactivate, restore | lock order with problem writers | the current revision never has a deactivated tag |
| Permissions and roles (`permissions.ts`, `admin-role-service.ts`) | grants, memberships, roles | grant, revoke, set members, remove an account | change between two steps of another request | judged under the lock that the change needs |
| Accounts (`database-store.ts`, `account-security-routes.ts`, `login-rate-limiter.ts`) | passwords, addresses, identities, sessions, links by mail | log in, change, link, unlink, reset, remove | a request reads, hashes or asks for seconds, then writes | no session or link outlives its credential; a user keeps a way to log in |
| Settings, logins by way of a provider (`admin-service.ts`, `admin-section-page.tsx`, `packages/auth`) | rows of `system_settings` and `system_oauth_settings`, drafts of pages, `login_states`, cookies, sessions | edit, save; start, callback, exchange, link, unlink | two rows judged together, a first save without a row to lock; callbacks repeated or late, the client configured anew meanwhile | no secret meets settings it was not entered for; a state works once |
| First administrator (`admin-bootstrap.ts`, `deployment-migration.ts`, `bootstrap-admin.ts`) | schema, bootstrap state, advisory lock | migrate, seed, open, create, recover | deployments, servers and tools that overlap and die | created once, on a database that was empty |
| Review e-mail outbox (`review-email.ts`) | outbox rows, `available_at`, attempts | claim, send, mark, purge | crash after send; claim runs out while sending | every entry gets an outcome, and a true one |
| Problem files, object storage (`problem-file-*.ts`, `packages/storage`) | objects, file rows | stage, publish, link, delete | object store and database are not one transaction | a committed row names an existing object |
| Backup and restore (`apps/api/src/backup`) | job record on disk, remote files, pause of the site | back up, restore, crash, configure | requests and jobs under way; failure after the replacement | nothing a request wrote is lost |
| History migration (`apps/api/src/history-migration`) | phase files, copies, receipts, journals, markers, checkpoints | prepare, group, package, rehearse, import, roll back, clean up | every effect may fail before or after it took place, processes die and are resumed | a copy always suffices to go back; receipts and markers tell the truth |
| Review policy, plugins (`review-policy-service.ts`, `plugin-host.ts`, `plugin-sdk/registry.ts`, `plugins/anklang`) | the policy, the plugins' rows, settings and secrets, the cache of answers, `review_items`, the sources and index of the server | set, enable, disable, search for similar problems, apply settings | several reads and calls between the read of the problem and the commit; two timers and retries around a call | a round keeps its own rule and was opened on what was checked; a decision's items remain |
| Contests (`contest-service.ts`, `database-contest-store.ts`, `contest-page.tsx`) | the row of a contest, its members, its problems with fixed revisions | create, edit, lock, archive, delete | a save is judged and completed from three reads, then compares the time of change its page sent | nothing that somebody saved is undone; what is fixed was approved |
| The page that edits a problem (`problem-workspace-page.tsx`, `problem-tabs.tsx`, `problem-files.tsx`) | working copy, what is unsaved, the cache of the query, a draft in the storage of the session | type, save by itself, upload, switch, submit, judge | typing goes on while answers come in any order, some with the problem and some with a revision only; others write | nothing typed is lost, no save overwrites what the page never showed |
| Requests for transfers (`transfer-service.ts`, `problem-package-job-store.ts`, `transfer-page.tsx`) | package objects and rows of `stored_files`, rows of `import_jobs` and `export_jobs` with key and digest | upload, import, preview, export (also of a contest), download | lost answers and repeated keys; permissions, contests and formats that change between the reads of one request | an upload has its bytes, a repetition finds its own task, an export holds what was shown |
| Announcements, profiles | their own rows | forms | none of protocol | not modelled, section 7 |
| Package formats, other web pages, deployment scripts | none shared | conversion, pages | none of protocol | not modelled, section 7 |

How they interact: the API process holds PostgreSQL transactions, the local queue
and an embedded `JobWorker` (`apps/api/src/server.ts:144-154,263`). A request
creates a row, then enqueues a job for it; the worker's handler calls back into
the stores of the API. `apps/worker` is a second process over the Redis queue
(at this commit it registers no handlers of its own). Robots call the API over HTTP;
their completions enter the same `submitReviewInTransaction` as human opinions,
and the transaction that closes a round also closes open robot claims and writes
the outbox entries of the review mails. A restoration pauses requests and worker.
The history tools work beside the API on the same database and object store.

## 2. Modules

| Module | Models | State ↔ code | Actions ↔ code |
|---|---|---|---|
| `JobLifecycle` | what a job queue promises, and the transitions of `local.ts` | `phase`, `attempts`, `holder` (lease number), `live` (lease not expired), `issued` | Submit, Grant, Lapse, Reclaim, Succeed, Retry, GiveUp, Cancel |
| `JobQueue` | the Redis queue | `job` records, `index`, the sorted sets `queued` and `running`, the Redis clock `now`, `leases` drawn | one action per Lua script; `IndexAgrees`, `ActiveLease` are the checks the scripts share |
| `JobWorker` | worker processes over JobLifecycle | `mode`, `current`, `verdict` per process, `handlers` in flight | the statements of `runOnce` and `#execute` between two awaits; crash, stop, restart, failing commands |
| `EmbeddedWorker` | the worker inside the API, for one task | `run[e]`: the invocation under lease e, its step and abort signal | lease, lapse, time-out, restart that empties the queue |
| `ImportTask`, `ExportTask` | one package import, one export, over `EmbeddedWorker` | the task's row, item states, problems created; the artifact objects and their rows | one action per database or storage call of the handler and of its catch block |
| `ReviewRound` | one problem, its rounds, opinions | rows of `problems`, `review_rounds`, `review_opinions`; requests in flight | one action per writing transaction |
| `SubmitChecks` | the search for similar problems before a submission or on demand | `search[q]`: a request, its step and what it has read; `saved` revisions, `rounds`, `reviewItems`, the plugin's row, the cache, the server's sources and index | one action per read, call and transaction of a request; edits, decisions, updates of the plugin, the passing of time |
| `RobotReview` | robot claims over `ReviewRound` | rows of `review_assignments`, `review_assignment_operations`, catalog version | Claim, Renew, Complete, the refusals that close a claim (Revoke, Reject) |
| `RowLocks` | the transactions at the granularity of their row locks | `tx` (what a transaction asked, saw and has left to do), `locks`, the rows the checks read | a program of lock requests and checks per kind of request, one commit each, aborts of deadlocked transactions |
| `AccountCredentials` | passwords, addresses, identities, sessions | the rows of the users, their `auth_revision`, one record per request under way | one action per read and per write of a request, with the slow step between them |
| `LoginLimiter` | the limit of failed logins | the stored window, attempts that verify a password | isBlocked, recordFailure, recordSuccess, the turn of the window |
| `AdminBootstrap` | the first administrator and the recovery tools | schema, seed, bootstrap state, advisory lock; the step of every process | one action per transaction of deployments, servers and tools, and their deaths |
| `SiteSettings` | the settings of site and identity provider | both rows, with a version per row ever written; `page[p]`: form, draft and the save under way | OpenForm; building, judging and writing of a save; comparison and INSERT apart where there is no row |
| `ExternalLogin` | logins and links by way of a provider, over `SiteSettings` | `attempt[a]`: what provider and browser hold of a login; `states`, `call[h]`: requests of start and callback; the session of the browser | one action per read, call and transaction of a request; the provider, late callbacks, sessions that begin and end |
| `Contests` | one contest | the row with members and problems, `edit[p]`: the request of page p with what it has read, `seen[p]`: the time its page shows; the problems, permissions and accounts beside it | one action per read, check and transaction of a request; edits and decisions of problems, removed accounts |
| `ProblemEditor` | the page that edits a problem, and the server as it sees it | `screen` (working copy, dirty, state of the save), `cache`, `draft`, `request[k]`: one errand of each kind with its answer; the revisions with their contents | typing, the buttons of the tabs, one action per answer; reads, accepted, kept and failing requests; others' edits, a closed page |
| `TransferRequests` | the requests of one account for transfers | `package`: objects and rows; `tasks`, `results`, `queued`; `transfer[t]`: a request with what it has read; problem, contest, permissions and format beside it | one action per read, call and transaction of a request; the transaction that commits after its reply was lost; what changes beside them |
| `ReviewMail` | the outbox | `entry`, `due`, what each sender does, what SMTP took | claim, check, send, mark, purge; senders that die or overrun |
| `StoredFiles` | the files of one problem | `history` of revisions, `staged`, `objects`, uploads | Stage, Publish, Link, Delete, the save of a configuration; death, lost reply |
| `SiteBackup` | backups and restorations of the site | database, remote files, record in memory and on disk, pause, worker | one action per awaited step; crash, restart, failing calls |
| `RecoveryPhases` | the phase file and contents of copies, shared by the two runners | constants and the order of phases | |
| `FormalImport` | the import into production | database, object store, backup, snapshot, phase, receipt, marker, nonces | one action per effect; error before or after it; death |
| `ScratchAcceptance` | the rehearsal on a scratch database | two generations of copies, phase, receipt | as above, and taking up an interrupted clean-up |
| `HistoryMigration` | both, with the gate that needs the rehearsal's receipt | | |
| `BatchImport` | importing a batch of packages | journals with sidecar, manifest, publication journal, marker, task rows, objects | one action per journalled effect of an importer; two importers, resumption |
| `HistoryGrouping` | inventory, grouping, confirmation, materialization, mapping, packaging | one directory per stage, the file a person confirmed | a command per stage; edits by hand; death in the middle |
| `GroupingPlan` | the check of a grouping plan | the plan under judgement | each verdict against a reference definition |
| `HistoryPreparation` | the checkpoints of preparation and repair; `PreparedInv`, over `HistoryGrouping` and `ModelRequest` | what is under each path, the processes | one action per file operation |
| `ModelRequest` | one request to the language model | timers, signals, the answer as it arrives | watchdog, stream, retry |
| `JobQueueProofs`, `SiteProofs` (`JobWorker`, `SiteSettings`, `ExternalLogin`, `Contests`, `ProblemEditor`), `IntakeProofs` (`ImportTask`, `SubmitChecks`, `TransferRequests`), `ReviewProofs`, `SideEffectsProofs`, `AccountsProofs`, `HistoryProofs`, `PreparationProofs` | the theorems of section 4 | | |
| `MC*` | model values, small sets, bounds and symmetry of the runs | | |

**Abstract specification and refinement.** `JobLifecycle` is the abstract queue.
`JobQueue` maps its Redis keys to it (`Life == INSTANCE JobLifecycle WITH ...`: the phase
is the record's state, `holder` the lease id in the record, `live` the running jobs
whose lease expires in the future) and `ImplementsLifecycle` says that every
script is a step of it or invisible. It is both a property of the run
`job_queue` and the theorem `Refinement`. This is why `JobWorker`, `ImportTask`
and `ExportTask` may stand on `JobLifecycle`: they EXTEND it and compose its
transitions with their own steps, so that Redis details appear in one module
only; `WorkersImplementLifecycle` proves that this composition adds nothing to
the queue.

**Composition.** In `RobotReview` a step is either a step of `ReviewRound`
(`Others`: `Activity` together with the closing of claims that the same
transaction does, `RoundCloses`), a change of the tag catalog, or a step of a
robot. A completion is `ReviewRound`'s opinion step, the end of the claim and the
stored answer in one transition, as in one database transaction.
`HistoryMigration` lets both runners work in turn and guards the second by the
receipt of the first. Components that share no state are checked in one run:
a variable of the MC module (`chosen`, `topic`, `mix`) picks one of them per behaviour.

**Abstractions common to all.** A PostgreSQL transaction that locks the problem
(or task) row is one step; so is a Lua script. `RowLocks` is the exception: it
splits the transactions to justify the others. What happens *between* two
transactions of one request is not atomic: requests of `ReviewRound` carry the
problem as it was read (`seen`) and are served in any later state or refused;
requests of `AccountCredentials` carry what they have read;
the messages of robots may arrive in any state, repeatedly and in any order. Contents, digests, names
and payloads are model values. Refusals that depend on validation are always
allowed to happen, so that no property relies on them; so are the refusal of a maintenance because a robot assignment is open
(`SiteBackup`) and that of an unlinking by what other ways to log in are switched on (`MayUnlink` of `AccountCredentials`).

## 3. Runs and properties

Bounds are named constants, in guards only. Symmetry is used for reviewers,
robots, contents and transactions, and never in a run with liveness.

| Run | Question | Bounds and why they are enough | Distinct states |
|---|---|---|---|
| `job_queue` | Do index, sets, records and leases agree under late holders, expired leases, colliding keys? Does the queue implement JobLifecycle? | two jobs and keys, colliding requests, two attempts, clock to 4 with lease 2 and delay 1: a lease runs out, is taken back, given to a second holder and runs out again | 405 637 |
| `worker` | Are outcomes earned, single and final, and does every job get one? | two workers, a job with or without handler, three attempts, one crash or shutdown, two failing commands: a zombie beside its successor, a reply lost while the other worker goes on | 121 665 |
| `intake` | Do row, items, problems and queue of an import agree? Is a round opened on what was checked? | an import of two problems, two attempts, one restart, one failing database call: a partial import, a zombie from before its timeout, a replay after a restart (82 997 states); or two searches, four revisions, two contents, two ticks, and one update of the plugin or one failing call or both: a check overtaken by an edit, a decision or the other check (81 094) | 164 091 |
| `import_continues` | Is a partial import continued? (finding 1) | no restart | violation |
| `review` | Can an overtaken request break status, round, frozen fields or a decision? Do claims, rounds and opinions agree, and is every answer final? | four scenes: two rounds, four revisions, two contents and one request in flight while every other may be served at once; two reviewers under two policies that differ in both limits; two robots with two claims; one robot with two identifiers and two catalog versions | 594 800 |
| `review_opinions` | Is an opinion about what the problem says now? (finding 2) | one reviewer | violation |
| `history` | Do copies, receipts, approvals, journals and markers tell the truth, and does a clean-up end? | two runs, two approvals, three errors or deaths (38 792 states); or two importers, two packages, two errors or deaths, and a third of one kind only: the batch of the publication journal comes back (132 832) | 171 624 |
| `history_recoverable` | Can a run in phase FAILED be rolled back? (finding 3) | one run, two faults | violation |
| `accounts` | Locks, credentials, limiter, bootstrap, and the preparation of an import | see below | 984 426 |
| `row_locks_catalog_order` | Is the documented lock order kept? (finding 4) | three transactions | violation |
| `site` | Can saves that overlap mix settings, a callback use a state twice or another client's answer, a contest lose a save or fix what nobody approved, the page of a problem lose what was typed, a repeated transfer miss its task? | two pages, two sites, two clients, three rows written (INSERT, save, INSERT again); or one page beside one login with two callbacks and two more sessions, or a client configured anew in between; or two pages of one contest, one that chooses the problem (two revisions) and one the members, beside one kind of change: problem, permission or account; four instants, two of them between milliseconds; or a page of a problem with three edits, three revisions and one kind of errand beside its saves, while others write, errands fail or the page is loaded again; or two requests with one key: packages, exports of a contest, or exports of a problem, beside one change of problem, contest, permissions, format or package: an answer is lost and the request repeated after the change, and previews are followed by exports (68 880 of the states) | 791 564 |
| `side_effects` | Exports, files, mails and backups | one export with two attempts and a fault; two uploads and paths, four revisions, one mishap; one event, two senders, two troubles; two operations, two failures | 263 194 |

`accounts` has eight parts. *locks* (262 244): three transactions of the workloads
that `MCRowLocks` lists, over three accounts and two tags: three are needed for a
circle through two tables and for a change between two waits. *credentials*
(328 316): two clients, two users, two addresses, two identities, three
revisions; `topic` splits it into an account with mails, an account with its identities, and two
accounts that want one identity. *limiter* (300): two attempts, limit 2. *bootstrap* (123 072): two
deployments, an API server, two runs of tools, one death. *grouping* (64 054),
*plan* (13 538), *preparation* (141 803, two processes of which the second is used beside the first only),
*request* (51 099).

What the properties say:

* `Inv` (`JobQueue`): a job is in `queued` or `running` exactly when its record
  says so, no two jobs share a lease or a key, attempts are bounded.
  `LeaseHandover`: a new holder costs an attempt and a new lease, and finds the progress and the reports of
  the holders before it, which only grow. `TerminalIsFinal`.
* `WorkerInv`, `OutcomeIsFinal`: what a worker may never do however commands fail
  (a success that no handler earned, two holders, too many invocations). `EveryJobEnds`: what it must do.
* `ImportInv`: one problem per position of a package (`OneProblemPerPosition`),
  `SealedIsComplete`, `FailedIsEmpty`, `QueueSuccessIsReal`; `TaskOnlyAdvances`.
  `QueuedImportEnds`: it ends, unless the API restarts, the database fails, or the
  package was imported in part (finding 1). The writer's last check of the abort
  signal and its transaction are two steps, so a timed-out invocation may commit
  beside its successor; two invocations never compete for one position, because
  the first has moved the progress to 60 by then and the second is refused at 30.
* `ExportInv`: a succeeded export can be downloaded, no object is left over without
  a fault. `FilesInv`: the objects of every revision exist, except of an upload whose commit was not answered
  (`RevisionsStayComplete`; section 6 says what happens to that one), no ownerless files, the judge program
  is that of the configuration. `MailInv`: no duplicate without trouble, the recorded outcome is true.
  `SiteBackupInv`: `NothingLost`, `BackupsRestorable`, `RecordIsTrue`.
  `EffectsEnd`: `QueuedExportEnds`, `EveryMailEnds` and `OperationsEnd`.
* `ChecksInv`: a round was opened with the contents saved before it, on an answer about these contents, complete
  where failures block (`OpenedAsChecked`); one answer per round and contents (`OneItemPerContent`); what a decision
  used stays in the database (`UsedItemsRemain`); the index holds contents that were saved (`IndexIsSaved`);
  a kept answer is complete, about the contents of its key, and from the sources of its key for as long as nobody has changed the settings
  (`CacheIsTrue`; after a change it need not be, see section 6).
  `SearchesEnd`: every search ends, whatever the server does.
* `ReviewInv`: `StatusMatchesRound`, and a decision of the rule was taken on opinions that
  were given and meet the rule the round was opened with (`RuleDecisionsJustified`). `ClosedRoundsAreFinal`, `FrozenNeedsAudit`,
  `StatusMovesAreLegal`: what no request may do, whenever it is served.
* `RobotInv` (open claims belong to the open round and its revision, one answer per
  robot and round), `RobotOpinionsAreCurrent`, `AnswersAreFinal`.
* `SettingsInv`: a stored secret was entered for the endpoints, callback and client beside it (`SecretBound`), a save that is accepted
  was made from the row it replaces, for the provider's settings until a second INSERT (`DraftsAreCurrent`), open registration works
  (`RegistrationWorks`). `LoginInv`: a state works once, for its browser (`StatesWorkOnce`), the provider's answer is
  used by the client and for the address the login was begun with (`GrantsAreNotMixed`), a link is for the session that asked for it (`LinksAreAskedFor`).
* `ContestInv`: a save that will be accepted was judged by and completed from the row it replaces
  (`SavesMergeTheRow`), a locked contest keeps its problems and people (`LockedStays`), and whatever is fixed was approved
  contents of its problem (`FixedAreApproved`).
* `EditorInv`: whatever a revision contains, the later ones contain (`NothingOverwritten`), and what was typed is on the page or on
  the server, and on the server when nothing is unsaved (`NothingTypedIsLost`), for as long as no contents were shown that were older
  than a revision the page knew of (`overtaken`; section 6 has what happens then). What an answer to another errand replaces by design
  is not counted as typed any longer.
* `TransferInv`: what is answered as uploaded can be read, and only a transaction that commits after it was looked for in vain leaves
  a row without bytes (`PackagesAreWhole`); a request is answered with its own task, and the queue knows it (`AnswersAgree`); an
  export holds what the preview showed and what its contest fixed (`ExportsAreFixed`); nothing is answered after a revocation
  (`RevocationHolds`), and a repetition whose task exists is refused for nothing but permissions or a changed contest (`RetriesRecover`).
* `LocksInv`: a permission judged under the lock of its user holds until the commit (`PermissionHolds`),
  and a current revision never has a deactivated tag (`CurrentTagsActive`). `OnlyAdministrationDeadlocks`: every circle of waits has a
  transaction of the administration or of the history import in it.
* `AccountInv`: `SessionsAreCurrent`, `LinksAreCurrent`, `LoginRemains`.
  `FailuresBounded`. `BootstrapInv`: `FirstAdministratorOnce`, `CodesAreTrue`.
* `HistoryInv`: a nonce is used once, receipts and refusals are true. `CopiesSurvive`: a complete pair of copies
  exists until the import is final. `BatchInv`: the marker and what it
  speaks of agree. `HistoryEnds`: `CleanupsEnd` and `BatchesEnd`, an import ends with marker or failures unless the publication journal
  confirms a marker that is not there (`ConfirmedUnmarked`; section 6 says how that comes about, and without the exclusion TLC shows it).
* `PlanInv`: the check of a grouping plan answers what its reference definition answers. `PreparedInv` has three parts:
  packages contain what a person confirmed and reports are true (`GroupingInv`); a request is sent once
  unless it failed, a finished directory has its candidates, a repair keeps the records (`PreparationInv`); the content taken from an
  answer is the answer, the watchdog holds, the reported outcome is what happened (`RequestInv`).

**Fairness.** `JobWorker!FairSpec`: the polling loop of a live process and its
timers go on (`#runLoop` stops only on `stop` or an error, `setTimeout` and
`setInterval` fire), a handler eventually returns or throws,
reports are sent, a container is started again, retry delays pass, and a lease that
nobody renews any more expires. Nothing is assumed of clients. That a handler returns at all matters only after a
Redis error ended the loop: the process then stays until its last handler has
returned. `ImportFairness` and `ExportFairness`: the event loop serves the polling loop, the handlers and
the heartbeat; nothing is assumed of clients, administrators, timeouts or restarts.
`CheckFairness`: every call of a search ends, if only by its timer.
`MailFairness`: the timer calls the delivery again and time passes. `SiteBackupFairness`: every call of an operation has a
time limit, and the container is started again. `HistoryFairness`, `BatchFairness`: a
process goes on, and the operator starts it again after a death; nobody is obliged to begin.
`ReviewRound`, `RobotReview`, the accounts, settings, logins, contests, the page of a problem and the requests for transfers promise no liveness: every step is somebody's decision.

**Deadlock.** Checked for the queue, the workers and the reviews. It is off where the system really may stop:
`intake` and `import_continues` (the task or the searches have ended, nobody sends another request, no restart is left), `history` (the one-off tools have ended),
`accounts` and `row_locks_catalog_order` (all transactions, deployments or requests are done), `site` (the saves, sessions and requests are used up), `side_effects`.

## 4. Proofs

Every theorem holds for all values of the constants under the named assumptions
of the modules only (limits are natural numbers, some sets are finite, a null value is not a member). Each proof
module has the inductive invariant, a lemma per action, and the temporal theorem at the end.

| Module | Theorem | States |
|---|---|---|
| `JobQueueProofs` | `InvariantHolds` | `Spec => []Inv` |
| | `FinalOutcome`, `HandoverHolds` | `TerminalIsFinal`, `LeaseHandover` |
| | `Refinement` | `Spec => ImplementsLifecycle` |
| `SiteProofs` | `WorkersAreSafe`, `OutcomesAreFinal` | `WorkerInv`, `OutcomeIsFinal` |
| | `WorkersImplementLifecycle` | every step of the workers is a step of the queue or a stutter |
| | `SettingsAreSafe`, `LoginsAreSafe` | `SettingsInv`, `LoginInv` |
| | `ContestsAreSafe`, `EditorIsSafe` | `ContestInv`, `EditorInv` |
| `IntakeProofs` | `ImportsAreSafe`, `ImportsOnlyAdvance` | `ImportInv`, `TaskOnlyAdvances` |
| | `ChecksAreSafe`, `TransfersAreSafe` | `ChecksInv`, `TransferInv` |
| `ReviewProofs` | `InductiveInvariant`, `Typed`, `OneStory` | `IInv`, `TypeOK`, `StatusMatchesRound` |
| | `ReadOnlyRounds`, `AuditedEdits`, `LegalMoves` | `ClosedRoundsAreFinal`, `FrozenNeedsAudit`, `StatusMovesAreLegal` |
| | `JustifiedDecisions`, `SafeReviews` | `RuleDecisionsJustified`, `ReviewInv` |
| | `RobotInvariant`, `RobotsAreSafe` | the inductive invariant, `RobotInv` |
| | `CurrentRobotOpinions`, `FinalAnswers` | `RobotOpinionsAreCurrent`, `AnswersAreFinal` |
| `SideEffectsProofs` | `ExportsAreSafe`, `FilesAreSafe`, `MailsAreSafe`, `BackupsAreSafe` | `ExportInv`, `FilesInv`, `MailInv`, `SiteBackupInv` |
| `AccountsProofs` | `GuessesAreBounded`, `FirstAdministrator`, `AccountsAreSafe` | `FailuresBounded`, `BootstrapInv`, `AccountInv` |
| | `LocksHold` | `LocksInv` |
| | `DeadlocksNeedAdministration` | `OnlyAdministrationDeadlocks` |
| `HistoryProofs` | `HistoryIsTrue`, `CopiesAreSafe` | `HistoryInv`, `CopiesSurvive`, under `SignedForOriginal` |
| | `BatchIsTrue` | `BatchInv` |
| `PreparationProofs` | `StagesAreTrue`, `RequestsAreTrue`, `PreparationIsTrue` | `GroupingInv`, `RequestInv`, `PreparationInv` |
| | `PreparedIsTrue` | `PreparedInv`, of the three specifications |

The inductive invariants, and why they are needed:

* **Job queue** (`Inv`): `TypeOK`, `SetsMatchRecords`, `LeasesUnique`, `AttemptsBounded` (a
  queued job has an attempt left, so a requeued job cannot wait for ever),
  `KeysMatchRecords`, `AbsentIsBlank`. Recovery and leasing read the sets and must find the
  record they describe; `AbsentIsBlank` lets a first enqueue keep the others true.
* **Workers** (`WorkerIInv`): a worker that is busy works under a lease it was given; leases
  differ; handlers and workers agree on what runs; who reports a success had a handler that
  returned; the number of invocations is bounded by the attempts.
* **Import** (`IInv`): `ImportInv` and `RunFacts`, which says for each step of an
  invocation what row and queue look like: whoever stands before the seal has seen all items.
* **Search** (`ChecksIInv`): what each request carries is `Sound`: it is the problem if the revision is still the
  same (`Seen`), what it tells the index was saved (`Told`), it stands by settings that nobody has changed
  (`Configured`), and a verdict of the check goes with the contents it was asked about (`Justified`). Of the problem: only the
  last round is open, and nothing was used of it yet (`ProblemInv`).
* **Transfers** (`TransferIInv`): what each request carries is fine whatever happens beside it (`RowFine`): an upload before the look has
  its bytes, and before its transaction no row (`PackageFine`); who stands before the queue has its row (`TaskFine`); what was allowed at the
  beginning is remembered (`RightFine`); the revision it has picked is one the contest held since the version the page shows, and that of
  the pin if it was pinned (`PickFine`). Rows are never rewritten and versions only added, so a step of one request keeps what the others rely on.
* **Review** (`IInv`): `StatusMatchesRound` alone is not inductive: a request in
  flight carries a row, and serving it replaces the problem. Every request is `Sound`: what it saw
  is not newer than the problem, and is the problem itself if the revision is still the same. Each
  handler has an effect lemma (keeps status and rounds, opens a round, ends the open one, leaves a finished one); a step is one of
  four effects. `JInv` adds `Decisions` for the justification: what a decided round counted.
* **Robots** (`RIInv`): `IInv` of the review; the rows of open, completed and
  successful assignments, each with what it means for the round it belongs to. The proof
  reuses the effect lemmas of the review.
* **Export** (`ExportIInv`): types, the queue's success implies the row's, what a
  sealed row names (`SealFacts`), which object an invocation has written so far (`ObjectFacts`), and that
  a queue entry with an attempt left has a row that is not final (`NextFact`).
* **Files** (`FilesIInv`): for each upload where its bytes are (`UploadFacts`) and the parts of `FilesInv`.
* **Mails** (`MailIInv`): what a sender knows of the entry it holds (`HolderFacts`), attempts and tries counted
  together with the trouble so far (`Counting`).
* **Backups** (`BackupIInv`): when the site is paused (`PauseFacts`), what an operation carries at
  each step (`CarryFacts`), what its outcome says (`OutcomeFacts`), and the parts of `SiteBackupInv`.
* **Settings** (`SettingsIInv`): what a page is about to write fulfils by itself what is asked of a row (`BuiltRows`), so it does not
  matter what was stored meanwhile; as long as there was one INSERT at most, revisions count the rows and a draft has the
  number of its row (`RevisionsCount`). Without the limit this is false: the proof failed there, and
  TLC could not have found it with three rows written; `inserts` was added to say it.
* **Logins** (`LoginIInv`): each request fits its login (`FitsIn`: before it was begun, past the state, past the provider), two requests for
  one login stay `Apart`, and a login that led to a session is `Settled`.
* **Contests** (`ContestIInv`): no row and no page carries a time still to come (`TimesTrue`), so a row whose time is the
  one a page shows is the row that page showed; what each request has read is an older row, or that row (`EditTrue`); of the creations one is followed (`OneCreator`).
* **The page of a problem** (`EditorIInv`): an answer is a revision there is and what it contains (`CallFits`), the page knows of
  every revision it carries or asks for (`CopiesFit`). Until something is overtaken every copy holds the revision it names
  (`CopiesTrue`), a save holds what it was made from, and the page what was sent (`SaveTrue`), page and cache hold each revision an errand has named, so
  that its answer may lend them its own (`CallsTrue`). A save the server accepts then contains all that is there.
* **Limiter** (`LimiterIInv`): the failures of the running window and the attempts under way never
  exceed the limit by more than the attempts that can be under way at once, less one; the window's failures are its guesses.
* **Bootstrap** (`BootstrapIInv`): who opens holds the lock and found the database empty, codes are those of the last
  tool that wrote, an account exists only after completion.
* **Credentials** (`CredentialIInv`): a stamp (user, revision, proof) that is still current belongs to a user who can log
  in; each step leaves a user `Steady` or makes all older stamps `Outdated`. Sessions, mailed links, pending
  verifications and requests are then treated alike.
* **Row locks** (`LocksIInv`): no two transactions hold a row in conflicting modes; the rest of a
  transaction's program is `Ordered`: before a step relies on a row, the row is locked by it or by an earlier step
  (`Secured`); what has been judged under the lock of the user is still true (`Judged`). `OrderIInv` adds, for
  every program outside administration and history import, that locks are taken in ascending level of their table (catalog, problem, users, token,
  memberships, grants, tags), with the exceptions stated: a row locked again, and the problem under
  the exclusive catalog. In a circle of waits every member would wait at a higher level than the one before; the levels end at 7.
* **Rehearsal** (`ScratchIInv`): `Stage`, a table that tells for each step of the process which of the seven copies
  hold what; where the process has stopped or diagnoses an error, only `PairSurvives` is left, and it is all that is needed.
* **Import into production** (`FormalIInv`): `OneAtATime`, because the safety of the data rests on the approvals: no two runs
  work at once, an approval that was signed and not yet claimed excludes a working run and a committed one, and each run has its own.
  With it `PhaseFacts` (the phase on disk for each step), `DataFacts` (database, store, backup and snapshot for each
  step, and that what a rollback has recorded as restored is restored) and `Refused` (what a FAIL receipt implies) are kept.
* **Batch** (`BatchIInv`): `RowFacts` (a problem per written item; a transaction in doubt is one that can still write),
  `PackageFacts` (where an importer stands tells what is stored, listed and known as a task), `JournalFacts`
  (what each phase of a journal implies) and `DirectoryFacts` (what manifest, publication journal and marker hold while
  the directory is closed). Other importers and the clean-up of leases only add to what these facts speak of.
* **Stages** (`GroupingIInv`): what a running command has read is what it expected to read, and what it is about to write
  rests on a confirmed batch (`CommandFacts`); a directory closed under a seal holds what the command before it
  produced, unless somebody edited it, which breaks the seal (`GroupingSeals`).
* **Request** (`RequestIInv`): what the parser keeps between two events tells how the answer reads so far
  (`Parsed`); a timer that fired or a cancellation is remembered until the attempt ends (`SignalFacts`).
* **Preparation** (`PreparationIInv`): a directory is set up by the process that made it only (`MarkFacts`); a registered
  request has one sender, because its file was made exclusively (`Alone`); what the checkpoints of one
  source say together (`SourceFacts`); what is there where a process stands (`RowFacts`). Files are only added,
  except failure receipts and the mark of an unfinished directory, so a step of one process
  keeps what the others rely on.

`SignedForOriginal` says that the operator signs approvals for the data as they were before any import
(`Approvable` has nothing else, as in the run). It is no property of the code, which compares the
inventories named in the approval with what it finds: an operator who signs for an archive
that was imported already asks for a second import, whose backup is no longer the original data.

Each strengthening was checked by TLC on the run's instance before it was proved
(for the mails on 5.1 million states, for the stages on 199 591, for the search on 884 264, otherwise on the states of the run);
`OrderIInv` is the exception, it was proved at once.

These changes to the models came from proving: `RowLocks` keeps the
request, what it saw, the verdict and the remaining program in separate fields,
and sorts users by rank instead of a library operator; `AdminBootstrap`,
`LoginLimiter`, `ReviewMail`, `HistoryGrouping`, `HistoryPreparation` and `ModelRequest` name the assumptions that their null
values and finite sets need, and `HistoryPreparation` stands on the other two so that one module can prove about all three.

Only model-checked:

* liveness (`EveryJobEnds`, `QueuedImportEnds`, `SearchesEnd`, `EffectsEnd`, `HistoryEnds`): fairness and
  ENABLED are out of the provers' reach;
* `PlanInv`: `GroupingPlan` compares recursive reference definitions over bounded plans, an induction over data.

## 5. Findings

1. **A partly imported task is not continued.** `updateImport` accepts a progress
   only if it does not fall. An attempt that reached 60 and failed leaves 60; the next one
   begins with 30 and is refused before it reads the package. Comment and test
   of the handler say that it continues; the test's in-memory store lacks the condition.
   Run `import_continues`.
2. **An opinion may be about contents that have changed.** Only the round is
   compared, and an audited edit stays in the round; `docs/spec.md:13` says that
   opinions with a wrong digest are refused. Run `review_opinions`. (Robot
   completions do compare the revision: `RobotOpinionsAreCurrent`.)
3. **A run that failed in its clean-up cannot be rolled back.** A terminal clean-up that dies after dropping the
   database copy stays in the phase that claims to be recoverable, and refuses to go on. Run `history_recoverable`.
4. **The history import locks against the documented order.** `docs/tag-taxonomy.md:419` says that whoever
   writes revisions or opinion tags locks the catalog first; `importHistoricalReviews` locks the policy of its actor first, and the
   two deadlock. Run `row_locks_catalog_order`.

## 6. Differences met while reading, without a run

Reviews and robots: a stored success is not always replayed, visibility is judged
before the stored answer is read (`robot-store.ts:702`, against
`docs/permissions.md:200-202`); `submitProblem` reads the review policy outside the
transaction; finalize, opinions, withdraw and suggestions judge the permission on a policy read
without the lock of the user (against `docs/permissions.md:19-23`); `deleteProblem` leaves an open
round as it is; a change of permissions does not evaluate a round again.

Jobs: `docs/storage-and-jobs.md:1-12` describes Redis and a separate worker as
required, the API runs its jobs in process; `cancel` of the queues has no caller
in the applications and no statement sets `import_jobs` to `cancelled`; an export
that failed after its progress passed 10 is refused when it is retried, like the
import of finding 1; the late error of a timed-out export marks the row; the mail
sender is not stopped by the maintenance of a restoration.

Backup: `begin()` whose write of the record fails leaves the job "running" in memory
while nothing runs, and the page disables its buttons; a `pg_restore` whose exit code is lost is reported
as not committed; the staging database of a restoration that crashed is never dropped.

Accounts: a deployment that dies between migrating and opening leaves the bootstrap "blocked" for ever (against
`docs/admin-guide.md:20`); a server that writes rows meanwhile makes the completion refuse for ever; `recover-root`
reports "unavailable" when only the reply was lost, and the recovery of an administrator can commit a password that nobody
saw; two first saves of the OAuth settings that overlap are both accepted, and the second replaces what its page never showed (`admin-service.ts:433`: there is no row to lock, against `docs/ustc-oauth.md:14`); a callback that found no account with the identity, an unlinking in between, or a switch read too early creates an account although automatic creation has been switched off; the two rows of settings are judged beside each other outside the transaction, and disagree after two saves that overlap (a login is then refused); creating a role writes the audit twice;
`rolesForUser` compares a key with a display name; `replaceMembers` does not insert where an expired row exists.

Contests: the rows carry `now()` in microseconds, a page is told milliseconds (`toIso`, `database-contest-store.ts:78`) and sends them back to an
equality (line 171): on a PostgreSQL with microseconds nearly every edit of a contest answers 409 although nobody changed it, and reading
anew is no remedy (against `docs/api-contracts.md:308`; the model's odd instants are these). `updateContestInputSchema` is `.partial()` over fields with
defaults (`packages/contracts/src/contest.ts:46`); the locked version of zod fills them in, so that a request that only changes the state
would arrive with an empty description and no members, and is refused on a locked contest; the tests call the service directly, as the
model does with every set of fields. Whoever saves becomes a manager (`contest-service.ts:223-228`), also an administrator who repairs somebody else's contest.

Transfers: an upload whose commit is lost and lands after the look leaves a row whose bytes were deleted (`transfer-service.ts:196-215`; reading it
is refused). `createExport` compares the version of the contest before it looks for the key (line 466), so a repeated export of a contest that
was changed meanwhile answers 409 although its task exists, against the intent of the comment at line 1043. Row and problems of a contest are read
in separate statements; an export without a preview may hold what the contest fixed later. The page draws a new key for every click
(`transfer-page.tsx:795`), so after a lost answer a second click makes a second task.

The page of a problem: the answer to the switch on the tab of reviews is shown whatever was typed meanwhile on another tab
(`problem-workspace-page.tsx:612`), and so are those to a withdrawal and to applied suggestions. With a save under way this goes further,
and `EditorInv` without `overtaken` is violated: the switch is sent, text typed and sent, the answer to the switch puts the older
contents back, more is typed, and the answer to the save lends the newer revision to it (line 210); the next save is accepted and
overwrites what the first one wrote, with no conflict (against the intent of `docs/user-guide.md:28`). An account that may write test data
but not edit the problem may type on that tab, and is never able to save (line 231). A save that fails after access was denied
puts a draft into the storage that had just been cleared (line 219).

History tools: the FAIL receipt says in fixed text that the backup was kept; a late error after the final phase retires the
files of a PASS; the sidecar of an upgraded journal is read but never written by `advanceSourceIntentPhase`; the removal of the old completion marker comes
before the journal leaves the previous batch (`import-phase.ts:544-546`), so that after an error in between, when the previous batch is
imported again, both tests of lines 515-529 succeed and the run returns without a failure and without a marker, as does every later one
(against the comment at 539-540, which takes the journal for the marker; the test `history-import-phase.test.ts:2335` of a lost reply there
has no earlier journal); a crash between
link and unlink in `movePrivateFileNoReplace` leaves both names and every later run refuses (against the comment at `core.ts:1305`); a death
between `run.json` and its marker leaves a directory nobody can finish; a write that succeeded and whose later sync failed writes a failure receipt too; a
left-over candidate makes a repair refuse in its second phase, after other repairs were written; early errors of the packaging
leak handles; an abort during `beforeRequest` is never heard, and a complete answer on a connection that stays open fails by the idle timer.

Files and searches: the catch block of `uploadFile` (`problem-file-service.ts:307-308`) cannot tell a transaction that failed from one
whose reply was lost, and deletes the object in both cases, also when a committed revision refers to it (against the comments at 158-159
and 337-338). A search puts its sources on the shared server and asks in a second call (`plugins/anklang/src/index.ts:1158`, `1211`); an
"apply" of older settings may arrive in between, and the answer of the public search is kept under the key of `local`
(against `docs/plugins.md:62`). TLC shows the first when the exception of
`RevisionsStayComplete` is taken out, and the second, with the one of `CacheIsTrue`, for two searches beside a change of the settings (the run
`intake` has one search beside it).

## 7. Not modelled, and why

Cryptography, the wire protocols of CAS, OAuth and SMTP (I/O); archive formats (pure
conversion, abstracted to a package that can be converted or not); the full calculus of
permissions (abstracted to who may do the thing, changing at any time); web
pages but for the page that edits a problem and those of settings, contests and (what they ask for) transfers, whose navigation, deletion and demo mode are left out
(opening a page again is loading it anew); announcements and profiles, which are forms over their own rows; ZIP
and PDF parsing of the history tools; creation of problems and batch changes, which repeat the
single-problem transactions in a loop. Each component's note in `PROJECT.json` says more.

## 8. Left to do

The administration of the tag catalog (names, aliases, tree) as a module of its own; the page of transfers with its polling.
