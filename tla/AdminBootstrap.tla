--------------------------- MODULE AdminBootstrap ---------------------------
(***************************************************************************)
(* From an empty database to the first administrator, and the recovery of  *)
(* lost passwords: deployment-migration.ts, server.ts, the tools           *)
(* bootstrap-admin, recover-admin-credentials, recover-root-credentials,   *)
(* and packages/database/src/admin-bootstrap.ts.                           *)
(*                                                                         *)
(* A deployment holds a session-level advisory lock while it migrates and  *)
(* seeds, and opens the bootstrap when it found the database empty; API    *)
(* servers migrate and seed as well, without that lock.  The tools work    *)
(* beside both.                                                            *)
(***************************************************************************)
EXTENDS Naturals, FiniteSets

CONSTANTS
    Deployments,  \* migration jobs, each of which may run again and again
    Servers,      \* API processes, likewise
    Tools,        \* runs of one of the three tools
    NoHolder,     \* nobody holds the advisory lock
    MaxDeaths     \* bounds processes that die and replies that are lost

ASSUME BootstrapAssumption == MaxDeaths \in Nat /\ NoHolder \notin Deployments \cup Tools

VARIABLES
    schema,      \* "empty", "old" (an installation of before), "migrated"
    seeded,      \* seedCoreDatabase has committed since
    used,        \* rows beyond the seed
    state,       \* admin_bootstrap_state: status
    lease,       \* the advisory lock
    deployment,  \* per deployment: step and wasEmptyBeforeMigration
    server,      \* per server: step
    tool,        \* per run of a tool: kind, step, and the code it printed
    eligible,    \* administrators recoverAdminCredentials would choose from
    password,    \* per account: the tool that set the password last, or NoHolder
    shown,       \* tools that have written their password to the terminal
    created,     \* administrators created by the bootstrap, and the used of then
    deaths

bootstrapVars == <<schema, seeded, used, state, lease, deployment, server, tool,
                   eligible, password, shown, created, deaths>>

Kinds    == {"bootstrap", "admin", "root"}
Accounts == {"admin", "root"}

BootstrapInit ==
    /\ schema \in {"empty", "old"}
    /\ used = (schema = "old") /\ seeded = FALSE
    /\ state = "none" /\ lease = NoHolder
    /\ deployment = [d \in Deployments |-> [step |-> "idle", empty |-> FALSE]]
    /\ server = [s \in Servers |-> "down"]
    /\ tool = [t \in Tools |-> [kind |-> "bootstrap", step |-> "idle", code |-> "none"]]
    /\ eligible = 0
    /\ password = [a \in Accounts |-> NoHolder]
    /\ shown = {} /\ created = {} /\ deaths = 0

(* lockFreshSeedBaseline: while a deployment is about to commit the open   *)
(* state, every table is locked against everybody else.                    *)
Unblocked == \A d \in Deployments : deployment[d].step # "opening"

Deploys(d, step) == deployment[d].step = step
DeploymentGoes(d, step) == deployment' = [deployment EXCEPT ![d].step = step]

database == <<schema, seeded, used, state>>
accounts == <<eligible, password, shown, created>>
-----------------------------------------------------------------------------
(* runDeploymentDatabaseMigration.                                         *)
AcquireLease(d) ==
    /\ deployment[d].step \in {"idle", "done", "failed"} /\ lease = NoHolder
    /\ lease' = d
    /\ DeploymentGoes(d, "look")
    /\ UNCHANGED <<database, server, tool, accounts, deaths>>

LookWhetherEmpty(d) ==
    /\ Deploys(d, "look")
    /\ deployment' = [deployment EXCEPT ![d] = [step |-> "migrate", empty |-> schema = "empty"]]
    /\ UNCHANGED <<database, lease, server, tool, accounts, deaths>>

(* migrateDatabase: a transaction; the migration that adds the state adds  *)
(* it blocked.  Of two that start from the same version one fails.         *)
Migrated ==
    /\ schema' = "migrated"
    /\ state' = IF schema = "migrated" THEN state ELSE "blocked"
    /\ UNCHANGED <<seeded, used>>

DeploymentMigrates(d) ==
    /\ Deploys(d, "migrate") /\ Unblocked
    /\ Migrated /\ DeploymentGoes(d, "seed")
    /\ UNCHANGED <<lease, server, tool, accounts, deaths>>

DeploymentSeeds(d) ==
    /\ Deploys(d, "seed") /\ Unblocked
    /\ seeded' = TRUE
    /\ DeploymentGoes(d, IF deployment[d].empty THEN "open" ELSE "release")
    /\ UNCHANGED <<schema, used, state, lease, server, tool, accounts, deaths>>

(* openAdminBootstrapForFreshSeed, up to its commit: the lock of the       *)
(* session, all tables, the state, the exact seed; then the lock is given  *)
(* back, which no rollback undoes.                                         *)
Opens(d) ==
    /\ Deploys(d, "open") /\ Unblocked
    /\ lease = d /\ state = "blocked" /\ seeded /\ ~used
    /\ lease' = NoHolder
    /\ DeploymentGoes(d, "opening")
    /\ UNCHANGED <<database, server, tool, accounts, deaths>>

OpenCommits(d) ==
    /\ Deploys(d, "opening")
    /\ state' = "open"
    /\ DeploymentGoes(d, "done")
    /\ UNCHANGED <<schema, seeded, used, lease, server, tool, accounts, deaths>>

ReleaseLease(d) ==
    /\ Deploys(d, "release")
    /\ lease' = NoHolder
    /\ DeploymentGoes(d, "done")
    /\ UNCHANGED <<database, server, tool, accounts, deaths>>

(* Not opened, or an error: the lock is given back all the same.           *)
OpenRefused(d) ==
    /\ Deploys(d, "open") /\ Unblocked
    /\ ~(state = "blocked" /\ seeded /\ ~used)
    /\ lease' = NoHolder
    /\ DeploymentGoes(d, "failed")
    /\ UNCHANGED <<database, server, tool, accounts, deaths>>

(* A deployment that dies, or whose call fails, loses the lock with its    *)
(* session; what it was about to commit is rolled back.                    *)
DeploymentDies(d) ==
    /\ deployment[d].step \notin {"idle", "done", "failed"} /\ deaths < MaxDeaths
    /\ deaths' = deaths + 1
    /\ lease' = IF lease = d THEN NoHolder ELSE lease
    /\ DeploymentGoes(d, "failed")
    /\ UNCHANGED <<database, server, tool, accounts>>
-----------------------------------------------------------------------------
(* The API process: migrate where it is told to, assert that the bootstrap *)
(* is not open, seed, serve.                                               *)
ServerGoes(s, step) == server' = [server EXCEPT ![s] = step]

ServerBegins(s) ==
    /\ server[s] = "down" /\ Unblocked
    /\ \/ UNCHANGED database
       \/ Migrated
    /\ ServerGoes(s, "assert")
    /\ UNCHANGED <<lease, deployment, tool, accounts, deaths>>

ReadyForServer == state \in {"blocked", "completed"}

AssertReady(s) ==
    /\ server[s] = "assert" /\ Unblocked
    /\ ServerGoes(s, IF ReadyForServer THEN "seed" ELSE "down")
    /\ UNCHANGED <<database, lease, deployment, tool, accounts, deaths>>

ServerSeeds(s) ==
    /\ server[s] = "seed" /\ Unblocked
    /\ seeded' = TRUE
    /\ ServerGoes(s, "running")
    /\ UNCHANGED <<schema, used, state, lease, deployment, tool, accounts, deaths>>

(* Whatever the application writes.                                        *)
ServerWrites(s) ==
    /\ server[s] = "running" /\ Unblocked
    /\ used' = TRUE
    /\ eligible' \in IF state = "completed" THEN 0..2 ELSE {eligible}
    /\ UNCHANGED <<schema, seeded, state, lease, deployment, server, tool, password, shown,
                   created, deaths>>

ServerStops(s) ==
    /\ server[s] # "down"
    /\ ServerGoes(s, "down")
    /\ UNCHANGED <<database, lease, deployment, tool, accounts, deaths>>
-----------------------------------------------------------------------------
(* The tools: readState, input and hash, and what the kind asks for.       *)
ToolGoes(t, step) == tool' = [tool EXCEPT ![t].step = step]
Printed(t, code)  == tool' = [tool EXCEPT ![t].step = "done", ![t].code = code]

(* Anything that throws: recover-root-credentials says "unavailable" where *)
(* the others say that the outcome is unknown.                             *)
Caught(t) == Printed(t, IF tool[t].kind = "root" THEN "unavailable" ELSE "unknown")

ReadState(t, k) ==
    /\ tool[t].step = "idle" /\ Unblocked
    /\ tool' = [tool EXCEPT ![t] =
           CASE schema # "migrated" ->
                    [kind |-> k, step |-> "done",
                     code |-> IF k = "root" THEN "unavailable" ELSE "unknown"]
             [] schema = "migrated" /\ state # (IF k = "bootstrap" THEN "open" ELSE "completed") ->
                    [kind |-> k, step |-> "done", code |-> "unavailable"]
             [] OTHER ->
                    [kind |-> k, step |-> IF k = "root" THEN "show" ELSE "commit", code |-> "none"]]
    /\ UNCHANGED <<database, lease, deployment, server, accounts, deaths>>

(* completeAdminBootstrap: waits for the advisory lock, locks all tables,  *)
(* and finds the state open and nothing but the seed.                      *)
\* mutant: the state is not read again under the locks
MayComplete_Unread == seeded

MayComplete == state = "open" /\ seeded /\ ~used

CompleteAdminBootstrap(t) ==
    /\ tool[t].kind = "bootstrap" /\ tool[t].step = "commit"
    /\ lease = NoHolder /\ Unblocked
    /\ \/ /\ MayComplete
          /\ state' = "completed" /\ used' = TRUE
          /\ created' = created \cup {[tool |-> t, amid |-> used]}
          /\ eligible' = 1
          /\ password' = [password EXCEPT !["admin"] = t]
          /\ \/ Printed(t, "success") /\ UNCHANGED deaths
             \/ deaths < MaxDeaths /\ deaths' = deaths + 1 /\ Printed(t, "unknown")
       \/ /\ ~MayComplete /\ Printed(t, "unavailable")
          /\ UNCHANGED <<state, used, created, eligible, password, deaths>>
    /\ UNCHANGED <<schema, seeded, lease, deployment, server, shown>>

(* Root: the password is on the terminal before it is valid.               *)
ShowFirst(t) ==
    /\ tool[t].step = "show"
    /\ shown' = shown \cup {t} /\ ToolGoes(t, "commit")
    /\ UNCHANGED <<database, lease, deployment, server, eligible, password, created, deaths>>

ShowFails(t) ==
    /\ tool[t].step = "show" /\ deaths < MaxDeaths
    /\ deaths' = deaths + 1
    /\ Printed(t, "secret_write_failed")
    /\ UNCHANGED <<database, lease, deployment, server, accounts>>

(* recoverAdminCredentials, recoverRootCredentials: refused while another  *)
(* run is in its transaction, or without exactly one candidate.            *)
MayRecover(t) ==
    /\ state = "completed"
    /\ tool[t].kind = "admin" => eligible = 1

Busy(t) == \E o \in Tools \ {t} : tool[o].kind = tool[t].kind /\ tool[o].step = "commit"

Recover(t) ==
    /\ tool[t].kind \in Accounts /\ tool[t].step = "commit" /\ Unblocked
    /\ \/ /\ MayRecover(t)
          /\ password' = [password EXCEPT ![tool[t].kind] = t]
          /\ \/ /\ IF tool[t].kind = "root" THEN Printed(t, "success") ELSE ToolGoes(t, "show_last")
                /\ UNCHANGED deaths
             \/ deaths < MaxDeaths /\ deaths' = deaths + 1 /\ Caught(t)
       \/ ~MayRecover(t) /\ Printed(t, "unavailable") /\ UNCHANGED <<password, deaths>>
       \/ Busy(t) /\ Printed(t, "unavailable") /\ UNCHANGED <<password, deaths>>
    /\ UNCHANGED <<database, lease, deployment, server, eligible, shown, created>>

(* Administrator: the password is valid before it is on the terminal.      *)
ShowLast(t) ==
    /\ tool[t].step = "show_last"
    /\ \/ shown' = shown \cup {t} /\ Printed(t, "success") /\ UNCHANGED deaths
       \/ deaths < MaxDeaths /\ deaths' = deaths + 1 /\ Printed(t, "unknown") /\ UNCHANGED shown
    /\ UNCHANGED <<database, lease, deployment, server, eligible, password, created>>

(* Aborted input, a wrong confirmation, a call that fails, or a death.     *)
ToolGivesUp(t) ==
    /\ tool[t].step \in {"show", "commit"} /\ deaths < MaxDeaths
    /\ deaths' = deaths + 1 /\ Caught(t)
    /\ UNCHANGED <<database, lease, deployment, server, accounts>>
-----------------------------------------------------------------------------
BootstrapNext ==
    \/ \E d \in Deployments :
           \/ AcquireLease(d) \/ LookWhetherEmpty(d) \/ DeploymentMigrates(d) \/ DeploymentSeeds(d)
           \/ Opens(d) \/ OpenCommits(d) \/ OpenRefused(d) \/ ReleaseLease(d) \/ DeploymentDies(d)
    \/ \E s \in Servers :
           \/ ServerBegins(s) \/ AssertReady(s) \/ ServerSeeds(s) \/ ServerWrites(s) \/ ServerStops(s)
    \/ \E t \in Tools :
           \/ \E k \in Kinds : ReadState(t, k)
           \/ CompleteAdminBootstrap(t) \/ ShowFirst(t) \/ ShowFails(t) \/ Recover(t) \/ ShowLast(t)
           \/ ToolGivesUp(t)

BootstrapSpec == BootstrapInit /\ [][BootstrapNext]_bootstrapVars
-----------------------------------------------------------------------------
(* Types, and one holder of the lock.                                      *)
BootstrapTypeOK ==
    /\ schema \in {"empty", "old", "migrated"} /\ used \in BOOLEAN /\ seeded \in BOOLEAN
    /\ state \in {"none", "blocked", "open", "completed"}
    /\ lease \in Deployments \cup {NoHolder}
    /\ eligible \in 0..2 /\ shown \subseteq Tools
    /\ password \in [Accounts -> Tools \cup {NoHolder}]
    /\ \A d \in Deployments : deployment[d].step \in {"look", "migrate", "seed", "open", "release"}
                                  => lease = d

(* docs/admin-guide.md, first initialisation: whichever tools race and     *)
(* whatever replies are lost, one administrator is created, exactly when   *)
(* the bootstrap counts as completed, in a database nobody had used; a     *)
(* server of an earlier hour may have used it since it was opened, but an  *)
(* installation of before is never opened.                                 *)
FirstAdministratorOnce ==
    /\ Cardinality(created) = IF state = "completed" THEN 1 ELSE 0
    /\ \A a \in created : ~a.amid
    /\ password["root"] # NoHolder => state = "completed"

(* docs/admin-guide.md, recovery: a tool that reports success has written  *)
(* the password it set to the terminal; root's password, once set, can     *)
(* always be read there, whenever the tool died; an administrator's tool   *)
(* that says "unavailable" has changed nothing.                            *)
CodesAreTrue ==
    \A t \in Tools :
        /\ tool[t].code = "success" /\ tool[t].kind \in Accounts => t \in shown
        /\ password["root"] = t => t \in shown
        /\ password["admin"] = t /\ tool[t].kind = "admin" => tool[t].code # "unavailable"
        /\ tool[t].code = "success" /\ tool[t].kind = "bootstrap" => created # {}

(* What is true of the first administrator and of recovered passwords.     *)
BootstrapInv == BootstrapTypeOK /\ FirstAdministratorOnce /\ CodesAreTrue
=============================================================================
