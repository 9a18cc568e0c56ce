----------------------------- MODULE MCAccounts -----------------------------
(* Everything around the accounts: the locks under which permissions are   *)
(* judged, credentials and sessions, the limit on failed logins, and the   *)
(* first administrator; and the preparation of an import from history:     *)
(* its stages, the plan, the checkpoints and one request to the model.     *)
(* They share no state, so a behaviour follows one of them, chosen at the  *)
(* beginning.                                                              *)
EXTENDS MCRowLocks, AccountCredentials, LoginLimiter, AdminBootstrap,
        GroupingPlan, HistoryPreparation

CONSTANTS p1, p2, asGiven, edited, missing, g1, g2, nothing, r1, r2, nofile
CONSTANTS c1, c2, user1, user2, a1, a2, nobody, x1, x2, d1, d2, api, i1, i2, noholder

VARIABLES
    chosen,  \* the part of this behaviour
    topic    \* of credentials: which requests compete

MCIdentities == {<<"oauth", 1>>, <<"cas", 1>>}

(* One account with its password, mails and links; one account with its    *)
(* identities; two accounts that want the same identity.                   *)
Local == {"verify_mail", "change_password", "save_link", "use_link"}
Steps == {request[c].step : c \in Clients}
Topic ==
    CASE topic = "local" ->
             account[user2].state = "absent" /\ \A i \in Identities : linkedTo[i] = nobody
      [] topic = "linked" ->
             /\ account[user2].state = "absent" /\ Steps \cap Local = {}
             /\ email[user1].address # a2
      [] topic = "race" ->
             /\ Steps \cap (Local \cup {"unlink"}) = {} /\ linkedTo[<<"cas", 1>>] = nobody
             /\ \A u \in Persons : account[u].revision < MaxAuthRevision
             /\ email[user1].address # a2 /\ email[user2].address # a1

MCSourcePaths == <<p1, p2>>

Others == <<credentialVars, limiterVars, bootstrapVars>>
PreparedVars == <<groupingVars, planVars, preparationVars, requestVars>>

MCInit ==
    /\ chosen \in {"locks", "credentials", "limiter", "bootstrap",
                   "grouping", "plan", "preparation", "request"}
    /\ Init /\ CredentialInit /\ LimiterInit /\ BootstrapInit
    /\ chosen # "locks" => /\ mix = 1 /\ rows = Users /\ members = Users
                           /\ owner = 1 /\ tagged = {tagA}
    /\ chosen # "bootstrap" => schema = "empty"
    /\ topic \in IF chosen = "credentials" THEN {"local", "linked", "race"} ELSE {"local"}
    /\ Topic /\ email[user1].address # a2
    /\ topic = "race" => account[user1].state = "active"
    /\ chosen # "credentials" => account[user1] = Absent
    /\ source = [p \in Files |-> asGiven] /\ GroupingInit
    /\ PlanInit /\ PreparationInit /\ RequestInit
    /\ chosen # "preparation" => confirmedSources = 1

(* The processes are alike: the second is used only beside the first, and  *)
(* with two sources they follow one another.                               *)
PreparationStep ==
    /\ PreparationNext
    /\ IsAt(r2, "idle") /\ run[r2]' # Idle => ~IsAt(r1, "idle") /\ confirmedSources = 1
    /\ confirmedSources = 2 => starts' + prepareFaults' <= 4

MCNext ==
    /\ UNCHANGED <<chosen, topic>>
    /\ \/ chosen = "locks" /\ UNCHANGED <<Others, PreparedVars>> /\ Next
       \/ /\ chosen = "credentials"
          /\ UNCHANGED <<vars, limiterVars, bootstrapVars, PreparedVars>>
          /\ CredentialNext /\ Topic'
       \/ /\ chosen = "limiter"
          /\ UNCHANGED <<vars, credentialVars, bootstrapVars, PreparedVars>>
          /\ LimiterNext
       \/ /\ chosen = "bootstrap"
          /\ UNCHANGED <<vars, credentialVars, limiterVars, PreparedVars>>
          /\ BootstrapNext
       \/ /\ chosen = "grouping"
          /\ UNCHANGED <<vars, Others, planVars, preparationVars, requestVars>>
          /\ GroupingNext /\ edits' + mishaps' <= 2
       \/ /\ chosen = "plan"
          /\ UNCHANGED <<vars, Others, groupingVars, preparationVars, requestVars>>
          /\ Seal
       \/ /\ chosen = "preparation"
          /\ UNCHANGED <<vars, Others, groupingVars, planVars, requestVars>>
          /\ PreparationStep
       \/ /\ chosen = "request"
          /\ UNCHANGED <<vars, Others, groupingVars, planVars, preparationVars>>
          /\ RequestNext

MCSpec == MCInit /\ [][MCNext]_<<chosen, topic, vars, Others, PreparedVars>>
=============================================================================
