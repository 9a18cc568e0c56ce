---------------------------- MODULE AccountsProofs ----------------------------
(***************************************************************************)
(* Proofs about accounts, their credentials and their permissions, for     *)
(* every value of the constants.  The components share nothing; each has   *)
(* its section: the inductive invariant, a lemma per kind of step, and the *)
(* theorem that states what the runs check.                                *)
(***************************************************************************)
EXTENDS RowLocks, AccountCredentials, LoginLimiter, AdminBootstrap, FiniteSetTheorems, TLAPS

-----------------------------------------------------------------------------
(***************************************************************************)
(* LoginLimiter, for every number of attempts under way, of windows and of *)
(* allowed failures. The failures of the running window and the attempts   *)
(* that are under way together never exceed what the last allowed failure  *)
(* lets through.                                                           *)
(***************************************************************************)
(* The failures of the running window and the attempts under way together  *)
(* never exceed what may pass together with the last allowed failure.      *)
Under == Cardinality(verifying)

LimiterIInv ==
    /\ window \in [failed : Nat, began : Nat] /\ clock \in 0..MaxWindows
    /\ guesses \in [0..MaxWindows -> Nat] /\ verifying \subseteq Attempts
    /\ window.began <= clock
    /\ IF Expired THEN guesses[clock] = 0 ELSE guesses[clock] = window.failed
    /\ \A t \in 0..MaxWindows : t > clock => guesses[t] = 0
    /\ window.failed + Under <= MaxFailedAttempts - 1 + Cardinality(Attempts)
    /\ FailuresBounded

LEMMA UnderWay ==
    ASSUME NEW V \in SUBSET Attempts, NEW a \in Attempts
    PROVE  /\ Cardinality(V) \in Nat /\ Cardinality(Attempts) \in Nat
           /\ Cardinality(V) <= Cardinality(Attempts)
           /\ a \in V => Cardinality(V \ {a}) = Cardinality(V) - 1
<1>1. IsFiniteSet(Attempts) /\ IsFiniteSet(V)
  BY LimiterAssumption, FS_Subset DEF LimiterAssumption
<1>2. Cardinality(V) <= Cardinality(Attempts)
  BY <1>1, FS_Subset
<1>3. Cardinality(V) \in Nat /\ Cardinality(Attempts) \in Nat
  BY <1>1, FS_CardinalityType
<1>4. a \in V => Cardinality(V \ {a}) = Cardinality(V) - 1
  BY <1>1, FS_RemoveElement
<1>. QED BY <1>2, <1>3, <1>4

LEMMA LimiterStep == ASSUME LimiterIInv, [LimiterNext]_limiterVars PROVE LimiterIInv'
<1>. DEFINE M == MaxFailedAttempts
            n == Cardinality(Attempts)
<1>1. /\ window \in [failed : Nat, began : Nat] /\ clock \in 0..MaxWindows
      /\ guesses \in [0..MaxWindows -> Nat] /\ verifying \subseteq Attempts
      /\ window.failed \in Nat /\ window.began \in Nat /\ window.began <= clock
      /\ M \in Nat \ {0} /\ MaxWindows \in Nat /\ clock \in Nat
  BY LimiterAssumption DEF LimiterIInv, LimiterAssumption
<1>2. /\ IF Expired THEN guesses[clock] = 0 ELSE guesses[clock] = window.failed
      /\ \A t \in 0..MaxWindows : t > clock => guesses[t] = 0
      /\ window.failed + Under <= M - 1 + n
      /\ \A t \in 0..MaxWindows : guesses[t] < M + n
      /\ window.failed < M + n
  BY DEF LimiterIInv, FailuresBounded
<1>3. n \in Nat /\ Under \in Nat
  BY <1>1, LimiterAssumption, FS_Subset, FS_CardinalityType DEF LimiterAssumption, Under
<1>4. Expired <=> clock >= window.began + 1
  BY DEF Expired
<1>5. NoWindow \in [failed : Nat, began : Nat] /\ NoWindow.failed = 0 /\ NoWindow.began = 0
  BY DEF NoWindow
<1>. HIDE DEF M, n
<1>6. ASSUME NEW a \in Attempts, Ask(a) PROVE LimiterIInv'
  <2>1. /\ window' = IF Expired THEN NoWindow ELSE window
        /\ verifying' = IF window'.failed >= M THEN verifying ELSE verifying \cup {a}
        /\ clock' = clock /\ guesses' = guesses
    BY <1>6 DEF Ask, M
  <2>2. /\ window' \in [failed : Nat, began : Nat] /\ window'.began <= clock
        /\ window'.failed \in Nat /\ window'.failed <= window.failed /\ verifying' \subseteq Attempts
    BY <1>1, <1>5, <2>1
  <2>3. Under' <= n /\ Under' \in Nat
    BY <2>2, UnderWay DEF Under, n
  <2>4. window'.failed + Under' <= M - 1 + n
    <3>1. CASE window'.failed >= M
      <4>1. Under' = Under
        BY <2>1, <3>1 DEF Under
      <4>. QED BY <1>1, <1>2, <1>3, <2>2, <4>1
    <3>2. CASE ~(window'.failed >= M)
      BY <1>1, <1>3, <2>2, <2>3, <3>2
    <3>. QED BY <3>1, <3>2
  <2>5. IF Expired' THEN guesses'[clock'] = 0 ELSE guesses'[clock'] = window'.failed
    <3>1. Expired' <=> clock >= window'.began + 1
      BY <2>1 DEF Expired
    <3>. QED BY <1>1, <1>2, <1>4, <1>5, <2>1, <3>1
  <2>6. FailuresBounded'
    BY <1>1, <1>2, <1>3, <2>1, <2>2 DEF FailuresBounded, M, n
  <2>. QED BY <1>1, <1>2, <2>1, <2>2, <2>4, <2>5, <2>6 DEF LimiterIInv, M, n
<1>7. ASSUME NEW a \in Attempts, RecordFailure(a) PROVE LimiterIInv'
  <2>1. /\ window' = IF Expired THEN [failed |-> 1, began |-> clock] ELSE [window EXCEPT !.failed = @ + 1]
        /\ a \in verifying /\ verifying' = verifying \ {a}
        /\ clock' = clock /\ guesses' = [guesses EXCEPT ![clock] = @ + 1]
    BY <1>7 DEF RecordFailure
  <2>2. Under' = Under - 1 /\ Under <= n /\ verifying' \subseteq Attempts
    BY <1>1, <2>1, UnderWay DEF Under, n
  <2>3. /\ window' \in [failed : Nat, began : Nat] /\ window'.began <= clock
        /\ window'.failed = (IF Expired THEN 1 ELSE window.failed + 1)
        /\ window'.began = (IF Expired THEN clock ELSE window.began)
    BY <1>1, <2>1
  <2>4. window'.failed + Under' <= M - 1 + n
    BY <1>1, <1>2, <1>3, <2>2, <2>3, SMTT(30)
  <2>5. /\ guesses' \in [0..MaxWindows -> Nat] /\ guesses'[clock] = guesses[clock] + 1
        /\ \A t \in 0..MaxWindows : t # clock => guesses'[t] = guesses[t]
    BY <1>1, <2>1
  <2>6. guesses'[clock] = window'.failed /\ ~(clock >= window'.began + 1)
    BY <1>1, <1>2, <1>4, <2>3, <2>5, SMTT(30)
  <2>7. window'.failed < M + n
    <3>1. Under' \in Nat
      BY <1>1, <2>1, <2>2, UnderWay DEF Under
    <3>. QED BY <1>1, <1>3, <2>3, <2>4, <3>1
  <2>8. FailuresBounded'
    <3>1. \A t \in 0..MaxWindows : guesses'[t] < M + n
      BY <1>2, <2>5, <2>6, <2>7
    <3>. QED BY <2>7, <3>1 DEF FailuresBounded, M, n
  <2>9. \A t \in 0..MaxWindows : t > clock' => guesses'[t] = 0
    BY <1>1, <1>2, <2>1, <2>5
  <2>10. IF Expired' THEN guesses'[clock'] = 0 ELSE guesses'[clock'] = window'.failed
    BY <2>1, <2>6 DEF Expired
  <2>. QED BY <1>1, <2>1, <2>2, <2>3, <2>4, <2>5, <2>8, <2>9, <2>10 DEF LimiterIInv, M, n
<1>8. ASSUME NEW a \in Attempts, RecordSuccess(a) PROVE LimiterIInv'
  <2>1. /\ window' = NoWindow /\ a \in verifying /\ verifying' = verifying \ {a}
        /\ clock' = clock /\ guesses' = [guesses EXCEPT ![clock] = 0]
    BY <1>8 DEF RecordSuccess
  <2>2. Under' = Under - 1 /\ Under <= n /\ verifying' \subseteq Attempts
    BY <1>1, <2>1, UnderWay DEF Under, n
  <2>3. window'.failed + Under' <= M - 1 + n /\ window'.failed < M + n
    BY <1>1, <1>3, <1>5, <2>1, <2>2
  <2>5. /\ guesses' \in [0..MaxWindows -> Nat] /\ guesses'[clock] = 0
        /\ \A t \in 0..MaxWindows : t # clock => guesses'[t] = guesses[t]
    BY <1>1, <2>1
  <2>8. FailuresBounded'
    <3>1. \A t \in 0..MaxWindows : guesses'[t] < M + n
      BY <1>1, <1>2, <1>3, <2>5, SMTT(30)
    <3>. QED BY <2>3, <3>1 DEF FailuresBounded, M, n
  <2>9. \A t \in 0..MaxWindows : t > clock' => guesses'[t] = 0
    BY <1>1, <1>2, <2>1, <2>5
  <2>10. IF Expired' THEN guesses'[clock'] = 0 ELSE guesses'[clock'] = window'.failed
    BY <1>5, <2>1, <2>5 DEF Expired
  <2>. QED BY <1>1, <1>5, <2>1, <2>2, <2>3, <2>5, <2>8, <2>9, <2>10 DEF LimiterIInv, M, n
<1>9. CASE WindowPasses
  <2>1. clock' = clock + 1 /\ clock < MaxWindows /\ UNCHANGED <<window, verifying, guesses>>
    BY <1>9 DEF WindowPasses
  <2>2. clock' \in 0..MaxWindows /\ clock' > clock /\ guesses'[clock'] = 0
    BY <1>1, <1>2, <2>1
  <2>3. Expired' /\ window'.began <= clock'
    BY <1>1, <2>1 DEF Expired
  <2>4. \A t \in 0..MaxWindows : t > clock' => guesses'[t] = 0
    BY <1>1, <1>2, <2>1, <2>2
  <2>5. FailuresBounded' /\ window'.failed + Under' <= M - 1 + n
    BY <1>2, <2>1 DEF FailuresBounded, Under, M, n
  <2>. QED BY <1>1, <2>1, <2>2, <2>3, <2>4, <2>5 DEF LimiterIInv, M, n
<1>10. CASE UNCHANGED limiterVars
  BY <1>10 DEF LimiterIInv, limiterVars, Expired, Under, FailuresBounded
<1>. QED BY <1>6, <1>7, <1>8, <1>9, <1>10 DEF LimiterNext

(* Between two successes a window sees at most one wrong password less     *)
(* than it allows and can be under way at once.                            *)
THEOREM GuessesAreBounded == LimiterSpec => []FailuresBounded
<1>1. LimiterInit => LimiterIInv
  <2>1. SUFFICES ASSUME LimiterInit PROVE LimiterIInv
    OBVIOUS
  <2>2. /\ Cardinality(verifying) = 0 /\ Cardinality(Attempts) \in Nat /\ verifying = {}
        /\ MaxFailedAttempts \in Nat \ {0} /\ MaxWindows \in Nat
    BY <2>1, LimiterAssumption, FS_EmptySet, FS_CardinalityType DEF LimiterInit, LimiterAssumption
  <2>3. window = [failed |-> 0, began |-> 0] /\ clock = 0 /\ guesses = [t \in 0..MaxWindows |-> 0]
    BY <2>1 DEF LimiterInit, NoWindow
  <2>. QED BY <2>2, <2>3 DEF LimiterIInv, Expired, Under, FailuresBounded
<1>2. LimiterIInv /\ [LimiterNext]_limiterVars => LimiterIInv'
  BY LimiterStep
<1>3. LimiterIInv => FailuresBounded
  BY DEF LimiterIInv
<1>. QED BY <1>1, <1>2, <1>3, PTL DEF LimiterSpec

-----------------------------------------------------------------------------
(***************************************************************************)
(* AdminBootstrap, for any number of deployments, servers and local tools. *)
(* A deployment that opens the database has it to itself, and an account   *)
(* exists only after the first administrator was created.                  *)
(***************************************************************************)
Leased == {"look", "migrate", "seed", "open", "release"}
DeploymentType == [step : Leased \cup {"idle", "opening", "done", "failed"}, empty : BOOLEAN]
ToolType == [kind : Kinds, step : {"idle", "show", "commit", "show_last", "done"},
             code : {"none", "success", "unknown", "unavailable", "secret_write_failed"}]

(* A deployment that is opening has the database to itself.                *)
OpeningFacts ==
    /\ \A d \in Deployments : deployment[d].step = "opening" => state = "blocked" /\ ~used
    /\ \A d, o \in Deployments :
          deployment[d].step = "opening" /\ deployment[o].step = "opening" => d = o
    /\ schema # "migrated" => state = "none"
    /\ state = "none" => schema # "migrated"

(* Where a run of a tool stands, and what it has done by then.             *)
ToolFacts ==
    \A t \in Tools :
        /\ tool[t].step # "done" => tool[t].code = "none"
        /\ tool[t].kind = "root" /\ tool[t].step = "commit" => t \in shown
        /\ \A a \in Accounts : password[a] = t => tool[t].step \in {"show_last", "done"}
        /\ tool[t].step = "show_last" => tool[t].kind = "admin"

CreatedOnce == IF state = "completed" THEN \E a \in created : created = {a} ELSE created = {}

BootstrapIInv ==
    /\ BootstrapTypeOK
    /\ deployment \in [Deployments -> DeploymentType]
    /\ tool \in [Tools -> ToolType]
    /\ OpeningFacts /\ ToolFacts /\ CreatedOnce /\ CodesAreTrue
    /\ \A a \in created : ~a.amid
    /\ password["root"] # NoHolder => state = "completed"

-----------------------------------------------------------------------------
(* Steps of deployments and servers leave the tools and what they did.     *)
ToolsUntouched ==
    /\ UNCHANGED <<tool, eligible, password, shown, created>>
    /\ state' = "completed" <=> state = "completed"

LEMMA ToolsKept ==
    ASSUME BootstrapIInv, ToolsUntouched
    PROVE  /\ tool' \in [Tools -> ToolType] /\ ToolFacts' /\ CreatedOnce' /\ CodesAreTrue'
           /\ \A a \in created' : ~a.amid
           /\ password'["root"] # NoHolder => state' = "completed"
BY DEF BootstrapIInv, ToolsUntouched, ToolFacts, CreatedOnce, CodesAreTrue

LEMMA DeploymentMoves ==
    ASSUME deployment \in [Deployments -> DeploymentType], NEW d \in Deployments,
           NEW to \in Leased \cup {"idle", "opening", "done", "failed"}, DeploymentGoes(d, to)
    PROVE  /\ deployment' \in [Deployments -> DeploymentType]
           /\ deployment'[d].step = to
           /\ \A o \in Deployments : o # d => deployment'[o] = deployment[o]
BY DEF DeploymentGoes, DeploymentType

(* The parts a step of a deployment or a server can disturb.               *)
SystemTypes ==
    /\ schema \in {"empty", "old", "migrated"} /\ used \in BOOLEAN /\ seeded \in BOOLEAN
    /\ state \in {"none", "blocked", "open", "completed"}
    /\ lease \in Deployments \cup {NoHolder}
    /\ \A d \in Deployments : deployment[d].step \in Leased => lease = d
    /\ deployment \in [Deployments -> DeploymentType]

LEMMA SystemKept ==
    ASSUME BootstrapIInv, SystemTypes', OpeningFacts', ToolsUntouched
    PROVE  BootstrapIInv'
<1>1. BootstrapTypeOK'
  <2>1. eligible' \in 0..2 /\ shown' \subseteq Tools /\ password' \in [Accounts -> Tools \cup {NoHolder}]
    BY DEF ToolsUntouched, BootstrapIInv, BootstrapTypeOK
  <2>. QED BY <2>1 DEF SystemTypes, BootstrapTypeOK, Leased
<1>. QED BY <1>1, ToolsKept DEF BootstrapIInv, SystemTypes

LEMMA DeploymentKeeps ==
    ASSUME BootstrapIInv, NEW d \in Deployments,
           \/ AcquireLease(d) \/ LookWhetherEmpty(d) \/ DeploymentMigrates(d) \/ DeploymentSeeds(d)
           \/ Opens(d) \/ OpenCommits(d) \/ OpenRefused(d) \/ ReleaseLease(d) \/ DeploymentDies(d)
    PROVE  BootstrapIInv'
<1>1. SystemTypes /\ OpeningFacts
  BY DEF BootstrapIInv, BootstrapTypeOK, SystemTypes, Leased
<1>2. ASSUME NEW to \in Leased \cup {"idle", "done", "failed"}, DeploymentGoes(d, to), ToolsUntouched,
             UNCHANGED <<schema, used, state>>, seeded' \in BOOLEAN,
             lease' \in Deployments \cup {NoHolder},
             \A o \in Deployments : deployment'[o].step \in Leased => lease' = o
      PROVE  BootstrapIInv'
  <2>1. /\ deployment' \in [Deployments -> DeploymentType] /\ deployment'[d].step # "opening"
        /\ \A o \in Deployments : o # d => deployment'[o] = deployment[o]
    BY <1>1, <1>2, DeploymentMoves DEF SystemTypes, Leased
  <2>2. SystemTypes'
    BY <1>1, <1>2, <2>1 DEF SystemTypes
  <2>3. OpeningFacts'
    BY <1>1, <1>2, <2>1 DEF OpeningFacts
  <2>. QED BY <1>2, <2>2, <2>3, SystemKept
<1>3. CASE AcquireLease(d)
  <2>1. /\ lease = NoHolder /\ lease' = d /\ DeploymentGoes(d, "look") /\ ToolsUntouched
        /\ UNCHANGED <<schema, used, state, seeded>>
    BY <1>3 DEF AcquireLease, database, accounts, ToolsUntouched
  <2>2. \A o \in Deployments : deployment[o].step \notin Leased
    BY <1>1, <2>1, BootstrapAssumption DEF SystemTypes, BootstrapAssumption
  <2>3. \A o \in Deployments : deployment'[o].step \in Leased => lease' = o
    BY <1>1, <2>1, <2>2, DeploymentMoves DEF SystemTypes, Leased
  <2>. QED BY <1>1, <1>2, <2>1, <2>3 DEF SystemTypes, Leased
<1>4. CASE LookWhetherEmpty(d)
  <2>1. /\ deployment[d].step = "look" /\ UNCHANGED <<schema, used, state, seeded, lease>> /\ ToolsUntouched
        /\ deployment' = [deployment EXCEPT ![d] = [step |-> "migrate", empty |-> schema = "empty"]]
    BY <1>4 DEF LookWhetherEmpty, Deploys, database, accounts, ToolsUntouched
  <2>2. [step |-> "migrate", empty |-> schema = "empty"] \in DeploymentType
    <3>1. (schema = "empty") \in BOOLEAN
      OBVIOUS
    <3>. HIDE <1>1
    <3>. QED BY <3>1 DEF DeploymentType, Leased
  <2>3. /\ deployment' \in [Deployments -> DeploymentType] /\ deployment'[d].step = "migrate"
        /\ \A o \in Deployments : o # d => deployment'[o] = deployment[o]
    BY <1>1, <2>1, <2>2 DEF SystemTypes
  <2>4. SystemTypes'
    BY <1>1, <2>1, <2>3 DEF SystemTypes, Leased
  <2>5. OpeningFacts'
    BY <1>1, <2>1, <2>3 DEF OpeningFacts
  <2>. QED BY <2>1, <2>4, <2>5, SystemKept
<1>5. CASE DeploymentMigrates(d)
  <2>1. /\ deployment[d].step = "migrate" /\ UNCHANGED <<used, seeded, lease>>
        /\ UNCHANGED <<tool, eligible, password, shown, created>> /\ DeploymentGoes(d, "seed")
        /\ schema' = "migrated" /\ state' = (IF schema = "migrated" THEN state ELSE "blocked")
        /\ Unblocked
    BY <1>5 DEF DeploymentMigrates, Migrated, Deploys, accounts
  <2>2. /\ deployment' \in [Deployments -> DeploymentType] /\ deployment'[d].step = "seed"
        /\ \A o \in Deployments : o # d => deployment'[o] = deployment[o]
    BY <1>1, <2>1, DeploymentMoves DEF SystemTypes, Leased
  <2>3. SystemTypes'
    BY <1>1, <2>1, <2>2 DEF SystemTypes, Leased
  <2>4. OpeningFacts' /\ ToolsUntouched
    BY <1>1, <2>1, <2>2 DEF OpeningFacts, ToolsUntouched, Unblocked
  <2>. QED BY <2>3, <2>4, SystemKept
<1>6. CASE DeploymentSeeds(d)
  <2>1. /\ deployment[d].step = "seed" /\ UNCHANGED <<schema, used, state, lease>> /\ seeded' = TRUE
        /\ ToolsUntouched /\ \E to \in {"open", "release"} : DeploymentGoes(d, to)
    BY <1>6 DEF DeploymentSeeds, Deploys, accounts, ToolsUntouched
  <2>2. PICK to \in {"open", "release"} : DeploymentGoes(d, to)
    BY <2>1
  <2>3. \A o \in Deployments : deployment'[o].step \in Leased => lease' = o
    BY <1>1, <2>1, <2>2, DeploymentMoves DEF SystemTypes, Leased
  <2>. QED BY <1>1, <1>2, <2>1, <2>2, <2>3 DEF SystemTypes, Leased
<1>7. CASE Opens(d)
  <2>1. /\ Unblocked /\ lease = d /\ state = "blocked" /\ ~used /\ lease' = NoHolder
        /\ DeploymentGoes(d, "opening") /\ UNCHANGED <<schema, used, state, seeded>> /\ ToolsUntouched
    BY <1>7 DEF Opens, database, accounts, ToolsUntouched
  <2>2. /\ deployment' \in [Deployments -> DeploymentType] /\ deployment'[d].step = "opening"
        /\ \A o \in Deployments : o # d => deployment'[o] = deployment[o]
    BY <1>1, <2>1, DeploymentMoves DEF SystemTypes, Leased
  <2>3. SystemTypes'
    BY <1>1, <2>1, <2>2 DEF SystemTypes, Leased
  <2>4. OpeningFacts'
    BY <1>1, <2>1, <2>2 DEF OpeningFacts, Unblocked
  <2>. QED BY <2>1, <2>3, <2>4, SystemKept
<1>8. CASE OpenCommits(d)
  <2>1. /\ deployment[d].step = "opening" /\ state' = "open" /\ DeploymentGoes(d, "done")
        /\ UNCHANGED <<schema, used, seeded, lease, tool, eligible, password, shown, created>>
    BY <1>8 DEF OpenCommits, Deploys, accounts
  <2>2. /\ deployment' \in [Deployments -> DeploymentType] /\ deployment'[d].step = "done"
        /\ \A o \in Deployments : o # d => deployment'[o] = deployment[o]
    BY <1>1, <2>1, DeploymentMoves DEF SystemTypes, Leased
  <2>3. SystemTypes'
    BY <1>1, <2>1, <2>2 DEF SystemTypes, Leased
  <2>4. \A o \in Deployments : deployment'[o].step # "opening"
    BY <1>1, <2>1, <2>2 DEF OpeningFacts
  <2>5. OpeningFacts' /\ ToolsUntouched
    BY <1>1, <2>1, <2>4 DEF OpeningFacts, ToolsUntouched
  <2>. QED BY <2>3, <2>5, SystemKept
<1>9. CASE OpenRefused(d) \/ ReleaseLease(d)
  <2>1. /\ deployment[d].step \in {"open", "release"} /\ lease' = NoHolder
        /\ UNCHANGED <<schema, used, state, seeded>> /\ ToolsUntouched
        /\ \E to \in {"failed", "done"} : DeploymentGoes(d, to)
    BY <1>9 DEF OpenRefused, ReleaseLease, Deploys, database, accounts, ToolsUntouched
  <2>2. PICK to \in {"failed", "done"} : DeploymentGoes(d, to)
    BY <2>1
  <2>3. \A o \in Deployments : deployment'[o].step \in Leased => lease' = o
    BY <1>1, <2>1, <2>2, DeploymentMoves DEF SystemTypes, Leased
  <2>. QED BY <1>1, <1>2, <2>1, <2>2, <2>3 DEF SystemTypes, Leased
<1>10. CASE DeploymentDies(d)
  <2>1. /\ lease' = IF lease = d THEN NoHolder ELSE lease
        /\ UNCHANGED <<schema, used, state, seeded>> /\ ToolsUntouched /\ DeploymentGoes(d, "failed")
    BY <1>10 DEF DeploymentDies, database, accounts, ToolsUntouched
  <2>3. \A o \in Deployments : deployment'[o].step \in Leased => lease' = o
    BY <1>1, <2>1, DeploymentMoves DEF SystemTypes, Leased
  <2>. QED BY <1>1, <1>2, <2>1, <2>3 DEF SystemTypes, Leased
<1>. QED BY <1>3, <1>4, <1>5, <1>6, <1>7, <1>8, <1>9, <1>10

LEMMA ServerKeeps ==
    ASSUME BootstrapIInv, NEW s \in Servers,
           ServerBegins(s) \/ AssertReady(s) \/ ServerSeeds(s) \/ ServerWrites(s) \/ ServerStops(s)
    PROVE  BootstrapIInv'
<1>1. SystemTypes /\ OpeningFacts /\ BootstrapTypeOK
  BY DEF BootstrapIInv, BootstrapTypeOK, SystemTypes, Leased
<1>2. CASE ServerBegins(s) \/ AssertReady(s) \/ ServerSeeds(s) \/ ServerStops(s)
  <2>1. /\ UNCHANGED <<used, lease, deployment, tool, eligible, password, shown, created>>
        /\ seeded' \in {seeded, TRUE}
        /\ \/ UNCHANGED <<schema, state>>
           \/ /\ schema' = "migrated" /\ Unblocked
              /\ state' = IF schema = "migrated" THEN state ELSE "blocked"
    BY <1>2 DEF ServerBegins, AssertReady, ServerSeeds, ServerStops, Migrated, database, accounts
  <2>2. SystemTypes'
    BY <1>1, <2>1 DEF SystemTypes
  <2>3. OpeningFacts' /\ ToolsUntouched
    BY <1>1, <2>1 DEF OpeningFacts, ToolsUntouched, Unblocked
  <2>. QED BY <2>2, <2>3, SystemKept
<1>3. CASE ServerWrites(s)
  <2>1. /\ Unblocked /\ used' = TRUE /\ eligible' \in 0..2
        /\ UNCHANGED <<schema, seeded, state, lease, deployment, tool, password, shown, created>>
    BY <1>1, <1>3 DEF ServerWrites, BootstrapTypeOK
  <2>2. BootstrapTypeOK' /\ OpeningFacts'
    BY <1>1, <2>1 DEF BootstrapTypeOK, OpeningFacts, Unblocked
  <2>3. ToolFacts' /\ CreatedOnce' /\ CodesAreTrue'
    BY <2>1 DEF BootstrapIInv, ToolFacts, CreatedOnce, CodesAreTrue
  <2>. QED BY <2>1, <2>2, <2>3 DEF BootstrapIInv
<1>. QED BY <1>2, <1>3

-----------------------------------------------------------------------------
(* What a run of a tool says of itself.                                    *)
ToolTells(t) ==
    /\ tool[t].step # "done" => tool[t].code = "none"
    /\ tool[t].kind = "root" /\ tool[t].step = "commit" => t \in shown
    /\ \A a \in Accounts : password[a] = t => tool[t].step \in {"show_last", "done"}
    /\ tool[t].step = "show_last" => tool[t].kind = "admin"
    /\ tool[t].code = "success" /\ tool[t].kind \in Accounts => t \in shown
    /\ password["root"] = t => t \in shown
    /\ password["admin"] = t /\ tool[t].kind = "admin" => tool[t].code # "unavailable"
    /\ tool[t].code = "success" /\ tool[t].kind = "bootstrap" => created # {}

LEMMA ToolsTell == ToolFacts /\ CodesAreTrue <=> \A t \in Tools : ToolTells(t)
BY DEF ToolFacts, CodesAreTrue, ToolTells

(* A run of a tool that leaves the database's state alone.                 *)
RunsAlone(t) ==
    /\ UNCHANGED <<schema, seeded, used, state, lease, deployment, eligible, created>>
    /\ shown' = shown \/ shown' = shown \cup {t}
    /\ \/ password' = password
       \/ state = "completed" /\ \E a \in Accounts : password' = [password EXCEPT ![a] = t]

LEMMA RunKeeps ==
    ASSUME BootstrapIInv, NEW t \in Tools, tool' \in [Tools -> ToolType],
           \A o \in Tools : o # t => tool'[o] = tool[o], RunsAlone(t), ToolTells(t)'
    PROVE  BootstrapIInv'
<1>1. /\ password \in [Accounts -> Tools \cup {NoHolder}] /\ shown \subseteq Tools
      /\ BootstrapTypeOK
  BY DEF BootstrapIInv, BootstrapTypeOK
<1>2. /\ password' \in [Accounts -> Tools \cup {NoHolder}] /\ shown' \subseteq Tools
      /\ \A a \in Accounts : password'[a] \in {password[a], t}
      /\ shown \subseteq shown'
      /\ password' = password \/ state = "completed"
  BY <1>1 DEF RunsAlone
<1>3. BootstrapTypeOK'
  BY <1>1, <1>2 DEF BootstrapTypeOK, RunsAlone
<1>4. OpeningFacts' /\ CreatedOnce' /\ (\A a \in created' : ~a.amid)
  BY DEF BootstrapIInv, OpeningFacts, CreatedOnce, RunsAlone
<1>5. password'["root"] # NoHolder => state' = "completed"
  BY <1>2 DEF BootstrapIInv, RunsAlone
<1>6. ASSUME NEW o \in Tools, o # t  PROVE ToolTells(o)'
  <2>1. ToolTells(o)
    BY ToolsTell DEF BootstrapIInv
  <2>2. tool'[o] = tool[o] /\ created' = created
    BY <1>6 DEF RunsAlone
  <2>3. \A a \in Accounts : password'[a] = o => password[a] = o
    BY <1>2, <1>6
  <2>. QED BY <1>2, <2>1, <2>2, <2>3 DEF ToolTells, Accounts
<1>7. ToolFacts' /\ CodesAreTrue'
  <2>1. \A o \in Tools : ToolTells(o)'
    BY <1>6
  <2>. QED BY <2>1 DEF ToolFacts, CodesAreTrue, ToolTells
<1>8. deployment' \in [Deployments -> DeploymentType]
  BY DEF BootstrapIInv, RunsAlone
<1>. QED BY <1>3, <1>4, <1>5, <1>7, <1>8 DEF BootstrapIInv

LEMMA ToolMoves ==
    ASSUME tool \in [Tools -> ToolType], NEW t \in Tools,
           NEW to \in {"idle", "show", "commit", "show_last", "done"}, ToolGoes(t, to)
    PROVE  /\ tool' \in [Tools -> ToolType]
           /\ tool'[t].step = to /\ tool'[t].kind = tool[t].kind /\ tool'[t].code = tool[t].code
           /\ \A o \in Tools : o # t => tool'[o] = tool[o]
BY DEF ToolGoes, ToolType

LEMMA ToolEnds ==
    ASSUME tool \in [Tools -> ToolType], NEW t \in Tools,
           NEW code \in {"success", "unknown", "unavailable", "secret_write_failed"}, Printed(t, code)
    PROVE  /\ tool' \in [Tools -> ToolType]
           /\ tool'[t].step = "done" /\ tool'[t].kind = tool[t].kind /\ tool'[t].code = code
           /\ \A o \in Tools : o # t => tool'[o] = tool[o]
BY DEF Printed, ToolType

LEMMA ToolCaught ==
    ASSUME tool \in [Tools -> ToolType], NEW t \in Tools, Caught(t)
    PROVE  /\ tool' \in [Tools -> ToolType]
           /\ tool'[t].step = "done" /\ tool'[t].kind = tool[t].kind
           /\ tool'[t].code = IF tool[t].kind = "root" THEN "unavailable" ELSE "unknown"
           /\ \A o \in Tools : o # t => tool'[o] = tool[o]
<1>1. CASE tool[t].kind = "root"
  BY <1>1, ToolEnds DEF Caught
<1>2. CASE tool[t].kind # "root"
  BY <1>2, ToolEnds DEF Caught
<1>. QED BY <1>1, <1>2

LEMMA ToolKeeps ==
    ASSUME BootstrapIInv, NEW t \in Tools,
           \/ \E k \in Kinds : ReadState(t, k)
           \/ ShowFirst(t) \/ ShowFails(t) \/ ShowLast(t) \/ ToolGivesUp(t)
    PROVE  BootstrapIInv'
<1>1. tool \in [Tools -> ToolType] /\ ToolTells(t)
  BY ToolsTell DEF BootstrapIInv
<1>2. CASE \E k \in Kinds : ReadState(t, k)
  <2>1. PICK k \in Kinds : ReadState(t, k)
    BY <1>2
  <2>2. \E r \in ToolType : /\ tool' = [tool EXCEPT ![t] = r] /\ r.kind = k
                            /\ r.code \in {"none", "unknown", "unavailable"}
                            /\ r.step # "done" => r.code = "none"
                            /\ r.step = "commit" => k # "root"
                            /\ r.step # "show_last"
    <3>. DEFINE R(step, code) == [kind |-> k, step |-> step, code |-> code]
    <3>1. R("done", "unknown") \in ToolType /\ R("done", "unavailable") \in ToolType
          /\ R("show", "none") \in ToolType /\ R("commit", "none") \in ToolType
      BY DEF ToolType
    <3>2. \/ tool' = [tool EXCEPT ![t] = R("done", "unknown")]
          \/ tool' = [tool EXCEPT ![t] = R("done", "unavailable")]
          \/ tool' = [tool EXCEPT ![t] = R("show", "none")]
          \/ tool' = [tool EXCEPT ![t] = R("commit", "none")] /\ k # "root"
      BY <2>1 DEF ReadState
    <3>. QED BY <3>1, <3>2
  <2>3. PICK r \in ToolType : /\ tool' = [tool EXCEPT ![t] = r] /\ r.kind = k
                              /\ r.code \in {"none", "unknown", "unavailable"}
                              /\ r.step # "done" => r.code = "none"
                              /\ r.step = "commit" => k # "root"
                              /\ r.step # "show_last"
    BY <2>2
  <2>4. /\ tool' \in [Tools -> ToolType] /\ tool'[t] = r
        /\ \A o \in Tools : o # t => tool'[o] = tool[o]
    BY <1>1, <2>3
  <2>5. RunsAlone(t) /\ UNCHANGED <<shown, password, created>> /\ tool[t].step = "idle"
    BY <2>1 DEF ReadState, RunsAlone, database, accounts
  <2>6. \A a \in Accounts : password[a] # t
    BY <1>1, <2>5 DEF ToolTells
  <2>7. ToolTells(t)'
    BY <2>3, <2>4, <2>5, <2>6 DEF ToolTells, Accounts
  <2>. QED BY <2>4, <2>5, <2>7, RunKeeps
<1>3. CASE ShowFirst(t)
  <2>1. /\ RunsAlone(t) /\ UNCHANGED <<password, created>> /\ tool[t].step = "show"
        /\ shown' = shown \cup {t} /\ ToolGoes(t, "commit")
    BY <1>3 DEF ShowFirst, RunsAlone, database
  <2>2. /\ tool' \in [Tools -> ToolType]
        /\ tool'[t].step = "commit" /\ tool'[t].kind = tool[t].kind /\ tool'[t].code = tool[t].code
        /\ \A o \in Tools : o # t => tool'[o] = tool[o]
    BY <1>1, <2>1, ToolMoves
  <2>3. ToolTells(t)'
    BY <1>1, <2>1, <2>2 DEF ToolTells, Accounts
  <2>. QED BY <2>1, <2>2, <2>3, RunKeeps
<1>4. CASE ShowFails(t)
  <2>1. /\ RunsAlone(t) /\ UNCHANGED <<password, created, shown>> /\ tool[t].step = "show"
        /\ Printed(t, "secret_write_failed")
    BY <1>4 DEF ShowFails, RunsAlone, database, accounts
  <2>2. /\ tool' \in [Tools -> ToolType]
        /\ tool'[t].step = "done" /\ tool'[t].code = "secret_write_failed"
        /\ \A o \in Tools : o # t => tool'[o] = tool[o]
    BY <1>1, <2>1, ToolEnds
  <2>3. ToolTells(t)'
    BY <1>1, <2>1, <2>2 DEF ToolTells, Accounts
  <2>. QED BY <2>1, <2>2, <2>3, RunKeeps
<1>5. CASE ShowLast(t)
  <2>1. /\ RunsAlone(t) /\ UNCHANGED <<password, created>> /\ tool[t].step = "show_last"
        /\ \/ shown' = shown \cup {t} /\ Printed(t, "success")
           \/ shown' = shown /\ Printed(t, "unknown")
    BY <1>5 DEF ShowLast, RunsAlone, database
  <2>2. /\ tool' \in [Tools -> ToolType]
        /\ tool'[t].step = "done" /\ tool'[t].kind = tool[t].kind
        /\ tool'[t].code \in {"success", "unknown"}
        /\ tool'[t].code = "success" => shown' = shown \cup {t}
        /\ \A o \in Tools : o # t => tool'[o] = tool[o]
    <3>1. CASE shown' = shown \cup {t} /\ Printed(t, "success")
      BY <1>1, <3>1, ToolEnds
    <3>2. CASE shown' = shown /\ Printed(t, "unknown")
      BY <1>1, <3>2, ToolEnds
    <3>. QED BY <2>1, <3>1, <3>2
  <2>3. tool[t].kind = "admin"
    BY <1>1, <2>1 DEF ToolTells
  <2>4. shown \subseteq shown'
    BY <2>1
  <2>5. ToolTells(t)'
    BY <1>1, <2>1, <2>2, <2>3, <2>4 DEF ToolTells, Accounts
  <2>. QED BY <2>1, <2>2, <2>5, RunKeeps
<1>6. CASE ToolGivesUp(t)
  <2>1. /\ RunsAlone(t) /\ UNCHANGED <<password, created, shown>> /\ tool[t].step \in {"show", "commit"}
        /\ Caught(t)
    BY <1>6 DEF ToolGivesUp, RunsAlone, database, accounts
  <2>2. /\ tool' \in [Tools -> ToolType] /\ tool'[t].step = "done"
        /\ tool'[t].code \in {"unavailable", "unknown"}
        /\ \A o \in Tools : o # t => tool'[o] = tool[o]
    BY <1>1, <2>1, ToolCaught
  <2>3. \A a \in Accounts : password[a] # t
    BY <1>1, <2>1 DEF ToolTells
  <2>4. ToolTells(t)'
    BY <1>1, <2>1, <2>2, <2>3 DEF ToolTells, Accounts
  <2>. QED BY <2>1, <2>2, <2>4, RunKeeps
<1>. QED BY <1>2, <1>3, <1>4, <1>5, <1>6

LEMMA RecoverKeeps ==
    ASSUME BootstrapIInv, NEW t \in Tools, Recover(t)
    PROVE  BootstrapIInv'
<1>1. /\ tool \in [Tools -> ToolType] /\ ToolTells(t)
      /\ password \in [Accounts -> Tools \cup {NoHolder}]
  BY ToolsTell DEF BootstrapIInv, BootstrapTypeOK
<1>2. /\ tool[t].kind \in Accounts /\ tool[t].step = "commit" /\ UNCHANGED <<shown, created>>
      /\ \A a \in Accounts : password[a] # t
      /\ tool[t].kind = "root" => t \in shown
  BY <1>1 DEF Recover, ToolTells
<1>3. CASE /\ MayRecover(t) /\ password' = [password EXCEPT ![tool[t].kind] = t]
           /\ \/ tool[t].kind = "root" /\ Printed(t, "success")
              \/ tool[t].kind # "root" /\ ToolGoes(t, "show_last")
              \/ Caught(t)
  <2>1. RunsAlone(t)
    BY <1>2, <1>3 DEF Recover, RunsAlone, database, MayRecover
  <2>2. /\ tool' \in [Tools -> ToolType] /\ tool'[t].kind = tool[t].kind
        /\ \A o \in Tools : o # t => tool'[o] = tool[o]
        /\ \/ tool[t].kind = "root" /\ tool'[t].step = "done" /\ tool'[t].code \in {"success", "unavailable"}
           \/ tool[t].kind = "admin" /\ tool'[t].step = "show_last" /\ tool'[t].code = "none"
           \/ tool[t].kind = "admin" /\ tool'[t].step = "done" /\ tool'[t].code = "unknown"
    <3>1. tool[t].code = "none"
      BY <1>1, <1>2 DEF ToolTells
    <3>2. CASE tool[t].kind = "root" /\ Printed(t, "success")
      BY <1>1, <3>2, ToolEnds
    <3>3. CASE tool[t].kind # "root" /\ ToolGoes(t, "show_last")
      BY <1>1, <1>2, <3>1, <3>3, ToolMoves DEF Accounts
    <3>4. CASE Caught(t)
      BY <1>1, <1>2, <3>4, ToolCaught DEF Accounts
    <3>. QED BY <1>3, <3>2, <3>3, <3>4
  <2>3. /\ tool[t].kind = "admin" => password'["root"] # t
        /\ tool[t].kind = "root" => password'["admin"] # t
    BY <1>1, <1>2, <1>3 DEF Accounts
  <2>4. ToolTells(t)'
    BY <1>2, <2>2, <2>3 DEF ToolTells, Accounts
  <2>. QED BY <2>1, <2>2, <2>4, RunKeeps
<1>4. CASE Printed(t, "unavailable") /\ UNCHANGED password
  <2>1. RunsAlone(t)
    BY <1>2, <1>4 DEF Recover, RunsAlone, database
  <2>2. /\ tool' \in [Tools -> ToolType] /\ tool'[t].step = "done" /\ tool'[t].code = "unavailable"
        /\ \A o \in Tools : o # t => tool'[o] = tool[o]
    BY <1>1, <1>4, ToolEnds
  <2>3. ToolTells(t)'
    BY <1>2, <1>4, <2>2 DEF ToolTells, Accounts
  <2>. QED BY <2>1, <2>2, <2>3, RunKeeps
<1>. QED BY <1>3, <1>4 DEF Recover

(* The step that makes the first administrator: nobody came before, since  *)
(* the state is open; afterwards it is completed and stays so.             *)
LEMMA CompleteKeeps ==
    ASSUME BootstrapIInv, NEW t \in Tools, CompleteAdminBootstrap(t)
    PROVE  BootstrapIInv'
<1>1. /\ tool \in [Tools -> ToolType] /\ ToolTells(t) /\ BootstrapTypeOK /\ OpeningFacts
      /\ password \in [Accounts -> Tools \cup {NoHolder}]
  BY ToolsTell DEF BootstrapIInv, BootstrapTypeOK
<1>2. /\ tool[t].kind = "bootstrap" /\ tool[t].step = "commit" /\ Unblocked
      /\ UNCHANGED <<schema, seeded, lease, deployment, server, shown>>
      /\ \A a \in Accounts : password[a] # t
  BY <1>1 DEF CompleteAdminBootstrap, ToolTells
<1>3. CASE /\ MayComplete /\ state' = "completed" /\ used' = TRUE /\ eligible' = 1
           /\ created' = created \cup {[tool |-> t, amid |-> used]}
           /\ password' = [password EXCEPT !["admin"] = t]
           /\ \E code \in {"success", "unknown"} : Printed(t, code)
  <2>1. PICK code \in {"success", "unknown"} : Printed(t, code)
    BY <1>3
  <2>2. /\ tool' \in [Tools -> ToolType] /\ tool'[t].step = "done" /\ tool'[t].kind = "bootstrap"
        /\ tool'[t].code = code /\ \A o \in Tools : o # t => tool'[o] = tool[o]
    BY <1>1, <1>2, <2>1, ToolEnds
  <2>3. /\ password' \in [Accounts -> Tools \cup {NoHolder}]
        /\ \A a \in Accounts : password'[a] \in {password[a], t}
        /\ password'["root"] = password["root"]
    BY <1>1, <1>3 DEF Accounts
  <2>4. PICK a : a = [tool |-> t, amid |-> used]
    OBVIOUS
  <2>5. ~used /\ state = "open" /\ ~a.amid
    BY <1>3, <2>4 DEF MayComplete
  <2>6. created' = {a}
    BY <1>3, <2>4, <2>5 DEF BootstrapIInv, CreatedOnce
  <2>7. ASSUME NEW o \in Tools  PROVE ToolTells(o)'
    <3>1. CASE o = t
      BY <1>2, <2>1, <2>2, <2>3, <2>6, <3>1 DEF ToolTells, Accounts
    <3>2. CASE o # t
      <4>1. ToolTells(o)
        BY ToolsTell DEF BootstrapIInv
      <4>2. tool'[o] = tool[o] /\ shown' = shown /\ created' # {}
        BY <1>2, <2>2, <2>6, <3>2
      <4>3. \A x \in Accounts : password'[x] = o => password[x] = o
        BY <2>3, <3>2
      <4>. QED BY <4>1, <4>2, <4>3 DEF ToolTells, Accounts
    <3>. QED BY <3>1, <3>2
  <2>8. ToolFacts' /\ CodesAreTrue'
    BY <2>7 DEF ToolFacts, CodesAreTrue, ToolTells
  <2>9. BootstrapTypeOK'
    BY <1>1, <1>2, <1>3, <2>3 DEF BootstrapTypeOK
  <2>10. OpeningFacts'
    BY <1>1, <1>2, <1>3, <2>5 DEF OpeningFacts, Unblocked
  <2>11. CreatedOnce' /\ (\A x \in created' : ~x.amid)
    BY <1>3, <2>5, <2>6 DEF CreatedOnce
  <2>12. deployment' \in [Deployments -> DeploymentType]
    BY <1>2 DEF BootstrapIInv
  <2>. QED BY <1>3, <2>2, <2>8, <2>9, <2>10, <2>11, <2>12 DEF BootstrapIInv
<1>4. CASE Printed(t, "unavailable") /\ UNCHANGED <<state, used, created, eligible, password>>
  <2>1. RunsAlone(t)
    BY <1>2, <1>4 DEF RunsAlone
  <2>2. /\ tool' \in [Tools -> ToolType] /\ tool'[t].step = "done" /\ tool'[t].code = "unavailable"
        /\ \A o \in Tools : o # t => tool'[o] = tool[o]
    BY <1>1, <1>4, ToolEnds
  <2>3. ToolTells(t)'
    BY <1>2, <1>4, <2>2 DEF ToolTells, Accounts
  <2>. QED BY <2>1, <2>2, <2>3, RunKeeps
<1>. QED BY <1>3, <1>4 DEF CompleteAdminBootstrap
-----------------------------------------------------------------------------
(* Whatever processes race, die or lose their answers: the database is     *)
(* opened for one first administrator only while it holds nothing but the  *)
(* seed, one tool creates it, exactly when the bootstrap counts as         *)
(* completed, and what the tools reported is true                          *)
(* (openAdminBootstrapForFreshSeed, completeAdminBootstrap).               *)
THEOREM FirstAdministrator == BootstrapSpec => []BootstrapInv
<1>1. BootstrapInit => BootstrapIInv
  <2>. SUFFICES ASSUME BootstrapInit  PROVE BootstrapIInv
    OBVIOUS
  <2>1. deployment \in [Deployments -> DeploymentType]
    BY DEF BootstrapInit, DeploymentType
  <2>2. tool \in [Tools -> ToolType]
    BY DEF BootstrapInit, ToolType, Kinds
  <2>3. BootstrapTypeOK
    <3>1. used \in BOOLEAN
      <4>1. (schema = "old") \in BOOLEAN
        OBVIOUS
      <4>. QED BY <4>1 DEF BootstrapInit
    <3>2. password \in [Accounts -> Tools \cup {NoHolder}]
      BY DEF BootstrapInit
    <3>3. /\ schema \in {"empty", "old"} /\ seeded = FALSE /\ state = "none" /\ lease = NoHolder
          /\ eligible = 0 /\ shown = {} /\ \A d \in Deployments : deployment[d].step = "idle"
      BY DEF BootstrapInit
    <3>4. seeded \in BOOLEAN
      <4>1. FALSE \in BOOLEAN
        OBVIOUS
      <4>. QED BY <3>3, <4>1, Zenon
    <3>5. /\ schema \in {"empty", "old", "migrated"}
          /\ state \in {"none", "blocked", "open", "completed"}
          /\ lease \in Deployments \cup {NoHolder} /\ eligible \in 0..2 /\ shown \subseteq Tools
      BY <3>3
    <3>6. \A d \in Deployments : deployment[d].step \in {"look", "migrate", "seed", "open", "release"}
                                     => lease = d
      BY <3>3
    <3>. QED BY <3>1, <3>2, <3>4, <3>5, <3>6, Zenon DEF BootstrapTypeOK
  <2>4. OpeningFacts /\ CreatedOnce
    BY DEF BootstrapInit, OpeningFacts, CreatedOnce
  <2>5. ToolFacts /\ CodesAreTrue
    BY BootstrapAssumption DEF BootstrapInit, ToolFacts, CodesAreTrue, Accounts, BootstrapAssumption
  <2>. QED BY <2>1, <2>2, <2>3, <2>4, <2>5 DEF BootstrapInit, BootstrapIInv, Accounts
<1>2. BootstrapIInv /\ [BootstrapNext]_bootstrapVars => BootstrapIInv'
  <2>. SUFFICES ASSUME BootstrapIInv, [BootstrapNext]_bootstrapVars  PROVE BootstrapIInv'
    OBVIOUS
  <2>1. CASE BootstrapNext
    BY <2>1, DeploymentKeeps, ServerKeeps, ToolKeeps, CompleteKeeps, RecoverKeeps DEF BootstrapNext
  <2>2. CASE UNCHANGED bootstrapVars
    BY <2>2 DEF bootstrapVars, BootstrapIInv, BootstrapTypeOK, OpeningFacts, ToolFacts, CreatedOnce,
                CodesAreTrue
  <2>. QED BY <2>1, <2>2
<1>3. BootstrapIInv => BootstrapInv
  <2>1. CreatedOnce => Cardinality(created) = IF state = "completed" THEN 1 ELSE 0
    BY FS_EmptySet, FS_Singleton DEF CreatedOnce
  <2>. QED BY <2>1 DEF BootstrapIInv, BootstrapInv, FirstAdministratorOnce
<1>. QED BY <1>1, <1>2, <1>3, PTL DEF BootstrapSpec

-----------------------------------------------------------------------------
(***************************************************************************)
(* AccountCredentials, for every set of persons, identities, addresses and *)
(* pending requests. A stamp that is still current belongs to a user who   *)
(* can log in; each step leaves a user as it was or makes all stamps of    *)
(* that user outdated.                                                     *)
(***************************************************************************)
AccountType == [state : {"absent", "active", "removed"}, password : 0..MaxAuthRevision,
                revision : 0..MaxAuthRevision, named : BOOLEAN]
EmailType   == [address : Addresses \cup {Nobody}, verified : BOOLEAN]
LinkType    == [id : Nat, revision : Nat, address : Addresses \cup {Nobody}]

AccountTypes ==
    /\ account \in [Persons -> AccountType]
    /\ email \in [Persons -> EmailType]
    /\ linkedTo \in [Identities -> Persons \cup {Nobody}]
    /\ link \in [Persons -> [Purposes -> LinkType]]
    /\ links \in 0..MaxLinks
    /\ request = [c \in Clients |-> request[c]]

Ages == \A u \in Persons : /\ account[u].state = "absent" => account[u].revision = 0
                           /\ LiveAccount(u) => account[u].revision # 0

(* A user who can log in now; what carries a revision that is still the    *)
(* account's belongs to such a user.                                       *)
CanLogin(u)   == IdentitiesOf(u) # {} \/ LocalLogin(u)
Current(u, n) == LiveAccount(u) /\ account[u].revision = n
Stamp(u, n)   == /\ u \in Persons /\ n \in Nat /\ n <= account[u].revision
                 /\ Current(u, n) => CanLogin(u)

ProofTrue(s) == IF s.proof[1] = "password" THEN account[s.user].password = s.proof[2]
                                           ELSE linkedTo[s.proof[2]] = s.user
SessionTrue(s) == /\ Stamp(s.user, s.revision) /\ (Valid(s) => ProofTrue(s))
                  /\ s.proof[1] # "password" => s.proof[2] \in Identities

(* A link with revision n for purpose p that went to address a.            *)
LinkTrue(u, p, n, a) ==
    /\ Stamp(u, n)
    /\ p = "password-reset" /\ Current(u, n) => email[u] = [address |-> a, verified |-> TRUE]

Known(u) == u \in Persons /\ account[u].state # "absent"

RequestTrue(r) ==
    /\ r.step \in {"password_session", "change_password", "unlink", "callback", "insert_link"}
           => Stamp(r.user, r.revision)
    /\ r.step \in {"change_password", "unlink", "callback", "insert_link", "save_link",
                   "verify_mail", "password_session", "external_session"} => Known(r.user)
    /\ r.step \in {"use_link", "enter"} => r.user \in Persons
    /\ r.step = "save_link" => /\ r.purpose \in Purposes /\ r.address \in Addresses \cup {Nobody}
                               /\ LinkTrue(r.user, r.purpose, r.revision, r.address)
    /\ r.step = "use_link" => r.purpose \in Purposes
    /\ r.step \in {"unlink", "callback", "insert_link", "enter", "create_user", "external_session"}
           => r.identity \in Identities
    /\ r.step = "insert_session" => SessionTrue(r.session)

CredentialIInv ==
    /\ AccountTypes /\ Ages /\ LoginRemains
    /\ \A s \in sessions : SessionTrue(s)
    /\ \A u \in Persons, p \in Purposes : LinkTrue(u, p, link[u][p].revision, link[u][p].address)
    /\ \A v \in pending : Known(v.user)
    /\ \A c \in Clients : RequestTrue(request[c])
-----------------------------------------------------------------------------
(* What a step does to a user: nothing that its sessions, links and        *)
(* requests could notice, or it outdates all of them.                      *)
Steady(v) ==
    /\ account'[v] = account[v]
    /\ email'[v] = email[v] \/ (email[v] = NoEmail /\ email'[v].verified)
    /\ \A i \in Identities : linkedTo[i] = v => linkedTo'[i] = v

Outdated(v) ==
    /\ account'[v].revision > account[v].revision
    /\ account'[v].state = "absent" => account[v].state = "absent"

Moves == \A v \in Persons : Steady(v) \/ Outdated(v)

LEMMA LoginSteady ==
    ASSUME AccountTypes, NEW u \in Persons, Steady(u), CanLogin(u)
    PROVE  CanLogin(u)'
<1>1. CASE IdentitiesOf(u) # {}
  <2>1. PICK i \in Identities : linkedTo[i] = u
    BY <1>1 DEF IdentitiesOf
  <2>2. linkedTo'[i] = u
    BY <2>1 DEF Steady
  <2>. QED BY <2>2 DEF CanLogin, IdentitiesOf
<1>2. CASE LocalLogin(u)
  BY <1>2 DEF LocalLogin, Steady, CanLogin, NoEmail
<1>. QED BY <1>1, <1>2 DEF CanLogin

LEMMA StampKept ==
    ASSUME AccountTypes, AccountTypes', Moves, NEW u, NEW n, Stamp(u, n)
    PROVE  Stamp(u, n)'
<1>1. u \in Persons /\ n \in Nat /\ n <= account[u].revision
  BY DEF Stamp
<1>2. account[u].revision \in Nat /\ account'[u].revision \in Nat
  BY <1>1 DEF AccountTypes, AccountType
<1>3. CASE Steady(u)
  BY <1>1, <1>3, LoginSteady DEF Stamp, Steady, Current, LiveAccount
<1>4. CASE Outdated(u)
  BY <1>1, <1>2, <1>4 DEF Stamp, Outdated, Current
<1>. QED BY <1>1, <1>3, <1>4 DEF Moves

(* A stamp that is current again after a step was current before it.       *)
LEMMA StampCurrent ==
    ASSUME AccountTypes, AccountTypes', Moves, NEW u, NEW n, Stamp(u, n), Current(u, n)'
    PROVE  Current(u, n) /\ Steady(u)
<1>1. u \in Persons /\ n \in Nat /\ n <= account[u].revision
  BY DEF Stamp
<1>2. account[u].revision \in Nat /\ account'[u].revision \in Nat
  BY <1>1 DEF AccountTypes, AccountType
<1>3. Steady(u)
  BY <1>1, <1>2 DEF Moves, Outdated, Current
<1>. QED BY <1>3 DEF Steady, Current, LiveAccount

LEMMA SessionKept ==
    ASSUME AccountTypes, AccountTypes', Moves, NEW s, SessionTrue(s)
    PROVE  SessionTrue(s)'
<1>1. Stamp(s.user, s.revision)' /\ Stamp(s.user, s.revision)
  BY StampKept DEF SessionTrue
<1>2. ASSUME Valid(s)'  PROVE ProofTrue(s)'
  <2>1. Current(s.user, s.revision)'
    BY <1>2 DEF Valid, Current, LiveAccount
  <2>2. Current(s.user, s.revision) /\ Steady(s.user)
    BY <1>1, <2>1, StampCurrent
  <2>3. Valid(s)
    BY <2>2 DEF Valid, Current
  <2>4. ProofTrue(s)
    BY <2>3 DEF SessionTrue
  <2>. QED BY <2>2, <2>4 DEF Steady, ProofTrue, SessionTrue
<1>. QED BY <1>1, <1>2 DEF SessionTrue

LEMMA LinkKept ==
    ASSUME AccountTypes, AccountTypes', Moves, NEW u, NEW p, NEW n, NEW a, LinkTrue(u, p, n, a)
    PROVE  LinkTrue(u, p, n, a)'
<1>1. Stamp(u, n) /\ Stamp(u, n)'
  BY StampKept DEF LinkTrue
<1>2. ASSUME p = "password-reset", Current(u, n)'  PROVE email'[u] = [address |-> a, verified |-> TRUE]
  <2>1. Current(u, n) /\ Steady(u)
    BY <1>1, <1>2, StampCurrent
  <2>2. email[u] = [address |-> a, verified |-> TRUE]
    BY <1>2, <2>1 DEF LinkTrue
  <2>3. email[u] # NoEmail
    BY <2>2 DEF NoEmail
  <2>. QED BY <2>1, <2>2, <2>3 DEF Steady
<1>. QED BY <1>1, <1>2 DEF LinkTrue

LEMMA KnownKept ==
    ASSUME Moves, NEW u, Known(u)
    PROVE  Known(u)'
BY DEF Known, Moves, Steady, Outdated

LEMMA RequestKept ==
    ASSUME AccountTypes, AccountTypes', Moves, NEW r, RequestTrue(r)
    PROVE  RequestTrue(r)'
<1>1. Stamp(r.user, r.revision) => Stamp(r.user, r.revision)'
  BY StampKept
<1>2. Known(r.user) => Known(r.user)'
  BY KnownKept
<1>3. SessionTrue(r.session) => SessionTrue(r.session)'
  BY SessionKept
<1>4. LinkTrue(r.user, r.purpose, r.revision, r.address) => LinkTrue(r.user, r.purpose, r.revision, r.address)'
  BY LinkKept
<1>. QED BY <1>1, <1>2, <1>3, <1>4 DEF RequestTrue

LEMMA NoLinkTrue ==
    ASSUME AccountTypes', Ages', NEW u \in Persons, NEW p, NEW a
    PROVE  LinkTrue(u, p, 0, a)'
<1>1. account'[u].revision \in Nat
  BY DEF AccountTypes, AccountType
<1>2. ~Current(u, 0)'
  BY DEF Ages, Current, LiveAccount
<1>. QED BY <1>1, <1>2 DEF LinkTrue, Stamp

LinkHonest(u, p) == LinkTrue(u, p, link[u][p].revision, link[u][p].address)

(* It is enough to look at what a step adds.                               *)
LEMMA StepKeeps ==
    ASSUME CredentialIInv, AccountTypes', Ages', LoginRemains', Moves,
           \A s \in sessions' : s \in sessions \/ SessionTrue(s)',
           \A u \in Persons, p \in Purposes : link'[u][p] \in {link[u][p], NoLink} \/ LinkHonest(u, p)',
           \A v \in pending' : v \in pending \/ Known(v.user)',
           \A c \in Clients : request'[c] = request[c] \/ RequestTrue(request[c])'
    PROVE  CredentialIInv'
<1>1. AccountTypes
  BY DEF CredentialIInv
<1>2. \A s \in sessions' : SessionTrue(s)'
  BY <1>1, SessionKept DEF CredentialIInv
<1>3. \A v \in pending' : Known(v.user)'
  <2>1. ASSUME NEW v \in pending', v \in pending  PROVE Known(v.user)'
    <3>1. Known(v.user)
      BY <2>1 DEF CredentialIInv
    <3>. QED BY <3>1, KnownKept
  <2>. QED BY <2>1
<1>4. ASSUME NEW c \in Clients  PROVE RequestTrue(request[c])'
  <2>1. PICK r : r = request[c]
    OBVIOUS
  <2>2. RequestTrue(r)'
    BY <1>1, <2>1, RequestKept DEF CredentialIInv
  <2>3. CASE request'[c] = request[c]
    BY <2>1, <2>2, <2>3 DEF RequestTrue
  <2>. QED BY <2>3
<1>5. ASSUME NEW u \in Persons, NEW p \in Purposes  PROVE LinkHonest(u, p)'
  <2>1. PICK n, a : n = link[u][p].revision /\ a = link[u][p].address
    OBVIOUS
  <2>2. LinkTrue(u, p, n, a)' /\ LinkTrue(u, p, 0, Nobody)'
    BY <1>1, <2>1, LinkKept, NoLinkTrue DEF CredentialIInv
  <2>3. CASE link'[u][p] = link[u][p]
    BY <2>1, <2>2, <2>3 DEF LinkHonest, LinkTrue
  <2>4. CASE link'[u][p] = NoLink
    BY <2>2, <2>4 DEF LinkHonest, LinkTrue, NoLink
  <2>. QED BY <2>3, <2>4
<1>. QED BY <1>2, <1>3, <1>4, <1>5 DEF CredentialIInv, LinkHonest
-----------------------------------------------------------------------------
LEMMA RequestMoves ==
    ASSUME AccountTypes, NEW c \in Clients, NEW r, StepTo(c, r)
    PROVE  /\ request'[c] = r /\ \A o \in Clients : o # c => request'[o] = request[o]
           /\ request' = [o \in Clients |-> request'[o]]
<1>1. request = [o \in Clients |-> request[o]]
  BY DEF AccountTypes
<1>. QED BY <1>1 DEF StepTo

LEMMA AccountsRest ==
    ASSUME CredentialIInv, UNCHANGED <<account, email, linkedTo>>,
           link' \in [Persons -> [Purposes -> LinkType]], links' \in 0..MaxLinks,
           request' = [c \in Clients |-> request'[c]]
    PROVE  AccountTypes' /\ Ages' /\ LoginRemains' /\ Moves
<1>1. AccountTypes' /\ Ages' /\ Moves
  BY DEF CredentialIInv, AccountTypes, Ages, LiveAccount, Moves, Steady
<1>2. LoginRemains'
  BY DEF CredentialIInv, LoginRemains, LiveAccount, IdentitiesOf, LocalLogin
<1>. QED BY <1>1, <1>2

(* A step that does no more than note something for its request.           *)
LEMMA OnlyRequest ==
    ASSUME CredentialIInv, NEW c \in Clients, NEW r, StepTo(c, r), RequestTrue(r),
           UNCHANGED <<account, email, linkedTo, sessions, link, pending, links>>
    PROVE  CredentialIInv'
<1>1. /\ request'[c] = r /\ \A o \in Clients : o # c => request'[o] = request[o]
      /\ request' = [o \in Clients |-> request'[o]]
  BY RequestMoves DEF CredentialIInv
<1>2. AccountTypes' /\ Ages' /\ LoginRemains' /\ Moves
  <2>1. link \in [Persons -> [Purposes -> LinkType]] /\ links \in 0..MaxLinks
    BY DEF CredentialIInv, AccountTypes
  <2>. QED BY <1>1, <2>1, AccountsRest
<1>3. RequestTrue(request[c])'
  <2>1. RequestTrue(r)'
    BY <1>2, RequestKept DEF CredentialIInv
  <2>. QED BY <1>1, <2>1 DEF RequestTrue
<1>. QED BY <1>1, <1>2, <1>3, StepKeeps

LEMMA NoRequestTrue == RequestTrue(NoRequest)
BY DEF RequestTrue, NoRequest

LEMMA RefusedKeeps ==
    ASSUME CredentialIInv, NEW c \in Clients, Refused(c)
    PROVE  CredentialIInv'
BY OnlyRequest, NoRequestTrue DEF Refused, Over

(* Whoever has a session is a live user who can log in.                    *)
LEMMA SessionLogin ==
    ASSUME CredentialIInv, NEW u \in Persons, HasSession(u)
    PROVE  LiveAccount(u) /\ CanLogin(u)
<1>1. PICK s \in sessions : s.user = u /\ Valid(s)
  BY DEF HasSession
<1>2. SessionTrue(s)
  BY DEF CredentialIInv
<1>. QED BY <1>1, <1>2 DEF SessionTrue, Valid, Stamp, Current

LEMMA FreshStamp ==
    ASSUME CredentialIInv, NEW u \in Persons, LiveAccount(u), CanLogin(u)
    PROVE  Stamp(u, account[u].revision) /\ Known(u)
<1>1. account[u].revision \in Nat /\ account[u].revision <= account[u].revision
  BY DEF CredentialIInv, AccountTypes, AccountType
<1>. QED BY <1>1 DEF Stamp, Known, LiveAccount

LEMMA BeginKeeps ==
    ASSUME CredentialIInv, NEW c \in Clients,
           \/ \E u \in Persons : \/ FindCredential(c, u) \/ ReadForPassword(c, u)
                                 \/ RequestVerification(c, u) \/ StartLink(c, u)
           \/ \E u \in Persons, p \in Purposes :
                  FindLink(c, u, p) \/ \E a \in Addresses : RequestLink(c, u, p, a)
           \/ \E i \in Identities : ExternalArrives(c, i) \/ \E u \in Persons : ReadForUnlink(c, u, i)
    PROVE  CredentialIInv'
<1>1. ASSUME NEW u \in Persons, FindCredential(c, u)  PROVE CredentialIInv'
  <2>1. LiveAccount(u) /\ CanLogin(u) /\ StepTo(c, Seen(u, "password_session"))
    BY <1>1 DEF FindCredential, CanLogin
  <2>2. RequestTrue(Seen(u, "password_session"))
    BY <2>1, FreshStamp DEF Seen, RequestTrue
  <2>. QED BY <1>1, <2>1, <2>2, OnlyRequest DEF FindCredential
<1>2. ASSUME NEW u \in Persons, ReadForPassword(c, u)  PROVE CredentialIInv'
  <2>1. LiveAccount(u) /\ CanLogin(u) /\ StepTo(c, Seen(u, "change_password"))
    BY <1>2, SessionLogin DEF ReadForPassword
  <2>2. RequestTrue(Seen(u, "change_password"))
    BY <2>1, FreshStamp DEF Seen, RequestTrue
  <2>. QED BY <1>2, <2>1, <2>2, OnlyRequest DEF ReadForPassword
<1>3. ASSUME NEW u \in Persons, RequestVerification(c, u)  PROVE CredentialIInv'
  <2>1. PICK r : r = [step |-> "verify_mail", user |-> u, address |-> email[u].address]
    OBVIOUS
  <2>2. RequestTrue(r)
    BY <1>3, <2>1 DEF RequestVerification, RequestTrue, Known, LiveAccount
  <2>. QED BY <1>3, <2>1, <2>2, OnlyRequest DEF RequestVerification
<1>4. ASSUME NEW u \in Persons, StartLink(c, u)  PROVE CredentialIInv'
  <2>1. PICK i \in Identities : StepTo(c, [step |-> "callback", user |-> u, identity |-> i,
                                           revision |-> account[u].revision])
    BY <1>4 DEF StartLink
  <2>2. PICK r : r = [step |-> "callback", user |-> u, identity |-> i, revision |-> account[u].revision]
    OBVIOUS
  <2>3. Stamp(u, account[u].revision) /\ Known(u)
    BY <1>4, SessionLogin, FreshStamp DEF StartLink
  <2>4. RequestTrue(r)
    BY <2>2, <2>3 DEF RequestTrue
  <2>. QED BY <1>4, <2>1, <2>2, <2>4, OnlyRequest DEF StartLink
<1>5. ASSUME NEW u \in Persons, NEW p \in Purposes, FindLink(c, u, p)  PROVE CredentialIInv'
  <2>1. PICK r : r = [step |-> "use_link", user |-> u, purpose |-> p, id |-> link[u][p].id]
    OBVIOUS
  <2>2. RequestTrue(r)
    BY <2>1 DEF RequestTrue
  <2>. QED BY <1>5, <2>1, <2>2, OnlyRequest DEF FindLink
<1>6. ASSUME NEW u \in Persons, NEW p \in Purposes, NEW a \in Addresses, RequestLink(c, u, p, a)
      PROVE  CredentialIInv'
  <2>1. PICK r : r = [step |-> "save_link", user |-> u, revision |-> account[u].revision,
                      purpose |-> p, address |-> a]
    OBVIOUS
  <2>2. /\ LiveAccount(u)
        /\ p = "password-reset" => email[u].verified /\ a = email[u].address
        /\ p # "password-reset" => HasSession(u)
    BY <1>6 DEF RequestLink
  <2>3. CanLogin(u)
    <3>1. CASE p = "password-reset"
      BY <2>2, <3>1 DEF CredentialIInv, LoginRemains, CanLogin, LocalLogin
    <3>2. CASE p # "password-reset"
      BY <2>2, <3>2, SessionLogin
    <3>. QED BY <3>1, <3>2
  <2>4. p = "password-reset" => email[u] = [address |-> a, verified |-> TRUE]
    <3>1. email[u] \in EmailType
      BY DEF CredentialIInv, AccountTypes
    <3>. QED BY <2>2, <3>1 DEF EmailType
  <2>5. Stamp(u, account[u].revision) /\ Known(u)
    BY <2>2, <2>3, FreshStamp
  <2>6. LinkTrue(u, p, account[u].revision, a)
    BY <2>4, <2>5 DEF LinkTrue
  <2>7. RequestTrue(r)
    BY <2>1, <2>5, <2>6 DEF RequestTrue
  <2>. QED BY <1>6, <2>1, <2>7, OnlyRequest DEF RequestLink
<1>7. ASSUME NEW i \in Identities, ExternalArrives(c, i)  PROVE CredentialIInv'
  <2>1. PICK r : r = [step |-> IF linkedTo[i] = Nobody THEN "create_user" ELSE "enter",
                      user |-> linkedTo[i], identity |-> i]
    OBVIOUS
  <2>2. linkedTo[i] # Nobody => linkedTo[i] \in Persons
    BY DEF CredentialIInv, AccountTypes
  <2>3. RequestTrue(r)
    BY <2>1, <2>2 DEF RequestTrue
  <2>. QED BY <1>7, <2>1, <2>3, OnlyRequest DEF ExternalArrives
<1>8. ASSUME NEW i \in Identities, NEW u \in Persons, ReadForUnlink(c, u, i)  PROVE CredentialIInv'
  <2>1. PICK r : r = [step |-> "unlink", user |-> u, revision |-> account[u].revision,
                      password |-> account[u].password, identity |-> i]
    OBVIOUS
  <2>2. Stamp(u, account[u].revision) /\ Known(u)
    BY <1>8, SessionLogin, FreshStamp DEF ReadForUnlink
  <2>3. RequestTrue(r)
    BY <2>1, <2>2 DEF RequestTrue
  <2>. QED BY <1>8, <2>1, <2>3, OnlyRequest DEF ReadForUnlink
<1>. QED BY <1>1, <1>2, <1>3, <1>4, <1>5, <1>6, <1>7, <1>8

(* createSession: what is proved now, and the session that is inserted     *)
(* later, which is true only as long as the revision stays.                *)
LEMMA CheckProofKeeps ==
    ASSUME CredentialIInv, NEW c \in Clients, CheckProof(c)
    PROVE  CredentialIInv'
<1>1. PICK r : r = request[c]
  OBVIOUS
<1>2. RequestTrue(r) /\ r.step \in {"password_session", "external_session"}
  BY <1>1 DEF CredentialIInv, CheckProof
<1>3. CASE ~ProofHolds(c)
  <2>1. Over(c)
    BY <1>3 DEF CheckProof
  <2>. QED BY <2>1, OnlyRequest, NoRequestTrue DEF CheckProof, Over
<1>4. CASE ProofHolds(c)
  <2>1. PICK u : u = r.user
    OBVIOUS
  <2>2. u \in Persons /\ LiveAccount(u) /\ CanLogin(u)
    <3>1. Known(u) /\ LiveAccount(u)
      BY <1>1, <1>2, <1>4, <2>1 DEF RequestTrue, ProofHolds, SamePassword, Same
    <3>2. CASE r.step = "password_session"
      <4>1. account[u].revision = r.revision
        BY <1>1, <1>4, <2>1, <3>2 DEF ProofHolds, SamePassword, Same, Stands
      <4>2. Stamp(u, r.revision)
        BY <1>2, <2>1, <3>2 DEF RequestTrue
      <4>. QED BY <3>1, <4>1, <4>2 DEF Stamp, Current, Known
    <3>3. CASE r.step = "external_session"
      <4>1. linkedTo[r.identity] = u /\ r.identity \in Identities
        BY <1>1, <1>2, <1>4, <2>1, <3>3 DEF ProofHolds, Stands, RequestTrue
      <4>. QED BY <3>1, <4>1 DEF CanLogin, IdentitiesOf, Known
    <3>. QED BY <1>2, <3>2, <3>3
  <2>3. PICK s : s = [user |-> u, revision |-> account[u].revision,
                      proof |-> IF r.step = "password_session" THEN <<"password", r.password>>
                                                               ELSE <<"identity", r.identity>>]
    OBVIOUS
  <2>4. SessionTrue(s)
    <3>1. Stamp(u, account[u].revision)
      BY <2>2, FreshStamp
    <3>2. CASE r.step = "password_session"
      <4>1. account[u].password = r.password /\ s.proof = <<"password", r.password>>
        BY <1>1, <1>4, <2>1, <2>3, <3>2 DEF ProofHolds, SamePassword, Stands
      <4>. QED BY <2>3, <3>1, <4>1 DEF SessionTrue, ProofTrue
    <3>3. CASE r.step = "external_session"
      <4>1. /\ linkedTo[r.identity] = u /\ r.identity \in Identities
            /\ s.proof = <<"identity", r.identity>>
        BY <1>1, <1>2, <1>4, <2>1, <2>3, <3>3 DEF ProofHolds, Stands, RequestTrue
      <4>. QED BY <2>3, <3>1, <4>1 DEF SessionTrue, ProofTrue
    <3>. QED BY <1>2, <3>2, <3>3
  <2>5. PICK q : q = [step |-> "insert_session", user |-> u, session |-> s]
    OBVIOUS
  <2>6. StepTo(c, q)
    BY <1>1, <1>4, <2>1, <2>3, <2>5 DEF CheckProof, Stands
  <2>7. RequestTrue(q)
    BY <2>4, <2>5 DEF RequestTrue
  <2>. QED BY <2>6, <2>7, OnlyRequest DEF CheckProof
<1>. QED BY <1>3, <1>4

LEMMA CheckLinkKeeps ==
    ASSUME CredentialIInv, NEW c \in Clients, CheckLink(c)
    PROVE  CredentialIInv'
<1>1. CASE Refused(c)
  BY <1>1, RefusedKeeps
<1>2. CASE ~Refused(c)
  <2>1. PICK r : r = request[c]
    OBVIOUS
  <2>2. PICK q : q = [step |-> "insert_link", user |-> r.user, identity |-> r.identity,
                      revision |-> r.revision]
    OBVIOUS
  <2>3. /\ r.step = "callback" /\ StepTo(c, q)
        /\ UNCHANGED <<account, email, linkedTo, sessions, link, pending, links>>
    BY <1>2, <2>1, <2>2 DEF CheckLink, Stands
  <2>4. RequestTrue(r)
    BY <2>1 DEF CredentialIInv
  <2>5. RequestTrue(q)
    BY <2>2, <2>3, <2>4 DEF RequestTrue
  <2>. QED BY <2>3, <2>5, OnlyRequest
<1>. QED BY <1>1, <1>2

(* Steps that add a session, a link or a mail, or end a session.           *)
LEMMA RecordKeeps ==
    ASSUME CredentialIInv, NEW c \in Clients,
           InsertSession(c) \/ SaveLink(c) \/ SendEmailVerification(c)
    PROVE  CredentialIInv'
<1>1. /\ link \in [Persons -> [Purposes -> LinkType]] /\ links \in 0..MaxLinks
      /\ request = [o \in Clients |-> request[o]] /\ AccountTypes
  BY DEF CredentialIInv, AccountTypes
<1>2. RequestTrue(request[c])
  BY DEF CredentialIInv
<1>3. RequestTrue(NoRequest)'
  BY DEF RequestTrue, NoRequest
<1>4. CASE InsertSession(c)
  <2>1. PICK s : s = request[c].session
    OBVIOUS
  <2>2. /\ UNCHANGED <<account, email, linkedTo, link, pending, links>> /\ StepTo(c, NoRequest)
        /\ sessions' = sessions \cup {s}
    BY <1>4, <2>1 DEF InsertSession, Over
  <2>3. /\ request'[c] = NoRequest /\ \A o \in Clients : o # c => request'[o] = request[o]
        /\ request' = [o \in Clients |-> request'[o]]
    BY <1>1, <2>2, RequestMoves
  <2>4. AccountTypes' /\ Ages' /\ LoginRemains' /\ Moves
    BY <1>1, <2>2, <2>3, AccountsRest
  <2>5. SessionTrue(s)
    BY <1>2, <1>4, <2>1 DEF RequestTrue, InsertSession, Stands
  <2>6. SessionTrue(s)'
    BY <1>1, <2>4, <2>5, SessionKept
  <2>7. \A x \in sessions' : x \in sessions \/ SessionTrue(x)'
    BY <2>2, <2>6 DEF SessionTrue
  <2>8. \A o \in Clients : request'[o] = request[o] \/ RequestTrue(request[o])'
    BY <1>3, <2>3 DEF RequestTrue
  <2>. QED BY <2>2, <2>4, <2>7, <2>8, StepKeeps
<1>5. CASE SaveLink(c)
  <2>1. CASE Refused(c)
    BY <2>1, RefusedKeeps
  <2>2. CASE ~Refused(c)
    <3>1. PICK r : r = request[c]
      OBVIOUS
    <3>2. PICK l : l = [id |-> links + 1, revision |-> r.revision, address |-> r.address]
      OBVIOUS
    <3>3. /\ UNCHANGED <<account, email, linkedTo, sessions, pending>> /\ StepTo(c, NoRequest)
          /\ r.step = "save_link" /\ links < MaxLinks /\ links' = links + 1
          /\ link' = [link EXCEPT ![r.user][r.purpose] = l]
      BY <1>5, <2>2, <3>1, <3>2 DEF SaveLink, Over, Stands
    <3>4. /\ r.user \in Persons /\ r.purpose \in Purposes /\ r.address \in Addresses \cup {Nobody}
          /\ LinkTrue(r.user, r.purpose, r.revision, r.address) /\ r.revision \in Nat
      BY <1>2, <3>1, <3>3 DEF RequestTrue, Known, LinkTrue, Stamp
    <3>5. links \in Nat /\ MaxLinks \in Nat /\ links' \in 0..MaxLinks
      BY <1>1, <3>3, CredentialAssumption DEF CredentialAssumption
    <3>6. l \in LinkType
      BY <3>2, <3>4, <3>5 DEF LinkType
    <3>7. /\ link' \in [Persons -> [Purposes -> LinkType]]
          /\ \A u \in Persons, p \in Purposes :
                 link'[u][p] = IF u = r.user /\ p = r.purpose THEN l ELSE link[u][p]
      BY <1>1, <3>3, <3>4, <3>6
    <3>8. /\ request'[c] = NoRequest /\ \A o \in Clients : o # c => request'[o] = request[o]
          /\ request' = [o \in Clients |-> request'[o]]
      BY <1>1, <3>3, RequestMoves
    <3>9. AccountTypes' /\ Ages' /\ LoginRemains' /\ Moves
      BY <3>3, <3>5, <3>7, <3>8, AccountsRest
    <3>10. LinkTrue(r.user, r.purpose, r.revision, r.address)'
      BY <1>1, <3>4, <3>9, LinkKept
    <3>11. \A u \in Persons, p \in Purposes : link'[u][p] = link[u][p] \/ LinkHonest(u, p)'
      <4>1. SUFFICES ASSUME NEW u \in Persons, NEW p \in Purposes, u = r.user, p = r.purpose
                     PROVE  LinkHonest(u, p)'
        BY <3>7
      <4>2. PICK n, a : n = r.revision /\ a = r.address
        OBVIOUS
      <4>3. link'[u][p].revision = n /\ link'[u][p].address = a
        BY <3>2, <3>7, <4>1, <4>2
      <4>4. LinkTrue(u, p, n, a)'
        BY <3>10, <4>1, <4>2
      <4>. QED BY <4>3, <4>4 DEF LinkHonest, LinkTrue
    <3>12. \A o \in Clients : request'[o] = request[o] \/ RequestTrue(request[o])'
      BY <1>3, <3>8 DEF RequestTrue
    <3>. QED BY <3>3, <3>9, <3>11, <3>12, StepKeeps
  <2>. QED BY <2>1, <2>2
<1>6. CASE SendEmailVerification(c)
  <2>1. PICK v : v = [user |-> request[c].user, address |-> request[c].address]
    OBVIOUS
  <2>2. /\ UNCHANGED <<account, email, linkedTo, link, sessions, links>> /\ StepTo(c, NoRequest)
        /\ pending' = pending \cup {v} /\ request[c].step = "verify_mail"
    BY <1>6, <2>1 DEF SendEmailVerification, Over, Stands
  <2>3. /\ request'[c] = NoRequest /\ \A o \in Clients : o # c => request'[o] = request[o]
        /\ request' = [o \in Clients |-> request'[o]]
    BY <1>1, <2>2, RequestMoves
  <2>4. AccountTypes' /\ Ages' /\ LoginRemains' /\ Moves
    BY <1>1, <2>2, <2>3, AccountsRest
  <2>5. Known(v.user)
    BY <1>2, <2>1, <2>2 DEF RequestTrue
  <2>6. \A x \in pending' : x \in pending \/ Known(x.user)'
    BY <2>2, <2>5 DEF Known
  <2>8. \A o \in Clients : request'[o] = request[o] \/ RequestTrue(request[o])'
    BY <1>3, <2>3 DEF RequestTrue
  <2>. QED BY <2>2, <2>4, <2>6, <2>8, StepKeeps
<1>. QED BY <1>4, <1>5, <1>6

LEMMA LogoutKeeps ==
    ASSUME CredentialIInv, NEW s \in sessions, Logout(s)
    PROVE  CredentialIInv'
<1>1. /\ UNCHANGED <<account, email, linkedTo, link, pending, request, links>>
      /\ sessions' \subseteq sessions
  BY DEF Logout
<1>2. /\ link \in [Persons -> [Purposes -> LinkType]] /\ links \in 0..MaxLinks
      /\ request = [o \in Clients |-> request[o]]
  BY DEF CredentialIInv, AccountTypes
<1>3. AccountTypes' /\ Ages' /\ LoginRemains' /\ Moves
  BY <1>1, <1>2, AccountsRest
<1>. QED BY <1>1, <1>3, StepKeeps
-----------------------------------------------------------------------------
(* Steps that change one account.                                          *)
Remains(u) == LiveAccount(u) => CanLogin(u) \/ (account[u].password # 0 /\ account[u].revision = 1)

LEMMA ChangeKeeps ==
    ASSUME CredentialIInv, NEW u \in Persons, AccountTypes', Ages', Steady(u) \/ Outdated(u), Remains(u)',
           \A v \in Persons : v # u => Steady(v),
           sessions' \subseteq sessions, pending' \subseteq pending,
           \A v \in Persons, p \in Purposes : link'[v][p] \in {link[v][p], NoLink},
           \A c \in Clients : request'[c] = request[c] \/ RequestTrue(request[c])'
    PROVE  CredentialIInv'
<1>1. Moves /\ AccountTypes
  BY DEF Moves, CredentialIInv
<1>2. ASSUME NEW v \in Persons  PROVE Remains(v)'
  <2>1. CASE v = u
    BY <2>1
  <2>2. CASE v # u
    <3>1. Steady(v) /\ Remains(v)
      BY <2>2 DEF CredentialIInv, LoginRemains, Remains, CanLogin
    <3>2. CanLogin(v) => CanLogin(v)'
      BY <1>1, <3>1, LoginSteady
    <3>. QED BY <3>1, <3>2 DEF Remains, Steady, LiveAccount
  <2>. QED BY <2>1, <2>2
<1>3. LoginRemains'
  BY <1>2 DEF LoginRemains, Remains, CanLogin
<1>. QED BY <1>1, <1>3, StepKeeps

LEMMA FinishFacts ==
    ASSUME CredentialIInv, NEW u, Known(u), NEW secret \in 0..MaxAuthRevision,
           FinishAccountChange(u, secret)
    PROVE  /\ account' \in [Persons -> AccountType] /\ Ages' /\ Outdated(u)
           /\ account'[u].state = account[u].state /\ account'[u].named = account[u].named
           /\ account'[u].password = secret
           /\ \A v \in Persons : v # u => account'[v] = account[v]
           /\ sessions' \subseteq sessions /\ pending' \subseteq pending
           /\ link' \in [Persons -> [Purposes -> LinkType]]
           /\ \A v \in Persons, p \in Purposes : link'[v][p] \in {link[v][p], NoLink}
<1>1. /\ account \in [Persons -> AccountType] /\ u \in Persons /\ account[u].state # "absent"
      /\ link \in [Persons -> [Purposes -> LinkType]] /\ Ages
  BY DEF CredentialIInv, AccountTypes, Known
<1>2. PICK a \in AccountType : a = account[u]
  BY <1>1
<1>3. MaxAuthRevision \in Nat /\ a.revision \in Nat /\ a.revision < MaxAuthRevision
  BY <1>2, CredentialAssumption DEF CredentialAssumption, AccountType, FinishAccountChange
<1>4. PICK b : b = [a EXCEPT !.password = secret, !.revision = @ + 1]
  OBVIOUS
<1>5. /\ b \in AccountType /\ b.state = a.state /\ b.named = a.named /\ b.password = secret
      /\ b.revision = a.revision + 1
  <2>1. PICK n : n = a.revision + 1
    OBVIOUS
  <2>2. n \in 0..MaxAuthRevision
    BY <1>3, <2>1
  <2>3. b = [a EXCEPT !.password = secret, !.revision = n]
    BY <1>4, <2>1
  <2>4. /\ b \in AccountType /\ b.state = a.state /\ b.named = a.named /\ b.password = secret
        /\ b.revision = n
    <3>. HIDE <1>1, <1>2, <1>3
    <3>. QED BY <2>2, <2>3 DEF AccountType
  <2>. QED BY <2>1, <2>4
<1>6. account' = [account EXCEPT ![u] = b]
  BY <1>1, <1>2, <1>4 DEF FinishAccountChange, AccountType
<1>7. /\ account' \in [Persons -> AccountType] /\ account'[u] = b
      /\ \A v \in Persons : v # u => account'[v] = account[v]
  BY <1>1, <1>5, <1>6
<1>8. Ages' /\ Outdated(u)
  BY <1>1, <1>2, <1>3, <1>5, <1>7 DEF Ages, LiveAccount, Outdated
<1>9. NoLink \in LinkType
  BY DEF NoLink, LinkType
<1>10. /\ link' \in [Persons -> [Purposes -> LinkType]]
       /\ \A v \in Persons, p \in Purposes : link'[v][p] \in {link[v][p], NoLink}
  BY <1>1, <1>9 DEF FinishAccountChange
<1>11. sessions' \subseteq sessions /\ pending' \subseteq pending
  BY DEF FinishAccountChange
<1>. QED BY <1>2, <1>5, <1>7, <1>8, <1>10, <1>11

(* A change that finishes with finishAccountChange and a reply.            *)
LEMMA FinishKeeps ==
    ASSUME CredentialIInv, NEW u, Known(u), NEW secret \in 0..MaxAuthRevision,
           FinishAccountChange(u, secret),
           email' \in [Persons -> EmailType], linkedTo' \in [Identities -> Persons \cup {Nobody}],
           \A v \in Persons : v # u => /\ email'[v] = email[v]
                                       /\ \A i \in Identities : linkedTo[i] = v => linkedTo'[i] = v,
           LiveAccount(u) => CanLogin(u)', links' = links,
           NEW c \in Clients, NEW q, StepTo(c, q), RequestTrue(q)'
    PROVE  CredentialIInv'
<1>1. /\ request'[c] = q /\ \A o \in Clients : o # c => request'[o] = request[o]
      /\ request' = [o \in Clients |-> request'[o]]
  BY RequestMoves DEF CredentialIInv
<1>2. /\ account' \in [Persons -> AccountType] /\ Ages' /\ Outdated(u)
      /\ account'[u].state = account[u].state
      /\ \A v \in Persons : v # u => account'[v] = account[v]
      /\ sessions' \subseteq sessions /\ pending' \subseteq pending
      /\ link' \in [Persons -> [Purposes -> LinkType]]
      /\ \A v \in Persons, p \in Purposes : link'[v][p] \in {link[v][p], NoLink}
  BY FinishFacts
<1>3. AccountTypes'
  BY <1>1, <1>2 DEF CredentialIInv, AccountTypes
<1>4. \A v \in Persons : v # u => Steady(v)
  BY <1>2 DEF Steady
<1>5. Remains(u)' /\ u \in Persons
  BY <1>2 DEF Remains, LiveAccount, Known
<1>6. \A o \in Clients : request'[o] = request[o] \/ RequestTrue(request[o])'
  BY <1>1 DEF RequestTrue
<1>. QED BY <1>2, <1>3, <1>4, <1>5, <1>6, ChangeKeeps

LEMMA NewPasswordType ==
    ASSUME CredentialIInv, NEW u \in Persons, account[u].revision < MaxAuthRevision
    PROVE  NewPassword(u) \in 0..MaxAuthRevision /\ NewPassword(u) # 0
BY CredentialAssumption DEF CredentialAssumption, NewPassword, CredentialIInv, AccountTypes, AccountType

LEMMA PasswordKeeps ==
    ASSUME CredentialIInv, NEW c \in Clients, ChangeAccountPassword(c)
    PROVE  CredentialIInv'
<1>1. CASE Refused(c)
  BY <1>1, RefusedKeeps
<1>2. CASE ~Refused(c)
  <2>1. PICK r : r = request[c]
    OBVIOUS
  <2>2. PICK u : u = r.user
    OBVIOUS
  <2>3. /\ r.step = "change_password" /\ SamePassword(c) /\ StepTo(c, NoRequest)
        /\ FinishAccountChange(u, NewPassword(u)) /\ UNCHANGED <<email, linkedTo, links>>
    BY <1>2, <2>1, <2>2 DEF ChangeAccountPassword, Over, Stands
  <2>4. Stamp(u, r.revision) /\ Known(u)
    BY <2>1, <2>2, <2>3 DEF CredentialIInv, RequestTrue
  <2>5. CanLogin(u) /\ u \in Persons
    BY <2>1, <2>2, <2>3, <2>4 DEF SamePassword, Same, Stamp, Current
  <2>6. NewPassword(u) \in 0..MaxAuthRevision /\ NewPassword(u) # 0
    BY <2>3, <2>5, NewPasswordType DEF FinishAccountChange
  <2>7. account'[u].password = NewPassword(u) /\ account'[u].named = account[u].named
    BY <2>3, <2>4, <2>6, FinishFacts
  <2>8. CanLogin(u)'
    BY <2>3, <2>5, <2>6, <2>7 DEF CanLogin, LocalLogin, IdentitiesOf, NewPassword
  <2>9. email' \in [Persons -> EmailType] /\ linkedTo' \in [Identities -> Persons \cup {Nobody}]
    BY <2>3 DEF CredentialIInv, AccountTypes
  <2>10. RequestTrue(NoRequest)'
    BY DEF RequestTrue, NoRequest
  <2>. QED BY <2>3, <2>4, <2>6, <2>8, <2>9, <2>10, FinishKeeps
<1>. QED BY <1>1, <1>2

LEMMA ConsumeActionKeeps ==
    ASSUME CredentialIInv, NEW c \in Clients, ConsumeAccountAction(c)
    PROVE  CredentialIInv'
<1>1. CASE Refused(c)
  BY <1>1, RefusedKeeps
<1>2. CASE ~Refused(c)
  <2>1. PICK r : r = request[c]
    OBVIOUS
  <2>2. PICK u, p : u = r.user /\ p = r.purpose
    BY SMTT(30)
  <2>3. r.step = "use_link" /\ u \in Persons /\ p \in Purposes
    BY <1>2, <2>1, <2>2 DEF ConsumeAccountAction, Stands, CredentialIInv, RequestTrue
  <2>4. PICK l : l = link[u][p]
    BY SMTT(30)
  <2>5. /\ LinkHolds(c) /\ StepTo(c, NoRequest) /\ UNCHANGED <<linkedTo, links>>
        /\ \/ /\ p = "password-reset" /\ email[u] = [address |-> l.address, verified |-> TRUE]
              /\ email' = email /\ FinishAccountChange(u, NewPassword(u))
           \/ /\ p # "password-reset"
              /\ email' = [email EXCEPT ![u] = [address |-> l.address, verified |-> TRUE]]
              /\ FinishAccountChange(u, account[u].password)
    BY <1>2, <2>1, <2>2, <2>4 DEF ConsumeAccountAction, Over
  <2>6. l \in LinkType /\ LinkTrue(u, p, l.revision, l.address)
    BY <2>3, <2>4 DEF CredentialIInv, AccountTypes
  <2>7. Current(u, l.revision)
    BY <2>1, <2>2, <2>4, <2>5 DEF LinkHolds, Current
  <2>8. CanLogin(u) /\ Known(u)
    BY <2>3, <2>6, <2>7 DEF LinkTrue, Stamp, Current, Known, LiveAccount
  <2>9. RequestTrue(NoRequest)'
    BY DEF RequestTrue, NoRequest
  <2>10. /\ email \in [Persons -> EmailType] /\ linkedTo' \in [Identities -> Persons \cup {Nobody}]
         /\ account[u].password \in 0..MaxAuthRevision
    BY <2>3, <2>5 DEF CredentialIInv, AccountTypes, AccountType
  <2>11. CASE p = "password-reset"
    <3>1. FinishAccountChange(u, NewPassword(u)) /\ email' = email /\ email[u].verified
      BY <2>5, <2>11
    <3>2. NewPassword(u) \in 0..MaxAuthRevision /\ NewPassword(u) # 0
      BY <2>3, <3>1, NewPasswordType DEF FinishAccountChange
    <3>3. account'[u].password = NewPassword(u)
      BY <2>8, <3>1, <3>2, FinishFacts
    <3>4. CanLogin(u)'
      BY <3>1, <3>2, <3>3 DEF CanLogin, LocalLogin, NewPassword
    <3>. QED BY <2>5, <2>8, <2>9, <2>10, <3>1, <3>2, <3>4, FinishKeeps
  <2>12. CASE p # "password-reset"
    <3>1. PICK e : e = [address |-> l.address, verified |-> TRUE]
      OBVIOUS
    <3>2. FinishAccountChange(u, account[u].password) /\ email' = [email EXCEPT ![u] = e]
      BY <2>5, <2>12, <3>1
    <3>3. e \in EmailType /\ e.verified
      <4>. HIDE <2>1, <2>2, <2>4
      <4>. QED BY <2>6, <3>1 DEF EmailType, LinkType
    <3>4. /\ email' \in [Persons -> EmailType] /\ email'[u] = e
          /\ \A v \in Persons : v # u => email'[v] = email[v]
      BY <2>3, <2>10, <3>2, <3>3
    <3>5. account'[u].password = account[u].password
      BY <2>8, <2>10, <3>2, FinishFacts
    <3>6. CanLogin(u)'
      BY <2>5, <2>8, <3>3, <3>4, <3>5 DEF CanLogin, LocalLogin, IdentitiesOf
    <3>. QED BY <2>5, <2>8, <2>9, <2>10, <3>2, <3>4, <3>6, FinishKeeps
  <2>. QED BY <2>11, <2>12
<1>. QED BY <1>1, <1>2

LEMMA InsertLinkKeeps ==
    ASSUME CredentialIInv, NEW c \in Clients, InsertLink(c)
    PROVE  CredentialIInv'
<1>1. CASE Refused(c)
  BY <1>1, RefusedKeeps
<1>2. CASE ~Refused(c)
  <2>1. PICK r : r = request[c]
    OBVIOUS
  <2>2. PICK u, i : u = r.user /\ i = r.identity
    OBVIOUS
  <2>3. PICK q : q = [step |-> "external_session", user |-> u, identity |-> i]
    OBVIOUS
  <2>4. /\ r.step = "insert_link" /\ linkedTo[i] \in {Nobody, u} /\ linkedTo' = [linkedTo EXCEPT ![i] = u]
        /\ ProfileFilled(u) /\ FinishAccountChange(u, account[u].password) /\ StepTo(c, q) /\ links' = links
    BY <1>2, <2>1, <2>2, <2>3 DEF InsertLink, MayTake, Stands
  <2>5. Known(u) /\ i \in Identities
    BY <2>1, <2>2, <2>4 DEF CredentialIInv, RequestTrue
  <2>6. /\ linkedTo \in [Identities -> Persons \cup {Nobody}] /\ email \in [Persons -> EmailType]
        /\ account[u].password \in 0..MaxAuthRevision
    BY <2>5 DEF CredentialIInv, AccountTypes, AccountType, Known
  <2>7. /\ linkedTo' \in [Identities -> Persons \cup {Nobody}] /\ linkedTo'[i] = u
        /\ \A j \in Identities : j # i => linkedTo'[j] = linkedTo[j]
    BY <2>4, <2>5, <2>6 DEF Known
  <2>8. /\ email' \in [Persons -> EmailType]
        /\ \A v \in Persons : v # u => email'[v] = email[v]
    <3>1. CASE UNCHANGED email
      BY <2>6, <3>1
    <3>2. CASE \E a \in Addresses : email' = [email EXCEPT ![u] = [address |-> a, verified |-> TRUE]]
      <4>1. PICK e : \E a \in Addresses : /\ e = [address |-> a, verified |-> TRUE]
                                           /\ email' = [email EXCEPT ![u] = e]
        BY <3>2
      <4>2. e \in EmailType
        <5>. HIDE <2>1, <2>2, <2>3
        <5>. QED BY <4>1 DEF EmailType
      <4>. QED BY <2>6, <4>1, <4>2
    <3>. QED BY <2>4, <3>1, <3>2 DEF ProfileFilled
  <2>9. \A v \in Persons : v # u => \A j \in Identities : linkedTo[j] = v => linkedTo'[j] = v
    BY <2>4, <2>7, CredentialAssumption DEF CredentialAssumption
  <2>10. CanLogin(u)'
    BY <2>5, <2>7 DEF CanLogin, IdentitiesOf
  <2>11. Known(u)'
    BY <2>4, <2>5, <2>6, FinishFacts DEF Known
  <2>12. RequestTrue(q)'
    BY <2>3, <2>5, <2>11 DEF RequestTrue
  <2>. QED BY <2>4, <2>5, <2>6, <2>7, <2>8, <2>9, <2>10, <2>12, FinishKeeps
<1>. QED BY <1>1, <1>2

LEMMA UnlinkKeeps ==
    ASSUME CredentialIInv, NEW c \in Clients, Unlink(c)
    PROVE  CredentialIInv'
<1>1. CASE Refused(c)
  BY <1>1, RefusedKeeps
<1>2. CASE ~Refused(c)
  <2>1. PICK r : r = request[c]
    OBVIOUS
  <2>2. PICK u, i : u = r.user /\ i = r.identity
    OBVIOUS
  <2>3. /\ r.step = "unlink" /\ linkedTo[i] = u /\ linkedTo' = [linkedTo EXCEPT ![i] = Nobody]
        /\ LocalLogin(u) \/ IdentitiesOf(u) \ {i} # {}
        /\ FinishAccountChange(u, account[u].password) /\ StepTo(c, NoRequest) /\ UNCHANGED <<email, links>>
    BY <1>2, <2>1, <2>2 DEF Unlink, MayUnlink, Stands, Over
  <2>4. Known(u) /\ i \in Identities
    BY <2>1, <2>2, <2>3 DEF CredentialIInv, RequestTrue
  <2>5. /\ linkedTo \in [Identities -> Persons \cup {Nobody}] /\ email' \in [Persons -> EmailType]
        /\ account[u].password \in 0..MaxAuthRevision
    BY <2>3, <2>4 DEF CredentialIInv, AccountTypes, AccountType, Known
  <2>6. /\ linkedTo' \in [Identities -> Persons \cup {Nobody}]
        /\ \A j \in Identities : j # i => linkedTo'[j] = linkedTo[j]
    BY <2>3, <2>4, <2>5
  <2>7. account'[u].password = account[u].password /\ account'[u].named = account[u].named
    BY <2>3, <2>4, <2>5, FinishFacts
  <2>8. CanLogin(u)'
    <3>1. CASE LocalLogin(u)
      BY <2>3, <2>7, <3>1 DEF CanLogin, LocalLogin
    <3>2. CASE IdentitiesOf(u) \ {i} # {}
      BY <2>6, <3>2 DEF CanLogin, IdentitiesOf
    <3>. QED BY <2>3, <3>1, <3>2
  <2>9. RequestTrue(NoRequest)'
    BY DEF RequestTrue, NoRequest
  <2>10. \A v \in Persons : v # u => \A j \in Identities : linkedTo[j] = v => linkedTo'[j] = v
    BY <2>3, <2>6
  <2>. QED BY <2>3, <2>4, <2>5, <2>6, <2>8, <2>9, <2>10, FinishKeeps
<1>. QED BY <1>1, <1>2

(* An account whose row is replaced, at a higher revision.                 *)
LEMMA AccountMoves ==
    ASSUME CredentialIInv, NEW u \in Persons, NEW b \in AccountType, account' = [account EXCEPT ![u] = b],
           b.revision > account[u].revision, b.state # "absent"
    PROVE  /\ account' \in [Persons -> AccountType] /\ account'[u] = b /\ Ages' /\ Outdated(u)
           /\ \A v \in Persons : v # u => account'[v] = account[v]
<1>1. account \in [Persons -> AccountType] /\ Ages /\ account[u].revision \in Nat /\ b.revision \in Nat
  BY DEF CredentialIInv, AccountTypes, AccountType
<1>2. /\ account' \in [Persons -> AccountType] /\ account'[u] = b
      /\ \A v \in Persons : v # u => account'[v] = account[v]
  BY <1>1
<1>. QED BY <1>1, <1>2 DEF Ages, LiveAccount, Outdated

LEMMA EmailMoves ==
    ASSUME CredentialIInv, NEW u \in Persons, NEW e \in EmailType, email' = [email EXCEPT ![u] = e]
    PROVE  /\ email' \in [Persons -> EmailType] /\ email'[u] = e
           /\ \A v \in Persons : v # u => email'[v] = email[v]
BY DEF CredentialIInv, AccountTypes

LEMMA AddressType ==
    ASSUME NEW a \in Addresses, NEW verified \in BOOLEAN
    PROVE  [address |-> a, verified |-> verified] \in EmailType
BY DEF EmailType

LEMMA MailTypes ==
    /\ NoEmail \in EmailType
    /\ [address : Addresses, verified : BOOLEAN] \subseteq EmailType
    /\ [address : Addresses, verified : {TRUE}] \subseteq EmailType
<1>1. NoEmail \in EmailType
  BY DEF NoEmail, EmailType
<1>2. ASSUME NEW e \in [address : Addresses, verified : BOOLEAN]  PROVE e \in EmailType
  BY DEF EmailType
<1>3. ASSUME NEW e \in [address : Addresses, verified : {TRUE}]  PROVE e \in EmailType
  BY DEF EmailType
<1>. QED BY <1>1, <1>2, <1>3

LEMMA RegisterKeeps ==
    ASSUME CredentialIInv, NEW c \in Clients, NEW u \in Persons, NEW a \in Addresses,
           RegisterEmailUser(c, u, a)
    PROVE  CredentialIInv'
<1>1. PICK b, e, q : /\ b = [state |-> "active", password |-> 1, revision |-> 1, named |-> TRUE]
                     /\ e = [address |-> a, verified |-> FALSE]
                     /\ q = [step |-> "verify_mail", user |-> u, address |-> a]
  OBVIOUS
<1>2. /\ account[u].state = "absent" /\ account' = [account EXCEPT ![u] = b]
      /\ email' = [email EXCEPT ![u] = e] /\ StepTo(c, q)
      /\ UNCHANGED <<linkedTo, sessions, link, pending, links>>
  BY <1>1 DEF RegisterEmailUser
<1>3. b \in AccountType /\ e \in EmailType
  <2>1. 1 \in 0..MaxAuthRevision
    BY CredentialAssumption DEF CredentialAssumption
  <2>. QED BY <1>1, <2>1 DEF AccountType, EmailType
<1>4. account[u].revision = 0
  BY <1>2 DEF CredentialIInv, Ages
<1>5. /\ account' \in [Persons -> AccountType] /\ account'[u] = b /\ Ages' /\ Outdated(u)
      /\ \A v \in Persons : v # u => account'[v] = account[v]
  <2>1. b.revision > account[u].revision /\ b.state # "absent"
    BY <1>1, <1>4
  <2>. QED BY <1>2, <1>3, <2>1, AccountMoves
<1>6. /\ email' \in [Persons -> EmailType] /\ \A v \in Persons : v # u => email'[v] = email[v]
  BY <1>2, <1>3, EmailMoves
<1>7. /\ request'[c] = q /\ \A o \in Clients : o # c => request'[o] = request[o]
      /\ request' = [o \in Clients |-> request'[o]]
  BY <1>2, RequestMoves DEF CredentialIInv
<1>8. AccountTypes'
  BY <1>2, <1>5, <1>6, <1>7 DEF CredentialIInv, AccountTypes
<1>9. Remains(u)'
  BY <1>1, <1>5 DEF Remains
<1>10. \A v \in Persons : v # u => Steady(v)
  BY <1>2, <1>5, <1>6 DEF Steady
<1>11. RequestTrue(q)'
  BY <1>1, <1>5 DEF RequestTrue, Known
<1>12. \A o \in Clients : request'[o] = request[o] \/ RequestTrue(request[o])'
  BY <1>7, <1>11 DEF RequestTrue
<1>. QED BY <1>2, <1>5, <1>8, <1>9, <1>10, <1>12, ChangeKeeps

(* A higher revision and nothing else, or the account removed.             *)
LEMMA RevokeKeeps ==
    ASSUME CredentialIInv, NEW u \in Persons, LogoutAll(u) \/ RemoveManagedUser(u)
    PROVE  CredentialIInv'
<1>1. PICK a \in AccountType : a = account[u]
  BY DEF CredentialIInv, AccountTypes
<1>2. LiveAccount(u) /\ a.revision < MaxAuthRevision
  BY <1>1, SessionLogin DEF LogoutAll, RemoveManagedUser
<1>3. PICK n : n = a.revision + 1
  OBVIOUS
<1>4. n \in 0..MaxAuthRevision /\ n > a.revision
  BY <1>1, <1>2, <1>3, CredentialAssumption DEF CredentialAssumption, AccountType
<1>5. /\ UNCHANGED <<email, linkedTo, pending, request, links>> /\ sessions' \subseteq sessions
      /\ link' = link \/ link' = [link EXCEPT ![u] = [p \in Purposes |-> NoLink]]
  BY DEF LogoutAll, RemoveManagedUser
<1>6. \E b \in AccountType : /\ account' = [account EXCEPT ![u] = b] /\ b.revision = n
                             /\ \/ LogoutAll(u) /\ b.state = "active" /\ b.password = a.password
                                   /\ b.named = a.named
                                \/ b.state = "removed"
  <2>1. CASE LogoutAll(u)
    <3>1. PICK b : b = [a EXCEPT !.revision = n]
      OBVIOUS
    <3>2. b \in AccountType /\ b.revision = n /\ b.state = a.state /\ b.password = a.password
          /\ b.named = a.named
      BY <1>1, <1>4, <3>1 DEF AccountType
    <3>3. account' = [account EXCEPT ![u] = b]
      BY <1>1, <1>3, <2>1, <3>1 DEF LogoutAll, CredentialIInv, AccountTypes, AccountType
    <3>. QED BY <1>1, <1>2, <2>1, <3>2, <3>3 DEF LiveAccount
  <2>2. CASE RemoveManagedUser(u)
    <3>1. PICK b : b = [a EXCEPT !.state = "removed", !.password = 0, !.revision = n]
      OBVIOUS
    <3>2. b \in AccountType /\ b.revision = n /\ b.state = "removed"
      <4>1. 0 \in 0..MaxAuthRevision
        BY CredentialAssumption DEF CredentialAssumption
      <4>. QED BY <1>1, <1>4, <3>1, <4>1 DEF AccountType
    <3>3. account' = [account EXCEPT ![u] = b]
      BY <1>1, <1>3, <2>2, <3>1 DEF RemoveManagedUser, CredentialIInv, AccountTypes, AccountType
    <3>. QED BY <3>2, <3>3
  <2>. QED BY <2>1, <2>2
<1>7. PICK b \in AccountType : /\ account' = [account EXCEPT ![u] = b] /\ b.revision = n
                               /\ \/ LogoutAll(u) /\ b.state = "active" /\ b.password = a.password
                                     /\ b.named = a.named
                                  \/ b.state = "removed"
  BY <1>6
<1>8. /\ account' \in [Persons -> AccountType] /\ account'[u] = b /\ Ages' /\ Outdated(u)
      /\ \A v \in Persons : v # u => account'[v] = account[v]
  BY <1>1, <1>4, <1>7, AccountMoves
<1>9. /\ link' \in [Persons -> [Purposes -> LinkType]]
      /\ \A v \in Persons, p \in Purposes : link'[v][p] \in {link[v][p], NoLink}
  <2>1. link \in [Persons -> [Purposes -> LinkType]]
    BY DEF CredentialIInv, AccountTypes
  <2>2. NoLink \in LinkType
    BY DEF NoLink, LinkType
  <2>. QED BY <1>5, <2>1, <2>2
<1>10. AccountTypes'
  BY <1>5, <1>8, <1>9 DEF CredentialIInv, AccountTypes
<1>11. Remains(u)'
  <2>1. CASE LogoutAll(u) /\ b.password = a.password /\ b.named = a.named
    <3>1. CanLogin(u)
      BY <2>1, SessionLogin DEF LogoutAll
    <3>2. CanLogin(u)'
      BY <1>1, <1>5, <1>8, <2>1, <3>1 DEF CanLogin, LocalLogin, IdentitiesOf
    <3>. QED BY <3>2 DEF Remains
  <2>2. CASE b.state = "removed"
    BY <1>8, <2>2 DEF Remains, LiveAccount
  <2>. QED BY <1>7, <2>1, <2>2
<1>12. \A v \in Persons : v # u => Steady(v)
  BY <1>5, <1>8 DEF Steady
<1>. QED BY <1>5, <1>8, <1>9, <1>10, <1>11, <1>12, ChangeKeeps

LEMMA VerificationKeeps ==
    ASSUME CredentialIInv, NEW v \in pending, ConsumeEmailVerification(v)
    PROVE  CredentialIInv'
<1>1. PICK u : u = v.user
  OBVIOUS
<1>2. Known(u) /\ u \in Persons
  BY <1>1 DEF CredentialIInv, Known
<1>3. UNCHANGED <<linkedTo, sessions, link, request, links>> /\ pending' \subseteq pending
  BY DEF ConsumeEmailVerification
<1>4. CASE UNCHANGED <<account, email>>
  <2>1. /\ link \in [Persons -> [Purposes -> LinkType]] /\ links \in 0..MaxLinks
        /\ request = [o \in Clients |-> request[o]]
    BY DEF CredentialIInv, AccountTypes
  <2>2. AccountTypes' /\ Ages' /\ LoginRemains' /\ Moves
    BY <1>3, <1>4, <2>1, AccountsRest
  <2>. QED BY <1>3, <2>2, StepKeeps
<1>5. CASE ~UNCHANGED <<account, email>>
  <2>1. PICK a \in AccountType : a = account[u]
    BY <1>2 DEF CredentialIInv, AccountTypes
  <2>2. PICK b, e : /\ b = [a EXCEPT !.revision = @ + 1] /\ e = [email[u] EXCEPT !.verified = TRUE]
    OBVIOUS
  <2>3. a.revision < MaxAuthRevision
    BY <1>1, <1>5, <2>1 DEF ConsumeEmailVerification
  <2>4. /\ b \in AccountType /\ b.revision > a.revision /\ b.state = a.state /\ b.password = a.password
    <3>1. PICK n : n = a.revision + 1
      OBVIOUS
    <3>2. n \in 0..MaxAuthRevision /\ n > a.revision
      BY <2>1, <2>3, <3>1, CredentialAssumption DEF CredentialAssumption, AccountType
    <3>3. b = [a EXCEPT !.revision = n]
      BY <2>2, <3>1
    <3>. QED BY <2>1, <3>2, <3>3 DEF AccountType
  <2>5. e \in EmailType /\ e.verified
    <3>1. email[u] \in EmailType
      BY <1>2 DEF CredentialIInv, AccountTypes
    <3>. QED BY <2>2, <3>1 DEF EmailType
  <2>6. account' = [account EXCEPT ![u] = b] /\ email' = [email EXCEPT ![u] = e]
    BY <1>1, <1>2, <1>5, <2>1, <2>2
       DEF ConsumeEmailVerification, CredentialIInv, AccountTypes, AccountType, EmailType
  <2>7. /\ account' \in [Persons -> AccountType] /\ account'[u] = b /\ Ages' /\ Outdated(u)
        /\ \A o \in Persons : o # u => account'[o] = account[o]
    <3>1. b.state # "absent"
      BY <1>2, <2>1, <2>4 DEF Known
    <3>. QED BY <1>2, <2>1, <2>4, <2>6, <3>1, AccountMoves
  <2>8. /\ email' \in [Persons -> EmailType] /\ email'[u] = e
        /\ \A o \in Persons : o # u => email'[o] = email[o]
    BY <1>2, <2>5, <2>6, EmailMoves
  <2>9. AccountTypes'
    BY <1>3, <2>7, <2>8 DEF CredentialIInv, AccountTypes
  <2>10. Remains(u)'
    <3>1. LiveAccount(u) => IdentitiesOf(u) # {} \/ account[u].password # 0
      BY <1>2 DEF CredentialIInv, LoginRemains, LocalLogin
    <3>. QED BY <1>3, <2>1, <2>4, <2>5, <2>7, <2>8, <3>1
             DEF Remains, CanLogin, LocalLogin, IdentitiesOf, LiveAccount
  <2>11. \A o \in Persons : o # u => Steady(o)
    BY <1>3, <2>7, <2>8 DEF Steady
  <2>. QED BY <1>2, <1>3, <2>7, <2>9, <2>10, <2>11, ChangeKeeps
<1>. QED BY <1>4, <1>5

LEMMA ExternalKeeps ==
    ASSUME CredentialIInv, NEW c \in Clients, ExternalKnown(c) \/ ExternalCreates(c)
    PROVE  CredentialIInv'
<1>1. CASE Refused(c)
  BY <1>1, RefusedKeeps
<1>2. PICK r, i : r = request[c] /\ i = r.identity
  OBVIOUS
<1>3. RequestTrue(r)
  BY <1>2 DEF CredentialIInv
<1>4. CASE ExternalKnown(c) /\ ~Refused(c)
  <2>1. PICK u, q : u = r.user /\ q = [step |-> "external_session", user |-> u, identity |-> i]
    OBVIOUS
  <2>2. /\ r.step = "enter" /\ LiveAccount(u) /\ linkedTo[i] = u /\ ProfileFilled(u) /\ StepTo(c, q)
        /\ UNCHANGED <<account, linkedTo, sessions, link, pending, links>>
    BY <1>2, <1>4, <2>1 DEF ExternalKnown, Stands
  <2>3. u \in Persons /\ i \in Identities
    BY <1>2, <1>3, <2>1, <2>2 DEF RequestTrue
  <2>4. /\ email' \in [Persons -> EmailType]
        /\ \A v \in Persons : email'[v] = email[v] \/ (v = u /\ email[v] = NoEmail /\ email'[v].verified)
    <3>1. email \in [Persons -> EmailType]
      BY DEF CredentialIInv, AccountTypes
    <3>2. CASE UNCHANGED email
      BY <3>1, <3>2
    <3>3. CASE \E a \in Addresses : /\ email[u] = NoEmail
                                    /\ email' = [email EXCEPT ![u] = [address |-> a, verified |-> TRUE]]
      <4>1. PICK e : \E a \in Addresses : /\ e = [address |-> a, verified |-> TRUE] /\ email[u] = NoEmail
                                           /\ email' = [email EXCEPT ![u] = e]
        BY <3>3
      <4>2. e \in EmailType /\ e.verified
        <5>1. PICK a \in Addresses : e = [address |-> a, verified |-> TRUE]
          BY <4>1
        <5>. QED BY <5>1, AddressType
      <4>. QED BY <2>3, <3>1, <4>1, <4>2
    <3>. QED BY <2>2, <3>2, <3>3 DEF ProfileFilled
  <2>5. /\ request'[c] = q /\ \A o \in Clients : o # c => request'[o] = request[o]
        /\ request' = [o \in Clients |-> request'[o]]
    BY <2>2, RequestMoves DEF CredentialIInv
  <2>6. AccountTypes' /\ Ages'
    BY <2>2, <2>4, <2>5 DEF CredentialIInv, AccountTypes, Ages, LiveAccount
  <2>7. \A v \in Persons : Steady(v)
    BY <2>2, <2>4 DEF Steady
  <2>8. Remains(u)'
    BY <2>2, <2>3 DEF Remains, CanLogin, IdentitiesOf
  <2>9. RequestTrue(q)'
    BY <2>1, <2>2, <2>3 DEF RequestTrue, Known, LiveAccount
  <2>10. \A o \in Clients : request'[o] = request[o] \/ RequestTrue(request[o])'
    BY <2>5, <2>9 DEF RequestTrue
  <2>. QED BY <2>2, <2>3, <2>6, <2>7, <2>8, <2>10, ChangeKeeps
<1>5. CASE ExternalCreates(c) /\ ~Refused(c)
  <2>1. /\ r.step = "create_user" /\ linkedTo[i] = Nobody /\ UNCHANGED <<sessions, link, pending, links>>
        /\ \E u \in Persons, named \in BOOLEAN,
              mail \in {NoEmail} \cup [address : Addresses, verified : BOOLEAN] :
              /\ account[u].state = "absent"
              /\ account' = [account EXCEPT ![u] = [state |-> "active", password |-> 0,
                                                    revision |-> 1, named |-> named]]
              /\ email' = [email EXCEPT ![u] = mail]
              /\ linkedTo' = [linkedTo EXCEPT ![i] = u]
              /\ StepTo(c, [step |-> "external_session", user |-> u, identity |-> i])
    BY <1>2, <1>5 DEF ExternalCreates, Stands
  <2>2. PICK u \in Persons, named \in BOOLEAN,
             mail \in {NoEmail} \cup [address : Addresses, verified : BOOLEAN] :
              /\ account[u].state = "absent"
              /\ account' = [account EXCEPT ![u] = [state |-> "active", password |-> 0,
                                                    revision |-> 1, named |-> named]]
              /\ email' = [email EXCEPT ![u] = mail]
              /\ linkedTo' = [linkedTo EXCEPT ![i] = u]
              /\ StepTo(c, [step |-> "external_session", user |-> u, identity |-> i])
    BY <2>1
  <2>3. PICK b, q : /\ b = [state |-> "active", password |-> 0, revision |-> 1, named |-> named]
                    /\ q = [step |-> "external_session", user |-> u, identity |-> i]
    OBVIOUS
  <2>4. /\ account' = [account EXCEPT ![u] = b] /\ StepTo(c, q) /\ mail \in EmailType
    BY <2>2, <2>3, MailTypes
  <2>5. b \in AccountType /\ b.revision = 1 /\ b.state = "active"
    <3>1. 0 \in 0..MaxAuthRevision /\ 1 \in 0..MaxAuthRevision
      BY CredentialAssumption DEF CredentialAssumption
    <3>. QED BY <2>3, <3>1 DEF AccountType
  <2>6. account[u].revision = 0
    BY <2>2 DEF CredentialIInv, Ages
  <2>7. b.revision > account[u].revision /\ b.state # "absent"
    BY <2>5, <2>6
  <2>8. /\ account' \in [Persons -> AccountType] /\ account'[u] = b /\ Ages' /\ Outdated(u)
        /\ \A v \in Persons : v # u => account'[v] = account[v]
    BY <2>4, <2>5, <2>7, AccountMoves
  <2>9. /\ email' \in [Persons -> EmailType] /\ \A v \in Persons : v # u => email'[v] = email[v]
    BY <2>2, <2>4, EmailMoves
  <2>10. i \in Identities
    BY <1>2, <1>3, <2>1 DEF RequestTrue
  <2>11. /\ linkedTo' \in [Identities -> Persons \cup {Nobody}] /\ linkedTo'[i] = u
         /\ \A j \in Identities : j # i => linkedTo'[j] = linkedTo[j]
    BY <2>2, <2>10 DEF CredentialIInv, AccountTypes
  <2>12. /\ request'[c] = q /\ \A o \in Clients : o # c => request'[o] = request[o]
         /\ request' = [o \in Clients |-> request'[o]]
    BY <2>4, RequestMoves DEF CredentialIInv
  <2>13. AccountTypes'
    BY <2>1, <2>8, <2>9, <2>11, <2>12 DEF CredentialIInv, AccountTypes
  <2>14. \A v \in Persons : v # u => Steady(v)
    <3>1. \A v \in Persons, j \in Identities : linkedTo[j] = v => linkedTo'[j] = v
      BY <2>1, <2>11, CredentialAssumption DEF CredentialAssumption
    <3>. QED BY <2>8, <2>9, <3>1 DEF Steady
  <2>15. Remains(u)'
    BY <2>10, <2>11 DEF Remains, CanLogin, IdentitiesOf
  <2>16. RequestTrue(q)'
    BY <2>3, <2>5, <2>8, <2>10 DEF RequestTrue, Known
  <2>17. \A o \in Clients : request'[o] = request[o] \/ RequestTrue(request[o])'
    BY <2>12, <2>16 DEF RequestTrue
  <2>. QED BY <2>1, <2>8, <2>13, <2>14, <2>15, <2>17, ChangeKeeps
<1>. QED BY <1>1, <1>4, <1>5
-----------------------------------------------------------------------------
(* Whichever changes of password, address, identity and account overlap:   *)
(* a session that works was proved by what is still true, a link for a     *)
(* reset that still works went to the address the account has, and nobody  *)
(* who could log in is locked out (finishAccountChange, createSession,     *)
(* consumeAccountAction, unlinkExternalIdentity).                          *)
THEOREM AccountsAreSafe == CredentialSpec => []AccountInv
<1>1. CredentialInit => CredentialIInv
  <2>. SUFFICES ASSUME CredentialInit  PROVE CredentialIInv
    OBVIOUS
  <2>1. Absent \in AccountType /\ Made(1, TRUE) \in AccountType /\ Made(2, FALSE) \in AccountType
    <3>1. {0, 1, 2} \subseteq 0..MaxAuthRevision
      BY CredentialAssumption DEF CredentialAssumption
    <3>2. Absent \in AccountType
      BY <3>1 DEF AccountType, Absent
    <3>3. Made(1, TRUE) \in AccountType /\ Made(2, FALSE) \in AccountType
      BY <3>1 DEF AccountType, Made
    <3>. QED BY <3>2, <3>3
  <2>2. account \in [Persons -> AccountType]
    BY <2>1 DEF CredentialInit
  <2>3. email \in [Persons -> EmailType]
    <3>1. {NoEmail} \cup [address : Addresses, verified : {TRUE}] \subseteq EmailType
      BY MailTypes
    <3>. QED BY <3>1 DEF CredentialInit
  <2>4. link \in [Persons -> [Purposes -> LinkType]]
    BY DEF CredentialInit, NoLink, LinkType
  <2>5. AccountTypes
    BY <2>2, <2>3, <2>4, CredentialAssumption DEF CredentialInit, AccountTypes, CredentialAssumption
  <2>6. Ages
    BY DEF CredentialInit, Ages, LiveAccount, Absent, Made
  <2>7. LoginRemains
    <3>1. SUFFICES ASSUME NEW u \in Persons, LiveAccount(u)  PROVE CanLogin(u)
      BY DEF LoginRemains, CanLogin
    <3>2. CASE account[u] = Made(1, TRUE)
      <4>1. email[u] # NoEmail /\ email[u] \in {NoEmail} \cup [address : Addresses, verified : {TRUE}]
        BY <3>2 DEF CredentialInit
      <4>2. email[u].verified
        BY <4>1
      <4>. QED BY <3>2, <4>2 DEF CanLogin, LocalLogin, Made
    <3>3. CASE account[u] = Made(2, FALSE)
      <4>1. Cardinality(IdentitiesOf(u)) = 1
        BY <3>3 DEF CredentialInit, IdentitiesOf
      <4>. QED BY <4>1, FS_EmptySet DEF CanLogin
    <3>4. account[u] # Absent
      BY <3>1 DEF LiveAccount, Absent
    <3>. QED BY <3>2, <3>3, <3>4 DEF CredentialInit
  <2>8. \A u \in Persons, p \in Purposes : LinkHonest(u, p)
    <3>1. SUFFICES ASSUME NEW u \in Persons, NEW p \in Purposes  PROVE LinkHonest(u, p)
      OBVIOUS
    <3>2. link[u][p] = NoLink /\ account[u].revision \in Nat
      BY <2>2 DEF CredentialInit, AccountType
    <3>3. ~Current(u, 0)
      BY <2>6 DEF Ages, Current
    <3>. QED BY <3>2, <3>3 DEF LinkHonest, LinkTrue, Stamp, NoLink
  <2>9. \A c \in Clients : RequestTrue(request[c])
    BY NoRequestTrue DEF CredentialInit
  <2>10. sessions = {} /\ pending = {}
    BY DEF CredentialInit
  <2>. QED BY <2>5, <2>6, <2>7, <2>8, <2>9, <2>10 DEF CredentialIInv, LinkHonest
<1>2. CredentialIInv /\ [CredentialNext]_credentialVars => CredentialIInv'
  <2>. SUFFICES ASSUME CredentialIInv, [CredentialNext]_credentialVars  PROVE CredentialIInv'
    OBVIOUS
  <2>1. ASSUME NEW c \in Clients, ClientStep(c)  PROVE CredentialIInv'
    BY <2>1, CheckProofKeeps, RecordKeeps, PasswordKeeps, ConsumeActionKeeps, ExternalKeeps,
       CheckLinkKeeps, InsertLinkKeeps, UnlinkKeeps DEF ClientStep
  <2>2. ASSUME NEW c \in Clients, ClientBegins(c)  PROVE CredentialIInv'
    BY <2>2, BeginKeeps, RegisterKeeps DEF ClientBegins
  <2>3. CASE UNCHANGED credentialVars
    <3>1. AccountTypes' /\ Ages' /\ LoginRemains'
      <4>1. AccountTypes'
        BY <2>3 DEF credentialVars, CredentialIInv, AccountTypes
      <4>2. Ages'
        BY <2>3 DEF credentialVars, CredentialIInv, Ages, LiveAccount
      <4>3. LoginRemains'
        BY <2>3 DEF credentialVars, CredentialIInv, LoginRemains, IdentitiesOf, LocalLogin, LiveAccount
      <4>. QED BY <4>1, <4>2, <4>3
    <3>2. \A s \in sessions' : SessionTrue(s)'
      BY <2>3 DEF credentialVars, CredentialIInv, SessionTrue, Stamp, Current, CanLogin, IdentitiesOf,
                  LocalLogin, Valid, ProofTrue, LiveAccount
    <3>3. \A u \in Persons, p \in Purposes : LinkHonest(u, p)'
      BY <2>3 DEF credentialVars, CredentialIInv, LinkHonest, LinkTrue, Stamp, Current, CanLogin,
                  IdentitiesOf, LocalLogin, LiveAccount
    <3>4. \A v \in pending' : Known(v.user)'
      BY <2>3 DEF credentialVars, CredentialIInv, Known
    <3>5. \A c \in Clients : RequestTrue(request[c])'
      <4>1. SUFFICES ASSUME NEW c \in Clients  PROVE RequestTrue(request[c])'
        OBVIOUS
      <4>2. \A u, n : Stamp(u, n) => Stamp(u, n)'
        BY <2>3 DEF credentialVars, Stamp, Current, CanLogin, IdentitiesOf, LocalLogin, LiveAccount
      <4>3. \A u : Known(u) => Known(u)'
        BY <2>3 DEF credentialVars, Known
      <4>4. \A s : SessionTrue(s) => SessionTrue(s)'
        <5>1. ASSUME NEW s  PROVE (Valid(s) => ProofTrue(s)) => (Valid(s) => ProofTrue(s))'
          BY <2>3 DEF credentialVars, Valid, ProofTrue, LiveAccount
        <5>. QED BY <4>2, <5>1 DEF SessionTrue
      <4>5. \A u, p, n, a : LinkTrue(u, p, n, a) => LinkTrue(u, p, n, a)'
        <5>1. ASSUME NEW u, NEW p, NEW n, NEW a, LinkTrue(u, p, n, a)  PROVE LinkTrue(u, p, n, a)'
          <6>1. Current(u, n)' = Current(u, n) /\ email' = email
            BY <2>3 DEF credentialVars, Current, LiveAccount
          <6>. QED BY <4>2, <5>1, <6>1 DEF LinkTrue
        <5>. QED BY <5>1
      <4>6. PICK r : r = request[c] /\ r = request'[c] /\ RequestTrue(r)
        BY <2>3, <4>1 DEF credentialVars, CredentialIInv
      <4>. HIDE DEF Stamp, Known, SessionTrue, LinkTrue
      <4>7. RequestTrue(r)'
        BY <4>2, <4>3, <4>4, <4>5, <4>6 DEF RequestTrue
      <4>. QED BY <4>6, <4>7 DEF RequestTrue
    <3>. QED BY <3>1, <3>2, <3>3, <3>4, <3>5 DEF CredentialIInv, LinkHonest
  <2>. QED BY <2>1, <2>2, <2>3, LogoutKeeps, RevokeKeeps, VerificationKeeps DEF CredentialNext
<1>3. CredentialIInv => AccountInv
  <2>. SUFFICES ASSUME CredentialIInv  PROVE AccountInv
    OBVIOUS
  <2>1. CredentialTypeOK
    BY DEF CredentialIInv, AccountTypes, AccountType, EmailType, SessionTrue, Stamp, CredentialTypeOK
  <2>2. SessionsAreCurrent
    BY DEF CredentialIInv, SessionTrue, ProofTrue, SessionsAreCurrent
  <2>3. LinksAreCurrent
    <3>1. \A u \in Persons : LinkHonest(u, "password-reset")
      BY DEF CredentialIInv, LinkHonest, Purposes
    <3>. QED BY <3>1 DEF LinkHonest, LinkTrue, Current, LinksAreCurrent
  <2>. QED BY <2>1, <2>2, <2>3 DEF CredentialIInv, AccountInv
<1>. QED BY <1>1, <1>2, <1>3, PTL DEF CredentialSpec

-----------------------------------------------------------------------------
(***************************************************************************)
(* RowLocks, for every set of transactions, accounts and tags and every    *)
(* workload of requests. A program is ordered so that it has locked a row  *)
(* before it relies on it, and no two transactions hold a row in           *)
(* conflicting modes; what a transaction has checked under a lock can then *)
(* only be changed by one that waits for it.                               *)
(***************************************************************************)
StepType == [do   : {"lock", "judge", "revision", "leaves", "preview", "impact", "roster"},
             row  : {"none", "users", "memberships", "grants", "token", "problem", "catalog", "tags",
                     "role"} \X Nat,
             mode : {"share", "update", "none"}]

Lock(t, st)      == [tx |-> t, row |-> st.row, mode |-> st.mode]
Todo(t)          == tx[t].todo
Quiet(todo, i, j) == \A k \in i..j : todo[k].do # "preview"

(* Before step j of what is left, the row of st is locked: by a step that  *)
(* comes before j, or since earlier, and kept.                             *)
Secured(todo, held, t, st, j) ==
    \/ Lock(t, st) \in held /\ Quiet(todo, 1, j - 1)
    \/ \E i \in 1..(j - 1) : todo[i] = st /\ Quiet(todo, i + 1, j - 1)

LEMMA SecuredMoves ==
    ASSUME NEW todo \in Seq(StepType), todo # <<>>, NEW held, NEW later, NEW t, NEW st,
           NEW j \in 1..Len(todo), Secured(todo, held, t, st, j + 1),
           todo[1] = st => Lock(t, st) \in later,
           todo[1].do # "preview" /\ Lock(t, st) \in held => Lock(t, st) \in later
    PROVE  Secured(Tail(todo), later, t, st, j)
<1>1. /\ Len(Tail(todo)) = Len(todo) - 1 /\ Len(todo) \in Nat
      /\ \A i \in 1..(Len(todo) - 1) : Tail(todo)[i] = todo[i + 1]
  OBVIOUS
<1>2. \A i \in Nat \ {0} : Quiet(todo, i + 1, j) => Quiet(Tail(todo), i, j - 1)
  <2>1. SUFFICES ASSUME NEW i \in Nat \ {0}, Quiet(todo, i + 1, j), NEW k \in i..(j - 1)
                 PROVE  Tail(todo)[k].do # "preview"
    BY DEF Quiet
  <2>2. k + 1 \in (i + 1)..j /\ k \in 1..(Len(todo) - 1)
    BY <1>1
  <2>. QED BY <1>1, <2>1, <2>2 DEF Quiet
<1>3. CASE Lock(t, st) \in held /\ Quiet(todo, 1, j)
  <2>1. todo[1].do # "preview" /\ Quiet(todo, 2, j)
    BY <1>3 DEF Quiet
  <2>2. Quiet(Tail(todo), 1, j - 1)
    BY <1>2, <2>1
  <2>. QED BY <1>3, <2>1, <2>2 DEF Secured
<1>4. CASE \E i \in 1..j : todo[i] = st /\ Quiet(todo, i + 1, j)
  <2>1. PICK i \in 1..j : todo[i] = st /\ Quiet(todo, i + 1, j)
    BY <1>4
  <2>2. Quiet(Tail(todo), i, j - 1)
    BY <1>2, <2>1
  <2>3. CASE i = 1
    BY <2>1, <2>2, <2>3 DEF Secured
  <2>4. CASE i # 1
    <3>1. i - 1 \in 1..(j - 1) /\ Tail(todo)[i - 1] = st
      BY <1>1, <2>1, <2>4
    <3>2. Quiet(Tail(todo), (i - 1) + 1, j - 1)
      BY <2>2
    <3>. QED BY <3>1, <3>2 DEF Secured
  <2>. QED BY <2>3, <2>4
<1>. QED BY <1>3, <1>4, SMTT(30) DEF Secured
-----------------------------------------------------------------------------
Judging   == JudgedUnderLock
Revisions == {"save", "override", "suggest", "history"}

(* The lock of the user row under which the permission is judged.          *)
UserLock(r) == IF r.kind \in {"complete", "authenticate"} THEN Share("users", r.actor)
                                                          ELSE Update("users", r.actor)

(* What a transaction must hold when it commits, whatever it found.        *)
Needs(r, saw) ==
    CASE r.kind \in {"delta", "remove", "disable"} -> {Update("users", r.target)}
      [] r.kind = "role"       -> {Update("role", 0)}
                                  \cup {Update("users", u) : u \in saw.members \cup r.members}
      [] r.kind \in Revisions  -> {Share("tags", 0)}
      [] r.kind = "deactivate" -> {Update("tags", 0)}
      [] OTHER -> {}

LastStep(r) ==
    CASE r.kind \in {"save", "suggest"} -> Check("leaves")
      [] r.kind = "deactivate" -> Check("impact")
      [] r.kind = "role"       -> Check("roster")
      [] r.kind = "remove"     -> Update("memberships", r.target)
      [] OTHER -> Check("none")

Ending == {"save", "suggest", "deactivate", "role", "remove"}

Membership(u) == Update("memberships", u)

(* The membership rows come after the row of the role.                     *)
RosterAhead(todo) ==
    \E i \in 1..Len(todo) : /\ todo[i] = Update("role", 0)
                            /\ \A u \in Users : \E j \in (i + 1)..Len(todo) : todo[j] = Membership(u)
RosterLocked(todo, held, t) ==
    /\ Lock(t, Update("role", 0)) \in held
    /\ \A u \in Users : \/ u \in rows => Lock(t, Membership(u)) \in held
                        \/ \E j \in 1..Len(todo) : todo[j] = Membership(u)

(* A program is ordered so that it has its locks when it needs them.       *)
Ordered(r, saw, todo, held, t) ==
    /\ todo \in Seq(StepType)
    /\ \A i \in 1..Len(todo) : todo[i].do = "preview" => r.kind = "deactivate"
    /\ r.kind \in Judging =>
           \A j \in 1..Len(todo) : todo[j].do = "judge" => Secured(todo, held, t, UserLock(r), j)
    /\ \A st \in Needs(r, saw) : Secured(todo, held, t, st, Len(todo) + 1)
    /\ r.kind \in Ending /\ todo # <<>> => todo[Len(todo)] = LastStep(r)
    /\ r.kind = "role" => RosterAhead(todo) \/ RosterLocked(todo, held, t)

(* What has been checked or found by the end is still so.                  *)
Concluded(t) ==
    LET r == Asked(t)
    IN /\ r.kind \in {"save", "suggest"} => r.tags \subseteq active
       /\ r.kind = "deactivate" => /\ r.replacement \subseteq active
                                   /\ tagged = {r.tag} => r.replacement # {}
       /\ r.kind = "role" => tx[t].saw.members = members
       /\ r.kind = "remove" /\ r.target \in rows => Lock(t, Membership(r.target)) \in locks

Judged(t) ==
    Asked(t).kind \in Judging /\ tx[t].judged =>
        Permitted(Asked(t).actor) /\ Lock(t, UserLock(Asked(t))) \in locks

Requested(r) == r \in Requests /\ (r.kind = "deactivate" => r.tag \notin r.replacement)

TxFacts(t) ==
    /\ tx[t] = [request |-> tx[t].request, saw |-> tx[t].saw, judged |-> tx[t].judged,
                todo |-> tx[t].todo]
    /\ Running(t) => /\ Requested(Asked(t)) /\ Ordered(Asked(t), tx[t].saw, Todo(t), locks, t)
                     /\ Judged(t)
                     /\ Asked(t).kind = "role" => tx[t].saw.members \subseteq Users
                     /\ Todo(t) = <<>> => Concluded(t)

Exclusion == \A k, l \in locks : k.tx # l.tx /\ k.row = l.row => "update" \notin {k.mode, l.mode}

World == /\ rows \subseteq Users /\ members \subseteq rows
         /\ tagged # {} /\ tagged \subseteq active
         /\ mix \in DOMAIN Workloads
         /\ tx = [t \in Tx |-> tx[t]]

LocksIInv == World /\ Exclusion /\ \A t \in Tx : TxFacts(t)
-----------------------------------------------------------------------------
(* In ascending order each account stands at its rank, and at each rank    *)
(* there is one.                                                           *)
LEMMA Ranks ==
    ASSUME NEW us \in SUBSET Users
    PROVE  /\ Cardinality(us) \in Nat
           /\ \A u \in us : Rank(us, u) \in 1..Cardinality(us) /\ SortedUsers[us][Rank(us, u)] = u
           /\ \A i \in 1..Cardinality(us) : SortedUsers[us][i] \in us
<1>. DEFINE upTo(u) == {v \in us : v <= u}
            n == Cardinality(us)
            rank == [u \in us |-> Rank(us, u)]
<1>1. IsFiniteSet(us) /\ n \in Nat /\ us \subseteq Nat
  BY RowLocksAssumption, FS_Subset, FS_CardinalityType DEF RowLocksAssumption
<1>2. \A u \in us : Rank(us, u) \in 1..n /\ IsFiniteSet(upTo(u)) /\ Rank(us, u) = Cardinality(upTo(u))
  <2>1. SUFFICES ASSUME NEW u \in us
                 PROVE  Rank(us, u) \in 1..n /\ IsFiniteSet(upTo(u)) /\ Rank(us, u) = Cardinality(upTo(u))
    OBVIOUS
  <2>2. upTo(u) \in SUBSET us /\ u \in upTo(u)
    BY <1>1
  <2>3. IsFiniteSet(upTo(u)) /\ Cardinality(upTo(u)) <= n
    BY <1>1, <2>2, FS_Subset
  <2>4. Cardinality(upTo(u)) \in Nat /\ Cardinality(upTo(u)) # 0
    BY <2>2, <2>3, FS_CardinalityType, FS_EmptySet
  <2>. QED BY <1>1, <2>3, <2>4 DEF Rank
<1>3. \A u, v \in us : u < v => Rank(us, u) # Rank(us, v)
  <2>1. SUFFICES ASSUME NEW u \in us, NEW v \in us, u < v
                 PROVE  Rank(us, u) # Rank(us, v)
    OBVIOUS
  <2>2. upTo(u) \in SUBSET upTo(v) /\ v \in upTo(v) /\ v \notin upTo(u)
    <3>1. u \in Nat /\ v \in Nat /\ v <= v /\ ~(v <= u)
      BY <1>1, <2>1
    <3>2. \A w \in us : w <= u => w <= v
      BY <1>1, <2>1, <3>1
    <3>. QED BY <3>1, <3>2
  <2>3. upTo(u) # upTo(v)
    BY <2>2
  <2>. QED BY <1>2, <2>2, <2>3, FS_Subset
<1>4. \A u, v \in us : Rank(us, u) = Rank(us, v) => u = v
  BY <1>1, <1>3
<1>5. rank \in Injection(us, 1..n)
  BY <1>2, <1>4 DEF Injection, IsInjective
<1>6. IsFiniteSet(1..n) /\ Cardinality(1..n) = n
  BY <1>1, FS_Interval
<1>7. rank \in Surjection(us, 1..n)
  BY <1>5, <1>6, FS_Injection
<1>8. \A i \in 1..n : \E u \in us : Rank(us, u) = i
  BY <1>7 DEF Surjection
<1>9. \A i \in 1..n : SortedUsers[us][i] = (CHOOSE u \in us : Rank(us, u) = i)
  BY DEF SortedUsers
<1>10. \A i \in 1..n : SortedUsers[us][i] \in us /\ Rank(us, SortedUsers[us][i]) = i
  BY <1>8, <1>9
<1>. QED BY <1>1, <1>2, <1>4, <1>10
-----------------------------------------------------------------------------
(* Steps of programs.                                                      *)
Tables == {"users", "memberships", "grants", "token", "problem", "catalog", "tags", "role"}

LEMMA StepTypes ==
    /\ \A table \in Tables, id \in Nat : Share(table, id) \in StepType /\ Update(table, id) \in StepType
    /\ \A what \in {"judge", "revision", "leaves", "preview", "impact", "roster"} :
          Check(what) \in StepType
BY DEF Tables, Share, Update, Check, StepType

LEMMA UsersAreNumbers == Users \subseteq Nat /\ Robots \subseteq Users /\ Humans \subseteq Users
BY RowLocksAssumption DEF RowLocksAssumption, Humans

NoPreview(todo)       == \A i \in 1..Len(todo) : todo[i].do # "preview"
JudgesAfter(todo, st) == \A j \in 1..Len(todo) : todo[j].do = "judge" => \E i \in 1..(j - 1) : todo[i] = st
Takes(todo, steps)    == \A st \in steps : \E i \in 1..Len(todo) : todo[i] = st

(* A program without a preview keeps each lock it took.                    *)
LEMMA PlainPrograms ==
    ASSUME NEW r, NEW saw, NEW held, NEW t, NEW todo \in Seq(StepType),
           NoPreview(todo), r.kind \in Judging => JudgesAfter(todo, UserLock(r)),
           Takes(todo, Needs(r, saw)),
           r.kind \in Ending => todo[Len(todo)] = LastStep(r),
           r.kind = "role" => RosterAhead(todo)
    PROVE  Ordered(r, saw, todo, held, t)
<1>1. ASSUME NEW st, NEW j \in 1..(Len(todo) + 1), \E i \in 1..(j - 1) : todo[i] = st
      PROVE  Secured(todo, held, t, st, j)
  <2>1. PICK i \in 1..(j - 1) : todo[i] = st
    BY <1>1
  <2>2. Quiet(todo, i + 1, j - 1)
    <3>1. \A k \in (i + 1)..(j - 1) : k \in 1..Len(todo)
      OBVIOUS
    <3>. QED BY <3>1 DEF Quiet, NoPreview
  <2>. QED BY <2>1, <2>2 DEF Secured
<1>2. r.kind \in Judging =>
          \A j \in 1..Len(todo) : todo[j].do = "judge" => Secured(todo, held, t, UserLock(r), j)
  BY <1>1 DEF JudgesAfter
<1>3. \A st \in Needs(r, saw) : Secured(todo, held, t, st, Len(todo) + 1)
  <2>1. Len(todo) + 1 \in 1..(Len(todo) + 1) /\ (Len(todo) + 1) - 1 = Len(todo)
    OBVIOUS
  <2>. QED BY <1>1, <2>1 DEF Takes
<1>. QED BY <1>2, <1>3 DEF Ordered, NoPreview

LEMMA RevisionPrograms ==
    ASSUME NEW r, Requested(r), r.kind \in Revisions, NEW saw, NEW held, NEW t
    PROVE  Ordered(r, saw, Program(r, saw), held, t) /\ Program(r, saw) # <<>>
<1>1. r.actor \in Nat
  BY UsersAreNumbers DEF Requested, Requests, Revisions
<1>2. Needs(r, saw) = {Share("tags", 0)}
  BY DEF Needs, Revisions
<1>3. UserLock(r) = Update("users", r.actor)
  BY DEF UserLock, Revisions
<1>4. CASE r.kind = "save"
  <2>1. PICK todo : todo = Program(r, saw)
    OBVIOUS
  <2>2. /\ Len(todo) = 6 /\ todo[1] = Share("catalog", 0) /\ todo[2] = Update("problem", 0)
        /\ todo[3] = Check("revision") /\ todo[4] = Share("users", r.actor)
        /\ todo[5] = Share("tags", 0) /\ todo[6] = Check("leaves")
    BY <1>4, <2>1 DEF Program, lockProblem, insertProblemRevision
  <2>3. todo \in Seq(StepType)
    BY <1>1, <1>4, <2>1, StepTypes DEF Program, lockProblem, insertProblemRevision, Tables
  <2>4. NoPreview(todo) /\ Takes(todo, Needs(r, saw))
    BY <1>2, <2>2 DEF Share, Update, Check, NoPreview, Takes
  <2>7. (r.kind \in Ending => todo[Len(todo)] = LastStep(r)) /\ todo # <<>>
    <3>1. r.kind \in Ending => LastStep(r) = Check("leaves")
      BY <1>4 DEF Ending, LastStep
    <3>2. r.kind \in Ending => todo[Len(todo)] = Check("leaves")
      BY <1>4, <2>2 DEF Ending
    <3>3. todo # <<>>
      <4>1. Len(todo) # 0
        BY <2>2
      <4>. QED BY <4>1
    <3>. QED BY <3>1, <3>2, <3>3
  <2>8. r.kind # "role" /\ (r.kind \in Judging => r.kind \notin {"save", "suggest", "disable"})
    BY <1>4 DEF Judging, JudgedUnderLock
  <2>9. Ordered(r, saw, todo, held, t)
    BY <1>4, <2>3, <2>4, <2>7, <2>8, PlainPrograms
  <2>. QED BY <2>1, <2>7, <2>9
<1>5. CASE r.kind = "override"
  <2>1. PICK todo : todo = Program(r, saw)
    OBVIOUS
  <2>2. /\ Len(todo) = 9 /\ todo[1] = Share("catalog", 0) /\ todo[2] = Update("problem", 0)
        /\ todo[3] = Update("users", r.actor) /\ todo[4] = Update("memberships", r.actor)
        /\ todo[5] = Update("grants", r.actor) /\ todo[6] = Check("judge")
        /\ todo[7] = Share("users", r.actor) /\ todo[8] = Share("tags", 0) /\ todo[9] = Check("leaves")
    BY <1>5, <2>1 DEF Program, lockProblem, insertProblemRevision, lockUserPolicyForAuthorization
  <2>3. todo \in Seq(StepType)
    BY <1>1, <1>5, <2>1, StepTypes
       DEF Program, lockProblem, insertProblemRevision, lockUserPolicyForAuthorization, Tables
  <2>4. \A i \in 1..Len(todo) : todo[i].do # "preview" /\ (todo[i].do = "judge" => i = 6)
    BY <2>2 DEF Share, Update, Check
  <2>5. JudgesAfter(todo, UserLock(r))
    BY <1>3, <2>2, <2>4 DEF JudgesAfter
  <2>6. Takes(todo, Needs(r, saw)) /\ NoPreview(todo)
    BY <1>2, <2>2, <2>4 DEF Takes, NoPreview
  <2>7. (r.kind \in Ending => todo[Len(todo)] = LastStep(r)) /\ todo # <<>>
    <3>1. r.kind \in Ending => LastStep(r) = Check("leaves")
      BY <1>5 DEF Ending, LastStep
    <3>2. r.kind \in Ending => todo[Len(todo)] = Check("leaves")
      BY <1>5, <2>2 DEF Ending
    <3>3. todo # <<>>
      <4>1. Len(todo) # 0
        BY <2>2
      <4>. QED BY <4>1
    <3>. QED BY <3>1, <3>2, <3>3
  <2>8. r.kind # "role" /\ (r.kind \in Judging => r.kind \notin {"save", "suggest", "disable"})
    BY <1>5 DEF Judging, JudgedUnderLock
  <2>9. Ordered(r, saw, todo, held, t)
    BY <1>5, <2>3, <2>4, <2>5, <2>6, <2>7, <2>8, PlainPrograms
  <2>. QED BY <2>1, <2>7, <2>9
<1>6. CASE r.kind = "suggest"
  <2>1. PICK todo : todo = Program(r, saw)
    OBVIOUS
  <2>2. /\ Len(todo) = 7 /\ todo[1] = Share("catalog", 0) /\ todo[2] = Update("problem", 0)
        /\ todo[3] = Check("judge") /\ todo[4] = Check("leaves") /\ todo[5] = Share("users", r.actor)
        /\ todo[6] = Share("tags", 0) /\ todo[7] = Check("leaves")
    BY <1>6, <2>1 DEF Program, lockProblem, insertProblemRevision
  <2>3. todo \in Seq(StepType)
    BY <1>1, <1>6, <2>1, StepTypes DEF Program, lockProblem, insertProblemRevision, Tables
  <2>4. NoPreview(todo) /\ Takes(todo, Needs(r, saw))
    BY <1>2, <2>2 DEF Share, Update, Check, NoPreview, Takes
  <2>7. (r.kind \in Ending => todo[Len(todo)] = LastStep(r)) /\ todo # <<>>
    <3>1. r.kind \in Ending => LastStep(r) = Check("leaves")
      BY <1>6 DEF Ending, LastStep
    <3>2. r.kind \in Ending => todo[Len(todo)] = Check("leaves")
      BY <1>6, <2>2 DEF Ending
    <3>3. todo # <<>>
      <4>1. Len(todo) # 0
        BY <2>2
      <4>. QED BY <4>1
    <3>. QED BY <3>1, <3>2, <3>3
  <2>8. r.kind # "role" /\ (r.kind \in Judging => r.kind \notin {"save", "suggest", "disable"})
    BY <1>6 DEF Judging, JudgedUnderLock
  <2>9. Ordered(r, saw, todo, held, t)
    BY <1>6, <2>3, <2>4, <2>7, <2>8, PlainPrograms
  <2>. QED BY <2>1, <2>7, <2>9
<1>7. CASE r.kind = "history"
  <2>1. PICK todo : todo = Program(r, saw)
    OBVIOUS
  <2>2. /\ Len(todo) = 9 /\ todo[1] = Update("users", r.actor)
        /\ todo[2] = Update("memberships", r.actor) /\ todo[3] = Update("grants", r.actor)
        /\ todo[4] = Check("judge") /\ todo[5] = Share("catalog", 0) /\ todo[6] = Update("problem", 0)
        /\ todo[7] = Share("users", r.actor) /\ todo[8] = Share("tags", 0) /\ todo[9] = Check("leaves")
    BY <1>7, <2>1 DEF Program, lockProblem, insertProblemRevision, lockUserPolicyForAuthorization
  <2>3. todo \in Seq(StepType)
    BY <1>1, <1>7, <2>1, StepTypes
       DEF Program, lockProblem, insertProblemRevision, lockUserPolicyForAuthorization, Tables
  <2>4. \A i \in 1..Len(todo) : todo[i].do # "preview" /\ (todo[i].do = "judge" => i = 4)
    BY <2>2 DEF Share, Update, Check
  <2>5. JudgesAfter(todo, UserLock(r))
    BY <1>3, <2>2, <2>4 DEF JudgesAfter
  <2>6. Takes(todo, Needs(r, saw)) /\ NoPreview(todo)
    BY <1>2, <2>2, <2>4 DEF Takes, NoPreview
  <2>7. (r.kind \in Ending => todo[Len(todo)] = LastStep(r)) /\ todo # <<>>
    <3>1. r.kind \in Ending => LastStep(r) = Check("leaves")
      BY <1>7 DEF Ending, LastStep
    <3>2. r.kind \in Ending => todo[Len(todo)] = Check("leaves")
      BY <1>7, <2>2 DEF Ending
    <3>3. todo # <<>>
      <4>1. Len(todo) # 0
        BY <2>2
      <4>. QED BY <4>1
    <3>. QED BY <3>1, <3>2, <3>3
  <2>8. r.kind # "role" /\ (r.kind \in Judging => r.kind \notin {"save", "suggest", "disable"})
    BY <1>7 DEF Judging, JudgedUnderLock
  <2>9. Ordered(r, saw, todo, held, t)
    BY <1>7, <2>3, <2>4, <2>5, <2>6, <2>7, <2>8, PlainPrograms
  <2>. QED BY <2>1, <2>7, <2>9
<1>. QED BY <1>4, <1>5, <1>6, <1>7 DEF Revisions

(* The programs that lock the rows of one account, and write no revision.  *)
LEMMA ShortPrograms ==
    ASSUME NEW r, Requested(r), r.kind \in {"complete", "authenticate", "restore", "disable"},
           NEW saw, NEW held, NEW t
    PROVE  Ordered(r, saw, Program(r, saw), held, t) /\ Program(r, saw) # <<>>
<1>1. r.kind # "disable" => r.actor \in Nat
  BY UsersAreNumbers DEF Requested, Requests
<1>2. CASE r.kind = "complete"
  <2>1. PICK todo : todo = Program(r, saw)
    OBVIOUS
  <2>2. /\ Len(todo) = 7 /\ todo[1] = Share("catalog", 0) /\ todo[2] = Update("problem", 0)
        /\ todo[3] = Share("users", r.actor) /\ todo[4] = Share("token", r.actor)
        /\ todo[5] = Share("memberships", r.actor) /\ todo[6] = Share("grants", r.actor)
        /\ todo[7] = Check("judge")
    BY <1>2, <2>1 DEF Program, lockProblem, revalidateIdentity
  <2>3. todo \in Seq(StepType)
    BY <1>1, <1>2, <2>1, StepTypes DEF Program, lockProblem, revalidateIdentity, Tables
  <2>4. \A i \in 1..Len(todo) : todo[i].do # "preview" /\ (todo[i].do = "judge" => i = 7)
    BY <2>2 DEF Share, Update, Check
  <2>5. JudgesAfter(todo, UserLock(r))
    BY <1>2, <2>2, <2>4 DEF UserLock, JudgesAfter
  <2>6. Takes(todo, Needs(r, saw)) /\ NoPreview(todo)
    BY <1>2, <2>4 DEF Needs, Revisions, Takes, NoPreview
  <2>7. (r.kind \in Ending => todo[Len(todo)] = LastStep(r)) /\ todo # <<>>
    BY <1>2, <2>2, SMTT(30) DEF Ending, LastStep
  <2>8. r.kind # "role" /\ (r.kind \in Judging => r.kind \notin {"save", "suggest", "disable"})
    BY <1>2 DEF Judging, JudgedUnderLock
  <2>9. Ordered(r, saw, todo, held, t)
    BY <1>2, <2>3, <2>4, <2>5, <2>6, <2>7, <2>8, PlainPrograms
  <2>. QED BY <2>1, <2>7, <2>9
<1>3. CASE r.kind = "authenticate"
  <2>1. PICK todo : todo = Program(r, saw)
    OBVIOUS
  <2>2. /\ Len(todo) = 5 /\ todo[1] = Share("users", r.actor) /\ todo[2] = Update("token", r.actor)
        /\ todo[3] = Update("memberships", r.actor) /\ todo[4] = Update("grants", r.actor)
        /\ todo[5] = Check("judge")
    BY <1>3, <2>1 DEF Program
  <2>3. todo \in Seq(StepType)
    BY <1>1, <1>3, <2>1, StepTypes DEF Program, Tables
  <2>4. \A i \in 1..Len(todo) : todo[i].do # "preview" /\ (todo[i].do = "judge" => i = 5)
    BY <2>2 DEF Share, Update, Check
  <2>5. JudgesAfter(todo, UserLock(r))
    BY <1>3, <2>2, <2>4 DEF UserLock, JudgesAfter
  <2>6. Takes(todo, Needs(r, saw)) /\ NoPreview(todo)
    BY <1>3, <2>4 DEF Needs, Revisions, Takes, NoPreview
  <2>7. (r.kind \in Ending => todo[Len(todo)] = LastStep(r)) /\ todo # <<>>
    BY <1>3, <2>2 DEF Ending, LastStep
  <2>8. r.kind # "role" /\ (r.kind \in Judging => r.kind \notin {"save", "suggest", "disable"})
    BY <1>3 DEF Judging, JudgedUnderLock
  <2>9. Ordered(r, saw, todo, held, t)
    BY <1>3, <2>3, <2>4, <2>5, <2>6, <2>7, <2>8, PlainPrograms
  <2>. QED BY <2>1, <2>7, <2>9
<1>4. CASE r.kind = "restore"
  <2>1. PICK todo : todo = Program(r, saw)
    OBVIOUS
  <2>2. /\ Len(todo) = 6 /\ todo[1] = Update("catalog", 0) /\ todo[2] = Update("users", r.actor)
        /\ todo[3] = Update("memberships", r.actor) /\ todo[4] = Update("grants", r.actor)
        /\ todo[5] = Check("judge") /\ todo[6] = Update("tags", 0)
    BY <1>4, <2>1 DEF Program, lockManagingActor, lockUserPolicyForAuthorization
  <2>3. todo \in Seq(StepType)
    BY <1>1, <1>4, <2>1, StepTypes
       DEF Program, lockManagingActor, lockUserPolicyForAuthorization, Tables
  <2>4. \A i \in 1..Len(todo) : todo[i].do # "preview" /\ (todo[i].do = "judge" => i = 5)
    BY <2>2 DEF Share, Update, Check
  <2>5. JudgesAfter(todo, UserLock(r))
    BY <1>4, <2>2, <2>4 DEF UserLock, JudgesAfter
  <2>6. Takes(todo, Needs(r, saw)) /\ NoPreview(todo)
    BY <1>4, <2>4 DEF Needs, Revisions, Takes, NoPreview
  <2>7. (r.kind \in Ending => todo[Len(todo)] = LastStep(r)) /\ todo # <<>>
    <3>1. r.kind \in Ending => LastStep(r) = Check("leaves")
      BY <1>4 DEF Ending, LastStep
    <3>2. r.kind \in Ending => todo[Len(todo)] = Check("leaves")
      BY <1>4, <2>2 DEF Ending
    <3>3. todo # <<>>
      <4>1. Len(todo) # 0
        BY <2>2
      <4>. QED BY <4>1
    <3>. QED BY <3>1, <3>2, <3>3
  <2>8. r.kind # "role" /\ (r.kind \in Judging => r.kind \notin {"save", "suggest", "disable"})
    BY <1>4 DEF Judging, JudgedUnderLock
  <2>9. Ordered(r, saw, todo, held, t)
    BY <1>4, <2>3, <2>4, <2>5, <2>6, <2>7, <2>8, PlainPrograms
  <2>. QED BY <2>1, <2>7, <2>9
<1>5. CASE r.kind = "disable"
  <2>1. PICK todo : todo = Program(r, saw)
    OBVIOUS
  <2>2. /\ Len(todo) = 2 /\ todo[1] = Update("users", r.target) /\ todo[2] = Update("token", r.target)
    BY <1>5, <2>1 DEF Program
  <2>3. r.target \in Nat
    BY <1>5, UsersAreNumbers DEF Requested, Requests
  <2>4. todo \in Seq(StepType)
    BY <1>5, <2>1, <2>3, StepTypes DEF Program, Tables
  <2>5. \A i \in 1..Len(todo) : todo[i].do # "preview"
    BY <2>2 DEF Share, Update, Check
  <2>6. Takes(todo, Needs(r, saw)) /\ NoPreview(todo)
    BY <1>5, <2>2, <2>5 DEF Needs, Revisions, Takes, NoPreview
  <2>7. (r.kind \in Ending => todo[Len(todo)] = LastStep(r)) /\ todo # <<>>
    <3>1. r.kind \in Ending => LastStep(r) = Check("leaves")
      BY <1>5 DEF Ending, LastStep
    <3>2. r.kind \in Ending => todo[Len(todo)] = Check("leaves")
      BY <1>5, <2>2 DEF Ending
    <3>3. todo # <<>>
      <4>1. Len(todo) # 0
        BY <2>2
      <4>. QED BY <4>1
    <3>. QED BY <3>1, <3>2, <3>3
  <2>8. r.kind # "role" /\ (r.kind \in Judging => r.kind \notin {"save", "suggest", "disable"})
    BY <1>5 DEF Judging, JudgedUnderLock
  <2>9. Ordered(r, saw, todo, held, t)
    BY <1>5, <2>4, <2>6, <2>7, <2>8, PlainPrograms
  <2>. QED BY <2>1, <2>7, <2>9
<1>. QED BY <1>2, <1>3, <1>4, <1>5

LEMMA Concatenation ==
    ASSUME NEW s \in Seq(StepType), NEW u \in Seq(StepType)
    PROVE  /\ s \o u \in Seq(StepType) /\ Len(s \o u) = Len(s) + Len(u)
           /\ Len(s) \in Nat /\ Len(u) \in Nat
           /\ \A i \in 1..Len(s) : (s \o u)[i] = s[i]
           /\ \A i \in 1..Len(u) : (s \o u)[Len(s) + i] = u[i]
OBVIOUS

LEMMA Triples ==
    ASSUME NEW a \in StepType, NEW b \in StepType, NEW c \in StepType, NEW s, s = <<a, b, c>>
    PROVE  s \in Seq(StepType) /\ Len(s) = 3 /\ s[1] = a /\ s[2] = b /\ s[3] = c
OBVIOUS

(* Three more steps.                                                       *)
LEMMA Append3 ==
    ASSUME NEW s \in Seq(StepType), NEW a \in StepType, NEW b \in StepType, NEW c \in StepType,
           NEW u, u = <<a, b, c>>, NEW todo, todo = s \o u, NEW n, n = Len(s)
    PROVE  /\ todo \in Seq(StepType) /\ n \in Nat /\ Len(todo) = n + 3
           /\ \A i \in 1..n : todo[i] = s[i]
           /\ todo[n + 1] = a /\ todo[n + 2] = b /\ todo[n + 3] = c
<1>1. u \in Seq(StepType) /\ Len(u) = 3 /\ u[1] = a /\ u[2] = b /\ u[3] = c
  BY Triples
<1>2. /\ todo \in Seq(StepType) /\ Len(todo) = n + Len(u) /\ n \in Nat
      /\ \A i \in 1..n : todo[i] = s[i]
      /\ \A i \in 1..Len(u) : todo[n + i] = u[i]
  BY <1>1, Concatenation
<1>3. 1 \in 1..3 /\ 2 \in 1..3 /\ 3 \in 1..3
  OBVIOUS
<1>4. todo[n + 1] = u[1] /\ todo[n + 2] = u[2] /\ todo[n + 3] = u[3]
  BY <1>1, <1>2, <1>3
<1>. QED BY <1>1, <1>2, <1>4

LEMMA LockedUsers ==
    ASSUME NEW us \in SUBSET Users
    PROVE  /\ LockUsers(us) \in Seq(StepType) /\ Len(LockUsers(us)) \in Nat
           /\ \A i \in 1..Len(LockUsers(us)) : LockUsers(us)[i].do = "lock"
           /\ \A u \in us : \E i \in 1..Len(LockUsers(us)) : LockUsers(us)[i] = Update("users", u)
<1>1. PICK n : n = Cardinality(us)
  OBVIOUS
<1>2. /\ n \in Nat /\ \A i \in 1..n : SortedUsers[us][i] \in Nat
      /\ \A u \in us : Rank(us, u) \in 1..n /\ SortedUsers[us][Rank(us, u)] = u
  BY <1>1, Ranks, UsersAreNumbers
<1>3. PICK todo : todo = LockUsers(us)
  OBVIOUS
<1>4. todo = [i \in 1..n |-> Update("users", SortedUsers[us][i])]
  BY <1>1, <1>3 DEF LockUsers
<1>5. \A i \in 1..n : Update("users", SortedUsers[us][i]) \in StepType
  BY <1>2, StepTypes DEF Tables
<1>6. todo \in Seq(StepType) /\ Len(todo) = n
  BY <1>2, <1>4, <1>5
<1>7. \A i \in 1..Len(todo) : todo[i].do = "lock"
  BY <1>4, <1>6 DEF Update
<1>8. \A u \in us : todo[Rank(us, u)] = Update("users", u)
  BY <1>2, <1>4
<1>. QED BY <1>2, <1>3, <1>6, <1>7, <1>8

LEMMA RemovalProgram ==
    ASSUME NEW r, Requested(r), r.kind = "remove", NEW saw, NEW held, NEW t
    PROVE  Ordered(r, saw, Program(r, saw), held, t) /\ Program(r, saw) # <<>>
<1>0. PICK L, A, B, c :
         /\ c = Len(L)
         /\ L = LockUsers({r.actor, r.target})
         /\ A = lockUserPolicyForAuthorization(r.actor)
         /\ B = <<Check("judge"), Update("problem", 0), Update("memberships", r.target)>>
  OBVIOUS
<1>1. r.actor \in Users /\ r.target \in Users
  BY UsersAreNumbers DEF Requested, Requests
<1>2. /\ L \in Seq(StepType) /\ c \in Nat /\ \A i \in 1..c : L[i].do = "lock"
      /\ \A u \in {r.actor, r.target} : \E i \in 1..c : L[i] = Update("users", u)
      /\ c = Len(L)
  BY <1>0, <1>1, LockedUsers
<1>3. /\ Update("users", r.actor) \in StepType /\ Update("memberships", r.actor) \in StepType
      /\ Update("grants", r.actor) \in StepType /\ Check("judge") \in StepType
      /\ Update("problem", 0) \in StepType /\ Update("memberships", r.target) \in StepType
  BY <1>1, StepTypes, UsersAreNumbers DEF Tables
<1>5. PICK left : left = L \o A
  OBVIOUS
<1>6. /\ left \in Seq(StepType) /\ Len(left) = c + 3 /\ \A i \in 1..c : left[i] = L[i]
      /\ left[c + 1] = Update("users", r.actor) /\ left[c + 2] = Update("memberships", r.actor)
      /\ left[c + 3] = Update("grants", r.actor)
  <2>1. PICK x \in StepType, y \in StepType, z \in StepType :
           x = Update("users", r.actor) /\ y = Update("memberships", r.actor) /\ z = Update("grants", r.actor)
    BY <1>3
  <2>2. PICK u : u = A /\ u = <<x, y, z>>
    BY <1>0, <2>1 DEF lockUserPolicyForAuthorization
  <2>3. L \in Seq(StepType) /\ left = L \o u /\ c = Len(L)
    BY <1>2, <1>5, <2>2
  <2>4. /\ left \in Seq(StepType) /\ Len(left) = c + 3 /\ \A i \in 1..c : left[i] = L[i]
        /\ left[c + 1] = x /\ left[c + 2] = y /\ left[c + 3] = z
    BY <2>2, <2>3, Append3
  <2>. QED BY <2>1, <2>4
<1>7. PICK todo : todo = left \o B
  OBVIOUS
<1>8. /\ todo \in Seq(StepType) /\ Len(todo) = c + 6 /\ \A i \in 1..(c + 3) : todo[i] = left[i]
      /\ todo[c + 4] = Check("judge") /\ todo[c + 5] = Update("problem", 0)
      /\ todo[c + 6] = Update("memberships", r.target)
  <2>1. PICK n : n = Len(left)
    OBVIOUS
  <2>2. /\ todo \in Seq(StepType) /\ Len(todo) = n + 3 /\ \A i \in 1..n : todo[i] = left[i]
        /\ todo[n + 1] = Check("judge") /\ todo[n + 2] = Update("problem", 0)
        /\ todo[n + 3] = Update("memberships", r.target)
    <3>1. PICK x \in StepType, y \in StepType, z \in StepType :
             x = Check("judge") /\ y = Update("problem", 0) /\ z = Update("memberships", r.target)
      BY <1>3
    <3>2. PICK u : u = B /\ u = <<x, y, z>>
      BY <1>0, <3>1
    <3>3. left \in Seq(StepType) /\ todo = left \o u
      BY <1>6, <1>7, <3>2
    <3>4. /\ todo \in Seq(StepType) /\ Len(todo) = n + 3 /\ \A i \in 1..n : todo[i] = left[i]
          /\ todo[n + 1] = x /\ todo[n + 2] = y /\ todo[n + 3] = z
      BY <2>1, <3>2, <3>3, Append3
    <3>. QED BY <3>1, <3>4
  <2>3. n = c + 3 /\ n + 1 = c + 4 /\ n + 2 = c + 5 /\ n + 3 = c + 6
    BY <1>2, <1>6, <2>1
  <2>. QED BY <2>2, <2>3
<1>9. todo = Program(r, saw)
  BY <1>0, <1>5, <1>7 DEF Program
<1>10. \A i \in 1..Len(todo) : \/ i \in 1..c /\ todo[i].do = "lock"
                               \/ i \in {c + 1, c + 2, c + 3, c + 5, c + 6} /\ todo[i].do = "lock"
                               \/ i = c + 4 /\ todo[i].do = "judge"
  <2>1. \A i \in 1..c : todo[i].do = "lock"
    BY <1>2, <1>6, <1>8
  <2>2. todo[c + 1].do = "lock" /\ todo[c + 2].do = "lock" /\ todo[c + 3].do = "lock"
    <3>1. c + 1 \in 1..(c + 3) /\ c + 2 \in 1..(c + 3) /\ c + 3 \in 1..(c + 3)
      BY <1>2
    <3>. QED BY <1>6, <1>8, <3>1 DEF Update
  <2>3. todo[c + 4].do = "judge" /\ todo[c + 5].do = "lock" /\ todo[c + 6].do = "lock"
    BY <1>8 DEF Update, Check
  <2>4. \A i \in 1..Len(todo) : i \in 1..c \/ i \in {c + 1, c + 2, c + 3, c + 4, c + 5, c + 6}
    <3>1. c \in Nat /\ Len(todo) = c + 6
      BY <1>2, <1>8
    <3>. QED BY <3>1
  <2>. QED BY <2>1, <2>2, <2>3, <2>4
<1>11. NoPreview(todo)
  BY <1>10 DEF NoPreview
<1>12. JudgesAfter(todo, UserLock(r))
  <2>1. UserLock(r) = Update("users", r.actor) /\ todo[c + 1] = Update("users", r.actor)
    <3>1. c + 1 \in 1..(c + 3)
      BY <1>2
    <3>. QED BY <1>6, <1>8, <3>1 DEF UserLock
  <2>2. \A j \in 1..Len(todo) : todo[j].do = "judge" => j = c + 4
    BY <1>10
  <2>3. c + 1 \in 1..((c + 4) - 1)
    BY <1>2
  <2>. QED BY <2>1, <2>2, <2>3 DEF JudgesAfter
<1>13. Takes(todo, Needs(r, saw))
  <2>1. Needs(r, saw) = {Update("users", r.target)}
    BY DEF Needs, Revisions
  <2>2. PICK i \in 1..c : L[i] = Update("users", r.target)
    BY <1>2
  <2>3. i \in 1..Len(todo) /\ todo[i] = Update("users", r.target)
    BY <1>2, <1>6, <1>8, <2>2
  <2>. QED BY <2>1, <2>3 DEF Takes
<1>14. todo[Len(todo)] = LastStep(r) /\ todo # <<>>
  <2>1. Len(todo) # 0 /\ todo[Len(todo)] = Update("memberships", r.target)
    BY <1>2, <1>8
  <2>. QED BY <2>1 DEF LastStep
<1>15. Ordered(r, saw, todo, held, t)
  BY <1>8, <1>11, <1>12, <1>13, <1>14, PlainPrograms
<1>. QED BY <1>9, <1>14, <1>15

LEMMA DeltaProgram ==
    ASSUME NEW r, Requested(r), r.kind = "delta", r.target # r.actor, NEW saw, NEW held, NEW t
    PROVE  Ordered(r, saw, Program(r, saw), held, t) /\ Program(r, saw) # <<>>
<1>1. r.actor \in Users /\ r.target \in Users
  BY UsersAreNumbers DEF Requested, Requests
<1>2. PICK us : us = {r.actor, r.target}
  OBVIOUS
<1>3. us \in SUBSET Users /\ Cardinality(us) = 2
  <2>1. us = {r.actor} \cup {r.target} /\ r.target \notin {r.actor}
    BY <1>2
  <2>2. IsFiniteSet({r.actor}) /\ Cardinality({r.actor}) = 1
    BY FS_Singleton
  <2>. QED BY <1>1, <1>2, <2>1, <2>2, FS_AddElement
<1>4. PICK u : u = SortedUsers[us][1]
  OBVIOUS
<1>5. PICK v : v = SortedUsers[us][2]
  OBVIOUS
<1>6. u \in Nat /\ v \in Nat /\ \A w \in us : w \in {u, v}
  <2>1. 1 \in 1..2 /\ 2 \in 1..2 /\ \A i \in 1..2 : i \in {1, 2}
    OBVIOUS
  <2>2. u \in us /\ v \in us /\ \A w \in us : Rank(us, w) \in 1..2 /\ SortedUsers[us][Rank(us, w)] = w
    BY <1>3, <1>4, <1>5, <2>1, Ranks
  <2>. QED BY <1>3, <1>4, <1>5, <2>1, <2>2, UsersAreNumbers
<1>7. PICK todo : todo = Program(r, saw)
  BY SMTT(30)
<1>8. todo = lockUserPolicyForAuthorization(u) \o lockUserPolicyForAuthorization(v) \o <<Check("judge")>>
  BY <1>2, <1>4, <1>5, <1>7 DEF Program
<1>9. /\ Len(todo) = 7 /\ todo[1] = Update("users", u) /\ todo[2] = Update("memberships", u)
      /\ todo[3] = Update("grants", u) /\ todo[4] = Update("users", v)
      /\ todo[5] = Update("memberships", v) /\ todo[6] = Update("grants", v) /\ todo[7] = Check("judge")
  BY <1>8 DEF lockUserPolicyForAuthorization
<1>10. todo \in Seq(StepType)
  BY <1>6, <1>8, StepTypes DEF lockUserPolicyForAuthorization, Tables
<1>11. \A i \in 1..Len(todo) : todo[i].do # "preview" /\ (todo[i].do = "judge" => i = 7)
  BY <1>9 DEF Update, Check
<1>12. \A w \in us : todo[1] = Update("users", w) \/ todo[4] = Update("users", w)
  BY <1>6, <1>9
<1>13. JudgesAfter(todo, UserLock(r))
  <2>1. UserLock(r) = Update("users", r.actor)
    BY DEF UserLock
  <2>2. \E i \in 1..(7 - 1) : todo[i] = UserLock(r)
    BY <1>2, <1>12, <2>1
  <2>. QED BY <1>11, <2>2 DEF JudgesAfter
<1>14. Takes(todo, Needs(r, saw)) /\ NoPreview(todo)
  <2>1. Needs(r, saw) = {Update("users", r.target)}
    BY DEF Needs, Revisions
  <2>2. \E i \in 1..Len(todo) : todo[i] = Update("users", r.target)
    BY <1>2, <1>9, <1>12
  <2>. QED BY <1>11, <2>1, <2>2 DEF Takes, NoPreview
<1>15. r.kind \notin Ending /\ Len(todo) # 0
  BY <1>9 DEF Ending
<1>16. Ordered(r, saw, todo, held, t)
  BY <1>10, <1>13, <1>14, <1>15, PlainPrograms
<1>. QED BY <1>7, <1>15, <1>16

LEMMA Joined ==
    \A s, u \in Seq(StepType) : \A todo, n, m :
        todo = s \o u /\ n = Len(s) /\ m = Len(u) =>
            /\ todo \in Seq(StepType) /\ Len(todo) = n + m /\ n \in Nat /\ m \in Nat
            /\ \A i \in 1..n : todo[i] = s[i]
            /\ \A i \in 1..m : todo[n + i] = u[i]
BY Concatenation

LEMMA LockedMemberships ==
    ASSUME NEW todo, todo = [i \in 1..Cardinality(Users) |-> Update("memberships", SortedUsers[Users][i])]
    PROVE  /\ todo \in Seq(StepType) /\ Len(todo) \in Nat
           /\ \A i \in 1..Len(todo) : todo[i].do = "lock"
           /\ \A u \in Users : \E i \in 1..Len(todo) : todo[i] = Membership(u)
<1>1. PICK n : n = Cardinality(Users)
  OBVIOUS
<1>2. /\ n \in Nat /\ \A i \in 1..n : SortedUsers[Users][i] \in Nat
      /\ \A u \in Users : Rank(Users, u) \in 1..n /\ SortedUsers[Users][Rank(Users, u)] = u
  BY <1>1, Ranks, UsersAreNumbers
<1>3. \A i \in 1..n : Update("memberships", SortedUsers[Users][i]) \in StepType
  BY <1>2, StepTypes DEF Tables
<1>4. todo \in Seq(StepType) /\ Len(todo) = n
  BY <1>1, <1>2, <1>3
<1>5. \A i \in 1..Len(todo) : todo[i].do = "lock"
  BY <1>1, <1>4 DEF Update
<1>6. \A u \in Users : todo[Rank(Users, u)] = Membership(u)
  BY <1>1, <1>2 DEF Membership
<1>. QED BY <1>2, <1>4, <1>5, <1>6

LEMMA RoleProgram ==
    ASSUME NEW r, Requested(r), r.kind = "role", NEW saw, saw.members \subseteq Users, NEW held, NEW t
    PROVE  Ordered(r, saw, Program(r, saw), held, t) /\ Program(r, saw) # <<>>
<1>1. PICK us : us = {r.actor} \cup saw.members \cup r.members
  OBVIOUS
<1>2. us \in SUBSET Users
  BY <1>1, UsersAreNumbers DEF Requested, Requests
<1>3. PICK L, J, H, M, C, a, b :
         /\ L = LockUsers(us) /\ J = <<Check("judge")>>
         /\ H = <<Update("role", 0), Update("grants", 0)>>
         /\ M = [i \in 1..Cardinality(Users) |-> Update("memberships", SortedUsers[Users][i])]
         /\ C = <<Check("roster")>> /\ a = Len(L) /\ b = Len(M)
  OBVIOUS
<1>4. /\ L \in Seq(StepType) /\ a \in Nat /\ \A i \in 1..a : L[i].do = "lock"
      /\ \A u \in us : \E i \in 1..a : L[i] = Update("users", u)
  BY <1>2, <1>3, LockedUsers
<1>5. /\ M \in Seq(StepType) /\ b \in Nat /\ \A i \in 1..b : M[i].do = "lock"
      /\ \A u \in Users : \E i \in 1..b : M[i] = Membership(u)
  BY <1>3, LockedMemberships
<1>6. /\ J \in Seq(StepType) /\ Len(J) = 1 /\ J[1] = Check("judge")
      /\ H \in Seq(StepType) /\ Len(H) = 2 /\ H[1] = Update("role", 0) /\ H[2] = Update("grants", 0)
      /\ C \in Seq(StepType) /\ Len(C) = 1 /\ C[1] = Check("roster")
  <2>1. /\ Check("judge") \in StepType /\ Check("roster") \in StepType
        /\ Update("role", 0) \in StepType /\ Update("grants", 0) \in StepType
    BY StepTypes DEF Tables
  <2>. QED BY <1>3, <2>1
<1>7. PICK left, middle, right, todo :
         left = L \o J /\ middle = H \o M /\ right = middle \o C /\ todo = left \o right
  OBVIOUS
<1>8. todo = Program(r, saw)
  BY <1>1, <1>3, <1>7 DEF Program, lockRoleState
<1>9. /\ left \in Seq(StepType) /\ Len(left) = a + 1 /\ \A i \in 1..a : left[i] = L[i]
      /\ left[a + 1] = Check("judge")
  <2>1. left \in Seq(StepType) /\ Len(left) = a + 1 /\ \A i \in 1..a : left[i] = L[i]
    BY <1>3, <1>4, <1>6, <1>7, Concatenation
  <2>2. \A i \in 1..1 : left[a + i] = J[i]
    BY <1>3, <1>4, <1>6, <1>7, Concatenation
  <2>. QED BY <1>6, <2>1, <2>2
<1>10. /\ middle \in Seq(StepType) /\ Len(middle) = b + 2 /\ middle[1] = H[1] /\ middle[2] = H[2]
       /\ \A i \in 1..b : middle[2 + i] = M[i]
  <2>1. /\ middle \in Seq(StepType) /\ Len(middle) = b + 2 /\ \A i \in 1..2 : middle[i] = H[i]
        /\ \A i \in 1..b : middle[2 + i] = M[i]
    <3>1. PICK n, m : n = Len(H) /\ m = Len(M)
      OBVIOUS
    <3>2. H \in Seq(StepType) /\ M \in Seq(StepType) /\ middle = H \o M
      BY <1>5, <1>6, <1>7
    <3>3. /\ middle \in Seq(StepType) /\ Len(middle) = n + m
          /\ \A i \in 1..n : middle[i] = H[i]
          /\ \A i \in 1..m : middle[n + i] = M[i]
      BY <3>1, <3>2, Joined
    <3>4. n = 2 /\ m = b
      BY <1>3, <1>6, <3>1
    <3>5. middle \in Seq(StepType) /\ Len(middle) = 2 + b
      BY <3>3, <3>4
    <3>6. (\A i \in 1..2 : middle[i] = H[i]) /\ \A i \in 1..b : middle[2 + i] = M[i]
      BY <3>3, <3>4
    <3>. QED BY <1>5, <3>5, <3>6
  <2>. QED BY <2>1
<1>11. /\ right \in Seq(StepType) /\ Len(right) = b + 3 /\ right[1] = Update("role", 0)
       /\ right[2] = Update("grants", 0) /\ \A i \in 1..b : right[2 + i] = M[i]
       /\ right[b + 3] = Check("roster")
  <2>8. PICK m : m = b + 2
    OBVIOUS
  <2>9. /\ right \in Seq(StepType) /\ Len(right) = m + 1 /\ \A i \in 1..m : right[i] = middle[i]
        /\ \A i \in 1..1 : right[m + i] = C[i]
    <3>1. PICK n, k : n = Len(middle) /\ k = Len(C)
      OBVIOUS
    <3>2. middle \in Seq(StepType) /\ C \in Seq(StepType) /\ right = middle \o C
      BY <1>6, <1>7, <1>10
    <3>3. /\ right \in Seq(StepType) /\ Len(right) = n + k /\ \A i \in 1..n : right[i] = middle[i]
          /\ \A i \in 1..k : right[n + i] = C[i]
      BY <3>1, <3>2, Joined
    <3>4. n = m /\ k = 1
      BY <1>6, <1>10, <2>8, <3>1
    <3>. QED BY <3>3, <3>4
  <2>1. right \in Seq(StepType) /\ Len(right) = b + 3 /\ \A i \in 1..(b + 2) : right[i] = middle[i]
    BY <1>5, <2>8, <2>9
  <2>2. \A i \in 1..1 : right[(b + 2) + i] = C[i]
    BY <2>8, <2>9
  <2>3. 1 \in 1..(b + 2) /\ 2 \in 1..(b + 2) /\ (b + 2) + 1 = b + 3 /\ \A i \in 1..b : 2 + i \in 1..(b + 2)
    BY <1>5
  <2>4. right[1] = Update("role", 0) /\ right[2] = Update("grants", 0) /\ \A i \in 1..b : right[2 + i] = M[i]
    BY <1>6, <1>10, <2>1, <2>3
  <2>5. right[b + 3] = C[1]
    <3>1. 1 \in 1..1
      OBVIOUS
    <3>. QED BY <2>2, <2>3, <3>1
  <2>. QED BY <1>6, <2>1, <2>4, <2>5
<1>12. /\ todo \in Seq(StepType) /\ Len(todo) = a + b + 4 /\ \A i \in 1..(a + 1) : todo[i] = left[i]
       /\ \A i \in 1..(b + 3) : todo[(a + 1) + i] = right[i]
  <2>1. PICK n, m : n = a + 1 /\ m = b + 3
    OBVIOUS
  <2>2. /\ todo \in Seq(StepType) /\ Len(todo) = n + m /\ \A i \in 1..n : todo[i] = left[i]
        /\ \A i \in 1..m : todo[n + i] = right[i]
    <3>1. /\ left \in Seq(StepType) /\ right \in Seq(StepType) /\ todo = left \o right
          /\ Len(left) = n /\ Len(right) = m
      BY <1>7, <1>9, <1>11, <2>1
    <3>. QED BY <3>1, Joined
  <2>3. n + m = a + b + 4
    BY <1>4, <1>5, <2>1
  <2>. QED BY <2>1, <2>2, <2>3
<1>13. /\ \A i \in 1..a : todo[i] = L[i]
       /\ todo[a + 1] = Check("judge") /\ todo[a + 2] = Update("role", 0) /\ todo[a + 3] = Update("grants", 0)
       /\ \A i \in 1..b : todo[a + 3 + i] = M[i]
       /\ todo[a + b + 4] = Check("roster")
  <2>1. /\ \A i \in 1..a : i \in 1..(a + 1)
        /\ a + 1 \in 1..(a + 1)
        /\ 1 \in 1..(b + 3) /\ 2 \in 1..(b + 3) /\ b + 3 \in 1..(b + 3) /\ \A i \in 1..b : 2 + i \in 1..(b + 3)
        /\ (a + 1) + 1 = a + 2 /\ (a + 1) + 2 = a + 3 /\ (a + 1) + (b + 3) = a + b + 4
        /\ \A i \in 1..b : (a + 1) + (2 + i) = a + 3 + i
    BY <1>4, <1>5
  <2>2. \A i \in 1..a : todo[i] = L[i]
    BY <1>9, <1>12, <2>1
  <2>3. todo[a + 1] = Check("judge")
    BY <1>9, <1>12, <2>1
  <2>4. todo[a + 2] = Update("role", 0) /\ todo[a + 3] = Update("grants", 0) /\ todo[a + b + 4] = Check("roster")
    BY <1>11, <1>12, <2>1
  <2>5. \A i \in 1..b : todo[a + 3 + i] = M[i]
    BY <1>11, <1>12, <2>1
  <2>. QED BY <2>2, <2>3, <2>4, <2>5
<1>14. \A i \in 1..Len(todo) : todo[i].do # "preview" /\ (todo[i].do = "judge" => i = a + 1)
  <2>1. SUFFICES ASSUME NEW i \in 1..Len(todo)
                 PROVE  todo[i].do # "preview" /\ (todo[i].do = "judge" => i = a + 1)
    OBVIOUS
  <2>2. \/ i \in 1..a \/ i \in {a + 1, a + 2, a + 3, a + b + 4}
        \/ i - (a + 3) \in 1..b
    <3>1. PICK k \in Nat : k = i /\ k >= 1 /\ k <= a + b + 4
      BY <1>12
    <3>2. a \in Nat /\ b \in Nat
      BY <1>4, <1>5
    <3>. HIDE <1>4, <1>5, <1>12
    <3>3. k <= a \/ k = a + 1 \/ k = a + 2 \/ k = a + 3 \/ k = a + b + 4
          \/ (k - (a + 3) >= 1 /\ k - (a + 3) <= b)
      BY <3>1, <3>2
    <3>4. k - (a + 3) \in Int
      BY <3>2
    <3>. QED BY <3>1, <3>2, <3>3, <3>4
  <2>3. CASE i \in 1..a
    BY <1>4, <1>13, <2>3
  <2>4. CASE i \in {a + 1, a + 2, a + 3, a + b + 4}
    BY <1>13, <2>4 DEF Update, Check
  <2>5. CASE i - (a + 3) \in 1..b
    <3>1. PICK k \in 1..b : k = i - (a + 3)
      BY <2>5
    <3>2. i = a + 3 + k
      BY <1>4, <1>12, <3>1
    <3>. QED BY <1>5, <1>13, <3>2
  <2>. QED BY <2>2, <2>3, <2>4, <2>5
<1>15. JudgesAfter(todo, UserLock(r))
  <2>1. UserLock(r) = Update("users", r.actor) /\ r.actor \in us
    BY <1>1 DEF UserLock
  <2>2. PICK i \in 1..a : todo[i] = UserLock(r)
    BY <1>4, <1>13, <2>1
  <2>3. i \in 1..((a + 1) - 1)
    BY <1>4
  <2>. QED BY <1>14, <2>2, <2>3 DEF JudgesAfter
<1>16. Takes(todo, Needs(r, saw)) /\ NoPreview(todo)
  <2>1. Needs(r, saw) = {Update("role", 0)} \cup {Update("users", u) : u \in saw.members \cup r.members}
    BY DEF Needs, Revisions
  <2>2. a + 2 \in 1..Len(todo) /\ todo[a + 2] = Update("role", 0)
    BY <1>4, <1>5, <1>12, <1>13, SMTT(30)
  <2>3. \A u \in us : \E i \in 1..Len(todo) : todo[i] = Update("users", u)
    <3>1. \A i \in 1..a : i \in 1..Len(todo)
      BY <1>4, <1>5, <1>12
    <3>. QED BY <1>4, <1>13, <3>1
  <2>4. Takes(todo, Needs(r, saw))
    BY <1>1, <2>1, <2>2, <2>3 DEF Takes
  <2>. QED BY <1>14, <2>4 DEF NoPreview
<1>17. todo[Len(todo)] = LastStep(r) /\ todo # <<>>
  <2>1. Len(todo) # 0 /\ todo[Len(todo)] = Check("roster")
    BY <1>4, <1>5, <1>12, <1>13
  <2>. QED BY <2>1 DEF LastStep
<1>18. RosterAhead(todo)
  <2>1. a + 2 \in 1..Len(todo) /\ todo[a + 2] = Update("role", 0)
    BY <1>4, <1>5, <1>12, <1>13
  <2>2. \A u \in Users : \E j \in ((a + 2) + 1)..Len(todo) : todo[j] = Membership(u)
    <3>1. SUFFICES ASSUME NEW u \in Users
                   PROVE  \E j \in ((a + 2) + 1)..Len(todo) : todo[j] = Membership(u)
      OBVIOUS
    <3>2. PICK i \in 1..b : M[i] = Membership(u)
      BY <1>5
    <3>3. a + 3 + i \in ((a + 2) + 1)..Len(todo)
      BY <1>4, <1>5, <1>12, SMTT(30)
    <3>. QED BY <1>13, <3>2, <3>3
  <2>. QED BY <2>1, <2>2 DEF RosterAhead
<1>19. Ordered(r, saw, todo, held, t)
  BY <1>12, <1>15, <1>16, <1>17, <1>18, PlainPrograms
<1>. QED BY <1>8, <1>17, <1>19

LEMMA DeactivationProgram ==
    ASSUME NEW r, Requested(r), r.kind = "deactivate", NEW saw, NEW held, NEW t
    PROVE  Ordered(r, saw, Program(r, saw), held, t) /\ Program(r, saw) # <<>>
<1>1. r.actor \in Nat
  BY UsersAreNumbers DEF Requested, Requests
<1>2. PICK todo : todo = Program(r, saw)
  OBVIOUS
<1>3. /\ Len(todo) = 15
      /\ todo[1] = Update("catalog", 0) /\ todo[2] = Update("users", r.actor)
      /\ todo[3] = Update("memberships", r.actor) /\ todo[4] = Update("grants", r.actor)
      /\ todo[5] = Check("judge") /\ todo[6] = Update("tags", 0) /\ todo[7] = Check("preview")
      /\ todo[8] = Update("catalog", 0) /\ todo[9] = Update("users", r.actor)
      /\ todo[10] = Update("memberships", r.actor) /\ todo[11] = Update("grants", r.actor)
      /\ todo[12] = Check("judge") /\ todo[13] = Update("tags", 0)
      /\ todo[14] = Update("problem", 0) /\ todo[15] = Check("impact")
  BY <1>2 DEF Program, lockManagingActor, lockUserPolicyForAuthorization
<1>4. todo \in Seq(StepType)
  BY <1>1, <1>2, StepTypes
     DEF Program, lockManagingActor, lockUserPolicyForAuthorization, Tables
<1>5. UserLock(r) = Update("users", r.actor) /\ Needs(r, saw) = {Update("tags", 0)}
  BY DEF UserLock, Needs, Revisions
<1>6. \A i \in 1..15 : (todo[i].do = "preview" => i = 7) /\ (todo[i].do = "judge" => i \in {5, 12})
  BY <1>3 DEF Update, Check
<1>7. Secured(todo, held, t, UserLock(r), 5)
  <2>1. Quiet(todo, 2 + 1, 5 - 1)
    <3>1. \A k \in (2 + 1)..(5 - 1) : k \in 1..15 /\ k # 7
      OBVIOUS
    <3>. QED BY <1>6, <3>1 DEF Quiet
  <2>. QED BY <1>3, <1>5, <2>1 DEF Secured
<1>8. Secured(todo, held, t, UserLock(r), 12)
  <2>1. Quiet(todo, 9 + 1, 12 - 1)
    <3>1. \A k \in (9 + 1)..(12 - 1) : k \in 1..15 /\ k # 7
      OBVIOUS
    <3>. QED BY <1>6, <3>1 DEF Quiet
  <2>. QED BY <1>3, <1>5, <2>1 DEF Secured
<1>9. Secured(todo, held, t, Update("tags", 0), Len(todo) + 1)
  <2>1. Quiet(todo, 13 + 1, (Len(todo) + 1) - 1)
    <3>1. \A k \in (13 + 1)..((15 + 1) - 1) : k \in 1..15 /\ k # 7
      OBVIOUS
    <3>. QED BY <1>3, <1>6, <3>1 DEF Quiet
  <2>2. 13 \in 1..((Len(todo) + 1) - 1)
    BY <1>3
  <2>. QED BY <1>3, <2>1, <2>2 DEF Secured
<1>10. \A j \in 1..Len(todo) : todo[j].do = "judge" => Secured(todo, held, t, UserLock(r), j)
  BY <1>3, <1>6, <1>7, <1>8
<1>11. \A st \in Needs(r, saw) : Secured(todo, held, t, st, Len(todo) + 1)
  BY <1>5, <1>9
<1>12. todo[Len(todo)] = LastStep(r) /\ todo # <<>>
  <2>1. todo[Len(todo)] = Check("impact") /\ Len(todo) # 0
    BY <1>3
  <2>. QED BY <2>1 DEF LastStep
<1>. QED BY <1>2, <1>4, <1>10, <1>11, <1>12 DEF Ordered

(* A step that takes the lock it asks for, or checks, leaves the rest of   *)
(* the program in order.                                                   *)
Found(st) == st.row[1] \in {"users", "role", "tags", "catalog"} \/ \E u \in rows : st = Membership(u)

LEMMA UserLocks ==
    ASSUME NEW r
    PROVE  /\ UserLock(r) \in {Share("users", r.actor), Update("users", r.actor)}
           /\ UserLock(r).do = "lock" /\ UserLock(r).row = <<"users", r.actor>>
BY DEF UserLock, Share, Update

LEMMA NeededLocks ==
    ASSUME NEW r, Requested(r), NEW saw, NEW st \in Needs(r, saw)
    PROVE  st.do = "lock" /\ Found(st)
<1>1. CASE r.kind \in {"delta", "remove", "disable"}
  BY <1>1 DEF Needs, Found, Update, Share, Revisions
<1>2. CASE r.kind = "role"
  BY <1>2 DEF Needs, Found, Update, Share, Revisions
<1>3. CASE r.kind \in Revisions
  BY <1>3 DEF Needs, Found, Update, Share, Revisions
<1>4. CASE r.kind = "deactivate"
  BY <1>4 DEF Needs, Found, Update, Share, Revisions
<1>5. CASE r.kind \notin {"delta", "remove", "disable", "role", "deactivate"} \cup Revisions
  BY <1>5 DEF Needs, Revisions
<1>. QED BY <1>1, <1>2, <1>3, <1>4, <1>5

LEMMA ProgramGoesOn ==
    ASSUME NEW r, Requested(r), NEW saw, NEW todo, todo # <<>>, NEW held, NEW later, NEW t,
           Ordered(r, saw, todo, held, t),
           NEW seen, seen = saw \/ r.kind = "deactivate",
           todo[1].do # "preview" => \A st : Lock(t, st) \in held => Lock(t, st) \in later,
           todo[1].do = "lock" /\ Found(todo[1]) => Lock(t, todo[1]) \in later
    PROVE  Ordered(r, seen, Tail(todo), later, t)
<1>1. todo \in Seq(StepType)
  BY DEF Ordered
<1>2. /\ Tail(todo) \in Seq(StepType) /\ Len(Tail(todo)) = Len(todo) - 1
      /\ Len(todo) \in Nat /\ Len(todo) > 0
      /\ \A i \in 1..(Len(todo) - 1) : Tail(todo)[i] = todo[i + 1]
  BY <1>1
<1>3. ASSUME NEW st, st.do = "lock", Found(st), NEW j \in 1..Len(todo),
             Secured(todo, held, t, st, j + 1)
      PROVE  Secured(Tail(todo), later, t, st, j)
  BY <1>1, <1>3, SecuredMoves
<1>4. \A i \in 1..Len(Tail(todo)) : Tail(todo)[i].do = "preview" => r.kind = "deactivate"
  <2>1. \A i \in 1..Len(Tail(todo)) : Tail(todo)[i] = todo[i + 1] /\ i + 1 \in 1..Len(todo)
    BY <1>2
  <2>. QED BY <2>1 DEF Ordered
<1>5. r.kind \in Judging =>
          \A j \in 1..Len(Tail(todo)) : Tail(todo)[j].do = "judge" =>
              Secured(Tail(todo), later, t, UserLock(r), j)
  <2>1. SUFFICES ASSUME r.kind \in Judging, NEW j \in 1..Len(Tail(todo)), Tail(todo)[j].do = "judge"
                 PROVE  Secured(Tail(todo), later, t, UserLock(r), j)
    OBVIOUS
  <2>2. j \in 1..Len(todo) /\ j + 1 \in 1..Len(todo) /\ todo[j + 1].do = "judge"
    BY <1>2, <2>1
  <2>3. Secured(todo, held, t, UserLock(r), j + 1)
    BY <2>1, <2>2 DEF Ordered
  <2>4. UserLock(r).do = "lock" /\ Found(UserLock(r))
    BY UserLocks DEF Found
  <2>. QED BY <1>3, <2>2, <2>3, <2>4
<1>6. \A st \in Needs(r, seen) : Secured(Tail(todo), later, t, st, Len(Tail(todo)) + 1)
  <2>1. Needs(r, seen) = Needs(r, saw)
    BY DEF Needs, Revisions
  <2>2. SUFFICES ASSUME NEW st \in Needs(r, saw)
                 PROVE  Secured(Tail(todo), later, t, st, Len(todo))
    BY <1>2, <2>1
  <2>3. Secured(todo, held, t, st, Len(todo) + 1) /\ Len(todo) \in 1..Len(todo)
    BY <1>2, <2>2 DEF Ordered
  <2>. QED BY <1>3, <2>2, <2>3, NeededLocks
<1>7. r.kind \in Ending /\ Tail(todo) # <<>> => Tail(todo)[Len(Tail(todo))] = LastStep(r)
  <2>1. SUFFICES ASSUME r.kind \in Ending, Tail(todo) # <<>>
                 PROVE  Tail(todo)[Len(Tail(todo))] = LastStep(r)
    OBVIOUS
  <2>2. Len(Tail(todo)) \in 1..(Len(todo) - 1) /\ Len(Tail(todo)) + 1 = Len(todo)
    BY <1>2, <2>1
  <2>. QED BY <1>2, <2>1, <2>2 DEF Ordered
<1>8. r.kind = "role" => RosterAhead(Tail(todo)) \/ RosterLocked(Tail(todo), later, t)
  <2>1. SUFFICES ASSUME r.kind = "role"
                 PROVE  RosterAhead(Tail(todo)) \/ RosterLocked(Tail(todo), later, t)
    OBVIOUS
  <2>2. /\ RosterAhead(todo) \/ RosterLocked(todo, held, t)
        /\ \A i \in 1..Len(todo) : todo[i].do # "preview"
    BY <2>1 DEF Ordered
  <2>3. todo[1].do # "preview" /\ \A st : Lock(t, st) \in held => Lock(t, st) \in later
    BY <1>2, <2>2
  <2>4. ASSUME NEW i \in 1..Len(todo), NEW u \in Users, \E j \in (i + 1)..Len(todo) : todo[j] = Membership(u)
        PROVE  \E j \in i..Len(Tail(todo)) : Tail(todo)[j] = Membership(u)
    <3>1. PICK j \in (i + 1)..Len(todo) : todo[j] = Membership(u)
      BY <2>4
    <3>2. j - 1 \in i..Len(Tail(todo)) /\ Tail(todo)[j - 1] = todo[j]
      BY <1>2, <3>1
    <3>. QED BY <3>1, <3>2
  <2>5. CASE RosterAhead(todo)
    <3>1. PICK i \in 1..Len(todo) :
             /\ todo[i] = Update("role", 0)
             /\ \A u \in Users : \E j \in (i + 1)..Len(todo) : todo[j] = Membership(u)
      BY <2>5 DEF RosterAhead
    <3>2. \A u \in Users : \E j \in i..Len(Tail(todo)) : Tail(todo)[j] = Membership(u)
      BY <2>4, <3>1
    <3>3. CASE i = 1
      <4>1. Lock(t, Update("role", 0)) \in later
        BY <3>1, <3>3 DEF Found, Update
      <4>. QED BY <3>2, <3>3, <4>1 DEF RosterLocked
    <3>4. CASE i # 1
      <4>1. i - 1 \in 1..Len(Tail(todo)) /\ Tail(todo)[i - 1] = Update("role", 0) /\ (i - 1) + 1 = i
        BY <1>2, <3>1, <3>4
      <4>. QED BY <3>2, <4>1 DEF RosterAhead
    <3>. QED BY <3>3, <3>4
  <2>6. CASE RosterLocked(todo, held, t)
    <3>1. Lock(t, Update("role", 0)) \in later
      BY <2>3, <2>6 DEF RosterLocked
    <3>2. ASSUME NEW u \in Users
          PROVE  \/ u \in rows => Lock(t, Membership(u)) \in later
                 \/ \E j \in 1..Len(Tail(todo)) : Tail(todo)[j] = Membership(u)
      <4>1. CASE u \in rows => Lock(t, Membership(u)) \in held
        BY <2>3, <4>1
      <4>2. CASE \E j \in 1..Len(todo) : todo[j] = Membership(u)
        <5>1. CASE todo[1] = Membership(u)
          BY <5>1 DEF Found, Membership, Update
        <5>2. CASE todo[1] # Membership(u)
          <6>1. PICK j \in 1..Len(todo) : todo[j] = Membership(u)
            BY <4>2
          <6>2. j - 1 \in 1..Len(Tail(todo)) /\ Tail(todo)[j - 1] = todo[j]
            BY <1>2, <5>2, <6>1
          <6>. QED BY <6>1, <6>2
        <5>. QED BY <5>1, <5>2
      <4>. QED BY <2>6, <4>1, <4>2 DEF RosterLocked
    <3>. QED BY <3>1, <3>2 DEF RosterLocked
  <2>. QED BY <2>2, <2>5, <2>6
<1>. QED BY <1>2, <1>4, <1>5, <1>6, <1>7, <1>8 DEF Ordered
-----------------------------------------------------------------------------
(* What holds of one transaction while another one moves.                  *)
LEMMA OthersKeep ==
    ASSUME NEW s, TxFacts(s), tx'[s] = tx[s],
           \A st : Lock(s, st) \in locks => Lock(s, st) \in locks',
           Asked(s).kind = "role" /\ Lock(s, Update("role", 0)) \in locks => rows' = rows,
           Judged(s) => Judged(s)',
           Running(s) /\ Todo(s) = <<>> /\ Concluded(s) => Concluded(s)'
    PROVE  TxFacts(s)'
<1>1. Asked(s)' = Asked(s) /\ Todo(s)' = Todo(s) /\ tx'[s].saw = tx[s].saw /\ Running(s)' = Running(s)
  BY DEF Asked, Todo, Running
<1>2. (tx[s] = [request |-> tx[s].request, saw |-> tx[s].saw, judged |-> tx[s].judged,
                todo |-> tx[s].todo])'
  BY DEF TxFacts
<1>3. ASSUME Running(s)  PROVE Ordered(Asked(s), tx[s].saw, Todo(s), locks, s)'
  <2>1. PICK r, saw, todo, later : r = Asked(s) /\ saw = tx[s].saw /\ todo = Todo(s) /\ later = locks'
    OBVIOUS
  <2>2. Ordered(r, saw, todo, locks, s)
    BY <1>3, <2>1 DEF TxFacts
  <2>3. \A st, j : Secured(todo, locks, s, st, j) => Secured(todo, later, s, st, j)
    BY <2>1 DEF Secured
  <2>4. r.kind = "role" => RosterAhead(todo) \/ RosterLocked(todo, later, s)'
    <3>1. SUFFICES ASSUME r.kind = "role", RosterLocked(todo, locks, s)
                   PROVE  RosterLocked(todo, later, s)'
      BY <2>2 DEF Ordered
    <3>2. rows' = rows
      BY <2>1, <3>1 DEF RosterLocked
    <3>. QED BY <2>1, <3>1, <3>2 DEF RosterLocked
  <2>5. Ordered(r, saw, todo, later, s)'
    BY <2>2, <2>3, <2>4 DEF Ordered
  <2>. QED BY <1>1, <2>1, <2>5
<1>4. ASSUME Running(s)
      PROVE  /\ Requested(Asked(s))' /\ Judged(s)'
             /\ (Asked(s).kind = "role" => tx[s].saw.members \subseteq Users)'
             /\ (Todo(s) = <<>> => Concluded(s))'
  BY <1>1, <1>4 DEF TxFacts, Requested
<1>. QED BY <1>1, <1>2, <1>3, <1>4 DEF TxFacts

Frozen == UNCHANGED <<policyVars, catalogVars, problemVars>>

(* Nothing but locks and the program of t changes.                         *)
LEMMA QuietOthers ==
    ASSUME LocksIInv, NEW t, NEW s \in Tx, s # t, Frozen, tx'[s] = tx[s],
           \A st : Lock(s, st) \in locks => Lock(s, st) \in locks'
    PROVE  TxFacts(s)'
<1>1. rows' = rows
  BY DEF Frozen, policyVars
<1>2. Judged(s) => Judged(s)'
  BY DEF Judged, Asked, Permitted, Frozen, policyVars
<1>3. Concluded(s) => Concluded(s)'
  BY DEF Concluded, Asked, Frozen, policyVars, catalogVars, problemVars
<1>. QED BY <1>1, <1>2, <1>3, OthersKeep DEF LocksIInv

LEMMA FrozenWorld ==
    ASSUME LocksIInv, Frozen, UNCHANGED mix, NEW t \in Tx, NEW x, tx' = [tx EXCEPT ![t] = x]
    PROVE  World' /\ tx'[t] = x /\ \A s \in Tx : s # t => tx'[s] = tx[s]
BY DEF LocksIInv, World, Frozen, policyVars, catalogVars, problemVars

(* A transaction that has ended.                                           *)
LEMMA EndedFacts == ASSUME NEW t, tx'[t] = Ended  PROVE TxFacts(t)'
<1>1. ~Running(t)'
  BY DEF Running, Asked, Ended, EmptySlot, AllKinds
<1>2. (tx[t] = [request |-> tx[t].request, saw |-> tx[t].saw, judged |-> tx[t].judged,
                todo |-> tx[t].todo])'
  BY DEF Ended, EmptySlot
<1>. QED BY <1>1, <1>2 DEF TxFacts

LEMMA ReleasedLocks ==
    ASSUME LocksIInv, NEW t, locks' = Released(t)
    PROVE  /\ Exclusion'
           /\ \A s, st : s # t /\ Lock(s, st) \in locks => Lock(s, st) \in locks'
BY DEF LocksIInv, Released, Exclusion, Lock

LEMMA AbortKeeps ==
    ASSUME LocksIInv, UNCHANGED mix, NEW t \in Tx, Abort(t)
    PROVE  LocksIInv'
<1>1. Frozen /\ tx' = [tx EXCEPT ![t] = Ended] /\ locks' = Released(t)
  BY DEF Abort, Frozen
<1>2. World' /\ tx'[t] = Ended /\ \A s \in Tx : s # t => tx'[s] = tx[s]
  BY <1>1, FrozenWorld
<1>3. \A s \in Tx : TxFacts(s)'
  BY <1>1, <1>2, EndedFacts, ReleasedLocks, QuietOthers
<1>. QED BY <1>1, <1>2, <1>3, ReleasedLocks DEF LocksIInv

(* The program of t goes on by one step.                                   *)
Goes(t, saw, judged) ==
    tx' = [tx EXCEPT ![t] = [request |-> Asked(t), saw |-> saw, judged |-> judged, todo |-> Tail(Todo(t))]]

LEMMA RequestStepKeeps ==
    ASSUME LocksIInv, UNCHANGED mix, NEW t \in Tx, Between(t), Frozen,
           NEW saw, NEW judged, Goes(t, saw, judged),
           saw = tx[t].saw \/ Asked(t).kind = "deactivate",
           Exclusion', \A s, st : s # t /\ Lock(s, st) \in locks => Lock(s, st) \in locks',
           NextStep(t).do # "preview" => \A st : Lock(t, st) \in locks => Lock(t, st) \in locks',
           NextStep(t).do = "lock" /\ Found(NextStep(t)) => Lock(t, NextStep(t)) \in locks',
           judged => NextStep(t).do # "preview",
           judged => tx[t].judged \/ (NextStep(t).do = "judge" /\ Permitted(Asked(t).actor)),
           Tail(Todo(t)) = <<>> => Concluded(t)'
    PROVE  LocksIInv'
<1>1. PICK r, todo, later : r = Asked(t) /\ todo = Todo(t) /\ later = locks'
  OBVIOUS
<1>2. PICK x : x = [request |-> r, saw |-> saw, judged |-> judged, todo |-> Tail(todo)]
  OBVIOUS
<1>3. tx' = [tx EXCEPT ![t] = x]
  BY <1>1, <1>2 DEF Goes
<1>4. World' /\ tx'[t] = x /\ \A s \in Tx : s # t => tx'[s] = tx[s]
  BY <1>3, FrozenWorld
<1>5. \A s \in Tx : s # t => TxFacts(s)'
  BY <1>4, QuietOthers
<1>6. /\ Running(t) /\ todo # <<>> /\ Requested(r) /\ Ordered(r, tx[t].saw, todo, locks, t)
      /\ Judged(t)
      /\ r.kind = "role" => tx[t].saw.members \subseteq Users
  BY <1>1 DEF LocksIInv, TxFacts, Between, Todo
<1>7. todo \in Seq(StepType) /\ todo[1] = NextStep(t) /\ Len(todo) \in Nat /\ Len(todo) > 0
  <2>1. todo \in Seq(StepType)
    BY <1>6 DEF Ordered
  <2>. QED BY <1>1, <1>6, <2>1 DEF NextStep, Todo
<1>8. Asked(t)' = r /\ Todo(t)' = Tail(todo) /\ tx'[t].saw = saw /\ tx'[t].judged = judged
  BY <1>2, <1>4 DEF Asked, Todo
<1>9. Ordered(r, saw, Tail(todo), later, t)
  BY <1>1, <1>6, <1>7, ProgramGoesOn
<1>10. Ordered(Asked(t), tx[t].saw, Todo(t), locks, t)'
  <2>1. rows' = rows
    BY DEF Frozen, policyVars
  <2>2. Ordered(r, saw, Tail(todo), later, t)'
    BY <1>9, <2>1 DEF Ordered, RosterLocked
  <2>. QED BY <1>1, <1>8, <2>2
<1>11. Judged(t)'
  <2>1. SUFFICES ASSUME r.kind \in Judging, judged
                 PROVE  Permitted(r.actor)' /\ Lock(t, UserLock(r)) \in later
    BY <1>1, <1>8 DEF Judged
  <2>2. Permitted(r.actor)' = Permitted(r.actor)
    BY DEF Permitted, Frozen, policyVars
  <2>3. CASE tx[t].judged
    BY <1>1, <1>6, <2>1, <2>2, <2>3 DEF Judged
  <2>4. CASE NextStep(t).do = "judge" /\ Permitted(Asked(t).actor)
    <3>1. Secured(todo, locks, t, UserLock(r), 1)
      BY <1>6, <1>7, <2>1, <2>4 DEF Ordered
    <3>2. Lock(t, UserLock(r)) \in locks
      BY <3>1 DEF Secured
    <3>. QED BY <1>1, <2>1, <2>2, <2>4, <3>2
  <2>. QED BY <2>1, <2>3, <2>4
<1>12. (Asked(t).kind = "role" => tx[t].saw.members \subseteq Users)'
  BY <1>1, <1>6, <1>8
<1>13. TxFacts(t)'
  <2>1. (tx[t] = [request |-> tx[t].request, saw |-> tx[t].saw, judged |-> tx[t].judged,
                  todo |-> tx[t].todo])'
    BY <1>2, <1>4
  <2>2. Requested(Asked(t))' /\ (Todo(t) = <<>> => Concluded(t))'
    BY <1>1, <1>6, <1>8 DEF Requested
  <2>. QED BY <1>10, <1>11, <1>12, <2>1, <2>2 DEF TxFacts
<1>. QED BY <1>4, <1>5, <1>13 DEF LocksIInv

(* The lock that t asks for, if there is a row, is the one it then has.    *)
LEMMA AcquireTakes ==
    ASSUME NEW t, Acquire(t), Found(NextStep(t))
    PROVE  Lock(t, NextStep(t)) \in locks'
<1>1. PICK st : st = NextStep(t)
  OBVIOUS
<1>2. Finds(t) /\ LockOf(t) = st.row
  <2>1. CASE st.row[1] \in {"users", "role", "tags", "catalog"}
    BY <1>1, <2>1 DEF Finds, LockOf
  <2>2. CASE \E u \in rows : st = Membership(u)
    <3>1. PICK u \in rows : st = Membership(u)
      BY <2>2
    <3>2. st.row[1] = "memberships" /\ st.row[2] \in rows
      BY <3>1 DEF Membership, Update
    <3>. QED BY <1>1, <3>2 DEF Finds, LockOf
  <2>. QED BY <1>1, <2>1, <2>2 DEF Found
<1>. QED BY <1>1, <1>2 DEF Acquire, Lock

LEMMA AcquireExcludes ==
    ASSUME Exclusion, NEW t, Acquire(t)
    PROVE  Exclusion'
<1>1. CASE ~Finds(t)
  BY <1>1 DEF Acquire, Exclusion
<1>2. CASE Finds(t)
  <2>1. PICK new : new = [tx |-> t, row |-> LockOf(t), mode |-> NextStep(t).mode]
    OBVIOUS
  <2>2. locks' = locks \cup {new}
    BY <1>2, <2>1 DEF Acquire
  <2>3. \A k \in locks : k.tx # t /\ k.row = new.row => "update" \notin {k.mode, new.mode}
    BY <1>2, <2>1 DEF Acquire, Blockers
  <2>4. new.tx = t
    BY <2>1
  <2>. QED BY <2>2, <2>3, <2>4 DEF Exclusion
<1>. QED BY <1>1, <1>2

(* The last step of the operations that end with one.                      *)
LEMMA EndsWith ==
    ASSUME NEW t, TxFacts(t), Between(t), Asked(t).kind \in Ending, Tail(Todo(t)) = <<>>
    PROVE  NextStep(t) = LastStep(Asked(t))
<1>1. PICK r, todo : r = Asked(t) /\ todo = Todo(t)
  OBVIOUS
<1>2. /\ todo \in Seq(StepType) /\ todo # <<>> /\ todo[Len(todo)] = LastStep(r)
  BY <1>1 DEF Between, TxFacts, Ordered, Todo
<1>3. Len(todo) = 1
  <2>1. Len(Tail(todo)) = 0
    BY <1>1
  <2>2. Len(Tail(todo)) = Len(todo) - 1 /\ Len(todo) \in Nat
    BY <1>2
  <2>. QED BY <2>1, <2>2
<1>. QED BY <1>1, <1>2, <1>3 DEF NextStep, Todo

LEMMA TxForm ==
    ASSUME LocksIInv, NEW t \in Tx
    PROVE  /\ tx = [s \in Tx |-> tx[s]] /\ TxFacts(t)
           /\ tx[t] = [request |-> Asked(t), saw |-> tx[t].saw, judged |-> tx[t].judged, todo |-> Todo(t)]
BY DEF LocksIInv, World, TxFacts, Asked, Todo

LEMMA RecordUpdates ==
    ASSUME NEW r, NEW seen, NEW was, NEW todo, NEW saw, NEW judged, NEW later, NEW x,
           x = [request |-> r, saw |-> seen, judged |-> was, todo |-> todo], NEW y
    PROVE  /\ x.todo = todo
           /\ y = [x EXCEPT !.todo = later]
              => y = [request |-> r, saw |-> seen, judged |-> was, todo |-> later]
           /\ y = [x EXCEPT !.todo = later, !.judged = judged]
              => y = [request |-> r, saw |-> seen, judged |-> judged, todo |-> later]
           /\ y = [x EXCEPT !.todo = later, !.judged = judged, !.saw = saw]
              => y = [request |-> r, saw |-> saw, judged |-> judged, todo |-> later]
OBVIOUS

(* The ways in which the record of t changes when its program goes on.     *)
LEMMA GoingOn ==
    ASSUME LocksIInv, NEW t \in Tx, NEW saw, NEW judged,
           \/ saw = tx[t].saw /\ judged = tx[t].judged /\ tx' = [tx EXCEPT ![t].todo = Tail(@)]
           \/ saw = tx[t].saw /\ tx' = [tx EXCEPT ![t].todo = Tail(@), ![t].judged = judged]
           \/ tx' = [tx EXCEPT ![t].todo = Tail(@), ![t].judged = judged, ![t].saw = saw]
    PROVE  Goes(t, saw, judged)
<1>1. PICK r, seen, was, todo, x :
         /\ r = Asked(t) /\ seen = tx[t].saw /\ was = tx[t].judged /\ todo = Todo(t)
         /\ x = [request |-> r, saw |-> seen, judged |-> was, todo |-> todo]
  OBVIOUS
<1>2. tx = [s \in Tx |-> tx[s]] /\ tx[t] = x
  BY <1>1, TxForm
<1>3. CASE saw = tx[t].saw /\ judged = tx[t].judged /\ tx' = [tx EXCEPT ![t].todo = Tail(@)]
  <2>0. PICK y : y = [x EXCEPT !.todo = Tail(x.todo)]
    OBVIOUS
  <2>1. tx' = [tx EXCEPT ![t] = y]
    BY <1>2, <1>3, <2>0
  <2>2. y = [request |-> r, saw |-> seen, judged |-> was, todo |-> Tail(todo)]
    BY <1>1, <2>0, RecordUpdates
  <2>. QED BY <1>1, <1>3, <2>1, <2>2 DEF Goes
<1>4. CASE saw = tx[t].saw /\ tx' = [tx EXCEPT ![t].todo = Tail(@), ![t].judged = judged]
  <2>0. PICK y : y = [x EXCEPT !.todo = Tail(x.todo), !.judged = judged]
    OBVIOUS
  <2>1. tx' = [tx EXCEPT ![t] = y]
    BY <1>2, <1>4, <2>0
  <2>2. y = [request |-> r, saw |-> seen, judged |-> judged, todo |-> Tail(todo)]
    BY <1>1, <2>0, RecordUpdates
  <2>. QED BY <1>1, <1>4, <2>1, <2>2 DEF Goes
<1>5. CASE tx' = [tx EXCEPT ![t].todo = Tail(@), ![t].judged = judged, ![t].saw = saw]
  <2>0. PICK y : y = [x EXCEPT !.todo = Tail(x.todo), !.judged = judged, !.saw = saw]
    OBVIOUS
  <2>1. tx' = [tx EXCEPT ![t] = y]
    BY <1>2, <1>5, <2>0
  <2>2. y = [request |-> r, saw |-> saw, judged |-> judged, todo |-> Tail(todo)]
    BY <1>1, <2>0, RecordUpdates
  <2>. QED BY <1>1, <2>1, <2>2 DEF Goes
<1>. QED BY <1>3, <1>4, <1>5

LEMMA AcquireKeeps ==
    ASSUME LocksIInv, UNCHANGED mix, NEW t \in Tx, Acquire(t)
    PROVE  LocksIInv'
<1>1. Between(t) /\ NextStep(t).do = "lock" /\ Frozen /\ Exclusion
  BY DEF Acquire, Frozen, LocksIInv
<1>2. Goes(t, tx[t].saw, tx[t].judged)
  BY GoingOn DEF Acquire, Advance
<1>3. \A s, st : Lock(s, st) \in locks => Lock(s, st) \in locks'
  BY DEF Acquire
<1>4. Found(NextStep(t)) => Lock(t, NextStep(t)) \in locks'
  BY AcquireTakes
<1>5. Tail(Todo(t)) = <<>> => Concluded(t)'
  <2>1. SUFFICES ASSUME Tail(Todo(t)) = <<>>
                 PROVE  Concluded(t)'
    OBVIOUS
  <2>2. PICK r : r = Asked(t)
    OBVIOUS
  <2>3. Asked(t)' = r
    BY <1>2, <2>2, TxForm DEF Goes, Asked
  <2>4. r.kind \in Ending => NextStep(t) = LastStep(r)
    BY <1>1, <2>1, <2>2, EndsWith, TxForm
  <2>5. r.kind \notin {"save", "suggest", "deactivate", "role"}
    BY <1>1, <2>4 DEF Ending, LastStep, Check
  <2>6. ASSUME r.kind = "remove", r.target \in rows'
        PROVE  Lock(t, Membership(r.target)) \in locks'
    <3>1. NextStep(t) = Membership(r.target)
      BY <2>4, <2>6 DEF Ending, LastStep, Membership
    <3>2. r.target \in rows
      BY <1>1, <2>6 DEF Frozen, policyVars
    <3>. QED BY <1>4, <3>1, <3>2 DEF Found
  <2>. QED BY <2>3, <2>5, <2>6 DEF Concluded
<1>6. Exclusion'
  BY <1>1, AcquireExcludes
<1>7. tx[t].judged => NextStep(t).do # "preview"
  BY <1>1
<1>. QED BY <1>1, <1>2, <1>3, <1>4, <1>5, <1>6, <1>7, RequestStepKeeps

LEMMA ProceedKeeps ==
    ASSUME LocksIInv, UNCHANGED mix, NEW t \in Tx, Proceed(t)
    PROVE  LocksIInv'
<1>1. /\ Between(t) /\ NextStep(t).do \notin {"lock", "preview"} /\ Frozen /\ Exclusion
      /\ Passes(t, NextStep(t).do) /\ locks' = locks
  BY DEF Proceed, Frozen, LocksIInv
<1>2. PICK judged : judged = (tx[t].judged \/ NextStep(t).do = "judge")
  OBVIOUS
<1>3. Goes(t, tx[t].saw, judged)
  <2>1. tx' = [tx EXCEPT ![t].todo = Tail(@), ![t].judged = judged]
    BY <1>2, TxForm DEF Proceed
  <2>. QED BY <2>1, GoingOn
<1>4. Exclusion'
  BY <1>1 DEF Exclusion
<1>5. judged => tx[t].judged \/ (NextStep(t).do = "judge" /\ Permitted(Asked(t).actor))
  BY <1>1, <1>2 DEF Passes
<1>6. Tail(Todo(t)) = <<>> => Concluded(t)'
  <2>1. SUFFICES ASSUME Tail(Todo(t)) = <<>>
                 PROVE  Concluded(t)'
    OBVIOUS
  <2>2. PICK r : r = Asked(t)
    OBVIOUS
  <2>3. Asked(t)' = r /\ tx'[t].saw = tx[t].saw
    BY <1>3, <2>2, TxForm DEF Goes, Asked
  <2>4. r.kind \in Ending => NextStep(t) = LastStep(r)
    BY <1>1, <2>1, <2>2, EndsWith, TxForm
  <2>5. ASSUME r.kind \in {"save", "suggest"}  PROVE r.tags \subseteq active
    <3>1. Passes(t, "leaves")
      BY <1>1, <2>4, <2>5 DEF Ending, LastStep, Check
    <3>. QED BY <2>2, <2>5, <3>1 DEF Passes, NewTags
  <2>6. ASSUME r.kind = "deactivate"
        PROVE  r.replacement \subseteq active /\ (tagged = {r.tag} => r.replacement # {})
    <3>1. Passes(t, "impact")
      BY <1>1, <2>4, <2>6 DEF Ending, LastStep, Check
    <3>. QED BY <2>2, <3>1 DEF Passes
  <2>7. ASSUME r.kind = "role"  PROVE tx[t].saw.members = members
    <3>1. Passes(t, "roster")
      BY <1>1, <2>4, <2>7 DEF Ending, LastStep, Check
    <3>. QED BY <3>1 DEF Passes
  <2>8. r.kind # "remove"
    BY <1>1, <2>4 DEF Ending, LastStep, Update
  <2>9. active' = active /\ tagged' = tagged /\ members' = members
    BY <1>1 DEF Frozen, catalogVars, policyVars, problemVars
  <2>. QED BY <2>3, <2>5, <2>6, <2>7, <2>8, <2>9 DEF Concluded
<1>. QED BY <1>1, <1>3, <1>4, <1>5, <1>6, RequestStepKeeps

LEMMA PreviewKeeps ==
    ASSUME LocksIInv, UNCHANGED mix, NEW t \in Tx, Preview(t)
    PROVE  LocksIInv'
<1>1. Between(t) /\ NextStep(t).do = "preview" /\ Frozen /\ locks' = Released(t)
  BY DEF Preview, Frozen
<1>2. Goes(t, Impact, FALSE)
  BY GoingOn DEF Preview
<1>3. Asked(t).kind = "deactivate"
  <2>1. PICK todo : todo = Todo(t)
    OBVIOUS
  <2>2. /\ todo \in Seq(StepType) /\ todo # <<>>
        /\ \A i \in 1..Len(todo) : todo[i].do = "preview" => Asked(t).kind = "deactivate"
    BY <1>1, <2>1, TxForm DEF TxFacts, Between, Ordered, Todo
  <2>3. 1 \in 1..Len(todo) /\ todo[1].do = "preview"
    BY <1>1, <2>1, <2>2 DEF NextStep, Todo
  <2>. QED BY <2>2, <2>3
<1>4. Tail(Todo(t)) # <<>>
  <2>1. SUFFICES ASSUME Tail(Todo(t)) = <<>>
                 PROVE  FALSE
    OBVIOUS
  <2>2. NextStep(t) = Check("impact")
    BY <1>1, <1>3, <2>1, EndsWith, TxForm DEF Ending, LastStep
  <2>. QED BY <1>1, <2>2 DEF Check
<1>. QED BY <1>1, <1>2, <1>3, <1>4, ReleasedLocks, RequestStepKeeps

LEMMA ProgramOrdered ==
    ASSUME NEW r, Requested(r), Acceptable(r), NEW saw, r.kind = "role" => saw.members \subseteq Users,
           NEW held, NEW t
    PROVE  Ordered(r, saw, Program(r, saw), held, t) /\ Program(r, saw) # <<>>
<1>1. r.kind \in AllKinds
  BY DEF Requested, Requests, AllKinds
<1>2. r.kind = "delta" => r.target # r.actor
  BY DEF Acceptable
<1>. QED BY <1>1, <1>2, RevisionPrograms, ShortPrograms, RemovalProgram, DeltaProgram, RoleProgram,
            DeactivationProgram DEF AllKinds, Revisions

LEMMA RequestBeginKeeps ==
    ASSUME LocksIInv, UNCHANGED mix, NEW t \in Tx, tx[t] = Unused, NEW r \in Requests, Begin(t, r)
    PROVE  LocksIInv'
<1>1. /\ Frozen /\ locks' = locks /\ Acceptable(r)
  BY DEF Begin, Frozen
<1>2. PICK saw : saw = Saw(r.kind)
  OBVIOUS
<1>3. PICK x : x = [request |-> r, saw |-> saw, judged |-> FALSE, todo |-> Program(r, saw)]
  OBVIOUS
<1>4. World' /\ tx'[t] = x /\ \A s \in Tx : s # t => tx'[s] = tx[s]
  <2>1. tx' = [tx EXCEPT ![t] = x]
    BY <1>2, <1>3 DEF Begin
  <2>. QED BY <1>1, <2>1, FrozenWorld
<1>5. \A s \in Tx : s # t => TxFacts(s)'
  BY <1>1, <1>4, QuietOthers
<1>6. Requested(r)
  BY <1>1 DEF Requested, Acceptable
<1>7. r.kind = "role" => saw.members \subseteq Users
  BY <1>2 DEF Saw, LocksIInv, World
<1>8. Ordered(r, saw, Program(r, saw), locks, t) /\ Program(r, saw) # <<>>
  BY <1>1, <1>6, <1>7, ProgramOrdered
<1>9. Asked(t)' = r /\ Todo(t)' = Program(r, saw) /\ tx'[t].saw = saw /\ tx'[t].judged = FALSE
  BY <1>3, <1>4 DEF Asked, Todo
<1>10. Ordered(Asked(t), tx[t].saw, Todo(t), locks, t)'
  <2>1. PICK todo : todo = Program(r, saw)
    OBVIOUS
  <2>2. rows' = rows
    BY <1>1 DEF Frozen, policyVars
  <2>3. Ordered(r, saw, todo, locks, t)'
    BY <1>1, <1>8, <2>1, <2>2 DEF Ordered, RosterLocked
  <2>. QED BY <1>9, <2>1, <2>3
<1>11. TxFacts(t)'
  <2>1. (tx[t] = [request |-> tx[t].request, saw |-> tx[t].saw, judged |-> tx[t].judged,
                  todo |-> tx[t].todo])'
    BY <1>3, <1>4
  <2>2. Judged(t)' /\ Requested(Asked(t))' /\ (Asked(t).kind = "role" => tx[t].saw.members \subseteq Users)'
        /\ (Todo(t) = <<>> => Concluded(t))'
    BY <1>6, <1>7, <1>8, <1>9 DEF Judged, Requested
  <2>. QED BY <1>10, <2>1, <2>2 DEF TxFacts
<1>12. Exclusion'
  BY <1>1 DEF LocksIInv, Exclusion
<1>. QED BY <1>4, <1>5, <1>11, <1>12 DEF LocksIInv
-----------------------------------------------------------------------------
(* Commits.                                                                *)
LEMMA NoConflict ==
    ASSUME LocksIInv, NEW s, NEW t, s # t, NEW a, NEW b, a.row = b.row, "update" \in {a.mode, b.mode},
           Lock(s, a) \in locks, Lock(t, b) \in locks
    PROVE  FALSE
BY DEF LocksIInv, Exclusion, Lock

LEMMA AtEndHolds ==
    ASSUME LocksIInv, NEW s \in Tx, AtEnd(s)
    PROVE  /\ Requested(Asked(s)) /\ Concluded(s)
           /\ \A st \in Needs(Asked(s), tx[s].saw) : Lock(s, st) \in locks
           /\ Asked(s).kind = "role" => \A u \in Users \cap rows : Lock(s, Membership(u)) \in locks
<1>1. PICK todo : todo = Todo(s)
  OBVIOUS
<1>2. todo = <<>> /\ Len(todo) = 0 /\ Running(s) /\ TxFacts(s)
  BY <1>1 DEF AtEnd, Todo, LocksIInv
<1>3. Requested(Asked(s)) /\ Concluded(s) /\ Ordered(Asked(s), tx[s].saw, todo, locks, s)
  BY <1>1, <1>2 DEF TxFacts
<1>4. \A st \in Needs(Asked(s), tx[s].saw) : Lock(s, st) \in locks
  <2>1. SUFFICES ASSUME NEW st \in Needs(Asked(s), tx[s].saw)
                 PROVE  Lock(s, st) \in locks
    OBVIOUS
  <2>2. Secured(todo, locks, s, st, 1)
    BY <1>2, <1>3, <2>1 DEF Ordered
  <2>. QED BY <2>2 DEF Secured
<1>5. Asked(s).kind = "role" => \A u \in Users \cap rows : Lock(s, Membership(u)) \in locks
  BY <1>2, <1>3 DEF Ordered, RosterAhead, RosterLocked
<1>. QED BY <1>3, <1>4, <1>5

(* Who has locked the row of an account.                                   *)
UserHeld(s, u) == Lock(s, Share("users", u)) \in locks \/ Lock(s, Update("users", u)) \in locks

LEMMA UserAlone ==
    ASSUME LocksIInv, NEW s, NEW t, s # t, NEW u, UserHeld(s, u), Lock(t, Update("users", u)) \in locks
    PROVE  FALSE
<1>1. /\ Share("users", u).row = Update("users", u).row
      /\ Update("users", u).mode = "update"
  BY DEF Share, Update
<1>. QED BY <1>1, NoConflict DEF UserHeld

LEMMA FinishOthers ==
    ASSUME LocksIInv, NEW t \in Tx, Finish(t), NEW s \in Tx, s # t
    PROVE  tx'[s] = tx[s] /\ Asked(s)' = Asked(s)
BY DEF Finish, LocksIInv, World, Asked

LEMMA RequestFinishKeeps ==
    ASSUME LocksIInv, UNCHANGED mix, NEW t \in Tx, Finish(t),
           rows' \subseteq Users, members' \subseteq rows', tagged' # {}, tagged' \subseteq active',
           \A s \in Tx : s # t =>
               /\ Lock(s, Update("role", 0)) \in locks => rows' = rows
               /\ \A u : UserHeld(s, u) /\ Permitted(u) => Permitted(u)'
               /\ AtEnd(s) => Concluded(s)'
    PROVE  LocksIInv'
<1>1. tx' = [tx EXCEPT ![t] = Ended] /\ locks' = Released(t)
  BY DEF Finish
<1>2. World' /\ tx'[t] = Ended
  BY <1>1 DEF LocksIInv, World
<1>3. ASSUME NEW s \in Tx, s # t  PROVE TxFacts(s)'
  <2>1. tx'[s] = tx[s] /\ Asked(s)' = Asked(s)
    BY <1>3, FinishOthers
  <2>2. \A st : Lock(s, st) \in locks => Lock(s, st) \in locks'
    BY <1>1, <1>3, ReleasedLocks
  <2>3. Judged(s) => Judged(s)'
    <3>1. SUFFICES ASSUME Judged(s), Asked(s).kind \in Judging, tx[s].judged
                   PROVE  Permitted(Asked(s).actor)' /\ Lock(s, UserLock(Asked(s))) \in locks'
      BY <2>1 DEF Judged
    <3>2. Permitted(Asked(s).actor) /\ Lock(s, UserLock(Asked(s))) \in locks
      BY <3>1 DEF Judged
    <3>3. UserHeld(s, Asked(s).actor)
      BY <3>2, UserLocks DEF UserHeld
    <3>4. PICK u : u = Asked(s).actor
      OBVIOUS
    <3>5. Permitted(u)'
      BY <1>3, <3>2, <3>3, <3>4
    <3>. QED BY <2>1, <2>2, <3>2, <3>4, <3>5
  <2>4. Running(s) /\ Todo(s) = <<>> => Concluded(s)'
    BY <1>3 DEF AtEnd, Todo
  <2>. QED BY <1>3, <2>1, <2>2, <2>3, <2>4, OthersKeep DEF LocksIInv
<1>4. TxFacts(t)'
  BY <1>2, EndedFacts
<1>5. Exclusion'
  BY <1>1, ReleasedLocks
<1>. QED BY <1>2, <1>3, <1>4, <1>5 DEF LocksIInv

(* Whoever writes revisions shares the tags, and a deactivation has them.  *)
LEMMA TagLocks ==
    ASSUME LocksIInv, NEW s \in Tx, AtEnd(s)
    PROVE  /\ Asked(s).kind \in Revisions => Lock(s, Share("tags", 0)) \in locks
           /\ Asked(s).kind = "deactivate" => Lock(s, Update("tags", 0)) \in locks
BY AtEndHolds DEF Needs, Revisions

LEMMA TagsAlone ==
    ASSUME LocksIInv, NEW s \in Tx, NEW t \in Tx, s # t, AtEnd(s), AtEnd(t),
           Asked(t).kind = "deactivate", Asked(s).kind \in {"deactivate"} \cup Revisions
    PROVE  FALSE
<1>1. Share("tags", 0).row = Update("tags", 0).row /\ Update("tags", 0).mode = "update"
  BY DEF Share, Update
<1>. QED BY <1>1, TagLocks, NoConflict

LEMMA RevisionKeeps ==
    ASSUME LocksIInv, UNCHANGED mix, NEW t \in Tx, CommitRevision(t)
    PROVE  LocksIInv'
<1>1. /\ Finish(t) /\ AtEnd(t) /\ Asked(t).kind \in Revisions
      /\ tagged' = NewTags(t) /\ UNCHANGED <<policyVars, catalogVars>>
  BY DEF CommitRevision, Finish, Revisions
<1>2. tagged' # {} /\ tagged' \subseteq active'
  <2>1. CASE Asked(t).kind \in {"save", "suggest"}
    <3>1. Requested(Asked(t)) /\ Concluded(t)
      BY <1>1, AtEndHolds
    <3>2. Asked(t).tags \subseteq active /\ Asked(t).tags # {}
      BY <2>1, <3>1 DEF Requested, Requests, TagSets, Concluded
    <3>. QED BY <1>1, <2>1, <3>2 DEF NewTags, catalogVars
  <2>2. CASE Asked(t).kind \notin {"save", "suggest"}
    BY <1>1, <2>2 DEF NewTags, catalogVars, LocksIInv, World
  <2>. QED BY <2>1, <2>2
<1>3. ASSUME NEW s \in Tx, s # t, AtEnd(s)  PROVE Concluded(s)'
  <2>1. Concluded(s) /\ Asked(s)' = Asked(s) /\ tx'[s] = tx[s]
    BY <1>1, <1>3, AtEndHolds, FinishOthers
  <2>2. Asked(s).kind # "deactivate"
    BY <1>1, <1>3, TagsAlone
  <2>3. \A k \in locks : k.tx = s => k \in locks'
    BY <1>1, <1>3 DEF Finish, Released
  <2>. QED BY <1>1, <2>1, <2>2, <2>3 DEF Concluded, policyVars, catalogVars, Lock
<1>4. \A u : Permitted(u) => Permitted(u)'
  BY <1>1 DEF Permitted, policyVars
<1>5. rows' = rows /\ rows' \subseteq Users /\ members' \subseteq rows'
  BY <1>1 DEF policyVars, LocksIInv, World
<1>. QED BY <1>1, <1>2, <1>3, <1>4, <1>5, RequestFinishKeeps

LEMMA RobotKeeps ==
    ASSUME LocksIInv, UNCHANGED mix, NEW t \in Tx, CommitRobot(t)
    PROVE  LocksIInv'
<1>1. Finish(t) /\ Frozen /\ tx' = [tx EXCEPT ![t] = Ended] /\ locks' = Released(t)
  BY DEF CommitRobot, Finish, Frozen
<1>2. Abort(t)
  BY <1>1 DEF Abort, Frozen
<1>. QED BY <1>2, AbortKeeps

LEMMA DeactivationKeeps ==
    ASSUME LocksIInv, UNCHANGED mix, NEW t \in Tx, CommitDeactivation(t)
    PROVE  LocksIInv'
<1>1. PICK r : r = Asked(t)
  OBVIOUS
<1>2. /\ Finish(t) /\ AtEnd(t) /\ r.kind = "deactivate" /\ active' = active \ {r.tag}
      /\ tagged' = (IF tagged = {r.tag} THEN r.replacement ELSE tagged \ {r.tag})
      /\ UNCHANGED policyVars
  BY <1>1 DEF CommitDeactivation, Finish
<1>3. /\ r.tag \notin r.replacement /\ r.replacement \subseteq active
      /\ tagged = {r.tag} => r.replacement # {}
  BY <1>1, <1>2, AtEndHolds DEF Requested, Concluded
<1>4. tagged' # {} /\ tagged' \subseteq active'
  BY <1>2, <1>3 DEF LocksIInv, World
<1>5. ASSUME NEW s \in Tx, s # t, AtEnd(s)  PROVE Concluded(s)'
  <2>1. Concluded(s) /\ Asked(s)' = Asked(s) /\ tx'[s] = tx[s]
    BY <1>2, <1>5, AtEndHolds, FinishOthers
  <2>2. Asked(s).kind \notin {"deactivate"} \cup Revisions
    BY <1>1, <1>2, <1>5, TagsAlone
  <2>3. \A k \in locks : k.tx = s => k \in locks'
    BY <1>2, <1>5 DEF Finish, Released
  <2>. QED BY <1>2, <2>1, <2>2, <2>3 DEF Concluded, policyVars, Lock, Revisions
<1>6. \A u : Permitted(u) => Permitted(u)'
  BY <1>2 DEF Permitted, policyVars
<1>7. rows' = rows /\ rows' \subseteq Users /\ members' \subseteq rows'
  BY <1>2 DEF policyVars, LocksIInv, World
<1>. QED BY <1>2, <1>4, <1>5, <1>6, <1>7, RequestFinishKeeps

LEMMA RestoreKeeps ==
    ASSUME LocksIInv, UNCHANGED mix, NEW t \in Tx, CommitRestore(t)
    PROVE  LocksIInv'
<1>1. /\ Finish(t) /\ AtEnd(t) /\ active \subseteq active' /\ tagged' = tagged /\ UNCHANGED policyVars
  BY DEF CommitRestore, Finish, problemVars
<1>2. tagged' # {} /\ tagged' \subseteq active'
  BY <1>1 DEF LocksIInv, World
<1>3. ASSUME NEW s \in Tx, s # t, AtEnd(s)  PROVE Concluded(s)'
  <2>1. Concluded(s) /\ Asked(s)' = Asked(s) /\ tx'[s] = tx[s]
    BY <1>1, <1>3, AtEndHolds, FinishOthers
  <2>2. \A k \in locks : k.tx = s => k \in locks'
    BY <1>1, <1>3 DEF Finish, Released
  <2>. QED BY <1>1, <2>1, <2>2 DEF Concluded, policyVars, Lock
<1>4. \A u : Permitted(u) => Permitted(u)'
  BY <1>1 DEF Permitted, policyVars
<1>5. rows' = rows /\ rows' \subseteq Users /\ members' \subseteq rows'
  BY <1>1 DEF policyVars, LocksIInv, World
<1>. QED BY <1>1, <1>2, <1>3, <1>4, <1>5, RequestFinishKeeps

LEMMA RoleKeeps ==
    ASSUME LocksIInv, UNCHANGED mix, NEW t \in Tx, CommitRole(t)
    PROVE  LocksIInv'
<1>1. PICK r : r = Asked(t)
  OBVIOUS
<1>2. /\ Finish(t) /\ AtEnd(t) /\ r.kind = "role" /\ members' = r.members /\ rows' = rows \cup r.members
      /\ UNCHANGED <<barred, catalogVars, problemVars>>
  BY <1>1 DEF CommitRole, Finish
<1>3. r.members \subseteq Users /\ tx[t].saw.members = members
  BY <1>1, <1>2, AtEndHolds DEF Requested, Requests, Concluded
<1>4. /\ Lock(t, Update("role", 0)) \in locks
      /\ \A u \in members \cup r.members : Lock(t, Update("users", u)) \in locks
  <2>1. /\ Update("role", 0) \in Needs(r, tx[t].saw)
        /\ \A u \in members \cup r.members : Update("users", u) \in Needs(r, tx[t].saw)
    BY <1>2, <1>3 DEF Needs, Revisions
  <2>. QED BY <1>1, <1>2, <2>1, AtEndHolds
<1>5. ASSUME NEW s \in Tx, s # t  PROVE Lock(s, Update("role", 0)) \notin locks
  <2>1. Update("role", 0).mode = "update"
    BY DEF Update
  <2>. QED BY <1>4, <1>5, <2>1, NoConflict
<1>6. ASSUME NEW s \in Tx, s # t, NEW u, UserHeld(s, u), Permitted(u)  PROVE Permitted(u)'
  <2>1. u \notin members \cup r.members
    BY <1>4, <1>6, UserAlone
  <2>. QED BY <1>2, <1>6, <2>1 DEF Permitted
<1>7. ASSUME NEW s \in Tx, s # t, AtEnd(s)  PROVE Concluded(s)'
  <2>1. Concluded(s) /\ Asked(s)' = Asked(s) /\ tx'[s] = tx[s]
    BY <1>2, <1>7, AtEndHolds, FinishOthers
  <2>2. \A k \in locks : k.tx = s => k \in locks'
    BY <1>2, <1>7 DEF Finish, Released
  <2>3. Asked(s).kind # "role"
    <3>1. SUFFICES ASSUME Asked(s).kind = "role"
                   PROVE  Lock(s, Update("role", 0)) \in locks
      BY <1>5, <1>7
    <3>. QED BY <1>7, <3>1, AtEndHolds DEF Needs, Revisions
  <2>4. ASSUME Asked(s).kind = "remove"  PROVE Asked(s).target \notin r.members
    <3>1. Lock(s, Update("users", Asked(s).target)) \in locks
      BY <1>7, <2>4, AtEndHolds DEF Needs, Revisions
    <3>. QED BY <1>4, <1>7, <3>1, UserAlone DEF UserHeld
  <2>. QED BY <1>2, <2>1, <2>2, <2>3, <2>4 DEF Concluded, catalogVars, problemVars, Lock
<1>8. rows' \subseteq Users /\ members' \subseteq rows' /\ tagged' # {} /\ tagged' \subseteq active'
  BY <1>2, <1>3 DEF LocksIInv, World, catalogVars, problemVars
<1>. QED BY <1>2, <1>5, <1>6, <1>7, <1>8, RequestFinishKeeps

LEMMA DeltaKeeps ==
    ASSUME LocksIInv, UNCHANGED mix, NEW t \in Tx, CommitDelta(t)
    PROVE  LocksIInv'
<1>1. PICK u : u = Asked(t).target
  OBVIOUS
<1>2. /\ Finish(t) /\ AtEnd(t) /\ Asked(t).kind \in {"delta", "disable"}
      /\ \A v : v # u => (v \in barred' <=> v \in barred)
      /\ UNCHANGED <<rows, members, effect, catalogVars, problemVars>>
  BY <1>1 DEF CommitDelta, Finish
<1>3. Lock(t, Update("users", u)) \in locks
  BY <1>1, <1>2, AtEndHolds DEF Needs, Revisions
<1>4. ASSUME NEW s \in Tx, s # t, NEW v, UserHeld(s, v), Permitted(v)  PROVE Permitted(v)'
  <2>1. v # u
    BY <1>3, <1>4, UserAlone
  <2>. QED BY <1>2, <1>4, <2>1 DEF Permitted
<1>5. ASSUME NEW s \in Tx, s # t, AtEnd(s)  PROVE Concluded(s)'
  <2>1. Concluded(s) /\ Asked(s)' = Asked(s) /\ tx'[s] = tx[s]
    BY <1>2, <1>5, AtEndHolds, FinishOthers
  <2>2. \A k \in locks : k.tx = s => k \in locks'
    BY <1>2, <1>5 DEF Finish, Released
  <2>. QED BY <1>2, <2>1, <2>2 DEF Concluded, catalogVars, problemVars, Lock
<1>6. rows' = rows /\ rows' \subseteq Users /\ members' \subseteq rows' /\ tagged' # {} /\ tagged' \subseteq active'
  BY <1>2 DEF LocksIInv, World, catalogVars, problemVars
<1>. QED BY <1>2, <1>4, <1>5, <1>6, RequestFinishKeeps

LEMMA RemovalKeeps ==
    ASSUME LocksIInv, UNCHANGED mix, NEW t \in Tx, CommitRemoval(t)
    PROVE  LocksIInv'
<1>1. PICK u : u = Asked(t).target
  OBVIOUS
<1>2. /\ Finish(t) /\ AtEnd(t) /\ Asked(t).kind = "remove"
      /\ members' = members \ {u} /\ barred' = barred \cup {u}
      /\ UNCHANGED <<rows, effect, catalogVars, tagged>>
  BY <1>1 DEF CommitRemoval, Finish
<1>3. Lock(t, Update("users", u)) \in locks /\ (u \in rows => Lock(t, Membership(u)) \in locks)
  BY <1>1, <1>2, AtEndHolds DEF Needs, Revisions, Concluded
<1>4. ASSUME NEW s \in Tx, s # t, NEW v, UserHeld(s, v), Permitted(v)  PROVE Permitted(v)'
  <2>1. v # u
    BY <1>3, <1>4, UserAlone
  <2>. QED BY <1>2, <1>4, <2>1 DEF Permitted
<1>5. ASSUME NEW s \in Tx, s # t, AtEnd(s)  PROVE Concluded(s)'
  <2>1. Concluded(s) /\ Asked(s)' = Asked(s) /\ tx'[s] = tx[s]
    BY <1>2, <1>5, AtEndHolds, FinishOthers
  <2>2. \A k \in locks : k.tx = s => k \in locks'
    BY <1>2, <1>5 DEF Finish, Released
  <2>3. ASSUME Asked(s).kind = "role"  PROVE u \notin members
    <3>1. SUFFICES ASSUME u \in members
                   PROVE  FALSE
      OBVIOUS
    <3>2. u \in Users \cap rows
      BY <3>1 DEF LocksIInv, World
    <3>3. Lock(s, Membership(u)) \in locks /\ Lock(t, Membership(u)) \in locks
      BY <1>3, <1>5, <2>3, <3>2, AtEndHolds
    <3>4. Membership(u).mode = "update"
      BY DEF Membership, Update
    <3>. QED BY <1>5, <3>3, <3>4, NoConflict
  <2>. QED BY <1>2, <2>1, <2>2, <2>3 DEF Concluded, catalogVars, Lock
<1>6. rows' = rows /\ rows' \subseteq Users /\ members' \subseteq rows' /\ tagged' # {} /\ tagged' \subseteq active'
  BY <1>2 DEF LocksIInv, World, catalogVars
<1>. QED BY <1>2, <1>4, <1>5, <1>6, RequestFinishKeeps
-----------------------------------------------------------------------------
LEMMA LocksInit == Init => LocksIInv
<1>. SUFFICES ASSUME Init  PROVE LocksIInv
  OBVIOUS
<1>1. World
  BY RowLocksAssumption DEF Init, World, RowLocksAssumption, TagSets, Unused, EmptySlot
<1>2. Exclusion
  BY DEF Init, Exclusion
<1>3. \A t \in Tx : TxFacts(t)
  <2>1. SUFFICES ASSUME NEW t \in Tx  PROVE TxFacts(t)
    OBVIOUS
  <2>2. tx[t] = Unused
    BY DEF Init
  <2>3. ~Running(t)
    BY <2>2 DEF Running, Asked, Unused, EmptySlot, AllKinds
  <2>4. tx[t] = [request |-> tx[t].request, saw |-> tx[t].saw, judged |-> tx[t].judged, todo |-> tx[t].todo]
    BY <2>2 DEF Unused, EmptySlot
  <2>. QED BY <2>3, <2>4 DEF TxFacts
<1>. QED BY <1>1, <1>2, <1>3 DEF LocksIInv

LEMMA LocksNext == LocksIInv /\ [Next]_vars => LocksIInv'
<1>. SUFFICES ASSUME LocksIInv, [Next]_vars  PROVE LocksIInv'
  OBVIOUS
<1>1. ASSUME NEW t \in Tx, UNCHANGED mix, tx[t] = Unused, \E r \in Workloads[mix][t] : Begin(t, r)
      PROVE  LocksIInv'
  <2>1. Workloads[mix] \in [Tx -> SUBSET Requests]
    BY WorkloadAssumption DEF WorkloadAssumption, LocksIInv, World
  <2>. QED BY <1>1, <2>1, RequestBeginKeeps
<1>2. ASSUME NEW t \in Tx, UNCHANGED mix, Step(t)
      PROVE  LocksIInv'
  <2>1. CASE Acquire(t)
    BY <1>2, <2>1, AcquireKeeps
  <2>2. CASE Proceed(t)
    BY <1>2, <2>2, ProceedKeeps
  <2>3. CASE Preview(t)
    BY <1>2, <2>3, PreviewKeeps
  <2>4. CASE Refuse(t) \/ Victim(t)
    BY <1>2, <2>4, AbortKeeps DEF Refuse, Victim
  <2>5. CASE Commit(t)
    BY <1>2, <2>5, RevisionKeeps, RobotKeeps, DeactivationKeeps, RestoreKeeps, RoleKeeps, DeltaKeeps,
       RemovalKeeps DEF Commit
  <2>. QED BY <1>2, <2>1, <2>2, <2>3, <2>4, <2>5 DEF Step
<1>3. CASE UNCHANGED vars
  <2>1. Frozen /\ UNCHANGED <<mix, tx, locks>>
    BY <1>3 DEF vars, Frozen, policyVars, catalogVars, problemVars
  <2>2. World' /\ Exclusion'
    BY <2>1 DEF LocksIInv, World, Exclusion, Frozen, policyVars, catalogVars, problemVars
  <2>3. \A t \in Tx : TxFacts(t)'
    <3>1. SUFFICES ASSUME NEW t \in Tx  PROVE TxFacts(t)'
      OBVIOUS
    <3>2. (Judged(t) => Judged(t)') /\ (Concluded(t) => Concluded(t)') /\ rows' = rows
      BY <2>1 DEF Judged, Concluded, Asked, Permitted, Frozen, policyVars, catalogVars, problemVars
    <3>. QED BY <2>1, <3>2, OthersKeep DEF LocksIInv
  <2>. QED BY <2>2, <2>3 DEF LocksIInv
<1>. QED BY <1>1, <1>2, <1>3 DEF Next

(* A request whose permission was judged under the lock of its user keeps  *)
(* that permission until it commits: who revokes a grant, ends a           *)
(* membership, changes the role or disables the account waits for it.  The *)
(* current revision of the problem always has a tag and never one that is  *)
(* deactivated: an edit and a deactivation each rely on rows that they     *)
(* have locked before they looked at them.                                 *)
THEOREM LocksHold == Spec => []LocksInv
<1>1. LocksIInv => PermissionHolds
  <2>1. SUFFICES ASSUME LocksIInv, NEW t \in Tx, Asked(t).kind \in JudgedUnderLock, tx[t].judged
                 PROVE  Permitted(Asked(t).actor)
    BY DEF PermissionHolds
  <2>2. Running(t)
    BY <2>1 DEF Running, JudgedUnderLock, AllKinds
  <2>. QED BY <2>1, <2>2 DEF LocksIInv, TxFacts, Judged, Judging
<1>2. LocksIInv => CurrentTagsActive
  BY DEF LocksIInv, World, CurrentTagsActive
<1>3. LocksIInv => LocksInv
  BY <1>1, <1>2 DEF LocksInv
<1>. QED BY <1>3, LocksInit, LocksNext, PTL DEF Spec

-----------------------------------------------------------------------------
(* Deadlocks.  Outside administration a program locks rows in one order of *)
(* tables.  Where it does not, it either has that row already, or it has   *)
(* the catalog for itself, and nobody that has the problem waits for it.   *)
Orderly == AllKinds \ (Administration \cup {"history"})

Level(row) == CASE row[1] = "catalog"     -> 1
                [] row[1] = "problem"     -> 2
                [] row[1] = "users"       -> 3
                [] row[1] = "token"       -> 4
                [] row[1] = "memberships" -> 5
                [] row[1] = "grants"      -> 6
                [] OTHER                  -> 7

CatalogLock(r) == IF r.kind = "deactivate" THEN Update("catalog", 0) ELSE Share("catalog", 0)

Again(r, st) == \/ r.kind = "override" /\ st = Share("users", r.actor)
                \/ r.kind = "deactivate" /\ st = Update("problem", 0)

Above(r, row, st) == Level(row) < Level(st.row) \/ Again(r, st)

Climbs(r, todo) ==
    \A i, j \in 1..Len(todo) :
        i < j /\ todo[i].do = "lock" /\ todo[j].do = "lock" /\ Quiet(todo, i, j)
        => Above(r, todo[i].row, todo[j])

Sorted(r, todo, held, t) ==
    /\ todo \in Seq(StepType) /\ Climbs(r, todo)
    /\ \A l \in held : l.tx = t => \A j \in 1..Len(todo) :
           todo[j].do = "lock" /\ Quiet(todo, 1, j) => Above(r, l.row, todo[j])
    /\ r.kind = "override" => \A j \in 1..Len(todo) :
           todo[j] = Share("users", r.actor) => Secured(todo, held, t, Update("users", r.actor), j)
    /\ \A j \in 1..Len(todo) :
           todo[j].row = <<"problem", 0>> => Secured(todo, held, t, CatalogLock(r), j)
    /\ \A l \in held : l.tx = t /\ l.row = <<"problem", 0>> => Lock(t, CatalogLock(r)) \in held

SortedTx(t) ==
    IF Running(t) THEN Asked(t).kind \in Orderly => Sorted(Asked(t), Todo(t), locks, t)
                  ELSE \A l \in locks : l.tx # t

OrderIInv == LocksIInv /\ \A t \in Tx : SortedTx(t)

LEMMA Levels ==
    /\ \A table \in Tables : \A id : Level(<<table, id>>) \in 1..7
    /\ \A id : /\ Level(<<"catalog", id>>) = 1 /\ Level(<<"problem", id>>) = 2
               /\ Level(<<"users", id>>) = 3 /\ Level(<<"token", id>>) = 4
               /\ Level(<<"memberships", id>>) = 5 /\ Level(<<"grants", id>>) = 6
               /\ Level(<<"tags", id>>) = 7
BY DEF Level, Tables

LEMMA LockLevels ==
    ASSUME NEW id
    PROVE  /\ \A st \in {Share("catalog", id), Update("catalog", id)} : Level(st.row) = 1
           /\ Level(Update("problem", id).row) = 2
           /\ \A st \in {Share("users", id), Update("users", id)} : Level(st.row) = 3
           /\ \A st \in {Share("token", id), Update("token", id)} : Level(st.row) = 4
           /\ \A st \in {Share("memberships", id), Update("memberships", id)} : Level(st.row) = 5
           /\ \A st \in {Share("grants", id), Update("grants", id)} : Level(st.row) = 6
           /\ \A st \in {Share("tags", id), Update("tags", id)} : Level(st.row) = 7
BY Levels DEF Share, Update

(* A program that has taken nothing yet.                                   *)
LEMMA FreshSorted ==
    ASSUME NEW r, NEW todo \in Seq(StepType), Climbs(r, todo), NEW held, NEW t, \A l \in held : l.tx # t,
           r.kind = "override" => \A j \in 1..Len(todo) :
               todo[j] = Share("users", r.actor) => Secured(todo, held, t, Update("users", r.actor), j),
           \A j \in 1..Len(todo) :
               todo[j].row = <<"problem", 0>> => Secured(todo, held, t, CatalogLock(r), j)
    PROVE  Sorted(r, todo, held, t)
BY DEF Sorted

LEMMA PlainSecured ==
    ASSUME NEW todo \in Seq(StepType), NoPreview(todo), NEW held, NEW t, NEW st,
           NEW j \in 1..Len(todo), NEW i \in 1..(j - 1), todo[i] = st
    PROVE  Secured(todo, held, t, st, j)
<1>1. Quiet(todo, i + 1, j - 1)
  <2>1. \A k \in (i + 1)..(j - 1) : k \in 1..Len(todo)
    OBVIOUS
  <2>. QED BY <2>1 DEF Quiet, NoPreview
<1>. QED BY <1>1 DEF Secured

LEMMA SaveSorted ==
    ASSUME NEW r, Requested(r), r.kind = "save", NEW saw, NEW held, NEW t, \A l \in held : l.tx # t
    PROVE  Sorted(r, Program(r, saw), held, t)
<1>1. PICK todo : todo = Program(r, saw)
  OBVIOUS
<1>2. todo \in Seq(StepType)
  BY <1>1, RevisionPrograms DEF Ordered, Revisions
<1>3. /\ Len(todo) = 6
      /\ todo[1] = Share("catalog", 0) /\ todo[2] = Update("problem", 0)
      /\ todo[3] = Check("revision") /\ todo[4] = Share("users", r.actor)
      /\ todo[5] = Share("tags", 0) /\ todo[6] = Check("leaves")
  BY <1>1 DEF Program, lockProblem, insertProblemRevision
<1>4. \A i \in 1..6 : todo[i].do = "lock" => i \in {1, 2, 4, 5}
  BY <1>3 DEF Share, Update, Check
<1>5. /\ Level(todo[1].row) = 1 /\ Level(todo[2].row) = 2 /\ Level(todo[4].row) = 3
      /\ Level(todo[5].row) = 7
  BY <1>3, LockLevels
<1>6. NoPreview(todo)
  BY <1>3 DEF Share, Update, Check, NoPreview
<1>7. Climbs(r, todo)
  BY <1>3, <1>4, <1>5 DEF Climbs, Above
<1>8. \A j \in 1..6 : todo[j].row = <<"problem", 0>> => j = 2
  BY <1>3 DEF Share, Update, Check
<1>9. Secured(todo, held, t, CatalogLock(r), 2)
  <2>1. CatalogLock(r) = todo[1]
    BY <1>3 DEF CatalogLock
  <2>2. 1 \in 1..(2 - 1) /\ 2 \in 1..Len(todo)
    BY <1>3
  <2>. QED BY <1>2, <1>6, <2>1, <2>2, PlainSecured
<1>. QED BY <1>1, <1>2, <1>3, <1>7, <1>8, <1>9, FreshSorted

LEMMA OverrideSorted ==
    ASSUME NEW r, Requested(r), r.kind = "override", NEW saw, NEW held, NEW t, \A l \in held : l.tx # t
    PROVE  Sorted(r, Program(r, saw), held, t)
<1>1. PICK todo : todo = Program(r, saw)
  OBVIOUS
<1>2. todo \in Seq(StepType)
  BY <1>1, RevisionPrograms DEF Ordered, Revisions
<1>3. /\ Len(todo) = 9
      /\ todo[1] = Share("catalog", 0) /\ todo[2] = Update("problem", 0)
      /\ todo[3] = Update("users", r.actor) /\ todo[4] = Update("memberships", r.actor)
      /\ todo[5] = Update("grants", r.actor) /\ todo[6] = Check("judge")
      /\ todo[7] = Share("users", r.actor) /\ todo[8] = Share("tags", 0)
      /\ todo[9] = Check("leaves")
  BY <1>1 DEF Program, lockProblem, insertProblemRevision, lockUserPolicyForAuthorization
<1>4. \A i \in 1..9 : todo[i].do = "lock" => i \in {1, 2, 3, 4, 5, 7, 8}
  BY <1>3 DEF Share, Update, Check
<1>5. /\ Level(todo[1].row) = 1 /\ Level(todo[2].row) = 2 /\ Level(todo[3].row) = 3
      /\ Level(todo[4].row) = 5 /\ Level(todo[5].row) = 6 /\ Level(todo[7].row) = 3
      /\ Level(todo[8].row) = 7
  BY <1>3, LockLevels
<1>6. NoPreview(todo)
  BY <1>3 DEF Share, Update, Check, NoPreview
<1>7. Climbs(r, todo)
  <2>1. \A j \in 1..9 : j = 7 => Again(r, todo[j])
    BY <1>3 DEF Again
  <2>. QED BY <1>3, <1>4, <1>5, <2>1 DEF Climbs, Above
<1>8. \A j \in 1..9 : todo[j].row = <<"problem", 0>> => j = 2
  BY <1>3 DEF Share, Update, Check
<1>9. Secured(todo, held, t, CatalogLock(r), 2)
  <2>1. CatalogLock(r) = todo[1]
    BY <1>3 DEF CatalogLock
  <2>2. 1 \in 1..(2 - 1) /\ 2 \in 1..Len(todo)
    BY <1>3
  <2>. QED BY <1>2, <1>6, <2>1, <2>2, PlainSecured
<1>10. \A j \in 1..9 : todo[j] = Share("users", r.actor) => j = 7
  BY <1>3 DEF Share, Update, Check
<1>11. Secured(todo, held, t, Update("users", r.actor), 7)
  <2>1. 3 \in 1..(7 - 1) /\ 7 \in 1..Len(todo) /\ todo[3] = Update("users", r.actor)
    BY <1>3
  <2>. QED BY <1>2, <1>6, <2>1, PlainSecured
<1>. QED BY <1>1, <1>2, <1>3, <1>7, <1>8, <1>9, <1>10, <1>11, FreshSorted

LEMMA SuggestSorted ==
    ASSUME NEW r, Requested(r), r.kind = "suggest", NEW saw, NEW held, NEW t, \A l \in held : l.tx # t
    PROVE  Sorted(r, Program(r, saw), held, t)
<1>1. PICK todo : todo = Program(r, saw)
  OBVIOUS
<1>2. todo \in Seq(StepType)
  BY <1>1, RevisionPrograms DEF Ordered, Revisions
<1>3. /\ Len(todo) = 7
      /\ todo[1] = Share("catalog", 0) /\ todo[2] = Update("problem", 0)
      /\ todo[3] = Check("judge") /\ todo[4] = Check("leaves")
      /\ todo[5] = Share("users", r.actor) /\ todo[6] = Share("tags", 0)
      /\ todo[7] = Check("leaves")
  BY <1>1 DEF Program, lockProblem, insertProblemRevision
<1>4. \A i \in 1..7 : todo[i].do = "lock" => i \in {1, 2, 5, 6}
  BY <1>3 DEF Share, Update, Check
<1>5. /\ Level(todo[1].row) = 1 /\ Level(todo[2].row) = 2 /\ Level(todo[5].row) = 3
      /\ Level(todo[6].row) = 7
  BY <1>3, LockLevels
<1>6. NoPreview(todo)
  BY <1>3 DEF Share, Update, Check, NoPreview
<1>7. Climbs(r, todo)
  BY <1>3, <1>4, <1>5 DEF Climbs, Above
<1>8. \A j \in 1..7 : todo[j].row = <<"problem", 0>> => j = 2
  BY <1>3 DEF Share, Update, Check
<1>9. Secured(todo, held, t, CatalogLock(r), 2)
  <2>1. CatalogLock(r) = todo[1]
    BY <1>3 DEF CatalogLock
  <2>2. 1 \in 1..(2 - 1) /\ 2 \in 1..Len(todo)
    BY <1>3
  <2>. QED BY <1>2, <1>6, <2>1, <2>2, PlainSecured
<1>. QED BY <1>1, <1>2, <1>3, <1>7, <1>8, <1>9, FreshSorted

LEMMA CompleteSorted ==
    ASSUME NEW r, Requested(r), r.kind = "complete", NEW saw, NEW held, NEW t, \A l \in held : l.tx # t
    PROVE  Sorted(r, Program(r, saw), held, t)
<1>1. PICK todo : todo = Program(r, saw)
  OBVIOUS
<1>2. todo \in Seq(StepType)
  BY <1>1, ShortPrograms DEF Ordered, Revisions
<1>3. /\ Len(todo) = 7
      /\ todo[1] = Share("catalog", 0) /\ todo[2] = Update("problem", 0)
      /\ todo[3] = Share("users", r.actor) /\ todo[4] = Share("token", r.actor)
      /\ todo[5] = Share("memberships", r.actor) /\ todo[6] = Share("grants", r.actor)
      /\ todo[7] = Check("judge")
  BY <1>1 DEF Program, lockProblem, revalidateIdentity
<1>4. \A i \in 1..7 : todo[i].do = "lock" => i \in {1, 2, 3, 4, 5, 6}
  BY <1>3 DEF Share, Update, Check
<1>5. /\ Level(todo[1].row) = 1 /\ Level(todo[2].row) = 2 /\ Level(todo[3].row) = 3
      /\ Level(todo[4].row) = 4 /\ Level(todo[5].row) = 5 /\ Level(todo[6].row) = 6
  BY <1>3, LockLevels
<1>6. NoPreview(todo)
  BY <1>3 DEF Share, Update, Check, NoPreview
<1>7. Climbs(r, todo)
  BY <1>3, <1>4, <1>5 DEF Climbs, Above
<1>8. \A j \in 1..7 : todo[j].row = <<"problem", 0>> => j = 2
  BY <1>3 DEF Share, Update, Check
<1>9. Secured(todo, held, t, CatalogLock(r), 2)
  <2>1. CatalogLock(r) = todo[1]
    BY <1>3 DEF CatalogLock
  <2>2. 1 \in 1..(2 - 1) /\ 2 \in 1..Len(todo)
    BY <1>3
  <2>. QED BY <1>2, <1>6, <2>1, <2>2, PlainSecured
<1>. QED BY <1>1, <1>2, <1>3, <1>7, <1>8, <1>9, FreshSorted

LEMMA AuthenticateSorted ==
    ASSUME NEW r, Requested(r), r.kind = "authenticate", NEW saw, NEW held, NEW t, \A l \in held : l.tx # t
    PROVE  Sorted(r, Program(r, saw), held, t)
<1>1. PICK todo : todo = Program(r, saw)
  OBVIOUS
<1>2. todo \in Seq(StepType)
  BY <1>1, ShortPrograms DEF Ordered, Revisions
<1>3. /\ Len(todo) = 5
      /\ todo[1] = Share("users", r.actor) /\ todo[2] = Update("token", r.actor)
      /\ todo[3] = Update("memberships", r.actor) /\ todo[4] = Update("grants", r.actor)
      /\ todo[5] = Check("judge")
  BY <1>1 DEF Program
<1>4. \A i \in 1..5 : todo[i].do = "lock" => i \in {1, 2, 3, 4}
  BY <1>3 DEF Share, Update, Check
<1>5. /\ Level(todo[1].row) = 3 /\ Level(todo[2].row) = 4 /\ Level(todo[3].row) = 5
      /\ Level(todo[4].row) = 6
  BY <1>3, LockLevels
<1>6. NoPreview(todo)
  BY <1>3 DEF Share, Update, Check, NoPreview
<1>7. Climbs(r, todo)
  BY <1>3, <1>4, <1>5 DEF Climbs, Above
<1>8. \A j \in 1..5 : todo[j].row # <<"problem", 0>>
  BY <1>3 DEF Share, Update, Check
<1>. QED BY <1>1, <1>2, <1>3, <1>7, <1>8, FreshSorted

LEMMA RestoreSorted ==
    ASSUME NEW r, Requested(r), r.kind = "restore", NEW saw, NEW held, NEW t, \A l \in held : l.tx # t
    PROVE  Sorted(r, Program(r, saw), held, t)
<1>1. PICK todo : todo = Program(r, saw)
  OBVIOUS
<1>2. todo \in Seq(StepType)
  BY <1>1, ShortPrograms DEF Ordered, Revisions
<1>3. /\ Len(todo) = 6
      /\ todo[1] = Update("catalog", 0) /\ todo[2] = Update("users", r.actor)
      /\ todo[3] = Update("memberships", r.actor) /\ todo[4] = Update("grants", r.actor)
      /\ todo[5] = Check("judge") /\ todo[6] = Update("tags", 0)
  BY <1>1 DEF Program, lockManagingActor, lockUserPolicyForAuthorization
<1>4. \A i \in 1..6 : todo[i].do = "lock" => i \in {1, 2, 3, 4, 6}
  BY <1>3 DEF Share, Update, Check
<1>5. /\ Level(todo[1].row) = 1 /\ Level(todo[2].row) = 3 /\ Level(todo[3].row) = 5
      /\ Level(todo[4].row) = 6 /\ Level(todo[6].row) = 7
  BY <1>3, LockLevels
<1>6. NoPreview(todo)
  BY <1>3 DEF Share, Update, Check, NoPreview
<1>7. Climbs(r, todo)
  BY <1>3, <1>4, <1>5 DEF Climbs, Above
<1>8. \A j \in 1..6 : todo[j].row # <<"problem", 0>>
  BY <1>3 DEF Share, Update, Check
<1>. QED BY <1>1, <1>2, <1>3, <1>7, <1>8, FreshSorted

LEMMA DisableSorted ==
    ASSUME NEW r, Requested(r), r.kind = "disable", NEW saw, NEW held, NEW t, \A l \in held : l.tx # t
    PROVE  Sorted(r, Program(r, saw), held, t)
<1>1. PICK todo : todo = Program(r, saw)
  OBVIOUS
<1>2. todo \in Seq(StepType)
  BY <1>1, ShortPrograms DEF Ordered, Revisions
<1>3. /\ Len(todo) = 2
      /\ todo[1] = Update("users", r.target) /\ todo[2] = Update("token", r.target)
  BY <1>1 DEF Program
<1>4. \A i \in 1..2 : todo[i].do = "lock" => i \in {1, 2}
  BY <1>3 DEF Share, Update, Check
<1>5. /\ Level(todo[1].row) = 3 /\ Level(todo[2].row) = 4
  BY <1>3, LockLevels
<1>6. NoPreview(todo)
  BY <1>3 DEF Share, Update, Check, NoPreview
<1>7. Climbs(r, todo)
  BY <1>3, <1>4, <1>5 DEF Climbs, Above
<1>8. \A j \in 1..2 : todo[j].row # <<"problem", 0>>
  BY <1>3 DEF Share, Update, Check
<1>. QED BY <1>1, <1>2, <1>3, <1>7, <1>8, FreshSorted

LEMMA DeactivationSorted ==
    ASSUME NEW r, Requested(r), r.kind = "deactivate", NEW saw, NEW held, NEW t, \A l \in held : l.tx # t
    PROVE  Sorted(r, Program(r, saw), held, t)
<1>1. PICK todo : todo = Program(r, saw)
  OBVIOUS
<1>2. todo \in Seq(StepType)
  BY <1>1, DeactivationProgram DEF Ordered
<1>3. /\ Len(todo) = 15
      /\ todo[1] = Update("catalog", 0) /\ todo[2] = Update("users", r.actor)
      /\ todo[3] = Update("memberships", r.actor) /\ todo[4] = Update("grants", r.actor)
      /\ todo[5] = Check("judge") /\ todo[6] = Update("tags", 0) /\ todo[7] = Check("preview")
      /\ todo[8] = Update("catalog", 0) /\ todo[9] = Update("users", r.actor)
      /\ todo[10] = Update("memberships", r.actor) /\ todo[11] = Update("grants", r.actor)
      /\ todo[12] = Check("judge") /\ todo[13] = Update("tags", 0)
      /\ todo[14] = Update("problem", 0) /\ todo[15] = Check("impact")
  BY <1>1 DEF Program, lockManagingActor, lockUserPolicyForAuthorization
<1>4. \A i \in 1..15 : todo[i].do = "lock" => i \in {1, 2, 3, 4, 6, 8, 9, 10, 11, 13, 14}
  BY <1>3 DEF Share, Update, Check
<1>5. /\ Level(todo[1].row) = 1 /\ Level(todo[2].row) = 3 /\ Level(todo[3].row) = 5
      /\ Level(todo[4].row) = 6 /\ Level(todo[6].row) = 7
      /\ Level(todo[8].row) = 1 /\ Level(todo[9].row) = 3 /\ Level(todo[10].row) = 5
      /\ Level(todo[11].row) = 6 /\ Level(todo[13].row) = 7
  BY <1>3, LockLevels
<1>6. \A i, j \in 1..15 : i < 7 /\ j > 7 => ~Quiet(todo, i, j)
  BY <1>3 DEF Quiet, Check
<1>7. Climbs(r, todo)
  <2>1. SUFFICES ASSUME NEW i \in 1..15, NEW j \in 1..15, i < j, todo[i].do = "lock",
                        todo[j].do = "lock", Quiet(todo, i, j)
                 PROVE  Above(r, todo[i].row, todo[j])
    BY <1>3 DEF Climbs
  <2>2. CASE j = 14
    BY <1>3, <2>2 DEF Above, Again
  <2>3. CASE j < 7
    <3>1. i \in {1, 2, 3, 4, 6} /\ j \in {1, 2, 3, 4, 6}
      BY <1>4, <2>1, <2>3
    <3>. QED BY <1>5, <2>1, <3>1 DEF Above
  <2>4. CASE j > 7 /\ j # 14
    <3>1. i \in {8, 9, 10, 11, 13} /\ j \in {8, 9, 10, 11, 13}
      BY <1>4, <1>6, <2>1, <2>4
    <3>. QED BY <1>5, <2>1, <3>1 DEF Above
  <2>5. j # 7
    BY <1>4, <2>1
  <2>. QED BY <2>2, <2>3, <2>4, <2>5
<1>8. \A j \in 1..15 : todo[j].row = <<"problem", 0>> => j = 14
  BY <1>3 DEF Share, Update, Check
<1>9. Secured(todo, held, t, CatalogLock(r), 14)
  <2>1. Quiet(todo, 8 + 1, 14 - 1)
    <3>1. \A k \in (8 + 1)..(14 - 1) : k \in {9, 10, 11, 12, 13}
      OBVIOUS
    <3>. QED BY <1>3, <3>1 DEF Quiet, Update, Check
  <2>2. 8 \in 1..(14 - 1) /\ todo[8] = CatalogLock(r)
    BY <1>3 DEF CatalogLock
  <2>. QED BY <2>1, <2>2 DEF Secured
<1>. QED BY <1>1, <1>2, <1>3, <1>7, <1>8, <1>9, FreshSorted

LEMMA ProgramSorted ==
    ASSUME NEW r, Requested(r), r.kind \in Orderly, NEW saw, NEW held, NEW t, \A l \in held : l.tx # t
    PROVE  Sorted(r, Program(r, saw), held, t)
BY SaveSorted, OverrideSorted, SuggestSorted, CompleteSorted, AuthenticateSorted, RestoreSorted,
   DisableSorted, DeactivationSorted DEF Orderly, AllKinds, Administration

LEMMA SortedGoesOn ==
    ASSUME NEW r, NEW todo, todo # <<>>, NEW held, NEW later, NEW t, Sorted(r, todo, held, t),
           todo[1].do # "preview" => \A st : Lock(t, st) \in held => Lock(t, st) \in later,
           todo[1].do = "preview" => \A l \in later : l.tx # t,
           todo[1].do = "lock" /\ Found(todo[1]) => Lock(t, todo[1]) \in later,
           \A l \in later : l.tx = t =>
               l \in held \/ (/\ todo[1].do = "lock" /\ Level(l.row) = Level(todo[1].row)
                              /\ l.row = <<"problem", 0>> => todo[1].row = l.row)
    PROVE  Sorted(r, Tail(todo), later, t)
<1>1. todo \in Seq(StepType) /\ Climbs(r, todo)
  BY DEF Sorted
<1>2. /\ Tail(todo) \in Seq(StepType) /\ Len(Tail(todo)) = Len(todo) - 1
      /\ Len(todo) \in Nat /\ Len(todo) > 0
      /\ \A i \in 1..(Len(todo) - 1) : Tail(todo)[i] = todo[i + 1]
  BY <1>1
<1>3. \A i \in 1..Len(Tail(todo)) : Tail(todo)[i] = todo[i + 1] /\ i + 1 \in 1..Len(todo) /\ i \in 1..Len(todo)
  BY <1>2
<1>4. \A i, j \in 1..Len(Tail(todo)) : Quiet(Tail(todo), i, j) => Quiet(todo, i + 1, j + 1)
  <2>1. SUFFICES ASSUME NEW i \in 1..Len(Tail(todo)), NEW j \in 1..Len(Tail(todo)),
                        Quiet(Tail(todo), i, j), NEW k \in (i + 1)..(j + 1)
                 PROVE  todo[k].do # "preview"
    BY DEF Quiet
  <2>2. k - 1 \in i..j /\ k - 1 \in 1..Len(Tail(todo)) /\ (k - 1) + 1 = k
    BY <1>2, <2>1
  <2>3. Tail(todo)[k - 1] = todo[k]
    BY <1>3, <2>2
  <2>. QED BY <2>1, <2>2, <2>3 DEF Quiet
<1>5. Climbs(r, Tail(todo))
  <2>1. SUFFICES ASSUME NEW i \in 1..Len(Tail(todo)), NEW j \in 1..Len(Tail(todo)), i < j,
                        Tail(todo)[i].do = "lock", Tail(todo)[j].do = "lock", Quiet(Tail(todo), i, j)
                 PROVE  Above(r, Tail(todo)[i].row, Tail(todo)[j])
    BY DEF Climbs
  <2>2. i + 1 < j + 1 /\ Quiet(todo, i + 1, j + 1)
    BY <1>2, <1>4, <2>1
  <2>. QED BY <1>1, <1>3, <2>1, <2>2 DEF Climbs
<1>6. ASSUME NEW st, st.do = "lock", Found(st), NEW j \in 1..Len(Tail(todo)),
             Secured(todo, held, t, st, j + 1)
      PROVE  Secured(Tail(todo), later, t, st, j)
  BY <1>1, <1>3, <1>6, SecuredMoves
<1>7. r.kind = "override" => \A j \in 1..Len(Tail(todo)) :
          Tail(todo)[j] = Share("users", r.actor)
          => Secured(Tail(todo), later, t, Update("users", r.actor), j)
  <2>1. Update("users", r.actor).do = "lock" /\ Found(Update("users", r.actor))
    BY DEF Update, Found
  <2>. QED BY <1>3, <1>6, <2>1 DEF Sorted
<1>8. CatalogLock(r).do = "lock" /\ Found(CatalogLock(r)) /\ CatalogLock(r).row = <<"catalog", 0>>
  BY DEF CatalogLock, Found, Share, Update
<1>9. \A j \in 1..Len(Tail(todo)) :
          Tail(todo)[j].row = <<"problem", 0>> => Secured(Tail(todo), later, t, CatalogLock(r), j)
  BY <1>3, <1>6, <1>8 DEF Sorted
<1>10. ASSUME NEW l \in later, l.tx = t, NEW j \in 1..Len(Tail(todo)),
              Tail(todo)[j].do = "lock", Quiet(Tail(todo), 1, j)
       PROVE  Above(r, l.row, Tail(todo)[j])
  <2>1. todo[1].do # "preview"
    BY <1>10
  <2>2. Quiet(todo, 1, j + 1)
    <3>1. 1 \in 1..Len(Tail(todo)) /\ 1 + 1 = 2
      BY <1>2, <1>10
    <3>2. Quiet(todo, 2, j + 1)
      BY <1>4, <1>10, <3>1
    <3>3. \A k \in 1..(j + 1) : k = 1 \/ k \in 2..(j + 1)
      BY <1>2
    <3>. QED BY <2>1, <3>2, <3>3 DEF Quiet
  <2>3. CASE l \in held
    BY <1>3, <1>10, <2>2, <2>3 DEF Sorted
  <2>4. CASE todo[1].do = "lock" /\ Level(l.row) = Level(todo[1].row)
    <3>1. 1 \in 1..Len(todo) /\ 1 < j + 1
      BY <1>2, <1>10
    <3>2. Above(r, todo[1].row, todo[j + 1])
      BY <1>1, <1>3, <1>10, <2>2, <2>4, <3>1 DEF Climbs
    <3>. QED BY <1>3, <2>4, <3>2 DEF Above
  <2>. QED BY <1>10, <2>3, <2>4
<1>11. ASSUME NEW l \in later, l.tx = t, l.row = <<"problem", 0>>
       PROVE  Lock(t, CatalogLock(r)) \in later
  <2>1. todo[1].do # "preview"
    BY <1>11
  <2>2. Lock(t, CatalogLock(r)) \in held
    <3>1. CASE l \in held
      BY <1>11, <3>1 DEF Sorted
    <3>2. CASE todo[1].row = <<"problem", 0>>
      <4>1. 1 \in 1..Len(todo)
        BY <1>2
      <4>2. Secured(todo, held, t, CatalogLock(r), 1)
        BY <3>2, <4>1 DEF Sorted
      <4>. QED BY <4>2 DEF Secured
    <3>. QED BY <1>11, <3>1, <3>2
  <2>. QED BY <2>1, <2>2
<1>. QED BY <1>2, <1>5, <1>7, <1>9, <1>10, <1>11 DEF Sorted

LEMMA SortedOthers ==
    ASSUME NEW s, SortedTx(s), tx'[s] = tx[s], \A l : l.tx = s => (l \in locks' <=> l \in locks)
    PROVE  SortedTx(s)'
<1>1. Asked(s)' = Asked(s) /\ Todo(s)' = Todo(s) /\ Running(s)' = Running(s)
  BY DEF Asked, Todo, Running
<1>2. CASE ~Running(s)
  BY <1>1, <1>2 DEF SortedTx
<1>3. CASE Running(s) /\ Asked(s).kind \in Orderly
  <2>1. PICK r, todo, later : r = Asked(s) /\ todo = Todo(s) /\ later = locks'
    OBVIOUS
  <2>2. Sorted(r, todo, locks, s)
    BY <1>3, <2>1 DEF SortedTx
  <2>3. \A l : l.tx = s => (l \in later <=> l \in locks)
    BY <2>1
  <2>4. \A st : Lock(s, st) \in locks => Lock(s, st) \in later
    BY <2>3 DEF Lock
  <2>5. \A st, j : Secured(todo, locks, s, st, j) => Secured(todo, later, s, st, j)
    BY <2>4 DEF Secured
  <2>6. Sorted(r, todo, later, s)
    BY <2>2, <2>3, <2>4, <2>5 DEF Sorted
  <2>. QED BY <1>1, <1>3, <2>1, <2>6 DEF SortedTx
<1>4. CASE Running(s) /\ Asked(s).kind \notin Orderly
  BY <1>1, <1>4 DEF SortedTx
<1>. QED BY <1>2, <1>3, <1>4

LEMMA SortedEnds ==
    ASSUME NEW t, tx'[t] = Ended, locks' = Released(t)
    PROVE  SortedTx(t)'
<1>1. ~Running(t)'
  BY DEF Running, Asked, Ended, EmptySlot, AllKinds
<1>2. \A l \in locks' : l.tx # t
  BY DEF Released
<1>. QED BY <1>1, <1>2 DEF SortedTx

(* A transaction that ends, with a commit or without.                      *)
LEMMA EndKeepsOrder ==
    ASSUME OrderIInv, NEW t \in Tx, tx' = [tx EXCEPT ![t] = Ended], locks' = Released(t)
    PROVE  \A s \in Tx : SortedTx(s)'
<1>1. tx'[t] = Ended /\ \A s \in Tx : s # t => tx'[s] = tx[s]
  BY DEF OrderIInv, LocksIInv, World
<1>2. \A s : s # t => \A l : l.tx = s => (l \in locks' <=> l \in locks)
  BY DEF Released
<1>. QED BY <1>1, <1>2, SortedEnds, SortedOthers DEF OrderIInv

LEMMA StepKeepsOrder ==
    ASSUME OrderIInv, NEW t \in Tx, Between(t), NEW saw, NEW judged, Goes(t, saw, judged),
           \A l : l.tx # t => (l \in locks' <=> l \in locks),
           NextStep(t).do # "preview" => \A st : Lock(t, st) \in locks => Lock(t, st) \in locks',
           NextStep(t).do = "preview" => \A l \in locks' : l.tx # t,
           NextStep(t).do = "lock" /\ Found(NextStep(t)) => Lock(t, NextStep(t)) \in locks',
           \A l \in locks' : l.tx = t =>
               l \in locks \/ (/\ NextStep(t).do = "lock" /\ Level(l.row) = Level(NextStep(t).row)
                               /\ l.row = <<"problem", 0>> => NextStep(t).row = l.row)
    PROVE  \A s \in Tx : SortedTx(s)'
<1>1. PICK r, todo, later : r = Asked(t) /\ todo = Todo(t) /\ later = locks'
  OBVIOUS
<1>2. PICK x : x = [request |-> r, saw |-> saw, judged |-> judged, todo |-> Tail(todo)]
  OBVIOUS
<1>3. tx'[t] = x /\ \A s \in Tx : s # t => tx'[s] = tx[s]
  BY <1>1, <1>2 DEF Goes, OrderIInv, LocksIInv, World
<1>4. \A s \in Tx : s # t => SortedTx(s)'
  BY <1>3, SortedOthers DEF OrderIInv
<1>5. Asked(t)' = r /\ Todo(t)' = Tail(todo) /\ Running(t)' = Running(t) /\ Running(t)
  BY <1>1, <1>2, <1>3 DEF Asked, Todo, Running, Between
<1>6. ASSUME r.kind \in Orderly  PROVE Sorted(r, Tail(todo), later, t)
  <2>1. Sorted(r, todo, locks, t) /\ todo # <<>>
    BY <1>1, <1>5, <1>6 DEF OrderIInv, SortedTx, Between, Todo
  <2>2. todo[1] = NextStep(t)
    BY <1>1, <2>1 DEF NextStep, Todo, Sorted
  <2>. QED BY <1>1, <2>1, <2>2, SortedGoesOn, ZenonT(30)
<1>7. SortedTx(t)'
  BY <1>1, <1>5, <1>6 DEF SortedTx
<1>. QED BY <1>4, <1>7

LEMMA AcquireKeepsOrder ==
    ASSUME OrderIInv, NEW t \in Tx, Acquire(t)
    PROVE  \A s \in Tx : SortedTx(s)'
<1>1. Goes(t, tx[t].saw, tx[t].judged)
  BY GoingOn DEF Acquire, Advance, OrderIInv
<1>2. Between(t) /\ NextStep(t).do = "lock"
  BY DEF Acquire
<1>3. \A l : l \in locks => l \in locks'
  BY DEF Acquire
<1>4. \A l : l \in locks' /\ l \notin locks => l.tx = t /\ l.row = LockOf(t)
  BY DEF Acquire
<1>5. PICK row : row = NextStep(t).row
  OBVIOUS
<1>6. Level(LockOf(t)) = Level(row) /\ (LockOf(t) = <<"problem", 0>> => row = LockOf(t))
  BY <1>5, Levels DEF LockOf, Level
<1>7. Found(NextStep(t)) => Lock(t, NextStep(t)) \in locks'
  BY AcquireTakes
<1>. QED BY <1>1, <1>2, <1>3, <1>4, <1>5, <1>6, <1>7, StepKeepsOrder

LEMMA ProceedKeepsOrder ==
    ASSUME OrderIInv, NEW t \in Tx, Proceed(t)
    PROVE  \A s \in Tx : SortedTx(s)'
<1>1. PICK judged : judged = (tx[t].judged \/ NextStep(t).do = "judge")
  OBVIOUS
<1>2. tx' = [tx EXCEPT ![t].todo = Tail(@), ![t].judged = judged]
  BY <1>1, TxForm DEF Proceed, OrderIInv
<1>3. Goes(t, tx[t].saw, judged)
  BY <1>2, GoingOn DEF OrderIInv
<1>4. Between(t) /\ NextStep(t).do \notin {"lock", "preview"} /\ locks' = locks
  BY DEF Proceed
<1>. QED BY <1>3, <1>4, StepKeepsOrder

LEMMA PreviewKeepsOrder ==
    ASSUME OrderIInv, NEW t \in Tx, Preview(t)
    PROVE  \A s \in Tx : SortedTx(s)'
<1>1. Goes(t, Impact, FALSE)
  BY GoingOn DEF Preview, OrderIInv
<1>2. Between(t) /\ NextStep(t).do = "preview" /\ locks' = Released(t)
  BY DEF Preview
<1>. QED BY <1>1, <1>2, StepKeepsOrder DEF Released

LEMMA BeginKeepsOrder ==
    ASSUME OrderIInv, NEW t \in Tx, tx[t] = Unused, NEW r \in Requests, Begin(t, r)
    PROVE  \A s \in Tx : SortedTx(s)'
<1>1. PICK saw : saw = Saw(r.kind)
  OBVIOUS
<1>2. PICK x : x = [request |-> r, saw |-> saw, judged |-> FALSE, todo |-> Program(r, saw)]
  OBVIOUS
<1>3. tx' = [tx EXCEPT ![t] = x] /\ locks' = locks /\ Requested(r)
  BY <1>1, <1>2 DEF Begin, Requested, Acceptable
<1>4. tx'[t] = x /\ \A s \in Tx : s # t => tx'[s] = tx[s]
  BY <1>3 DEF OrderIInv, LocksIInv, World
<1>5. \A s \in Tx : s # t => SortedTx(s)'
  BY <1>3, <1>4, SortedOthers DEF OrderIInv
<1>6. \A l \in locks : l.tx # t
  <2>1. ~Running(t)
    BY DEF Running, Asked, Unused, EmptySlot, AllKinds
  <2>. QED BY <2>1 DEF OrderIInv, SortedTx
<1>7. r.kind \in Orderly => Sorted(r, Program(r, saw), locks, t)
  BY <1>3, <1>6, ProgramSorted
<1>8. SortedTx(t)'
  <2>1. Asked(t)' = r /\ Todo(t)' = Program(r, saw)
    BY <1>2, <1>4 DEF Asked, Todo
  <2>2. Running(t)'
    BY <2>1 DEF Running, Requests, AllKinds
  <2>. QED BY <1>3, <1>7, <2>1, <2>2 DEF SortedTx
<1>. QED BY <1>5, <1>8

LEMMA OrderNext == OrderIInv /\ [Next]_vars => OrderIInv'
<1>. SUFFICES ASSUME OrderIInv, [Next]_vars  PROVE OrderIInv'
  OBVIOUS
<1>1. LocksIInv'
  BY LocksNext DEF OrderIInv
<1>2. ASSUME NEW t \in Tx, tx[t] = Unused, \E r \in Workloads[mix][t] : Begin(t, r)
      PROVE  \A s \in Tx : SortedTx(s)'
  <2>1. Workloads[mix] \in [Tx -> SUBSET Requests]
    BY WorkloadAssumption DEF WorkloadAssumption, OrderIInv, LocksIInv, World
  <2>. QED BY <1>2, <2>1, BeginKeepsOrder
<1>3. ASSUME NEW t \in Tx, Step(t)
      PROVE  \A s \in Tx : SortedTx(s)'
  <2>1. CASE Acquire(t)
    BY <1>3, <2>1, AcquireKeepsOrder
  <2>2. CASE Proceed(t)
    BY <1>3, <2>2, ProceedKeepsOrder
  <2>3. CASE Preview(t)
    BY <1>3, <2>3, PreviewKeepsOrder
  <2>4. CASE Refuse(t) \/ Victim(t)
    BY <1>3, <2>4, EndKeepsOrder DEF Refuse, Victim, Abort
  <2>5. CASE Commit(t)
    BY <1>3, <2>5, EndKeepsOrder DEF Commit, CommitRevision, CommitRobot, CommitDeactivation,
       CommitRestore, CommitRole, CommitDelta, CommitRemoval, Finish
  <2>. QED BY <1>3, <2>1, <2>2, <2>3, <2>4, <2>5 DEF Step
<1>4. CASE UNCHANGED vars
  <2>1. UNCHANGED <<tx, locks>>
    BY <1>4 DEF vars
  <2>. QED BY <1>1, <2>1, SortedOthers DEF OrderIInv
<1>. QED BY <1>1, <1>2, <1>3, <1>4 DEF Next, OrderIInv

LEMMA OrderInit == Init => OrderIInv
<1>. SUFFICES ASSUME Init  PROVE \A t \in Tx : SortedTx(t)
  BY LocksInit DEF OrderIInv
<1>1. ASSUME NEW t \in Tx  PROVE ~Running(t)
  BY DEF Init, Running, Asked, Unused, EmptySlot, AllKinds
<1>2. locks = {}
  BY DEF Init
<1>. QED BY <1>1, <1>2 DEF SortedTx

(* In a circle of waits without an administrator each one waits for one    *)
(* that waits at a higher table.                                           *)
LEMMA WaitsClimb ==
    ASSUME OrderIInv, NEW S \in SUBSET Tx, InCycle(S),
           \A t \in S : Asked(t).kind \notin Administration \cup {"history"}, NEW t \in S
    PROVE  \E s \in S : Level(NextStep(t).row) < Level(NextStep(s).row)
<1>1. \A s \in S : /\ Between(s) /\ NextStep(s).do = "lock" /\ Running(s) /\ Asked(s).kind \in Orderly
                   /\ Sorted(Asked(s), Todo(s), locks, s) /\ Todo(s) # <<>>
                   /\ \E l \in locks : /\ l.tx \in S /\ l.tx # s /\ l.row = LockOf(s)
                                       /\ "update" \in {l.mode, NextStep(s).mode}
  <2>1. SUFFICES ASSUME NEW s \in S
                 PROVE  /\ Between(s) /\ NextStep(s).do = "lock" /\ Running(s) /\ Asked(s).kind \in Orderly
                        /\ Sorted(Asked(s), Todo(s), locks, s) /\ Todo(s) # <<>>
                        /\ \E l \in locks : /\ l.tx \in S /\ l.tx # s /\ l.row = LockOf(s)
                                            /\ "update" \in {l.mode, NextStep(s).mode}
    OBVIOUS
  <2>2. Blockers(s) \cap S # {}
    BY DEF InCycle
  <2>3. Between(s) /\ NextStep(s).do = "lock"
    BY <2>2 DEF Blockers
  <2>4. Running(s) /\ Todo(s) # <<>> /\ Asked(s).kind \in Orderly
    BY <2>3 DEF Between, Todo, Running, Orderly
  <2>5. Sorted(Asked(s), Todo(s), locks, s)
    BY <2>4 DEF OrderIInv, SortedTx
  <2>6. \E l \in locks : /\ l.tx \in S /\ l.tx # s /\ l.row = LockOf(s)
                         /\ "update" \in {l.mode, NextStep(s).mode}
    BY <2>2 DEF Blockers
  <2>. QED BY <2>3, <2>4, <2>5, <2>6
<1>2. PICK l \in locks : l.tx \in S /\ l.tx # t /\ l.row = LockOf(t)
  BY <1>1
<1>3. PICK s \in S : s = l.tx
  BY <1>2
<1>4. PICK r, todo : r = Asked(s) /\ todo = Todo(s)
  OBVIOUS
<1>5. /\ Sorted(r, todo, locks, s) /\ todo \in Seq(StepType) /\ todo # <<>>
      /\ NextStep(s) = todo[1] /\ 1 \in 1..Len(todo) /\ todo[1].do = "lock" /\ Quiet(todo, 1, 1)
  <2>1. Sorted(r, todo, locks, s) /\ todo # <<>> /\ NextStep(s).do = "lock"
    BY <1>1, <1>4
  <2>2. todo \in Seq(StepType)
    BY <2>1 DEF Sorted
  <2>3. NextStep(s) = todo[1] /\ 1 \in 1..Len(todo)
    BY <1>4, <2>1, <2>2 DEF NextStep, Todo
  <2>. QED BY <2>1, <2>2, <2>3 DEF Quiet
<1>6. Above(r, l.row, todo[1])
  BY <1>3, <1>5 DEF Sorted
<1>7. Level(l.row) = Level(NextStep(t).row)
  BY <1>2 DEF LockOf, Level
<1>8. PICK k \in locks : /\ k.tx \in S /\ k.tx # s /\ k.row = LockOf(s)
                         /\ "update" \in {k.mode, NextStep(s).mode}
  BY <1>1
<1>9. ~Again(r, todo[1])
  <2>1. SUFFICES ASSUME Again(r, todo[1])  PROVE FALSE
    OBVIOUS
  <2>2. CASE r.kind = "override" /\ todo[1] = Share("users", r.actor)
    <3>1. Secured(todo, locks, s, Update("users", r.actor), 1)
      BY <1>5, <2>2 DEF Sorted
    <3>2. Lock(s, Update("users", r.actor)) \in locks
      BY <3>1 DEF Secured
    <3>3. k.row = Update("users", r.actor).row
      BY <1>5, <1>8, <2>2 DEF LockOf, Share, Update
    <3>4. Lock(s, Update("users", r.actor)).mode = "update" /\ Lock(s, Update("users", r.actor)).tx = s
          /\ Lock(s, Update("users", r.actor)).row = k.row
      BY <3>3 DEF Lock, Update
    <3>. QED BY <1>8, <3>2, <3>4 DEF OrderIInv, LocksIInv, Exclusion
  <2>3. CASE r.kind = "deactivate" /\ todo[1] = Update("problem", 0)
    <3>1. Secured(todo, locks, s, CatalogLock(r), 1)
      BY <1>5, <2>3 DEF Sorted, Update
    <3>2. Lock(s, Update("catalog", 0)) \in locks
      BY <2>3, <3>1 DEF Secured, CatalogLock
    <3>3. k.row = <<"problem", 0>>
      BY <1>5, <1>8, <2>3 DEF LockOf, Update
    <3>4. PICK o \in S : o = k.tx
      BY <1>8
    <3>5. Sorted(Asked(o), Todo(o), locks, o)
      BY <1>1
    <3>6. Lock(o, CatalogLock(Asked(o))) \in locks
      BY <3>3, <3>4, <3>5 DEF Sorted
    <3>7. /\ CatalogLock(Asked(o)).row = Update("catalog", 0).row /\ Update("catalog", 0).mode = "update"
      BY DEF CatalogLock, Share, Update
    <3>8. LocksIInv /\ s # o
      BY <1>8, <3>4 DEF OrderIInv
    <3>. QED BY <3>2, <3>6, <3>7, <3>8, NoConflict
  <2>. QED BY <2>1, <2>2, <2>3 DEF Again
<1>. QED BY <1>5, <1>6, <1>7, <1>9 DEF Above

(* Transactions that wait for one another in a circle include one of the   *)
(* administration or of the history import: all others lock the tables in  *)
(* one order, so each waits for a row of a higher level than the one       *)
(* before, and the levels end.                                             *)
THEOREM DeadlocksNeedAdministration == Spec => []OnlyAdministrationDeadlocks
<1>1. OrderIInv => OnlyAdministrationDeadlocks
  <2>1. SUFFICES ASSUME OrderIInv, NEW S \in SUBSET Tx, InCycle(S),
                        \A t \in S : Asked(t).kind \notin Administration \cup {"history"}
                 PROVE  FALSE
    BY DEF OnlyAdministrationDeadlocks
  <2>2. PICK level : level = [t \in S |-> Level(NextStep(t).row)]
    OBVIOUS
  <2>3. \A t \in S : level[t] \in 1..7
    BY <2>2 DEF Level
  <2>4. \A t \in S : \E s \in S : level[t] < level[s]
    BY <2>1, <2>2, WaitsClimb
  <2>5. S # {}
    BY <2>1 DEF InCycle
  <2>6. ASSUME NEW n \in 1..7, \A t \in S : level[t] <= n  PROVE \A t \in S : level[t] <= n - 1
    BY <2>3, <2>4, <2>6
  <2>7. \A t \in S : level[t] <= 7
    BY <2>3
  <2>8. \A t \in S : level[t] <= 4
    <3>1. \A t \in S : level[t] <= 6
      BY <2>6, <2>7
    <3>2. \A t \in S : level[t] <= 5
      BY <2>6, <3>1
    <3>. QED BY <2>6, <3>2
  <2>9. \A t \in S : level[t] <= 1
    <3>1. \A t \in S : level[t] <= 3
      BY <2>6, <2>8
    <3>2. \A t \in S : level[t] <= 2
      BY <2>6, <3>1
    <3>. QED BY <2>6, <3>2
  <2>10. \A t \in S : level[t] <= 0
    BY <2>6, <2>9
  <2>. QED BY <2>3, <2>5, <2>10
<1>. QED BY <1>1, OrderInit, OrderNext, PTL DEF Spec
=============================================================================
