------------------------------ MODULE RowLocks ------------------------------
(***************************************************************************)
(* The PostgreSQL transactions that write problems, the tag catalog and    *)
(* permissions, at the granularity of their row locks.  A transaction is a *)
(* program of lock requests and checks that ends in one commit; a request  *)
(* waits while another transaction holds the row in a conflicting mode,    *)
(* and PostgreSQL ends a cycle of waits by aborting one of its members.    *)
(*                                                                         *)
(* There is one problem, one role that allows or denies one permission to  *)
(* its members, and accounts that have the permission of their own or not. *)
(* A membership that was revoked keeps its row.  Review rounds, assignments*)
(* and opinions are locked only under the problem row and have no row of   *)
(* their own here.                                                         *)
(***************************************************************************)
EXTENDS Integers, Sequences, FiniteSets, TLC

CONSTANTS
    Tx,      \* transactions: each slot is used once
    Users,   \* account numbers
    Robots,  \* the accounts of robots
    Own,     \* the accounts with a grant of the permission of their own
    Tags,    \* leaf tags of the catalog
    Rosters, \* the memberships the role may have at the start
    Workloads \* each says which requests every slot may run

ASSUME RowLocksAssumption == /\ Users \subseteq Nat /\ IsFiniteSet(Users)
                             /\ Robots \subseteq Users /\ Own \subseteq Users
                             /\ Rosters \subseteq SUBSET Users

VARIABLES
    mix,     \* the workload of this behaviour
    tx,      \* per slot: what was asked, what it has seen, what is left to do
    locks,   \* the row locks held
    rows,    \* accounts with a membership row of the role
    members, \* the ones whose membership is not revoked
    effect,  \* what the role does with the permission: allow or deny
    barred,  \* accounts with a deny of their own, or disabled
    edition, \* revision of the role
    active,  \* tags that are not deactivated
    version, \* version of the catalog
    tagged,  \* tags of the problem's current revision
    owner,   \* owner of the problem
    revision \* current revision of the problem

policyVars == <<rows, members, effect, barred, edition>>
catalogVars == <<active, version>>
problemVars == <<tagged, owner, revision>>
vars == <<mix, tx, locks, policyVars, catalogVars, problemVars>>

Humans    == Users \ Robots
Effects   == {"allow", "deny"}
Permitted(u) == /\ u \in Own \/ (u \in members /\ effect = "allow")
                /\ ~(u \in members /\ effect = "deny")
                /\ u \notin barred
TagSets   == (SUBSET Tags) \ {{}}
-----------------------------------------------------------------------------
(* Programs.                                                               *)
Share(table, id)  == [do |-> "lock", row |-> <<table, id>>, mode |-> "share"]
Update(table, id) == [do |-> "lock", row |-> <<table, id>>, mode |-> "update"]
Check(what)       == [do |-> what, row |-> <<"none", 0>>, mode |-> "none"]

(* Users in ascending order, each at its rank.                             *)
Rank(us, u)     == Cardinality({v \in us : v <= u})
SortedUsers     == [us \in SUBSET Users |->
                       [i \in 1..Cardinality(us) |-> CHOOSE u \in us : Rank(us, u) = i]]
LockUsers(us)   == [i \in 1..Cardinality(us) |-> Update("users", SortedUsers[us][i])]

(* The user row first, then its memberships, then the grants they reach.   *)
\* mutant: only the rows that exist are locked, and not the user row
lockUserPolicyForAuthorization_NoUserRow(u) ==
    <<Update("memberships", u), Update("grants", u)>>

lockUserPolicyForAuthorization(u) ==
    <<Update("users", u), Update("memberships", u), Update("grants", u)>>

lockManagingActor(u) == lockUserPolicyForAuthorization(u) \o <<Check("judge")>>

revalidateIdentity(u) ==
    <<Share("users", u), Share("token", u), Share("memberships", u), Share("grants", u),
      Check("judge")>>

(* Both windows of the tag protocol: writers share the catalog row,        *)
(* managers hold it exclusively.                                           *)
\* mutant: problem writers do not take the catalog row first
lockProblem_NoCatalog == <<Update("problem", 0)>>

lockProblem == <<Share("catalog", 0), Update("problem", 0)>>

(* A new revision refers to its author and, with the trigger's lock, tags. *)
insertProblemRevision(u) == <<Share("users", u), Share("tags", 0), Check("leaves")>>

lockRoleState ==
    <<Update("role", 0), Update("grants", 0)>>
    \o [i \in 1..Cardinality(Users) |-> Update("memberships", SortedUsers[Users][i])]
    \o <<Check("roster")>>

(* The whole program of an operation: who acts, on whom, and for a role    *)
(* change the members it saw and those it was asked to set.                *)
Program(x, saw) ==
    CASE x.kind = "save"     -> lockProblem \o <<Check("revision")>> \o insertProblemRevision(x.actor)
      [] x.kind = "override" -> lockProblem \o lockUserPolicyForAuthorization(x.actor)
                                \o <<Check("judge")>> \o insertProblemRevision(x.actor)
      [] x.kind = "suggest"  -> lockProblem \o <<Check("judge"), Check("leaves")>>
                                \o insertProblemRevision(x.actor)
      [] x.kind = "complete" -> lockProblem \o revalidateIdentity(x.actor)
      [] x.kind = "authenticate" ->
            <<Share("users", x.actor), Update("token", x.actor),
              Update("memberships", x.actor), Update("grants", x.actor), Check("judge")>>
      [] x.kind = "deactivate" ->
            <<Update("catalog", 0)>> \o lockManagingActor(x.actor)
            \o <<Update("tags", 0), Check("preview"), Update("catalog", 0)>>
            \o lockManagingActor(x.actor)
            \o <<Update("tags", 0), Update("problem", 0), Check("impact")>>
      [] x.kind = "restore"  ->
            <<Update("catalog", 0)>> \o lockManagingActor(x.actor) \o <<Update("tags", 0)>>
      [] x.kind = "role"     ->
            LockUsers({x.actor} \cup saw.members \cup x.members)
            \o <<Check("judge")>> \o lockRoleState
      [] x.kind = "delta"    ->
            lockUserPolicyForAuthorization(SortedUsers[{x.actor, x.target}][1])
            \o lockUserPolicyForAuthorization(SortedUsers[{x.actor, x.target}][2])
            \o <<Check("judge")>>
      [] x.kind = "remove"   ->
            LockUsers({x.actor, x.target}) \o lockUserPolicyForAuthorization(x.actor)
            \o <<Check("judge"), Update("problem", 0), Update("memberships", x.target)>>
      [] x.kind = "disable"  -> <<Update("users", x.target), Update("token", x.target)>>
      [] x.kind = "history"  ->
            lockUserPolicyForAuthorization(x.actor) \o <<Check("judge")>>
            \o lockProblem \o insertProblemRevision(x.actor)

AllKinds == {"save", "override", "suggest", "complete", "authenticate", "deactivate",
             "restore", "role", "delta", "remove", "disable", "history"}

(* Operations that lock the policies of several accounts.                  *)
Administration == {"role", "delta", "remove"}

(* Operations that read the permission under the lock of the user row; the *)
(* others (finalizing, human opinions, suggestions) read it without.       *)
JudgedUnderLock == {"override", "complete", "authenticate", "deactivate", "restore", "role",
                    "delta", "remove", "history"}
-----------------------------------------------------------------------------
EmptySlot(kind) == [request |-> [kind |-> kind], saw |-> <<>>, judged |-> FALSE, todo |-> <<>>]
Unused     == EmptySlot("unused")
Ended      == EmptySlot("ended")
Asked(t)   == tx[t].request
Running(t) == Asked(t).kind \in AllKinds

AtEnd(t)    == Running(t) /\ tx[t].todo = <<>>
Between(t)  == Running(t) /\ tx[t].todo # <<>>
NextStep(t) == Head(tx[t].todo)

(* Rows a statement does not select are not locked: a membership that was  *)
(* never given, the grants of a role the account never had, the problem of *)
(* somebody else, a problem without the tag.                               *)
Finds(t) ==
    LET x == Asked(t)
        row == NextStep(t).row
    IN /\ row[1] \in {"memberships", "grants"} /\ row[2] # 0 => row[2] \in rows
       /\ x.kind = "remove" /\ row[1] = "problem" => owner = x.target
       /\ x.kind = "deactivate" /\ row[1] = "problem" => x.tag \in tagged

(* The grants of the role are the same rows for each of its members.       *)
LockOf(t) == LET row == NextStep(t).row
             IN IF row[1] = "grants" THEN <<"grants", 0>> ELSE row

Blockers(t) ==
    IF Between(t) /\ NextStep(t).do = "lock" /\ Finds(t)
    THEN {l.tx : l \in {k \in locks : /\ k.tx # t
                                      /\ k.row = LockOf(t)
                                      /\ "update" \in {k.mode, NextStep(t).mode}}}
    ELSE {}

InCycle(S) == S # {} /\ \A t \in S : Blockers(t) \cap S # {}

(* What a request carries.                                                 *)
Requests ==
    [kind : {"save", "suggest"}, actor : Humans, tags : TagSets]
    \cup [kind : {"override", "history"}, actor : Humans]
    \cup [kind : {"complete", "authenticate"}, actor : Robots]
    \cup [kind : {"deactivate"}, actor : Humans, tag : Tags, replacement : SUBSET Tags]
    \cup [kind : {"restore"}, actor : Humans, tag : Tags]
    \cup [kind : {"role"}, actor : Humans, members : SUBSET Users, effect : Effects]
    \cup [kind : {"delta", "remove"}, actor : Humans, target : Users]
    \cup [kind : {"disable"}, target : Robots]

ASSUME WorkloadAssumption == Workloads \in Seq([Tx -> SUBSET Requests])

Init ==
    /\ mix \in DOMAIN Workloads
    /\ tx = [t \in Tx |-> Unused]
    /\ locks = {}
    /\ rows \in Rosters
    /\ members \in Rosters /\ members \subseteq rows
    /\ effect = "allow"
    /\ barred = {}
    /\ edition = 0
    /\ active = Tags
    /\ version = 1
    /\ tagged \in TagSets
    /\ owner \in Humans
    /\ revision = 1


(* What is refused before a transaction begins.                            *)
Acceptable(r) ==
    CASE r.kind \in {"delta", "remove"} -> r.target # r.actor
      [] r.kind = "save"       -> Permitted(r.actor) /\ r.tags \subseteq active
      [] r.kind = "restore"    -> Permitted(r.actor) /\ r.tag \notin active
      [] r.kind = "deactivate" -> /\ Permitted(r.actor)
                                  /\ Cardinality(r.replacement) <= 1
                                  /\ r.tag \notin r.replacement
      [] OTHER -> TRUE

Impact == [version |-> version, revision |-> revision, tagged |-> tagged]

Saw(kind) == CASE kind = "save" -> [revision |-> revision]
               [] kind = "role" -> [members |-> members, edition |-> edition]
               [] OTHER -> <<>>

Begin(t, r) ==
    /\ tx[t] = Unused
    /\ Acceptable(r)
    /\ tx' = [tx EXCEPT ![t] = [request |-> r, saw |-> Saw(r.kind), judged |-> FALSE,
                                todo |-> Program(r, Saw(r.kind))]]
    /\ UNCHANGED <<locks, policyVars, catalogVars, problemVars>>

Advance(t) == tx' = [tx EXCEPT ![t].todo = Tail(@)]

Acquire(t) ==
    /\ Between(t)
    /\ NextStep(t).do = "lock"
    /\ Blockers(t) = {}
    /\ locks' = IF Finds(t)
                THEN locks \cup {[tx |-> t, row |-> LockOf(t), mode |-> NextStep(t).mode]}
                ELSE locks
    /\ Advance(t)
    /\ UNCHANGED <<policyVars, catalogVars, problemVars>>

Released(t) == {l \in locks : l.tx # t}

(* An error, a refusal or the victim of a deadlock: everything is undone.  *)
Abort(t) == /\ tx' = [tx EXCEPT ![t] = Ended]
            /\ locks' = Released(t)
            /\ UNCHANGED <<policyVars, catalogVars, problemVars>>

Victim(t) == /\ Blockers(t) # {}
             /\ \E S \in SUBSET Tx : t \in S /\ InCycle(S)
             /\ Abort(t)
-----------------------------------------------------------------------------
(* Checks.                                                                 *)
(* The tags of the revision a transaction writes.                          *)
NewTags(t) == IF Asked(t).kind \in {"save", "suggest"} THEN Asked(t).tags ELSE tagged

Passes(t, what) ==
    LET x == Asked(t)
        saw == tx[t].saw
    IN CASE what = "judge"    -> Permitted(x.actor)
         [] what = "revision" -> revision = saw.revision
         [] what = "leaves"   -> NewTags(t) \subseteq active
         [] what = "preview"  -> x.tag \in active /\ x.replacement \subseteq active
         [] what = "impact"   -> /\ saw.version = version
                                 /\ x.tag \in active /\ x.replacement \subseteq active
                                 /\ \/ saw.tagged = tagged /\ saw.revision = revision
                                    \/ x.tag \notin saw.tagged \cup tagged
                                 /\ tagged = {x.tag} => x.replacement # {}
         [] what = "roster"   -> saw.edition = edition /\ saw.members = members

Proceed(t) ==
    /\ Between(t)
    /\ NextStep(t).do \notin {"lock", "preview"}
    /\ Passes(t, NextStep(t).do)
    /\ tx' = [tx EXCEPT ![t].todo = Tail(@),
                        ![t].judged = @ \/ NextStep(t).do = "judge"]
    /\ UNCHANGED <<locks, policyVars, catalogVars, problemVars>>

(* The preview is a transaction of its own: the impact it saw is stored,   *)
(* and the confirmation comes later, in another one.                       *)
Preview(t) ==
    /\ Between(t)
    /\ NextStep(t).do = "preview"
    /\ Passes(t, "preview")
    /\ tx' = [tx EXCEPT ![t].todo = Tail(@), ![t].judged = FALSE, ![t].saw = Impact]
    /\ locks' = Released(t)
    /\ UNCHANGED <<policyVars, catalogVars, problemVars>>

Refuse(t) ==
    /\ Between(t)
    /\ NextStep(t).do # "lock"
    /\ ~Passes(t, NextStep(t).do)
    /\ Abort(t)
-----------------------------------------------------------------------------
(* Commits.                                                                *)
Finish(t) == /\ AtEnd(t)
             /\ tx' = [tx EXCEPT ![t] = Ended]
             /\ locks' = Released(t)

CommitRevision(t) ==
    /\ Finish(t)
    /\ Asked(t).kind \in {"save", "override", "suggest", "history"}
    /\ tagged' = NewTags(t)
    /\ revision' = revision + 1
    /\ UNCHANGED <<policyVars, catalogVars, owner>>

CommitRobot(t) ==
    /\ Finish(t)
    /\ Asked(t).kind \in {"complete", "authenticate"}
    /\ UNCHANGED <<policyVars, catalogVars, problemVars>>

(* The problem loses the tag; the replacement is for one that has no other.*)
CommitDeactivation(t) ==
    /\ Finish(t)
    /\ Asked(t).kind = "deactivate"
    /\ active' = active \ {Asked(t).tag}
    /\ version' = version + 1
    /\ tagged' = IF tagged = {Asked(t).tag} THEN Asked(t).replacement ELSE tagged \ {Asked(t).tag}
    /\ revision' = IF Asked(t).tag \in tagged THEN revision + 1 ELSE revision
    /\ UNCHANGED <<policyVars, owner>>

CommitRestore(t) ==
    /\ Finish(t)
    /\ Asked(t).kind = "restore"
    /\ active' = active \cup {Asked(t).tag}
    /\ version' = version + 1
    /\ UNCHANGED <<policyVars, problemVars>>

CommitRole(t) ==
    /\ Finish(t)
    /\ Asked(t).kind = "role"
    /\ members' = Asked(t).members
    /\ rows' = rows \cup Asked(t).members
    /\ effect' = Asked(t).effect
    /\ edition' = edition + 1
    /\ UNCHANGED <<barred, catalogVars, problemVars>>

CommitDelta(t) ==
    /\ Finish(t)
    /\ Asked(t).kind \in {"delta", "disable"}
    /\ barred' = IF Asked(t).target \in barred THEN barred \ {Asked(t).target}
                                            ELSE barred \cup {Asked(t).target}
    /\ UNCHANGED <<rows, members, effect, edition, catalogVars, problemVars>>

CommitRemoval(t) ==
    /\ Finish(t)
    /\ Asked(t).kind = "remove"
    /\ members' = members \ {Asked(t).target}
    /\ owner' = IF owner = Asked(t).target THEN Asked(t).actor ELSE owner
    /\ barred' = barred \cup {Asked(t).target}
    /\ UNCHANGED <<rows, effect, edition, catalogVars, tagged, revision>>

Commit(t) == \/ CommitRevision(t) \/ CommitRobot(t) \/ CommitDeactivation(t)
             \/ CommitRestore(t) \/ CommitRole(t) \/ CommitDelta(t) \/ CommitRemoval(t)

Step(t) == Acquire(t) \/ Proceed(t) \/ Preview(t) \/ Refuse(t) \/ Commit(t) \/ Victim(t)

Next == /\ \E t \in Tx :
              IF tx[t] = Unused THEN \E r \in Workloads[mix][t] : Begin(t, r) ELSE Step(t)
        /\ UNCHANGED mix

Spec == Init /\ [][Next]_vars
-----------------------------------------------------------------------------
(* A decision stays true until it is committed: from the moment an         *)
(* operation has read the permission of its actor under the user's row, no *)
(* role change, deny or removal takes it away before that operation ended. *)
PermissionHolds ==
    \A t \in Tx : Asked(t).kind \in JudgedUnderLock /\ tx[t].judged
                  => Permitted(Asked(t).actor)

(* The current revision of a problem always has a tag and never one that   *)
(* is deactivated, whichever edit, suggestion and deactivation overlap.    *)
CurrentTagsActive == tagged # {} /\ tagged \subseteq active

(* What a request has judged or seen under its locks is so when it ends,   *)
(* for permissions and for tags.                                           *)
LocksInv == PermissionHolds /\ CurrentTagsActive

(* Problem writers, robots and catalog managers never wait for each other  *)
(* in a circle: a deadlock has an administrator of permissions, or the     *)
(* offline import of old reviews, in it.                                   *)
OnlyAdministrationDeadlocks ==
    \A S \in SUBSET Tx :
        InCycle(S) => \E t \in S : Asked(t).kind \in Administration \cup {"history"}

(* The documented lock order of the tag catalog: everything that writes    *)
(* revisions and everything that manages the catalog orders its locks so   *)
(* that no circle of waits can form among them.                            *)
CatalogOrderIsSafe ==
    \A S \in SUBSET Tx : InCycle(S) => \E t \in S : Asked(t).kind \in Administration
=============================================================================
