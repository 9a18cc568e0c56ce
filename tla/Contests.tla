------------------------------ MODULE Contests ------------------------------
(***************************************************************************)
(* One contest: pages on which people create, edit and delete it, and the  *)
(* requests of those pages.  An edit is judged by the row the handler      *)
(* reads first and completed from members and problems it reads next, each *)
(* by a statement of its own: what the request leaves out is taken from    *)
(* there, the problems with their fixed revisions; new problems are fixed  *)
(* at the revision of the moment, one after the other.  Only then begins   *)
(* the transaction, which judges the permission again under locks and      *)
(* replaces the row, its members and its problems, provided that the row   *)
(* carries the time of change the page has sent.                           *)
(*                                                                         *)
(* That time is the start of the transaction that wrote the row, to the    *)
(* microsecond; a page is told milliseconds.  An instant counts halves of  *)
(* a millisecond: the even ones are those a page can tell, an odd one      *)
(* stands for every fraction.  Two transactions never begin in the same    *)
(* microsecond.                                                            *)
(***************************************************************************)
EXTENDS Integers

CONSTANTS
    Editors,      \* pages, each of one account
    UserOf,       \* UserOf[p]: the account of page p
    Persons,      \* accounts, the members to choose from
    Bank,         \* problems to choose from
    Offered,      \* lists of members a page may send
    Permits,      \* sets of permissions an account may come to hold
    LastRevision, \* bound of the model: revisions of a problem
    Instants      \* bound of the model: the last instant

VARIABLES
    bank,     \* bank[q]: the problem, and the revisions it was approved at
    contest,  \* the row, with its members and problems
    edit,     \* edit[p]: the request of page p under way, or how it ended
    seen,     \* seen[p]: the time of change of what page p shows, 0 for nothing
    instant,  \* the next instant
    rights,   \* rights[u]: what the policy allows account u on contests
    disabled  \* accounts that are switched off or deleted

contestVars == <<bank, contest, edit, seen, instant, rights, disabled>>

ContestStates == {"draft", "locked", "archived"}
Roles         == {"none", "participant", "manager"}
Times         == 0..Instants

(* edit.own is the decision on a contest of one's own, where a denial of   *)
(* either permission counts; edit.all the one on a contest of others.      *)
Rights == {"create", "edit.own", "edit.all", "delete", "export"}

Picks       == [Bank -> 0..LastRevision]      \* 0: not in the contest
Memberships == [Persons -> Roles]

ASSUME ContestAssumption ==
    /\ Persons # {} /\ UserOf \in [Editors -> Persons]
    /\ Offered \subseteq Memberships /\ Permits \subseteq SUBSET Rights
    /\ LastRevision \in Nat \ {0} /\ Instants \in Nat \ {0}

BankRows    == [revision : 1..LastRevision, approved : BOOLEAN, deleted : BOOLEAN,
                passed : SUBSET (1..LastRevision)]
ContestRows == [at : {"none", "live", "deleted"}, creator : Persons, state : ContestStates,
                members : Memberships, picks : Picks, updated : Times]
EditSteps   == {"idle", "reading", "problems", "write", "saved", "refused", "conflict"}
Parts       == {"members", "picks"}
Edits       == [at : EditSteps, kind : {"none", "create", "update", "delete"}, given : SUBSET Parts,
                unread : SUBSET Parts, read : ContestRows, next : ContestRows,
                todo : SUBSET Bank, started : Times]

NoPicks   == [q \in Bank |-> 0]
NoContest == [at |-> "none", creator |-> CHOOSE u \in Persons : TRUE, state |-> "draft",
              members |-> [u \in Persons |-> "none"], picks |-> NoPicks, updated |-> 0]
NoEdit    == [at |-> "idle", kind |-> "none", given |-> {}, unread |-> {}, read |-> NoContest,
              next |-> NoContest, todo |-> {}, started |-> 0]

Under(p) == edit[p].at \in {"reading", "problems", "write"}
Continues(p, row) == edit' = [edit EXCEPT ![p] = row]
Ends(p, how)      == Continues(p, [NoEdit EXCEPT !.at = how])

(* What a page sends is the time to the millisecond.                       *)
Expected(p) == seen[p] - (seen[p] % 2)

May(u, right)     == u \notin disabled /\ right \in rights[u]
CanEdit(u, row)   == May(u, IF row.creator = u THEN "edit.own" ELSE "edit.all")
CanView(u, row)   == CanEdit(u, row) \/ May(u, "export")

ContestInit ==
    /\ bank \in [Bank -> BankRows]
    /\ \A q \in Bank : /\ bank[q].revision = 1 /\ ~bank[q].deleted
                       /\ bank[q].passed = IF bank[q].approved THEN {1} ELSE {}
    /\ contest = NoContest
    /\ edit = [p \in Editors |-> NoEdit]
    /\ seen = [p \in Editors |-> 0]
    /\ instant = 1
    /\ rights \in [Persons -> Permits]
    /\ disabled \in SUBSET Persons

-----------------------------------------------------------------------------
(* A page opens the contest, or reads it anew after an answer.             *)
OpenContest(p) ==
    /\ ~Under(p) /\ contest.at = "live" /\ CanView(UserOf[p], contest)
    /\ seen' = [seen EXCEPT ![p] = contest.updated]
    /\ Ends(p, "idle")
    /\ UNCHANGED <<bank, contest, instant, rights, disabled>>

(* A new contest names its members and at least one problem.  Of the       *)
(* requests that create one, the model follows one at a time.              *)
BeginCreate(p, members, problems) ==
    /\ ~Under(p) /\ contest.at = "none" /\ problems # {}
    /\ \A e \in Editors : edit[e].kind = "create" => ~Under(e)
    /\ May(UserOf[p], "create")
    /\ Continues(p,
          [at |-> "reading", kind |-> "create", given |-> Parts, unread |-> {}, read |-> contest,
           next |-> [contest EXCEPT !.creator = UserOf[p], !.members = members],
           todo |-> problems, started |-> 0])
    /\ UNCHANGED <<bank, contest, seen, instant, rights, disabled>>

(* A locked or archived contest is only opened again, or archived: with    *)
(* no other field in the request.                                          *)
LetsThrough(from, fields, state) ==
    \/ from = "draft"
    \/ from = "locked" /\ fields = {} /\ state \in {"draft", "archived"}
    \/ from = "archived" /\ fields = {} /\ state = "draft"

(* A PATCH carries a new state or other fields, among them the members or  *)
(* the problems, of which there must be one.                               *)
BeginUpdate(p, fields, state, members, problems) ==
    /\ ~Under(p) /\ contest.at = "live" /\ seen[p] # 0
    /\ CanEdit(UserOf[p], contest)
    /\ LetsThrough(contest.state, fields, state)
    /\ "picks" \in fields => problems # {}
    /\ Continues(p,
          [at |-> "reading", kind |-> "update", given |-> fields \cap Parts, unread |-> Parts,
           read |-> contest,
           next |-> [contest EXCEPT !.state = IF state = "same" THEN @ ELSE state,
                                    !.members = members, !.picks = NoPicks],
           todo |-> IF "picks" \in fields THEN problems ELSE {}, started |-> 0])
    /\ UNCHANGED <<bank, contest, seen, instant, rights, disabled>>

(* The statements that read members and problems; what was not given is    *)
(* completed from them.                                                    *)
ReadMembers(p) ==
    /\ edit[p].at = "reading" /\ "members" \in edit[p].unread
    /\ Continues(p, [edit[p] EXCEPT !.unread = edit[p].unread \ {"members"}, !.read.members = contest.members,
                                !.next.members = IF "members" \in edit[p].given
                                            THEN edit[p].next.members ELSE contest.members])
    /\ UNCHANGED <<bank, contest, seen, instant, rights, disabled>>

ReadPicks(p) ==
    /\ edit[p].at = "reading" /\ "picks" \in edit[p].unread
    /\ Continues(p, [edit[p] EXCEPT !.unread = edit[p].unread \ {"picks"}, !.read.picks = contest.picks,
                                !.next.picks = IF "picks" \in edit[p].given
                                            THEN edit[p].next.picks ELSE contest.picks])
    /\ UNCHANGED <<bank, contest, seen, instant, rights, disabled>>

(* The members must be accounts in use; whoever saves becomes a manager.   *)
CheckMembers(p) ==
    /\ edit[p].at = "reading" /\ edit[p].unread = {}
    /\ IF \E u \in disabled : edit[p].next.members[u] # "none"
       THEN Ends(p, "refused")
       ELSE Continues(p, [edit[p] EXCEPT !.at = "problems", !.next.members[UserOf[p]] = "manager"])
    /\ UNCHANGED <<bank, contest, seen, instant, rights, disabled>>

(* A problem is fixed at the revision that is read together with its       *)
(* status; one that the account cannot see is refused as well.             *)
PickProblem(p, q) ==
    /\ edit[p].at = "problems" /\ q \in edit[p].todo
    /\ \/ /\ bank[q].approved /\ ~bank[q].deleted
          /\ Continues(p, [edit[p] EXCEPT !.todo = edit[p].todo \ {q}, !.next.picks[q] = bank[q].revision])
       \/ Ends(p, "refused")
    /\ UNCHANGED <<bank, contest, seen, instant, rights, disabled>>

(* The transaction begins: now() is this instant until its end.            *)
BeginWrite(p) ==
    /\ edit[p].at = "problems" /\ edit[p].todo = {} /\ instant < Instants
    /\ Continues(p, [edit[p] EXCEPT !.at = "write", !.started = instant])
    /\ instant' = instant + 1
    /\ UNCHANGED <<bank, contest, seen, rights, disabled>>

BeginDelete(p) ==
    /\ ~Under(p) /\ contest.at = "live" /\ seen[p] # 0 /\ instant < Instants
    /\ CanView(UserOf[p], contest) /\ May(UserOf[p], "delete")
    /\ Continues(p,
          [at |-> "write", kind |-> "delete", given |-> {}, unread |-> {}, read |-> contest,
           next |-> contest, todo |-> {}, started |-> instant])
    /\ instant' = instant + 1
    /\ UNCHANGED <<bank, contest, seen, rights, disabled>>

-----------------------------------------------------------------------------
(* Every chosen revision must be that of a problem that is not deleted.    *)
Writable(row) == \A q \in Bank : row.picks[q] # 0 => ~bank[q].deleted

(* An answer shows the page what was written; it may be lost.              *)
Answered(p) ==
    \/ Ends(p, "saved") /\ seen' = [seen EXCEPT ![p] = edit[p].started]
    \/ Ends(p, "refused") /\ UNCHANGED seen

WriteCreate(p) ==
    /\ edit[p].at = "write" /\ edit[p].kind = "create"
    /\ \/ /\ Writable(edit[p].next)
          /\ contest' = [edit[p].next EXCEPT !.at = "live", !.updated = edit[p].started]
          /\ Answered(p)
       \/ ~Writable(edit[p].next) /\ Ends(p, "refused") /\ UNCHANGED <<contest, seen>>
    /\ UNCHANGED <<bank, instant, rights, disabled>>

\* mutant: the UPDATE forgets the time of change the page has sent
Unmoved_Blind(p) == contest.at = "live"

(* updated_at of the row, to the microsecond, against the time sent.       *)
Unmoved(p) == contest.updated = Expected(p)

(* Under the lock of the row: the permission anew, then the comparison.    *)
Allowed(p) ==
    /\ contest.at = "live"
    /\ IF edit[p].kind = "update" THEN CanEdit(UserOf[p], contest) ELSE May(UserOf[p], "delete")

NotWritten(p) ==
    /\ edit[p].at = "write" /\ edit[p].kind \in {"update", "delete"}
    /\ \/ ~Allowed(p) /\ Ends(p, "refused")
       \/ Allowed(p) /\ ~Unmoved(p) /\ Ends(p, "conflict")
       \/ /\ Allowed(p) /\ Unmoved(p) /\ edit[p].kind = "update" /\ ~Writable(edit[p].next)
          /\ Ends(p, "refused")
    /\ UNCHANGED <<bank, contest, seen, instant, rights, disabled>>

WriteUpdate(p) ==
    /\ edit[p].at = "write" /\ edit[p].kind = "update"
    /\ Allowed(p) /\ Unmoved(p) /\ Writable(edit[p].next)
    /\ contest' = [contest EXCEPT !.state = edit[p].next.state, !.members = edit[p].next.members,
                                  !.picks = edit[p].next.picks, !.updated = edit[p].started]
    /\ Answered(p)
    /\ UNCHANGED <<bank, instant, rights, disabled>>

WriteDelete(p) ==
    /\ edit[p].at = "write" /\ edit[p].kind = "delete"
    /\ Allowed(p) /\ Unmoved(p)
    /\ contest' = [contest EXCEPT !.at = "deleted", !.updated = edit[p].started]
    /\ Ends(p, "saved")
    /\ UNCHANGED <<bank, seen, instant, rights, disabled>>

-----------------------------------------------------------------------------
(* Beside the contest: a problem is saved, which keeps its status, judged, *)
(* or put in the bin; permissions change; an account is switched off, or   *)
(* deleted by an administrator, who is given its contests.                 *)
Recorded(row) == IF row.approved THEN [row EXCEPT !.passed = @ \cup {row.revision}] ELSE row

Becomes(q, row) == bank' = [bank EXCEPT ![q] = row]

ProblemChanges(q) ==
    /\ ~bank[q].deleted
    /\ \/ /\ bank[q].revision < LastRevision
          /\ Becomes(q, Recorded([bank[q] EXCEPT !.revision = bank[q].revision + 1]))
       \/ Becomes(q, Recorded([bank[q] EXCEPT !.approved = ~bank[q].approved]))
       \/ Becomes(q, [bank[q] EXCEPT !.deleted = TRUE])
    /\ UNCHANGED <<contest, edit, seen, instant, rights, disabled>>

DeleteAccount(u, by) ==
    /\ u # by /\ u \notin disabled /\ May(by, "edit.all") /\ instant < Instants
    /\ disabled' = disabled \cup {u}
    /\ contest' = IF contest.at # "none" /\ contest.creator = u
                  THEN [contest EXCEPT !.creator = by, !.updated = instant] ELSE contest
    /\ instant' = instant + 1
    /\ UNCHANGED <<bank, edit, seen, rights>>

SwitchOff(u) ==
    /\ disabled' = disabled \cup {u}
    /\ UNCHANGED <<bank, contest, edit, seen, instant, rights>>

ChangeRights(u, set) ==
    /\ rights' = [rights EXCEPT ![u] = set]
    /\ UNCHANGED <<bank, contest, edit, seen, instant, disabled>>

Submits(p) ==
    \E members \in Offered, problems \in SUBSET Bank :
        \/ BeginCreate(p, members, problems)
        \/ \E fields \in SUBSET (Parts \cup {"text"}), state \in ContestStates \cup {"same"} :
               BeginUpdate(p, fields, state, members, problems)

ContestStep(p) ==
    \/ OpenContest(p) \/ Submits(p) \/ BeginDelete(p)
    \/ ReadMembers(p) \/ ReadPicks(p) \/ CheckMembers(p)
    \/ \E q \in Bank : PickProblem(p, q)
    \/ BeginWrite(p) \/ WriteCreate(p) \/ NotWritten(p) \/ WriteUpdate(p) \/ WriteDelete(p)

ContestNext ==
    \/ \E p \in Editors : ContestStep(p)
    \/ \E q \in Bank : ProblemChanges(q)
    \/ \E u \in Persons : \/ SwitchOff(u)
                          \/ \E by \in Persons : DeleteAccount(u, by)
                          \/ \E set \in Permits : ChangeRights(u, set)

ContestSpec == ContestInit /\ [][ContestNext]_contestVars

-----------------------------------------------------------------------------
(* Types.                                                                  *)
ContestTypeOK ==
    /\ bank \in [Bank -> BankRows] /\ contest \in ContestRows
    /\ edit \in [Editors -> Edits] /\ seen \in [Editors -> Times]
    /\ instant \in 1..Instants
    /\ rights \in [Persons -> SUBSET Rights] /\ disabled \in SUBSET Persons

(* A save that will be let through was judged by, and completed from, the  *)
(* row it is about to replace, although it compares with what the page was *)
(* shown and not with what the handler read in three statements: no change *)
(* of somebody else is undone by a field that was left out.                *)
SavesMergeTheRow ==
    \A p \in Editors :
        Under(p) /\ edit[p].kind = "update" /\ contest.at = "live" /\ Unmoved(p)
            => /\ edit[p].read.state = contest.state
               /\ "members" \in edit[p].unread \/ edit[p].read.members = contest.members
               /\ "picks" \in edit[p].unread \/ edit[p].read.picks = contest.picks

(* A save that began from a locked or archived contest is about to leave   *)
(* its problems at their revisions and everybody else in their role, and   *)
(* to open it again or archive it.                                         *)
LockedStays ==
    \A p \in Editors :
        edit[p].at = "write" /\ edit[p].kind = "update" /\ edit[p].read.state # "draft"
            => /\ edit[p].next.picks = edit[p].read.picks
               /\ \A u \in Persons \ {UserOf[p]} : edit[p].next.members[u] = edit[p].read.members[u]
               /\ edit[p].next.state \in {"draft", "archived"} \ {edit[p].read.state}

(* Whatever is or will be in the contest was approved contents of the      *)
(* problem, although the problem may have been edited, judged again or     *)
(* deleted between its selection and the save, and ever since.             *)
ApprovedPicks(picks) == \A q \in Bank : picks[q] # 0 => picks[q] \in bank[q].passed

FixedAreApproved ==
    ApprovedPicks(contest.picks) /\ \A p \in Editors : Under(p) => ApprovedPicks(edit[p].next.picks)

(* What a save of a contest rests on, whoever else changes it, its         *)
(* problems or the permissions meanwhile.                                  *)
ContestInv == ContestTypeOK /\ SavesMergeTheRow /\ LockedStays /\ FixedAreApproved
=============================================================================
