------------------------------- MODULE MCSite -------------------------------
(* What people and administrators do on the pages of the site: settings,   *)
(* logins by way of a provider, which read them, contests, the editing of  *)
(* a problem, and transfers of packages.  A behaviour has two pages of     *)
(* settings, a login beside one page, two pages of a contest, one of a     *)
(* problem, or two requests for transfers, chosen at the beginning.        *)
EXTENDS ExternalLogin, Contests, ProblemEditor, TransferRequests, TLC

CONSTANTS p1, p2, s1, s2, d1, d2, a1, k1, k2, e1, e2, u1, u2, q1, c1, c2, c3, r1, r2, f1, i1

VARIABLES
    chosen,  \* the part of this behaviour
    duty     \* what the pages are for, and what happens beside them

SiteVars == <<chosen, duty, settingsVars, loginVars, contestVars, editorVars, transferVars>>

Duties == {<<"general", "general">>, <<"oauth", "oauth">>, <<"general", "oauth">>}

(* Two pages for the same settings; or for both, where the mail settings   *)
(* follow the registration.  The second page is opened beside the first.   *)
Pair ==
    /\ \A p \in Pages : \A r \in page[p].next :
          page[p].form = "oauth" => /\ r.autoCreate /\ r.client \subseteq {d1}
                                    /\ duty[1] = "oauth" => r.redirect # s2
    /\ page[p1].form \in {"none", duty[1]} /\ page[p2].form \in {"none", duty[2]}
    /\ page[p2].at # "closed" => page[p1].at # "closed"
    /\ \A r \in page[p2].next : page[p2].form = "oauth" => r.endpoints /\ r.redirect = "path"
    /\ duty[1] # duty[2] => /\ Written <= 2
                            /\ \A r \in page[p1].next : r.login /\ r.mail = r.registration

(* One page, with which the provider is switched on before anybody logs    *)
(* in; then several callbacks, or the provider configured anew once, or    *)
(* several sessions.                                                       *)
Topics == {<<"callbacks">>, <<"settings">>, <<"sessions">>}

Beside ==
    /\ page[p2].at = "closed"
    /\ \A r \in page[p1].next :
          IF page[p1].form = "oauth"
          THEN /\ r.enabled /\ r.redirect = "path"
               /\ Stored \/ r.client = {d1}
          ELSE Stored /\ r.login /\ ~r.registration /\ ~r.mail
    /\ Written <= IF duty[1] = "settings" THEN 2 ELSE 1
    /\ ~Stored => serial = 0 /\ states = {}
    /\ duty[1] # "callbacks" => Cardinality({k \in Calls : call[k].at # "idle"}) <= 1
    /\ duty[1] = "settings" => \A a \in Attempts : attempt[a].kind # "none" => serial <= 1

(* Two pages for a contest, the one chooses the problems and the other the *)
(* members; either may lock it.  One thing changes beside them.            *)
Authors    == e1 :> u1 @@ e2 :> u2
NoMembers  == [u \in Persons |-> "none"]
Lists      == {NoMembers, [NoMembers EXCEPT ![u2] = "participant"]}
Allowances == {Rights, Rights \ {"edit.own"}}
Changes    == {<<"problem">>, <<"rights">>, <<"accounts">>}

PageOf(p) ==
    ~Under(p) /\ edit'[p].at = "reading" =>
        /\ "members" \notin edit'[p].given => edit'[p].next.members = NoMembers
        /\ edit'[p].kind = "create" => p = e1
        /\ edit'[p].kind = "update" =>
              /\ edit'[p].given \subseteq IF p = e1 THEN {"picks"} ELSE {"members"}
              /\ edit'[p].given = {} \/ edit'[p].next.state = edit'[p].read.state

Together ==
    /\ \A p \in Editors : PageOf(p)
    /\ bank' = bank \/ duty[1] = "problem"
    /\ rights' # rights => duty[1] = "rights" /\ \A u \in Persons : rights[u] = Rights
    /\ disabled' # disabled => duty[1] = "accounts" /\ disabled = {}

(* One page of a problem, with one kind of errand beside its saves: others *)
(* write, or errands fail, or the browser loads the page again while       *)
(* something is unsaved.  Which edit is which passage does not matter.     *)
Courses == ({"toggle", "status", "apply", "review", "image", "program"} \X {"others"})
               \cup ({"status", "apply", "file"} \X {"failures"})
               \cup {<<"decision", "again">>}

Failing == {k \in Errands : request[k].at \in {"failed", "denied"}}

Editing ==
    /\ UNCHANGED powers
    /\ \A k \in Errands : Pending(k)' => k \in {"read", "save", duty[1]}
    /\ OthersWrite => duty[2] = "others"
    /\ Failing' # {} => duty[2] = "failures" /\ ("read" \in Failing' => duty[1] = "file")
    /\ Reopen => duty[2] = "again" /\ (screen.dirty \/ Pending("save"))
    /\ made' \in {{}, {c1}, {c1, c2}, Passages}
    /\ duty[2] # "others" => made' # Passages

(* Two requests with one key: packages that are uploaded and imported; or  *)
(* previews and exports of a contest; or of a problem, and downloads.      *)
(* Internal files are wanted in the last only.                             *)
Traffics == {<<"package">>, <<"contest">>, <<"problem">>}

Transferring ==
    /\ transfer'[r2].at # "none" => transfer'[r1].at # "none"
    /\ \A t \in Transfers : LET row == transfer'[t] IN
          row.at # "none" =>
              IF duty[1] = "package" THEN row.kind \in {"upload", "import"}
              ELSE /\ row.kind \in {"preview", "export", "download"}
                   /\ row.order.contest = 0 <=> duty[1] = "problem"
                   /\ duty[1] = "contest" => ~row.order.inner /\ row.kind # "download"

MCInit ==
    /\ chosen \in {"settings", "login", "contest", "editor", "transfer"}
    /\ LoginInit /\ general.site = s1
    /\ duty \in CASE chosen = "settings" -> Duties
                   [] chosen = "login" -> Topics
                   [] chosen = "contest" -> Changes
                   [] chosen = "editor" -> Courses
                   [] chosen = "transfer" -> Traffics
    /\ chosen # "login" => ~linked
    /\ ContestInit /\ bank[q1].approved /\ rights = [u \in Persons |-> Rights] /\ disabled = {}
    /\ EditorInit /\ powers = Powers
    /\ TransferInit /\ grants = Privileges /\ entry.revision = 2 /\ plans = <<1>>

MCNext ==
    /\ UNCHANGED <<chosen, duty>>
    /\ \/ /\ chosen = "settings" /\ SettingsNext /\ Pair'
          /\ UNCHANGED <<loginVars, contestVars, editorVars, transferVars>>
       \/ /\ chosen = "login" /\ LoginNext /\ Beside'
          /\ page' = page \/ page[p1].at = "judged" \/ \A k \in Calls : call[k].at = "idle"
          /\ Stored /\ duty[1] # "settings" => page' = page
          /\ UNCHANGED <<contestVars, editorVars, transferVars>>
       \/ /\ chosen = "contest" /\ ContestNext /\ Together
          /\ UNCHANGED <<settingsVars, loginVars, editorVars, transferVars>>
       \/ /\ chosen = "editor" /\ EditorNext /\ Editing
          /\ UNCHANGED <<settingsVars, loginVars, contestVars, transferVars>>
       \/ /\ chosen = "transfer" /\ TransferNext /\ Transferring
          /\ UNCHANGED <<settingsVars, loginVars, contestVars, editorVars>>

MCSpec == MCInit /\ [][MCNext]_SiteVars

Interchangeable == Permutations({k1, k2})
=============================================================================
