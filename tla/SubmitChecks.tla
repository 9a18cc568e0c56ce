---------------------------- MODULE SubmitChecks ----------------------------
(***************************************************************************)
(* The search for similar problems around one problem: the check before a  *)
(* submission and the one a reader starts by hand (service.ts,             *)
(* plugin-host.ts, registry.ts), the Anklang plugin that asks a server     *)
(* whose sources it first configures (plugins/anklang), its cache, the     *)
(* review items the answers become (review-item-store.ts), and the index   *)
(* of the server, which follows the saved problem.  Between any two steps  *)
(* the problem, the settings and the server may change.                    *)
(***************************************************************************)
EXTENDS Integers, Sequences, FiniteSets

CONSTANTS
    Searches,       \* requests, each of which runs once
    Contents,       \* what the frozen fields may hold
    RetryAttempts,  \* settings.retryAttempts
    MaxSaves,       \* bound of the model: revisions of the problem
    MaxUpdates,     \* bound of the model: updates of the plugin
    MaxDisturbances \* bound of the model: failing calls and incomplete answers

ASSUME SubmitAssumption == /\ RetryAttempts \in Nat \ {0} /\ MaxSaves \in Nat \ {0}
                           /\ Contents # {}
                           /\ MaxUpdates \in Nat /\ MaxDisturbances \in Nat

VARIABLES
    problem,      \* [status, round, content]; its revision is Len(saved)
    saved,        \* problem_revisions: the contents of each revision
    rounds,       \* review_rounds, with what the submission was based on
    reviewItems,  \* review_items
    serial,       \* how many review items were ever written
    plugin,       \* the plugin's row, settings and secrets
    cache,        \* the process's cache of answers
    sources,      \* what the Anklang server searches, its own setting
    indexed,      \* the revision its index holds, and the contents
    search,       \* search[q]: the request
    clock, disturbances

checkVars == <<problem, saved, rounds, reviewItems, serial, plugin, cache, sources, indexed,
               search, clock, disturbances>>

Nothing     == [content |-> 0, status |-> "none", sources |-> "none", expires |-> 0]
SearchModes == {"server", "local"}    \* searchMode undefined, or a local source
Keys        == SearchModes \X Contents
Saves       == 0..MaxSaves
LastTick    == 2

Answers == [content : Contents \cup {0}, status : {"none", "complete", "partial", "unavailable"},
            sources : {"none", "yuantiji", "local"}, expires : 0..LastTick]
Asking  == {"settings", "secrets", "put", "ask"}

NoSearch == [at |-> "idle", kind |-> "none", revision |-> 0, status |-> "draft", round |-> 0,
             content |-> 0, mode |-> "server", basis |-> "none", tries |-> 0, answer |-> Nothing]

CheckTypeOK ==
    /\ problem \in [status : {"draft", "pending_review", "approved", "rejected"},
                    round : Saves, content : Contents]
    /\ saved \in Seq(Contents) /\ Len(saved) \in 1..MaxSaves
    /\ plugin \in [enabled : BOOLEAN, mode : SearchModes, failure : {"block", "continue"},
                   keyed : BOOLEAN, revision : 1..1 + MaxUpdates]
    /\ cache \in [Keys -> Answers]
    /\ sources \in {"yuantiji", "local"}
    /\ indexed \in [revision : Saves, content : Contents \cup {0}]
    /\ \A q \in Searches : search[q].answer \in Answers /\ search[q].tries < RetryAttempts
    /\ clock \in 0..LastTick - 1 /\ disturbances \in 0..MaxDisturbances

CheckInit ==
    /\ problem = [status |-> "draft", round |-> 0, content |-> CHOOSE c \in Contents : TRUE]
    /\ saved = <<problem.content>>
    /\ rounds = <<>> /\ reviewItems = {} /\ serial = 0
    /\ plugin \in [enabled : {TRUE}, mode : SearchModes, failure : {"block", "continue"},
                   keyed : {TRUE}, revision : {1}]
    /\ cache = [k \in Keys |-> Nothing]
    /\ sources = "yuantiji" /\ indexed = [revision |-> 0, content |-> 0]
    /\ search = [q \in Searches |-> NoSearch]
    /\ clock = 0 /\ disturbances = 0

ProblemVars == <<problem, saved, rounds, reviewItems, serial>>
ServerVars  == <<cache, sources, indexed>>

Revision       == Len(saved)
Standing(q, step) == search[q].at = step
GoTo(q, step)  == search' = [search EXCEPT ![q].at = step]
Ends(q)        == search' = [search EXCEPT ![q] = [NoSearch EXCEPT !.at = "ended"]]
Disturbed      == /\ disturbances < MaxDisturbances
                  /\ disturbances' = disturbances + 1

-----------------------------------------------------------------------------
(* The request reads the problem and lists the enabled checks.             *)
BeginSearch(q) ==
    /\ Standing(q, "idle")
    /\ \E kind \in {"submit", "manual"} :
          /\ kind = "submit" => problem.status \in {"draft", "rejected"}
          /\ search' = [search EXCEPT ![q] = [@ EXCEPT
                !.at = IF plugin.enabled THEN "settings" ELSE "commit",
                !.kind = kind, !.revision = Revision, !.status = problem.status,
                !.round = problem.round, !.content = problem.content]]
    /\ UNCHANGED <<ProblemVars, ServerVars, plugin, clock, disturbances>>

Unavailable(q) == [content |-> search[q].content, status |-> "unavailable",
                   sources |-> "none", expires |-> 0]

Answered(q, basis, answer) ==
    search' = [search EXCEPT ![q].at = "commit", ![q].basis = basis, ![q].answer = answer]

(* What a failure inside of the check means depends on its settings.       *)
Fall(q) ==
    IF search[q].basis = "continue" THEN Answered(q, "continue", Unavailable(q))
    ELSE Ends(q)

(* A plugin disabled before the check is called fails the request, one     *)
(* disabled before its settings are read leaves an item that says so.      *)
ReadSettings(q) ==
    /\ Standing(q, "settings")
    /\ IF plugin.enabled
       THEN search' = [search EXCEPT ![q].at = "secrets", ![q].mode = plugin.mode,
                                     ![q].basis = plugin.failure]
       ELSE Ends(q) \/ Answered(q, "gone", Unavailable(q))
    /\ UNCHANGED <<ProblemVars, ServerVars, plugin, clock, disturbances>>

Key(q)      == <<search[q].mode, search[q].content>>
Reusable(a) == a.status = "complete" /\ a.expires > clock

(* With the server configured the cache is asked, then the server.         *)
LookUp(q) ==
    IF Reusable(cache[Key(q)]) THEN Answered(q, search[q].basis, cache[Key(q)])
    ELSE search' = [search EXCEPT ![q].at = "ask", ![q].tries = 0]

(* Two reads; the first of them asks outside of any handler of errors      *)
(* whether the plugin is still enabled.                                    *)
ReadSecrets(q) ==
    /\ Standing(q, "secrets")
    /\ \/ /\ plugin.enabled /\ plugin.keyed
          /\ IF search[q].mode = "local" THEN GoTo(q, "put") ELSE LookUp(q)
       \/ ~(plugin.enabled /\ plugin.keyed) /\ Fall(q)
       \/ ~plugin.enabled /\ Ends(q)
    /\ UNCHANGED <<ProblemVars, ServerVars, plugin, clock, disturbances>>

(* A call that fails for a passing reason is repeated while attempts are   *)
(* left.  The timer of the settings ends the check as a failure does; the  *)
(* one of the registration, TimesOut, always refuses.                      *)
CallFails(q) ==
    /\ Disturbed
    /\ \/ /\ search[q].tries + 1 < RetryAttempts
          /\ search' = [search EXCEPT ![q].tries = @ + 1]
       \/ Fall(q)

PutSources(q) ==
    /\ Standing(q, "put")
    /\ \/ sources' = search[q].mode /\ LookUp(q) /\ UNCHANGED disturbances
       \/ sources' \in {sources, search[q].mode} /\ CallFails(q)
    /\ UNCHANGED <<ProblemVars, plugin, cache, indexed, clock>>

(* The server answers from the sources it has now.  Only a complete answer *)
(* it allows to reuse is kept; an incomplete one is a failure where        *)
(* failures block.                                                         *)
Ask(q) ==
    /\ Standing(q, "ask")
    /\ \/ \E until \in {0, clock + 1} :
             LET answer == [content |-> search[q].content, status |-> "complete",
                            sources |-> sources, expires |-> until]
             IN  /\ Answered(q, search[q].basis, answer)
                 /\ cache' = IF until > clock THEN [cache EXCEPT ![Key(q)] = answer] ELSE cache
                 /\ UNCHANGED disturbances
       \/ /\ Disturbed /\ UNCHANGED cache
          /\ IF search[q].basis = "block" THEN Ends(q)
             ELSE \E status \in {"partial", "unavailable"} :
                     Answered(q, search[q].basis, [Unavailable(q) EXCEPT !.status = status])
       \/ CallFails(q) /\ UNCHANGED cache
    /\ UNCHANGED <<ProblemVars, plugin, sources, indexed, clock>>

TimesOut(q) ==
    /\ search[q].at \in Asking
    /\ Disturbed /\ Ends(q)
    /\ UNCHANGED <<ProblemVars, ServerVars, plugin, clock>>

-----------------------------------------------------------------------------
(* What is left of a request after its commit is to tell the index.        *)
Tell(q, content) ==
    search' = [search EXCEPT ![q] = [NoSearch EXCEPT !.at = "sync", !.content = content,
                                                     !.revision = Revision + 1]]

Item(q, round) == [id |-> serial + 1, round |-> round, content |-> search[q].answer.content,
                   status |-> search[q].answer.status, expires |-> search[q].answer.expires]

\* mutant: the submission does not compare the revision it was checked at
Unmoved_Status(q) == problem.status = search[q].status

(* UPDATE problems ... WHERE revision = expected.                          *)
Unmoved(q) == Revision = search[q].revision

(* The new revision, the round and the items of the check are written in   *)
(* one transaction; what is saved is what was read and checked.            *)
WriteSubmission(q) ==
    /\ Revision < MaxSaves
    /\ problem' = [status |-> "pending_review", round |-> search[q].round + 1,
                   content |-> search[q].content]
    /\ saved' = Append(saved, search[q].content)
    /\ rounds' = Append(rounds, [submitted |-> search[q].content, revision |-> Revision + 1,
                                 basis |-> search[q].basis, opening |-> search[q].answer.status,
                                 open |-> TRUE, used |-> {}])
    /\ IF search[q].answer = Nothing THEN UNCHANGED <<reviewItems, serial>>
       ELSE /\ reviewItems' = reviewItems \cup {Item(q, search[q].round + 1)}
            /\ serial' = serial + 1
    /\ Tell(q, search[q].content)

\* mutant: a submission that comes too late is tried again with the same revision
CommitSubmission_Retries(q) ==
    /\ Standing(q, "commit") /\ search[q].kind = "submit"
    /\ Unmoved(q) /\ WriteSubmission(q)
    /\ UNCHANGED <<ServerVars, plugin, clock, disturbances>>

CommitSubmission(q) ==
    /\ Standing(q, "commit") /\ search[q].kind = "submit"
    /\ \/ Unmoved(q) /\ WriteSubmission(q)
       \/ ~Unmoved(q) /\ Ends(q) /\ UNCHANGED ProblemVars
    /\ UNCHANGED <<ServerVars, plugin, clock, disturbances>>

(* Under the lock of the problem nothing may have changed.                 *)
Unchanged(q) ==
    /\ Revision = search[q].revision /\ problem.round = search[q].round
    /\ problem.status = search[q].status /\ problem.content = search[q].content

Supersedes(q, i) == i.round = problem.round /\ i.content = search[q].content

(* replacePluginItems: a newer answer about the same contents replaces the *)
(* older ones of the open round.                                           *)
CommitManual(q) ==
    /\ Standing(q, "commit") /\ search[q].kind = "manual"
    /\ IF /\ Unchanged(q) /\ search[q].answer # Nothing
          /\ problem.status = "pending_review" /\ rounds[problem.round].open
       THEN /\ reviewItems' = {i \in reviewItems : ~Supersedes(q, i)} \cup {Item(q, problem.round)}
            /\ serial' = serial + 1
       ELSE UNCHANGED <<reviewItems, serial>>
    /\ Ends(q)
    /\ UNCHANGED <<problem, saved, rounds, ServerVars, plugin, clock, disturbances>>

(* After the commit the index of the server is told, at best: the settings *)
(* are those of this moment, and every error is swallowed.                 *)
StartSync(q) ==
    /\ Standing(q, "sync")
    /\ IF plugin.enabled /\ plugin.keyed /\ plugin.mode = "local" THEN GoTo(q, "upsert") ELSE Ends(q)
    /\ UNCHANGED <<ProblemVars, ServerVars, plugin, clock, disturbances>>

Upsert(q) ==
    /\ Standing(q, "upsert")
    /\ \/ /\ sources' = "local"
          /\ indexed' = IF indexed.revision > search[q].revision THEN indexed
                        ELSE [revision |-> search[q].revision, content |-> search[q].content]
          /\ UNCHANGED disturbances
       \/ Disturbed /\ sources' \in {sources, "local"} /\ UNCHANGED indexed
    /\ Ends(q)
    /\ UNCHANGED <<ProblemVars, plugin, cache, clock>>

-----------------------------------------------------------------------------
(* Meanwhile: an ordinary edit, an audited edit of frozen fields, which    *)
(* tells the index too, and a decision of the rule, which may use items    *)
(* about the present contents that have not expired.                       *)
EditContents ==
    /\ problem.status \in {"draft", "rejected"} /\ Revision < MaxSaves
    /\ \E c \in Contents \ {problem.content} :
          /\ problem' = [problem EXCEPT !.content = c] /\ saved' = Append(saved, c)
    /\ UNCHANGED <<rounds, reviewItems, serial, ServerVars, plugin, search, clock, disturbances>>

EditFrozen(q) ==
    /\ Standing(q, "idle")
    /\ problem.status \in {"pending_review", "approved"} /\ Revision < MaxSaves
    /\ \E c \in Contents \ {problem.content} :
          /\ problem' = [problem EXCEPT !.content = c] /\ saved' = Append(saved, c)
          /\ Tell(q, c)
    /\ UNCHANGED <<rounds, reviewItems, serial, ServerVars, plugin, clock, disturbances>>

Usable(i) == /\ i.round = problem.round /\ i.content = problem.content
             /\ i.expires = 0 \/ i.expires > clock

DecideRound ==
    /\ problem.status = "pending_review" /\ Revision < MaxSaves
    /\ \E outcome \in {"approved", "rejected"}, items \in SUBSET {i \in reviewItems : Usable(i)} :
          /\ problem' = [problem EXCEPT !.status = outcome]
          /\ rounds' = [rounds EXCEPT ![problem.round].open = FALSE,
                                      ![problem.round].used = {i.id : i \in items}]
    /\ saved' = Append(saved, problem.content)
    /\ UNCHANGED <<reviewItems, serial, ServerVars, plugin, search, clock, disturbances>>

(* The administrator saves settings, state or secrets under the revision   *)
(* of the page, or applies the saved settings to the server.               *)
UpdatePlugin ==
    /\ plugin.revision <= MaxUpdates
    /\ \E next \in [enabled : BOOLEAN, mode : SearchModes, failure : {"block", "continue"},
                    keyed : BOOLEAN, revision : {plugin.revision + 1}] : plugin' = next
    /\ UNCHANGED <<ProblemVars, ServerVars, search, clock, disturbances>>

BeginApply(q) ==
    /\ Standing(q, "idle") /\ plugin.enabled /\ plugin.keyed
    /\ search' = [search EXCEPT ![q].at = "apply", ![q].kind = "apply", ![q].mode = plugin.mode]
    /\ UNCHANGED <<ProblemVars, ServerVars, plugin, clock, disturbances>>

ApplySettings(q) ==
    /\ Standing(q, "apply")
    /\ LET configured == IF search[q].mode = "local" THEN "local" ELSE "yuantiji"
       IN  \/ sources' = configured /\ UNCHANGED disturbances
           \/ sources' \in {sources, configured} /\ Disturbed
    /\ Ends(q)
    /\ UNCHANGED <<ProblemVars, plugin, cache, indexed, clock>>

Tick == /\ clock < LastTick - 1 /\ clock' = clock + 1
        /\ UNCHANGED <<ProblemVars, ServerVars, plugin, search, disturbances>>

SearchStep(q) ==
    \/ ReadSettings(q) \/ ReadSecrets(q) \/ PutSources(q) \/ Ask(q)
    \/ TimesOut(q) \/ CommitSubmission(q) \/ CommitManual(q)
    \/ StartSync(q) \/ Upsert(q) \/ ApplySettings(q)

CheckNext ==
    \/ \E q \in Searches : SearchStep(q) \/ BeginSearch(q) \/ EditFrozen(q) \/ BeginApply(q)
    \/ EditContents \/ DecideRound \/ UpdatePlugin \/ Tick

CheckSpec == CheckInit /\ [][CheckNext]_checkVars

(* Every call ends, if only by a timer; the process goes on.               *)
CheckFairness == \A q \in Searches : WF_checkVars(SearchStep(q))
CheckFairSpec == CheckSpec /\ CheckFairness

-----------------------------------------------------------------------------
(* A round was opened with the contents saved before it, on an answer      *)
(* about these contents, and on a complete one where failures block.  Only *)
(* where no check was enabled is there none.                               *)
OpenedAsChecked ==
    \A n \in DOMAIN rounds :
        /\ rounds[n].submitted = saved[rounds[n].revision - 1]
        /\ rounds[n].opening = "none" <=> rounds[n].basis = "none"
        /\ rounds[n].basis = "block" => rounds[n].opening = "complete"
        /\ rounds[n].open /\ rounds[n].opening # "none" =>
               \E i \in reviewItems : i.round = n /\ i.content = rounds[n].submitted

(* Of one round and one version of the contents there is one answer.       *)
OneItemPerContent ==
    \A i, j \in reviewItems : i.round = j.round /\ i.content = j.content => i = j

(* What a decision refers to stays in the database: no search that began   *)
(* before the decision replaces its items afterwards.                      *)
UsedItemsRemain ==
    \A n \in DOMAIN rounds :
        \A u \in rounds[n].used : \E i \in reviewItems : i.id = u /\ i.round = n

(* The index never holds contents that were not saved as that revision.    *)
IndexIsSaved == indexed.revision > 0 => indexed.content = saved[indexed.revision]

(* A kept answer is complete and about the contents of its key; and while  *)
(* nobody has changed the settings it came from the sources of its key,    *)
(* although every request configures the server anew.  After a change it   *)
(* need not: the server is configured and asked in two calls, and settings *)
(* applied between them answer under the key of the older ones.            *)
CacheIsTrue ==
    \A k \in Keys : cache[k] # Nothing =>
        /\ cache[k].status = "complete" /\ cache[k].content = k[2]
        /\ plugin.revision = 1 /\ k[1] = "local" => cache[k].sources = "local"

ChecksInv ==
    /\ CheckTypeOK /\ OpenedAsChecked /\ OneItemPerContent /\ UsedItemsRemain /\ IndexIsSaved
    /\ CacheIsTrue

(* A search ends, whatever the server does.                                *)
SearchesEnd ==
    \A q \in Searches : search[q].at # "idle" ~> search[q].at = "ended" \/ Revision = MaxSaves
=============================================================================
