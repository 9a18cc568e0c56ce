---------------------------- MODULE ProblemEditor ----------------------------
(***************************************************************************)
(* The page on which one person edits a problem, while others change it.   *)
(* The page types into a working copy, saves it by itself, and sends the   *)
(* revision of the copy with every request; several requests may be on     *)
(* their way, and their answers come in any order.  Some answers bring the *)
(* whole problem, some a revision only.  A read lands in the cache of the  *)
(* page, and the cache in the working copy as soon as nothing is unsaved.  *)
(*                                                                         *)
(* Contents are the set of the edits they contain, the passages; an edit   *)
(* that removes text is one like any other.  A text is not edited while an *)
(* image is uploaded into it.  After an answer that denies access the page *)
(* is followed no further until it is opened again.                        *)
(***************************************************************************)
EXTENDS Integers

CONSTANTS
    Passages,    \* what one edit changes, whoever made it
    MaxRevision  \* bound of the model: revisions of the problem

VARIABLES
    revision,  \* the revision of the problem
    history,   \* history[n]: the contents of revision n
    screen,    \* the working copy, and what the page says of it
    cache,     \* the copy of the query, revision 0 for none
    draft,     \* the copy in the storage of the session, revision 0 for none
    request,   \* request[k]: the errand k on its way, with its answer
    stray,     \* a save under way whose page is gone, revision 0 for none
    powers,    \* what the account may do to the problem
    made,      \* the passages of which the edit was made
    typed,     \* those typed since the page was opened, but for what an
               \* answer to another errand of the page has replaced
    newest,    \* the highest revision the page was told of or asked for
    overtaken  \* contents have been shown, or kept, that were older than that

editorVars == <<revision, history, screen, cache, draft, request, stray, powers, made, typed,
                newest, overtaken>>

ASSUME EditorAssumption == MaxRevision \in Nat \ {0}

Revisions == 1..MaxRevision
Contents  == SUBSET Passages
Copies    == [revision : 0..MaxRevision, contents : Contents]
NoCopy    == [revision |-> 0, contents |-> {}]

Uploads  == {"image", "file", "program"}
Errands  == {"read", "save", "toggle", "status", "apply", "review", "decision"} \cup Uploads
Stages   == {"none", "sent", "again", "done", "failed", "denied"}
Requests == [at : Stages, asked : 0..MaxRevision, answer : Copies]
NoCall   == [at |-> "none", asked |-> 0, answer |-> NoCopy]
AtFirst  == [k \in Errands |-> IF k = "read" THEN [NoCall EXCEPT !.at = "sent"] ELSE NoCall]
Screens  == [at : {"loading", "open", "gone"}, copy : Copies, dirty : BOOLEAN, same : BOOLEAN,
             says : {"saved", "dirty", "saving", "failed"}]
NewScreen == [at |-> "loading", copy |-> NoCopy, dirty |-> FALSE, same |-> TRUE,
              says |-> "saved"]
Powers   == {"edit", "testdata", "status"}

Current    == [revision |-> revision, contents |-> history[revision]]
Pending(k) == request[k].at # "none"
Uploading  == \E k \in Uploads : Pending(k)

Turns(k, row) == request' = [request EXCEPT ![k] = row]
Settles(k)     == Turns(k, NoCall)
Sends(k)       == Turns(k, [NoCall EXCEPT !.at = "sent", !.asked = screen.copy.revision])
Highest(n)     == IF n > newest THEN n ELSE newest

EditorInit ==
    /\ revision = 1 /\ history = [n \in Revisions |-> {}]
    /\ screen = NewScreen /\ cache = NoCopy /\ draft = NoCopy /\ stray = NoCopy
    /\ request = AtFirst
    /\ powers \in SUBSET Powers
    /\ made = {} /\ typed = {} /\ newest = 0 /\ overtaken = FALSE

-----------------------------------------------------------------------------
(* What the page shows of the cache when nothing is unsaved: the draft, if *)
(* it is one of the same revision.                                         *)
Shown(p, copy, kept) ==
    IF p.dirty \/ copy.revision = 0 THEN p
    ELSE IF kept.revision = copy.revision
    THEN [p EXCEPT !.at = "open", !.copy = kept, !.dirty = TRUE, !.says = "failed"]
    ELSE [p EXCEPT !.at = "open", !.copy = copy, !.says = "saved"]

(* Contents have come in.                                                  *)
Tells(copy) ==
    /\ overtaken' = (overtaken \/ copy.revision < newest)
    /\ newest' = Highest(copy.revision)

ServerStays == UNCHANGED <<revision, history, stray, powers, made>>

(* A reconnected browser reads anew; a failed read is tried again.         *)
ReadsAnew ==
    /\ screen.at # "gone" /\ request["read"].at \in {"none", "failed"}
    /\ Turns("read", [NoCall EXCEPT !.at = "sent"])
    /\ ServerStays /\ UNCHANGED <<screen, cache, draft, typed, newest, overtaken>>

ReadArrives ==
    /\ request["read"].at = "done"
    /\ Settles("read")
    /\ cache' = request["read"].answer
    /\ Tells(cache')
    /\ screen' = IF cache' = cache THEN screen ELSE Shown(screen, cache', draft)
    /\ ServerStays /\ UNCHANGED <<draft, typed>>

(* An answer makes the page read anew: a read under way is given up.       *)
Invalidates(k) ==
    request' = [request EXCEPT ![k] = NoCall, !["read"] = [NoCall EXCEPT !.at = "sent"]]

-----------------------------------------------------------------------------
(* One edit in one of the tabs.                                            *)
Types(c) ==
    /\ c \notin made
    /\ screen' = [screen EXCEPT !.copy.contents = screen.copy.contents \cup {c}, !.dirty = TRUE,
                                !.same = FALSE, !.says = "dirty"]
    /\ made' = made \cup {c} /\ typed' = typed \cup {c}
    /\ UNCHANGED <<revision, history, cache, draft, request, stray, powers, newest, overtaken>>

(* Saving: not while files are uploaded, and one save at a time.           *)
CanSave == screen.dirty /\ ~Pending("save") /\ ~Uploading /\ "edit" \in powers

SaveNow ==
    /\ CanSave
    /\ Turns("save", [at |-> "sent", asked |-> screen.copy.revision, answer |-> screen.copy])
    /\ screen' = [screen EXCEPT !.same = TRUE, !.says = "saving"]
    /\ newest' = Highest(screen.copy.revision + 1)
    /\ ServerStays /\ UNCHANGED <<cache, draft, typed, overtaken>>

(* By itself, after a pause and every few seconds, until a save fails;     *)
(* then by a button.                                                       *)
Autosave  == screen.says # "failed" /\ SaveNow
SaveAgain == screen.says = "failed" /\ SaveNow

\* mutant: the answer to a save is shown though there was typing since
Unchanged_Assumed == TRUE

(* Nothing was typed since the save was sent.                              *)
Unchanged == screen.same

SaveArrives ==
    /\ request["save"].at = "done"
    /\ Settles("save")
    /\ cache' = request["save"].answer /\ draft' = NoCopy
    /\ Tells(cache')
    /\ screen' =
          IF Unchanged
          THEN [screen EXCEPT !.copy = cache', !.dirty = FALSE, !.says = "saved"]
          ELSE Shown([screen EXCEPT !.copy.revision = cache'.revision, !.says = "dirty"],
                     cache', NoCopy)
    /\ ServerStays /\ UNCHANGED typed

(* What was sent is kept for this session.                                 *)
SaveFails ==
    /\ request["save"].at = "failed"
    /\ Settles("save")
    /\ draft' = [revision |-> request["save"].asked, contents |-> request["save"].answer.contents]
    /\ screen' = [screen EXCEPT !.says = "failed"]
    /\ ServerStays /\ UNCHANGED <<cache, typed, newest, overtaken>>

-----------------------------------------------------------------------------
(* Files are uploaded, and removed, when nothing is unsaved.               *)
AtRest == ~screen.dirty /\ ~Pending("save") /\ ~Uploading

Starts(k) ==
    /\ ~Pending(k) /\ Sends(k)
    /\ ServerStays /\ UNCHANGED <<screen, cache, draft, typed, newest, overtaken>>

Upload(k) == AtRest /\ Starts(k)

(* The answer is a revision; a judge program is put into the contents, an  *)
(* image is inserted in the text that is being edited.                     *)
Bound(k) ==
    IF k = "program" THEN request[k].answer.contents \ history[request[k].asked] ELSE {}

UploadArrives(k) ==
    /\ request[k].at = "done"
    /\ Invalidates(k)
    /\ \E new \in {{}} \cup (IF k = "image" THEN {{c} : c \in Passages \ made} ELSE {}) :
          LET copy == [revision |-> request[k].answer.revision,
                       contents |-> screen.copy.contents \cup Bound(k) \cup new]
          IN /\ cache' = [revision |-> copy.revision, contents |-> cache.contents \cup Bound(k)]
             /\ screen' =
                   IF new = {} THEN Shown([screen EXCEPT !.copy = copy], cache', draft)
                   ELSE [screen EXCEPT !.copy = copy, !.dirty = TRUE, !.same = FALSE,
                                       !.says = "dirty"]
             /\ made' = made \cup new /\ typed' = typed \cup new
    /\ newest' = Highest(request[k].answer.revision)
    /\ UNCHANGED <<revision, history, draft, stray, powers, overtaken>>

(* The switch for external reviews on the first tab: its answer counts     *)
(* for its revision.                                                       *)
ToggleArrives ==
    /\ request["toggle"].at = "done"
    /\ Invalidates("toggle")
    /\ screen' = IF screen.copy.revision > request["toggle"].answer.revision THEN screen
                 ELSE [screen EXCEPT !.copy.revision = request["toggle"].answer.revision]
    /\ newest' = Highest(request["toggle"].answer.revision)
    /\ ServerStays /\ UNCHANGED <<cache, draft, typed, overtaken>>

-----------------------------------------------------------------------------
(* Answers that are shown whatever was typed meanwhile; of that only what  *)
(* the server holds is safe.                                               *)
Replaced(copy) == [screen EXCEPT !.copy = copy, !.dirty = FALSE, !.says = "saved"]
OnlySafe       == typed' = typed \cap history[revision]

(* Submitting and withdrawing; the latter does not wait for a save.        *)
SomePower   == powers \cap {"edit", "status"} # {}
SubmitNow   == AtRest /\ "edit" \in powers /\ Starts("status")
WithdrawNow == ~screen.dirty /\ ~Uploading /\ SomePower /\ Starts("status")

StatusArrives ==
    /\ request["status"].at = "done"
    /\ Settles("status")
    /\ cache' = request["status"].answer /\ draft' = NoCopy
    /\ Tells(cache')
    /\ screen' = Replaced(cache')
    /\ OnlySafe /\ ServerStays

(* The tab of reviews waits until everything is saved.                     *)
Quiet == ~screen.dirty /\ ~Pending("save") /\ screen.says # "failed"

ApplyArrives ==
    /\ request["apply"].at = "done"
    /\ Invalidates("apply")
    /\ cache' = request["apply"].answer
    /\ Tells(cache')
    /\ screen' = Shown(Replaced(cache'), cache', draft)
    /\ OnlySafe /\ ServerStays /\ UNCHANGED draft

(* Suggestions that could not be written back: the problem is read once    *)
(* more and shown, or an error is.                                         *)
ApplyFails ==
    /\ \/ /\ request["apply"].at = "failed"
          /\ Settles("apply") \/ Turns("apply", [NoCall EXCEPT !.at = "again"])
       \/ request["apply"].at = "again" /\ Invalidates("apply")
    /\ ServerStays /\ UNCHANGED <<screen, cache, draft, typed, newest, overtaken>>

(* External reviews switched on the tab of reviews: the answer does not    *)
(* reach the cache, and the cache is shown again if there was typing.      *)
ReviewArrives ==
    /\ request["review"].at = "done"
    /\ Settles("review")
    /\ screen' = IF screen.dirty THEN Shown(Replaced(screen.copy), cache, draft)
                 ELSE Replaced(request["review"].answer)
    /\ newest' = Highest(request["review"].answer.revision)
    /\ overtaken' = (overtaken \/ screen'.copy.revision < newest')
    /\ OnlySafe /\ ServerStays /\ UNCHANGED <<cache, draft>>

(* An opinion or a final decision; the page reads what became of it.       *)
DecisionArrives ==
    /\ request["decision"].at = "done"
    /\ Invalidates("decision")
    /\ ServerStays /\ UNCHANGED <<screen, cache, draft, typed, newest, overtaken>>

(* Of other requests only an error is shown.                               *)
OtherFails(k) ==
    /\ k \notin {"read", "save", "apply"} /\ request[k].at = "failed"
    /\ Settles(k)
    /\ ServerStays /\ UNCHANGED <<screen, cache, draft, typed, newest, overtaken>>

(* The answer denies access: everything the page holds is cleared.         *)
Cleared(k) ==
    /\ request[k].at = "denied"
    /\ screen' = [NewScreen EXCEPT !.at = "gone"] /\ cache' = NoCopy /\ draft' = NoCopy
    /\ request' = [j \in Errands |-> NoCall]
    /\ stray' = IF request["save"].at = "sent" THEN request["save"].answer ELSE stray
    /\ typed' = {}
    /\ UNCHANGED <<revision, history, powers, made, newest, overtaken>>

(* The browser loads the page again; a save it had sent may still arrive.  *)
Reopen ==
    /\ screen' = NewScreen /\ cache' = NoCopy
    /\ request' = AtFirst
    /\ stray' = IF request["save"].at = "sent" THEN request["save"].answer ELSE stray
    /\ typed' = {} /\ newest' = 0
    /\ UNCHANGED <<revision, history, draft, powers, made, overtaken>>

-----------------------------------------------------------------------------
(* The tabs and the buttons of the page.                                   *)
TypesWith(right) == right \in powers /\ \E c \in Passages : Types(c)

OverviewTab  == TypesWith("edit") \/ (AtRest /\ SomePower /\ Starts("toggle"))
StatementTab == TypesWith("edit") \/ ("edit" \in powers /\ Upload("image"))
SamplesTab   == TypesWith("edit")
JudgeTab     == \/ TypesWith("testdata")
                \/ {"edit", "testdata"} \subseteq powers /\ Upload("program")
SolutionTab  == \/ TypesWith("edit")
                \/ "edit" \in powers /\ (Upload("image") \/ Upload("file"))
ReviewTab    == Quiet /\ \E k \in {"apply", "review", "decision"} : Starts(k)
Buttons      == SaveAgain \/ SubmitNow \/ WithdrawNow

(* What reaches the page: nothing does, but a read, before it is open.     *)
AnswersArrive ==
    \/ SaveArrives \/ SaveFails \/ ToggleArrives \/ StatusArrives
    \/ ApplyArrives \/ ApplyFails \/ ReviewArrives \/ DecisionArrives
    \/ \E k \in Uploads : UploadArrives(k)
    \/ \E k \in Errands : OtherFails(k)

-----------------------------------------------------------------------------
(* The server, in front of which a request may be refused for any reason,  *)
(* and behind which its answer may be lost.                                *)
ScreenStays == UNCHANGED <<screen, cache, draft, powers, typed>>

Replies(k, copy) == Turns(k, [request[k] EXCEPT !.at = "done", !.answer = copy])

Read(k) ==
    /\ <<k, request[k].at>> \in {<<"read", "sent">>, <<"apply", "again">>}
    /\ Replies(k, Current)
    /\ ScreenStays /\ UNCHANGED <<revision, history, stray, made, newest, overtaken>>

(* Suggestions and judge programs change the contents, too.                *)
Writes(contents) ==
    /\ revision < MaxRevision
    /\ revision' = revision + 1
    /\ history' = [history EXCEPT ![revision + 1] = contents]

Adds(k) == IF k \in {"program", "apply"} THEN {{c} : c \in Passages \ made} ELSE {{}}

(* A request is judged by the revision it names, an opinion is not.        *)
Accepts(k) ==
    /\ k # "read" /\ request[k].at = "sent"
    /\ request[k].asked = revision \/ k = "decision"
    /\ \E new \in Adds(k) :
          LET contents == IF k = "save" THEN request[k].answer.contents
                          ELSE history[revision] \cup new
          IN /\ Writes(contents)
             /\ Replies(k, [revision |-> revision + 1, contents |-> contents])
             /\ made' = made \cup new
    /\ ScreenStays /\ UNCHANGED <<stray, newest, overtaken>>

(* A switch that stands where it should; an opinion that ends nothing.     *)
Keeps(k) ==
    /\ k \in {"toggle", "review", "decision"} /\ request[k].at = "sent"
    /\ request[k].asked = revision \/ k = "decision"
    /\ Replies(k, Current)
    /\ ScreenStays /\ UNCHANGED <<revision, history, stray, made, newest, overtaken>>

Fails(k) ==
    /\ \/ request[k].at \in {"sent", "done"} /\ Turns(k, [request[k] EXCEPT !.at = "failed"])
       \/ /\ request[k].at = "sent" /\ k \in {"read", "save", "status"}
          /\ Turns(k, [request[k] EXCEPT !.at = "denied"])
    /\ ScreenStays /\ UNCHANGED <<revision, history, stray, made, newest, overtaken>>

(* If it fails once the page is cleared, it is kept for the session still. *)
StrayEnds ==
    /\ stray.revision # 0 /\ stray' = NoCopy
    /\ \/ stray.revision = revision /\ Writes(stray.contents)
       \/ UNCHANGED <<revision, history>>
    /\ draft' = draft \/ (screen.at = "gone" /\ draft' = stray)
    /\ UNCHANGED <<screen, cache, request, powers, typed, made, newest, overtaken>>

(* Others change the contents, the status or the files.                    *)
OthersWrite ==
    /\ \E new \in {{}} \cup {{c} : c \in Passages \ made} :
          Writes(history[revision] \cup new) /\ made' = made \cup new
    /\ ScreenStays /\ UNCHANGED <<request, stray, newest, overtaken>>

Server ==
    \/ \E k \in Errands : Read(k) \/ Accepts(k) \/ Keeps(k) \/ Fails(k)
    \/ StrayEnds \/ OthersWrite

EditorNext ==
    \/ screen.at = "open" /\ (\/ OverviewTab \/ StatementTab \/ SamplesTab \/ JudgeTab
                              \/ SolutionTab \/ ReviewTab \/ Buttons \/ Autosave \/ AnswersArrive)
    \/ ReadsAnew \/ ReadArrives \/ Reopen
    \/ \E k \in Errands : Cleared(k)
    \/ Server

EditorSpec == EditorInit /\ [][EditorNext]_editorVars

-----------------------------------------------------------------------------
EditorTypeOK ==
    /\ revision \in Revisions /\ history \in [Revisions -> Contents]
    /\ screen \in Screens /\ cache \in Copies /\ draft \in Copies /\ stray \in Copies
    /\ request \in [Errands -> Requests]
    /\ powers \in SUBSET Powers /\ made \in Contents /\ typed \in Contents
    /\ newest \in 0..(MaxRevision + 1) /\ overtaken \in BOOLEAN

(* No save overwrites what it has not seen: whatever a revision contains,  *)
(* the later ones contain.                                                 *)
NothingOverwritten == \A m, n \in 1..revision : m <= n => history[m] \subseteq history[n]

(* What was typed is on the page or on the server, and on the server when  *)
(* the page has nothing unsaved.                                           *)
NothingTypedIsLost ==
    screen.at = "open" => typed \subseteq history[revision]
                                \cup IF screen.dirty THEN screen.copy.contents ELSE {}

(* What holds of the editor, for as long as no contents were shown that    *)
(* were older than a revision the page knew of or was about to make.       *)
EditorInv ==
    /\ EditorTypeOK
    /\ overtaken \/ (NothingOverwritten /\ NothingTypedIsLost)
=============================================================================
