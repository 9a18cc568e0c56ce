---------------------------- MODULE SiteSettings ----------------------------
(***************************************************************************)
(* The two rows of settings an administrator edits: system_settings with   *)
(* site, registration and mail, and system_oauth_settings with the client  *)
(* of the identity provider (apps/api/src/admin-service.ts and the pages   *)
(* of apps/web/src/pages/admin-section-page.tsx).  A page keeps the draft  *)
(* it made from the row it read; a save compares its revision, builds the  *)
(* next row, judges it beside the other row, and compares once more in the *)
(* transaction that writes.  Only the first row exists from the start; the *)
(* second is read as its defaults until it is saved, and cannot be locked. *)
(*                                                                         *)
(* Left out: names, ports and scopes, and what a page shows of them; the   *)
(* endpoints are the approved ones or none.                                *)
(***************************************************************************)
EXTENDS Integers, FiniteSets

CONSTANTS
    Pages,          \* open pages of administrators
    Sites,          \* origins the deployment allows as the public site
    ClientIds,      \* client identifiers at the provider
    DeploymentMail, \* mails can be sent whatever the settings say
    MaxSaves        \* bound of the model: rows written

ASSUME SettingsAssumption == /\ Sites # {} /\ "path" \notin Sites
                             /\ {"keep", "clear"} \cap ClientIds = {}
                             /\ DeploymentMail \in BOOLEAN
                             /\ MaxSaves \in Nat

VARIABLES
    general,  \* the row of system_settings
    oauth,    \* the row of system_oauth_settings, or what is read without it
    page      \* page[p]: the form, the draft and the save under way

settingsVars == <<general, oauth, page>>

(* The callback is the fixed path on the public site, or written out.      *)
Redirects  == {"path"} \cup Sites
Identities == [endpoints : BOOLEAN, redirect : Redirects, client : SUBSET ClientIds]

(* A version numbers the rows ever written, whatever revision they carry,  *)
(* and inserts counts the INSERTs that have written the second row.        *)
(* A secret is known by the settings it was entered for; there is one or   *)
(* none, and so with the client.                                           *)
GeneralRows == [site : Sites, login : BOOLEAN, registration : BOOLEAN, mail : BOOLEAN,
                revision : 1..1 + MaxSaves, version : 1..1 + MaxSaves]
OAuthRows   == [inserts : 0..MaxSaves, enabled : BOOLEAN, autoCreate : BOOLEAN,
                endpoints : BOOLEAN, redirect : Redirects, client : SUBSET ClientIds,
                secret : SUBSET Identities,
                revision : 1..1 + MaxSaves, version : 1..1 + MaxSaves]

PageRows    == [form : {"none", "general", "oauth"},
                at : {"closed", "open", "built", "judged", "insert"},
                revision : 1..1 + MaxSaves, version : 1..1 + MaxSaves,
                next : SUBSET (GeneralRows \cup OAuthRows)]

Identity(row) == [endpoints |-> row.endpoints, redirect |-> row.redirect, client |-> row.client]

NoDraft == [form |-> "none", at |-> "closed", revision |-> 1, version |-> 1, next |-> {}]

SettingsInit ==
    /\ general \in [site : Sites, login : {TRUE}, registration : {FALSE}, mail : {FALSE},
                    revision : {1}, version : {1}]
    /\ oauth = [inserts |-> 0, enabled |-> FALSE, autoCreate |-> TRUE, endpoints |-> FALSE,
                redirect |-> "path", client |-> {}, secret |-> {}, revision |-> 1, version |-> 1]
    /\ page = [p \in Pages |-> NoDraft]

Written      == (general.version - 1) + (oauth.version - 1)
Stored       == oauth.inserts > 0
Row(form)    == IF form = "general" THEN general ELSE oauth
PageIs(p, form, at) == page[p].form = form /\ page[p].at = at

(* A draft is made from the row as it is shown: when a page is opened or   *)
(* loaded again, or from the row its own save has written.                 *)
Draft(form, row) == [form |-> form, at |-> "open", revision |-> row.revision,
                     version |-> row.version, next |-> {}]

OpenForm(p, form) ==
    /\ page[p].at \in {"closed", "open"}
    /\ page' = [page EXCEPT ![p] = Draft(form, Row(form))]
    /\ UNCHANGED <<general, oauth>>

(* A save that is refused leaves the draft as it was.                      *)
Refusal(p) == page' = [page EXCEPT ![p].at = "open", ![p].next = {}]

Build(p, row) ==
    /\ page' = [page EXCEPT ![p].at = "built", ![p].next = {row}]
    /\ UNCHANGED <<general, oauth>>

-----------------------------------------------------------------------------
(* Saving the general settings: what the new row demands of itself, ...    *)
GeneralAllowed(row) == row.registration => row.login /\ (row.mail \/ DeploymentMail)

SaveGeneral(p) ==
    /\ PageIs(p, "general", "open") /\ page[p].revision = general.revision
    /\ \E row \in GeneralRows :
          /\ row.revision = general.revision + 1 /\ row.version = general.version
          /\ GeneralAllowed(row)
          /\ Build(p, row)

(* ... and of the callback, where the other row has been saved.            *)
RedirectFits(redirect, publicSite) == redirect \in {"path", publicSite}

JudgeGeneral(p) ==
    /\ PageIs(p, "general", "built")
    /\ \E row \in page[p].next :
          IF Stored => RedirectFits(oauth.redirect, row.site)
          THEN page' = [page EXCEPT ![p].at = "judged"]
          ELSE Refusal(p)
    /\ UNCHANGED <<general, oauth>>

-----------------------------------------------------------------------------
(* Saving the OAuth settings: client and secret are kept when the field is *)
(* left empty, cleared, or entered.                                        *)
OAuthInputs == [enabled : BOOLEAN, autoCreate : BOOLEAN, endpoints : BOOLEAN,
                redirect : Redirects, client : {"keep", "clear"} \cup ClientIds,
                secret : {"keep", "clear", "new"}]

NextClient(row, input) ==
    CASE input.client = "keep"  -> row.client
      [] input.client = "clear" -> {}
      [] OTHER                  -> {input.client}

NextIdentity(row, input) == [endpoints |-> input.endpoints, redirect |-> input.redirect,
                             client |-> NextClient(row, input)]

NextSecret(row, input) ==
    CASE input.secret = "keep"  -> row.secret
      [] input.secret = "clear" -> {}
      [] OTHER                  -> {NextIdentity(row, input)}

NextOAuth(row, input) ==
    [inserts |-> row.inserts, enabled |-> input.enabled, autoCreate |-> input.autoCreate,
     endpoints |-> input.endpoints, redirect |-> input.redirect,
     client |-> NextClient(row, input), secret |-> NextSecret(row, input),
     revision |-> row.revision + 1, version |-> row.version]

(* A secret that stays must not meet settings it was not entered for.      *)
MustReenter(row, input) ==
    row.secret # {} /\ input.secret = "keep" /\ NextIdentity(row, input) # Identity(row)

Sufficient(row) == row.endpoints /\ row.client # {} /\ row.secret # {}

SaveOAuth(p) ==
    /\ PageIs(p, "oauth", "open") /\ page[p].revision = oauth.revision
    /\ oauth.revision <= MaxSaves
    /\ \E input \in OAuthInputs :
          /\ ~MustReenter(oauth, input)
          /\ LET row == NextOAuth(oauth, input)
             IN  (row.enabled => Sufficient(row)) /\ Build(p, row)

JudgeOAuth(p) ==
    /\ PageIs(p, "oauth", "built")
    /\ \E row \in page[p].next :
          IF RedirectFits(row.redirect, general.site)
          THEN page' = [page EXCEPT ![p].at = "judged"]
          ELSE Refusal(p)
    /\ UNCHANGED <<general, oauth>>

-----------------------------------------------------------------------------
(* The transaction: SELECT revision ... FOR UPDATE, then the row.  The     *)
(* answer may be lost, and the page then keeps its draft.                  *)
Numbered(p, row) ==
    IF page[p].form = "general"
    THEN [row EXCEPT !.version = general.version + 1]
    ELSE [row EXCEPT !.version = oauth.version + 1,
                     !.inserts = oauth.inserts + IF page[p].at = "insert" THEN 1 ELSE 0]

Store(p, row) ==
    /\ Written < MaxSaves
    /\ IF page[p].form = "general"
       THEN general' = row /\ UNCHANGED oauth
       ELSE oauth' = row /\ UNCHANGED general
    /\ page' = [page EXCEPT ![p] = Draft(page[p].form, row)] \/ Refusal(p)

\* mutant: the transaction does not compare the revision again
Unchanged_Unlocked(p) == page[p].form \in {"general", "oauth"}

UnchangedSince(p) == Row(page[p].form).revision = page[p].revision

Locked(p) == page[p].form = "general" \/ Stored

WriteLocked(p) ==
    /\ page[p].at = "judged" /\ Locked(p)
    /\ IF UnchangedSince(p) THEN \E row \in page[p].next : Store(p, Numbered(p, row))
       ELSE Refusal(p) /\ UNCHANGED <<general, oauth>>

(* Without a row there is nothing to lock: others may insert it between    *)
(* the comparison and the INSERT, which then replaces theirs.              *)
CompareAbsent(p) ==
    /\ page[p].at = "judged" /\ ~Locked(p)
    /\ page' = [page EXCEPT ![p].at = "insert"]
    /\ UNCHANGED <<general, oauth>>

Insert(p) ==
    /\ page[p].at = "insert"
    /\ \E row \in page[p].next : Store(p, Numbered(p, row))

SettingsNext ==
    \E p \in Pages :
       \/ OpenForm(p, "general") \/ OpenForm(p, "oauth")
       \/ SaveGeneral(p) \/ JudgeGeneral(p)
       \/ SaveOAuth(p) \/ JudgeOAuth(p)
       \/ WriteLocked(p) \/ CompareAbsent(p) \/ Insert(p)

SettingsSpec == SettingsInit /\ [][SettingsNext]_settingsVars
-----------------------------------------------------------------------------
SettingsTypeOK ==
    /\ general \in GeneralRows
    /\ oauth \in OAuthRows
    /\ page \in [Pages -> PageRows]

(* However saves overlap and answers get lost, the stored secret was       *)
(* entered for exactly the endpoints, callback and client stored with it,  *)
(* and a provider is enabled only with all it takes to ask it.             *)
SecretBound ==
    /\ oauth.secret \subseteq {Identity(oauth)}
    /\ oauth.enabled => Sufficient(oauth)

(* A draft that carries the revision now stored was made from the row now  *)
(* stored, so that no save overwrites settings its page has never shown;   *)
(* of the OAuth settings this holds until a second INSERT, which starts    *)
(* the revisions again.                                                    *)
DraftsAreCurrent ==
    /\ \A p \in Pages : page[p].form = "general" /\ page[p].revision = general.revision
                            => page[p].version = general.version
    /\ oauth.inserts <= 1 =>
          \A p \in Pages : page[p].form = "oauth" /\ page[p].revision = oauth.revision
                              => page[p].version = oauth.version

(* Registration is open only where mails can be sent and logins work.      *)
RegistrationWorks == GeneralAllowed(general)

SettingsInv == SettingsTypeOK /\ SecretBound /\ DraftsAreCurrent /\ RegistrationWorks
=============================================================================
