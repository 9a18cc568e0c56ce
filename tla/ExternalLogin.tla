---------------------------- MODULE ExternalLogin ----------------------------
(***************************************************************************)
(* Logging in by way of a provider, and linking its identity to the        *)
(* account one is logged in to (packages/auth/src/ustc-oauth.ts, cas.ts    *)
(* and their routes in apps/api/src/app.ts).  A start leaves a state in    *)
(* the database, a signed copy of it with the provider, and a cookie in    *)
(* the browser; the callback wants all three.  Start and callback build    *)
(* the OAuth client anew from the settings, which an administrator may     *)
(* change in between (SiteSettings); a callback may come twice, late, or   *)
(* from another browser.  What becomes of the account is the subject of    *)
(* AccountCredentials.                                                     *)
(*                                                                         *)
(* Left out: a client configured by the environment, signatures, and the   *)
(* fields of the profile.                                                  *)
(***************************************************************************)
EXTENDS SiteSettings

CONSTANTS
    Attempts,    \* logins begun in one browser
    Calls,       \* requests under way
    MaxSessions  \* bound of the model: sessions begun in other ways

ASSUME LoginAssumption == MaxSessions \in Nat

VARIABLES
    attempt,  \* what the provider and the browser hold of each login
    states,   \* the rows of login_states not consumed
    call,     \* call[h]: the request
    signedIn, \* the session of the browser, 0 when it has none
    serial,   \* sessions the browser ever had
    linked    \* the identity belongs to an account

loginVars == <<attempt, states, call, signedIn, serial, linked>>

Kinds == {"oauth", "link", "cas"}
Codes == {"none", "granted", "redeemed"}

(* The client and the callback address the provider was sent to with.      *)
AttemptRows == [kind : Kinds \cup {"none"}, client : SUBSET ClientIds, callback : Redirects,
                code : Codes, session : Nat, late : BOOLEAN, entered : Nat]
NoAttempt == [kind |-> "none", client |-> {}, callback |-> "path", code |-> "none",
              session |-> 0, late |-> FALSE, entered |-> 0]

Steps    == {"idle", "start", "put", "callback", "finish", "exchange", "known", "allow",
             "enter", "link", "save", "begin"}
CallRows == [at : Steps, of : Attempts \cup {"none"}, kind : Kinds \cup {"none"},
             own : BOOLEAN, client : SUBSET ClientIds, redirect : Redirects, session : Nat]

NoHandler == [at |-> "idle", of |-> "none", kind |-> "none", own |-> FALSE, client |-> {},
              redirect |-> "path", session |-> 0]

LoginInit ==
    /\ SettingsInit
    /\ attempt = [a \in Attempts |-> NoAttempt]
    /\ states = {}
    /\ call = [h \in Calls |-> NoHandler]
    /\ signedIn = 0 /\ serial = 0
    /\ linked \in BOOLEAN

CallAt(h, step) == call[h].at = step
Leaves(h)     == call' = [call EXCEPT ![h] = NoHandler]
Moves(h, step) == call' = [call EXCEPT ![h].at = step]
Untaken(a)    == attempt[a].kind = "none" /\ \A h \in Calls : call[h].of # a

-----------------------------------------------------------------------------
(* resolveUstcOAuthClient reads the one row, ...                           *)
ProviderUsable == Stored /\ oauth.enabled

ReadClient(h, what) ==
    /\ CallAt(h, "idle") /\ ProviderUsable
    /\ call' = [call EXCEPT ![h] = [what EXCEPT !.client = oauth.client,
                                                      !.redirect = oauth.redirect]]
    /\ UNCHANGED <<attempt, states, signedIn, serial, linked>>

BeginStart(h, a, kind) ==
    /\ Untaken(a) /\ kind \in {"oauth", "link"} /\ (kind = "link" => signedIn # 0)
    /\ ReadClient(h, [NoHandler EXCEPT !.at = "start", !.of = a, !.kind = kind,
                                       !.session = signedIn])

BeginCallback(h, a, own) ==
    /\ attempt[a].code # "none"
    /\ ReadClient(h, [NoHandler EXCEPT !.at = "callback", !.of = a, !.own = own,
                                       !.kind = "oauth"])

(* ... then the other: the callback is on the public site, or refused.     *)
CallbackAddress(h) == IF call[h].redirect = "path" THEN general.site ELSE call[h].redirect

ReadSite(h, from, to) ==
    /\ CallAt(h, from)
    /\ IF RedirectFits(call[h].redirect, general.site)
       THEN call' = [call EXCEPT ![h].at = to, ![h].redirect = CallbackAddress(h)]
       ELSE Leaves(h)
    /\ UNCHANGED <<attempt, states, signedIn, serial, linked>>

(* startLogin: the state is stored, and the browser goes to the provider.  *)
PutState(a, begun) ==
    /\ attempt' = [attempt EXCEPT ![a] = begun]
    /\ states' = states \cup {a}

StartLogin(h) ==
    /\ CallAt(h, "put")
    /\ PutState(call[h].of, [NoAttempt EXCEPT
          !.kind = call[h].kind, !.client = call[h].client,
          !.callback = call[h].redirect, !.session = call[h].session])
    /\ Leaves(h)
    /\ UNCHANGED <<signedIn, serial, linked>>

StartCas(a) ==
    /\ Untaken(a)
    /\ PutState(a, [NoAttempt EXCEPT !.kind = "cas"])
    /\ UNCHANGED <<call, signedIn, serial, linked>>

CasCallback(h, a, own) ==
    /\ CallAt(h, "idle") /\ attempt[a].code # "none"
    /\ call' = [call EXCEPT ![h] = [NoHandler EXCEPT !.at = "finish", !.of = a,
                                                           !.own = own, !.kind = "cas"]]
    /\ UNCHANGED <<attempt, states, signedIn, serial, linked>>

-----------------------------------------------------------------------------
(* The user has signed in at the provider, which sends the browser back.   *)
SignIn(a) ==
    /\ attempt[a].kind # "none" /\ attempt[a].code = "none"
    /\ attempt' = [attempt EXCEPT ![a].code = "granted"]
    /\ UNCHANGED <<states, call, signedIn, serial, linked>>

Outlive(a) ==
    /\ a \in states /\ ~attempt[a].late
    /\ attempt' = [attempt EXCEPT ![a].late = TRUE]
    /\ UNCHANGED <<states, call, signedIn, serial, linked>>

(* The state names the kind it was made for; it is taken once, and before  *)
(* the provider is asked.                                                  *)
StateFits(h) ==
    LET a == call[h].of
    IN  /\ (call[h].kind = "cas") <=> (attempt[a].kind = "cas")
        /\ ~attempt[a].late /\ call[h].own

\* mutant: the state is looked up but stays in the table
TakeState_Kept(h) ==
    /\ call[h].of \in states
    /\ UNCHANGED states
    /\ call' = [call EXCEPT ![h].at = "exchange", ![h].kind = attempt[call[h].of].kind]

TakeState(h) ==
    /\ call[h].of \in states
    /\ states' = states \ {call[h].of}
    /\ call' = [call EXCEPT ![h].at = "exchange", ![h].kind = attempt[call[h].of].kind]

FinishLogin(h) ==
    /\ CallAt(h, "finish")
    /\ \/ StateFits(h) /\ TakeState(h)
       \/ ~(StateFits(h) /\ call[h].of \in states) /\ Leaves(h) /\ UNCHANGED states
    /\ UNCHANGED <<attempt, signedIn, serial, linked>>

(* The provider gives its answer for a code once, to the client and for    *)
(* the callback the code was granted for.                                  *)
Grants(h) ==
    LET a == call[h].of
    IN  /\ attempt[a].code = "granted"
        /\ call[h].kind # "cas" => /\ attempt[a].client = call[h].client
                                      /\ attempt[a].callback = call[h].redirect

AfterExchange(kind) ==
    CASE kind = "cas"   -> "enter"
      [] kind = "oauth" -> "known"
      [] OTHER          -> "link"

ExchangeCode(h) ==
    /\ CallAt(h, "exchange")
    /\ \/ /\ Grants(h)
          /\ attempt' = [attempt EXCEPT ![call[h].of].code = "redeemed"]
          /\ Moves(h, AfterExchange(call[h].kind)) \/ Leaves(h)
       \/ Leaves(h) /\ UNCHANGED attempt
    /\ UNCHANGED <<states, signedIn, serial, linked>>

-----------------------------------------------------------------------------
(* A known identity enters; for another the switch decides, as it stands   *)
(* by then.                                                                *)
Recognise(h) ==
    /\ CallAt(h, "known")
    /\ Moves(h, IF linked THEN "enter" ELSE "allow")
    /\ UNCHANGED <<attempt, states, signedIn, serial, linked>>

Allow(h) ==
    /\ CallAt(h, "allow")
    /\ IF oauth.autoCreate THEN Moves(h, "enter") ELSE Leaves(h)
    /\ UNCHANGED <<attempt, states, signedIn, serial, linked>>

(* Whether the account is there or made now, unless another one collides.  *)
FindOrCreate(h) ==
    /\ CallAt(h, "enter")
    /\ \/ Moves(h, "begin") /\ linked' = (linked \/ call[h].kind = "oauth")
       \/ Leaves(h) /\ UNCHANGED linked
    /\ UNCHANGED <<attempt, states, signedIn, serial>>

(* A link is for the session that asked for it, if the browser still has   *)
(* that session, and is made if the identity is free.                      *)
SameSession(h) == signedIn # 0 /\ signedIn = attempt[call[h].of].session

CheckSession(h) ==
    /\ CallAt(h, "link")
    /\ IF SameSession(h)
       THEN call' = [call EXCEPT ![h].at = "save", ![h].session = signedIn]
       ELSE Leaves(h)
    /\ UNCHANGED <<attempt, states, signedIn, serial, linked>>

LinkIdentity(h) ==
    /\ CallAt(h, "save")
    /\ \/ Moves(h, "begin") /\ linked' = TRUE
       \/ Leaves(h) /\ UNCHANGED linked
    /\ UNCHANGED <<attempt, states, signedIn, serial>>

(* beginSession: the browser gets another session.                         *)
BeginSession(h) ==
    /\ CallAt(h, "begin")
    /\ \/ /\ serial' = serial + 1 /\ signedIn' = serial'
          /\ attempt' = [attempt EXCEPT ![call[h].of].entered = @ + 1]
       \/ UNCHANGED <<attempt, signedIn, serial>>
    /\ Leaves(h)
    /\ UNCHANGED <<states, linked>>

LogIn ==
    /\ serial < MaxSessions
    /\ serial' = serial + 1 /\ signedIn' = serial'
    /\ UNCHANGED <<attempt, states, call, linked>>

LogOut ==
    /\ signedIn # 0 /\ signedIn' = 0
    /\ UNCHANGED <<attempt, states, call, serial, linked>>

(* Here, which ends the session, or in another browser.                    *)
Unlink ==
    /\ linked /\ linked' = FALSE
    /\ signedIn' \in {signedIn, 0}
    /\ UNCHANGED <<attempt, states, call, serial>>

LoginStep ==
    \/ \E h \in Calls :
          \/ \E a \in Attempts : \/ \E kind \in Kinds : BeginStart(h, a, kind)
                                 \/ \E own \in BOOLEAN : BeginCallback(h, a, own)
                                                         \/ CasCallback(h, a, own)
          \/ ReadSite(h, "start", "put") \/ ReadSite(h, "callback", "finish")
          \/ StartLogin(h) \/ FinishLogin(h) \/ ExchangeCode(h)
          \/ Recognise(h) \/ Allow(h) \/ FindOrCreate(h)
          \/ CheckSession(h) \/ LinkIdentity(h) \/ BeginSession(h)
    \/ \E a \in Attempts : StartCas(a) \/ SignIn(a) \/ Outlive(a)
    \/ LogIn \/ LogOut \/ Unlink

LoginNext ==
    \/ LoginStep /\ UNCHANGED settingsVars
    \/ SettingsNext /\ UNCHANGED loginVars

LoginSpec == LoginInit /\ [][LoginNext]_<<settingsVars, loginVars>>
-----------------------------------------------------------------------------
Known == {"known", "allow", "enter", "link", "save", "begin"}

LoginTypeOK ==
    /\ attempt \in [Attempts -> AttemptRows]
    /\ states \subseteq Attempts
    /\ call \in [Calls -> CallRows]
    /\ signedIn \in 0..serial /\ serial \in Nat
    /\ linked \in BOOLEAN

(* docs/ustc-oauth.md: a state works once, for the browser it was made     *)
(* for.  However often the callback comes, one call at most gets past   *)
(* the state, one session comes of it, and never before the provider has   *)
(* confirmed it.                                                           *)
StatesWorkOnce ==
    \A a \in Attempts :
        LET Past == {h \in Calls : call[h].of = a /\ call[h].at \in {"exchange"} \cup Known}
        IN  /\ \A h, k \in Past : h = k
            /\ \A h \in Past : call[h].own
            /\ Past # {} => a \notin states /\ attempt[a].entered = 0
            /\ attempt[a].entered > 0 => /\ attempt[a].code = "redeemed" /\ a \notin states
                                         /\ attempt[a].entered = 1

(* An answer of the provider is used only by a client that is the one the  *)
(* login was begun with, at the address it was begun for, although both    *)
(* were configured anew in between.                                        *)
GrantsAreNotMixed ==
    \A h \in Calls :
        LET a == call[h].of
        IN  call[h].at \in Known =>
                /\ attempt[a].code = "redeemed" /\ attempt[a].kind = call[h].kind
                /\ call[h].kind # "cas" => /\ call[h].client = attempt[a].client
                                              /\ call[h].redirect = attempt[a].callback

(* A link is saved for the session that asked for it, whatever the browser *)
(* did meanwhile.                                                          *)
LinksAreAskedFor ==
    \A h \in Calls : call[h].kind = "link" /\ call[h].at \in {"save", "begin"}
                        => call[h].session = attempt[call[h].of].session

LoginInv == LoginTypeOK /\ StatesWorkOnce /\ GrantsAreNotMixed /\ LinksAreAskedFor
=============================================================================
