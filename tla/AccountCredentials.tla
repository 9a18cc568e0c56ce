------------------------- MODULE AccountCredentials -------------------------
(***************************************************************************)
(* Passwords, e-mail addresses, linked identities and sessions of human    *)
(* accounts (apps/api/src/database-store.ts, account-security-routes.ts    *)
(* and the login routes of app.ts).                                        *)
(*                                                                         *)
(* A request reads the account, does something slow (hashes a password,    *)
(* sends a mail, asks the identity provider) and comes back to write; what *)
(* it read may have changed.  users.auth_revision and the password hash    *)
(* are compared again, by every such write and by every use of a session.  *)
(* Clients are the requests under way.  A password is named by the         *)
(* revision of the account that came with it, 0 is none.                   *)
(*                                                                         *)
(* Left out: switched sessions, expiry, and the permission auth.login.     *)
(***************************************************************************)
EXTENDS Naturals, FiniteSets

CONSTANTS
    Clients,          \* requests under way
    Persons,          \* rows of users, most of them not yet there
    Addresses,        \* normalised e-mail addresses
    Identities,       \* <<provider, subject>>
    Nobody,           \* no user, no address
    MaxAuthRevision,  \* bounds auth_revision
    MaxLinks          \* bounds the mails with a link for a reset or a change

ASSUME CredentialAssumption ==
    /\ MaxAuthRevision \in Nat /\ MaxAuthRevision >= 2 /\ MaxLinks \in Nat
    /\ Nobody \notin Persons \cup Addresses

VARIABLES
    account,   \* per user: state, password, auth_revision, whether it has a username
    email,     \* per user: the primary row of user_emails
    linkedTo,  \* external_identities: the user an identity is linked to
    sessions,  \* rows not revoked: user, auth_revision, and how it was proved
    link,      \* per user and purpose: the row of account_action_tokens
    pending,   \* unconsumed rows of email_verification_tokens
    request,   \* per client: the step it stands at and what it has read
    links      \* mails with a link so far

credentialVars == <<account, email, linkedTo, sessions, link, pending, request, links>>

Purposes == {"password-reset", "email-change"}
NoEmail  == [address |-> Nobody, verified |-> FALSE]
NoLink   == [id |-> 0, revision |-> 0, address |-> Nobody]
NoRequest     == [step |-> "idle"]

Absent == [state |-> "absent", password |-> 0, revision |-> 0, named |-> FALSE]

Made(password, named) ==
    [state |-> "active", password |-> password, revision |-> password, named |-> named]

(* Accounts are not there yet, or have a password and a verified address,  *)
(* or were made by a provider and have set their first password since.     *)
CredentialInit ==
    /\ account \in [Persons -> {Absent, Made(1, TRUE), Made(2, FALSE)}]
    /\ email \in [Persons -> {NoEmail} \cup [address : Addresses, verified : {TRUE}]]
    /\ linkedTo \in [Identities -> Persons \cup {Nobody}]
    /\ \A u \in Persons :
           /\ email[u] # NoEmail <=> account[u] = Made(1, TRUE)
           /\ Cardinality({i \in Identities : linkedTo[i] = u}) = IF account[u] = Made(2, FALSE) THEN 1 ELSE 0
    /\ \A u, v \in Persons : u # v /\ email[u] = email[v] => email[u] = NoEmail
    /\ sessions = {}
    /\ link = [u \in Persons |-> [p \in Purposes |-> NoLink]]
    /\ pending = {}
    /\ request = [c \in Clients |-> NoRequest]
    /\ links = 0

LiveAccount(u)   == account[u].state = "active"
Free(a)     == \A u \in Persons : email[u].address # a
IdentitiesOf(u)   == {i \in Identities : linkedTo[i] = u}
Provider(i) == i[1]

(* getSession: the revision stored with a session is that of the account.  *)
Valid(s) == LiveAccount(s.user) /\ s.revision = account[s.user].revision

HasSession(u) == \E s \in sessions : s.user = u /\ Valid(s)

(* findEmailCredential and findUsernameCredential: an address counts once  *)
(* it is verified, a username as long as no address is unverified.         *)
LocalLogin(u) ==
    /\ account[u].password # 0
    /\ email[u].verified \/ (account[u].named /\ email[u] = NoEmail)

(* A transaction that holds the user's row lock while it waits for the     *)
(* index of external_identities.                                           *)
Unlocked(u) == \A c \in Clients : request[c].step = "insert_link" => request[c].user # u

Stands(c, step)  == request[c].step = step
StepTo(c, r)   == request' = [request EXCEPT ![c] = r]
Over(c)      == StepTo(c, NoRequest)

(* What a request keeps of the account it read.                            *)
Seen(u, step) == [step |-> step, user |-> u, revision |-> account[u].revision,
                  password |-> account[u].password]

Same(c) == LET u == request[c].user
           IN LiveAccount(u) /\ account[u].revision = request[c].revision

SamePassword(c) == Same(c) /\ account[request[c].user].password = request[c].password
-----------------------------------------------------------------------------
(* finishAccountChange: what was issued before dies with the revision.     *)
FinishAccountChange(u, password) ==
    /\ account[u].revision < MaxAuthRevision
    /\ account' = [account EXCEPT ![u].password = password, ![u].revision = @ + 1]
    /\ sessions' = {s \in sessions : s.user # u}
    /\ link' = [link EXCEPT ![u] = [p \in Purposes |-> NoLink]]
    /\ pending' = {v \in pending : v.user # u}

NewPassword(u) == account[u].revision + 1

(* A refused transaction leaves everything as it was.                      *)
Refused(c) == /\ Over(c)
              /\ UNCHANGED <<account, email, linkedTo, sessions, link, pending, links>>

(* registerEmailUser: the address is not verified yet.                     *)
RegisterEmailUser(c, u, a) ==
    /\ Stands(c, "idle") /\ account[u].state = "absent" /\ Free(a)
    /\ account' = [account EXCEPT ![u] = [state |-> "active", password |-> 1, revision |-> 1,
                                          named |-> TRUE]]
    /\ email' = [email EXCEPT ![u] = [address |-> a, verified |-> FALSE]]
    /\ StepTo(c, [step |-> "verify_mail", user |-> u, address |-> a])
    /\ UNCHANGED <<linkedTo, sessions, link, pending, links>>

(* Login with a password that is right when it is read.                    *)
FindCredential(c, u) ==
    /\ Stands(c, "idle") /\ LiveAccount(u) /\ LocalLogin(u)
    /\ StepTo(c, Seen(u, "password_session"))
    /\ UNCHANGED <<account, email, linkedTo, sessions, link, pending, links>>

(* createSession reads the account again, with the proof ...               *)
\* mutant: the proof is not looked at again
ProofHolds_Unchecked(c) == LiveAccount(request[c].user)

ProofHolds(c) ==
    IF Stands(c, "password_session") THEN SamePassword(c)
    ELSE LiveAccount(request[c].user) /\ linkedTo[request[c].identity] = request[c].user

CheckProof(c) ==
    /\ request[c].step \in {"password_session", "external_session"}
    /\ LET u == request[c].user
       IN IF ProofHolds(c)
          THEN StepTo(c, [step |-> "insert_session", user |-> u,
                        session |-> [user |-> u, revision |-> account[u].revision,
                                     proof |-> IF Stands(c, "password_session")
                                               THEN <<"password", request[c].password>>
                                               ELSE <<"identity", request[c].identity>>]])
          ELSE Over(c)
    /\ UNCHANGED <<account, email, linkedTo, sessions, link, pending, links>>

(* ... and inserts the session in a statement of its own.                  *)
InsertSession(c) ==
    /\ Stands(c, "insert_session")
    /\ sessions' = sessions \cup {request[c].session}
    /\ Over(c)
    /\ UNCHANGED <<account, email, linkedTo, link, pending, links>>

Logout(s) ==
    /\ s \in sessions
    /\ sessions' = sessions \ {s}
    /\ UNCHANGED <<account, email, linkedTo, link, pending, request, links>>

(* revokeUserSessions: the links stay, their revision no longer fits.      *)
LogoutAll(u) ==
    /\ HasSession(u) /\ Unlocked(u) /\ account[u].revision < MaxAuthRevision
    /\ account' = [account EXCEPT ![u].revision = @ + 1]
    /\ sessions' = {s \in sessions : s.user # u}
    /\ UNCHANGED <<email, linkedTo, link, pending, request, links>>

(* removeManagedUser.                                                      *)
RemoveManagedUser(u) ==
    /\ LiveAccount(u) /\ Unlocked(u) /\ account[u].revision < MaxAuthRevision
    /\ account' = [account EXCEPT ![u].state = "removed", ![u].password = 0, ![u].revision = @ + 1]
    /\ sessions' = {s \in sessions : s.user # u}
    /\ link' = [link EXCEPT ![u] = [p \in Purposes |-> NoLink]]
    /\ UNCHANGED <<email, linkedTo, pending, request, links>>
-----------------------------------------------------------------------------
(* Changing the password: the current one was right when it was read; an   *)
(* account without one may set its first, unless its address is unverified.*)
ReadForPassword(c, u) ==
    /\ Stands(c, "idle") /\ HasSession(u)
    /\ account[u].password # 0 \/ email[u].address = Nobody \/ email[u].verified
    /\ StepTo(c, Seen(u, "change_password"))
    /\ UNCHANGED <<account, email, linkedTo, sessions, link, pending, links>>

ChangeAccountPassword(c) ==
    /\ Stands(c, "change_password") /\ Unlocked(request[c].user)
    /\ \/ /\ SamePassword(c)
          /\ FinishAccountChange(request[c].user, NewPassword(request[c].user))
          /\ Over(c) /\ UNCHANGED <<email, linkedTo, links>>
       \/ ~SamePassword(c) /\ Refused(c)

(* A link for a reset goes to the verified address, one for a change of    *)
(* address to the new address, after the password was asked for.           *)
RequestLink(c, u, purpose, a) ==
    /\ Stands(c, "idle") /\ LiveAccount(u) /\ links < MaxLinks
    /\ IF purpose = "password-reset" THEN email[u].verified /\ a = email[u].address
       ELSE HasSession(u) /\ account[u].password # 0 /\ a # email[u].address
    /\ StepTo(c, [step |-> "save_link", user |-> u, revision |-> account[u].revision,
                purpose |-> purpose, address |-> a])
    /\ UNCHANGED <<account, email, linkedTo, sessions, link, pending, links>>

(* replaceAccountActionToken: one link per purpose.                        *)
SaveLink(c) ==
    /\ Stands(c, "save_link") /\ Unlocked(request[c].user)
    /\ LET r == request[c]
       IN \/ /\ Same(c)
             /\ links < MaxLinks /\ links' = links + 1
             /\ link' = [link EXCEPT ![r.user][r.purpose] =
                            [id |-> links + 1, revision |-> r.revision, address |-> r.address]]
             /\ Over(c) /\ UNCHANGED <<account, email, linkedTo, sessions, pending>>
          \/ (~Same(c) \/ links = MaxLinks) /\ Refused(c)

(* consumeAccountAction finds the user of the link, then locks the user.   *)
FindLink(c, u, purpose) ==
    /\ Stands(c, "idle") /\ link[u][purpose] # NoLink
    /\ StepTo(c, [step |-> "use_link", user |-> u, purpose |-> purpose, id |-> link[u][purpose].id])
    /\ UNCHANGED <<account, email, linkedTo, sessions, link, pending, links>>

LinkHolds(c) ==
    LET row == link[request[c].user][request[c].purpose]
    IN /\ row.id = request[c].id
       /\ LiveAccount(request[c].user) /\ account[request[c].user].revision = row.revision

ConsumeAccountAction(c) ==
    /\ Stands(c, "use_link") /\ Unlocked(request[c].user)
    /\ LET u == request[c].user
           a == link[u][request[c].purpose].address
           reset == request[c].purpose = "password-reset"
           may == /\ LinkHolds(c)
                  /\ IF reset THEN email[u] = [address |-> a, verified |-> TRUE]
                     ELSE \A v \in Persons \ {u} : email[v].address # a
       IN \/ /\ may
             /\ email' = IF reset THEN email
                         ELSE [email EXCEPT ![u] = [address |-> a, verified |-> TRUE]]
             /\ FinishAccountChange(u, IF reset THEN NewPassword(u) ELSE account[u].password)
             /\ Over(c) /\ UNCHANGED <<linkedTo, links>>
          \/ ~may /\ Refused(c)

(* Verification of an address: the token is inserted without a lock, and   *)
(* may be for an address the account no longer has.                        *)
RequestVerification(c, u) ==
    /\ Stands(c, "idle") /\ LiveAccount(u) /\ email[u].address # Nobody /\ ~email[u].verified
    /\ StepTo(c, [step |-> "verify_mail", user |-> u, address |-> email[u].address])
    /\ UNCHANGED <<account, email, linkedTo, sessions, link, pending, links>>

SendEmailVerification(c) ==
    /\ Stands(c, "verify_mail")
    /\ pending' = pending \cup {[user |-> request[c].user, address |-> request[c].address]}
    /\ Over(c)
    /\ UNCHANGED <<account, email, linkedTo, sessions, link, links>>

ConsumeEmailVerification(v) ==
    /\ v \in pending /\ Unlocked(v.user)
    /\ pending' = pending \ {v}
    /\ IF email[v.user].address = v.address
       THEN /\ account[v.user].revision < MaxAuthRevision
            /\ account' = [account EXCEPT ![v.user].revision = @ + 1]
            /\ email' = [email EXCEPT ![v.user].verified = TRUE]
       ELSE UNCHANGED <<account, email>>
    /\ UNCHANGED <<linkedTo, sessions, link, request, links>>
-----------------------------------------------------------------------------
(* fillLinkedProfile: an address the provider has verified becomes the     *)
(* account's, when it has none and nobody else has this one.               *)
ProfileFilled(u) ==
    \/ UNCHANGED email
    \/ \E a \in Addresses : /\ email[u] = NoEmail /\ Free(a)
                            /\ email' = [email EXCEPT ![u] = [address |-> a, verified |-> TRUE]]

(* Login by way of the provider: findOrCreateExternalUser looks the        *)
(* identity up without a lock.                                             *)
ExternalArrives(c, i) ==
    /\ Stands(c, "idle")
    /\ StepTo(c, [step |-> IF linkedTo[i] = Nobody THEN "create_user" ELSE "enter",
                user |-> linkedTo[i], identity |-> i])
    /\ UNCHANGED <<account, email, linkedTo, sessions, link, pending, links>>

ExternalKnown(c) ==
    /\ Stands(c, "enter") /\ Unlocked(request[c].user)
    /\ LET u == request[c].user
           i == request[c].identity
       IN \/ /\ LiveAccount(u) /\ linkedTo[i] = u
             /\ ProfileFilled(u)
             /\ StepTo(c, [step |-> "external_session", user |-> u, identity |-> i])
             /\ UNCHANGED <<account, linkedTo, sessions, link, pending, links>>
          \/ ~(LiveAccount(u) /\ linkedTo[i] = u) /\ Refused(c)

(* The unique index refuses the second of two first logins; the address    *)
(* the provider sent may be verified, unverified, missing or taken.        *)
ExternalCreates(c) ==
    /\ Stands(c, "create_user")
    /\ LET i == request[c].identity
       IN \/ /\ linkedTo[i] = Nobody
             /\ \E u \in Persons, named \in BOOLEAN,
                   mail \in {NoEmail} \cup [address : Addresses, verified : BOOLEAN] :
                  /\ account[u].state = "absent"
                  /\ mail = NoEmail \/ Free(mail.address)
                  /\ account' = [account EXCEPT ![u] = [state |-> "active", password |-> 0,
                                                        revision |-> 1, named |-> named]]
                  /\ email' = [email EXCEPT ![u] = mail]
                  /\ linkedTo' = [linkedTo EXCEPT ![i] = u]
                  /\ StepTo(c, [step |-> "external_session", user |-> u, identity |-> i])
             /\ UNCHANGED <<sessions, link, pending, links>>
          \/ Refused(c)

(* Linking an identity to the account one is logged in to: the state sent  *)
(* to the provider names session and revision.                             *)
StartLink(c, u) ==
    /\ Stands(c, "idle") /\ HasSession(u) /\ account[u].password # 0
    /\ \E i \in Identities :
           StepTo(c, [step |-> "callback", user |-> u, identity |-> i,
                    revision |-> account[u].revision])
    /\ UNCHANGED <<account, email, linkedTo, sessions, link, pending, links>>

(* linkExternalIdentity locks the user and looks for a collision ...       *)
CheckLink(c) ==
    /\ Stands(c, "callback") /\ Unlocked(request[c].user)
    /\ LET u == request[c].user
           i == request[c].identity
       IN \/ /\ HasSession(u) /\ Same(c)
             /\ linkedTo[i] \in {Nobody, u}
             /\ \A j \in IdentitiesOf(u) : Provider(j) = Provider(i) => j = i
             /\ StepTo(c, [step |-> "insert_link", user |-> u, identity |-> i,
                       revision |-> request[c].revision])
             /\ UNCHANGED <<account, email, linkedTo, sessions, link, pending, links>>
          \/ /\ ~(HasSession(u) /\ Same(c) /\ linkedTo[i] \in {Nobody, u}
                    /\ \A j \in IdentitiesOf(u) : Provider(j) = Provider(i) => j = i)
             /\ Refused(c)

(* ... and inserts: where another transaction was faster, the row is left  *)
(* to the account it belongs to.                                           *)
MayTake(c) == linkedTo[request[c].identity] \in {Nobody, request[c].user}

InsertLink(c) ==
    /\ Stands(c, "insert_link")
    /\ LET u == request[c].user
           i == request[c].identity
       IN \/ /\ MayTake(c)
             /\ linkedTo' = [linkedTo EXCEPT ![i] = u]
             /\ ProfileFilled(u)
             /\ FinishAccountChange(u, account[u].password)
             /\ StepTo(c, [step |-> "external_session", user |-> u, identity |-> i])
             /\ UNCHANGED links
          \/ (~MayTake(c) \/ account[u].revision = MaxAuthRevision) /\ Refused(c)

(* unlinkExternalIdentity keeps the last way to log in.                    *)
ReadForUnlink(c, u, i) ==
    /\ Stands(c, "idle") /\ HasSession(u) /\ account[u].password # 0 /\ linkedTo[i] = u
    /\ StepTo(c, [step |-> "unlink", user |-> u, revision |-> account[u].revision,
                password |-> account[u].password, identity |-> i])
    /\ UNCHANGED <<account, email, linkedTo, sessions, link, pending, links>>

(* Another way to log in remains: whether local logins are enabled, and    *)
(* which identities have an enabled provider, was read before.             *)
MayUnlink(c, local, enabled) ==
    \/ local /\ LocalLogin(request[c].user)
    \/ (IdentitiesOf(request[c].user) \ {request[c].identity}) \cap enabled # {}

Unlink(c) ==
    /\ Stands(c, "unlink") /\ Unlocked(request[c].user)
    /\ LET u == request[c].user
           i == request[c].identity
       IN \E local \in BOOLEAN, enabled \in SUBSET Identities :
          \/ /\ SamePassword(c) /\ linkedTo[i] = u /\ MayUnlink(c, local, enabled)
             /\ linkedTo' = [linkedTo EXCEPT ![i] = Nobody]
             /\ FinishAccountChange(u, account[u].password)
             /\ Over(c) /\ UNCHANGED <<email, links>>
          \/ ~(SamePassword(c) /\ linkedTo[i] = u /\ MayUnlink(c, local, enabled)) /\ Refused(c)
-----------------------------------------------------------------------------
ClientStep(c) ==
    \/ CheckProof(c) \/ InsertSession(c) \/ ChangeAccountPassword(c) \/ SaveLink(c)
    \/ ConsumeAccountAction(c) \/ SendEmailVerification(c) \/ ExternalKnown(c)
    \/ ExternalCreates(c) \/ CheckLink(c) \/ InsertLink(c) \/ Unlink(c)

ClientBegins(c) ==
    \/ \E u \in Persons, a \in Addresses : RegisterEmailUser(c, u, a)
    \/ \E u \in Persons : \/ FindCredential(c, u) \/ ReadForPassword(c, u)
                        \/ RequestVerification(c, u) \/ StartLink(c, u)
    \/ \E u \in Persons, p \in Purposes :
           FindLink(c, u, p) \/ \E a \in Addresses : RequestLink(c, u, p, a)
    \/ \E i \in Identities : ExternalArrives(c, i) \/ \E u \in Persons : ReadForUnlink(c, u, i)

CredentialNext ==
    \/ \E c \in Clients : ClientStep(c) \/ ClientBegins(c)
    \/ \E u \in Persons : LogoutAll(u) \/ RemoveManagedUser(u)
    \/ \E s \in sessions : Logout(s)
    \/ \E v \in pending : ConsumeEmailVerification(v)

CredentialSpec == CredentialInit /\ [][CredentialNext]_credentialVars
-----------------------------------------------------------------------------
(* Types: states and revisions, and links of existing users.               *)
CredentialTypeOK ==
    /\ \A u \in Persons : /\ account[u].state \in {"absent", "active", "removed"}
                        /\ account[u].password \in 0..MaxAuthRevision
                        /\ account[u].revision \in 0..MaxAuthRevision
                        /\ email[u].address \in Addresses \cup {Nobody}
    /\ \A i \in Identities : linkedTo[i] \in Persons \cup {Nobody}
    /\ \A s \in sessions : s.user \in Persons
    /\ links \in 0..MaxLinks

(* docs/api-contracts.md: a login that was under way with the old password *)
(* or an identity that was unlinked, or that another account linked faster,*)
(* gets no session that works.                                             *)
SessionsAreCurrent ==
    \A s \in sessions : Valid(s) =>
        IF s.proof[1] = "password" THEN account[s.user].password = s.proof[2]
                                   ELSE linkedTo[s.proof[2]] = s.user

(* A link to reset the password that still fits its account was sent to    *)
(* the address the account has now.                                        *)
LinksAreCurrent ==
    \A u \in Persons :
        LET row == link[u]["password-reset"]
        IN row # NoLink /\ LiveAccount(u) /\ row.revision = account[u].revision
               => email[u] = [address |-> row.address, verified |-> TRUE]

(* docs/account-linking-design.md: whoever could log in still can, by an   *)
(* identity or with a password and a verified address or a bare username;  *)
(* only a fresh registration waits for its address to be verified.         *)
LoginRemains ==
    \A u \in Persons : LiveAccount(u) =>
        \/ IdentitiesOf(u) # {} \/ LocalLogin(u)
        \/ account[u].password # 0 /\ account[u].revision = 1

(* What accounts, sessions, links and identities say about each other.     *)
AccountInv == CredentialTypeOK /\ SessionsAreCurrent /\ LinksAreCurrent /\ LoginRemains
=============================================================================
