----------------------------- MODULE KeycloakSso -----------------------------
(***************************************************************************)
(* Keycloak logins in overlay/api/neurwerk_sso.py, any number of them at a *)
(* time.  A callback that matches its browser's nonce exchanges its        *)
(* code for a token, whose roles and address are those the directory had   *)
(* at that moment.  With the role dify-user the login finds or registers   *)
(* its account, makes it a member of the sole workspace and opens a        *)
(* session; without it the login takes memberships and session away.       *)
(*                                                                         *)
(* Both hold claims meanwhile: on the identity (subject and address), and  *)
(* then on the account.  A claim is a lease, which may be lost under its   *)
(* holder; ensure_owned finds that out.  The claims, the linking of        *)
(* subjects to accounts and the sessions are Dify's, and external.         *)
(*                                                                         *)
(* An account is named by the address it was created with.                 *)
(***************************************************************************)
EXTENDS BrowserState, FiniteSets

CONSTANTS
    Subjects,          \* users of the Keycloak realm
    Mails,             \* addresses
    OwnerMail,         \* the address of the break-glass owner's account
    Entries,           \* what the directory may hold of a user
    Directories,       \* the directories to begin with
    Settings,          \* ALLOW_SSO_REGISTER; is AUTO_SETUP_ADMIN_EMAIL set?
    MaxEdits,          \* bound on the edits of the directory
    MaxLosses,         \* bound on claims lost under a live login
    MaxCrashes         \* bound on pods killed in a login

Roles == {"dify-user", "dify-admin"}
Entry == [mail : Mails, roles : SUBSET Roles]
Setting == [register : BOOLEAN, guarded : BOOLEAN]

ASSUME SsoAssumption ==
    /\ OwnerMail \in Mails
    /\ Nobody \notin Subjects \cup Mails \cup Logins
    /\ Entries \subseteq Entry
    /\ Directories \subseteq [Subjects -> Entries]
    /\ Settings \subseteq Setting
    /\ MaxEdits \in Nat /\ MaxLosses \in Nat /\ MaxCrashes \in Nat

VARIABLES
    stage,             \* where each login is
    req,               \* what each login has read so far
    claim,             \* the holder of each claim
    lost,              \* logins that lost a claim they still have to check
    accounts, link, member, session,   \* Dify's tables and token store
    directory,         \* Keycloak's users
    settings,
    edits, losses, crashes

store == <<accounts, link, member, session>>
realm == <<directory, settings, edits>>
faults == <<lost, losses, crashes>>
vars == <<stateVars, stage, req, claim, faults, store, realm>>

(* The three kinds of claim, each in a name space of its own.              *)
Keys == ({"subject"} \X Subjects) \cup ({"mail", "account"} \X Mails)

Outcomes == {"in", "out", "refused", "orphaned", "torn"}
Running == {"code", "claim", "register", "link", "account", "commit", "tokens",
            "shut_claim", "shut_account", "delete", "revoke"}
Stages == {"idle"} \cup Running \cup Outcomes

Request == [start : {NoNonce} \cup Starts, browser : Browsers \cup {Nobody},
            who : Subjects \cup {Nobody}, mail : Mails \cup {Nobody},
            roles : SUBSET Roles, account : Mails \cup {Nobody}]
Blank == [start |-> NoNonce, browser |-> Nobody, who |-> Nobody,
          mail |-> Nobody, roles |-> {}, account |-> Nobody]

SsoTypeOK ==
    /\ BrowserTypeOK
    /\ stage \in [Logins -> Stages]
    /\ req \in [Logins -> Request]
    /\ claim \in [Keys -> Logins \cup {Nobody}]
    /\ lost \subseteq Logins
    /\ accounts \subseteq Mails /\ session \subseteq accounts
    /\ link \in [Subjects -> Mails \cup {Nobody}]
    /\ member \in [Mails -> {"none", "editor", "admin", "owner"}]
    /\ directory \in [Subjects -> Entries]
    /\ settings \in Settings
    /\ edits \in 0..MaxEdits /\ losses \in 0..MaxLosses /\ crashes \in 0..MaxCrashes

(* The owner's account, and those that earlier logins have registered for  *)
(* some of the subjects under their present addresses.                     *)
Init ==
    /\ BrowserInit
    /\ directory \in Directories
    /\ settings \in Settings
    /\ \E known \in SUBSET Subjects :
         /\ \A s \in known : directory[s].mail # OwnerMail
         /\ \A s, t \in known : directory[s].mail = directory[t].mail => s = t
         /\ link = [s \in Subjects |-> IF s \in known THEN directory[s].mail ELSE Nobody]
         /\ accounts = {OwnerMail} \cup {directory[s].mail : s \in known}
    /\ member = [a \in Mails |-> CASE a = OwnerMail -> "owner"
                                   [] a \in accounts \ {OwnerMail} -> "editor"
                                   [] OTHER -> "none"]
    /\ session = {}
    /\ stage = [l \in Logins |-> "idle"]
    /\ req = [l \in Logins |-> Blank]
    /\ claim = [k \in Keys |-> Nobody]
    /\ lost = {}
    /\ edits = 0 /\ losses = 0 /\ crashes = 0
-----------------------------------------------------------------------------
(* Claims.  acquire takes subject and address in one call.                 *)
IdentityKeys(l) == {<<"subject", req[l].who>>, <<"mail", req[l].mail>>}
(* Mutant: one name space for the claims on addresses and accounts.        *)
AccountKeyShared(a) == <<"mail", a>>
AccountKey(a) == <<"account", a>>
Owns(l, K) == \A k \in K : claim[k] = l
Held(l) == {k \in Keys : claim[k] = l}
Grant(l, K) == [k \in Keys |-> IF k \in K THEN l ELSE claim[k]]
Released(l) == [k \in Keys |-> IF claim[k] = l THEN Nobody ELSE claim[k]]

(* What a login waits for before its next step.                            *)
Awaited(l) == CASE stage[l] \in {"claim", "shut_claim"}     -> IdentityKeys(l)
                [] stage[l] \in {"account", "shut_account"} -> {AccountKey(req[l].account)}
                [] OTHER                                    -> {}

Goto(l, point) == stage' = [stage EXCEPT ![l] = point]

(* The end of a request: its local state is gone, its claims are released  *)
(* by the with-blocks.                                                     *)
Leave(l, outcome) ==
    /\ Goto(l, outcome)
    /\ req' = [req EXCEPT ![l] = [Blank EXCEPT !.start = req[l].start]]
    /\ claim' = Released(l)

(* What a request that ends here leaves behind: an account nobody is       *)
(* linked to, a session without membership, or nothing of its own.         *)
Debris(l) == CASE stage[l] = "link"   -> "orphaned"
               [] stage[l] = "revoke" -> "torn"
               [] OTHER               -> "refused"

Stop(l) ==
    /\ stage[l] \in Running
    /\ Goto(l, Debris(l))
    /\ req' = [req EXCEPT ![l] =
                 [Blank EXCEPT !.start = req[l].start,
                               !.mail = IF stage[l] = "link" THEN req[l].mail ELSE Nobody,
                               !.account = IF stage[l] = "revoke" THEN req[l].account
                                                                  ELSE Nobody]]

Role(l) == IF "dify-admin" \in req[l].roles THEN "admin" ELSE "editor"
-----------------------------------------------------------------------------
(* Starting and answering.                                                 *)

StartLogin(b) ==
    /\ Begin(b)
    /\ UNCHANGED <<stage, req, claim, faults, store, realm>>

StartAnswered(n) ==
    /\ AnswerStart(n)
    /\ UNCHANGED <<stage, req, claim, faults, store, realm>>

(* The state of start n comes back in browser b, where subject s is signed *)
(* in at Keycloak.  If it does not match, the user is sent back.           *)
Callback(l, b, n, s) ==
    /\ stage[l] = "idle"
    /\ Decode(l, b, n)
    /\ IF Matches(b, n)
       THEN /\ Goto(l, "code")
            /\ req' = [req EXCEPT ![l] = [Blank EXCEPT !.start = n, !.browser = b,
                                                       !.who = s]]
       ELSE Goto(l, "refused") /\ UNCHANGED req
    /\ UNCHANGED <<claim, faults, store, realm>>

(* A request that has ended is answered.                                   *)
CallbackAnswered(l) ==
    /\ stage[l] \in Outcomes
    /\ AnswerCallback(l)
    /\ UNCHANGED <<stage, req, claim, faults, store, realm>>

(* get_identity: the token is a snapshot of the directory.  The owner's    *)
(* address is refused, when it is configured.                              *)
GetIdentity(l) ==
    /\ stage[l] = "code"
    /\ LET entry == directory[req[l].who]
       IN  IF settings.guarded /\ entry.mail = OwnerMail
           THEN Leave(l, "refused")
           ELSE /\ Goto(l, IF "dify-user" \in entry.roles THEN "claim" ELSE "shut_claim")
                /\ req' = [req EXCEPT ![l] = [@ EXCEPT !.mail = entry.mail, !.roles = entry.roles]]
                /\ UNCHANGED claim
    /\ UNCHANGED <<stateVars, faults, store, realm>>
-----------------------------------------------------------------------------
(* A login with the role.                                                  *)

(* _resolve_account raises unless: the subject is linked, and the address  *)
(* is not another account's; or neither is known.                          *)
MayResolve(l) ==
    IF link[req[l].who] = Nobody
    THEN req[l].mail \notin accounts
    ELSE req[l].mail \in accounts => req[l].mail = link[req[l].who]

(* Mutant: an account with the address is used, without linking it.        *)
ResolveUnlinked(l) ==
    /\ stage[l] = "claim"
    /\ Owns(Nobody, Awaited(l))
    /\ LET known == IF req[l].mail \in accounts THEN req[l].mail ELSE link[req[l].who]
       IN  /\ claim' = Grant(l, IdentityKeys(l))
           /\ Goto(l, IF known = Nobody THEN "register" ELSE "account")
           /\ req' = [req EXCEPT ![l].account = known]
    /\ UNCHANGED <<stateVars, faults, store, realm>>
(* Mutant: the account with the address is taken, as for other providers.  *)
ResolveByMail(l) ==
    /\ stage[l] = "claim"
    /\ Owns(Nobody, Awaited(l))
    /\ claim' = Grant(l, IdentityKeys(l))
    /\ LET account == link[req[l].who]
       IN  /\ Goto(l, CASE account # Nobody           -> "account"
                        [] req[l].mail \in accounts    -> "link"
                        [] OTHER                       -> "register")
           /\ req' = [req EXCEPT ![l].account = account]
    /\ UNCHANGED <<stateVars, faults, store, realm>>
(* The claim on the identity, and _resolve_account under it.               *)
Resolve(l) ==
    /\ stage[l] = "claim"
    /\ Owns(Nobody, Awaited(l))
    /\ LET account == link[req[l].who]
       IN  IF ~MayResolve(l)
           THEN Leave(l, "refused")
           ELSE /\ claim' = Grant(l, IdentityKeys(l))
                /\ Goto(l, IF account = Nobody THEN "register" ELSE "account")
                /\ req' = [req EXCEPT ![l].account = account]
    /\ UNCHANGED <<stateVars, faults, store, realm>>

(* Mutant: the commit is forgotten.                                        *)
RegisterUncommitted(l) ==
    /\ stage[l] = "register"
    /\ IF settings.register /\ req[l].mail \notin accounts
       THEN Goto(l, "link") /\ UNCHANGED <<req, claim>>
       ELSE Leave(l, "refused")
    /\ UNCHANGED <<stateVars, faults, store, realm>>
(* register: the account is committed before it is linked.  create_account *)
(* raises on an address in use.                                            *)
Register(l) ==
    /\ stage[l] = "register"
    /\ IF settings.register /\ req[l].mail \notin accounts
       THEN /\ accounts' = accounts \cup {req[l].mail}
            /\ Goto(l, "link")
            /\ UNCHANGED <<req, claim>>
       ELSE /\ Leave(l, "refused")
            /\ UNCHANGED accounts
    /\ UNCHANGED <<stateVars, faults, link, member, session, realm>>

(* Upstream links the subject to the account just registered.  A subject   *)
(* has one link: when another login has made it, this one raises.          *)
Link(l) ==
    /\ stage[l] = "link" /\ link[req[l].who] = Nobody
    /\ link' = [link EXCEPT ![req[l].who] = req[l].mail]
    /\ req' = [req EXCEPT ![l].account = req[l].mail]
    /\ Goto(l, "account")
    /\ UNCHANGED <<stateVars, claim, faults, accounts, member, session, realm>>

LinkRaises(l) ==
    /\ stage[l] = "link" /\ link[req[l].who] # Nobody
    /\ Stop(l)
    /\ claim' = Released(l)
    /\ UNCHANGED <<stateVars, faults, store, realm>>

(* Upstream's claim on the account; then _provision_owner_workspace_if_-   *)
(* required up to the workspaces that _synchronize_workspace reads.  There *)
(* must be exactly one; how many there are is not up to the logins, and    *)
(* may change before the commit, which does not look again.                *)
ClaimAccount(l) ==
    /\ stage[l] = "account"
    /\ Owns(Nobody, Awaited(l))
    /\ \/ /\ claim' = Grant(l, {AccountKey(req[l].account)})
          /\ Goto(l, "commit")
          /\ UNCHANGED req
       \/ Leave(l, "refused")
    /\ UNCHANGED <<stateVars, faults, store, realm>>

(* Mutant: the claim is not looked at after the commit.                    *)
CommitMemberUnchecked(l) ==
    /\ stage[l] = "commit"
    /\ member' = [member EXCEPT ![req[l].account] = Role(l)]
    /\ Goto(l, "tokens")
    /\ UNCHANGED <<req, claim>>
    /\ UNCHANGED <<stateVars, faults, accounts, link, session, realm>>
(* The commit of the membership, and ensure_owned after it.                *)
CommitMember(l) ==
    /\ stage[l] = "commit"
    /\ member' = [member EXCEPT ![req[l].account] = Role(l)]
    /\ IF Owns(l, {AccountKey(req[l].account)})
       THEN /\ Goto(l, "tokens")
            /\ UNCHANGED <<req, claim>>
       ELSE Leave(l, "refused")
    /\ UNCHANGED <<stateVars, faults, accounts, link, session, realm>>

(* Upstream issues the tokens of the session.                              *)
IssueTokens(l) ==
    /\ stage[l] = "tokens"
    /\ session' = session \cup {req[l].account}
    /\ Leave(l, "in")
    /\ UNCHANGED <<stateVars, faults, accounts, link, member, realm>>
-----------------------------------------------------------------------------
(* A login without the role: _revoke_workspace_access.                     *)

(* The claim on the identity; a subject without account needs no more.     *)
ShutClaim(l) ==
    /\ stage[l] = "shut_claim"
    /\ Owns(Nobody, Awaited(l))
    /\ LET account == link[req[l].who]
       IN  IF account = Nobody
           THEN Leave(l, "out")
           ELSE /\ claim' = Grant(l, IdentityKeys(l))
                /\ req' = [req EXCEPT ![l].account = account]
                /\ Goto(l, "shut_account")
    /\ UNCHANGED <<stateVars, faults, store, realm>>

(* The claim on the account, the wait for which may outlive the other:     *)
(* both are looked at.                                                     *)
ShutAccount(l) ==
    /\ stage[l] = "shut_account"
    /\ Owns(Nobody, Awaited(l))
    /\ IF Owns(l, IdentityKeys(l))
       THEN /\ claim' = Grant(l, {AccountKey(req[l].account)})
            /\ Goto(l, "delete")
            /\ UNCHANGED req
       ELSE Leave(l, "refused")
    /\ UNCHANGED <<stateVars, faults, store, realm>>

(* Mutant: the claims end before the tokens are revoked.                   *)
DeleteMemberReleased(l) ==
    /\ stage[l] = "delete"
    /\ member' = [member EXCEPT ![req[l].account] = "none"]
    /\ claim' = Released(l)
    /\ Goto(l, "revoke")
    /\ UNCHANGED <<stateVars, req, faults, accounts, link, session, realm>>
DeleteMember(l) ==
    /\ stage[l] = "delete"
    /\ member' = [member EXCEPT ![req[l].account] = "none"]
    /\ Goto(l, "revoke")
    /\ UNCHANGED <<stateVars, req, claim, faults, accounts, link, session, realm>>

(* Mutant: the memberships only.                                           *)
RevokeNoTokens(l) ==
    /\ stage[l] = "revoke"
    /\ Leave(l, IF Owns(l, IdentityKeys(l) \cup {AccountKey(req[l].account)})
                THEN "out" ELSE "refused")
    /\ UNCHANGED <<stateVars, faults, store, realm>>
(* revoke_token_pair, and the last look at the claims.                     *)
RevokeTokens(l) ==
    /\ stage[l] = "revoke"
    /\ session' = session \ {req[l].account}
    /\ Leave(l, IF Owns(l, IdentityKeys(l) \cup {AccountKey(req[l].account)})
                THEN "out" ELSE "refused")
    /\ UNCHANGED <<stateVars, faults, accounts, link, member, realm>>
-----------------------------------------------------------------------------
(* Failures and the environment.                                           *)

(* Any call may raise: Keycloak, the database, a wait for a claim; the     *)
(* token may be invalid, the address unverified, an invitation presented.  *)
Fail(l) ==
    /\ Stop(l)
    /\ claim' = Released(l)
    /\ UNCHANGED <<stateVars, faults, store, realm>>

(* The pod is killed: it does not answer, and its claims stay until their  *)
(* leases run out.                                                         *)
Crash(l) ==
    /\ crashes < MaxCrashes /\ crashes' = crashes + 1
    /\ Stop(l)
    /\ NoAnswer(l)
    /\ UNCHANGED <<claim, lost, losses, store, realm>>

LeasesRunOut(l) ==
    /\ stage[l] \in Outcomes
    /\ Held(l) # {}
    /\ claim' = Released(l)
    /\ UNCHANGED <<stateVars, stage, req, faults, store, realm>>

(* A live login loses the keys K of one of its claims.  lost remembers the *)
(* losses that a later look at the claims must find: a login looks at its  *)
(* account's claim until its membership is committed, a revocation at both *)
(* of its claims.                                                          *)
LoseClaim(l, K) ==
    /\ losses < MaxLosses /\ losses' = losses + 1
    /\ stage[l] \in Running
    /\ K # {} /\ K \subseteq Held(l)
    /\ K \subseteq IdentityKeys(l) \/ K = {AccountKey(req[l].account)}
    /\ claim' = [k \in Keys |-> IF k \in K THEN Nobody ELSE claim[k]]
    /\ lost' = IF \/ stage[l] \in {"shut_account", "delete", "revoke"}
                  \/ stage[l] = "commit" /\ K = {AccountKey(req[l].account)}
               THEN lost \cup {l} ELSE lost
    /\ UNCHANGED <<stateVars, stage, req, crashes, store, realm>>

Edit(s, entry) ==
    /\ edits < MaxEdits /\ edits' = edits + 1
    /\ directory' = [directory EXCEPT ![s] = entry]
    /\ UNCHANGED <<stateVars, stage, req, claim, faults, store, settings>>

-----------------------------------------------------------------------------
LoginStep(l) ==
    \/ GetIdentity(l) \/ Resolve(l) \/ Register(l) \/ Link(l) \/ LinkRaises(l)
    \/ ClaimAccount(l) \/ CommitMember(l) \/ IssueTokens(l)
    \/ ShutClaim(l) \/ ShutAccount(l) \/ DeleteMember(l) \/ RevokeTokens(l)

Environment ==
    \/ \E b \in Browsers : StartLogin(b)
    \/ \E n \in Starts : StartAnswered(n)
    \/ \E s \in Subjects, entry \in Entries : Edit(s, entry)
    \/ \E l \in Logins : \/ \E b \in Browsers, n \in Starts, s \in Subjects :
                              Callback(l, b, n, s)
                         \/ CallbackAnswered(l)
                         \/ Fail(l) \/ Crash(l) \/ LeasesRunOut(l)
                         \/ \E K \in SUBSET Held(l) : LoseClaim(l, K)

Next == Environment \/ \E l \in Logins : LoginStep(l)

Spec == Init /\ [][Next]_vars
-----------------------------------------------------------------------------
(* A callback is honoured only in the browser that began the login, for    *)
(* the start whose answer was the last to arrive there, and not after the  *)
(* answer to another callback for that start has arrived, in whatever      *)
(* order tabs, repeated callbacks and other browsers ask and are answered. *)
(* Two callbacks for one start may both be honoured, but only if the       *)
(* second is sent before the first is answered (or the first never is).    *)
HonoursStandingStart ==
    [][\A l \in Logins :
         (stage[l] = "idle" /\ stage'[l] = "code") =>
             LET n == req'[l].start
             IN  /\ \E i \in DOMAIN arrived :
                       /\ arrived[i] = n /\ begun[n] = req'[l].browser
                       /\ \A j \in i + 1..Len(arrived) : begun[arrived[j]] # begun[n]
                 /\ \A other \in heard : req[other].start # n]_vars

(* While no more than one claim is lost: who has a session is a member,    *)
(* unless a revocation is, or was cut off, between its two stores.         *)
SessionMeansMember ==
    losses <= 1 =>
        \A a \in session :
            \/ member[a] # "none"
            \/ \E l \in Logins : stage[l] \in {"revoke", "torn"} /\ req[l].account = a

(* A login that lost its claim while it still had to look at it does not   *)
(* open a session, and such a revocation is not taken for complete.        *)
SettledUnderClaims == \A l \in lost : stage[l] \notin {"tokens", "in", "out"}

(* Accounts and subjects correspond, however addresses move in Keycloak    *)
(* and whatever claims are lost: an account has one subject, except those  *)
(* whose registration is, or was, cut off before the link; the owner's has *)
(* none, and the owner stays the owner.                                    *)
AccountsHaveOneSubject ==
    /\ \A s, t \in Subjects : link[s] = link[t] /\ link[s] # Nobody => s = t
    /\ \A s \in Subjects : link[s] # Nobody => link[s] \in accounts
    /\ \A a \in accounts \ {OwnerMail} :
         \/ \E s \in Subjects : link[s] = a
         \/ \E l \in Logins : stage[l] \in {"link", "orphaned"} /\ req[l].mail = a
    /\ \A s \in Subjects : link[s] # OwnerMail
    /\ member[OwnerMail] = "owner"

(* Access is given and taken as a token says, to the account of its own    *)
(* subject: whichever login it is that changes a membership or a session,  *)
(* they are those of the account its subject is linked to, however         *)
(* addresses have moved since; with the role in its token it gives the     *)
(* membership that the token's roles are for and takes nothing, without    *)
(* it gives nothing.                                                       *)
AccessFollowsToken ==
    [][/\ stage' = stage => UNCHANGED <<member, session>>
       /\ \A l \in Logins, a \in Mails :
            (stage'[l] # stage[l] /\ (member'[a] # member[a] \/ (a \in session) # (a \in session'))) =>
               /\ req[l].who \in Subjects /\ link[req[l].who] = a
               /\ IF "dify-user" \in req[l].roles
                  THEN member'[a] \in {member[a], Role(l)} /\ (a \in session => a \in session')
                  ELSE member'[a] \in {member[a], "none"} /\ (a \in session' => a \in session)]_vars

(* As long as a login runs, one of them can go on or a dead one's lease    *)
(* runs out: both kinds of login take identity and account claim in one    *)
(* order (203), and no claim twice.                                        *)
SomeLoginMoves ==
    (\E l \in Logins : stage[l] \in Running) =>
        \E l \in Logins : ENABLED (LoginStep(l) \/ LeasesRunOut(l))

(* The two tables that decide on access, memberships and sessions, are     *)
(* changed as AccessPromise says.                                          *)
AccountsAt(S) == {req[l].account : l \in {k \in Logins : stage[k] \in S}}

Access == INSTANCE AccessPromise
    WITH Accounts <- Mails,
         Owner    <- OwnerMail,
         members  <- {a \in Mails : member[a] # "none"},
         sessions <- session,
         closing  <- AccountsAt({"revoke"}),
         torn     <- AccountsAt({"torn"}),
         secure   <- losses <= 1

KeepsAccess == Access!AccessSpec
=============================================================================
