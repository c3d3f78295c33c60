-------------------------- MODULE KeycloakSsoProofs --------------------------
(***************************************************************************)
(* Keycloak logins, for any browsers, users, accounts and logins, and any  *)
(* number of edits of the directory, lost claims and kills.                *)
(***************************************************************************)
EXTENDS KeycloakSso, TLAPS

(* From these stages on a login knows its identity, and its account.       *)
AtIdentity == Running \ {"code"}
AtAccount == {"account", "commit", "tokens", "shut_account", "delete", "revoke"}

(* What a login at each stage has read still holds.                        *)
Knows(l) ==
    /\ stage[l] \in Running => req[l].who \in Subjects
    /\ stage[l] \in AtIdentity => req[l].mail \in Mails
    /\ stage[l] \in AtAccount => /\ req[l].account \in accounts
                                 /\ req[l].account = link[req[l].who]
    /\ stage[l] = "link" => req[l].mail \in accounts \ {OwnerMail}

StageKnows ==
    /\ OwnerMail \in accounts
    /\ \A s \in Subjects : link[s] # Nobody => link[s] \in accounts
    /\ \A l \in Logins : Knows(l)

(* The account a login is about to link is its own.                        *)
LinkFresh ==
    \A l \in Logins : stage[l] = "link" =>
        /\ \A s \in Subjects : link[s] # req[l].mail
        /\ \A k \in Logins : stage[k] = "link" /\ req[k].mail = req[l].mail => k = l

TypeIInv == SsoTypeOK /\ StageKnows

USE DEF Goto, NoNonce, Starts
-----------------------------------------------------------------------------
(* Granting and releasing keep the claims well typed.                      *)
LEMMA GrantTypes ==
    ASSUME SsoTypeOK, NEW l \in Logins, NEW K
    PROVE  Grant(l, K) \in [Keys -> Logins \cup {Nobody}]
BY DEF Grant, SsoTypeOK

(* And so does releasing.                                                  *)
LEMMA ReleasedTypes ==
    ASSUME SsoTypeOK, NEW l \in Logins
    PROVE  Released(l) \in [Keys -> Logins \cup {Nobody}]
BY DEF Released, SsoTypeOK

(* Initially nothing is under way, and each account known has one subject. *)
LEMMA TypeInit == Init => TypeIInv
<1> SUFFICES ASSUME Init PROVE TypeIInv
  OBVIOUS
<1> USE SsoAssumption, BrowserAssumption
<1>1. BrowserTypeOK
  BY DEF Init, BrowserInit, BrowserTypeOK
<1>2. stage \in [Logins -> Stages] /\ req \in [Logins -> Request]
      /\ claim \in [Keys -> Logins \cup {Nobody}] /\ lost \subseteq Logins
  BY DEF Init, Stages, Request, Blank
<1>3. accounts \subseteq Mails /\ session \subseteq accounts
      /\ link \in [Subjects -> Mails \cup {Nobody}] /\ OwnerMail \in accounts
      /\ directory \in [Subjects -> Entries]
  BY DEF Init, Entry
<1>4. member \in [Mails -> {"none", "editor", "admin", "owner"}]
  BY DEF Init
<1>5. settings \in Settings
      /\ edits \in 0..MaxEdits /\ losses \in 0..MaxLosses /\ crashes \in 0..MaxCrashes
  BY DEF Init
<1>6. \A l \in Logins : stage[l] = "idle"
  BY DEF Init
<1>7. \A s \in Subjects : link[s] # Nobody => link[s] \in accounts
  BY DEF Init
<1> QED BY <1>1, <1>2, <1>3, <1>4, <1>5, <1>6, <1>7
        DEF TypeIInv, SsoTypeOK, StageKnows, Knows, Running, AtIdentity, AtAccount
-----------------------------------------------------------------------------
(* What happens in the browsers, well typed.                               *)
LEMMA BrowserTypes ==
    ASSUME BrowserTypeOK,
           \/ \E b \in Browsers : Begin(b)
           \/ \E n \in Starts : AnswerStart(n)
           \/ \E l \in Logins : AnswerCallback(l) \/ NoAnswer(l)
           \/ \E l \in Logins, b \in Browsers, n \in Starts : Decode(l, b, n)
    PROVE  BrowserTypeOK'
<1> USE BrowserAssumption
<1>1. ASSUME NEW b \in Browsers, Begin(b) PROVE BrowserTypeOK'
  <2>1. /\ begun' = Append(begun, b) /\ Len(begun) < MaxStarts
        /\ begun \in Seq(Browsers) /\ Len(begun) \in Nat
        /\ UNCHANGED <<arrived, nonce, due, heard>>
    BY <1>1 DEF Begin, BrowserTypeOK
  <2>2. begun' \in Seq(Browsers) /\ Len(begun') = Len(begun) + 1
    BY <2>1
  <2> QED BY <2>1, <2>2 DEF BrowserTypeOK
<1>2. ASSUME NEW n \in Starts, AnswerStart(n) PROVE BrowserTypeOK'
  BY <1>2 DEF AnswerStart, BrowserTypeOK
<1>3. ASSUME NEW l \in Logins, AnswerCallback(l) \/ NoAnswer(l) PROVE BrowserTypeOK'
  BY <1>3 DEF AnswerCallback, NoAnswer, BrowserTypeOK
<1>4. ASSUME NEW l \in Logins, NEW b \in Browsers, NEW n \in Starts, Decode(l, b, n)
      PROVE  BrowserTypeOK'
  BY <1>4 DEF Decode, BrowserTypeOK
<1> QED BY <1>1, <1>2, <1>3, <1>4

(* One login goes to a point, with what it knows there.                    *)
Move(l, point, q) ==
    /\ point \in Stages /\ stage' = [stage EXCEPT ![l] = point]
    /\ q \in Request /\ req' = [req EXCEPT ![l] = q]
    /\ claim' \in [Keys -> Logins \cup {Nobody}]

(* The typing of everything else.                                          *)
RestTypeOK ==
    /\ BrowserTypeOK
    /\ lost \subseteq Logins
    /\ accounts \subseteq Mails /\ session \subseteq accounts
    /\ link \in [Subjects -> Mails \cup {Nobody}]
    /\ member \in [Mails -> {"none", "editor", "admin", "owner"}]
    /\ directory \in [Subjects -> Entries]
    /\ settings \in Settings
    /\ edits \in 0..MaxEdits /\ losses \in 0..MaxLosses /\ crashes \in 0..MaxCrashes

(* A move keeps the types, if the rest of the state keeps its own.         *)
LEMMA MoveTypes ==
    ASSUME SsoTypeOK, NEW l \in Logins, NEW point, NEW q, Move(l, point, q)
    PROVE  /\ RestTypeOK' => SsoTypeOK'
           /\ stage'[l] = point /\ req'[l] = q
           /\ \A k \in Logins \ {l} : stage'[k] = stage[k] /\ req'[k] = req[k]
<1>1. stage' \in [Logins -> Stages] /\ stage'[l] = point
      /\ \A k \in Logins \ {l} : stage'[k] = stage[k]
  BY DEF SsoTypeOK, Move
<1>2. req' \in [Logins -> Request] /\ req'[l] = q
      /\ \A k \in Logins \ {l} : req'[k] = req[k]
  BY DEF SsoTypeOK, Move
<1> QED BY <1>1, <1>2 DEF SsoTypeOK, RestTypeOK, Move

(* The ends of a request.                                                  *)
LEMMA LeaveTypes ==
    ASSUME SsoTypeOK, NEW l \in Logins, NEW o \in Outcomes, Leave(l, o)
    PROVE  \E q \in Request :
              Move(l, o, q) /\ q.start = req[l].start
<1>1. [Blank EXCEPT !.start = req[l].start] \in Request
  BY DEF Blank, Request, SsoTypeOK
<1>2. [Blank EXCEPT !.start = req[l].start].start = req[l].start
  BY DEF Blank
<1> QED BY <1>1, <1>2, ReleasedTypes DEF Leave, Stages, Move

(* A request cut short keeps what its outcome is about.                    *)
LEMMA StopTypes ==
    ASSUME SsoTypeOK, NEW l \in Logins, Stop(l),
           claim' \in [Keys -> Logins \cup {Nobody}]
    PROVE  \E q \in Request :
              /\ Move(l, Debris(l), q) /\ Debris(l) \in Outcomes
              /\ q.start = req[l].start
              /\ stage[l] = "link" => q.mail = req[l].mail
              /\ stage[l] = "revoke" => q.account = req[l].account
<1> DEFINE q == [Blank EXCEPT !.start = req[l].start,
                     !.mail = IF stage[l] = "link" THEN req[l].mail ELSE Nobody,
                     !.account = IF stage[l] = "revoke" THEN req[l].account ELSE Nobody]
<1>1. q \in Request
  BY DEF Blank, Request, SsoTypeOK
<1>2. /\ q.start = req[l].start
      /\ stage[l] = "link" => q.mail = req[l].mail
      /\ stage[l] = "revoke" => q.account = req[l].account
  BY DEF Blank
<1>3. stage' = [stage EXCEPT ![l] = Debris(l)] /\ req' = [req EXCEPT ![l] = q]
  BY DEF Stop
<1>4. Debris(l) \in Outcomes /\ Debris(l) \in Stages
  BY DEF Debris, Outcomes, Stages
<1> HIDE DEF q
<1> QED BY <1>1, <1>2, <1>3, <1>4 DEF Move

(* What the other logins know stays true: accounts are not removed, and a  *)
(* link, once made, is not changed.                                        *)
LEMMA KnowsFrame ==
    ASSUME TypeIInv, NEW l \in Logins,
           accounts \subseteq accounts',
           \A s \in Subjects : link[s] # Nobody => link'[s] = link[s],
           \A s \in Subjects : link'[s] # Nobody => link'[s] \in accounts',
           \A k \in Logins \ {l} : stage'[k] = stage[k] /\ req'[k] = req[k],
           Knows(l)'
    PROVE  StageKnows'
<1> USE SsoAssumption DEF TypeIInv, SsoTypeOK
<1>1. OwnerMail \in accounts'
  BY DEF StageKnows
<1>2. ASSUME NEW k \in Logins \ {l} PROVE Knows(k)'
  <2>1. Knows(k)
    BY DEF StageKnows
  <2>2. stage[k] \in AtAccount => link[req[k].who] # Nobody
    BY <2>1 DEF Knows
  <2>3. stage[k] \in AtAccount => stage[k] \in Running
    BY DEF AtAccount, Running
  <2> QED BY <2>1, <2>2, <2>3, <1>2 DEF Knows
<1> QED BY <1>1, <1>2 DEF StageKnows

(* A login whose request has ended knows nothing.                          *)
LEMMA EndKnows ==
    ASSUME NEW l \in Logins, stage'[l] \in Outcomes PROVE Knows(l)'
BY DEF Knows, Outcomes, Running, AtIdentity, AtAccount

(* A move to a stage keeps the invariant if the login knows there what it  *)
(* is expected to, and the tables only grow.                               *)
LEMMA MoveKnows ==
    ASSUME TypeIInv, NEW l \in Logins, NEW point, NEW q, Move(l, point, q), RestTypeOK',
           accounts \subseteq accounts',
           \A s \in Subjects : link[s] # Nobody => link'[s] = link[s],
           \A s \in Subjects : link'[s] # Nobody => link'[s] \in accounts',
           point \in Running => q.who \in Subjects,
           point \in AtIdentity => q.mail \in Mails,
           point \in AtAccount => q.account \in accounts' /\ q.account = link'[q.who],
           point = "link" => q.mail \in accounts' \ {OwnerMail}
    PROVE  TypeIInv'
<1>1. SsoTypeOK' /\ stage'[l] = point /\ req'[l] = q
      /\ \A k \in Logins \ {l} : stage'[k] = stage[k] /\ req'[k] = req[k]
  BY MoveTypes DEF TypeIInv
<1>2. Knows(l)'
  BY <1>1 DEF Knows
<1> QED BY <1>1, <1>2, KnowsFrame DEF TypeIInv

(* Every step of a login keeps types and knowledge.                        *)
LEMMA LoginStepTypes ==
    ASSUME TypeIInv, NEW l \in Logins, LoginStep(l) PROVE TypeIInv'
<1> USE SsoAssumption
<1>k. Knows(l) /\ \A s \in Subjects : link[s] # Nobody => link[s] \in accounts
  BY DEF TypeIInv, StageKnows
<1>t. SsoTypeOK /\ RestTypeOK /\ req[l] \in Request
  BY DEF TypeIInv, SsoTypeOK, RestTypeOK
<1>o. "in" \in Outcomes /\ "out" \in Outcomes /\ "refused" \in Outcomes
  BY DEF Outcomes
<1>n. \A o \in Outcomes : o \notin Running /\ o \notin AtIdentity /\ o \notin AtAccount
                          /\ o # "link"
  BY DEF Outcomes, Running, AtIdentity, AtAccount
<1>u. ASSUME UNCHANGED <<stateVars, faults, accounts, link, realm>>,
             member' \in [Mails -> {"none", "editor", "admin", "owner"}],
             session' \subseteq accounts
      PROVE  RestTypeOK'
  BY <1>u, <1>t DEF RestTypeOK, BrowserTypeOK, stateVars, faults, realm
<1>s. ASSUME UNCHANGED <<stateVars, faults, store, realm>>
      PROVE  RestTypeOK' /\ UNCHANGED <<accounts, link>>
  BY <1>s, <1>t DEF RestTypeOK, BrowserTypeOK, stateVars, faults, realm, store
<1>l. ASSUME NEW o \in Outcomes, Leave(l, o), RestTypeOK', UNCHANGED <<accounts, link>>
      PROVE  TypeIInv'
  <2>1. PICK q \in Request : Move(l, o, q)
    BY <1>l, <1>t, LeaveTypes
  <2> QED BY <1>l, <1>k, <1>n, <2>1, MoveKnows
<1>g. ASSUME NEW point \in Stages, stage' = [stage EXCEPT ![l] = point], UNCHANGED req,
             UNCHANGED claim \/ \E K : claim' = Grant(l, K)
      PROVE  Move(l, point, req[l])
  BY <1>g, <1>t, GrantTypes DEF Move, SsoTypeOK
<1>a. "link" \in Stages /\ AtAccount \subseteq Stages /\ "link" \notin AtAccount
      /\ AtAccount \subseteq Running /\ AtAccount \subseteq AtIdentity
  BY DEF AtAccount, AtIdentity, Stages, Running
<1>1. CASE GetIdentity(l)
  <2> DEFINE entry == directory[req[l].who]
             point == IF "dify-user" \in entry.roles THEN "claim" ELSE "shut_claim"
             q == [req[l] EXCEPT !.mail = entry.mail, !.roles = entry.roles]
  <2>1. CASE settings.guarded /\ entry.mail = OwnerMail
    BY <1>l, <1>1, <2>1, <1>o, <1>s DEF GetIdentity
  <2>2. CASE ~(settings.guarded /\ entry.mail = OwnerMail)
    <3>0. entry \in Entry /\ req[l].who \in Subjects
      BY <1>1, <1>k, <1>t DEF GetIdentity, Knows, Running, RestTypeOK
    <3>1. stage' = [stage EXCEPT ![l] = point] /\ req' = [req EXCEPT ![l] = q]
          /\ UNCHANGED <<claim, stateVars, faults, store, realm>>
      BY <1>1, <2>2 DEF GetIdentity
    <3>2. q \in Request /\ q.who = req[l].who /\ q.mail \in Mails
      BY <1>t, <3>0 DEF Request, Entry
    <3>3. point \in Stages /\ point \notin AtAccount /\ point # "link"
      BY DEF Stages, Running, AtAccount
    <3>4. claim' \in [Keys -> Logins \cup {Nobody}]
      BY <3>1, <1>t DEF SsoTypeOK
    <3>5. RestTypeOK' /\ UNCHANGED <<accounts, link>>
      BY <3>1, <1>s
    <3> HIDE DEF q, point
    <3>6. Move(l, point, q)
      BY <3>1, <3>2, <3>3, <3>4 DEF Move
    <3> QED BY <1>k, <3>0, <3>2, <3>3, <3>5, <3>6, MoveKnows
  <2> QED BY <2>1, <2>2
<1>2. CASE Resolve(l)
  <2> DEFINE account == link[req[l].who]
             point == IF account = Nobody THEN "register" ELSE "account"
             q == [req[l] EXCEPT !.account = account]
  <2>1. CASE ~MayResolve(l)
    BY <1>l, <1>2, <2>1, <1>o, <1>s DEF Resolve
  <2>2. CASE MayResolve(l)
    <3>0. req[l].who \in Subjects /\ req[l].mail \in Mails /\ account \in Mails \cup {Nobody}
      BY <1>2, <1>k, <1>t DEF Resolve, Knows, Running, AtIdentity, RestTypeOK
    <3>1. stage' = [stage EXCEPT ![l] = point] /\ req' = [req EXCEPT ![l] = q]
          /\ claim' \in [Keys -> Logins \cup {Nobody}]
          /\ UNCHANGED <<stateVars, faults, store, realm>>
      BY <1>2, <2>2, <1>t, GrantTypes DEF Resolve
    <3>2. q \in Request /\ q.who = req[l].who /\ q.mail = req[l].mail /\ q.account = account
      BY <1>t, <3>0 DEF Request
    <3>3. point \in Stages /\ point # "link" /\ (point \in AtAccount => account # Nobody)
      BY DEF Stages, Running, AtAccount
    <3>4. RestTypeOK' /\ UNCHANGED <<accounts, link>>
      BY <3>1, <1>s
    <3>5. point \in AtAccount => q.account \in accounts' /\ q.account = link'[q.who]
      BY <1>k, <3>0, <3>2, <3>3, <3>4
    <3> HIDE DEF q, point
    <3>6. Move(l, point, q)
      BY <3>1, <3>2, <3>3 DEF Move
    <3> QED BY <1>k, <3>0, <3>2, <3>3, <3>4, <3>5, <3>6, MoveKnows
  <2> QED BY <2>1, <2>2
<1>3. CASE Register(l)
  <2>0. stage[l] = "register" /\ req[l].who \in Subjects /\ req[l].mail \in Mails
    BY <1>3, <1>k DEF Register, Knows, Running, AtIdentity
  <2>1. CASE settings.register /\ req[l].mail \notin accounts
    <3>1. /\ accounts' = accounts \cup {req[l].mail}
          /\ stage' = [stage EXCEPT ![l] = "link"] /\ UNCHANGED <<req, claim>>
          /\ UNCHANGED <<stateVars, faults, link, member, session, realm>>
      BY <1>3, <2>1 DEF Register
    <3>2. RestTypeOK'
      BY <3>1, <2>0, <1>t DEF RestTypeOK, BrowserTypeOK, stateVars, faults, realm
    <3>3. Move(l, "link", req[l])
      BY <3>1, <1>g, <1>a
    <3>4. req[l].mail \in accounts' \ {OwnerMail}
      BY <3>1, <2>1 DEF TypeIInv, StageKnows
    <3> QED BY <1>k, <1>a, <2>0, <3>1, <3>2, <3>3, <3>4, MoveKnows
  <2>2. CASE ~(settings.register /\ req[l].mail \notin accounts)
    <3>1. Leave(l, "refused")
          /\ UNCHANGED <<stateVars, faults, store, realm>>
      BY <1>3, <2>2 DEF Register, store
    <3> QED BY <3>1, <1>l, <1>o, <1>s
  <2> QED BY <2>1, <2>2
<1>4. CASE Link(l)
  <2> DEFINE q == [req[l] EXCEPT !.account = req[l].mail]
  <2>0. /\ stage[l] = "link" /\ req[l].who \in Subjects
        /\ req[l].mail \in accounts /\ req[l].mail \in Mails
        /\ link[req[l].who] = Nobody
    BY <1>4, <1>k, <1>t DEF Link, Knows, Running, RestTypeOK
  <2>1. /\ link' = [link EXCEPT ![req[l].who] = req[l].mail]
        /\ req' = [req EXCEPT ![l] = q]
        /\ stage' = [stage EXCEPT ![l] = "account"]
        /\ UNCHANGED <<stateVars, claim, faults, accounts, member, session, realm>>
    BY <1>4 DEF Link
  <2>2. q \in Request /\ q.who = req[l].who /\ q.mail = req[l].mail /\ q.account = req[l].mail
    BY <1>t, <2>0 DEF Request
  <2> HIDE DEF q
  <2>3. RestTypeOK'
    BY <2>0, <2>1, <1>t DEF RestTypeOK, BrowserTypeOK, stateVars, faults, realm
  <2>4. Move(l, "account", q)
    BY <2>1, <2>2, <1>t, <1>a DEF Move, AtAccount, SsoTypeOK
  <2>5. /\ \A s \in Subjects : link[s] # Nobody => link'[s] = link[s]
        /\ \A s \in Subjects : link'[s] # Nobody => link'[s] \in accounts'
        /\ link'[q.who] = req[l].mail
    BY <1>k, <1>t, <2>0, <2>1, <2>2 DEF RestTypeOK
  <2> QED BY <2>0, <2>1, <2>2, <2>3, <2>4, <2>5, MoveKnows
<1>5. CASE LinkRaises(l)
  <2>1. claim' \in [Keys -> Logins \cup {Nobody}] /\ Stop(l)
        /\ UNCHANGED <<stateVars, faults, store, realm>>
    BY <1>5, <1>t, ReleasedTypes DEF LinkRaises
  <2>2. PICK q \in Request : Move(l, Debris(l), q) /\ Debris(l) \in Outcomes
    BY <2>1, <1>t, StopTypes
  <2> QED BY <2>1, <2>2, <1>k, <1>n, <1>s, MoveKnows
<1>f. ASSUME NEW point \in AtAccount, stage[l] \in AtAccount,
             stage' = [stage EXCEPT ![l] = point], UNCHANGED req,
             UNCHANGED claim \/ \E K : claim' = Grant(l, K),
             RestTypeOK', UNCHANGED <<accounts, link>>
      PROVE  TypeIInv'
  <2>1. Move(l, point, req[l])
    BY <1>f, <1>g, <1>a
  <2>2. /\ req[l].who \in Subjects /\ req[l].mail \in Mails
        /\ req[l].account \in accounts /\ req[l].account = link[req[l].who]
    BY <1>f, <1>k, <1>a DEF Knows
  <2> QED BY <2>1, <2>2, <1>f, <1>a, <1>k, MoveKnows
<1>6. CASE ClaimAccount(l)
  BY <1>6, <1>f, <1>l, <1>o, <1>s DEF ClaimAccount, AtAccount
<1>7. CASE CommitMember(l)
  <2>1. member' \in [Mails -> {"none", "editor", "admin", "owner"}] /\ session' \subseteq accounts
    BY <1>7, <1>t DEF CommitMember, Role, RestTypeOK
  <2> QED BY <2>1, <1>7, <1>f, <1>l, <1>o, <1>u DEF CommitMember, AtAccount
<1>8. CASE IssueTokens(l)
  <2>1. req[l].account \in accounts
    BY <1>8, <1>k DEF IssueTokens, Knows, AtAccount
  <2>2. member' \in [Mails -> {"none", "editor", "admin", "owner"}] /\ session' \subseteq accounts
    BY <1>8, <1>t, <2>1 DEF IssueTokens, RestTypeOK
  <2> QED BY <2>2, <1>8, <1>l, <1>o, <1>u DEF IssueTokens
<1>9. CASE ShutClaim(l)
  <2> DEFINE account == link[req[l].who]
             q == [req[l] EXCEPT !.account = account]
  <2>1. CASE account = Nobody
    BY <1>l, <1>9, <2>1, <1>o, <1>s DEF ShutClaim
  <2>2. CASE account # Nobody
    <3>0. req[l].who \in Subjects /\ req[l].mail \in Mails /\ account \in Mails \cup {Nobody}
      BY <1>9, <1>k, <1>t DEF ShutClaim, Knows, Running, AtIdentity, RestTypeOK
    <3>1. stage' = [stage EXCEPT ![l] = "shut_account"] /\ req' = [req EXCEPT ![l] = q]
          /\ claim' \in [Keys -> Logins \cup {Nobody}]
          /\ UNCHANGED <<stateVars, faults, store, realm>>
      BY <1>9, <2>2, <1>t, GrantTypes DEF ShutClaim
    <3>2. q \in Request /\ q.who = req[l].who /\ q.mail = req[l].mail /\ q.account = account
      BY <1>t, <3>0 DEF Request
    <3>3. "shut_account" \in AtAccount
      BY DEF AtAccount
    <3>4. RestTypeOK' /\ UNCHANGED <<accounts, link>>
      BY <3>1, <1>s
    <3> HIDE DEF q
    <3>6. Move(l, "shut_account", q)
      BY <3>1, <3>2, <3>3, <1>a DEF Move
    <3> QED BY <1>k, <2>2, <3>0, <3>2, <3>3, <3>4, <3>6, MoveKnows
  <2> QED BY <2>1, <2>2
<1>10. CASE ShutAccount(l)
  BY <1>10, <1>f, <1>l, <1>o, <1>s DEF ShutAccount, AtAccount
<1>11. CASE DeleteMember(l)
  <2>1. member' \in [Mails -> {"none", "editor", "admin", "owner"}] /\ session' \subseteq accounts
    BY <1>11, <1>t DEF DeleteMember, RestTypeOK
  <2> QED BY <2>1, <1>11, <1>f, <1>u DEF DeleteMember, AtAccount
<1>12. CASE RevokeTokens(l)
  <2>1. member' \in [Mails -> {"none", "editor", "admin", "owner"}] /\ session' \subseteq accounts
    BY <1>12, <1>t DEF RevokeTokens, RestTypeOK
  <2> QED BY <2>1, <1>12, <1>l, <1>o, <1>u DEF RevokeTokens
<1> QED BY <1>1, <1>2, <1>3, <1>4, <1>5, <1>6, <1>7, <1>8, <1>9, <1>10, <1>11, <1>12
        DEF LoginStep

(* So does everything around it.                                           *)
LEMMA EnvironmentTypes ==
    ASSUME TypeIInv, Environment PROVE TypeIInv'
<1> USE SsoAssumption, BrowserAssumption
<1>k. /\ \A l \in Logins : Knows(l)
      /\ \A s \in Subjects : link[s] # Nobody => link[s] \in accounts
  BY DEF TypeIInv, StageKnows
<1>t. SsoTypeOK /\ RestTypeOK
  BY DEF TypeIInv, SsoTypeOK, RestTypeOK
<1>n. \A o \in Outcomes : o \notin Running /\ o \notin AtIdentity /\ o \notin AtAccount
                          /\ o # "link"
  BY DEF Outcomes, Running, AtIdentity, AtAccount
<1>s. ASSUME UNCHANGED <<stage, req, accounts, link>>,
             claim' \in [Keys -> Logins \cup {Nobody}], RestTypeOK'
      PROVE  TypeIInv'
  <2>1. SsoTypeOK'
    BY <1>s, <1>t DEF SsoTypeOK, RestTypeOK
  <2>2. StageKnows'
    BY <1>s DEF TypeIInv, StageKnows, Knows
  <2> QED BY <2>1, <2>2 DEF TypeIInv
<1>c. UNCHANGED claim => claim' \in [Keys -> Logins \cup {Nobody}]
  BY <1>t DEF SsoTypeOK
<1>e. ASSUME NEW l \in Logins, Stop(l), claim' \in [Keys -> Logins \cup {Nobody}],
             RestTypeOK', UNCHANGED <<accounts, link>>
      PROVE  TypeIInv'
  <2>1. PICK q \in Request : Move(l, Debris(l), q) /\ Debris(l) \in Outcomes
    BY <1>e, <1>t, StopTypes
  <2> QED BY <2>1, <1>e, <1>k, <1>n, MoveKnows
<1>b. BrowserTypeOK' /\ UNCHANGED <<faults, store, realm>> =>
         RestTypeOK' /\ UNCHANGED <<accounts, link>>
  BY <1>t DEF RestTypeOK, faults, store, realm
<1>1. ASSUME \/ \E b \in Browsers : StartLogin(b)
             \/ \E n \in Starts : StartAnswered(n)
             \/ \E l \in Logins : CallbackAnswered(l)
      PROVE  TypeIInv'
  <2>1. BrowserTypeOK' /\ UNCHANGED <<stage, req, claim, faults, store, realm>>
    BY <1>1, <1>t, BrowserTypes DEF StartLogin, StartAnswered, CallbackAnswered, RestTypeOK
  <2> QED BY <2>1, <1>b, <1>s, <1>c
<1>3. ASSUME NEW s \in Subjects, NEW entry \in Entries, Edit(s, entry) PROVE TypeIInv'
  <2>1. RestTypeOK'
    BY <1>3, <1>t DEF Edit, RestTypeOK, BrowserTypeOK, stateVars, faults, store
  <2> QED BY <2>1, <1>3, <1>s, <1>c DEF Edit, store
<1>4. ASSUME NEW l \in Logins, NEW b \in Browsers, NEW n \in Starts, NEW s \in Subjects,
             Callback(l, b, n, s)
      PROVE  TypeIInv'
  <2>1. BrowserTypeOK' /\ UNCHANGED <<claim, faults, store, realm>>
    BY <1>4, <1>t, BrowserTypes DEF Callback, RestTypeOK
  <2>2. RestTypeOK' /\ UNCHANGED <<accounts, link>>
    BY <2>1, <1>b
  <2>3. CASE Matches(b, n)
    <3> DEFINE q == [Blank EXCEPT !.start = n, !.browser = b, !.who = s]
    <3>1. q \in Request /\ q.who = s
      BY DEF Blank, Request
    <3>2. stage' = [stage EXCEPT ![l] = "code"] /\ req' = [req EXCEPT ![l] = q]
      BY <1>4, <2>3 DEF Callback
    <3>3. "code" \in Stages /\ "code" \notin AtIdentity /\ "code" \notin AtAccount
      BY DEF Stages, Running, AtIdentity, AtAccount
    <3> HIDE DEF q
    <3>4. Move(l, "code", q)
      BY <3>1, <3>2, <3>3, <2>1, <1>c DEF Move
    <3> QED BY <3>1, <3>3, <3>4, <2>2, <1>k, MoveKnows
  <2>4. CASE ~Matches(b, n)
    <3>1. stage' = [stage EXCEPT ![l] = "refused"] /\ req' = [req EXCEPT ![l] = req[l]]
          /\ req[l] \in Request
      BY <1>4, <2>4, <1>t DEF Callback, SsoTypeOK
    <3>2. "refused" \in Stages /\ "refused" \in Outcomes
      BY DEF Stages, Outcomes
    <3>3. Move(l, "refused", req[l])
      BY <3>1, <3>2, <2>1, <1>c DEF Move
    <3> QED BY <3>2, <3>3, <2>2, <1>k, <1>n, MoveKnows
  <2> QED BY <2>3, <2>4
<1>5. ASSUME NEW l \in Logins, Fail(l) PROVE TypeIInv'
  <2>1. RestTypeOK' /\ UNCHANGED <<accounts, link>>
    BY <1>5, <1>t DEF Fail, RestTypeOK, BrowserTypeOK, stateVars, faults, store, realm
  <2> QED BY <2>1, <1>5, <1>e, <1>t, ReleasedTypes DEF Fail
<1>6. ASSUME NEW l \in Logins, Crash(l) PROVE TypeIInv'
  <2>1. BrowserTypeOK'
    BY <1>6, <1>t, BrowserTypes DEF Crash, RestTypeOK
  <2>2. RestTypeOK' /\ UNCHANGED <<accounts, link>>
    BY <1>6, <2>1, <1>t DEF Crash, RestTypeOK, store, realm
  <2> QED BY <2>2, <1>6, <1>e, <1>c DEF Crash
<1>7. ASSUME NEW l \in Logins, LeasesRunOut(l) PROVE TypeIInv'
  <2>1. RestTypeOK' /\ UNCHANGED <<stage, req, accounts, link>> /\ claim' = Released(l)
    BY <1>7, <1>t DEF LeasesRunOut, RestTypeOK, BrowserTypeOK, stateVars, faults, store, realm
  <2> QED BY <2>1, <1>s, <1>t, ReleasedTypes
<1>8. ASSUME NEW l \in Logins, NEW K \in SUBSET Held(l), LoseClaim(l, K) PROVE TypeIInv'
  <2>1. RestTypeOK' /\ UNCHANGED <<stage, req, accounts, link>>
    BY <1>8, <1>t DEF LoseClaim, RestTypeOK, BrowserTypeOK, stateVars, store, realm
  <2>2. claim' \in [Keys -> Logins \cup {Nobody}]
    BY <1>8, <1>t DEF LoseClaim, SsoTypeOK
  <2> QED BY <2>1, <2>2, <1>s
<1> QED BY <1>1, <1>3, <1>4, <1>5, <1>6, <1>7, <1>8 DEF Environment

(* A callback that is decoded begins, or ends at once.                     *)
LEMMA CallbackMoves ==
    ASSUME SsoTypeOK, NEW l \in Logins, NEW b \in Browsers, NEW n \in Starts, NEW s \in Subjects,
           Callback(l, b, n, s)
    PROVE  /\ stage[l] = "idle" /\ stage'[l] \in {"code", "refused"}
           /\ \A k \in Logins \ {l} : stage'[k] = stage[k] /\ req'[k] = req[k]
<1>1. CASE Matches(b, n)
  BY <1>1 DEF Callback, SsoTypeOK
<1>2. CASE ~Matches(b, n)
  BY <1>2 DEF Callback, SsoTypeOK
<1> QED BY <1>1, <1>2

(* Starts, and answers, are all that changes in a browser otherwise.       *)
InBrowsers ==
    \/ \E b \in Browsers : StartLogin(b)
    \/ \E n \in Starts : StartAnswered(n)
    \/ \E l \in Logins : CallbackAnswered(l)

(* They leave the logins alone.                                            *)
LEMMA BrowsersAlone ==
    ASSUME InBrowsers PROVE UNCHANGED <<stage, req, claim, faults, store, realm>>
BY DEF InBrowsers, StartLogin, StartAnswered, CallbackAnswered

(* The two together.                                                       *)
LEMMA TypeStep == TypeIInv /\ [Next]_vars => TypeIInv'
<1>1. TypeIInv /\ Next => TypeIInv'
  BY LoginStepTypes, EnvironmentTypes DEF Next
<1>2. TypeIInv /\ UNCHANGED vars => TypeIInv'
  BY DEF vars, stateVars, faults, store, realm, TypeIInv, SsoTypeOK, BrowserTypeOK,
         StageKnows, Knows
<1> QED BY <1>1, <1>2

(* Types, for every behaviour: among them, that a session is an account's  *)
(* and that a login only ever works on accounts that exist.                *)
THEOREM SsoTypes == Spec => [](SsoTypeOK /\ StageKnows)
<1>1. TypeIInv => SsoTypeOK /\ StageKnows
  BY DEF TypeIInv
<1> QED BY <1>1, TypeInit, TypeStep, PTL DEF Spec
-----------------------------------------------------------------------------
(* Accounts and subjects.  Nothing is assumed of the claims: an address in *)
(* use cannot be registered, and a link is not changed.                    *)
AccountsIInv == TypeIInv /\ AccountsHaveOneSubject /\ LinkFresh

(* A step that registers and links nothing: who is, or was cut off, before *)
(* the link of a new account goes on to be, and nobody else is.            *)
Quiet ==
    /\ UNCHANGED <<accounts, link>> /\ member'[OwnerMail] = member[OwnerMail]
    /\ \A k \in Logins :
         /\ stage'[k] = "link" => stage[k] = "link" /\ req'[k].mail = req[k].mail
         /\ stage[k] \in {"link", "orphaned"} =>
                stage'[k] \in {"link", "orphaned"} /\ req'[k].mail = req[k].mail

(* Quiet steps keep accounts and subjects in correspondence.               *)
LEMMA QuietAccounts ==
    ASSUME AccountsHaveOneSubject, LinkFresh, Quiet
    PROVE  AccountsHaveOneSubject' /\ LinkFresh'
BY DEF AccountsHaveOneSubject, LinkFresh, Quiet

(* A request that ends elsewhere than at the link is quiet.                *)
LEMMA LeaveQuiet ==
    ASSUME TypeIInv, NEW l \in Logins, NEW o \in Outcomes, o # "orphaned", Leave(l, o),
           stage[l] \in Running \ {"link"},
           UNCHANGED <<accounts, link>>, member'[OwnerMail] = member[OwnerMail]
    PROVE  Quiet
<1>1. PICK q \in Request : Move(l, o, q)
  BY LeaveTypes DEF TypeIInv
<1>2. stage'[l] = o /\ o # "link" /\ stage[l] \notin {"link", "orphaned"}
      /\ \A k \in Logins \ {l} : stage'[k] = stage[k] /\ req'[k] = req[k]
  BY <1>1, MoveTypes DEF TypeIInv, Outcomes, Running
<1> QED BY <1>2 DEF Quiet

(* And so is one that fails there: it leaves its account unlinked.         *)
LEMMA StopQuiet ==
    ASSUME TypeIInv, NEW l \in Logins, Stop(l), claim' \in [Keys -> Logins \cup {Nobody}],
           UNCHANGED store
    PROVE  Quiet
<1>1. PICK q \in Request : /\ Move(l, Debris(l), q) /\ Debris(l) \in Outcomes
                           /\ stage[l] = "link" => q.mail = req[l].mail
  BY StopTypes DEF TypeIInv
<1>2. stage'[l] = Debris(l) /\ req'[l] = q
      /\ \A k \in Logins \ {l} : stage'[k] = stage[k] /\ req'[k] = req[k]
  BY <1>1, MoveTypes DEF TypeIInv
<1>3. stage[l] \in Running
  BY DEF Stop
<1> QED BY <1>1, <1>2, <1>3 DEF Quiet, Debris, Outcomes, Running, store

(* A registration adds an account that is still to be linked, the link     *)
(* gives it its subject, and the other steps of a login are quiet.         *)
LEMMA LoginStepAccounts ==
    ASSUME AccountsIInv, NEW l \in Logins, LoginStep(l)
    PROVE  AccountsHaveOneSubject' /\ LinkFresh'
<1> USE SsoAssumption
<1>t. TypeIInv /\ SsoTypeOK /\ Knows(l) /\ AccountsHaveOneSubject /\ LinkFresh
      /\ OwnerMail \in accounts
  BY DEF AccountsIInv, TypeIInv, StageKnows
<1>o. {"in", "out", "refused"} \subseteq Outcomes \ {"orphaned"}
  BY DEF Outcomes
<1>s. UNCHANGED store => UNCHANGED <<accounts, link>> /\ member'[OwnerMail] = member[OwnerMail]
  BY DEF store
<1>a. stage[l] \in AtAccount => req[l].account # OwnerMail
  BY <1>t DEF AccountsHaveOneSubject, Knows, AtAccount, Running
<1>m. ASSUME NEW point \in Stages \ {"link"}, stage[l] \in Running \ {"link"},
             stage' = [stage EXCEPT ![l] = point],
             \A k \in Logins \ {l} : req'[k] = req[k],
             UNCHANGED <<accounts, link>>, member'[OwnerMail] = member[OwnerMail]
      PROVE  Quiet
  <2>1. stage'[l] = point /\ \A k \in Logins \ {l} : stage'[k] = stage[k]
    BY <1>m, <1>t DEF SsoTypeOK
  <2>2. stage[l] \notin {"link", "orphaned"}
    BY <1>m DEF Running
  <2> QED BY <1>m, <2>1, <2>2 DEF Quiet
<1>1. CASE GetIdentity(l) \/ Resolve(l) \/ ShutClaim(l)
  <2>1. stage[l] \in Running \ {"link"} /\ UNCHANGED store
    BY <1>1 DEF GetIdentity, Resolve, ShutClaim, Running
  <2>2. CASE Leave(l, "refused") \/ Leave(l, "out")
    BY <2>1, <2>2, <1>t, <1>o, <1>s, LeaveQuiet, QuietAccounts
  <2>3. CASE ~(Leave(l, "refused") \/ Leave(l, "out"))
    <3>1. \E point \in Stages \ {"link"} : stage' = [stage EXCEPT ![l] = point]
      BY <2>3, <1>1 DEF GetIdentity, Resolve, ShutClaim, Stages, Running
    <3>2. \A k \in Logins \ {l} : req'[k] = req[k]
      BY <2>3, <1>1, <1>t DEF GetIdentity, Resolve, ShutClaim, SsoTypeOK
    <3> QED BY <3>1, <3>2, <2>1, <1>s, <1>m, <1>t, QuietAccounts
  <2> QED BY <2>2, <2>3
<1>2. CASE Register(l)
  <2>1. CASE settings.register /\ req[l].mail \notin accounts
    <3>1. /\ accounts' = accounts \cup {req[l].mail} /\ stage[l] = "register"
          /\ stage' = [stage EXCEPT ![l] = "link"] /\ UNCHANGED <<req, link, member>>
      BY <1>2, <2>1 DEF Register
    <3>2. stage'[l] = "link" /\ \A k \in Logins \ {l} : stage'[k] = stage[k]
      BY <3>1, <1>t DEF SsoTypeOK
    <3>3. \A k \in Logins : stage[k] = "link" => req[k].mail \in accounts
      BY DEF AccountsIInv, TypeIInv, StageKnows, Knows
    <3>4. req[l].mail # Nobody
      BY <1>t, <3>1 DEF Knows, AtIdentity, Running
    <3>5. AccountsHaveOneSubject'
      BY <3>1, <3>2, <1>t DEF AccountsHaveOneSubject
    <3>6. LinkFresh'
      BY <3>1, <3>2, <3>3, <3>4, <2>1, <1>t DEF LinkFresh, AccountsHaveOneSubject
    <3> QED BY <3>5, <3>6
  <2>2. CASE ~(settings.register /\ req[l].mail \notin accounts)
    <3>1. Leave(l, "refused") /\ UNCHANGED store /\ stage[l] \in Running \ {"link"}
      BY <1>2, <2>2 DEF Register, store, Running
    <3> QED BY <3>1, <1>t, <1>o, <1>s, LeaveQuiet, QuietAccounts
  <2> QED BY <2>1, <2>2
<1>3. CASE Link(l)
  <2> DEFINE who == req[l].who
             mail == req[l].mail
  <2>1. /\ stage[l] = "link" /\ link[who] = Nobody /\ link' = [link EXCEPT ![who] = mail]
        /\ stage' = [stage EXCEPT ![l] = "account"]
        /\ req' = [req EXCEPT ![l].account = mail]
        /\ UNCHANGED <<accounts, member>>
    BY <1>3 DEF Link
  <2>2. who \in Subjects /\ mail \in accounts \ {OwnerMail}
    BY <1>t, <2>1 DEF Knows, Running
  <2>3. /\ stage'[l] = "account"
        /\ \A k \in Logins \ {l} : stage'[k] = stage[k] /\ req'[k] = req[k]
    BY <2>1, <1>t DEF SsoTypeOK
  <2>4. link'[who] = mail /\ \A s \in Subjects \ {who} : link'[s] = link[s]
    BY <2>1, <2>2, <1>t DEF SsoTypeOK
  <2>5. /\ \A s \in Subjects : link[s] # mail
        /\ \A k \in Logins \ {l} : stage[k] = "link" => req[k].mail # mail
    BY <1>t, <2>1 DEF LinkFresh
  <2> HIDE DEF who, mail
  <2>6. AccountsHaveOneSubject'
    <3>1. \A a \in accounts' \ {OwnerMail} : a # mail =>
             \/ \E s \in Subjects : link'[s] = a
             \/ \E k \in Logins : stage'[k] \in {"link", "orphaned"} /\ req'[k].mail = a
      <4> SUFFICES ASSUME NEW a \in accounts \ {OwnerMail}, a # mail
                   PROVE  \/ \E s \in Subjects : link'[s] = a
                          \/ \E k \in Logins : /\ stage'[k] \in {"link", "orphaned"}
                                               /\ req'[k].mail = a
        BY <2>1
      <4>1. CASE \E s \in Subjects : link[s] = a
        <5>1. PICK s \in Subjects : link[s] = a
          BY <4>1
        <5>2. s # who
          BY <5>1, <2>1, <1>t DEF SsoTypeOK
        <5> QED BY <5>1, <5>2, <2>4
      <4>2. CASE \E k \in Logins : stage[k] \in {"link", "orphaned"} /\ req[k].mail = a
        <5>1. PICK k \in Logins : stage[k] \in {"link", "orphaned"} /\ req[k].mail = a
          BY <4>2
        <5>2. k # l
          BY <5>1, <2>1 DEF mail
        <5> QED BY <5>1, <5>2, <2>3
      <4> QED BY <4>1, <4>2, <1>t DEF AccountsHaveOneSubject
    <3>2. \E s \in Subjects : link'[s] = mail
      BY <2>2, <2>4
    <3>3. /\ \A s, t \in Subjects : link'[s] = link'[t] /\ link'[s] # Nobody => s = t
          /\ \A s \in Subjects : link'[s] # Nobody => link'[s] \in accounts'
          /\ \A s \in Subjects : link'[s] # OwnerMail
          /\ member'[OwnerMail] = "owner"
      BY <2>1, <2>2, <2>4, <2>5, <1>t DEF AccountsHaveOneSubject
    <3> QED BY <3>1, <3>2, <3>3 DEF AccountsHaveOneSubject
  <2>7. LinkFresh'
    BY <2>3, <2>4, <2>5, <1>t DEF LinkFresh
  <2> QED BY <2>6, <2>7
<1>4. CASE LinkRaises(l)
  BY <1>4, <1>t, ReleasedTypes, StopQuiet, QuietAccounts DEF LinkRaises
<1>5. CASE ClaimAccount(l) \/ ShutAccount(l) \/ IssueTokens(l) \/ RevokeTokens(l)
           \/ CommitMember(l) \/ DeleteMember(l)
  <2>1. stage[l] \in AtAccount /\ stage[l] \in Running \ {"link"} /\ UNCHANGED <<accounts, link>>
    BY <1>5 DEF ClaimAccount, ShutAccount, IssueTokens, RevokeTokens, CommitMember,
                DeleteMember, Running, AtAccount, store
  <2>2. member'[OwnerMail] = member[OwnerMail]
    BY <2>1, <1>5, <1>a, <1>t DEF ClaimAccount, ShutAccount, IssueTokens, RevokeTokens,
                                  CommitMember, DeleteMember, store, SsoTypeOK
  <2>3. CASE Leave(l, "refused") \/ Leave(l, "out") \/ Leave(l, "in")
    BY <2>1, <2>2, <2>3, <1>t, <1>o, LeaveQuiet, QuietAccounts
  <2>4. CASE ~(Leave(l, "refused") \/ Leave(l, "out") \/ Leave(l, "in"))
    <3>1. UNCHANGED req /\ \E point \in {"commit", "delete", "tokens", "revoke"} :
                              stage' = [stage EXCEPT ![l] = point]
      BY <2>4, <1>5 DEF ClaimAccount, ShutAccount, IssueTokens, RevokeTokens,
                        CommitMember, DeleteMember
    <3>2. {"commit", "delete", "tokens", "revoke"} \subseteq Stages \ {"link"}
      BY DEF Stages, Running
    <3> QED BY <3>1, <3>2, <2>1, <2>2, <1>m, <1>t, QuietAccounts
  <2> QED BY <2>3, <2>4
<1> QED BY <1>1, <1>2, <1>3, <1>4, <1>5 DEF LoginStep

(* Everything around the logins is quiet.                                  *)
LEMMA EnvironmentAccounts ==
    ASSUME AccountsIInv, Environment PROVE AccountsHaveOneSubject' /\ LinkFresh'
<1>t. TypeIInv /\ SsoTypeOK /\ AccountsHaveOneSubject /\ LinkFresh
  BY DEF AccountsIInv, TypeIInv
<1>s. UNCHANGED <<stage, req, store>> => Quiet
  BY DEF Quiet, store
<1>1. ASSUME InBrowsers PROVE Quiet
  BY <1>1, <1>s, BrowsersAlone
<1>3. ASSUME NEW s \in Subjects, NEW entry \in Entries, Edit(s, entry) PROVE Quiet
  BY <1>3, <1>s DEF Edit
<1>4. ASSUME NEW l \in Logins, NEW b \in Browsers, NEW n \in Starts, NEW s \in Subjects,
             Callback(l, b, n, s)
      PROVE  Quiet
  <2>1. UNCHANGED store
    BY <1>4 DEF Callback
  <2> QED BY <1>4, <2>1, <1>t, CallbackMoves DEF Quiet, store
<1>5. ASSUME NEW l \in Logins, Fail(l) \/ Crash(l) PROVE Quiet
  <2>1. claim' \in [Keys -> Logins \cup {Nobody}] /\ Stop(l) /\ UNCHANGED store
    BY <1>5, <1>t, ReleasedTypes DEF Fail, Crash, SsoTypeOK
  <2> QED BY <2>1, <1>t, StopQuiet
<1>6. ASSUME NEW l \in Logins, LeasesRunOut(l) \/ \E K \in SUBSET Held(l) : LoseClaim(l, K) PROVE Quiet
  BY <1>6, <1>s DEF LeasesRunOut, LoseClaim
<1> QED BY <1>1, <1>3, <1>4, <1>5, <1>6, <1>t, QuietAccounts DEF Environment, InBrowsers

(* The accounts to begin with have one subject each.                       *)
LEMMA AccountsInit == Init => AccountsIInv
<1> SUFFICES ASSUME Init PROVE AccountsIInv
  OBVIOUS
<1> USE SsoAssumption
<1>1. TypeIInv
  BY TypeInit
<1>2. \A l \in Logins : stage[l] = "idle"
  BY DEF Init
<1>3. PICK known \in SUBSET Subjects :
         /\ \A s \in known : directory[s].mail # OwnerMail
         /\ \A s, t \in known : directory[s].mail = directory[t].mail => s = t
         /\ link = [s \in Subjects |-> IF s \in known THEN directory[s].mail ELSE Nobody]
         /\ accounts = {OwnerMail} \cup {directory[s].mail : s \in known}
  BY DEF Init
<1>4. member[OwnerMail] = "owner"
  BY DEF Init
<1>5. AccountsHaveOneSubject
  BY <1>3, <1>4 DEF AccountsHaveOneSubject
<1> QED BY <1>1, <1>2, <1>5 DEF AccountsIInv, LinkFresh

(* Every step keeps the correspondence.                                    *)
LEMMA AccountsStep == AccountsIInv /\ [Next]_vars => AccountsIInv'
<1>1. AccountsIInv /\ Next => AccountsHaveOneSubject' /\ LinkFresh'
  BY LoginStepAccounts, EnvironmentAccounts DEF Next
<1>2. AccountsIInv /\ UNCHANGED vars => AccountsHaveOneSubject' /\ LinkFresh'
  BY DEF vars, store, AccountsIInv, AccountsHaveOneSubject, LinkFresh
<1> QED BY <1>1, <1>2, TypeStep DEF AccountsIInv

(* Accounts and subjects correspond, for any number of users and logins,   *)
(* whatever claims are lost: the refusal of a known address to an unlinked *)
(* subject (323-324) and the uniqueness of addresses are enough.           *)
THEOREM SsoAccounts == Spec => []AccountsHaveOneSubject
<1>1. AccountsIInv => AccountsHaveOneSubject
  BY DEF AccountsIInv
<1> QED BY <1>1, AccountsInit, AccountsStep, PTL DEF Spec
-----------------------------------------------------------------------------
(* The nonce.  The one a browser has is that of the last start answered    *)
(* there, and the answer to no callback for that start has arrived.  An    *)
(* answer that is still due goes to the browser of its start.              *)
NonceStands ==
    /\ \A i \in DOMAIN arrived : arrived[i] \in 1..Len(begun)
    /\ \A b \in Browsers : nonce[b] # NoNonce =>
         /\ begun[nonce[b]] = b
         /\ \E i \in DOMAIN arrived :
              /\ arrived[i] = nonce[b]
              /\ \A j \in i + 1..Len(arrived) : begun[arrived[j]] # b
         /\ \A l \in heard : req[l].start # nonce[b]

StartsKnown ==
    \A l \in Logins :
        /\ req[l].start # NoNonce => HasArrived(req[l].start)
        /\ due[l] # Nobody /\ req[l].start # NoNonce => begun[req[l].start] = due[l]
        /\ stage[l] = "idle" => req[l].start = NoNonce /\ due[l] = Nobody /\ l \notin heard

NonceIInv == TypeIInv /\ NonceStands /\ StartsKnown

(* Steps that do not concern starts and answers keep both.                 *)
LEMMA StartsKept ==
    ASSUME NonceStands, StartsKnown, UNCHANGED <<begun, arrived, nonce, heard>>,
           heard \subseteq Logins,
           \A l \in Logins : /\ req'[l].start = req[l].start
                             /\ due'[l] \in {due[l], Nobody}
                             /\ stage'[l] = "idle" => stage[l] = "idle"
    PROVE  NonceStands' /\ StartsKnown'
<1>1. begun' = begun /\ arrived' = arrived /\ nonce' = nonce /\ heard' = heard
      /\ \A l \in heard : req'[l].start = req[l].start
  OBVIOUS
<1>2. NonceStands'
  BY <1>1 DEF NonceStands
<1>3. StartsKnown'
  BY <1>1 DEF StartsKnown, HasArrived
<1> QED BY <1>2, <1>3

(* A login keeps the start it answered for good, and does not begin anew.  *)
LEMMA LoginStepStarts ==
    ASSUME TypeIInv, NEW l \in Logins, LoginStep(l)
    PROVE  /\ UNCHANGED stateVars
           /\ \A k \in Logins : /\ req'[k].start = req[k].start
                                /\ stage'[k] = "idle" => stage[k] = "idle"
<1>t. SsoTypeOK /\ req[l] \in Request
  BY DEF TypeIInv, SsoTypeOK
<1>l. ASSUME NEW o \in Outcomes, Leave(l, o) PROVE \A k \in Logins : req'[k].start = req[k].start
  <2>1. PICK q \in Request : Move(l, o, q) /\ q.start = req[l].start
    BY <1>l, <1>t, LeaveTypes
  <2> QED BY <2>1, <1>t, MoveTypes
<1>o. "in" \in Outcomes /\ "out" \in Outcomes /\ "refused" \in Outcomes
  BY DEF Outcomes
<1>r. ASSUME NEW q \in Request, req' = [req EXCEPT ![l] = q], q.start = req[l].start
      PROVE  \A k \in Logins : req'[k].start = req[k].start
  BY <1>r, <1>t DEF SsoTypeOK
<1>u. UNCHANGED req => \A k \in Logins : req'[k].start = req[k].start
  OBVIOUS
<1>1. UNCHANGED stateVars
  BY DEF LoginStep, GetIdentity, Resolve, Register, Link, LinkRaises, ClaimAccount,
         CommitMember, IssueTokens, ShutClaim, ShutAccount, DeleteMember, RevokeTokens
<1>2. ASSUME GetIdentity(l)
      PROVE  \A k \in Logins : req'[k].start = req[k].start
  <2>1. ASSUME NEW mail, NEW roles,
               req' = [req EXCEPT ![l] = [req[l] EXCEPT !.mail = mail, !.roles = roles]]
        PROVE  \A k \in Logins : req'[k].start = req[k].start
    BY <2>1, <1>t DEF SsoTypeOK, Request
  <2> QED BY <1>2, <1>l, <1>o, <2>1 DEF GetIdentity
<1>3. ASSUME Resolve(l) \/ ShutClaim(l)
      PROVE  \A k \in Logins : req'[k].start = req[k].start
  BY <1>3, <1>l, <1>o, <1>t DEF Resolve, ShutClaim, SsoTypeOK, Request
<1>4. ASSUME Link(l)
      PROVE  \A k \in Logins : req'[k].start = req[k].start
  BY <1>4, <1>t DEF Link, SsoTypeOK, Request
<1>5. ASSUME LinkRaises(l)
      PROVE  \A k \in Logins : req'[k].start = req[k].start
  <2>1. PICK q \in Request : Move(l, Debris(l), q) /\ q.start = req[l].start
    BY <1>5, <1>t, StopTypes, ReleasedTypes DEF LinkRaises
  <2> QED BY <2>1, <1>t, MoveTypes
<1>6. ASSUME \/ Register(l) \/ ClaimAccount(l) \/ CommitMember(l) \/ IssueTokens(l)
             \/ ShutAccount(l) \/ DeleteMember(l) \/ RevokeTokens(l)
      PROVE  \A k \in Logins : req'[k].start = req[k].start
  BY <1>6, <1>l, <1>o, <1>u DEF Register, ClaimAccount, CommitMember, IssueTokens,
                                ShutAccount, DeleteMember, RevokeTokens
<1>7. \A k \in Logins : req'[k].start = req[k].start
  BY <1>2, <1>3, <1>4, <1>5, <1>6 DEF LoginStep
<1>8. \E point \in Stages \ {"idle"} : stage' = [stage EXCEPT ![l] = point]
  BY DEF LoginStep, GetIdentity, Resolve, Register, Link, LinkRaises, ClaimAccount,
         CommitMember, IssueTokens, ShutClaim, ShutAccount, DeleteMember, RevokeTokens,
         Leave, Stop, Debris, Stages, Running, Outcomes
<1>9. \A k \in Logins : stage'[k] = "idle" => stage[k] = "idle"
  BY <1>8, <1>t DEF SsoTypeOK
<1> QED BY <1>1, <1>7, <1>9

(* The answer to a start puts a nonce there that no callback has, and the  *)
(* answer to a callback ends the nonce of its browser; nothing else        *)
(* changes a cookie.                                                       *)
LEMMA NonceStep == NonceIInv /\ [Next]_vars => NonceIInv'
<1> SUFFICES ASSUME NonceIInv, [Next]_vars PROVE NonceStands' /\ StartsKnown'
  BY TypeStep DEF NonceIInv
<1> USE BrowserAssumption
<1>t. TypeIInv /\ SsoTypeOK /\ BrowserTypeOK /\ NonceStands /\ StartsKnown
  BY DEF NonceIInv, TypeIInv, SsoTypeOK
<1>n. /\ begun \in Seq(Browsers) /\ arrived \in Seq(Nat)
      /\ Len(begun) \in Nat /\ Len(arrived) \in Nat /\ DOMAIN arrived = 1..Len(arrived)
      /\ nonce \in [Browsers -> Nat] /\ due \in [Logins -> Browsers \cup {Nobody}]
      /\ heard \subseteq Logins
  BY <1>t DEF BrowserTypeOK
<1>r. \A l \in Logins : req[l].start \in Nat
  BY <1>t DEF SsoTypeOK, Request
<1>a. \A l \in Logins : req[l].start # NoNonce => req[l].start \in 1..Len(begun)
  BY <1>t DEF NonceStands, StartsKnown, HasArrived
<1>1. ASSUME NEW l \in Logins, LoginStep(l) PROVE NonceStands' /\ StartsKnown'
  BY <1>1, <1>t, <1>n, LoginStepStarts, StartsKept DEF stateVars
<1>2. ASSUME NEW b \in Browsers, StartLogin(b) PROVE NonceStands' /\ StartsKnown'
  <2>1. begun' = Append(begun, b) /\ UNCHANGED <<arrived, nonce, due, heard, req, stage>>
    BY <1>2 DEF StartLogin, Begin
  <2>2. /\ Len(begun') = Len(begun) + 1
        /\ \A m \in 1..Len(begun) : begun'[m] = begun[m]
    BY <2>1, <1>n
  <2>3. \A i \in DOMAIN arrived : arrived[i] \in 1..Len(begun)
                                 /\ begun'[arrived[i]] = begun[arrived[i]]
    BY <2>2, <1>t DEF NonceStands
  <2>4. NonceStands'
    <3>1. \A i \in DOMAIN arrived' : arrived'[i] \in 1..Len(begun')
      BY <2>1, <2>2, <2>3, <1>n
    <3>2. ASSUME NEW c \in Browsers, nonce[c] # NoNonce
          PROVE  /\ begun'[nonce[c]] = c
                 /\ \E i \in DOMAIN arrived :
                      /\ arrived[i] = nonce[c]
                      /\ \A j \in i + 1..Len(arrived) : begun'[arrived[j]] # c
      <4>1. PICK i \in DOMAIN arrived : /\ arrived[i] = nonce[c] /\ begun[nonce[c]] = c
                                        /\ \A j \in i + 1..Len(arrived) : begun[arrived[j]] # c
        BY <3>2, <1>t DEF NonceStands
      <4>2. \A j \in i + 1..Len(arrived) : j \in DOMAIN arrived
        BY <1>n
      <4> QED BY <4>1, <4>2, <2>3
    <3>3. ASSUME NEW c \in Browsers, nonce[c] # NoNonce
          PROVE  \A l \in heard : req[l].start # nonce[c]
      BY <3>3, <1>t DEF NonceStands
    <3>4. /\ nonce' = nonce /\ arrived' = arrived
          /\ heard' = heard /\ req' = req
      BY <2>1
    <3> QED BY <3>1, <3>2, <3>3, <3>4 DEF NonceStands
  <2>5. StartsKnown'
    BY <2>1, <2>2, <1>a, <1>t DEF StartsKnown, HasArrived
  <2> QED BY <2>4, <2>5
<1>3. ASSUME NEW n \in Starts, StartAnswered(n) PROVE NonceStands' /\ StartsKnown'
  <2> DEFINE b == begun[n]
  <2>1. /\ n \in 1..Len(begun) /\ ~HasArrived(n) /\ b \in Browsers
        /\ arrived' = Append(arrived, n) /\ nonce' = [nonce EXCEPT ![b] = n]
        /\ UNCHANGED <<begun, due, heard, req, stage>>
    BY <1>3, <1>n DEF StartAnswered, AnswerStart
  <2>2. /\ Len(arrived') = Len(arrived) + 1 /\ DOMAIN arrived' = 1..Len(arrived) + 1
        /\ arrived'[Len(arrived) + 1] = n
        /\ \A i \in DOMAIN arrived : i \in DOMAIN arrived' /\ arrived'[i] = arrived[i]
    BY <2>1, <1>n
  <2>3. StartsKnown'
    BY <2>1, <2>2, <1>t DEF StartsKnown, HasArrived
  <2>4. \A i \in DOMAIN arrived' : arrived'[i] \in 1..Len(begun)
    BY <2>1, <2>2, <1>n, <1>t DEF NonceStands
  <2>5. \A l \in heard : req[l].start # n
    BY <2>1, <1>n, <1>t DEF StartsKnown
  <2>6. ASSUME NEW c \in Browsers, nonce'[c] # NoNonce
        PROVE  /\ begun[nonce'[c]] = c
               /\ \E i \in DOMAIN arrived' :
                    /\ arrived'[i] = nonce'[c]
                    /\ \A j \in i + 1..Len(arrived') : begun[arrived'[j]] # c
               /\ \A l \in heard : req[l].start # nonce'[c]
    <3>1. CASE c = b
      <4>1. nonce'[c] = n /\ Len(arrived) + 1 \in DOMAIN arrived'
            /\ (Len(arrived) + 1) + 1..Len(arrived') = {}
        BY <3>1, <2>1, <2>2, <1>n
      <4> QED BY <4>1, <3>1, <2>2, <2>5
    <3>2. CASE c # b
      <4>1. nonce'[c] = nonce[c]
        BY <3>2, <2>1, <1>n
      <4>2. PICK i \in DOMAIN arrived : /\ arrived[i] = nonce[c] /\ begun[nonce[c]] = c
                                        /\ \A j \in i + 1..Len(arrived) : begun[arrived[j]] # c
        BY <4>1, <2>6, <1>t DEF NonceStands
      <4>3. \A j \in i + 1..Len(arrived') :
               j = Len(arrived) + 1 \/ (j \in DOMAIN arrived /\ j \in i + 1..Len(arrived))
        BY <2>2, <1>n
      <4>4. \A j \in i + 1..Len(arrived') : begun[arrived'[j]] # c
        BY <4>2, <4>3, <2>2, <3>2
      <4>5. \A l \in heard : req[l].start # nonce'[c]
        BY <4>1, <2>6, <1>t DEF NonceStands
      <4> QED BY <4>1, <4>2, <4>4, <4>5, <2>2
    <3> QED BY <3>1, <3>2
  <2>7. NonceStands'
    BY <2>1, <2>4, <2>6 DEF NonceStands
  <2> QED BY <2>3, <2>7
<1>4. ASSUME NEW l \in Logins, NEW b \in Browsers, NEW n \in Starts, NEW s \in Subjects,
             Callback(l, b, n, s)
      PROVE  NonceStands' /\ StartsKnown'
  <2>1. /\ HasArrived(n) /\ due' = [due EXCEPT ![l] = b] /\ stage[l] = "idle"
        /\ stage'[l] # "idle" /\ \A k \in Logins \ {l} : stage'[k] = stage[k]
        /\ UNCHANGED <<begun, arrived, nonce, heard>>
    BY <1>4, <1>t DEF Callback, Decode, SsoTypeOK
  <2>2. /\ req'[l].start \in {NoNonce, nonce[b]}
        /\ req'[l].start # NoNonce => HasArrived(req'[l].start)
        /\ \A k \in Logins \ {l} : req'[k] = req[k]
    <3>1. CASE Matches(b, n)
      <4>1. req' = [req EXCEPT ![l] = [Blank EXCEPT !.start = n, !.browser = b, !.who = s]]
            /\ n = nonce[b]
        BY <1>4, <3>1 DEF Callback, Matches
      <4>2. req'[l].start = n /\ \A k \in Logins \ {l} : req'[k] = req[k]
        BY <4>1, <1>t DEF SsoTypeOK, Blank
      <4> QED BY <4>1, <4>2, <2>1
    <3>2. CASE ~Matches(b, n)
      BY <1>4, <3>2, <2>1, <1>t DEF Callback, StartsKnown
    <3> QED BY <3>1, <3>2
  <2>3. l \notin heard /\ heard \subseteq Logins \ {l}
    BY <2>1, <1>n, <1>t DEF StartsKnown
  <2>4. NonceStands'
    BY <2>1, <2>2, <2>3, <1>t DEF NonceStands
  <2>5. StartsKnown'
    <3>1. due'[l] = b /\ \A k \in Logins \ {l} : due'[k] = due[k]
      BY <2>1, <1>n
    <3>2. req'[l].start # NoNonce => begun[req'[l].start] = b
      BY <2>2, <1>t DEF NonceStands
    <3> QED BY <2>1, <2>2, <3>1, <3>2, <1>t DEF StartsKnown, HasArrived
  <2> QED BY <2>4, <2>5
<1>5. ASSUME NEW l \in Logins, CallbackAnswered(l) PROVE NonceStands' /\ StartsKnown'
  <2>1. /\ due[l] \in Browsers /\ nonce' = [nonce EXCEPT ![due[l]] = NoNonce]
        /\ due' = [due EXCEPT ![l] = Nobody] /\ heard' = heard \cup {l}
        /\ stage[l] # "idle" /\ UNCHANGED <<begun, arrived, req, stage>>
    BY <1>5, <1>n DEF CallbackAnswered, AnswerCallback, Outcomes
  <2>2. \A c \in Browsers : nonce'[c] # NoNonce => c # due[l] /\ nonce'[c] = nonce[c]
    BY <2>1, <1>n
  <2>3. \A c \in Browsers : nonce'[c] # NoNonce => req[l].start # nonce'[c]
    BY <2>1, <2>2, <1>t DEF NonceStands, StartsKnown
  <2>4. NonceStands'
    BY <2>1, <2>2, <2>3, <1>t DEF NonceStands
  <2>5. StartsKnown'
    BY <2>1, <1>n, <1>t DEF StartsKnown, HasArrived
  <2> QED BY <2>4, <2>5
<1>6. ASSUME NEW l \in Logins, Fail(l) \/ Crash(l) PROVE NonceStands' /\ StartsKnown'
  <2>1. /\ claim' \in [Keys -> Logins \cup {Nobody}] /\ Stop(l)
        /\ UNCHANGED <<begun, arrived, nonce, heard>>
        /\ \A k \in Logins : due'[k] \in {due[k], Nobody}
    BY <1>6, <1>t, <1>n, ReleasedTypes DEF Fail, Crash, NoAnswer, stateVars, SsoTypeOK
  <2>2. PICK q \in Request : Move(l, Debris(l), q) /\ q.start = req[l].start
                             /\ Debris(l) # "idle"
    BY <2>1, <1>t, StopTypes DEF Outcomes
  <2>3. \A k \in Logins : /\ req'[k].start = req[k].start
                          /\ stage'[k] = "idle" => stage[k] = "idle"
    BY <2>2, <1>t, MoveTypes
  <2> QED BY <2>1, <2>3, <1>t, <1>n, StartsKept
<1>7. CASE \/ \E s \in Subjects, entry \in Entries : Edit(s, entry)
           \/ \E l \in Logins : LeasesRunOut(l) \/ \E K \in SUBSET Held(l) : LoseClaim(l, K)
           \/ UNCHANGED vars
  <2>1. UNCHANGED <<stateVars, req, stage>>
    BY <1>7 DEF Edit, LeasesRunOut, LoseClaim, vars
  <2> QED BY <2>1, <1>t, <1>n, StartsKept DEF stateVars
<1> QED BY <1>1, <1>2, <1>3, <1>4, <1>5, <1>6, <1>7 DEF Next, Environment

(* A callback is honoured only in the browser that began its login, for    *)
(* the last start answered there, and not once a callback for that start   *)
(* has been answered: for any number of browsers, starts and callbacks, in *)
(* whatever order answers arrive.                                          *)
THEOREM SsoHonours == Spec => HonoursStandingStart
<1>1. Init => NonceIInv
  <2> SUFFICES ASSUME Init PROVE NonceStands /\ StartsKnown
    BY TypeInit DEF NonceIInv
  <2>1. arrived = <<>> /\ nonce = [b \in Browsers |-> NoNonce] /\ heard = {}
        /\ due = [l \in Logins |-> Nobody]
    BY DEF Init, BrowserInit
  <2>2. \A l \in Logins : req[l].start = 0
    BY DEF Init, Blank
  <2> QED BY <2>1, <2>2 DEF NonceStands, StartsKnown
<1>2. NonceIInv /\ [Next]_vars =>
        [\A l \in Logins :
           (stage[l] = "idle" /\ stage'[l] = "code") =>
             LET n == req'[l].start
             IN  /\ \E i \in DOMAIN arrived :
                       /\ arrived[i] = n /\ begun[n] = req'[l].browser
                       /\ \A j \in i + 1..Len(arrived) : begun[arrived[j]] # begun[n]
                 /\ \A other \in heard : req[other].start # n]_vars
  <2> SUFFICES ASSUME NonceIInv, Next, NEW l \in Logins, stage[l] = "idle", stage'[l] = "code"
               PROVE  LET n == req'[l].start
                      IN  /\ \E i \in DOMAIN arrived :
                                /\ arrived[i] = n /\ begun[n] = req'[l].browser
                                /\ \A j \in i + 1..Len(arrived) : begun[arrived[j]] # begun[n]
                          /\ \A other \in heard : req[other].start # n
    OBVIOUS
  <2>t. SsoTypeOK /\ NonceStands
    BY DEF NonceIInv, TypeIInv
  <2>1. PICK b \in Browsers, n \in Starts, s \in Subjects : Callback(l, b, n, s)
    <3>1. ASSUME NEW k \in Logins, LoginStep(k) PROVE FALSE
      <4>1. stage[k] # "idle" /\ \E point : stage' = [stage EXCEPT ![k] = point] /\ point # "code"
        BY <3>1 DEF LoginStep, GetIdentity, Resolve, Register, Link, LinkRaises, ClaimAccount,
              CommitMember, IssueTokens, ShutClaim, ShutAccount, DeleteMember, RevokeTokens,
              Leave, Stop, Running, Debris
      <4> QED BY <4>1, <2>t DEF SsoTypeOK
    <3>2. ASSUME NEW k \in Logins, Fail(k) \/ Crash(k) PROVE FALSE
      <4>1. stage[k] # "idle" /\ stage' = [stage EXCEPT ![k] = Debris(k)]
        BY <3>2 DEF Fail, Crash, Stop, Running
      <4> QED BY <4>1, <2>t DEF SsoTypeOK
    <3>3. ASSUME UNCHANGED stage PROVE FALSE
      BY <3>3
    <3>4. ASSUME NEW k \in Logins, NEW c \in Browsers, NEW m \in Starts, NEW s \in Subjects,
                 Callback(k, c, m, s)
          PROVE  k = l
      BY <3>4, <2>t DEF Callback, SsoTypeOK
    <3> QED BY <3>1, <3>2, <3>3, <3>4
            DEF Next, Environment, StartLogin, StartAnswered, CallbackAnswered, Edit,
                LeasesRunOut, LoseClaim
  <2>2. Matches(b, n)
    BY <2>1, <2>t DEF Callback, SsoTypeOK
  <2>3. nonce[b] = n /\ n # NoNonce
        /\ req' = [req EXCEPT ![l] = [Blank EXCEPT !.start = n, !.browser = b, !.who = s]]
    BY <2>1, <2>2 DEF Callback, Matches, Decode
  <2>4. req'[l].start = n /\ req'[l].browser = b
    BY <2>3, <2>t DEF SsoTypeOK, Blank
  <2> QED BY <2>3, <2>4, <2>t DEF NonceStands
<1> QED BY <1>1, <1>2, NonceStep, PTL DEF Spec, HonoursStandingStart
=============================================================================
