------------------------- MODULE KeycloakClaimProofs -------------------------
(***************************************************************************)
(* What the claims of overlay/api/neurwerk_sso.py are for: who is settled, *)
(* and that the two stores a revocation empties agree, for any browsers,   *)
(* users, accounts and logins.                                             *)
(***************************************************************************)
EXTENDS KeycloakSsoProofs

USE DEF Goto

(* What a login at each stage has claimed, unless it has lost it since.    *)
Due(l) ==
    IF stage[l] \in {"register", "link", "account", "shut_account"}
    THEN IdentityKeys(l)
    ELSE IF stage[l] \in {"commit", "tokens", "delete", "revoke"}
    THEN IdentityKeys(l) \cup {AccountKey(req[l].account)}
    ELSE {}

(* A login holds nothing but what is due, and all of that while nothing is *)
(* lost.  One that lost a claim it has to look at is held up by the loss.  *)
ClaimsOf(l) ==
    /\ stage[l] \notin Outcomes => /\ Held(l) \subseteq Due(l)
                                   /\ losses = 0 => Held(l) = Due(l)
    /\ l \in lost => \/ stage[l] \in Outcomes \ {"in", "out"}
                     \/ stage[l] \in {"shut_account", "delete", "revoke"} /\ Held(l) # Due(l)
                     \/ stage[l] = "commit" /\ AccountKey(req[l].account) \notin Held(l)

(* What a login should hold and does not.                                  *)
Missing(l) == Due(l) \ Held(l)

(* As long as one claim at most was lost, all that is missing is missing   *)
(* from that one: it is one login's, and either on its identity or on its  *)
(* account.                                                                *)
OneClaimMissing ==
    losses <= 1 =>
        \A l, k \in Logins : \A p \in Missing(l), q \in Missing(k) :
            l = k /\ (p = q \/ "account" \notin {p[1], q[1]})

ClaimIInv ==
    /\ TypeIInv
    /\ \A l \in Logins : ClaimsOf(l)
    /\ OneClaimMissing

(* A step of login l leaves the others and their claims alone.             *)
OnlyOf(l) ==
    \A k \in Logins \ {l} : stage'[k] = stage[k] /\ req'[k] = req[k] /\ Held(k)' = Held(k)
-----------------------------------------------------------------------------
(* What is granted was nobody's; only one's own claims are released.       *)
LEMMA GrantHeld ==
    ASSUME SsoTypeOK, NEW l \in Logins, NEW K \in SUBSET Keys, Owns(Nobody, K),
           claim' = Grant(l, K)
    PROVE  /\ Held(l)' = Held(l) \cup K
           /\ \A k \in Logins \ {l} : Held(k)' = Held(k)
BY SsoAssumption DEF SsoTypeOK, Owns, Grant, Held

(* A release takes the claims of one login and no others.                  *)
LEMMA ReleasedHeld ==
    ASSUME SsoTypeOK, NEW l \in Logins, claim' = Released(l)
    PROVE  /\ Held(l)' = {}
           /\ \A k \in Logins \ {l} : Held(k)' = Held(k)
BY SsoAssumption DEF SsoTypeOK, Released, Held

(* Without a change of the claims nobody holds other ones.                 *)
LEMMA SameHeld ==
    ASSUME UNCHANGED claim PROVE \A k \in Logins : Held(k)' = Held(k)
BY DEF Held

(* The keys of a login are keys.                                           *)
LEMMA KeysOf ==
    ASSUME NEW l \in Logins
    PROVE  /\ req[l].who \in Subjects /\ req[l].mail \in Mails => IdentityKeys(l) \in SUBSET Keys
           /\ req[l].account \in Mails => {AccountKey(req[l].account)} \in SUBSET Keys
BY DEF IdentityKeys, AccountKey, Keys

(* A step of one login leaves what concerns the others as it is.           *)
LEMMA OthersClaims ==
    ASSUME ClaimIInv, NEW l \in Logins, OnlyOf(l), lost' \subseteq lost \cup {l},
           losses' = 0 => losses = 0, NEW k \in Logins \ {l}
    PROVE  ClaimsOf(k)' /\ Missing(k)' = Missing(k)
<1>1. ClaimsOf(k)
  BY DEF ClaimIInv
<1>2. stage'[k] = stage[k] /\ req'[k] = req[k] /\ Held(k)' = Held(k)
  BY DEF OnlyOf
<1>3. Due(k)' = Due(k)
  BY <1>2 DEF Due, IdentityKeys, AccountKey
<1>4. k \in lost' => k \in lost
  OBVIOUS
<1> QED BY <1>1, <1>2, <1>3, <1>4 DEF ClaimsOf, AccountKey, Missing

(* A step of one login that loses nothing, in terms of that login alone.   *)
LEMMA OnlyOfClaims ==
    ASSUME ClaimIInv, NEW l \in Logins, OnlyOf(l), UNCHANGED <<lost, losses>>,
           TypeIInv', ClaimsOf(l)', Missing(l)' \subseteq Missing(l)
    PROVE  ClaimIInv'
<1>1. \A k \in Logins \ {l} : ClaimsOf(k)' /\ Missing(k)' = Missing(k)
  BY OthersClaims
<1>2. \A k \in Logins : Missing(k)' \subseteq Missing(k)
  BY <1>1
<1>3. OneClaimMissing'
  BY <1>2 DEF ClaimIInv, OneClaimMissing
<1> QED BY <1>1, <1>3 DEF ClaimIInv

(* Neither claims nor logins change.                                       *)
LEMMA QuietClaims ==
    ASSUME ClaimIInv, UNCHANGED <<stage, req, claim, lost, losses>>, TypeIInv'
    PROVE  ClaimIInv'
<1>1. ASSUME NEW k \in Logins PROVE ClaimsOf(k)' /\ Missing(k)' = Missing(k)
  BY DEF ClaimIInv, ClaimsOf, Missing, Due, Held, IdentityKeys, AccountKey
<1>2. OneClaimMissing'
  BY <1>1 DEF ClaimIInv, OneClaimMissing
<1> QED BY <1>1, <1>2 DEF ClaimIInv

(* The end of a request, by a return or by an exception: nothing is due    *)
(* any more.  A login that lost a claim must not end as if it had not.     *)
LEMMA EndClaims ==
    ASSUME ClaimIInv, NEW l \in Logins, NEW o \in Outcomes, NEW q, Move(l, o, q),
           claim' = Released(l) \/ UNCHANGED claim, UNCHANGED <<lost, losses>>, TypeIInv',
           l \in lost => o \notin {"in", "out"}
    PROVE  ClaimIInv'
<1>t. SsoTypeOK
  BY DEF ClaimIInv, TypeIInv
<1>1. stage'[l] = o /\ \A k \in Logins \ {l} : stage'[k] = stage[k] /\ req'[k] = req[k]
  BY <1>t, MoveTypes
<1>2. OnlyOf(l)
  BY <1>1, <1>t, ReleasedHeld, SameHeld DEF OnlyOf
<1>3. ClaimsOf(l)'
  BY <1>1 DEF ClaimsOf
<1>4. Missing(l)' = {}
  BY <1>1 DEF Missing, Due, Outcomes
<1> QED BY <1>2, <1>3, <1>4, OnlyOfClaims

(* A return.                                                               *)
LEMMA LeaveClaims ==
    ASSUME ClaimIInv, NEW l \in Logins, NEW o \in Outcomes, Leave(l, o),
           UNCHANGED <<lost, losses>>, TypeIInv', l \in lost => o \notin {"in", "out"}
    PROVE  ClaimIInv'
<1>1. PICK q \in Request : Move(l, o, q)
  BY LeaveTypes DEF ClaimIInv, TypeIInv
<1> QED BY <1>1, EndClaims DEF Leave

(* An exception, or a kill, after which the claims stay for a while.       *)
LEMMA StopClaims ==
    ASSUME ClaimIInv, NEW l \in Logins, Stop(l), claim' = Released(l) \/ UNCHANGED claim,
           UNCHANGED <<lost, losses>>, TypeIInv'
    PROVE  ClaimIInv'
<1>1. claim' \in [Keys -> Logins \cup {Nobody}]
  BY ReleasedTypes DEF ClaimIInv, TypeIInv, SsoTypeOK
<1>2. PICK q \in Request : Move(l, Debris(l), q) /\ Debris(l) \in Outcomes
  BY <1>1, StopTypes DEF ClaimIInv, TypeIInv
<1>3. Debris(l) \notin {"in", "out"}
  BY DEF Debris
<1> QED BY <1>2, <1>3, EndClaims

(* A step to a running stage with the claims due there.                    *)
LEMMA GoClaims ==
    ASSUME ClaimIInv, NEW l \in Logins, l \notin lost, stage[l] \notin Outcomes,
           \A k \in Logins \ {l} : stage'[k] = stage[k] /\ req'[k] = req[k],
           NEW K \in SUBSET Keys, Owns(Nobody, K), claim' = Grant(l, K),
           Due(l)' = Due(l) \cup K,
           UNCHANGED <<lost, losses>>, TypeIInv'
    PROVE  ClaimIInv'
<1>t. SsoTypeOK /\ ClaimsOf(l)
  BY DEF ClaimIInv, TypeIInv
<1>2. Held(l)' = Held(l) \cup K /\ \A k \in Logins \ {l} : Held(k)' = Held(k)
  BY <1>t, GrantHeld
<1>3. OnlyOf(l)
  BY <1>2 DEF OnlyOf
<1>4. ClaimsOf(l)'
  BY <1>t, <1>2 DEF ClaimsOf
<1>5. Missing(l)' \subseteq Missing(l)
  BY <1>2 DEF Missing
<1> QED BY <1>3, <1>4, <1>5, OnlyOfClaims
-----------------------------------------------------------------------------
(* Every step of a login keeps the invariant of the claims.                *)
LEMMA LoginStepClaims ==
    ASSUME ClaimIInv, NEW l \in Logins, LoginStep(l) PROVE ClaimIInv'
<1>t. TypeIInv /\ TypeIInv' /\ SsoTypeOK /\ Knows(l) /\ ClaimsOf(l) /\ req[l] \in Request
  BY LoginStepTypes DEF ClaimIInv, TypeIInv, StageKnows, SsoTypeOK
<1>f. UNCHANGED <<lost, losses>>
  BY DEF LoginStep, GetIdentity, Resolve, Register, Link, LinkRaises, ClaimAccount, faults,
         CommitMember, IssueTokens, ShutClaim, ShutAccount, DeleteMember, RevokeTokens
<1>e. Owns(Nobody, {}) /\ {} \in SUBSET Keys /\ (UNCHANGED claim => claim' = Grant(l, {}))
  BY <1>t DEF Owns, Grant, SsoTypeOK
<1>r. req[l] = req[l] /\ (UNCHANGED req => req' = [req EXCEPT ![l] = req[l]])
  BY <1>t DEF SsoTypeOK
<1>o. {"in", "out", "refused"} \subseteq Outcomes /\ Running \cap Outcomes = {}
  BY DEF Outcomes, Running
<1>l. l \in lost => stage[l] \in Outcomes \cup {"commit", "shut_account", "delete", "revoke"}
  BY <1>t DEF ClaimsOf
<1>x. Leave(l, "refused") => ClaimIInv'
  BY <1>t, <1>f, <1>o, LeaveClaims
<1>k. /\ stage[l] \in AtIdentity => IdentityKeys(l) \in SUBSET Keys
      /\ stage[l] \in AtAccount => {AccountKey(req[l].account)} \in SUBSET Keys
  BY <1>t, KeysOf DEF Knows, SsoTypeOK, AtIdentity
<1>i. ASSUME NEW q, req' = [req EXCEPT ![l] = q], q.who = req[l].who, q.mail = req[l].mail
      PROVE  IdentityKeys(l)' = IdentityKeys(l)
  BY <1>i, <1>t DEF IdentityKeys, SsoTypeOK
<1>a. ASSUME NEW account, req' = [req EXCEPT ![l].account = account]
      PROVE  /\ req' = [req EXCEPT ![l] = [req[l] EXCEPT !.account = account]]
             /\ [req[l] EXCEPT !.account = account].who = req[l].who
             /\ [req[l] EXCEPT !.account = account].mail = req[l].mail
  BY <1>a, <1>t DEF Request
<1>m. ASSUME NEW point, stage' = [stage EXCEPT ![l] = point],
             NEW q, req' = [req EXCEPT ![l] = q]
      PROVE  \A k \in Logins \ {l} : stage'[k] = stage[k] /\ req'[k] = req[k]
  BY <1>m, <1>t DEF SsoTypeOK
<1>p. ASSUME NEW point, stage' = [stage EXCEPT ![l] = point] PROVE stage'[l] = point
  BY <1>p, <1>t DEF SsoTypeOK
<1>1. CASE GetIdentity(l)
  <2>1. CASE Leave(l, "refused")
    BY <2>1, <1>x
  <2>2. CASE ~Leave(l, "refused")
    <3> DEFINE role == "dify-user" \in directory[req[l].who].roles
               point == IF role THEN "claim" ELSE "shut_claim"
               q == [req[l] EXCEPT !.mail = directory[req[l].who].mail,
                                   !.roles = directory[req[l].who].roles]
    <3>1. /\ stage' = [stage EXCEPT ![l] = point] /\ stage[l] = "code"
          /\ req' = [req EXCEPT ![l] = q] /\ UNCHANGED claim
      BY <1>1, <2>2 DEF GetIdentity
    <3>2. point \in {"claim", "shut_claim"}
      OBVIOUS
    <3> HIDE DEF point, q
    <3>3. stage[l] \notin Outcomes /\ l \notin lost /\ point \in Running
      BY <3>1, <3>2, <1>l DEF Outcomes, Running
    <3>4. Due(l)' = Due(l) \cup {}
      BY <3>1, <3>2, <1>p DEF Due
    <3>5. \A k \in Logins \ {l} : stage'[k] = stage[k] /\ req'[k] = req[k]
      BY <3>1, <1>m
    <3> QED BY <3>1, <3>3, <3>4, <1>e, <1>f, <1>t, <3>5, GoClaims
  <2> QED BY <2>1, <2>2
<1>2. CASE Resolve(l)
  <2>1. CASE Leave(l, "refused")
    BY <2>1, <1>x
  <2>2. CASE ~Leave(l, "refused")
    <3>1. PICK point \in {"register", "account"} : \E account :
             /\ stage' = [stage EXCEPT ![l] = point] /\ stage[l] = "claim"
             /\ Owns(Nobody, IdentityKeys(l)) /\ claim' = Grant(l, IdentityKeys(l))
             /\ req' = [req EXCEPT ![l].account = account]
      BY <1>2, <2>2 DEF Resolve, Awaited
    <3>2. PICK q : /\ req' = [req EXCEPT ![l] = q]
                   /\ q.who = req[l].who /\ q.mail = req[l].mail
      BY <3>1, <1>a
    <3>3. stage[l] \notin Outcomes /\ l \notin lost /\ point \in Running /\ stage[l] \in AtIdentity
      BY <3>1, <1>l DEF Outcomes, Running, AtIdentity
    <3>4. Due(l)' = Due(l) \cup IdentityKeys(l)
      BY <3>1, <3>2, <1>p, <1>i DEF Due
    <3>5. \A k \in Logins \ {l} : stage'[k] = stage[k] /\ req'[k] = req[k]
      BY <3>1, <3>2, <1>m
    <3> QED BY <3>1, <3>2, <3>3, <3>4, <1>k, <1>f, <1>t, <3>5, GoClaims
  <2> QED BY <2>1, <2>2
<1>3. CASE Register(l)
  <2>1. CASE Leave(l, "refused")
    BY <2>1, <1>x
  <2>2. CASE ~Leave(l, "refused")
    <3>1. /\ stage' = [stage EXCEPT ![l] = "link"] /\ stage[l] = "register"
          /\ UNCHANGED <<req, claim>>
      BY <1>3, <2>2 DEF Register
    <3>3. stage[l] \notin Outcomes /\ l \notin lost /\ "link" \in Running
      BY <3>1, <1>l DEF Outcomes, Running
    <3>4. Due(l)' = Due(l) \cup {}
      BY <3>1, <1>p DEF Due, IdentityKeys
    <3>5. \A k \in Logins \ {l} : stage'[k] = stage[k] /\ req'[k] = req[k]
      BY <3>1, <1>r, <1>m
    <3> QED BY <3>1, <3>3, <3>4, <1>e, <1>f, <1>t, <3>5, GoClaims
  <2> QED BY <2>1, <2>2
<1>4. CASE Link(l)
  <2>1. /\ stage' = [stage EXCEPT ![l] = "account"] /\ stage[l] = "link"
        /\ req' = [req EXCEPT ![l].account = req[l].mail] /\ UNCHANGED claim
    BY <1>4 DEF Link
  <2>2. PICK q : /\ req' = [req EXCEPT ![l] = q]
                 /\ q.who = req[l].who /\ q.mail = req[l].mail
    BY <2>1, <1>a
  <2>3. stage[l] \notin Outcomes /\ l \notin lost /\ "account" \in Running
    BY <2>1, <1>l DEF Outcomes, Running
  <2>4. Due(l)' = Due(l) \cup {}
    BY <2>1, <2>2, <1>p, <1>i DEF Due
  <2>5. \A k \in Logins \ {l} : stage'[k] = stage[k] /\ req'[k] = req[k]
    BY <2>1, <2>2, <1>m
  <2> QED BY <2>1, <2>2, <2>3, <2>4, <1>e, <1>f, <1>t, <2>5, GoClaims
<1>5. CASE LinkRaises(l)
  BY <1>5, <1>f, <1>t, StopClaims DEF LinkRaises
<1>6. CASE ClaimAccount(l)
  <2>1. CASE Leave(l, "refused")
    BY <2>1, <1>x
  <2>2. CASE ~Leave(l, "refused")
    <3>1. /\ stage' = [stage EXCEPT ![l] = "commit"] /\ stage[l] = "account"
          /\ claim' = Grant(l, {AccountKey(req[l].account)})
          /\ Owns(Nobody, {AccountKey(req[l].account)}) /\ UNCHANGED req
      BY <1>6, <2>2 DEF ClaimAccount, Awaited
    <3>3. stage[l] \notin Outcomes /\ l \notin lost /\ "commit" \in Running /\ stage[l] \in AtAccount
      BY <3>1, <1>l DEF Outcomes, Running, AtAccount
    <3>4. Due(l)' = Due(l) \cup {AccountKey(req[l].account)}
      BY <3>1, <1>p DEF Due, IdentityKeys, AccountKey
    <3>5. \A k \in Logins \ {l} : stage'[k] = stage[k] /\ req'[k] = req[k]
      BY <3>1, <1>r, <1>m
    <3> QED BY <3>1, <3>3, <3>4, <1>k, <1>f, <1>t, <3>5, GoClaims
  <2> QED BY <2>1, <2>2
<1>7. CASE CommitMember(l)
  <2>1. CASE Leave(l, "refused")
    BY <2>1, <1>x
  <2>2. CASE ~Leave(l, "refused")
    <3>1. /\ stage' = [stage EXCEPT ![l] = "tokens"] /\ stage[l] = "commit"
          /\ Owns(l, {AccountKey(req[l].account)}) /\ UNCHANGED <<req, claim>>
      BY <1>7, <2>2 DEF CommitMember
    <3>2. AccountKey(req[l].account) \in Held(l)
      BY <3>1, <1>k DEF Owns, Held, AtAccount
    <3>3. stage[l] \notin Outcomes /\ l \notin lost /\ "tokens" \in Running
      BY <3>1, <3>2, <1>t DEF Outcomes, Running, ClaimsOf
    <3>4. Due(l)' = Due(l) \cup {}
      BY <3>1, <1>p DEF Due, IdentityKeys, AccountKey
    <3>5. \A k \in Logins \ {l} : stage'[k] = stage[k] /\ req'[k] = req[k]
      BY <3>1, <1>r, <1>m
    <3> QED BY <3>1, <3>3, <3>4, <1>e, <1>f, <1>t, <3>5, GoClaims
  <2> QED BY <2>1, <2>2
<1>8. CASE IssueTokens(l)
  <2>1. stage[l] = "tokens" /\ Leave(l, "in")
    BY <1>8 DEF IssueTokens
  <2>2. l \notin lost
    BY <2>1, <1>l DEF Outcomes
  <2> QED BY <2>1, <2>2, <1>t, <1>f, <1>o, LeaveClaims
<1>9. CASE ShutClaim(l)
  <2>0. stage[l] = "shut_claim" /\ stage[l] \notin Outcomes /\ l \notin lost
        /\ stage[l] \in AtIdentity
    BY <1>9, <1>l DEF ShutClaim, Outcomes, AtIdentity, Running
  <2>1. CASE Leave(l, "out")
    BY <2>0, <2>1, <1>t, <1>f, <1>o, LeaveClaims
  <2>2. CASE ~Leave(l, "out")
    <3>1. PICK account :
             /\ stage' = [stage EXCEPT ![l] = "shut_account"]
             /\ Owns(Nobody, IdentityKeys(l)) /\ claim' = Grant(l, IdentityKeys(l))
             /\ req' = [req EXCEPT ![l].account = account]
      BY <1>9, <2>2 DEF ShutClaim, Awaited
    <3>2. PICK q : /\ req' = [req EXCEPT ![l] = q]
                   /\ q.who = req[l].who /\ q.mail = req[l].mail
      BY <3>1, <1>a
    <3>3. "shut_account" \in Running
      BY DEF Running
    <3>4. Due(l)' = Due(l) \cup IdentityKeys(l)
      BY <2>0, <3>1, <3>2, <1>p, <1>i DEF Due
    <3>5. \A k \in Logins \ {l} : stage'[k] = stage[k] /\ req'[k] = req[k]
      BY <3>1, <3>2, <1>m
    <3> QED BY <2>0, <3>1, <3>2, <3>3, <3>4, <1>k, <1>f, <1>t, <3>5, GoClaims
  <2> QED BY <2>1, <2>2
<1>10. CASE ShutAccount(l)
  <2>1. CASE Leave(l, "refused")
    BY <2>1, <1>x
  <2>2. CASE ~Leave(l, "refused")
    <3>1. /\ stage' = [stage EXCEPT ![l] = "delete"] /\ stage[l] = "shut_account"
          /\ Owns(l, IdentityKeys(l))
          /\ claim' = Grant(l, {AccountKey(req[l].account)})
          /\ Owns(Nobody, {AccountKey(req[l].account)}) /\ UNCHANGED req
      BY <1>10, <2>2 DEF ShutAccount, Awaited
    <3>2. Held(l) = Due(l)
      BY <3>1, <1>t, <1>k DEF Owns, Held, Due, ClaimsOf, Outcomes, AtIdentity, Running
    <3>3. stage[l] \notin Outcomes /\ l \notin lost /\ "delete" \in Running /\ stage[l] \in AtAccount
      BY <3>1, <3>2, <1>t DEF Outcomes, Running, AtAccount, ClaimsOf
    <3>4. Due(l)' = Due(l) \cup {AccountKey(req[l].account)}
      BY <3>1, <1>p DEF Due, IdentityKeys, AccountKey
    <3>5. \A k \in Logins \ {l} : stage'[k] = stage[k] /\ req'[k] = req[k]
      BY <3>1, <1>r, <1>m
    <3> QED BY <3>1, <3>3, <3>4, <1>k, <1>f, <1>t, <3>5, GoClaims
  <2> QED BY <2>1, <2>2
<1>11. CASE DeleteMember(l)
  <2>1. /\ stage' = [stage EXCEPT ![l] = "revoke"] /\ stage[l] = "delete"
        /\ UNCHANGED <<req, claim>>
    BY <1>11 DEF DeleteMember
  <2>2. stage'[l] = "revoke" /\ \A k \in Logins \ {l} : stage'[k] = stage[k]
    BY <2>1, <1>t DEF SsoTypeOK
  <2>3. OnlyOf(l) /\ Held(l)' = Held(l)
    BY <2>1, <2>2, SameHeld DEF OnlyOf
  <2>4. Due(l)' = Due(l)
    BY <2>1, <2>2 DEF Due, IdentityKeys, AccountKey
  <2>5. ClaimsOf(l)'
    BY <2>1, <2>2, <2>3, <2>4, <1>f, <1>t DEF ClaimsOf, Outcomes
  <2>6. Missing(l)' = Missing(l)
    BY <2>3, <2>4 DEF Missing
  <2> QED BY <2>3, <2>5, <2>6, <1>f, <1>t, OnlyOfClaims
<1>12. CASE RevokeTokens(l)
  <2>1. /\ stage[l] = "revoke"
        /\ \/ Leave(l, "refused")
           \/ Leave(l, "out") /\ Owns(l, IdentityKeys(l) \cup {AccountKey(req[l].account)})
    BY <1>12 DEF RevokeTokens
  <2>2. CASE Owns(l, IdentityKeys(l) \cup {AccountKey(req[l].account)})
    <3>1. Held(l) = Due(l)
      BY <2>1, <2>2, <1>t, <1>k DEF Owns, Held, Due, ClaimsOf, Outcomes, AtIdentity, Running, AtAccount
    <3>2. l \notin lost
      BY <2>1, <3>1, <1>t DEF ClaimsOf, Outcomes
    <3> QED BY <2>1, <3>2, <1>x, <1>t, <1>f, <1>o, LeaveClaims
  <2> QED BY <2>1, <2>2, <1>x
<1> QED BY <1>1, <1>2, <1>3, <1>4, <1>5, <1>6, <1>7, <1>8, <1>9, <1>10, <1>11, <1>12
        DEF LoginStep

(* So do failures, kills, leases that run out, losses, and the world       *)
(* outside.                                                                *)
LEMMA EnvironmentClaims ==
    ASSUME ClaimIInv, Environment PROVE ClaimIInv'
<1> USE SsoAssumption
<1>t. TypeIInv /\ TypeIInv' /\ SsoTypeOK
  BY EnvironmentTypes DEF ClaimIInv, TypeIInv
<1>s. UNCHANGED <<stage, req, claim, faults>> => ClaimIInv'
  BY <1>t, QuietClaims DEF faults
<1>1. CASE InBrowsers
  BY <1>1, <1>s, BrowsersAlone
<1>3. ASSUME NEW s \in Subjects, NEW entry \in Entries, Edit(s, entry) PROVE ClaimIInv'
  BY <1>3, <1>s DEF Edit
<1>4. ASSUME NEW l \in Logins, NEW b \in Browsers, NEW n \in Starts, NEW s \in Subjects,
             Callback(l, b, n, s)
      PROVE  ClaimIInv'
  <2>1. stage[l] = "idle" /\ stage'[l] \in {"code", "refused"} /\ UNCHANGED <<claim, lost, losses>>
        /\ \A k \in Logins \ {l} : stage'[k] = stage[k] /\ req'[k] = req[k]
    BY <1>4, <1>t, CallbackMoves DEF Callback, faults
  <2>2. OnlyOf(l) /\ Held(l)' = Held(l)
    BY <2>1, SameHeld DEF OnlyOf
  <2>3. Due(l)' = {} /\ Due(l) = {}
    BY <2>1 DEF Due
  <2>4. ClaimsOf(l)'
    BY <2>1, <2>2, <2>3 DEF ClaimIInv, ClaimsOf, Outcomes
  <2>5. Missing(l)' = {}
    BY <2>3 DEF Missing
  <2> QED BY <2>1, <2>2, <2>4, <2>5, <1>t, OnlyOfClaims
<1>5. ASSUME NEW l \in Logins, Fail(l) \/ Crash(l) PROVE ClaimIInv'
  BY <1>5, <1>t, StopClaims DEF Fail, Crash, faults
<1>6. ASSUME NEW l \in Logins, LeasesRunOut(l) PROVE ClaimIInv'
  <2>1. stage'[l] \in Outcomes /\ stage' = stage /\ req' = req /\ UNCHANGED <<lost, losses>>
        /\ claim' = Released(l)
    BY <1>6 DEF LeasesRunOut, faults
  <2>2. OnlyOf(l)
    BY <2>1, <1>t, ReleasedHeld DEF OnlyOf
  <2>3. ClaimsOf(l)'
    BY <2>1 DEF ClaimIInv, ClaimsOf, Outcomes
  <2>4. Missing(l)' = {}
    BY <2>1 DEF Missing, Due, Outcomes
  <2> QED BY <2>1, <2>2, <2>3, <2>4, <1>t, OnlyOfClaims
<1>7. ASSUME NEW l \in Logins, NEW K \in SUBSET Held(l), LoseClaim(l, K) PROVE ClaimIInv'
  <2> DEFINE key == AccountKey(req[l].account)
  <2>1. /\ stage' = stage /\ req' = req /\ stage[l] \in Running
        /\ K # {} /\ K \subseteq Held(l) /\ (K \subseteq IdentityKeys(l) \/ K = {key})
        /\ claim' = [k \in Keys |-> IF k \in K THEN Nobody ELSE claim[k]]
        /\ lost' = IF \/ stage[l] \in {"shut_account", "delete", "revoke"}
                      \/ stage[l] = "commit" /\ K = {key}
                   THEN lost \cup {l} ELSE lost
    BY <1>7, <1>t DEF LoseClaim
  <2>2. losses \in Nat /\ losses' = losses + 1
    BY <1>7, <1>t DEF LoseClaim, SsoTypeOK
  <2>3. Held(l)' = Held(l) \ K /\ \A m \in Logins \ {l} : Held(m)' = Held(m)
    BY <2>1, <1>t DEF Held, SsoTypeOK
  <2>4. OnlyOf(l)
    BY <2>1, <2>3 DEF OnlyOf
  <2>5. Due(l)' = Due(l) /\ key' = key
    BY <2>1 DEF Due, IdentityKeys, AccountKey
  <2>6. ClaimsOf(l) /\ stage[l] \notin Outcomes /\ K \subseteq Due(l)
    BY <2>1 DEF ClaimIInv, ClaimsOf, Outcomes, Running
  <2>7. ClaimsOf(l)'
    <3>1. Held(l)' \subseteq Due(l)' /\ Held(l)' # Due(l)'
      BY <2>1, <2>3, <2>5, <2>6 DEF ClaimsOf
    <3>2. K = {key} => key \notin Held(l)'
      BY <2>3
    <3> HIDE DEF key
    <3>3. l \in lost' => \/ stage[l] \in {"shut_account", "delete", "revoke"}
                         \/ stage[l] = "commit" /\ (K = {key} \/ key \notin Held(l))
      BY <2>1, <2>6 DEF ClaimsOf, key
    <3>4. losses' # 0
      BY <2>2
    <3> QED BY <2>1, <2>3, <2>5, <3>1, <3>2, <3>3, <3>4 DEF ClaimsOf, key
  <2>8. \A k \in Logins \ {l} : ClaimsOf(k)' /\ Missing(k)' = Missing(k)
    BY <2>1, <2>2, <2>4, OthersClaims
  <2>9. OneClaimMissing'
    <3>1. CASE losses = 0
      <4>1. \A k \in Logins : Missing(k) = {}
        BY <3>1 DEF ClaimIInv, ClaimsOf, Missing, Due, Outcomes
      <4>2. Missing(l)' \subseteq K
        BY <4>1, <2>3, <2>5 DEF Missing
      <4>3. \A p, q \in K : p = q \/ "account" \notin {p[1], q[1]}
        BY <2>1 DEF IdentityKeys
      <4> QED BY <4>1, <4>2, <4>3, <2>8 DEF OneClaimMissing
    <3>2. CASE losses # 0
      BY <3>2, <2>2 DEF OneClaimMissing
    <3> QED BY <3>1, <3>2
  <2> QED BY <2>7, <2>8, <2>9, <1>t DEF ClaimIInv
<1> QED BY <1>1, <1>3, <1>4, <1>5, <1>6, <1>7 DEF Environment, InBrowsers

(* Initially nothing is claimed and nothing is lost.                       *)
LEMMA ClaimInit == Init => ClaimIInv
<1> SUFFICES ASSUME Init PROVE (\A l \in Logins : ClaimsOf(l)) /\ OneClaimMissing
  BY TypeInit DEF ClaimIInv
<1>1. ASSUME NEW l \in Logins PROVE ClaimsOf(l) /\ Missing(l) = {}
  <2>1. stage[l] = "idle" /\ lost = {} /\ claim = [k \in Keys |-> Nobody]
    BY DEF Init
  <2> QED BY <2>1, SsoAssumption DEF ClaimsOf, Missing, Due, Held
<1> QED BY <1>1 DEF OneClaimMissing

(* The two together.                                                       *)
LEMMA ClaimStep == ClaimIInv /\ [Next]_vars => ClaimIInv'
<1>1. ClaimIInv /\ Next => ClaimIInv'
  BY LoginStepClaims, EnvironmentClaims DEF Next
<1>2. ClaimIInv /\ UNCHANGED vars => ClaimIInv'
  BY TypeStep, QuietClaims DEF vars, faults, ClaimIInv
<1> QED BY <1>1, <1>2

(* A login that lost a claim it still had to look at is neither let in nor *)
(* taken for shut out: the looks after the waits and the writes (177-184,  *)
(* 224-230) find every such loss, whichever key it was.                    *)
THEOREM SsoSettled == Spec => []SettledUnderClaims
<1>1. ClaimIInv => SettledUnderClaims
  BY DEF ClaimIInv, ClaimsOf, SettledUnderClaims, SsoTypeOK, TypeIInv, Outcomes
<1> QED BY <1>1, ClaimInit, ClaimStep, PTL DEF Spec
-----------------------------------------------------------------------------
(* Memberships and sessions, while no more than one claim is lost.  Who is *)
(* about to get a session is a member and has the account to itself.       *)
TokensMean ==
    losses <= 1 => \A l \in Logins : stage[l] = "tokens" => member[req[l].account] # "none"

MemberIInv ==
    /\ ClaimIInv
    /\ AccountsHaveOneSubject /\ LinkFresh
    /\ TokensMean
    /\ SessionMeansMember

(* No two logins are past the claim on the same account.  Both would have  *)
(* to hold the claim on the account and that on its one subject: if they   *)
(* do not, then two claims have been lost, of different kinds.             *)
LEMMA AccountExclusive ==
    ASSUME ClaimIInv, AccountsHaveOneSubject, losses <= 1, NEW l \in Logins, NEW k \in Logins,
           stage[l] \in {"commit", "tokens", "delete", "revoke"},
           stage[k] \in {"commit", "tokens", "delete", "revoke"},
           req[l].account = req[k].account
    PROVE  k = l
<1> DEFINE p == <<"subject", req[l].who>>
           q == AccountKey(req[l].account)
<1>1. \A m \in {l, k} : /\ req[m].who \in Subjects /\ req[m].account \in accounts
                        /\ req[m].account = link[req[m].who]
  BY DEF ClaimIInv, TypeIInv, StageKnows, Knows, AtAccount, Running
<1>2. Nobody \notin accounts
  BY SsoAssumption DEF ClaimIInv, TypeIInv, SsoTypeOK
<1>3. req[l].who = req[k].who
  BY <1>1, <1>2 DEF AccountsHaveOneSubject
<1>4. \A m \in {l, k} : p \in Due(m) /\ q \in Due(m)
  BY <1>3 DEF Due, IdentityKeys
<1>5. p[1] = "subject" /\ q[1] = "account"
  BY DEF AccountKey
<1> HIDE DEF p, q
<1> SUFFICES ASSUME k # l PROVE FALSE
  OBVIOUS
<1>6. PICK m \in {l, k} : p \in Missing(m)
  BY <1>4 DEF Missing, Held
<1>7. PICK n \in {l, k} : q \in Missing(n)
  BY <1>4 DEF Missing, Held
<1> QED BY <1>5, <1>6, <1>7 DEF ClaimIInv, OneClaimMissing

(* A revocation under way or cut off.                                      *)
Revoking(a) == \E l \in Logins : stage[l] \in {"revoke", "torn"} /\ req[l].account = a

(* A step that leaves both stores alone, and no revocation unfinished that *)
(* was not cut off.                                                        *)
LEMMA StoresAlone ==
    ASSUME MemberIInv, losses' <= 1 => losses <= 1, UNCHANGED <<member, session>>,
           \A k \in Logins : stage'[k] = "tokens" =>
               \/ stage[k] = "tokens" /\ req'[k].account = req[k].account
               \/ member[req'[k].account] # "none",
           \A k \in Logins : stage[k] \in {"revoke", "torn"} =>
               stage'[k] \in {"revoke", "torn"} /\ req'[k].account = req[k].account
    PROVE  TokensMean' /\ SessionMeansMember'
BY DEF MemberIInv, TokensMean, SessionMeansMember

(* The steps of a login: the commit of a membership, the issue of tokens   *)
(* and the two writes of a revocation are the ones that concern a store.   *)
LEMMA LoginStepMembers ==
    ASSUME MemberIInv, NEW l \in Logins, LoginStep(l)
    PROVE  TokensMean' /\ SessionMeansMember'
<1>t. ClaimIInv /\ TypeIInv /\ SsoTypeOK /\ Knows(l) /\ TokensMean /\ SessionMeansMember
      /\ AccountsHaveOneSubject
  BY DEF MemberIInv, ClaimIInv, TypeIInv, StageKnows
<1>f. losses' = losses
  BY DEF LoginStep, GetIdentity, Resolve, Register, Link, LinkRaises, ClaimAccount, faults,
         CommitMember, IssueTokens, ShutClaim, ShutAccount, DeleteMember, RevokeTokens
<1>k. \A k \in Logins \ {l} : stage'[k] = stage[k] /\ req'[k] = req[k]
  BY <1>t DEF LoginStep, GetIdentity, Resolve, Register, Link, LinkRaises, ClaimAccount,
         CommitMember, IssueTokens, ShutClaim, ShutAccount, DeleteMember, RevokeTokens,
         Leave, Stop, SsoTypeOK
<1>m. stage[l] \in AtAccount => req[l].account \in Mails
  BY <1>t DEF Knows, SsoTypeOK
<1>1. CASE GetIdentity(l) \/ Resolve(l) \/ Register(l) \/ Link(l) \/ LinkRaises(l)
           \/ ClaimAccount(l) \/ ShutClaim(l) \/ ShutAccount(l)
  <2>1. UNCHANGED <<member, session>> /\ stage[l] \notin {"tokens", "revoke", "torn"}
    BY <1>1 DEF GetIdentity, Resolve, Register, Link, LinkRaises, ClaimAccount, ShutClaim,
                ShutAccount, store
  <2>2. stage'[l] # "tokens"
    BY <1>1, <1>t DEF GetIdentity, Resolve, Register, Link, LinkRaises, ClaimAccount, ShutClaim,
                ShutAccount, SsoTypeOK, Leave, Stop, Debris
  <2> QED BY <2>1, <2>2, <1>f, <1>k, <1>t, StoresAlone
<1>2. CASE CommitMember(l)
  <2>1. /\ stage[l] = "commit" /\ member' = [member EXCEPT ![req[l].account] = Role(l)]
        /\ session' = session /\ stage'[l] \in {"tokens", "refused"}
        /\ stage'[l] = "tokens" => req' = req
    BY <1>2, <1>t DEF CommitMember, Leave, SsoTypeOK
  <2>2. member'[req[l].account] # "none"
        /\ \A a \in Mails : member[a] # "none" => member'[a] # "none"
    BY <2>1, <1>m, <1>t DEF Role, AtAccount, SsoTypeOK
  <2>3. TokensMean'
    <3> SUFFICES ASSUME losses <= 1, NEW k \in Logins, stage'[k] = "tokens"
                 PROVE  member'[req'[k].account] # "none"
      BY <1>f DEF TokensMean
    <3>1. CASE k = l
      BY <3>1, <2>1, <2>2
    <3>2. CASE k # l
      <4>1. stage[k] = "tokens" /\ req'[k] = req[k] /\ req[k].account \in Mails
        BY <3>2, <1>k, <1>t DEF TypeIInv, StageKnows, Knows, AtAccount, SsoTypeOK
      <4> QED BY <4>1, <2>2, <1>t DEF TokensMean
    <3> QED BY <3>1, <3>2
  <2>4. SessionMeansMember'
    <3> SUFFICES ASSUME losses <= 1, NEW a \in session, member'[a] = "none"
                 PROVE  Revoking(a)'
      BY <1>f, <2>1 DEF SessionMeansMember, Revoking
    <3>1. PICK k \in Logins : stage[k] \in {"revoke", "torn"} /\ req[k].account = a
      BY <2>2, <1>t DEF SessionMeansMember, SsoTypeOK
    <3>2. k # l
      BY <3>1, <2>1
    <3> QED BY <3>1, <3>2, <1>k DEF Revoking
  <2> QED BY <2>3, <2>4
<1>3. CASE IssueTokens(l)
  <2>1. /\ stage[l] = "tokens" /\ member' = member /\ stage'[l] = "in"
        /\ session' = session \cup {req[l].account}
    BY <1>3, <1>t DEF IssueTokens, Leave, SsoTypeOK
  <2>2. TokensMean'
    BY <2>1, <1>f, <1>k, <1>t DEF TokensMean
  <2>3. SessionMeansMember'
    <3> SUFFICES ASSUME losses <= 1, NEW a \in session, member[a] = "none"
                 PROVE  Revoking(a)'
      BY <1>f, <1>t, <2>1 DEF SessionMeansMember, Revoking, TokensMean
    <3>1. PICK k \in Logins : stage[k] \in {"revoke", "torn"} /\ req[k].account = a
      BY <1>t DEF SessionMeansMember
    <3> QED BY <3>1, <2>1, <1>k DEF Revoking
  <2> QED BY <2>2, <2>3
<1>4. CASE DeleteMember(l)
  <2>1. /\ stage[l] = "delete" /\ member' = [member EXCEPT ![req[l].account] = "none"]
        /\ session' = session /\ stage'[l] = "revoke" /\ req' = req
    BY <1>4, <1>t DEF DeleteMember, SsoTypeOK
  <2>2. TokensMean'
    <3> SUFFICES ASSUME losses <= 1, NEW k \in Logins, stage'[k] = "tokens"
                 PROVE  member'[req'[k].account] # "none"
      BY <1>f DEF TokensMean
    <3>1. k # l /\ stage[k] = "tokens"
      BY <2>1, <1>k
    <3>2. req[k].account # req[l].account
      BY <3>1, <2>1, <1>t, AccountExclusive
    <3> QED BY <3>1, <3>2, <2>1, <1>t DEF TokensMean, SsoTypeOK
  <2>3. SessionMeansMember'
    <3> SUFFICES ASSUME losses <= 1, NEW a \in session, member'[a] = "none"
                 PROVE  Revoking(a)'
      BY <1>f, <2>1 DEF SessionMeansMember, Revoking
    <3>1. CASE a = req[l].account
      BY <3>1, <2>1 DEF Revoking
    <3>2. CASE a # req[l].account
      <4>1. PICK k \in Logins : stage[k] \in {"revoke", "torn"} /\ req[k].account = a
        BY <3>2, <2>1, <1>t DEF SessionMeansMember, SsoTypeOK
      <4> QED BY <4>1, <3>2, <1>k DEF Revoking
    <3> QED BY <3>1, <3>2
  <2> QED BY <2>2, <2>3
<1>5. CASE RevokeTokens(l)
  <2>1. /\ stage[l] = "revoke" /\ member' = member /\ session' = session \ {req[l].account}
        /\ stage'[l] \in {"out", "refused"}
    BY <1>5, <1>t DEF RevokeTokens, Leave, SsoTypeOK
  <2>2. TokensMean'
    BY <2>1, <1>f, <1>k, <1>t DEF TokensMean
  <2>3. SessionMeansMember'
    <3> SUFFICES ASSUME losses <= 1, NEW a \in session \ {req[l].account}, member[a] = "none"
                 PROVE  Revoking(a)'
      BY <1>f, <2>1 DEF SessionMeansMember, Revoking
    <3>1. PICK k \in Logins : stage[k] \in {"revoke", "torn"} /\ req[k].account = a
      BY <1>t DEF SessionMeansMember
    <3>2. k # l
      BY <3>1
    <3> QED BY <3>1, <3>2, <1>k DEF Revoking
  <2> QED BY <2>2, <2>3
<1> QED BY <1>1, <1>2, <1>3, <1>4, <1>5 DEF LoginStep

(* Nothing else writes to Dify's tables.                                   *)
LEMMA EnvironmentWrites ==
    ASSUME Environment
    PROVE  UNCHANGED store /\ (losses' = losses \/ losses' = losses + 1)
<1>1. ASSUME NEW l \in Logins, NEW K \in SUBSET Held(l), LoseClaim(l, K)
      PROVE  UNCHANGED store /\ losses' = losses + 1
  BY <1>1 DEF LoseClaim
<1>2. CASE InBrowsers
  BY <1>2, BrowsersAlone DEF faults
<1>3. CASE \/ \E s \in Subjects, entry \in Entries : Edit(s, entry)
           \/ \E l \in Logins : Fail(l) \/ Crash(l) \/ LeasesRunOut(l)
  BY <1>3 DEF Edit, Fail, Crash, LeasesRunOut, faults
<1>4. ASSUME NEW l \in Logins, NEW b \in Browsers, NEW n \in Starts, NEW s \in Subjects,
             Callback(l, b, n, s)
      PROVE  UNCHANGED store /\ losses' = losses
  BY <1>4 DEF Callback, faults
<1> QED BY <1>1, <1>2, <1>3, <1>4 DEF Environment, InBrowsers

(* A cut revocation is remembered.                                         *)
LEMMA EnvironmentMembers ==
    ASSUME MemberIInv, Environment PROVE TokensMean' /\ SessionMeansMember'
<1>t. ClaimIInv /\ TypeIInv /\ SsoTypeOK
  BY DEF MemberIInv, ClaimIInv, TypeIInv
<1>n. losses \in Nat
  BY <1>t, SsoAssumption DEF SsoTypeOK
<1>1. UNCHANGED <<member, session>> /\ (losses' <= 1 => losses <= 1)
  BY <1>n, EnvironmentWrites DEF store
<1>s. UNCHANGED <<stage, req>> => TokensMean' /\ SessionMeansMember'
  BY <1>1, StoresAlone
<1>o. ASSUME NEW l \in Logins, stage[l] \notin {"revoke", "torn"}, stage'[l] # "tokens",
             \A k \in Logins \ {l} : stage'[k] = stage[k] /\ req'[k] = req[k]
      PROVE  TokensMean' /\ SessionMeansMember'
  BY <1>o, <1>1, StoresAlone
<1>2. ASSUME NEW l \in Logins, NEW b \in Browsers, NEW n \in Starts, NEW s \in Subjects,
             Callback(l, b, n, s)
      PROVE  TokensMean' /\ SessionMeansMember'
  <2>1. /\ stage[l] \notin {"revoke", "torn"} /\ stage'[l] # "tokens"
        /\ \A k \in Logins \ {l} : stage'[k] = stage[k] /\ req'[k] = req[k]
    BY <1>2, <1>t, CallbackMoves
  <2> QED BY <2>1, <1>o
<1>3. ASSUME NEW l \in Logins, Fail(l) \/ Crash(l) PROVE TokensMean' /\ SessionMeansMember'
  <2>1. claim' \in [Keys -> Logins \cup {Nobody}] /\ Stop(l)
    BY <1>3, <1>t, ReleasedTypes DEF Fail, Crash, SsoTypeOK
  <2>2. PICK q \in Request : /\ Move(l, Debris(l), q)
                             /\ stage[l] = "revoke" => q.account = req[l].account
    BY <2>1, <1>t, StopTypes
  <2>3. stage'[l] = Debris(l) /\ req'[l] = q
        /\ \A k \in Logins \ {l} : stage'[k] = stage[k] /\ req'[k] = req[k]
    BY <2>2, <1>t, MoveTypes
  <2>4. stage[l] # "torn" /\ Debris(l) # "tokens" /\ (stage[l] = "revoke" => Debris(l) = "torn")
    BY <2>1 DEF Stop, Running, Debris
  <2> QED BY <2>2, <2>3, <2>4, <1>1, StoresAlone
<1>4. CASE \/ InBrowsers
           \/ \E s \in Subjects, entry \in Entries : Edit(s, entry)
           \/ \E l \in Logins : LeasesRunOut(l) \/ \E K \in SUBSET Held(l) : LoseClaim(l, K)
  BY <1>4, <1>s, BrowsersAlone DEF Edit, LeasesRunOut, LoseClaim
<1> QED BY <1>2, <1>3, <1>4 DEF Environment, InBrowsers

(* The two together.                                                       *)
LEMMA MemberStep == MemberIInv /\ [Next]_vars => MemberIInv'
<1>1. MemberIInv /\ Next => TokensMean' /\ SessionMeansMember'
  BY LoginStepMembers, EnvironmentMembers DEF Next
<1>2. MemberIInv /\ UNCHANGED vars => TokensMean' /\ SessionMeansMember'
  BY DEF vars, store, faults, MemberIInv, TokensMean, SessionMeansMember
<1> QED BY <1>1, <1>2, ClaimStep, AccountsStep DEF MemberIInv, ClaimIInv, AccountsIInv

(* While no more than one claim is lost, whoever has a session is a        *)
(* member, for any number of logins with and without the role: the claims  *)
(* on an account and on its subject keep the two writes of one login from  *)
(* being split by those of another, and either of them is enough.          *)
THEOREM SsoMembers == Spec => []SessionMeansMember
<1>1. Init => MemberIInv
  BY ClaimInit, AccountsInit DEF Init, MemberIInv, AccountsIInv, TokensMean, SessionMeansMember
<1>2. MemberIInv => SessionMeansMember
  BY DEF MemberIInv
<1> QED BY <1>1, <1>2, MemberStep, PTL DEF Spec
-----------------------------------------------------------------------------
(* What a login does is what its token says: from the token on, those with *)
(* the role are on the way in and the others on the way out.               *)
TokenKept ==
    \A l \in Logins :
        /\ stage[l] \in {"claim", "register", "link", "account", "commit", "tokens"}
               => "dify-user" \in req[l].roles
        /\ stage[l] \in {"shut_claim", "shut_account", "delete", "revoke"}
               => "dify-user" \notin req[l].roles

(* A login decides between the two once, with its token.                   *)
LEMMA LoginStepToken ==
    ASSUME TypeIInv, TokenKept, NEW l \in Logins, LoginStep(l) PROVE TokenKept'
<1>t. SsoTypeOK /\ req[l] \in Request
  BY DEF TypeIInv, SsoTypeOK
<1>k. \A k \in Logins \ {l} : stage'[k] = stage[k] /\ req'[k] = req[k]
  BY <1>t DEF LoginStep, GetIdentity, Resolve, Register, Link, LinkRaises, ClaimAccount,
         CommitMember, IssueTokens, ShutClaim, ShutAccount, DeleteMember, RevokeTokens,
         Leave, Stop, SsoTypeOK
<1>e. stage'[l] \in Outcomes => TokenKept'
  BY <1>k DEF TokenKept, Outcomes
<1>l. ASSUME NEW o \in Outcomes, Leave(l, o) PROVE TokenKept'
  BY <1>l, <1>e, <1>t DEF Leave, SsoTypeOK
<1>o. "in" \in Outcomes /\ "out" \in Outcomes /\ "refused" \in Outcomes
  BY DEF Outcomes
<1>r. ASSUME req'[l].roles = req[l].roles, NEW point, stage' = [stage EXCEPT ![l] = point],
             \/ /\ stage[l] \in {"claim", "register", "link", "account", "commit"}
                /\ point \in {"register", "link", "account", "commit", "tokens"}
             \/ /\ stage[l] \in {"shut_claim", "shut_account", "delete"}
                /\ point \in {"shut_account", "delete", "revoke"}
      PROVE  TokenKept'
  BY <1>r, <1>k, <1>t DEF TokenKept, SsoTypeOK
<1>a. ASSUME NEW account, req' = [req EXCEPT ![l].account = account]
      PROVE  req'[l].roles = req[l].roles
  BY <1>a, <1>t DEF SsoTypeOK, Request
<1>1. CASE GetIdentity(l)
  <2> DEFINE entry == directory[req[l].who]
             q == [req[l] EXCEPT !.mail = entry.mail, !.roles = entry.roles]
  <2>1. CASE settings.guarded /\ entry.mail = OwnerMail
    BY <1>1, <2>1, <1>l, <1>o DEF GetIdentity
  <2>2. CASE ~(settings.guarded /\ entry.mail = OwnerMail)
    <3>1. /\ stage'[l] = IF "dify-user" \in entry.roles THEN "claim" ELSE "shut_claim"
          /\ req'[l] = q
      BY <1>1, <2>2, <1>t DEF GetIdentity, SsoTypeOK
    <3>2. q.roles = entry.roles
      BY <1>t DEF Request
    <3> HIDE DEF q
    <3> QED BY <3>1, <3>2, <1>k DEF TokenKept
  <2> QED BY <2>1, <2>2
<1>2. CASE Resolve(l)
  <2>1. CASE ~MayResolve(l)
    BY <1>2, <2>1, <1>l, <1>o DEF Resolve
  <2>2. CASE MayResolve(l)
    BY <1>2, <2>2, <1>a, <1>r DEF Resolve
  <2> QED BY <2>1, <2>2
<1>3. CASE Register(l)
  BY <1>3, <1>l, <1>o, <1>r DEF Register
<1>4. CASE Link(l)
  BY <1>4, <1>a, <1>r DEF Link
<1>5. CASE LinkRaises(l)
  BY <1>5, <1>e, <1>t DEF LinkRaises, Stop, Debris, Outcomes, SsoTypeOK
<1>6. CASE ClaimAccount(l) \/ CommitMember(l) \/ ShutAccount(l) \/ DeleteMember(l)
  BY <1>6, <1>l, <1>o, <1>r DEF ClaimAccount, CommitMember, ShutAccount, DeleteMember
<1>7. CASE ShutClaim(l)
  BY <1>7, <1>l, <1>o, <1>a, <1>r DEF ShutClaim
<1>8. CASE IssueTokens(l) \/ RevokeTokens(l)
  BY <1>8, <1>l, <1>o DEF IssueTokens, RevokeTokens
<1> QED BY <1>1, <1>2, <1>3, <1>4, <1>5, <1>6, <1>7, <1>8 DEF LoginStep

(* Nobody else decides.                                                    *)
LEMMA EnvironmentToken ==
    ASSUME TypeIInv, TokenKept, Environment PROVE TokenKept'
<1>t. SsoTypeOK
  BY DEF TypeIInv
<1>1. ASSUME NEW l \in Logins, NEW b \in Browsers, NEW n \in Starts, NEW s \in Subjects,
             Callback(l, b, n, s)
      PROVE  TokenKept'
  BY <1>1, <1>t, CallbackMoves DEF TokenKept
<1>2. ASSUME NEW l \in Logins, Fail(l) \/ Crash(l) PROVE TokenKept'
  <2>1. stage'[l] \in Outcomes
        /\ \A k \in Logins \ {l} : stage'[k] = stage[k] /\ req'[k] = req[k]
    BY <1>2, <1>t DEF Fail, Crash, Stop, Debris, Outcomes, SsoTypeOK
  <2> QED BY <2>1 DEF TokenKept, Outcomes
<1>3. CASE \/ InBrowsers
           \/ \E s \in Subjects, entry \in Entries : Edit(s, entry)
           \/ \E l \in Logins : LeasesRunOut(l) \/ \E K \in SUBSET Held(l) : LoseClaim(l, K)
  <2>1. UNCHANGED <<stage, req>>
    BY <1>3, BrowsersAlone DEF Edit, LeasesRunOut, LoseClaim
  <2> QED BY <2>1 DEF TokenKept
<1> QED BY <1>1, <1>2, <1>3 DEF Environment, InBrowsers

(* Access is given and taken as tokens say, and to the accounts of their   *)
(* subjects, for any number of logins and edits and whatever claims are    *)
(* lost: a link, once made, is not changed, and the account is read under  *)
(* it.                                                                     *)
THEOREM SsoFollowsTokens == Spec => AccessFollowsToken
<1> DEFINE Follows(l, a) ==
        /\ req[l].who \in Subjects /\ link[req[l].who] = a
        /\ IF "dify-user" \in req[l].roles
           THEN member'[a] \in {member[a], Role(l)} /\ (a \in session => a \in session')
           ELSE member'[a] \in {member[a], "none"} /\ (a \in session' => a \in session)
<1>1. TypeIInv /\ TokenKept /\ [Next]_vars => (TypeIInv /\ TokenKept)'
  <2>1. TypeIInv /\ TokenKept /\ Next => TokenKept'
    BY LoginStepToken, EnvironmentToken DEF Next
  <2>2. TypeIInv /\ TokenKept /\ UNCHANGED vars => TokenKept'
    BY DEF vars, TokenKept
  <2> QED BY <2>1, <2>2, TypeStep
<1>2. ASSUME TypeIInv, TokenKept, NEW l \in Logins, LoginStep(l)
      PROVE  /\ \A k \in Logins \ {l} : stage'[k] = stage[k]
             /\ stage'[l] # stage[l]
             /\ \A a \in Mails :
                  (member'[a] # member[a] \/ (a \in session) # (a \in session')) => Follows(l, a)
  <2>t. SsoTypeOK /\ Knows(l)
    BY <1>2 DEF TypeIInv, StageKnows
  <2>1. \E point : point # stage[l] /\ stage' = [stage EXCEPT ![l] = point]
    BY <1>2 DEF LoginStep, GetIdentity, Resolve, Register, Link, LinkRaises, ClaimAccount,
         CommitMember, IssueTokens, ShutClaim, ShutAccount, DeleteMember, RevokeTokens,
         Leave, Stop, Debris
  <2>2. stage'[l] # stage[l] /\ \A k \in Logins \ {l} : stage'[k] = stage[k]
    BY <2>1, <2>t DEF SsoTypeOK
  <2>3. stage[l] \in {"commit", "tokens", "delete", "revoke"} =>
           req[l].who \in Subjects /\ link[req[l].who] = req[l].account
    BY <2>t DEF Knows, AtAccount, Running
  <2>4. ASSUME NEW a \in Mails, member'[a] # member[a] \/ (a \in session) # (a \in session')
        PROVE  Follows(l, a)
    <3>1. CASE GetIdentity(l) \/ Resolve(l) \/ Register(l) \/ Link(l) \/ LinkRaises(l)
               \/ ClaimAccount(l) \/ ShutClaim(l) \/ ShutAccount(l)
      <4>1. UNCHANGED <<member, session>>
        BY <3>1 DEF GetIdentity, Resolve, Register, Link, LinkRaises, ClaimAccount, ShutClaim,
                    ShutAccount, store
      <4> QED BY <4>1, <2>4
    <3>2. CASE CommitMember(l)
      BY <3>2, <2>3, <2>4, <2>t, <1>2 DEF CommitMember, TokenKept, SsoTypeOK
    <3>3. CASE IssueTokens(l)
      BY <3>3, <2>3, <2>4, <2>t, <1>2 DEF IssueTokens, TokenKept, SsoTypeOK
    <3>4. CASE DeleteMember(l)
      BY <3>4, <2>3, <2>4, <2>t, <1>2 DEF DeleteMember, TokenKept, SsoTypeOK
    <3>5. CASE RevokeTokens(l)
      BY <3>5, <2>3, <2>4, <2>t, <1>2 DEF RevokeTokens, TokenKept, SsoTypeOK
    <3> QED BY <1>2, <3>1, <3>2, <3>3, <3>4, <3>5 DEF LoginStep
  <2> QED BY <2>2, <2>4
<1>3. TypeIInv /\ TokenKept /\ [Next]_vars =>
        [/\ stage' = stage => UNCHANGED <<member, session>>
         /\ \A l \in Logins, a \in Mails :
              (stage'[l] # stage[l] /\ (member'[a] # member[a] \/ (a \in session) # (a \in session')))
                 => Follows(l, a)]_vars
  <2> HIDE DEF Follows
  <2> SUFFICES ASSUME TypeIInv, TokenKept, Next
               PROVE  /\ stage' = stage => UNCHANGED <<member, session>>
                      /\ \A l \in Logins, a \in Mails :
                           (/\ stage'[l] # stage[l]
                            /\ member'[a] # member[a] \/ (a \in session) # (a \in session'))
                              => Follows(l, a)
    OBVIOUS
  <2>1. CASE Environment
    <3>1. UNCHANGED <<member, session>>
      BY <2>1, EnvironmentWrites DEF store
    <3> QED BY <3>1
  <2>2. ASSUME NEW l \in Logins, LoginStep(l)
        PROVE  /\ stage' # stage
               /\ \A k \in Logins, a \in Mails :
                    (/\ stage'[k] # stage[k]
                     /\ member'[a] # member[a] \/ (a \in session) # (a \in session'))
                       => Follows(k, a)
    BY <2>2, <1>2
  <2> QED BY <2>1, <2>2 DEF Next
<1>4. Init => TokenKept
  BY DEF Init, TokenKept
<1> QED BY <1>1, <1>3, <1>4, TypeInit, PTL DEF Spec, AccessFollowsToken
-----------------------------------------------------------------------------
(* A login is not waiting, or not any more, for somebody's claims.         *)
MayGo(l) == stage[l] \in Running /\ Owns(Nobody, Awaited(l))

(* A request that is over still has claims, until their leases run out.    *)
LeaseLeft(l) == stage[l] \in Outcomes /\ Held(l) # {}

(* Whoever holds a claim somebody waits for may go on itself, waits for an *)
(* account, or is over.                                                    *)
LEMMA HolderMoves ==
    ASSUME ClaimIInv, NEW k \in Keys, claim[k] # Nobody
    PROVE  \E l \in Logins :
              \/ LeaseLeft(l)
              \/ MayGo(l)
              \/ stage[l] \in {"account", "shut_account"} /\ k[1] # "account"
<1>1. PICK l \in Logins : claim[k] = l
  BY DEF ClaimIInv, TypeIInv, SsoTypeOK
<1>2. k \in Held(l)
  BY <1>1 DEF Held
<1>3. CASE stage[l] \in Outcomes
  BY <1>2, <1>3 DEF LeaseLeft
<1>4. CASE stage[l] \notin Outcomes
  <2>1. k \in Due(l)
    BY <1>2, <1>4 DEF ClaimIInv, ClaimsOf
  <2>2. CASE stage[l] \in {"account", "shut_account"}
    BY <2>1, <2>2 DEF Due, IdentityKeys
  <2>3. CASE stage[l] \notin {"account", "shut_account"}
    <3>1. stage[l] \in {"register", "link", "commit", "tokens", "delete", "revoke"}
      BY <2>1, <2>3 DEF Due
    <3>2. stage[l] \in Running /\ Awaited(l) = {}
      BY <3>1 DEF Running, Awaited
    <3> QED BY <3>2 DEF MayGo, Owns
  <2> QED BY <2>2, <2>3
<1> QED BY <1>3, <1>4

(* Logins never wait for one another in a circle, whatever claims are      *)
(* lost and whichever pods are killed: as long as one runs, one of them    *)
(* may go on, or a lease of a request that is over runs out.  The identity *)
(* is claimed before the account by both kinds of login (203).             *)
THEOREM NobodyWaitsInCircles ==
    Spec => []((\E l \in Logins : stage[l] \in Running) =>
                  \E l \in Logins : MayGo(l) \/ LeaseLeft(l))
<1>1. ASSUME ClaimIInv, NEW l \in Logins, stage[l] \in Running
      PROVE  \E m \in Logins : MayGo(m) \/ LeaseLeft(m)
  <2>k. Knows(l) /\ SsoTypeOK
    BY <1>1 DEF ClaimIInv, TypeIInv, StageKnows
  <2>a. ASSUME NEW m \in Logins, stage[m] \in {"account", "shut_account"}
        PROVE  \E n \in Logins : MayGo(n) \/ LeaseLeft(n)
    <3> DEFINE key == AccountKey(req[m].account)
    <3>1. stage[m] \in Running /\ Awaited(m) = {key} /\ key[1] = "account"
      BY <2>a DEF Running, Awaited, AccountKey
    <3>2. key \in Keys
      BY <1>1, <2>a, KeysOf DEF ClaimIInv, TypeIInv, StageKnows, Knows, AtAccount, SsoTypeOK
    <3> HIDE DEF key
    <3>3. CASE claim[key] = Nobody
      BY <3>1, <3>3 DEF MayGo, Owns
    <3>4. CASE claim[key] # Nobody
      BY <1>1, <3>1, <3>2, <3>4, HolderMoves
    <3> QED BY <3>3, <3>4
  <2>1. CASE stage[l] \in {"account", "shut_account"}
    BY <2>1, <2>a
  <2>2. CASE stage[l] \in {"claim", "shut_claim"}
    <3>1. Awaited(l) = IdentityKeys(l) /\ IdentityKeys(l) \in SUBSET Keys
      BY <2>2, <2>k, KeysOf DEF Awaited, Knows, Running, AtIdentity
    <3>2. CASE Owns(Nobody, IdentityKeys(l))
      BY <1>1, <3>1, <3>2 DEF MayGo
    <3>3. CASE ~Owns(Nobody, IdentityKeys(l))
      <4>1. PICK key \in IdentityKeys(l) : claim[key] # Nobody
        BY <3>3 DEF Owns
      <4>2. PICK m \in Logins : \/ LeaseLeft(m) \/ MayGo(m)
                                \/ stage[m] \in {"account", "shut_account"}
        BY <1>1, <3>1, <4>1, HolderMoves
      <4> QED BY <4>2, <2>a
    <3> QED BY <3>2, <3>3
  <2>3. CASE stage[l] \notin {"account", "shut_account", "claim", "shut_claim"}
    BY <1>1, <2>3 DEF MayGo, Awaited, Owns
  <2> QED BY <2>1, <2>2, <2>3
<1>2. ClaimIInv => ((\E l \in Logins : stage[l] \in Running) =>
                      \E l \in Logins : MayGo(l) \/ LeaseLeft(l))
  BY <1>1
<1> QED BY <1>2, ClaimInit, ClaimStep, PTL DEF Spec
-----------------------------------------------------------------------------
(* How far a login has come, with or without the role.                     *)
Progress(s) == CASE s = "idle"                          -> 0
                 [] s = "code"                          -> 1
                 [] s \in {"claim", "shut_claim"}       -> 2
                 [] s = "register"                      -> 3
                 [] s = "link"                          -> 4
                 [] s \in {"account", "shut_account"}   -> 5
                 [] s \in {"commit", "delete"}          -> 6
                 [] s \in {"tokens", "revoke"}          -> 7
                 [] s \in Outcomes                      -> 8

(* A login's own steps bring it further, at most eight times; nothing      *)
(* brings it back, and an outcome is final.                                *)
Forward(l) == stage'[l] = stage[l] \/ Progress(stage[l]) < Progress(stage'[l])

(* Each login goes forward only, and each of its own steps does: no step   *)
(* is tried again, so that with NobodyWaitsInCircles it ends once every    *)
(* call returns or raises.                                                 *)
THEOREM LoginsGoForward ==
    Spec => [][/\ \A l \in Logins : Forward(l)
               /\ \A l \in Logins : LoginStep(l) => stage'[l] # stage[l]]_vars
<1>1. ASSUME SsoTypeOK, NEW l \in Logins, LoginStep(l)
      PROVE  /\ stage[l] \in Running /\ Progress(stage[l]) < Progress(stage'[l])
             /\ \A k \in Logins \ {l} : stage'[k] = stage[k]
  <2> DEFINE To(points) == \E q \in points : stage' = [stage EXCEPT ![l] = q]
  <2>1. /\ Progress("code") = 1 /\ Progress("claim") = 2 /\ Progress("shut_claim") = 2
        /\ Progress("register") = 3 /\ Progress("link") = 4 /\ Progress("account") = 5
        /\ Progress("shut_account") = 5 /\ Progress("commit") = 6 /\ Progress("delete") = 6
        /\ Progress("tokens") = 7 /\ Progress("revoke") = 7
        /\ \A q \in {"in", "out", "refused", "orphaned"} : Progress(q) = 8
    BY DEF Progress, Outcomes
  <2>2. ASSUME stage[l] \in Running, NEW q, stage' = [stage EXCEPT ![l] = q],
               Progress(stage[l]) < Progress(q)
        PROVE  /\ stage[l] \in Running /\ Progress(stage[l]) < Progress(stage'[l])
               /\ \A k \in Logins \ {l} : stage'[k] = stage[k]
    BY <1>1, <2>2 DEF SsoTypeOK
  <2>3. CASE GetIdentity(l)
    <3>1. stage[l] = "code" /\ stage[l] \in Running /\ To({"claim", "shut_claim", "refused"})
      BY <2>3 DEF GetIdentity, Leave, Running
    <3>2. \A q \in {"claim", "shut_claim", "refused"} : Progress(stage[l]) < Progress(q)
      BY <2>1, <3>1
    <3> QED BY <2>2, <3>1, <3>2
  <2>4. CASE Resolve(l)
    <3>1. stage[l] = "claim" /\ stage[l] \in Running /\ To({"register", "account", "refused"})
      BY <2>4 DEF Resolve, Leave, Running
    <3>2. \A q \in {"register", "account", "refused"} : Progress(stage[l]) < Progress(q)
      BY <2>1, <3>1
    <3> QED BY <2>2, <3>1, <3>2
  <2>5. CASE Register(l)
    <3>1. stage[l] = "register" /\ stage[l] \in Running /\ To({"link", "refused"})
      BY <2>5 DEF Register, Leave, Running
    <3>2. \A q \in {"link", "refused"} : Progress(stage[l]) < Progress(q)
      BY <2>1, <3>1
    <3> QED BY <2>2, <3>1, <3>2
  <2>6. CASE Link(l)
    <3>1. stage[l] = "link" /\ stage[l] \in Running /\ To({"account"})
      BY <2>6 DEF Link, Running
    <3>2. \A q \in {"account"} : Progress(stage[l]) < Progress(q)
      BY <2>1, <3>1
    <3> QED BY <2>2, <3>1, <3>2
  <2>7. CASE LinkRaises(l)
    <3>1. stage[l] = "link" /\ stage[l] \in Running /\ To({"orphaned"})
      BY <2>7 DEF LinkRaises, Stop, Debris, Running
    <3>2. \A q \in {"orphaned"} : Progress(stage[l]) < Progress(q)
      BY <2>1, <3>1
    <3> QED BY <2>2, <3>1, <3>2
  <2>8. CASE ClaimAccount(l)
    <3>1. stage[l] = "account" /\ stage[l] \in Running /\ To({"commit", "refused"})
      BY <2>8 DEF ClaimAccount, Leave, Running
    <3>2. \A q \in {"commit", "refused"} : Progress(stage[l]) < Progress(q)
      BY <2>1, <3>1
    <3> QED BY <2>2, <3>1, <3>2
  <2>9. CASE CommitMember(l)
    <3>1. stage[l] = "commit" /\ stage[l] \in Running /\ To({"tokens", "refused"})
      BY <2>9 DEF CommitMember, Leave, Running
    <3>2. \A q \in {"tokens", "refused"} : Progress(stage[l]) < Progress(q)
      BY <2>1, <3>1
    <3> QED BY <2>2, <3>1, <3>2
  <2>10. CASE IssueTokens(l)
    <3>1. stage[l] = "tokens" /\ stage[l] \in Running /\ To({"in"})
      BY <2>10 DEF IssueTokens, Leave, Running
    <3>2. \A q \in {"in"} : Progress(stage[l]) < Progress(q)
      BY <2>1, <3>1
    <3> QED BY <2>2, <3>1, <3>2
  <2>11. CASE ShutClaim(l)
    <3>1. stage[l] = "shut_claim" /\ stage[l] \in Running /\ To({"shut_account", "out"})
      BY <2>11 DEF ShutClaim, Leave, Running
    <3>2. \A q \in {"shut_account", "out"} : Progress(stage[l]) < Progress(q)
      BY <2>1, <3>1
    <3> QED BY <2>2, <3>1, <3>2
  <2>12. CASE ShutAccount(l)
    <3>1. stage[l] = "shut_account" /\ stage[l] \in Running /\ To({"delete", "refused"})
      BY <2>12 DEF ShutAccount, Leave, Running
    <3>2. \A q \in {"delete", "refused"} : Progress(stage[l]) < Progress(q)
      BY <2>1, <3>1
    <3> QED BY <2>2, <3>1, <3>2
  <2>13. CASE DeleteMember(l)
    <3>1. stage[l] = "delete" /\ stage[l] \in Running /\ To({"revoke"})
      BY <2>13 DEF DeleteMember, Running
    <3>2. \A q \in {"revoke"} : Progress(stage[l]) < Progress(q)
      BY <2>1, <3>1
    <3> QED BY <2>2, <3>1, <3>2
  <2>14. CASE RevokeTokens(l)
    <3>1. stage[l] = "revoke" /\ stage[l] \in Running /\ To({"out", "refused"})
      BY <2>14 DEF RevokeTokens, Leave, Running
    <3>2. \A q \in {"out", "refused"} : Progress(stage[l]) < Progress(q)
      BY <2>1, <3>1
    <3> QED BY <2>2, <3>1, <3>2
  <2> QED
    BY <1>1, <2>3, <2>4, <2>5, <2>6, <2>7, <2>8, <2>9, <2>10, <2>11, <2>12, <2>13, <2>14 DEF LoginStep
<1>2. ASSUME SsoTypeOK, Environment, NEW l \in Logins
      PROVE  Forward(l)
  <2>1. ASSUME NEW k \in Logins, Fail(k) \/ Crash(k) PROVE Forward(l)
    <3>1. stage[k] \in Running /\ stage' = [stage EXCEPT ![k] = Debris(k)]
      BY <2>1 DEF Fail, Crash, Stop
    <3>2. Progress(stage[k]) < Progress(Debris(k))
      BY <3>1 DEF Progress, Debris, Outcomes, Running
    <3> QED BY <1>2, <3>1, <3>2 DEF Forward, SsoTypeOK
  <2>2. ASSUME NEW k \in Logins, NEW b \in Browsers, NEW n \in Starts, NEW s \in Subjects,
               Callback(k, b, n, s)
        PROVE  Forward(l)
    <3>1. stage'[l] = stage[l] \/ (stage[l] = "idle" /\ stage'[l] \in {"code", "refused"})
      BY <1>2, <2>2, CallbackMoves
    <3>2. Progress("idle") < Progress("code") /\ Progress("idle") < Progress("refused")
      BY DEF Progress, Outcomes
    <3> QED BY <3>1, <3>2 DEF Forward
  <2>3. ASSUME NEW k \in Logins, NEW K \in SUBSET Held(k), LoseClaim(k, K) PROVE stage' = stage
    BY <2>3 DEF LoseClaim
  <2>4. CASE \/ InBrowsers
             \/ \E s \in Subjects, entry \in Entries : Edit(s, entry)
             \/ \E k \in Logins : LeasesRunOut(k)
    BY <2>4, BrowsersAlone DEF Edit, LeasesRunOut, Forward
  <2> QED BY <1>2, <2>1, <2>2, <2>3, <2>4 DEF Environment, InBrowsers, Forward
<1>3. TypeIInv /\ [Next]_vars =>
        [/\ \A l \in Logins : Forward(l)
         /\ \A l \in Logins : LoginStep(l) => stage'[l] # stage[l]]_vars
  <2> SUFFICES ASSUME TypeIInv, Next
               PROVE  /\ \A l \in Logins : Forward(l)
                      /\ \A l \in Logins : LoginStep(l) => stage'[l] # stage[l]
    OBVIOUS
  <2>1. \A l \in Logins : Forward(l)
    BY <1>1, <1>2 DEF TypeIInv, Next, Forward
  <2>2. ASSUME NEW l \in Logins, LoginStep(l) PROVE stage'[l] # stage[l]
    <3>1. stage[l] \in Running /\ Progress(stage[l]) < Progress(stage'[l])
      BY <1>1, <2>2 DEF TypeIInv
    <3>2. Progress(stage[l]) \in Nat
      BY <3>1 DEF Progress, Running
    <3> QED BY <3>1, <3>2
  <2> QED BY <2>1, <2>2
<1> QED BY <1>3, TypeInit, TypeStep, PTL DEF Spec
-----------------------------------------------------------------------------
(* The logins implement AccessPromise.                                     *)

MembersNow == {a \in Mails : member[a] # "none"}

(* The accounts at some stages, when only login l moves.                   *)
LEMMA AccountsMove ==
    ASSUME NEW l \in Logins, \A k \in Logins \ {l} : stage'[k] = stage[k] /\ req'[k] = req[k],
           NEW S
    PROVE  /\ stage[l] \notin S /\ stage'[l] \notin S => AccountsAt(S)' = AccountsAt(S)
           /\ stage[l] \notin S /\ stage'[l] \in S
                 => AccountsAt(S)' = AccountsAt(S) \cup {req'[l].account}
           /\ stage[l] \in S /\ stage'[l] \notin S
                 => AccountsAt(S)' \in {AccountsAt(S) \ {req[l].account}, AccountsAt(S)}
           /\ (/\ stage[l] \in S /\ stage'[l] \notin S
               /\ \A k \in Logins \ {l} : stage[k] \in S => req[k].account # req[l].account)
                 => AccountsAt(S)' = AccountsAt(S) \ {req[l].account}
<1> DEFINE others == {req[k].account : k \in {m \in Logins \ {l} : stage[m] \in S}}
<1>1. AccountsAt(S) = others \cup (IF stage[l] \in S THEN {req[l].account} ELSE {})
  BY DEF AccountsAt
<1>2. AccountsAt(S)' = others \cup (IF stage'[l] \in S THEN {req'[l].account} ELSE {})
  BY DEF AccountsAt
<1>3. (\A k \in Logins \ {l} : stage[k] \in S => req[k].account # req[l].account)
        => req[l].account \notin others
  OBVIOUS
<1> HIDE DEF others
<1> QED BY <1>1, <1>2, <1>3

(* What a step does to the variables of the promise.                       *)
AccessNow == <<MembersNow, session, AccountsAt({"revoke"}), AccountsAt({"torn"}), losses <= 1>>
AccessStep == Access!AccessNext \/ UNCHANGED AccessNow

(* A step that is none of the promise's business.                          *)
LEMMA AccessQuiet ==
    ASSUME NEW l \in Logins, \A k \in Logins \ {l} : stage'[k] = stage[k] /\ req'[k] = req[k],
           stage[l] \notin {"revoke", "torn"}, stage'[l] \notin {"revoke", "torn"},
           UNCHANGED <<member, session, losses>>
    PROVE  AccessStep
<1>1. AccountsAt({"revoke"})' = AccountsAt({"revoke"})
      /\ AccountsAt({"torn"})' = AccountsAt({"torn"})
  BY AccountsMove
<1> QED BY <1>1 DEF AccessStep, AccessNow, MembersNow

(* The end of a removal, complete or not.                                  *)
LEMMA AccessOneLess ==
    ASSUME MemberIInv, NEW l \in Logins, stage[l] = "revoke", stage'[l] # "revoke",
           \A k \in Logins \ {l} : stage'[k] = stage[k] /\ req'[k] = req[k]
    PROVE  Access!OneLess(req[l].account)
<1>1. req[l].account \in AccountsAt({"revoke"})
  BY DEF AccountsAt
<1>2. losses <= 1 => \A k \in Logins \ {l} :
         stage[k] \in {"revoke"} => req[k].account # req[l].account
  BY AccountExclusive DEF MemberIInv
<1>3. AccountsAt({"revoke"})' \in {AccountsAt({"revoke"}) \ {req[l].account}, AccountsAt({"revoke"})}
  BY AccountsMove
<1>4. losses <= 1 => AccountsAt({"revoke"})' = AccountsAt({"revoke"}) \ {req[l].account}
  BY <1>2, AccountsMove
<1> QED BY <1>1, <1>3, <1>4 DEF Access!OneLess

(* The steps of a login.                                                   *)
LEMMA LoginStepAccess ==
    ASSUME MemberIInv, NEW l \in Logins, LoginStep(l) PROVE AccessStep
<1>t. SsoTypeOK /\ Knows(l)
  BY DEF MemberIInv, ClaimIInv, TypeIInv, StageKnows
<1>f. losses' = losses
  BY DEF LoginStep, GetIdentity, Resolve, Register, Link, LinkRaises, ClaimAccount, faults,
         CommitMember, IssueTokens, ShutClaim, ShutAccount, DeleteMember, RevokeTokens
<1>k. \A k \in Logins \ {l} : stage'[k] = stage[k] /\ req'[k] = req[k]
  BY <1>t DEF LoginStep, GetIdentity, Resolve, Register, Link, LinkRaises, ClaimAccount,
         CommitMember, IssueTokens, ShutClaim, ShutAccount, DeleteMember, RevokeTokens,
         Leave, Stop, SsoTypeOK
<1> DEFINE a == req[l].account
<1>a. stage[l] \in AtAccount => a \in Mails \ {OwnerMail}
  BY <1>t, SsoAssumption
     DEF MemberIInv, Knows, AccountsHaveOneSubject, SsoTypeOK, AtAccount, Running
<1>x. losses <= 1 /\ stage[l] \in {"commit", "tokens", "delete"} => a \notin AccountsAt({"revoke"})
  BY AccountExclusive DEF MemberIInv, AccountsAt
<1>1. CASE GetIdentity(l) \/ Resolve(l) \/ Register(l) \/ Link(l) \/ LinkRaises(l)
           \/ ClaimAccount(l) \/ ShutClaim(l) \/ ShutAccount(l)
  <2>1. UNCHANGED <<member, session>> /\ stage[l] \notin {"revoke", "torn"}
    BY <1>1 DEF GetIdentity, Resolve, Register, Link, LinkRaises, ClaimAccount, ShutClaim,
                ShutAccount, store
  <2>2. stage'[l] \notin {"revoke", "torn"}
    BY <1>1, <1>t DEF GetIdentity, Resolve, Register, Link, LinkRaises, ClaimAccount, ShutClaim,
                ShutAccount, SsoTypeOK, Leave, Stop, Debris
  <2> QED BY <2>1, <2>2, <1>f, <1>k, AccessQuiet
<1>2. CASE CommitMember(l)
  <2>1. /\ stage[l] = "commit" /\ member' = [member EXCEPT ![a] = Role(l)]
        /\ session' = session /\ stage'[l] \notin {"revoke", "torn"}
    BY <1>2, <1>t DEF CommitMember, Leave, SsoTypeOK
  <2>2. a \in Mails \ {OwnerMail} /\ (losses <= 1 => a \notin AccountsAt({"revoke"}))
    BY <2>1, <1>a, <1>x DEF AtAccount
  <2>3. AccountsAt({"revoke"})' = AccountsAt({"revoke"})
        /\ AccountsAt({"torn"})' = AccountsAt({"torn"})
    BY <2>1, <1>k, AccountsMove
  <2>4. MembersNow' = MembersNow \cup {a}
    <3> HIDE DEF a
    <3> QED BY <2>1, <2>2, <1>t DEF MembersNow, Role, SsoTypeOK
  <2>5. PICK c \in Mails \ {OwnerMail} : c = a
    BY <2>2
  <2>6. Access!Join(c)
    BY <2>1, <2>2, <2>3, <2>4, <2>5, <1>f DEF Access!Join, MembersNow
  <2> QED BY <2>6 DEF AccessStep, Access!AccessNext
<1>3. CASE IssueTokens(l)
  <2>1. /\ stage[l] = "tokens" /\ member' = member /\ session' = session \cup {a}
        /\ stage'[l] \notin {"revoke", "torn"}
    BY <1>3, <1>t DEF IssueTokens, Leave, SsoTypeOK
  <2>2. a \in Mails \ {OwnerMail} /\ (losses <= 1 => a \notin AccountsAt({"revoke"}))
    BY <2>1, <1>a, <1>x DEF AtAccount
  <2>3. AccountsAt({"revoke"})' = AccountsAt({"revoke"})
        /\ AccountsAt({"torn"})' = AccountsAt({"torn"})
    BY <2>1, <1>k, AccountsMove
  <2>4. losses <= 1 => a \in MembersNow
    BY <2>1, <2>2 DEF MemberIInv, TokensMean, MembersNow
  <2>5. Access!Open(a)
    BY <2>1, <2>2, <2>3, <2>4, <1>f DEF Access!Open, MembersNow
  <2> QED BY <2>2, <2>5 DEF AccessStep, Access!AccessNext
<1>4. CASE DeleteMember(l)
  <2>1. /\ stage[l] = "delete" /\ member' = [member EXCEPT ![a] = "none"]
        /\ session' = session /\ stage'[l] = "revoke" /\ req' = req
    BY <1>4, <1>t DEF DeleteMember, SsoTypeOK
  <2>2. a \in Mails \ {OwnerMail} /\ (losses <= 1 => a \notin AccountsAt({"revoke"}))
    BY <2>1, <1>a, <1>x DEF AtAccount
  <2>3. AccountsAt({"revoke"})' = AccountsAt({"revoke"}) \cup {a}
        /\ AccountsAt({"torn"})' = AccountsAt({"torn"})
    BY <2>1, <1>k, AccountsMove
  <2>4. MembersNow' = MembersNow \ {a}
    <3> HIDE DEF a
    <3> QED BY <2>1, <2>2, <1>t DEF MembersNow, SsoTypeOK
  <2>5. PICK c \in Mails \ {OwnerMail} : c = a
    BY <2>2
  <2>6. Access!BeginRemoval(c)
    BY <2>1, <2>2, <2>3, <2>4, <2>5, <1>f DEF Access!BeginRemoval, MembersNow
  <2> QED BY <2>6 DEF AccessStep, Access!AccessNext
<1>5. CASE RevokeTokens(l)
  <2>1. /\ stage[l] = "revoke" /\ member' = member /\ session' = session \ {a}
        /\ stage'[l] \notin {"revoke", "torn"}
    BY <1>5, <1>t DEF RevokeTokens, Leave, SsoTypeOK
  <2>2. a \in Mails \ {OwnerMail}
    BY <2>1, <1>a DEF AtAccount
  <2>3. AccountsAt({"torn"})' = AccountsAt({"torn"})
    BY <2>1, <1>k, AccountsMove
  <2>4. Access!OneLess(a)
    BY <2>1, <1>k, AccessOneLess
  <2>5. Access!EndRemoval(a)
    BY <2>1, <2>3, <2>4, <1>f DEF Access!EndRemoval, MembersNow
  <2> QED BY <2>2, <2>5 DEF AccessStep, Access!AccessNext
<1> QED BY <1>1, <1>2, <1>3, <1>4, <1>5 DEF LoginStep

(* An exception or a kill cuts a removal off, if one was under way.        *)
LEMMA StopAccess ==
    ASSUME MemberIInv, NEW l \in Logins, Fail(l) \/ Crash(l) PROVE AccessStep
<1>t. SsoTypeOK /\ Knows(l)
  BY DEF MemberIInv, ClaimIInv, TypeIInv, StageKnows
<1> DEFINE a == req[l].account
<1>1. claim' \in [Keys -> Logins \cup {Nobody}] /\ Stop(l)
      /\ UNCHANGED <<member, session, losses>>
  BY <1>t, ReleasedTypes DEF Fail, Crash, SsoTypeOK, faults, store
<1>2. PICK q \in Request : /\ Move(l, Debris(l), q)
                           /\ stage[l] = "revoke" => q.account = a
  BY <1>1, <1>t, StopTypes
<1>3. stage'[l] = Debris(l) /\ req'[l] = q
      /\ \A k \in Logins \ {l} : stage'[k] = stage[k] /\ req'[k] = req[k]
  BY <1>2, <1>t, MoveTypes
<1>4. CASE stage[l] = "revoke"
  <2>1. stage'[l] = "torn" /\ req'[l].account = a
    BY <1>2, <1>3, <1>4 DEF Debris
  <2>2. a \in Mails \ {OwnerMail}
    BY <1>4, <1>t, SsoAssumption
       DEF MemberIInv, Knows, AccountsHaveOneSubject, SsoTypeOK, AtAccount, Running
  <2>3. AccountsAt({"torn"})' = AccountsAt({"torn"}) \cup {a}
    BY <1>3, <1>4, <2>1, AccountsMove
  <2>4. Access!OneLess(a)
    BY <1>3, <1>4, <2>1, AccessOneLess
  <2>5. Access!CutRemoval(a)
    BY <1>1, <2>3, <2>4 DEF Access!CutRemoval, MembersNow
  <2> QED BY <2>2, <2>5 DEF AccessStep, Access!AccessNext
<1>5. CASE stage[l] # "revoke"
  <2>1. stage[l] \notin {"revoke", "torn"} /\ stage'[l] \notin {"revoke", "torn"}
    BY <1>1, <1>3, <1>5 DEF Stop, Running, Debris
  <2> QED BY <2>1, <1>1, <1>3, AccessQuiet
<1> QED BY <1>4, <1>5

(* Of the rest only the loss of a claim concerns the promise.              *)
LEMMA EnvironmentAccess ==
    ASSUME MemberIInv, Environment PROVE AccessStep
<1>t. SsoTypeOK
  BY DEF MemberIInv, ClaimIInv, TypeIInv
<1>1. ASSUME NEW l \in Logins, NEW b \in Browsers, NEW n \in Starts, NEW s \in Subjects,
             Callback(l, b, n, s)
      PROVE  AccessStep
  <2>1. stage[l] = "idle" /\ UNCHANGED <<member, session, losses>>
    BY <1>1 DEF Callback, store, faults
  <2>2. /\ stage'[l] \in {"code", "refused"}
        /\ \A k \in Logins \ {l} : stage'[k] = stage[k] /\ req'[k] = req[k]
    BY <1>1, <1>t, CallbackMoves
  <2> QED BY <2>1, <2>2, AccessQuiet
<1>2. ASSUME NEW l \in Logins, NEW K \in SUBSET Held(l), LoseClaim(l, K)
      PROVE  AccessStep
  <2>1. UNCHANGED <<stage, req, member, session>> /\ losses' = losses + 1 /\ losses \in Nat
    BY <1>2, <1>t, SsoAssumption DEF LoseClaim, SsoTypeOK, store
  <2>2. UNCHANGED <<MembersNow, session, AccountsAt({"revoke"}), AccountsAt({"torn"})>>
    BY <2>1 DEF MembersNow, AccountsAt
  <2>3. CASE losses' <= 1
    <3>1. (losses <= 1) = TRUE /\ (losses' <= 1) = TRUE
      BY <2>1, <2>3
    <3> QED BY <3>1, <2>2 DEF AccessStep, AccessNow
  <2>4. CASE ~(losses' <= 1)
    <3>1. (losses' <= 1) = FALSE
      BY <2>4
    <3>2. Access!TakeLease
      BY <3>1, <2>2 DEF Access!TakeLease, MembersNow
    <3> QED BY <3>2 DEF AccessStep, Access!AccessNext
  <2> QED BY <2>3, <2>4
<1>3. CASE \/ InBrowsers
           \/ \E s \in Subjects, entry \in Entries : Edit(s, entry)
           \/ \E l \in Logins : LeasesRunOut(l)
  <2>1. UNCHANGED <<stage, req, member, session, losses>>
    BY <1>3, BrowsersAlone DEF Edit, LeasesRunOut, store, faults
  <2> QED BY <2>1 DEF AccessStep, AccessNow, MembersNow, AccountsAt
<1> QED BY <1>1, <1>2, <1>3, StopAccess DEF Environment, InBrowsers

(* Logins of any number, with and without the role, change memberships and *)
(* sessions as the promise says, whatever fails in between: as long as     *)
(* leases hold - one may be lost - a removal is not crossed by anybody who *)
(* joins, and a session is opened for a member only.                       *)
THEOREM AccessIsKept == Spec => KeepsAccess
<1>1. Init => Access!AccessInit
  <2> SUFFICES ASSUME Init PROVE Access!AccessInit
    OBVIOUS
  <2>1. MembersNow \in SUBSET Mails /\ OwnerMail \in MembersNow
    BY SsoAssumption DEF Init, MembersNow
  <2>2. session = {} /\ (losses <= 1) = TRUE /\ \A l \in Logins : stage[l] = "idle"
    BY DEF Init
  <2>3. AccountsAt({"revoke"}) = {} /\ AccountsAt({"torn"}) = {}
    BY <2>2 DEF AccountsAt
  <2> QED BY <2>1, <2>2, <2>3 DEF Access!AccessInit, MembersNow
<1>2. Init => MemberIInv
  BY ClaimInit, AccountsInit DEF Init, MemberIInv, AccountsIInv, TokensMean, SessionMeansMember
<1>3. MemberIInv /\ [Next]_vars => [Access!AccessNext]_(Access!accessVars)
  <2> SUFFICES ASSUME MemberIInv, [Next]_vars
               PROVE  AccessStep
    BY DEF AccessStep, AccessNow, Access!accessVars, MembersNow
  <2>1. CASE Next
    BY <2>1, LoginStepAccess, EnvironmentAccess DEF Next
  <2>2. CASE UNCHANGED vars
    BY <2>2 DEF vars, store, faults, AccessStep, AccessNow, MembersNow, AccountsAt
  <2> QED BY <2>1, <2>2
<1> QED BY <1>1, <1>2, <1>3, MemberStep, PTL DEF Spec, KeepsAccess, Access!AccessSpec

(* The promise is enough: whoever keeps it has sessions of members only,   *)
(* up to removals between the two tables, now or cut off there.            *)
THEOREM AccessSuffices == KeepsAccess => []SessionMeansMember
<1> DEFINE Covered ==
        losses <= 1 =>
            session \subseteq MembersNow \cup AccountsAt({"revoke"}) \cup AccountsAt({"torn"})
<1>1. Access!AccessInit => Covered
  BY DEF Access!AccessInit
<1>2. Covered /\ [Access!AccessNext]_(Access!accessVars) => Covered'
  <2> SUFFICES ASSUME Covered, [Access!AccessNext]_(Access!accessVars) PROVE Covered'
    OBVIOUS
  <2>1. ASSUME NEW a \in Mails \ {OwnerMail},
               Access!Join(a) \/ Access!Open(a) \/ Access!BeginRemoval(a)
        PROVE  Covered'
    BY <2>1 DEF Access!Join, Access!Open, Access!BeginRemoval, MembersNow
  <2>2. ASSUME NEW a \in Mails \ {OwnerMail}, Access!EndRemoval(a) \/ Access!CutRemoval(a)
        PROVE  Covered'
    BY <2>2 DEF Access!EndRemoval, Access!CutRemoval, Access!OneLess, MembersNow
  <2>3. CASE Access!TakeLease \/ UNCHANGED Access!accessVars
    BY <2>3 DEF Access!TakeLease, Access!accessVars, MembersNow
  <2> QED BY <2>1, <2>2, <2>3 DEF Access!AccessNext
<1>3. Covered => SessionMeansMember
  BY DEF MembersNow, AccountsAt, SessionMeansMember
<1> QED BY <1>1, <1>2, <1>3, PTL DEF KeepsAccess, Access!AccessSpec
=============================================================================
