---------------------------- MODULE AccessPromise ----------------------------
(***************************************************************************)
(* What the logins promise about access, with nothing said of browsers,    *)
(* tokens of Keycloak, subjects, addresses or claims: two tables, of       *)
(* members and of sessions, that are written one after the other and agree *)
(* all the same.                                                           *)
(*                                                                         *)
(* A session is opened for a member only.  A removal takes the membership  *)
(* first and the session second; between the two nobody joins or opens a   *)
(* session under the same account.  A removal that is cut off between the  *)
(* two is remembered.  The owner is neither removed nor let in.            *)
(*                                                                         *)
(* All this is promised while the leases the logins work under hold; when  *)
(* one is taken away, what is left is which table each step writes.        *)
(***************************************************************************)
CONSTANTS Accounts,
          Owner          \* the account of the break-glass owner

VARIABLES
    members,             \* accounts with a membership
    sessions,            \* accounts with a session
    closing,             \* accounts between the two steps of a removal
    torn,                \* accounts a removal of which was cut off there
    secure               \* no lease has been taken away

accessVars == <<members, sessions, closing, torn, secure>>

AccessInit ==
    /\ members \in SUBSET Accounts /\ Owner \in members
    /\ sessions = {}
    /\ closing = {}
    /\ torn = {}
    /\ secure = TRUE

(* a becomes a member, or stays one with another role.                     *)
Join(a) ==
    /\ secure => a \notin closing
    /\ members' = members \cup {a}
    /\ UNCHANGED <<sessions, closing, torn, secure>>

Open(a) ==
    /\ secure => a \in members \ closing
    /\ sessions' = sessions \cup {a}
    /\ UNCHANGED <<members, closing, torn, secure>>

BeginRemoval(a) ==
    /\ secure => a \notin closing
    /\ members' = members \ {a}
    /\ closing' = closing \cup {a}
    /\ UNCHANGED <<sessions, torn, secure>>

(* One removal of a is over; without secure another one may go on.         *)
OneLess(a) ==
    /\ a \in closing
    /\ closing' \in {closing \ {a}, closing}
    /\ secure => closing' = closing \ {a}

EndRemoval(a) ==
    /\ OneLess(a)
    /\ sessions' = sessions \ {a}
    /\ UNCHANGED <<members, torn, secure>>

CutRemoval(a) ==
    /\ OneLess(a)
    /\ torn' = torn \cup {a}
    /\ UNCHANGED <<members, sessions, secure>>

TakeLease ==
    /\ secure' = FALSE
    /\ UNCHANGED <<members, sessions, closing, torn>>

AccessNext ==
    \/ \E a \in Accounts \ {Owner} :
          Join(a) \/ Open(a) \/ BeginRemoval(a) \/ EndRemoval(a) \/ CutRemoval(a)
    \/ TakeLease

AccessSpec == AccessInit /\ [][AccessNext]_accessVars
=============================================================================
