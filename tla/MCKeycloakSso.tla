---------------------------- MODULE MCKeycloakSso ----------------------------
(* Small instances of KeycloakSso for TLC.                                 *)
EXTENDS KeycloakSso, TLC

CONSTANTS ann, bob, x, y, owner, b1, b2, l1, l2

User(m) == [mail |-> m, roles |-> {"dify-user"}]
Admin(m) == [mail |-> m, roles |-> {"dify-user", "dify-admin"}]
NoUser(m) == [mail |-> m, roles |-> {"dify-admin"}]

SomeEntries == {User(x), Admin(y), User(owner), NoUser(x)}

\* Two users with an address each, or sharing one; one may lack the role.
Realms == { [s \in {ann, bob} |-> IF s = ann THEN e[1] ELSE e[2]] :
               e \in {<<User(x), User(x)>>, <<User(x), Admin(y)>>,
                      <<NoUser(x), Admin(y)>>} }

OpenAndClosed == { [register |-> TRUE, guarded |-> FALSE],
                   [register |-> FALSE, guarded |-> TRUE] }

\* Two losses or a loss and a kill, with an edit, after one start, which can
\* serve both logins as long as neither is answered; one of all these after
\* two starts.
FewFaults ==
    /\ losses + crashes <= 2
    /\ Len(begun) = 2 => losses + crashes + edits <= 1

SsoSymmetry == Permutations({l1, l2}) \cup Permutations({b1, b2})
=============================================================================
