----------------------------- MODULE MCBootstrap -----------------------------
(* Small instances of Bootstrap for TLC.                                   *)
EXTENDS Bootstrap, TLC

CONSTANTS p1, p2, chat, old, new, llm

TypeOfChat == [s \in {chat} |-> llm]

\* Nothing is provisioned before the first pod starts.
EmptyStore ==
    { [rows |-> [s \in {chat} |-> <<>>], active |-> [s \in {chat} |-> 0],
       enabled |-> [s \in {chat} |-> FALSE], default |-> [t \in {llm} |-> NoSlot]] }

Rotating ==
    { <<[slot |-> chat, secret |-> k, asDefault |-> TRUE, wellFormed |-> TRUE]>> :
         k \in {old, new} }
OneSecret ==
    { <<[slot |-> chat, secret |-> old, asDefault |-> FALSE, wellFormed |-> TRUE]>> }
NothingConfigured == {<<>>}

\* A fresh installation; one set up by Dify itself; one from before key pairs
\* were made with the tenant; a setup row whose tenant is gone; two tenants.
Fresh == [tenants |-> 0, setup |-> FALSE, key |-> 0, plugin |-> FALSE]
Running == [tenants |-> 1, setup |-> TRUE, key |-> 1, plugin |-> TRUE]
Legacy == [tenants |-> 1, setup |-> TRUE, key |-> 0, plugin |-> FALSE]
RowOnly == [tenants |-> 0, setup |-> TRUE, key |-> 0, plugin |-> FALSE]
TwoTenants == [tenants |-> 2, setup |-> TRUE, key |-> 1, plugin |-> FALSE]

AllWorlds == {Fresh, Running, Legacy, RowOnly, TwoTenants}
NewAndOld == {Fresh, Running}
OnlyFresh == {Fresh}
OnlyLegacy == {Legacy}

PodSymmetry == Permutations(Pods)
=============================================================================
