----------------------------- MODULE LockPromise -----------------------------
(***************************************************************************)
(* What the bootstrap lock promises to the setup it protects, with nothing *)
(* said of connections, advisory locks, deadlines or polling.              *)
(*                                                                         *)
(* A process that enters the setup is protected: nobody else is inside     *)
(* under the same protection.  Protection may be taken away from it by the *)
(* world outside (the database session that carried it ended); from then   *)
(* on it is a stray, and the one thing promised is that a stray run is     *)
(* never reported as a success.                                            *)
(***************************************************************************)
CONSTANT Pods          \* processes that run the setup

VARIABLES
    inside,            \* processes in the setup, protected
    stray,             \* processes in the setup whose protection has ended
    completed          \* processes whose latest run was reported a success

promiseVars == <<inside, stray, completed>>

PromiseInit ==
    /\ inside = {}
    /\ stray = {}
    /\ completed = {}

(* A new run of p begins; its last result is forgotten.                    *)
Begin(p) ==
    /\ p \in completed
    /\ completed' = completed \ {p}
    /\ UNCHANGED <<inside, stray>>

Enter(p) ==
    /\ inside = {}
    /\ p \notin stray \cup completed
    /\ inside' = {p}
    /\ UNCHANGED <<stray, completed>>

LoseProtection(p) ==
    /\ p \in inside
    /\ inside' = inside \ {p}
    /\ stray' = stray \cup {p}
    /\ UNCHANGED completed

Complete(p) ==
    /\ p \in inside
    /\ inside' = inside \ {p}
    /\ completed' = completed \cup {p}
    /\ UNCHANGED stray

Abandon(p) ==
    /\ p \in inside \cup stray
    /\ inside' = inside \ {p}
    /\ stray' = stray \ {p}
    /\ UNCHANGED completed

PromiseNext ==
    \E p \in Pods :
        Begin(p) \/ Enter(p) \/ LoseProtection(p) \/ Complete(p) \/ Abandon(p)

PromiseSpec == PromiseInit /\ [][PromiseNext]_promiseVars
=============================================================================
