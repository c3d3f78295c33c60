---------------------------- MODULE BootstrapLock ----------------------------
(***************************************************************************)
(* The bootstrap lock of overlay/scripts/setup_model_provider.py           *)
(* (_bootstrap_lock, lines 61-118): a PostgreSQL session-level advisory    *)
(* lock, taken by polling on a dedicated connection, held for the whole    *)
(* setup, and given back with a confirmed unlock.                          *)
(*                                                                         *)
(* Every pod that starts runs the script once; a pod that has exited may   *)
(* be started again.  The lock belongs to the database session, not to the *)
(* process: it is gone when the session ends, whatever the process thinks, *)
(* and it stays behind when the process is killed, until the server        *)
(* notices that nobody is left at the other end.                           *)
(***************************************************************************)
EXTENDS Integers

CONSTANTS
    Pods,              \* processes running the script
    Free,              \* the lock has no holder
    Orphan,            \* the holder is a session without a client
    TimeoutSettings,   \* DIFY_BOOTSTRAP_LOCK_TIMEOUT_SECONDS a pod may find
    Unset,             \* ... the variable is not set
    NotANumber,        \* ... it does not parse, or is nan or infinite
    DefaultTimeout,    \* _BOOTSTRAP_LOCK_TIMEOUT_SECONDS, in poll intervals
    MaxRuns,           \* bound: times a pod is started again
    MaxLosses,         \* bound: database sessions lost under a live client
    MaxCrashes         \* bound: processes killed

ASSUME LockAssumption ==
    /\ Free \notin Pods /\ Orphan \notin Pods /\ Free # Orphan
    /\ Unset \notin Int /\ NotANumber \notin Int /\ Unset # NotANumber
    /\ TimeoutSettings \subseteq Int \cup {Unset, NotANumber}
    /\ DefaultTimeout \in Nat \ {0}
    /\ MaxRuns \in Nat /\ MaxLosses \in Nat /\ MaxCrashes \in Nat

VARIABLES
    lock,              \* holder of the advisory lock on the server
    phase,             \* where each pod's run is
    left,              \* poll intervals left before the pod's deadline
    conn,              \* the pod's dedicated connection, as the pod has it
    raising,           \* an exception is leaving the with-block
    broken,            \* history: this run lost the lock after acquiring it
    runs,              \* times each pod was started again
    losses, crashes    \* what the bounds have used up

lockVars == <<lock, phase, left, conn, raising, broken, runs, losses, crashes>>

Phase == {"start", "trying", "holding", "releasing", "done", "failed"}
Ended == {"done", "failed"}
InBody(p) == phase[p] \in {"holding", "releasing"}

LockTypeOK ==
    /\ lock \in Pods \cup {Free, Orphan}
    /\ phase \in [Pods -> Phase]
    /\ left \in [Pods -> Nat]
    /\ conn \in [Pods -> {"none", "open", "lost"}]
    /\ raising \in [Pods -> BOOLEAN]
    /\ broken \in [Pods -> BOOLEAN]
    /\ runs \in [Pods -> 0 .. MaxRuns]
    /\ losses \in 0 .. MaxLosses
    /\ crashes \in 0 .. MaxCrashes

LockInit ==
    /\ lock = Free
    /\ phase = [p \in Pods |-> "start"]
    /\ left = [p \in Pods |-> 0]
    /\ conn = [p \in Pods |-> "none"]
    /\ raising = [p \in Pods |-> FALSE]
    /\ broken = [p \in Pods |-> FALSE]
    /\ runs = [p \in Pods |-> 0]
    /\ losses = 0
    /\ crashes = 0
-----------------------------------------------------------------------------
(* The configured wait: unset means the default, and only a finite number  *)
(* above zero is accepted.                                                 *)
TimeoutSeconds(s) == IF s = Unset THEN DefaultTimeout ELSE s
ValidTimeout(s) == s # NotANumber /\ TimeoutSeconds(s) > 0

(* The run leaves the script with an exception: the connection is closed,  *)
(* main exits with status 1.                                               *)
Exit(p, result) ==
    /\ phase' = [phase EXCEPT ![p] = result]
    /\ conn' = [conn EXCEPT ![p] = "none"]

(* The deadline is set before the connection is opened, so connecting may  *)
(* already have used some of it.                                           *)
Start(p) ==
    /\ phase[p] = "start"
    /\ \E s \in TimeoutSettings :
          /\ ValidTimeout(s)
          /\ \E r \in 0 .. TimeoutSeconds(s) : left' = [left EXCEPT ![p] = r]
    /\ phase' = [phase EXCEPT ![p] = "trying"]
    /\ conn' = [conn EXCEPT ![p] = "open"]
    /\ UNCHANGED <<lock, raising, broken, runs, losses, crashes>>

(* The application cannot be created, the setting is refused, or the       *)
(* database cannot be reached.                                             *)
StartFails(p) ==
    /\ phase[p] = "start"
    /\ Exit(p, "failed")
    /\ UNCHANGED <<lock, left, raising, broken, runs, losses, crashes>>
-----------------------------------------------------------------------------
(* Mutant: the answer of the attempt is not looked at.                     *)
TryLock_IgnoresAnswer(p) ==
    /\ phase[p] = "trying" /\ conn[p] = "open"
    /\ lock' = IF lock = Free THEN p ELSE lock
    /\ phase' = [phase EXCEPT ![p] = "holding"]
    /\ UNCHANGED <<left, conn, raising, broken, runs, losses, crashes>>

(* pg_try_advisory_lock returns true.                                      *)
TryLock(p) ==
    /\ phase[p] = "trying" /\ conn[p] = "open"
    /\ lock = Free
    /\ lock' = p
    /\ phase' = [phase EXCEPT ![p] = "holding"]
    /\ UNCHANGED <<left, conn, raising, broken, runs, losses, crashes>>

(* Mutant: the sleep comes before the look at the clock.                   *)
RetryLater_Overdue(p) ==
    /\ phase[p] = "trying" /\ conn[p] = "open"
    /\ lock # Free
    /\ left' = [left EXCEPT ![p] = @ - 1]
    /\ UNCHANGED <<lock, phase, conn, raising, broken, runs, losses, crashes>>

(* It returns false and time remains: the pod sleeps for one poll interval *)
(* or what remains, or longer when it is not scheduled at once.            *)
RetryLater(p) ==
    /\ phase[p] = "trying" /\ conn[p] = "open"
    /\ lock # Free
    /\ \E r \in 0 .. left[p] - 1 : left' = [left EXCEPT ![p] = r]
    /\ UNCHANGED <<lock, phase, conn, raising, broken, runs, losses, crashes>>

(* Mutant: the finally clause unlocks although nothing was acquired, with  *)
(* an unlock that does not look at the owner.                              *)
LockTimesOut_Unlocks(p) ==
    /\ phase[p] = "trying" /\ conn[p] = "open"
    /\ lock # Free
    /\ left[p] = 0
    /\ lock' = Free
    /\ Exit(p, "failed")
    /\ UNCHANGED <<left, raising, broken, runs, losses, crashes>>

(* It returns false and no time remains: TimeoutError.  Nothing was        *)
(* acquired, so nothing is released.                                       *)
LockTimesOut(p) ==
    /\ phase[p] = "trying" /\ conn[p] = "open"
    /\ lock # Free
    /\ left[p] = 0
    /\ Exit(p, "failed")
    /\ UNCHANGED <<lock, left, raising, broken, runs, losses, crashes>>

(* The attempt, or the commit after it, raises.  When the session ends     *)
(* with the answer on its way the server may have granted the lock to it.  *)
(* A pod that got as far as acquired = True goes through the unlock and    *)
(* its failure to the same end.                                            *)
TryLockRaises(p) ==
    /\ phase[p] = "trying"
    /\ \/ conn[p] = "lost" /\ UNCHANGED <<lock, losses>>
       \/ /\ conn[p] = "open" /\ losses < MaxLosses
          /\ losses' = losses + 1
          /\ lock' \in (IF lock = Free THEN {Free, Orphan} ELSE {lock})
    /\ Exit(p, "failed")
    /\ UNCHANGED <<left, raising, broken, runs, crashes>>
-----------------------------------------------------------------------------
(* The setup returns, or an exception leaves it: the finally clause runs.  *)
LeaveBody(p, error) ==
    /\ phase[p] = "holding"
    /\ phase' = [phase EXCEPT ![p] = "releasing"]
    /\ raising' = [raising EXCEPT ![p] = error]
    /\ UNCHANGED <<lock, left, conn, broken, runs, losses, crashes>>

(* Mutant: a failing setup returns its connection to the pool with the     *)
(* lock still on it.                                                       *)
Release_OnlyOnSuccess(p) ==
    /\ phase[p] = "releasing" /\ conn[p] = "open"
    /\ lock = p
    /\ lock' = IF raising[p] THEN lock ELSE Free
    /\ Exit(p, IF raising[p] THEN "failed" ELSE "done")
    /\ UNCHANGED <<left, raising, broken, runs, losses, crashes>>

(* pg_advisory_unlock confirms the release; a pending exception goes on.   *)
Release(p) ==
    /\ phase[p] = "releasing" /\ conn[p] = "open"
    /\ lock = p
    /\ lock' = Free
    /\ Exit(p, IF raising[p] THEN "failed" ELSE "done")
    /\ UNCHANGED <<left, raising, broken, runs, losses, crashes>>

(* Mutant: the answer of the unlock is not looked at.                      *)
ReleaseUnconfirmed_Ignored(p) ==
    /\ phase[p] = "releasing" /\ conn[p] = "open"
    /\ lock # p
    /\ Exit(p, IF raising[p] THEN "failed" ELSE "done")
    /\ UNCHANGED <<lock, left, raising, broken, runs, losses, crashes>>

(* pg_advisory_unlock returns false, the session does not own the lock:    *)
(* the connection is invalidated and RuntimeError raised.                  *)
ReleaseUnconfirmed(p) ==
    /\ phase[p] = "releasing" /\ conn[p] = "open"
    /\ lock # p
    /\ Exit(p, "failed")
    /\ UNCHANGED <<lock, left, raising, broken, runs, losses, crashes>>

(* Mutant: the connection is not invalidated when the unlock fails, and    *)
(* goes back to the pool with the lock.                                    *)
ReleaseRaises_KeepsConnection(p) ==
    /\ phase[p] = "releasing"
    /\ \/ conn[p] = "lost" /\ UNCHANGED <<lock, losses>>
       \/ /\ conn[p] = "open" /\ losses < MaxLosses
          /\ losses' = losses + 1
          /\ UNCHANGED lock
    /\ Exit(p, "failed")
    /\ UNCHANGED <<left, raising, broken, runs, crashes>>

(* The unlock or its commit raises: the connection is invalidated and the  *)
(* exception goes on.  When the session ends just now, the server may or   *)
(* may not have noticed yet that the lock has lost its client.             *)
ReleaseRaises(p) ==
    /\ phase[p] = "releasing"
    /\ \/ conn[p] = "lost" /\ UNCHANGED <<lock, losses>>
       \/ /\ conn[p] = "open" /\ losses < MaxLosses
          /\ losses' = losses + 1
          /\ lock' \in (IF lock = p THEN {Free, Orphan} ELSE {lock})
    /\ Exit(p, "failed")
    /\ UNCHANGED <<left, raising, broken, runs, crashes>>
-----------------------------------------------------------------------------
(* The database session of a live pod is lost: its connection breaks, or   *)
(* the session behind it is replaced so that the statements still work but *)
(* the lock is gone.  The pod learns of it with its next statement on this *)
(* connection, which during the setup is the unlock.                       *)
LoseSession(p) ==
    /\ conn[p] = "open" /\ losses < MaxLosses
    /\ losses' = losses + 1
    /\ \/ /\ conn' = [conn EXCEPT ![p] = "lost"]
          /\ lock' = IF lock = p THEN Orphan ELSE lock
       \/ /\ lock = p
          /\ lock' = Free
          /\ UNCHANGED conn
    /\ broken' = [broken EXCEPT ![p] = @ \/ lock = p]
    /\ UNCHANGED <<phase, left, raising, runs, crashes>>

(* The process is killed: no finally clause runs.                          *)
Crash(p) ==
    /\ phase[p] \notin Ended /\ crashes < MaxCrashes
    /\ crashes' = crashes + 1
    /\ lock' = IF lock = p THEN Orphan ELSE lock
    /\ Exit(p, "failed")
    /\ UNCHANGED <<left, raising, broken, runs, losses>>

(* The server finds that the client of the holding session is gone.        *)
ReapOrphan ==
    /\ lock = Orphan
    /\ lock' = Free
    /\ UNCHANGED <<phase, left, conn, raising, broken, runs, losses, crashes>>

(* The pod is started again, after a failure or by a new rollout.          *)
Restart(p) ==
    /\ phase[p] \in Ended /\ runs[p] < MaxRuns
    /\ runs' = [runs EXCEPT ![p] = @ + 1]
    /\ phase' = [phase EXCEPT ![p] = "start"]
    /\ raising' = [raising EXCEPT ![p] = FALSE]
    /\ broken' = [broken EXCEPT ![p] = FALSE]
    /\ UNCHANGED <<lock, left, conn, losses, crashes>>
-----------------------------------------------------------------------------
(* The steps a running pod takes by itself outside the setup.              *)
AcquireStep(p) ==
    \/ Start(p) \/ StartFails(p)
    \/ TryLock(p) \/ RetryLater(p) \/ LockTimesOut(p) \/ TryLockRaises(p)

ReleaseStep(p) == Release(p) \/ ReleaseUnconfirmed(p) \/ ReleaseRaises(p)

LockNext ==
    \/ \E p \in Pods :
          \/ AcquireStep(p)
          \/ \E error \in BOOLEAN : LeaveBody(p, error)
          \/ ReleaseStep(p)
          \/ LoseSession(p) \/ Crash(p) \/ Restart(p)
    \/ ReapOrphan

LockSpec == LockInit /\ [][LockNext]_lockVars
-----------------------------------------------------------------------------
(* The lock is on a pod's session exactly while that pod is inside the     *)
(* with-block and has not lost its session: no path out of the block (a    *)
(* return, an exception, a timeout, a failed or refused unlock, a kill)    *)
(* leaves the lock on a session that goes back to the connection pool.     *)
LockFollowsBody ==
    \A p \in Pods : lock = p <=> InBody(p) /\ ~broken[p]

(* Two pods are in the protected block at the same time only when one of   *)
(* them has lost the session that carried its lock.                        *)
MutualExclusion ==
    \A p, q \in Pods :
        p # q /\ InBody(p) /\ InBody(q) => broken[p] \/ broken[q]

(* A run that exits with status 0 held the lock from the first to the last *)
(* statement of its setup: a lock lost in between is found by the unlock,  *)
(* whichever way it was lost, and turned into a failure.                   *)
SuccessMeansHeld ==
    \A p \in Pods : phase[p] = "done" => ~broken[p]

(* Nobody but the holder ends a hold: as long as a pod stays in the block  *)
(* and keeps its session, no other pod's polling, timing out, unlocking or *)
(* dying takes the lock away from it.                                      *)
HoldNotStolen ==
    [][\A p \in Pods :
          lock = p /\ lock' # p => ~InBody(p)' \/ broken'[p]]_lockVars

(* Every run ends: a pod waits for the lock no longer than its deadline,   *)
(* even when the holder is dead.                                           *)
EveryRunEnds ==
    \A p \in Pods : phase[p] \notin Ended ~> phase[p] \in Ended

(* The lock always comes free again, whoever dies holding it.              *)
LockComesFree == lock # Free ~> lock = Free

(* A run that has not acquired the lock yet has not lost it either.        *)
FreshUnbroken ==
    \A p \in Pods : phase[p] \in {"start", "trying"} => ~broken[p]

(* A pod whose connection is broken or closed does not have the lock: the  *)
(* unlock of a broken connection leaves nothing behind on it.              *)
HeldOnOpenSession ==
    \A p \in Pods : lock = p => conn[p] = "open"

(* The inductive invariant of the lock: the agreement of the lock with the *)
(* block, and the facts about fresh runs and broken connections it needs.  *)
LockIInv ==
    /\ LockTypeOK
    /\ LockFollowsBody
    /\ HeldOnOpenSession
    /\ FreshUnbroken
    /\ SuccessMeansHeld

(* The protocol keeps the abstract promise.                                *)
Promise == INSTANCE LockPromise WITH
    inside    <- {p \in Pods : InBody(p) /\ ~broken[p]},
    stray     <- {p \in Pods : InBody(p) /\ broken[p]},
    completed <- {p \in Pods : phase[p] = "done"}

(* Refinement: each step of the protocol is a step of LockPromise or       *)
(* invisible to it.                                                        *)
KeepsPromise == Promise!PromiseSpec
=============================================================================
