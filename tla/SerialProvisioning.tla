-------------------------- MODULE SerialProvisioning --------------------------
(***************************************************************************)
(* A bounded number of provisioning runs, one after the other.             *)
(***************************************************************************)
EXTENDS Provisioning

CONSTANT MaxBegun      \* bound: runs of the script

ASSUME SerialAssumption == MaxBegun \in Nat

VARIABLE begun         \* what the bound has used up

serialVars == <<provisioningVars, begun>>

SerialInit == ProvisioningInit /\ begun = 0

(* The next run starts when nobody is inside.                              *)
Begin(p) ==
    /\ begun < MaxBegun
    /\ begun' = begun + 1
    /\ BeginAlone(p)

(* The one inside goes on.                                                 *)
Continue(p) == Run(p) /\ UNCHANGED begun

SerialNext ==
    \E p \in Pods : Begin(p) \/ Continue(p) \/ (Kill(p) /\ UNCHANGED begun)

SerialSpec == SerialInit /\ [][SerialNext]_serialVars

(* A run that is not killed goes on running.                               *)
FairSerialSpec == SerialSpec /\ \A p \in Pods : WF_serialVars(Continue(p))
-----------------------------------------------------------------------------
(* Every run ends, however many entries it has and whatever it finds.      *)
EveryProvisioningEnds == \A p \in Pods : at[p] # "idle" ~> at[p] = "idle"
=============================================================================
