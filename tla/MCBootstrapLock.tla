--------------------------- MODULE MCBootstrapLock ---------------------------
(* Small instances of BootstrapLock for TLC.                               *)
EXTENDS BootstrapLock, TLC

CONSTANTS p1, p2, p3

ThreePods == {p1, p2, p3}

\* Unset, refused (not a number, zero, negative) and accepted settings.
AnySetting == {Unset, NotANumber, -1, 0, 1}

PodSymmetry == Permutations(Pods)
=============================================================================
