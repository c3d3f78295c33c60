------------------------------ MODULE MCRelease ------------------------------
(* Small instances of Release for TLC.                                     *)
EXTENDS Release, TLC

CONSTANTS api, web

BothPackages == <<api, web>>

\* As the README asks for; coordinated, but partial versions completed from
\* anywhere; the same with worktrees touched; nobody coordinates.
FourPractices ==
    {Agreements, {"exclusive", "stable"}, {"exclusive"}, {"stable"}}
AsDocumented == {Agreements}

OperatorSymmetry == Permutations(Operators)
=============================================================================
