\* Safety of the lock: three pods, each started twice, two lost sessions,
\* one killed process.
CONSTANTS
    p1 = p1
    p2 = p2
    p3 = p3
    Pods <- ThreePods
    Free = Free
    Orphan = Orphan
    Unset = Unset
    NotANumber = NotANumber
    TimeoutSettings <- AnySetting
    DefaultTimeout = 2
    MaxRuns = 1
    MaxLosses = 2
    MaxCrashes = 1
SPECIFICATION LockSpec
SYMMETRY PodSymmetry
INVARIANTS
    LockFollowsBody
    MutualExclusion
    SuccessMeansHeld
    LockIInv
PROPERTIES
    KeepsPromise
CHECK_DEADLOCK FALSE
