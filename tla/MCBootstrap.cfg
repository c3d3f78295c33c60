\* Two pods on any installation, each started twice, one killed.
CONSTANTS
    p1 = p1
    p2 = p2
    Pods = {p1, p2}
    Free = Free
    Orphan = Orphan
    Unset = Unset
    NotANumber = NotANumber
    TimeoutSettings = {Unset}
    DefaultTimeout = 1
    MaxRuns = 1
    MaxLosses = 1
    MaxCrashes = 1
    chat = chat
    old = old
    new = new
    llm = llm
    Slots = {chat}
    Unmatched = {}
    Secrets = {old, new}
    ModelTypes = {llm}
    TypeOf <- TypeOfChat
    Configs <- Rotating
    Settings = {{}}
    Unparsable = Unparsable
    NoSlot = NoSlot
    Stores <- EmptyStore
    Worlds <- AllWorlds
    DaemonPolls = 1
    InstallPolls = 1
SPECIFICATION Spec
SYMMETRY PodSymmetry
CONSTRAINT Protected
INVARIANTS
    TypeOK
    KeysNeverMixed
    ReadyToProvision
    AppliedOnSuccess
PROPERTIES
    KeepsLock
    SingleOwner
    NoImplicitWorkspace
    PrivateKeyKept
CHECK_DEADLOCK FALSE
