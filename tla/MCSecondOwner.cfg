\* Two pods on a fresh installation, one database session lost.
CONSTANTS
    p1 = p1
    p2 = p2
    Pods = {p1, p2}
    Free = Free
    Orphan = Orphan
    Unset = Unset
    NotANumber = NotANumber
    TimeoutSettings = {Unset}
    DefaultTimeout = 1
    MaxRuns = 0
    MaxLosses = 1
    MaxCrashes = 0
    chat = chat
    old = old
    new = new
    llm = llm
    Slots = {chat}
    Unmatched = {}
    Secrets = {old, new}
    ModelTypes = {llm}
    TypeOf <- TypeOfChat
    Configs <- NothingConfigured
    Settings = {{}}
    Unparsable = Unparsable
    NoSlot = NoSlot
    Stores <- EmptyStore
    Worlds <- OnlyFresh
    DaemonPolls = 1
    InstallPolls = 1
SPECIFICATION Spec
SYMMETRY PodSymmetry
PROPERTIES
    SingleOwner
CHECK_DEADLOCK FALSE
