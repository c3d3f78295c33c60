\* One pod on an installation without a key pair.
CONSTANTS
    p1 = p1
    p2 = p2
    Pods = {p1}
    Free = Free
    Orphan = Orphan
    Unset = Unset
    NotANumber = NotANumber
    TimeoutSettings = {Unset}
    DefaultTimeout = 1
    MaxRuns = 1
    MaxLosses = 0
    MaxCrashes = 0
    chat = chat
    old = old
    new = new
    llm = llm
    Slots = {chat}
    Unmatched = {}
    Secrets = {old, new}
    ModelTypes = {llm}
    TypeOf <- TypeOfChat
    Configs <- NothingConfigured
    Settings = {{}}
    Unparsable = Unparsable
    NoSlot = NoSlot
    Stores <- EmptyStore
    Worlds <- OnlyLegacy
    DaemonPolls = 1
    InstallPolls = 1
SPECIFICATION Spec
SYMMETRY PodSymmetry
INVARIANTS
    KeyPairEnsured
CHECK_DEADLOCK FALSE
