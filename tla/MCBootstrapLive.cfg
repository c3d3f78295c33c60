\* Progress of two pods, each started once, one session lost, one pod
\* killed.
CONSTANTS
    p1 = p1
    p2 = p2
    Pods = {p1, p2}
    Free = Free
    Orphan = Orphan
    Unset = Unset
    NotANumber = NotANumber
    TimeoutSettings = {Unset}
    DefaultTimeout = 1
    MaxRuns = 0
    MaxLosses = 1
    MaxCrashes = 1
    chat = chat
    old = old
    new = new
    llm = llm
    Slots = {chat}
    Unmatched = {}
    Secrets = {old, new}
    ModelTypes = {llm}
    TypeOf <- TypeOfChat
    Configs <- OneSecret
    Settings = {{}}
    Unparsable = Unparsable
    NoSlot = NoSlot
    Stores <- EmptyStore
    Worlds <- NewAndOld
    DaemonPolls = 1
    InstallPolls = 1
SPECIFICATION FairSpec
PROPERTIES
    EveryRunEnds
    LockComesFree
CHECK_DEADLOCK FALSE
