\* Upserts of three runs in a row, each with any configuration, cut short
\* anywhere, on an empty database and on ones that hold two credentials.
CONSTANTS
    Pods = {p1}
    llm1 = llm1
    llm2 = llm2
    odd = odd
    old = old
    new = new
    llm = llm
    rerank = rerank
    Slots <- TheSlots
    Unmatched = {odd}
    Secrets = {old, new}
    ModelTypes = {llm, rerank}
    TypeOf <- TheTypes
    Configs <- TheConfigs
    Settings <- PlainSettings
    Unparsable = Unparsable
    NoSlot = NoSlot
    Stores <- TheStores
    MaxBegun = 3
SPECIFICATION FairSerialSpec
INVARIANTS
    ProvisioningTypeOK
    AppliedAtCompletion
    UsableModels
PROPERTIES
    UpsertsInPlace
    WritesOnlyValidated
    EveryProvisioningEnds
CHECK_DEADLOCK FALSE
