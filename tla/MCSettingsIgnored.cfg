\* MODEL_SETTINGS disables a model that is configured.
CONSTANTS
    Pods = {p1}
    llm1 = llm1
    llm2 = llm2
    odd = odd
    old = old
    new = new
    llm = llm
    rerank = rerank
    Slots <- TheSlots
    Unmatched = {odd}
    Secrets = {old, new}
    ModelTypes = {llm, rerank}
    TypeOf <- TheTypes
    Configs <- TheConfigs
    Settings <- DisablingSettings
    Unparsable = Unparsable
    NoSlot = NoSlot
    Stores <- OnlyEmpty
    MaxBegun = 1
SPECIFICATION SerialSpec
INVARIANTS
    DisabledStaysDisabled
CHECK_DEADLOCK FALSE
