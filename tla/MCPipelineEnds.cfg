\* Every tag comes to an end, with three tags in the queue.
SPECIFICATION PipelineSpec
CONSTANTS
    Tag = {"t1", "t2", "t3"}
    Version = {"t1", "t2", "t3"}
    ContractId = {c1}
    Unset = Unset
    Invalid = Invalid
    Lost = Lost
    Settings <- MCTwoSettings
    LosesConfig = {"t1"}
    LosesTotal = {"t2"}
    MaxEscrow = 0
    MaxRuns = 3
PROPERTIES
    TagsEnd
CHECK_DEADLOCK FALSE
