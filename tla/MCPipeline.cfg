\* Releases: tags, operator, the wallet's own upgrades and users in every order.
SPECIFICATION PipelineSpec
CONSTANTS
    Tag = {"t1", "t2"}
    Version = {"t1", "t2"}
    ContractId = {c1, c2}
    Unset = Unset
    Invalid = Invalid
    Lost = Lost
    Settings <- MCSettings
    LosesConfig = {"t1"}
    LosesTotal = {"t2"}
    MaxEscrow = 1
    MaxRuns = 3
SYMMETRY ContractSymmetry
INVARIANTS
    LossesAreOwn
PROPERTIES
    ReleasedCodeIsLive
    ReleaseKeepsState
CHECK_DEADLOCK FALSE
