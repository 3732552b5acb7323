\* Release: escrow leaves the contract whoever stops receiving, if Stello persists.
SPECIFICATION FairSpec
CONSTANTS
    I128_MAX = 1000000000
    U32_MAX = 10499
    U64_MAX = 3
    Address <- MCAddress
    Contract = "escrow"
    Nobody = "nobody"
    Donations = {}
    Clawbacks = {}
    Refusers = {"bob", "qa"}
    BookingRef = {"r1", "r2"}
    Configs <- MCConfigs
    AmountArgs = {10003}
    StartTimeArgs = {3628801}
    BpsArgs <- AllToOne
    Wasms = {"v1", "v2"}
    InitialBalance <- MCInitialBalance
    LedgerTimes = {1}
PROPERTIES
    EveryEscrowReleased
CHECK_DEADLOCK FALSE
