\* Does a dispute end only by being settled?
SPECIFICATION Spec
CONSTANTS
    I128_MAX = 1000000000
    U32_MAX = 10499
    U64_MAX = 2
    Address <- MCAddress
    Contract = "escrow"
    Nobody = "nobody"
    Donations = {}
    Clawbacks = {}
    Refusers = {}
    BookingRef = {"r1"}
    Configs <- MCConfigs
    AmountArgs = {0, 10003}
    StartTimeArgs = {1, 3628801}
    BpsArgs <- MCBpsArgs
    Wasms = {"v1"}
    InitialBalance <- MCInitialBalance
    LedgerTimes <- MCLedgerTimes
PROPERTIES
    DisputeEndsSettled
CHECK_DEADLOCK FALSE
