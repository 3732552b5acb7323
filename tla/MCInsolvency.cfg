\* Clawbacks from the escrow pot, and donations that repair it.
SPECIFICATION Spec
CONSTANTS
    I128_MAX = 1000000000
    U32_MAX = 10499
    U64_MAX = 3
    Address <- MCAddress
    Contract = "escrow"
    Nobody = "nobody"
    Donations = {9000}
    Clawbacks = {4000, 10003}
    Refusers = {}
    BookingRef = {"r1", "r2"}
    Configs <- MCConfigs
    AmountArgs = {0, 10003}
    StartTimeArgs = {1, 3628801}
    BpsArgs <- AllToOne
    Wasms = {"v1"}
    InitialBalance <- MCInitialBalance
    LedgerTimes = {1}
PROPERTIES
    NeverPaidFromOthers
CHECK_DEADLOCK FALSE
