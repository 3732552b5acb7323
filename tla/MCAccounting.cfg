\* Money: two bookings in one escrow pot, and tokens that arrive unsolicited.
SPECIFICATION Spec
CONSTANTS
    I128_MAX = 1000000000
    U32_MAX = 10499
    U64_MAX = 3
    Address <- MCAddress
    Contract = "escrow"
    Nobody = "nobody"
    Donations = {9000}
    Clawbacks = {}
    Refusers = {}
    BookingRef = {"r1", "r2"}
    Configs <- MCConfigs
    AmountArgs = {0, 10003}
    StartTimeArgs = {1, 3628801}
    BpsArgs <- MCBpsArgs
    Wasms = {"v1"}
    InitialBalance <- MCInitialBalance
    LedgerTimes <- MCLedgerTimes
INVARIANTS
    EscrowAccounted
    AlwaysSolvent
    CancelSettlementSound
PROPERTIES
    SurplusUntouched
    OwnConsent
    PaidAsRecorded
    SplitAsPromised
    ImplementsVault
CHECK_DEADLOCK FALSE
