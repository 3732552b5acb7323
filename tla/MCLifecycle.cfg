\* Records: every order of calls on two bookings, with changing terms, up to
\* the last id and the largest total.
SPECIFICATION Spec
CONSTANTS
    I128_MAX = 1000000000
    U32_MAX = 10499
    U64_MAX = 3
    Address <- MCAddress
    Contract = "escrow"
    Nobody = "nobody"
    Donations = {}
    Clawbacks = {}
    Refusers = {}
    BookingRef = {r1, r2, r3}
    Configs <- MCConfigs
    AmountArgs = {0, 7, 600010003}
    StartTimeArgs = {1, 3628801, 4233601}
    BpsArgs <- MCBpsArgs
    Wasms = {"v1"}
    InitialBalance <- MCLimitBalance
    LedgerTimes <- MCLedgerTimes
SYMMETRY RefSymmetry
INVARIANTS
    TypeOK
    RefIndexSound
    LifecycleConsistent
    PartiesDistinct
PROPERTIES
    TermsFrozen
    SettledForever
    OnlyDisputesLoop
CHECK_DEADLOCK FALSE
