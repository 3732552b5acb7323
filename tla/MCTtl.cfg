\* Lifetimes: two bookings, used and left idle in every order.
SPECIFICATION TtlSpec
CONSTANTS
    I128_MAX = 1000000000
    U32_MAX = 10499
    U64_MAX = 3
    Address <- MCAddress
    Contract = "escrow"
    Nobody = "nobody"
    Donations = {}
    Clawbacks = {}
    Refusers = {}
    BookingRef = {"r1", "r2"}
    Configs <- MCConfigs
    AmountArgs = {10003}
    StartTimeArgs = {3628801}
    BpsArgs <- MCAllToHost
    Wasms = {"v1"}
    InitialBalance <- MCAliceBalance
    LedgerTimes = {1, 3}
    PERSISTENT_BOOKING_TTL_THRESHOLD = 2
    PERSISTENT_BOOKING_TTL_EXTEND_TO = 4
    PERSISTENT_SETTLEMENT_TTL_THRESHOLD = 2
    PERSISTENT_SETTLEMENT_TTL_EXTEND_TO = 3
    INSTANCE_TTL_THRESHOLD = 2
    INSTANCE_TTL_EXTEND_TO = 4
    MinTtl = 1
    IdleBound = 2
INVARIANTS
    TtlTypeOK
    RefLivesWithBooking
    KeptAliveByUse
    InstanceKeepsUp
CHECK_DEADLOCK FALSE
