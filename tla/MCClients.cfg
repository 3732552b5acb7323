\* Clients: retried, late, lost and stale transactions.
SPECIFICATION ClientsSpec
CONSTANTS
    I128_MAX = 1000000000
    U32_MAX = 10499
    U64_MAX = 3
    Address <- MCAddress
    Contract = "escrow"
    Nobody = "nobody"
    Donations = {}
    Clawbacks = {}
    Refusers = {}
    BookingRef = {"r1", "past"}
    Configs <- MCConfigs
    AmountArgs = {10003, 10007}
    StartTimeArgs = {1, 3628801}
    BpsArgs = {}
    Wasms = {"v1"}
    InitialBalance <- MCPairBalance
    LedgerTimes <- MCLateTimes
    Request <- MCRequest
INVARIANTS
    KnownRight
    GivenUpForGood
PROPERTIES
    PaidAsSigned
    QuoteKept
    RequestsEnd
CHECK_DEADLOCK FALSE
