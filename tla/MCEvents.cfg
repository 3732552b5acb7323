\* The event stream: an indexer that lags behind two bookings.
SPECIFICATION EventsSpec
CONSTANTS
    I128_MAX = 1000000000
    U32_MAX = 10499
    U64_MAX = 3
    Address <- MCPeople
    Contract = "escrow"
    Nobody = "nobody"
    Donations = {}
    Clawbacks = {}
    Refusers = {}
    BookingRef = {"r1", "r2"}
    Configs <- MCConfigs
    AmountArgs = {0, 10003}
    StartTimeArgs = {1, 3628801}
    BpsArgs <- MCMixed
    Wasms = {"v1"}
    InitialBalance <- MCPeopleBalance
    LedgerTimes <- MCTwoTimes
    MaxLag = 3
INVARIANTS
    IndexAgrees
    BooksAgree
    SettlementIsLast
CHECK_DEADLOCK FALSE
