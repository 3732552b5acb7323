\* Recipients that refuse tokens at any time, hosts that cannot pay the fee,
\* and clawbacks from the escrow pot: settlements host call by host call.
SPECIFICATION CallSpec
CONSTANTS
    I128_MAX = 1000000000
    U32_MAX = 10499
    U64_MAX = 2
    Address <- MCAddress
    Contract = "escrow"
    Nobody = "nobody"
    Donations = {}
    Clawbacks = {4000}
    Refusers <- MCRefusers
    BookingRef = {"r1"}
    Configs <- MCConfigs
    AmountArgs = {0, 10003}
    StartTimeArgs = {1, 3628801}
    BpsArgs <- MCCallBps
    Wasms = {"v1"}
    InitialBalance <- MCInitialBalance
    LedgerTimes <- MCLedgerTimes
INVARIANTS
    Recoverable
PROPERTIES
    CallsAreAtomic
CHECK_DEADLOCK FALSE
