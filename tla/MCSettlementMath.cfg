SPECIFICATION Spec
CONSTANTS
    I128_MAX = 1000000000
    U32_MAX = 10499
INVARIANTS
    FloorIsExact
    NoMathError
    WholeAmountPaid
    DustDocumented
PROPERTY RefundShrinks
CHECK_DEADLOCK FALSE
