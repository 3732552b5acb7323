----------------------- MODULE MCSettlementMathProofs ------------------------
(***************************************************************************)
(* What the walk over the settlement arithmetic checks holds of it for     *)
(* every width of the integers: the properties of MCSettlementMath follow  *)
(* from the theorems about all amounts, instants and allocations.          *)
(***************************************************************************)
EXTENDS MCSettlementMath, SettlementMathProofs

\* The inputs of the walk are amounts an i128 holds, instants, and
\* allocations of naturals.
Inputs == amount \in 1 .. I128_MAX /\ now \in Nat /\ bps \in Shares

\* The chosen amounts fit every width the arithmetic assumes.
LEMMA AmountsFit == Amounts \subseteq 1 .. I128_MAX
  BY IntWidths DEF Amounts, BPS_DENOM

\* The chosen instants and the start are moments in time.
LEMMA InstantsNat == Instants \subseteq Nat /\ StartTime \in Nat
  BY DEF Instants, StartTime, SECONDS_PER_WEEK

\* The chosen allocations, valid or not, are of the type of the argument.
LEMMA BpsInputsShares == BpsInputs \subseteq Shares
  <1>1. \A t, h, o, rv, q, p \in Nat : Bps(t, h, o, rv, q, p) \in Shares
    BY DEF Bps, Shares, Roles
  <1>2. /\ Bps(10000, 0, 0, 0, 0, 0) \in Shares
        /\ Bps(0, 0, 0, 0, 0, 10000) \in Shares
        /\ Bps(5000, 5000, 0, 0, 0, 0) \in Shares
        /\ Bps(0, 3333, 3333, 3334, 0, 0) \in Shares
        /\ Bps(1667, 1667, 1667, 1667, 1666, 1666) \in Shares
    BY <1>1
  <1>3. /\ Bps(1, 9999, 0, 0, 0, 0) \in Shares
        /\ Bps(5000, 4999, 0, 0, 0, 0) \in Shares
        /\ Bps(5000, 5001, 0, 0, 0, 0) \in Shares
    BY <1>1
  <1>4. Bps(U32_MAX, 10001, 0, 0, 0, 0) \in Shares
    <2>1. U32_MAX \in Nat
      BY IntWidths
    <2> QED
      BY <1>1, <2>1
  <1> QED
    BY <1>2, <1>3, <1>4 DEF BpsInputs

\* The walk stays among those inputs.
LEMMA InputsInvariant == Spec => []Inputs
  <1>1. Init => Inputs
    BY AmountsFit, BpsInputsShares DEF Init, Inputs
  <1>2. Inputs /\ [Next]_vars => Inputs'
    BY AmountsFit, InstantsNat DEF Inputs, Next, NextAmount, TimePasses, vars
  <1> QED
    BY <1>1, <1>2, PTL DEF Spec

\* A wide product is the product: its two parts are those of the division.
LEMMA WideIsProduct ==
    ASSUME NEW a \in Nat, NEW b \in Nat
    PROVE  /\ Wide(a, b).high \in Nat
           /\ Wide(a, b).low \in Nat /\ Wide(a, b).low < Base
           /\ a * b = Base * Wide(a, b).high + Wide(a, b).low
  <1> DEFINE q   == a \div Base
             r   == a % Base
             low == r * b
  <1>1. q \in Nat /\ r \in Nat /\ a = Base * q + r
    BY DEF Base
  <1>2. low \in Nat /\ q * b \in Nat
    BY <1>1, ProductNat
  <1>3. Wide(a, b).high = q * b + low \div Base /\ Wide(a, b).low = low % Base
    BY DEF Wide
  <1> HIDE DEF q, r
  <1>4. a * b = Base * (q * b) + low
    BY <1>1 DEF Base
  <1> HIDE DEF low
  <1>5. /\ low \div Base \in Nat
        /\ (low % Base) \in Nat /\ (low % Base) < Base
        /\ low = Base * (low \div Base) + (low % Base)
    BY <1>2 DEF Base
  <1>6. PICK h \in Nat, m \in Nat : h = low \div Base /\ m = low % Base /\ m < Base
    BY <1>5
  <1>7. PICK p \in Nat : p = q * b
    BY <1>2
  <1>8. Wide(a, b).high = p + h /\ Wide(a, b).low = m
    BY <1>3, <1>6, <1>7
  <1>9. low = Base * h + m /\ a * b = Base * p + low
    BY <1>4, <1>5, <1>6, <1>7
  <1>10. a * b = Base * (p + h) + m
    BY <1>9 DEF Base
  <1> QED
    BY <1>6, <1>8, <1>10

\* Quotients and remainders are in order as the numbers are.
LEMMA PairOrder ==
    ASSUME NEW xh \in Nat, NEW xl \in Nat, xl < Base,
           NEW yh \in Nat, NEW yl \in Nat, yl < Base
    PROVE  Base * xh + xl < Base * yh + yl <=> xh < yh \/ (xh = yh /\ xl < yl)
  <1>1. CASE xh < yh
    <2>1. xh + 1 <= yh
      BY <1>1
    <2> QED
      BY <1>1, <2>1 DEF Base
  <1>2. CASE yh < xh
    <2>1. yh + 1 <= xh
      BY <1>2
    <2> QED
      BY <1>2, <2>1 DEF Base
  <1>3. CASE xh = yh
    BY <1>3 DEF Base
  <1> QED
    BY <1>1, <1>2, <1>3

\* Wide products are in order when the products are.
LEMMA WideOrder ==
    ASSUME NEW a \in Nat, NEW b \in Nat, NEW c \in Nat, NEW d \in Nat
    PROVE  WideLess(Wide(a, b), Wide(c, d)) <=> a * b < c * d
  <1> DEFINE x == Wide(a, b)
             y == Wide(c, d)
  <1>1. /\ x.high \in Nat /\ x.low \in Nat /\ x.low < Base
        /\ a * b = Base * x.high + x.low
    BY WideIsProduct
  <1>2. /\ y.high \in Nat /\ y.low \in Nat /\ y.low < Base
        /\ c * d = Base * y.high + y.low
    BY WideIsProduct
  <1>3. PICK n \in Nat : n = a * b
    BY ProductNat
  <1>4. PICK m \in Nat : m = c * d
    BY ProductNat
  <1> HIDE DEF x, y
  <1>5. n < m <=> x.high < y.high \/ (x.high = y.high /\ x.low < y.low)
    BY <1>1, <1>2, <1>3, <1>4, PairOrder
  <1> QED
    BY <1>3, <1>4, <1>5 DEF WideLess, x, y

\* For every amount of the walk, the top of the i128 range included, and
\* every share in use, the floor computed by quotient and remainder is the
\* floor of the product (split.rs: "exact floor(amount * bps / 10_000)").
THEOREM FloorAlwaysExact == Spec => []FloorIsExact
  <1>1. ASSUME Inputs
        PROVE  FloorIsExact
    <2>1. amount \in 1 .. I128_MAX /\ amount \in Nat /\ ShareBps \subseteq Nat
      BY <1>1, IntWidths DEF Inputs, ShareBps
    <2>2. ASSUME NEW b \in ShareBps
          PROVE  LET f == BpsFloor(amount, b)
                 IN  /\ ~WideLess(Wide(amount, b), Wide(f, BPS_DENOM))
                     /\ WideLess(Wide(amount, b), Wide(f + 1, BPS_DENOM))
      <3>1. b \in Nat /\ BPS_DENOM \in Nat
        BY <2>1 DEF BPS_DENOM
      <3>2. PICK f \in Nat : f = BpsFloor(amount, b)
        BY <2>1, <3>1, BpsFloorIsFloor
      <3>3. PICK n \in Nat : n = amount * b
        BY <2>1, <3>1, ProductNat
      <3>4. f * BPS_DENOM <= n /\ n < (f + 1) * BPS_DENOM /\ f + 1 \in Nat
        <4>1. BPS_DENOM * f <= n /\ n < BPS_DENOM * f + BPS_DENOM
          BY <2>1, <3>1, <3>2, <3>3, BpsFloorIsFloor
        <4> QED
          BY <4>1 DEF BPS_DENOM
      <3>5. ~WideLess(Wide(amount, b), Wide(f, BPS_DENOM))
        <4>1. ~(n < f * BPS_DENOM)
          BY <3>4 DEF BPS_DENOM
        <4> QED
          BY <2>1, <3>1, <3>3, <4>1, WideOrder
      <3>6. WideLess(Wide(amount, b), Wide(f + 1, BPS_DENOM))
        BY <2>1, <3>1, <3>3, <3>4, WideOrder
      <3> QED
        BY <3>2, <3>5, <3>6
    <2> QED
      BY <2>1, <2>2 DEF FloorIsExact
  <1> QED
    BY <1>1, InputsInvariant, PTL

\* No amount that an i128 holds makes a checked operation of a settlement
\* fail (split.rs and refund.rs: the MathError paths).
THEOREM NeverMathError == Spec => []NoMathError
  <1>1. ASSUME Inputs
        PROVE  NoMathError
    <2>1. Sum(bps) = BPS_DENOM => ValidBps(bps)
      BY IntWidths DEF ValidBps
    <2> QED
      BY <1>1, <2>1, InstantsNat, SettlementsExact DEF Inputs, NoMathError
  <1> QED
    BY <1>1, InputsInvariant, PTL

\* Every settlement pays the whole amount, and nobody more than the whole.
THEOREM AlwaysWholeAmount == Spec => []WholeAmountPaid
  <1>1. ASSUME Inputs
        PROVE  WholeAmountPaid
    <2>1. /\ Sum(Completion) = amount /\ Completion \in Shares
          /\ Sum(Refund) = amount     /\ Refund \in Shares
      BY <1>1, InstantsNat, SettlementsExact DEF Inputs, Completion, Refund
    <2>2. ASSUME ValidBps(bps)
          PROVE  Sum(Dispute) = amount /\ \A r \in Roles : Dispute[r] \in 0 .. amount
      <3>1. Dispute \in Shares /\ Sum(Dispute) = amount
        BY <1>1, <2>2, SettlementsExact DEF Inputs, Dispute
      <3>2. \A r \in Roles : Dispute[r] \in Nat /\ Dispute[r] <= Sum(Dispute)
        BY <3>1, SumBounds
      <3> QED
        BY <1>1, <3>1, <3>2, IntWidths DEF Inputs
    <2> QED
      BY <2>1, <2>2 DEF WholeAmountPaid
  <1> QED
    BY <1>1, InputsInvariant, PTL

\* Rounding moves at most five units, and to the documented party only:
\* host, traveller and operations (split.rs and refund.rs headers).
THEOREM DustAlwaysDocumented == Spec => []DustDocumented
  <1>1. ASSUME Inputs
        PROVE  DustDocumented
    <2>1. ASSUME NEW b \in Shares, Sum(b) = BPS_DENOM, NEW to \in Roles
          PROVE  DustGoes(Allocate(amount, b, to), b, to)
      <3>1. amount \in Nat
        BY <1>1, IntWidths DEF Inputs
      <3>2. \A r \in Roles :
               Allocate(amount, b, to)[r] - BpsFloor(amount, b[r])
                 \in IF r = to THEN 0 .. 5 ELSE {0}
        BY <2>1, <3>1, AllocationExact
      <3> QED
        BY <3>2 DEF DustGoes
    <2>2. DustGoes(Completion, COMPLETION_BPS, "host")
      BY <2>1, CompletionBpsSum DEF Completion, CompletionSplit, Roles
    <2>3. ValidBps(bps) => DustGoes(Dispute, bps, "traveller")
      BY <1>1, <2>1 DEF Inputs, ValidBps, Dispute, BpsAmounts, Roles
    <2>4. DustGoes(Refund, RefundBps(UntilStart(StartTime, now)), "ops")
      <3> DEFINE b == RefundBps(UntilStart(StartTime, now))
      <3>1. b \in Shares /\ Sum(b) = BPS_DENOM /\ RefundDust(b) = "ops"
        BY RefundBpsSum
      <3>2. Refund = Allocate(amount, b, "ops")
        BY <3>1 DEF Refund, TravellerRefund
      <3> HIDE DEF b
      <3>3. DustGoes(Refund, b, "ops")
        BY <2>1, <3>1, <3>2 DEF Roles
      <3> QED
        BY <3>3 DEF b
    <2> QED
      BY <2>2, <2>3, <2>4 DEF DustDocumented
  <1> QED
    BY <1>1, InputsInvariant, PTL

\* Waiting never improves the traveller's refund (refund.rs: "saturating_sub
\* as time-until-start").
THEOREM RefundAlwaysShrinks == Spec => RefundShrinks
  <1> DEFINE Shrinks == now' > now =>
               LET later == TravellerRefund(amount', StartTime, now')
               IN  /\ later["traveller"] <= Refund["traveller"]
                   /\ now' >= StartTime => later["traveller"] = 0
  <1>1. ASSUME Inputs, [Next]_vars
        PROVE  Shrinks
    <2>1. amount \in Nat /\ now \in Nat
      BY <1>1, IntWidths DEF Inputs
    <2> SUFFICES ASSUME now' > now PROVE Shrinks
      OBVIOUS
    <2>2. PICK n \in Nat : n = now
      BY <2>1
    <2>3. now' # n
      BY <2>2
    <2>4. TimePasses
      BY <1>1, <2>2, <2>3 DEF Next, NextAmount, vars
    <2>5. amount' = amount /\ now' \in Nat /\ now <= now'
      BY <2>1, <2>4, InstantsNat DEF TimePasses
    <2> QED
      BY <2>1, <2>5, InstantsNat, RefundFalls DEF Refund
  <1>2. Inputs /\ [Next]_vars => [Shrinks]_vars
    BY <1>1
  <1> QED
    BY <1>2, InputsInvariant, PTL DEF Spec, RefundShrinks
=============================================================================
