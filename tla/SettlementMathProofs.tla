------------------------ MODULE SettlementMathProofs ------------------------
(***************************************************************************)
(* Facts about SettlementMath for every amount and every allocation.       *)
(***************************************************************************)
EXTENDS SettlementMath, TLAPS

\* The quotient and remainder of an amount put it together again.
LEMMA QuotientRemainder ==
    ASSUME NEW amount \in Nat
    PROVE  /\ amount \div BPS_DENOM \in Nat
           /\ amount % BPS_DENOM \in 0 .. (BPS_DENOM - 1)
           /\ amount = BPS_DENOM * (amount \div BPS_DENOM) + (amount % BPS_DENOM)
  BY DEF BPS_DENOM

\* A division of naturals rounds down, by less than one.
LEMMA FloorOfQuotient ==
    ASSUME NEW n \in Nat
    PROVE  /\ n \div BPS_DENOM \in Nat
           /\ BPS_DENOM * (n \div BPS_DENOM) <= n
           /\ n < BPS_DENOM * (n \div BPS_DENOM) + BPS_DENOM
  BY DEF BPS_DENOM

\* A product of natural numbers is one.
LEMMA ProductNat ==
    ASSUME NEW a \in Nat, NEW b \in Nat
    PROVE  a * b \in Nat
  BY Z3

\* BpsFloor is the floor of amount * bps / BPS_DENOM (split.rs: "exact
\* floor(amount * bps / 10_000) semantics").
THEOREM BpsFloorIsFloor ==
    ASSUME NEW amount \in Nat, NEW bps \in Nat
    PROVE  /\ BpsFloor(amount, bps) \in Nat
           /\ BPS_DENOM * BpsFloor(amount, bps) <= amount * bps
           /\ amount * bps < BPS_DENOM * BpsFloor(amount, bps) + BPS_DENOM
  <1> DEFINE q == amount \div BPS_DENOM
             r == amount % BPS_DENOM
             low == (r * bps) \div BPS_DENOM
  <1>1. q \in Nat /\ r \in Nat /\ amount = BPS_DENOM * q + r
    BY QuotientRemainder DEF BPS_DENOM
  <1>2. r * bps \in Nat /\ q * bps \in Nat
    BY <1>1, ProductNat
  <1>3. /\ low \in Nat
        /\ BPS_DENOM * low <= r * bps
        /\ r * bps < BPS_DENOM * low + BPS_DENOM
    BY <1>2, FloorOfQuotient
  <1>4. BpsFloor(amount, bps) = q * bps + low
    BY DEF BpsFloor
  <1> HIDE DEF q, r, low
  <1>5. amount * bps = BPS_DENOM * (q * bps) + r * bps
    BY <1>1 DEF BPS_DENOM
  <1> QED
    BY <1>2, <1>3, <1>4, <1>5 DEF BPS_DENOM
-----------------------------------------------------------------------------
(* Allocations: basis points b that add up to BPS_DENOM.                   *)

\* The sum of six naturals is a natural that bounds each of them.
LEMMA SumBounds ==
    ASSUME NEW s \in Shares
    PROVE  /\ Sum(s) \in Nat
           /\ \A r \in Roles : s[r] \in Nat /\ s[r] <= Sum(s)
  <1>1. \A r \in Roles : s[r] \in Nat
    BY DEF Shares
  <1>2. /\ s["traveller"] \in Nat /\ s["host"] \in Nat /\ s["ops"] \in Nat
        /\ s["review"] \in Nat /\ s["qa"] \in Nat /\ s["o2o"] \in Nat
    BY <1>1 DEF Roles
  <1> QED
    BY <1>2 DEF Sum, Roles

\* Adding to one share adds to the sum.
LEMMA SumExcept ==
    ASSUME NEW s \in [Roles -> Int], NEW d \in Roles, NEW n \in Int
    PROVE  Sum([s EXCEPT ![d] = @ + n]) = Sum(s) + n
  <1>1. /\ s["traveller"] \in Int /\ s["host"] \in Int /\ s["ops"] \in Int
        /\ s["review"] \in Int /\ s["qa"] \in Int /\ s["o2o"] \in Int
    BY DEF Roles
  <1> QED
    BY <1>1 DEF Sum, Roles

\* Every floor is a natural number.
LEMMA FloorsAreShares ==
    ASSUME NEW amount \in Nat, NEW b \in Shares
    PROVE  Floors(amount, b) \in Shares
  BY BpsFloorIsFloor DEF Floors, Shares

\* What the floors leave undistributed is at most five units: never
\* negative, because the floors do not exceed their shares, and less than
\* six, because each of the six floors loses less than one unit.
LEMMA RemainderBound ==
    ASSUME NEW amount \in Nat, NEW b \in Shares, Sum(b) = BPS_DENOM
    PROVE  Remainder(amount, b) \in 0 .. 5
  <1> DEFINE F(r) == BpsFloor(amount, b[r])
  <1>1. \A r \in Roles : b[r] \in Nat
    BY DEF Shares
  <1>2. \A r \in Roles : /\ F(r) \in Nat
                         /\ BPS_DENOM * F(r) <= amount * b[r]
                         /\ amount * b[r] < BPS_DENOM * F(r) + BPS_DENOM
                         /\ amount * b[r] \in Nat
    BY <1>1, BpsFloorIsFloor, ProductNat
  <1>3. Remainder(amount, b) =
          amount - (F("traveller") + F("host") + F("ops")
                      + F("review") + F("qa") + F("o2o"))
    BY DEF Remainder, Sum, Floors, Roles
  <1>4. amount * b["traveller"] + amount * b["host"] + amount * b["ops"]
          + amount * b["review"] + amount * b["qa"] + amount * b["o2o"]
          = amount * BPS_DENOM
    <2>1. /\ b["traveller"] \in Nat /\ b["host"] \in Nat /\ b["ops"] \in Nat
          /\ b["review"] \in Nat /\ b["qa"] \in Nat /\ b["o2o"] \in Nat
      BY <1>1 DEF Roles
    <2> QED
      BY <2>1 DEF Sum
  <1> DEFINE P(r) == amount * b[r]
  <1> HIDE DEF F
  <1>5. \A r \in Roles : /\ F(r) \in Nat /\ P(r) \in Nat
                         /\ BPS_DENOM * F(r) <= P(r)
                         /\ P(r) < BPS_DENOM * F(r) + BPS_DENOM
    BY <1>2
  <1>6. P("traveller") + P("host") + P("ops") + P("review") + P("qa") + P("o2o")
          = amount * BPS_DENOM
    BY <1>4
  <1> HIDE DEF P
  <1>7. PICK f1, f2, f3, f4, f5, f6 \in Nat :
          /\ f1 = F("traveller") /\ f2 = F("host") /\ f3 = F("ops")
          /\ f4 = F("review") /\ f5 = F("qa") /\ f6 = F("o2o")
    BY <1>5 DEF Roles
  <1>8. PICK p1, p2, p3, p4, p5, p6 \in Nat :
          /\ p1 = P("traveller") /\ p2 = P("host") /\ p3 = P("ops")
          /\ p4 = P("review") /\ p5 = P("qa") /\ p6 = P("o2o")
    BY <1>5 DEF Roles
  <1>9. /\ 10000 * f1 <= p1 /\ p1 < 10000 * f1 + 10000
        /\ 10000 * f2 <= p2 /\ p2 < 10000 * f2 + 10000
        /\ 10000 * f3 <= p3 /\ p3 < 10000 * f3 + 10000
        /\ 10000 * f4 <= p4 /\ p4 < 10000 * f4 + 10000
        /\ 10000 * f5 <= p5 /\ p5 < 10000 * f5 + 10000
        /\ 10000 * f6 <= p6 /\ p6 < 10000 * f6 + 10000
    BY <1>5, <1>7, <1>8 DEF Roles, BPS_DENOM
  <1>10. p1 + p2 + p3 + p4 + p5 + p6 = amount * 10000
    BY <1>6, <1>8 DEF BPS_DENOM
  <1>11. amount - (f1 + f2 + f3 + f4 + f5 + f6) \in 0 .. 5
    BY <1>9, <1>10
  <1> QED
    BY <1>3, <1>7, <1>11

\* Every allocation divides the amount completely into natural shares
\* (split.rs, refund.rs: the final MathError checks can never fire), the
\* recipient of the dust gets at most five units more than its floor, and
\* everybody else exactly the floor.
THEOREM AllocationExact ==
    ASSUME NEW amount \in Nat, NEW b \in Shares, Sum(b) = BPS_DENOM,
           NEW dust \in Roles
    PROVE  /\ Allocate(amount, b, dust) \in Shares
           /\ Sum(Allocate(amount, b, dust)) = amount
           /\ \A r \in Roles :
                Allocate(amount, b, dust)[r] - BpsFloor(amount, b[r])
                  \in IF r = dust THEN 0 .. 5 ELSE {0}
  <1>1. Floors(amount, b) \in Shares /\ Remainder(amount, b) \in 0 .. 5
    BY FloorsAreShares, RemainderBound
  <1>2. Sum(Floors(amount, b)) \in Nat
    BY <1>1, SumBounds
  <1>3. Sum(Allocate(amount, b, dust)) = amount
    <2>1. Floors(amount, b) \in [Roles -> Int]
      BY <1>1 DEF Shares
    <2>2. Sum(Allocate(amount, b, dust))
             = Sum(Floors(amount, b)) + Remainder(amount, b)
      <3> DEFINE f == Floors(amount, b)
                 n == Remainder(amount, b)
      <3>1. f \in [Roles -> Int] /\ n \in Int
        BY <2>1, <1>1
      <3>2. Allocate(amount, b, dust) = [f EXCEPT ![dust] = @ + n]
        BY DEF Allocate
      <3> HIDE DEF f, n
      <3>3. Sum([f EXCEPT ![dust] = @ + n]) = Sum(f) + n
        BY <3>1, SumExcept
      <3> QED
        BY <3>2, <3>3 DEF f, n
    <2> QED
      BY <2>2, <1>2 DEF Remainder
  <1>4. Allocate(amount, b, dust) \in Shares
    BY <1>1 DEF Allocate, Shares
  <1>5. \A r \in Roles : Floors(amount, b)[r] = BpsFloor(amount, b[r])
                           /\ BpsFloor(amount, b[r]) \in Nat
    BY BpsFloorIsFloor DEF Floors, Shares
  <1>6. \A r \in Roles :
            Allocate(amount, b, dust)[r] - BpsFloor(amount, b[r])
              \in IF r = dust THEN 0 .. 5 ELSE {0}
    BY <1>1, <1>5 DEF Allocate, Shares
  <1> QED
    BY <1>3, <1>4, <1>6
-----------------------------------------------------------------------------
(* No checked operation overflows.                                         *)

\* A factor of a product that is at most m is at most m \div the other.
LEMMA QuotientFits ==
    ASSUME NEW a \in Nat, NEW b \in Nat, b > 0, NEW m \in Nat, a * b <= m
    PROVE  a <= m \div b
  <1> DEFINE k == m \div b
             r == m % b
  <1>1. k \in Nat /\ r \in Nat /\ r < b /\ m = b * k + r
    BY Z3
  <1> HIDE DEF k, r
  <1>2. SUFFICES ASSUME a >= k + 1 PROVE FALSE
    BY <1>1 DEF k
  <1>3. a * b >= (k + 1) * b
    BY <1>1, <1>2, Z3
  <1>4. (k + 1) * b = b * k + b
    BY <1>1, Z3
  <1> QED
    BY <1>1, <1>3, <1>4, ProductNat

\* The floor of a share of at most the whole never overflows an i128, for
\* any amount an i128 holds (split.rs: "supporting the full non-negative
\* i128 range").
THEOREM BpsFloorNeverOverflows ==
    ASSUME NEW amount \in 0 .. I128_MAX, NEW bps \in Nat, bps <= BPS_DENOM
    PROVE  BpsFloorFits(amount, bps)
  <1> DEFINE q == amount \div BPS_DENOM
             r == amount % BPS_DENOM
             low == (r * bps) \div BPS_DENOM
  <1>1. I128_MAX \in Nat /\ BPS_DENOM * BPS_DENOM <= I128_MAX /\ amount \in Nat
          /\ bps \in Nat /\ bps <= BPS_DENOM
    BY IntWidths DEF BPS_DENOM
  <1>2. q \in Nat /\ r \in Nat /\ r < BPS_DENOM /\ amount = BPS_DENOM * q + r
    BY <1>1, QuotientRemainder DEF BPS_DENOM
  <1>3. /\ q * bps \in Nat /\ r * bps \in Nat
        /\ q * bps <= q * BPS_DENOM /\ r * bps <= r * BPS_DENOM
    <2> HIDE DEF q, r
    <2>1. q * bps \in Nat /\ r * bps \in Nat
      BY <1>1, <1>2, ProductNat
    <2>2. PICK e \in Nat : bps + e = BPS_DENOM
      BY <1>1 DEF BPS_DENOM
    <2>3. q * e \in Nat /\ r * e \in Nat
      BY <1>2, <2>2, ProductNat
    <2>4. q * BPS_DENOM = q * bps + q * e /\ r * BPS_DENOM = r * bps + r * e
      BY <1>1, <1>2, <2>2, Z3
    <2> QED
      BY <1>2, <2>1, <2>3, <2>4 DEF BPS_DENOM
  <1>4. /\ low \in Nat /\ BPS_DENOM * low <= r * bps
    BY <1>3, FloorOfQuotient
  <1> HIDE DEF q, r, low
  <1>5. q * bps <= I128_MAX /\ r * bps <= I128_MAX /\ q * bps + low <= I128_MAX
    <2>1. q * bps <= 10000 * q /\ r * bps <= 10000 * r
      BY <1>2, <1>3 DEF BPS_DENOM
    <2>2. amount = 10000 * q + r /\ r < 10000 /\ 10000 * low <= r * bps
            /\ 10000 * 10000 <= I128_MAX
      BY <1>1, <1>2, <1>4 DEF BPS_DENOM
    <2>3. low <= r
      BY <1>2, <1>3, <1>4, <2>1, <2>2
    <2> QED
      BY <1>1, <1>2, <1>3, <1>4, <2>1, <2>2, <2>3
  <1>6. MulFits(q, bps) /\ MulFits(r, bps)
    BY <1>1, <1>2, <1>5, QuotientFits DEF MulFits
  <1>7. AddFits(q * bps, low)
    BY <1>1, <1>3, <1>4, <1>5 DEF AddFits
  <1> QED
    BY <1>1, <1>6, <1>7 DEF BpsFloorFits, q, r, low

\* An allocation of any positive i128 amount passes every check the code
\* makes on it.
THEOREM AllocationNeverFails ==
    ASSUME NEW amount \in 1 .. I128_MAX, NEW b \in Shares, Sum(b) = BPS_DENOM,
           NEW dust \in Roles
    PROVE  AllocateFits(amount, b, dust)
  <1>1. I128_MAX \in Nat
    BY IntWidths
  <1>2. amount \in Nat /\ amount > 0 /\ amount \in 0 .. I128_MAX
    BY <1>1
  <1>3. \A r \in Roles : b[r] \in Nat /\ b[r] <= BPS_DENOM
    BY SumBounds
  <1> QED
    BY <1>2, <1>3, BpsFloorNeverOverflows, AllocationExact DEF AllocateFits

-----------------------------------------------------------------------------
(* The three settlements.                                                  *)

\* The completion shares add up to the whole.
LEMMA CompletionBpsSum ==
    COMPLETION_BPS \in Shares /\ Sum(COMPLETION_BPS) = BPS_DENOM
  BY DEF COMPLETION_BPS, Shares, Sum, Roles, BPS_DENOM

\* So do the refund shares of every window.
LEMMA RefundBpsSum ==
    ASSUME NEW until
    PROVE  /\ RefundBps(until) \in Shares
           /\ Sum(RefundBps(until)) = BPS_DENOM
           /\ RefundDust(RefundBps(until)) = "ops"
  BY DEF RefundBps, RefundDust, CancelShares, Shares, Sum, Roles, BPS_DENOM

\* However large the booking and whenever it is cancelled, the completion
\* split, the traveller's refund and an accepted dispute allocation succeed
\* and divide the whole escrow into natural shares.
THEOREM SettlementsExact ==
    ASSUME NEW amount \in 1 .. I128_MAX
    PROVE  /\ CompletionSplitFits(amount)
           /\ CompletionSplit(amount) \in Shares
           /\ Sum(CompletionSplit(amount)) = amount
           /\ \A start, t \in Nat :
                /\ TravellerRefundFits(amount, start, t)
                /\ TravellerRefund(amount, start, t) \in Shares
                /\ Sum(TravellerRefund(amount, start, t)) = amount
           /\ \A bps \in Shares : ValidBps(bps) =>
                /\ BpsAmountsFits(amount, bps)
                /\ BpsAmounts(amount, bps) \in Shares
                /\ Sum(BpsAmounts(amount, bps)) = amount
  <1>1. amount \in Nat
    BY IntWidths
  <1>2. "host" \in Roles /\ "ops" \in Roles /\ "traveller" \in Roles
    BY DEF Roles
  <1>3. /\ CompletionSplitFits(amount)
        /\ CompletionSplit(amount) \in Shares
        /\ Sum(CompletionSplit(amount)) = amount
    BY <1>1, <1>2, CompletionBpsSum, AllocationExact, AllocationNeverFails
       DEF CompletionSplit, CompletionSplitFits
  <1>4. ASSUME NEW start \in Nat, NEW t \in Nat
        PROVE  /\ TravellerRefundFits(amount, start, t)
               /\ TravellerRefund(amount, start, t) \in Shares
               /\ Sum(TravellerRefund(amount, start, t)) = amount
    BY <1>1, <1>2, RefundBpsSum, AllocationExact, AllocationNeverFails
       DEF TravellerRefund, TravellerRefundFits
  <1>5. ASSUME NEW bps \in Shares, ValidBps(bps)
        PROVE  /\ BpsAmountsFits(amount, bps)
               /\ BpsAmounts(amount, bps) \in Shares
               /\ Sum(BpsAmounts(amount, bps)) = amount
    BY <1>1, <1>2, <1>5, AllocationExact, AllocationNeverFails
       DEF BpsAmounts, BpsAmountsFits, ValidBps
  <1> QED
    BY <1>3, <1>4, <1>5
-----------------------------------------------------------------------------
(* The refund of a traveller who cancels.                                  *)

\* Nothing of nothing: a share of no basis points is zero.
LEMMA BpsFloorZero ==
    ASSUME NEW amount \in Nat
    PROVE  BpsFloor(amount, 0) = 0
  <1>1. BpsFloor(amount, 0) \in Nat /\ BPS_DENOM * BpsFloor(amount, 0) <= amount * 0
    BY BpsFloorIsFloor
  <1> QED
    BY <1>1 DEF BPS_DENOM

\* A refund pays three parties, and only operations gets more than the floor.
LEMMA RefundShares ==
    ASSUME NEW amount \in Nat, NEW start, NEW t
    PROVE  LET b      == RefundBps(UntilStart(start, t))
               shares == TravellerRefund(amount, start, t)
           IN  /\ shares["traveller"] = BpsFloor(amount, b["traveller"])
               /\ shares["traveller"] + shares["host"] + shares["ops"] = amount
  <1> DEFINE b      == RefundBps(UntilStart(start, t))
             shares == TravellerRefund(amount, start, t)
  <1>1. b \in Shares /\ Sum(b) = BPS_DENOM /\ RefundDust(b) = "ops"
    BY RefundBpsSum
  <1>2. b["review"] = 0 /\ b["qa"] = 0 /\ b["o2o"] = 0
    BY DEF RefundBps, CancelShares, Roles
  <1>3. shares = Allocate(amount, b, "ops")
    BY <1>1 DEF TravellerRefund
  <1> HIDE DEF b, shares
  <1>4. /\ shares \in Shares /\ Sum(shares) = amount
        /\ \A r \in Roles : shares[r] - BpsFloor(amount, b[r])
                              \in IF r = "ops" THEN 0 .. 5 ELSE {0}
    BY <1>1, <1>3, AllocationExact DEF Roles
  <1>5. \A r \in Roles : shares[r] \in Nat /\ BpsFloor(amount, b[r]) \in Nat
    BY <1>1, <1>4, BpsFloorIsFloor DEF Shares
  <1>6. \A r \in Roles \ {"ops"} : shares[r] = BpsFloor(amount, b[r])
    BY <1>4, <1>5
  <1>7. shares["review"] = 0 /\ shares["qa"] = 0 /\ shares["o2o"] = 0
    BY <1>2, <1>6, BpsFloorZero DEF Roles
  <1>8. shares["traveller"] + shares["host"] + shares["ops"] = amount
    <2>1. /\ shares["traveller"] \in Nat /\ shares["host"] \in Nat
          /\ shares["ops"] \in Nat
      BY <1>5 DEF Roles
    <2> QED
      BY <1>4, <1>7, <2>1 DEF Sum
  <1> QED
    BY <1>6, <1>8 DEF Roles, b, shares

\* The part of the escrow that goes back falls from window to window.
LEMMA RefundWindows ==
    ASSUME NEW start \in Nat, NEW s \in Nat, NEW t \in Nat, s <= t
    PROVE  LET early == RefundBps(UntilStart(start, s))["traveller"]
               late  == RefundBps(UntilStart(start, t))["traveller"]
           IN  /\ <<late, early>> \in { <<0, 0>>, <<0, 5000>>, <<0, 7000>>,
                                        <<5000, 5000>>, <<5000, 7000>>, <<7000, 7000>> }
               /\ t >= start => late = 0
  <1>1. /\ UntilStart(start, s) \in Nat /\ UntilStart(start, t) \in Nat
        /\ UntilStart(start, t) <= UntilStart(start, s)
        /\ t >= start => UntilStart(start, t) = 0
    BY DEF UntilStart
  <1>2. \A until \in Nat : RefundBps(until)["traveller"]
           = IF until >= FOUR_WEEKS THEN 7000
             ELSE IF until >= TWO_WEEKS THEN 5000 ELSE 0
    BY DEF RefundBps, CancelShares, Roles
  <1> QED
    BY <1>1, <1>2 DEF FOUR_WEEKS, TWO_WEEKS, SECONDS_PER_WEEK

\* Whatever the amount and the start time, waiting never improves a
\* traveller's refund, and from the start on it is nil (refund.rs: "saturating_sub(now)
\* as time-until-start").
THEOREM RefundFalls ==
    ASSUME NEW amount \in Nat, NEW start \in Nat, NEW s \in Nat, NEW t \in Nat,
           s <= t
    PROVE  /\ TravellerRefund(amount, start, t)["traveller"] \in Nat
           /\ TravellerRefund(amount, start, s)["traveller"] \in Nat
           /\ TravellerRefund(amount, start, t)["traveller"]
                <= TravellerRefund(amount, start, s)["traveller"]
           /\ t >= start => TravellerRefund(amount, start, t)["traveller"] = 0
  <1> DEFINE early == RefundBps(UntilStart(start, s))["traveller"]
             late  == RefundBps(UntilStart(start, t))["traveller"]
  <1>1. /\ TravellerRefund(amount, start, s)["traveller"] = BpsFloor(amount, early)
        /\ TravellerRefund(amount, start, t)["traveller"] = BpsFloor(amount, late)
    BY RefundShares
  <1>2. /\ <<late, early>> \in { <<0, 0>>, <<0, 5000>>, <<0, 7000>>,
                                 <<5000, 5000>>, <<5000, 7000>>, <<7000, 7000>> }
        /\ t >= start => late = 0
    BY RefundWindows
  <1> HIDE DEF early, late
  <1>3. /\ BpsFloor(amount, 0) = 0
        /\ BpsFloor(amount, 5000) \in Nat /\ BpsFloor(amount, 7000) \in Nat
        /\ BPS_DENOM * BpsFloor(amount, 5000) <= amount * 5000
        /\ amount * 7000 < BPS_DENOM * BpsFloor(amount, 7000) + BPS_DENOM
    <2>1. ASSUME NEW n \in Nat
          PROVE  /\ BpsFloor(amount, n) \in Nat
                 /\ BPS_DENOM * BpsFloor(amount, n) <= amount * n
                 /\ amount * n < BPS_DENOM * BpsFloor(amount, n) + BPS_DENOM
      BY BpsFloorIsFloor
    <2>2. PICK f \in Nat : f = BpsFloor(amount, 5000)
      BY <2>1
    <2>3. PICK g \in Nat : g = BpsFloor(amount, 7000)
      BY <2>1
    <2>4. BPS_DENOM * f <= amount * 5000
      BY <2>1, <2>2
    <2>5. amount * 7000 < BPS_DENOM * g + BPS_DENOM
      BY <2>1, <2>3
    <2> QED
      BY <2>2, <2>3, <2>4, <2>5, BpsFloorZero
  <1>4. BpsFloor(amount, 5000) <= BpsFloor(amount, 7000)
    BY <1>3 DEF BPS_DENOM
  <1>5. BpsFloor(amount, late) \in Nat /\ BpsFloor(amount, early) \in Nat
    BY <1>2, <1>3
  <1>6. BpsFloor(amount, late) <= BpsFloor(amount, early)
    BY <1>2, <1>3, <1>4
  <1> QED
    BY <1>1, <1>2, <1>3, <1>5, <1>6
-----------------------------------------------------------------------------
(* The completion split, in percent.                                       *)

\* A hundred basis points are one percent: the share of a role is the floor
\* of its percentage.
LEMMA PercentFloor ==
    ASSUME NEW amount \in Nat, NEW n \in Nat
    PROVE  BpsFloor(amount, 100 * n) = (amount * n) \div 100
  <1> DEFINE f == BpsFloor(amount, 100 * n)
             m == amount * n
  <1>1. m \in Nat /\ 100 * n \in Nat
    BY ProductNat
  <1>2. amount * (100 * n) = 100 * m
    BY Z3
  <1>3. f \in Nat /\ BPS_DENOM * f <= 100 * m /\ 100 * m < BPS_DENOM * f + BPS_DENOM
    BY <1>1, <1>2, BpsFloorIsFloor
  <1> HIDE DEF f, m
  <1>4. 100 * f <= m /\ m < 100 * f + 100
    BY <1>1, <1>3 DEF BPS_DENOM
  <1>5. m \div 100 = f
    BY <1>1, <1>3, <1>4
  <1> QED
    BY <1>5 DEF f, m

\* The pools get 10, 5, 3 and 2 percent, rounded down, and the host the rest
\* (split.rs: "Host 80%, Ops 10%, Review 5%, QA 3%, O2O 2%").
LEMMA SplitShares ==
    ASSUME NEW amount \in Nat
    PROVE  LET s      == CompletionSplit(amount)
               Pct(n) == (amount * n) \div 100
           IN  /\ s \in Shares
               /\ s["traveller"] = 0
               /\ s["ops"] = Pct(10) /\ s["review"] = Pct(5)
               /\ s["qa"] = Pct(3) /\ s["o2o"] = Pct(2)
               /\ s["host"] = amount - Pct(10) - Pct(5) - Pct(3) - Pct(2)
  <1> DEFINE s == CompletionSplit(amount)
  <1>1. COMPLETION_BPS \in Shares /\ Sum(COMPLETION_BPS) = BPS_DENOM
    BY CompletionBpsSum
  <1>2. s = Allocate(amount, COMPLETION_BPS, "host") /\ "host" \in Roles
    BY DEF CompletionSplit, Roles
  <1> HIDE DEF s
  <1>3. /\ s \in Shares /\ Sum(s) = amount
        /\ \A r \in Roles : s[r] - BpsFloor(amount, COMPLETION_BPS[r])
                              \in IF r = "host" THEN 0 .. 5 ELSE {0}
    BY <1>1, <1>2, AllocationExact
  <1>4. \A r \in Roles : s[r] \in Nat /\ BpsFloor(amount, COMPLETION_BPS[r]) \in Nat
    BY <1>1, <1>3, BpsFloorIsFloor DEF Shares
  <1>5. \A r \in Roles \ {"host"} : s[r] = BpsFloor(amount, COMPLETION_BPS[r])
    BY <1>3, <1>4
  <1>6. /\ COMPLETION_BPS["traveller"] = 0
        /\ COMPLETION_BPS["ops"] = 100 * 10 /\ COMPLETION_BPS["review"] = 100 * 5
        /\ COMPLETION_BPS["qa"] = 100 * 3 /\ COMPLETION_BPS["o2o"] = 100 * 2
    BY DEF COMPLETION_BPS, Roles
  <1>7. /\ s["traveller"] = 0
        /\ s["ops"] = (amount * 10) \div 100 /\ s["review"] = (amount * 5) \div 100
        /\ s["qa"] = (amount * 3) \div 100 /\ s["o2o"] = (amount * 2) \div 100
    <2>1. "traveller" \in Roles /\ {"ops", "review", "qa", "o2o"} \subseteq Roles
      BY DEF Roles
    <2>2. /\ s["traveller"] = BpsFloor(amount, 0)
          /\ s["ops"] = BpsFloor(amount, 100 * 10)
          /\ s["review"] = BpsFloor(amount, 100 * 5)
          /\ s["qa"] = BpsFloor(amount, 100 * 3)
          /\ s["o2o"] = BpsFloor(amount, 100 * 2)
      BY <1>5, <1>6, <2>1
    <2>3. BpsFloor(amount, 0) = 0
      BY BpsFloorZero
    <2>4. /\ BpsFloor(amount, 100 * 10) = (amount * 10) \div 100
          /\ BpsFloor(amount, 100 * 5) = (amount * 5) \div 100
          /\ BpsFloor(amount, 100 * 3) = (amount * 3) \div 100
          /\ BpsFloor(amount, 100 * 2) = (amount * 2) \div 100
      BY PercentFloor
    <2> QED
      BY <2>2, <2>3, <2>4
  <1>8. /\ s["host"] \in Nat /\ s["ops"] \in Nat /\ s["review"] \in Nat
        /\ s["qa"] \in Nat /\ s["o2o"] \in Nat
    BY <1>4 DEF Roles
  <1>9. s["host"] = amount - s["ops"] - s["review"] - s["qa"] - s["o2o"]
    <2>1. s["traveller"] + s["host"] + s["ops"] + s["review"] + s["qa"] + s["o2o"]
            = amount
      BY <1>3 DEF Sum
    <2>2. s["traveller"] = 0
      BY <1>7
    <2> QED
      BY <1>8, <2>1, <2>2
  <1> QED
    BY <1>3, <1>7, <1>9 DEF s
=============================================================================
