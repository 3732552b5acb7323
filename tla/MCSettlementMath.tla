-------------------------- MODULE MCSettlementMath --------------------------
(***************************************************************************)
(* Walks SettlementMath over windows of amounts (one unit at a time),      *)
(* over the instants around the cancellation windows, and over dispute     *)
(* allocations.  The state is the input of the next call.                  *)
(***************************************************************************)
EXTENDS SettlementMath, FiniteSets

VARIABLES amount, now, bps

vars == <<amount, now, bps>>

StartTime == 5 * SECONDS_PER_WEEK

\* Small amounts, amounts around one and two denominators, and the top of
\* the i128 range, where amount * bps would overflow.
Amounts == (1 .. 60) \cup (9990 .. 10030) \cup (19995 .. 20005)
             \cup (99990 .. 100000) \cup ((I128_MAX - 25) .. I128_MAX)

\* Instants one second either side of each window bound and of the start,
\* and one long after it.
Instants == { 0, SECONDS_PER_WEEK - 1, SECONDS_PER_WEEK, SECONDS_PER_WEEK + 1,
              3 * SECONDS_PER_WEEK - 1, 3 * SECONDS_PER_WEEK,
              3 * SECONDS_PER_WEEK + 1, StartTime - 1, StartTime,
              StartTime + 1, 20 * SECONDS_PER_WEEK }

Bps(t, h, o, rv, q, p) ==
    [r \in Roles |-> CASE r = "traveller" -> t  [] r = "host" -> h
                       [] r = "ops" -> o        [] r = "review" -> rv
                       [] r = "qa" -> q         [] r = "o2o" -> p]

\* Valid allocations (uneven, all to one role, none to the traveller) and
\* three the contract must refuse: short, long, and one whose u32 sum wraps
\* round to BPS_DENOM.
BpsInputs ==
    { Bps(10000, 0, 0, 0, 0, 0), Bps(0, 0, 0, 0, 0, 10000),
      Bps(5000, 5000, 0, 0, 0, 0), Bps(0, 3333, 3333, 3334, 0, 0),
      Bps(1667, 1667, 1667, 1667, 1666, 1666), Bps(1, 9999, 0, 0, 0, 0),
      Bps(5000, 4999, 0, 0, 0, 0), Bps(5000, 5001, 0, 0, 0, 0),
      Bps(U32_MAX, 10001, 0, 0, 0, 0) }

Init == /\ amount \in { a \in Amounts : a - 1 \notin Amounts }
        /\ now = 0
        /\ bps \in BpsInputs

NextAmount == /\ amount + 1 \in Amounts
              /\ amount' = amount + 1
              /\ UNCHANGED <<now, bps>>

TimePasses == /\ now' \in { t \in Instants : t > now }
              /\ UNCHANGED <<amount, bps>>

Next == NextAmount \/ TimePasses

Spec == Init /\ [][Next]_vars

-----------------------------------------------------------------------------

Completion == CompletionSplit(amount)
Dispute    == BpsAmounts(amount, bps)
Refund     == TravellerRefund(amount, StartTime, now)

\* The shares of the settlements and of the allocations above, and the least
\* and greatest there are.
ShareBps == {0, 1, 200, 300, 500, 1000, 1500, 1666, 1667, 2000, 3333, 3334,
             3500, 4999, 5000, 5001, 7000, 8000, 9999, 10000}

\* A product too large for one integer, as its quotient and remainder by
\* Base, and the order of such products.
Base == 100000

Wide(a, b) ==
    LET low == (a % Base) * b
    IN  [high |-> (a \div Base) * b + low \div Base, low |-> low % Base]

WideLess(x, y) == x.high < y.high \/ (x.high = y.high /\ x.low < y.low)

\* The inputs are of their types, and BpsFloor really is the floor of the
\* product, up to the top of the i128 range, where no i128 holds the product
\* (split.rs: "exact semantics").
FloorIsExact ==
    /\ amount \in 1 .. I128_MAX
    /\ \A b \in ShareBps :
         LET f == BpsFloor(amount, b)
         IN  /\ ~WideLess(Wide(amount, b), Wide(f, BPS_DENOM))
             /\ WideLess(Wide(amount, b), Wide(f + 1, BPS_DENOM))

\* No amount an i128 can hold makes a settlement fail with MathError: a
\* booking that could be funded can be settled by every route.
NoMathError ==
    /\ CompletionSplitFits(amount)
    /\ TravellerRefundFits(amount, StartTime, now)
    /\ Sum(bps) = BPS_DENOM => BpsAmountsFits(amount, bps)

\* Every settlement divides the escrow completely, and an accepted dispute
\* allocation gives nobody more than the whole (a wrapped u32 sum would).
WholeAmountPaid ==
    /\ Sum(Completion) = amount /\ Completion \in Shares
    /\ Sum(Refund) = amount     /\ Refund \in Shares
    /\ ValidBps(bps) => /\ Sum(Dispute) = amount
                        /\ \A r \in Roles : Dispute[r] \in 0 .. amount

\* Rounding never moves more than five units, one for each of the other
\* roles, and moves them to the documented recipient only: host, traveller,
\* and operations respectively (split.rs and refund.rs headers).
DustGoes(shares, b, to) ==
    \A r \in Roles :
        LET extra == shares[r] - BpsFloor(amount, b[r])
        IN  IF r = to THEN extra \in 0 .. 5 ELSE extra = 0

DustDocumented ==
    /\ DustGoes(Completion, COMPLETION_BPS, "host")
    /\ ValidBps(bps) => DustGoes(Dispute, bps, "traveller")
    /\ DustGoes(Refund, RefundBps(UntilStart(StartTime, now)), "ops")

\* Waiting never improves a traveller's refund, up to and beyond the start:
\* past the start time the subtraction saturates and the refund is nil.
RefundShrinks ==
    [][ now' > now =>
          LET later == TravellerRefund(amount', StartTime, now')
          IN  /\ later["traveller"] <= Refund["traveller"]
              /\ now' >= StartTime => later["traveller"] = 0 ]_vars

=============================================================================
