--------------------------- MODULE SettlementMath ---------------------------
(***************************************************************************)
(* The integer arithmetic by which an escrow is divided: the completion    *)
(* split and the dispute allocation (split.rs), the cancellation refund    *)
(* (refund.rs) and the basis-point and window constants (types.rs).        *)
(*                                                                         *)
(* Every algorithm takes the floor of each share and gives the remainder   *)
(* (the dust) to one role, so all of them are instances of Allocate; they  *)
(* differ in the basis points and in who receives the dust.  A Result is   *)
(* modelled by a value and a predicate: X is the value computed when no    *)
(* checked operation overflows, XFits says that none of them does.         *)
(***************************************************************************)
EXTENDS Integers

CONSTANTS I128_MAX,   \* largest amount an i128 holds (scaled down for TLC)
          U32_MAX     \* largest basis-point argument a u32 holds (scaled too)

BPS_DENOM        == 10000
SECONDS_PER_WEEK == 7 * 24 * 60 * 60
FOUR_WEEKS       == 4 * SECONDS_PER_WEEK
TWO_WEEKS        == 2 * SECONDS_PER_WEEK

\* The widths are large enough for the product of a remainder and a share.
ASSUME IntWidths ==
    /\ I128_MAX \in Nat /\ BPS_DENOM * BPS_DENOM <= I128_MAX
    /\ U32_MAX \in Nat  /\ BPS_DENOM <= U32_MAX

-----------------------------------------------------------------------------
(* Shares: what each party to a settlement gets.                           *)

Roles == {"traveller", "host", "ops", "review", "qa", "o2o"}

Shares == [Roles -> Nat]

Sum(s) == s["traveller"] + s["host"] + s["ops"]
             + s["review"] + s["qa"] + s["o2o"]

\* The shares of the named arguments, everybody else getting nothing.
CancelShares(traveller, host, ops) ==
    [r \in Roles |-> CASE r = "traveller" -> traveller
                       [] r = "host"      -> host
                       [] r = "ops"       -> ops
                       [] OTHER           -> 0]

-----------------------------------------------------------------------------
(* Checked i128 arithmetic, without forming a number that does not fit.    *)

MulFits(a, b) == b > 0 => a <= I128_MAX \div b

AddFits(a, b) == a <= I128_MAX - b

\* Seeded fault: the share of the remainder is forgotten.
BpsFloorOfQuotient(amount, bps) == (amount \div BPS_DENOM) * bps

\* floor(amount * bps / BPS_DENOM) by quotient and remainder, so that
\* amount * bps is never formed.
BpsFloor(amount, bps) ==
    (amount \div BPS_DENOM) * bps + ((amount % BPS_DENOM) * bps) \div BPS_DENOM

\* Seeded fault: the product amount * bps is formed.
BpsFloorFitsNaive(amount, bps) == amount >= 0 /\ MulFits(amount, bps)

BpsFloorFits(amount, bps) ==
    LET q == amount \div BPS_DENOM
        r == amount % BPS_DENOM
    IN  /\ amount >= 0
        /\ MulFits(q, bps)
        /\ MulFits(r, bps)
        /\ AddFits(q * bps, (r * bps) \div BPS_DENOM)

-----------------------------------------------------------------------------
(* Floor every share, give what is left to the role `dust'.                *)

Floors(amount, bps) == [r \in Roles |-> BpsFloor(amount, bps[r])]

Remainder(amount, bps) == amount - Sum(Floors(amount, bps))

Allocate(amount, bps, dust) ==
    [Floors(amount, bps) EXCEPT ![dust] = @ + Remainder(amount, bps)]

\* No MathError and no InvalidAmount: the amount is positive, no floor
\* overflows, and the shares add up to the amount again.
AllocateFits(amount, bps, dust) ==
    /\ amount > 0
    /\ \A r \in Roles : BpsFloorFits(amount, bps[r])
    /\ Sum(Allocate(amount, bps, dust)) = amount

COMPLETION_BPS ==
    [r \in Roles |-> CASE r = "host"   -> 8000
                       [] r = "ops"    -> 1000
                       [] r = "review" -> 500
                       [] r = "qa"     -> 300
                       [] r = "o2o"    -> 200
                       [] OTHER        -> 0]

\* 80/10/5/3/2, dust to the host.
CompletionSplit(amount) == Allocate(amount, COMPLETION_BPS, "host")

CompletionSplitFits(amount) == AllocateFits(amount, COMPLETION_BPS, "host")

\* Seeded fault: the u32 sum wraps round.
ValidBpsWrapping(bps) == Sum(bps) % (U32_MAX + 1) = BPS_DENOM

\* The u32 sum of the arguments, added from left to right with checked_add,
\* must be exactly BPS_DENOM; the sum of naturals fits iff it is bounded.
ValidBps(bps) == Sum(bps) <= U32_MAX /\ Sum(bps) = BPS_DENOM

\* Custom allocation of a dispute, dust to out[0], the traveller.
BpsAmounts(amount, bps) == Allocate(amount, bps, "traveller")

BpsAmountsFits(amount, bps) ==
    ValidBps(bps) /\ AllocateFits(amount, bps, "traveller")

-----------------------------------------------------------------------------
(* Refund of a cancellation.                                               *)

\* Seeded fault: the subtraction does not saturate.
UntilStartAbsolute(start_time, now) ==
    IF start_time > now THEN start_time - now ELSE now - start_time

\* start_time.saturating_sub(now)
UntilStart(start_time, now) ==
    IF start_time > now THEN start_time - now ELSE 0

\* Both window bounds are inclusive.
RefundBps(until_start) ==
    IF until_start >= FOUR_WEEKS     THEN CancelShares(7000, 1500, 1500)
    ELSE IF until_start >= TWO_WEEKS THEN CancelShares(5000, 3500, 1500)
    ELSE CancelShares(0, 8000, 2000)

\* Seeded fault: the dust of a refund goes where that of a dispute goes.
RefundDustAsDispute(bps) == "traveller"

RefundDust(bps) ==
    IF bps["ops"] > 0 THEN "ops"
    ELSE IF bps["host"] > 0 THEN "host" ELSE "traveller"

\* compute_refund(.., CancelledBy::Traveller)
TravellerRefund(amount, start_time, now) ==
    LET bps == RefundBps(UntilStart(start_time, now))
    IN  Allocate(amount, bps, RefundDust(bps))

TravellerRefundFits(amount, start_time, now) ==
    LET bps == RefundBps(UntilStart(start_time, now))
    IN  AllocateFits(amount, bps, RefundDust(bps))

\* The whole escrow back to the traveller: what cancel_by_host settles.
HostCancelRefund(amount) == CancelShares(amount, 0, 0)
=============================================================================
