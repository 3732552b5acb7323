--------------------------- MODULE MCStelloBooking --------------------------
(***************************************************************************)
(* StelloBooking on small instances.  Two people book with each other, so  *)
(* each is a traveller in one booking and a host in another.               *)
(***************************************************************************)
EXTENDS StelloBooking, TLC

MCAddress == {"escrow", "stello", "usdc", "ops", "review", "qa", "o2o",
              "alice", "bob"}

Config(token, ops, qa, o2o, fee) ==
    [stello_wallet |-> "stello", token |-> token, ops_pool |-> ops,
     review_pool |-> "review", qa_pool |-> qa, o2o_pool |-> o2o,
     host_cancel_fee |-> fee]

\* One deployment the constructor accepts, and some that it refuses.
MCConfigs == { Config("usdc", "ops", "qa", "o2o", 5),
               Config("usdc", "ops", "qa", "o2o", 0),
               Config("usdc", "ops", "qa", "ops", 5),
               Config("usdc", "escrow", "qa", "o2o", 5),
               Config("review", "ops", "qa", "o2o", 5) }

\* Bob can fund one booking, and can then no longer pay the fee.
MCInitialBalance ==
    [a \in MCAddress |-> CASE a = "alice" -> 20011
                           [] a = "bob"   -> 10003
                           [] OTHER       -> 0]

\* Either can fund a booking so large that an i128 does not hold two of them.
MCLimitBalance ==
    [a \in MCAddress |-> CASE a = "alice" -> 600020011
                           [] a = "bob"   -> 600010003
                           [] OTHER       -> 0]

\* The references are strings the backend makes up.
RefSymmetry == Permutations(BookingRef)

Start == 1 + 6 * SECONDS_PER_WEEK

\* Six weeks before the start, one second less than four weeks before it,
\* exactly two weeks before it, and after it.
MCLedgerTimes == { 1, Start - FOUR_WEEKS + 1, Start - TWO_WEEKS, Start + 1 }

Bps(t, h, o, rv, q, p) ==
    [r \in Roles |-> CASE r = "traveller" -> t  [] r = "host" -> h
                       [] r = "ops" -> o        [] r = "review" -> rv
                       [] r = "qa" -> q         [] r = "o2o" -> p]

\* A mixed allocation, all to one role, one that does not add up, and one
\* whose u32 sum would wrap round to BPS_DENOM.
MCBpsArgs == { Bps(3333, 3333, 3334, 0, 0, 0), Bps(0, 10000, 0, 0, 0, 0),
               Bps(5000, 4999, 0, 0, 0, 0), Bps(U32_MAX, 10001, 0, 0, 0, 0) }

\* Everybody a settlement may pay.
MCRefusers == {"alice", "bob", "ops", "review", "qa", "o2o"}

\* Everything to one role, for every role.
AllToOne == { [r \in Roles |-> IF r = one THEN BPS_DENOM ELSE 0] : one \in Roles }
=============================================================================
