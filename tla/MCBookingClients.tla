-------------------------- MODULE MCBookingClients --------------------------
(***************************************************************************)
(* BookingClients on the deployment of MCStelloBooking.                    *)
(***************************************************************************)
EXTENDS BookingClients, MCStelloBooking

\* One request that can be booked until the stay starts, and one that never
\* can, because its start is past from the beginning.
MCRequest ==
    [ref \in BookingRef |->
        [traveller |-> "alice", host |-> "bob", amount |-> 10003,
         start_time |-> IF ref = "past" THEN 1 ELSE Start]]

\* Two weeks before the start, one second later, and four weeks after it.
MCLateTimes == { Start - TWO_WEEKS, Start - TWO_WEEKS + 1, Start + FOUR_WEEKS }

\* Alice can pay either amount, and Bob the fee.
MCPairBalance ==
    [a \in MCAddress |-> CASE a = "alice" -> 10007
                           [] a = "bob"   -> 5
                           [] OTHER       -> 0]
=============================================================================
