--------------------------- MODULE MCStelloEvents ---------------------------
(***************************************************************************)
(* StelloEvents on the deployment and the people of MCStelloBooking.       *)
(***************************************************************************)
EXTENDS StelloEvents, MCStelloBooking

\* A mixed allocation.
MCMixed == { Bps(3333, 3333, 3334, 0, 0, 0) }

\* Six weeks before the start, and exactly two weeks before it.
MCTwoTimes == { 1, Start - TWO_WEEKS }

\* Alice pays for every stay; Bob and Carol can each pay the fee once.
MCPeople == MCAddress \cup {"carol"}

MCPeopleBalance ==
    [a \in MCPeople |-> CASE a = "alice" -> 20011
                          [] a \in {"bob", "carol"} -> 5
                          [] OTHER -> 0]
=============================================================================
