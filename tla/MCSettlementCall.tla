-------------------------- MODULE MCSettlementCall --------------------------
(***************************************************************************)
(* SettlementCall on the deployment and the people of MCStelloBooking.     *)
(***************************************************************************)
EXTENDS SettlementCall, MCStelloBooking

\* Every way out of a dispute, and allocations that are mixed or invalid.
MCCallBps == AllToOne \cup MCBpsArgs
=============================================================================
