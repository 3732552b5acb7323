---------------------------- MODULE MCStorageTtl ----------------------------
(***************************************************************************)
(* StorageTtl with lifetimes scaled down, on bookings that differ in       *)
(* nothing but the calls made on them.                                     *)
(***************************************************************************)
EXTENDS StorageTtl, MCStelloBooking

MCAllToHost == { Bps(0, 10000, 0, 0, 0, 0) }

\* Only Alice has the money to book, and Bob the fee.
MCAliceBalance ==
    [a \in MCAddress |-> CASE a = "alice" -> 20006
                           [] a = "bob"   -> 5
                           [] OTHER       -> 0]
=============================================================================
