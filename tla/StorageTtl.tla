----------------------------- MODULE StorageTtl -----------------------------
(***************************************************************************)
(* How long the contract's entries live (storage.rs).                      *)
(*                                                                         *)
(* Every entry has a time to live, counted in ledgers.  It runs down with  *)
(* each ledger, also while nobody calls, and the helpers of storage.rs     *)
(* extend it within a call that commits.  At zero the network archives     *)
(* the entry; it is not lost, a call that needs it restores it with the    *)
(* shortest time to live of the network.                                   *)
(*                                                                         *)
(* One call extends an entry several times (require_config,                *)
(* require_booking, set_booking, set_total_escrowed); an extension right   *)
(* after another changes nothing, so an action extends it once.  Getters   *)
(* extend nothing and are no steps.  Left out: outsiders who pay to extend *)
(* or restore a single entry, which only prolongs its life.                *)
(***************************************************************************)
EXTENDS StelloBooking

CONSTANTS PERSISTENT_BOOKING_TTL_THRESHOLD, PERSISTENT_BOOKING_TTL_EXTEND_TO,
          PERSISTENT_SETTLEMENT_TTL_THRESHOLD,
          PERSISTENT_SETTLEMENT_TTL_EXTEND_TO,
          INSTANCE_TTL_THRESHOLD, INSTANCE_TTL_EXTEND_TO,
          MinTtl,       \* time to live of a new or restored entry
          IdleBound     \* idle times are counted up to here

ASSUME TtlAssumption ==
    /\ PERSISTENT_BOOKING_TTL_THRESHOLD \in Nat \ {0}
    /\ PERSISTENT_BOOKING_TTL_EXTEND_TO \in Nat
    /\ PERSISTENT_BOOKING_TTL_THRESHOLD <= PERSISTENT_BOOKING_TTL_EXTEND_TO
    /\ PERSISTENT_SETTLEMENT_TTL_THRESHOLD \in Nat \ {0}
    /\ PERSISTENT_SETTLEMENT_TTL_EXTEND_TO \in Nat
    /\ PERSISTENT_SETTLEMENT_TTL_THRESHOLD <= PERSISTENT_SETTLEMENT_TTL_EXTEND_TO
    /\ INSTANCE_TTL_THRESHOLD \in Nat \ {0}
    /\ INSTANCE_TTL_EXTEND_TO \in Nat
    /\ INSTANCE_TTL_THRESHOLD <= INSTANCE_TTL_EXTEND_TO
    /\ INSTANCE_TTL_THRESHOLD <= PERSISTENT_BOOKING_TTL_EXTEND_TO
    /\ MinTtl \in Nat \ {0}
    /\ IdleBound \in Nat
    /\ \A threshold \in {PERSISTENT_BOOKING_TTL_THRESHOLD, INSTANCE_TTL_THRESHOLD,
                          PERSISTENT_SETTLEMENT_TTL_THRESHOLD} :
         threshold <= IdleBound

VARIABLES instance_ttl,       \* of Config, NextBookingId, TotalEscrowed, the code
          booking_ttl,        \* of Booking(id)
          booking_ref_ttl,    \* of BookingRef(ref)
          settlement_ttl,     \* of CancelSettlement(id)
          idle                \* history: ledgers since the last call on a booking

ttlVars == <<instance_ttl, booking_ttl, booking_ref_ttl, settlement_ttl, idle>>

allVars == <<vars, ttlVars>>

-----------------------------------------------------------------------------
(* Extending an entry.                                                     *)

\* extend_ttl(key, threshold, extend_to), on the ledgers that remain.
Extended(remaining, threshold, extend_to) ==
    IF remaining < threshold THEN extend_to ELSE remaining

\* What is left of an entry when a call can use it: more than nothing.
Restored(remaining) == IF remaining = 0 THEN MinTtl ELSE remaining

ExtendBookingTtl(remaining) ==
    Extended(remaining, PERSISTENT_BOOKING_TTL_THRESHOLD,
                        PERSISTENT_BOOKING_TTL_EXTEND_TO)

ExtendSettlementTtl(remaining) ==
    Extended(remaining, PERSISTENT_SETTLEMENT_TTL_THRESHOLD,
                        PERSISTENT_SETTLEMENT_TTL_EXTEND_TO)

\* Seeded fault: the instance is restored, not extended.
RestoreInstance == instance_ttl' = Restored(instance_ttl)

BumpInstanceTtl ==
    instance_ttl' = Extended(Restored(instance_ttl), INSTANCE_TTL_THRESHOLD,
                                                     INSTANCE_TTL_EXTEND_TO)

\* Seeded fault: only the booking is extended.
BumpBookingTtl(id) ==
    /\ booking_ttl' = [booking_ttl EXCEPT ![id] = ExtendBookingTtl(Restored(@))]
    /\ booking_ref_ttl' =
         [booking_ref_ttl EXCEPT ![booking[id].booking_ref] = Restored(@)]

BumpBookingAndRefTtl(id) ==
    /\ booking_ttl' = [booking_ttl EXCEPT ![id] = ExtendBookingTtl(Restored(@))]
    /\ booking_ref_ttl' =
         [booking_ref_ttl EXCEPT ![booking[id].booking_ref] =
                                    ExtendBookingTtl(Restored(@))]

\* Seeded fault: the index is not written.
AddBookingTtlNoIndex(id, ref) ==
    /\ booking_ttl' = Put(booking_ttl, id, ExtendBookingTtl(MinTtl))
    /\ UNCHANGED booking_ref_ttl

\* A new booking and its index are written and extended one after the other.
AddBookingTtl(id, ref) ==
    /\ booking_ttl' = Put(booking_ttl, id, ExtendBookingTtl(MinTtl))
    /\ booking_ref_ttl' = Put(booking_ref_ttl, ref, ExtendBookingTtl(MinTtl))

\* The cancellation record is extended when it is written, and never again.
\* (First, a seeded fault: it is not extended at all.)
NewSettlementTtlMin(id) ==
    settlement_ttl' = Put(settlement_ttl, id, MinTtl)

NewSettlementTtl(id) ==
    settlement_ttl' = Put(settlement_ttl, id, ExtendSettlementTtl(MinTtl))

-----------------------------------------------------------------------------
(* The calls, and the passing of ledgers.                                  *)

\* The constructor extends the instance it creates.
TtlInit ==
    /\ Init
    /\ instance_ttl = Extended(MinTtl, INSTANCE_TTL_THRESHOLD,
                                       INSTANCE_TTL_EXTEND_TO)
    /\ booking_ttl = [id \in {} |-> 0]
    /\ booking_ref_ttl = [ref \in {} |-> 0]
    /\ settlement_ttl = [id \in {} |-> 0]
    /\ idle = [id \in {} |-> 0]

BookKept ==
    \E ref \in BookingRef, traveller, host \in Address, amount \in AmountArgs,
       start_time \in StartTimeArgs :
        /\ Book(ref, traveller, host, amount, start_time)
        /\ AddBookingTtl(next_booking_id, ref)
        /\ BumpInstanceTtl
        /\ idle' = Put(idle, next_booking_id, 0)
        /\ UNCHANGED settlement_ttl

CancelCall(id) == CancelByTraveller(id) \/ CancelByHost(id)

\* The other calls on an existing booking.
PlainCall(id) ==
    \/ UpdateCall(id)
    \/ \E amount \in AmountArgs : LockEscrow(id, amount)
    \/ CheckIn(id)
    \/ Complete(id)
    \/ ExecuteSplit(id)
    \/ OpenDispute(id)
    \/ \E bps \in BpsArgs : ResolveDispute(id, bps)

CallKept(id) ==
    /\ \/ CancelCall(id) /\ NewSettlementTtl(id)
       \/ PlainCall(id) /\ UNCHANGED settlement_ttl
    /\ BumpBookingAndRefTtl(id)
    /\ BumpInstanceTtl
    /\ idle' = [idle EXCEPT ![id] = 0]

UpgradeKept ==
    /\ \E hash \in Wasms : Upgrade(hash)
    /\ BumpInstanceTtl
    /\ UNCHANGED <<booking_ttl, booking_ref_ttl, settlement_ttl, idle>>

Aged(ttl) == [x \in DOMAIN ttl |-> IF ttl[x] = 0 THEN 0 ELSE ttl[x] - 1]

\* A ledger passes without a call to the contract, whatever else it brings.
Age ==
    /\ World \/ UNCHANGED vars
    /\ instance_ttl' = IF instance_ttl = 0 THEN 0 ELSE instance_ttl - 1
    /\ booking_ttl' = Aged(booking_ttl)
    /\ booking_ref_ttl' = Aged(booking_ref_ttl)
    /\ settlement_ttl' = Aged(settlement_ttl)
    /\ idle' = [id \in DOMAIN idle |->
                  IF idle[id] < IdleBound THEN idle[id] + 1 ELSE IdleBound]

TtlNext ==
    \/ BookKept
    \/ \E id \in DOMAIN booking : CallKept(id)
    \/ UpgradeKept
    \/ Age

TtlSpec == TtlInit /\ [][TtlNext]_allVars

-----------------------------------------------------------------------------
(* Every entry has a time to live exactly while the contract stores it.    *)

TtlTypeOK ==
    /\ instance_ttl \in Nat
    /\ booking_ttl \in [DOMAIN booking -> Nat]
    /\ booking_ref_ttl \in [DOMAIN booking_ref_index -> Nat]
    /\ settlement_ttl \in [DOMAIN cancel_settlement -> Nat]
    /\ idle \in [DOMAIN booking -> 0 .. IdleBound]

\* A booking and its reference live and are archived together, through any
\* calls, idle times and restorations: a reference whose index is gone while
\* its booking lives could not be resolved (storage.rs: the index "cannot
\* expire significantly earlier than the canonical booking entry").
RefLivesWithBooking ==
    \A id \in DOMAIN booking :
        booking_ref_ttl[booking[id].booking_ref] = booking_ttl[id]

\* A booking on which calls are made often enough, in ledgers, is never
\* archived, nor is its reference, nor the instance with the configuration
\* and the total every call needs; and a cancellation stays on record as
\* long as the module promises from its settlement.
KeptAliveByUse ==
    /\ \A id \in DOMAIN booking :
         /\ booking_ttl[id] + idle[id] >= PERSISTENT_BOOKING_TTL_THRESHOLD
         /\ instance_ttl + idle[id] >= INSTANCE_TTL_THRESHOLD
    /\ \A id \in DOMAIN cancel_settlement :
         settlement_ttl[id] + idle[id] >= PERSISTENT_SETTLEMENT_TTL_THRESHOLD

\* No booking outlives the instance by more than the slack of the policy,
\* whichever bookings are used and whichever lie idle.
Longest == IF MinTtl > PERSISTENT_BOOKING_TTL_EXTEND_TO
           THEN MinTtl ELSE PERSISTENT_BOOKING_TTL_EXTEND_TO

InstanceKeepsUp ==
    \A id \in DOMAIN booking :
        booking_ttl[id] <= instance_ttl + Longest - INSTANCE_TTL_THRESHOLD
=============================================================================
