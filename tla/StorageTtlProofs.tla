-------------------------- MODULE StorageTtlProofs --------------------------
(***************************************************************************)
(* Proofs about the lifetimes of the contract's entries, for any number of *)
(* bookings, any policy of thresholds that satisfies TtlAssumption, and    *)
(* any pattern of use.                                                     *)
(***************************************************************************)
EXTENDS StorageTtl, StelloBookingProofs

-----------------------------------------------------------------------------
(* Extending an entry.                                                     *)

\* An extension leaves at least the threshold, and at most the longer of
\* what there was and what is extended to.
LEMMA ExtendedBounds ==
    ASSUME NEW remaining \in Nat, NEW threshold \in Nat, NEW extend_to \in Nat,
           threshold <= extend_to
    PROVE  /\ Extended(remaining, threshold, extend_to) \in Nat
           /\ Extended(remaining, threshold, extend_to) >= threshold
           /\ \A most \in Nat : remaining <= most /\ extend_to <= most =>
                Extended(remaining, threshold, extend_to) <= most
  BY DEF Extended

\* The bound of every booking's lifetime is above what it is extended to and
\* above what it is restored with.
LEMMA LongestBounds ==
    /\ Longest \in Nat /\ MinTtl <= Longest
    /\ PERSISTENT_BOOKING_TTL_EXTEND_TO <= Longest
    /\ INSTANCE_TTL_THRESHOLD <= Longest
  BY TtlAssumption DEF Longest

\* A booking entry, restored if need be, once it is extended.
LEMMA BookingExtended ==
    ASSUME NEW remaining \in Nat
    PROVE  /\ ExtendBookingTtl(Restored(remaining)) \in Nat
           /\ ExtendBookingTtl(Restored(remaining)) >= PERSISTENT_BOOKING_TTL_THRESHOLD
           /\ remaining <= Longest => ExtendBookingTtl(Restored(remaining)) <= Longest
  <1>1. Restored(remaining) \in Nat /\ (remaining <= Longest => Restored(remaining) <= Longest)
    BY TtlAssumption, LongestBounds DEF Restored
  <1> QED
    BY <1>1, TtlAssumption, LongestBounds, ExtendedBounds DEF ExtendBookingTtl

\* A new booking entry.
LEMMA BookingNew ==
    /\ ExtendBookingTtl(MinTtl) \in Nat
    /\ ExtendBookingTtl(MinTtl) >= PERSISTENT_BOOKING_TTL_THRESHOLD
    /\ ExtendBookingTtl(MinTtl) <= Longest
  BY TtlAssumption, LongestBounds, ExtendedBounds DEF ExtendBookingTtl

\* A new cancellation record.
LEMMA SettlementNew ==
    /\ ExtendSettlementTtl(MinTtl) \in Nat
    /\ ExtendSettlementTtl(MinTtl) >= PERSISTENT_SETTLEMENT_TTL_THRESHOLD
  BY TtlAssumption, ExtendedBounds DEF ExtendSettlementTtl

\* The instance after any call.
LEMMA InstanceBumped ==
    ASSUME instance_ttl \in Nat, BumpInstanceTtl
    PROVE  instance_ttl' \in Nat /\ instance_ttl' >= INSTANCE_TTL_THRESHOLD
  <1>1. Restored(instance_ttl) \in Nat
    BY TtlAssumption DEF Restored
  <1> QED
    BY <1>1, TtlAssumption, ExtendedBounds DEF BumpInstanceTtl

-----------------------------------------------------------------------------
(* Which entries a call creates.                                           *)

\* book adds one booking under an id and a reference that were not used.
LEMMA BookKeys ==
    ASSUME Inv, NEW ref \in BookingRef, NEW traveller \in Address,
           NEW host \in Address, NEW amount \in AmountArgs,
           NEW start_time \in StartTimeArgs,
           Book(ref, traveller, host, amount, start_time)
    PROVE  /\ Inv'
           /\ next_booking_id \notin DOMAIN booking
           /\ ref \notin DOMAIN booking_ref_index
           /\ DOMAIN booking' = DOMAIN booking \cup {next_booking_id}
           /\ DOMAIN booking_ref_index' = DOMAIN booking_ref_index \cup {ref}
           /\ \A k \in DOMAIN booking : booking'[k] = booking[k]
           /\ booking'[next_booking_id].booking_ref = ref
           /\ cancel_settlement' = cancel_settlement
  <1> DEFINE record == NewBooking(ref, traveller, host, amount, start_time)
  <1>1. /\ Inv' /\ Created(next_booking_id)
    BY BookInv, BookStep
  <1>2. /\ ref \notin DOMAIN booking_ref_index
        /\ booking' = Put(booking, next_booking_id, record)
        /\ booking_ref_index' = Put(booking_ref_index, ref, next_booking_id)
    BY DEF Book, AddBooking
  <1>3. record.booking_ref = ref
    BY DEF NewBooking
  <1> HIDE DEF record
  <1> QED
    BY <1>1, <1>2, <1>3 DEF Put, Created

\* A call on a booking that leaves the index alone leaves all references
\* alone: the index is their inverse before and after.
LEMMA RefsKept ==
    ASSUME Inv, Inv', UNCHANGED <<next_booking_id, booking_ref_index>>
    PROVE  /\ DOMAIN booking' = DOMAIN booking
           /\ \A k \in DOMAIN booking : booking'[k].booking_ref = booking[k].booking_ref
  BY DEF Inv, RefIndexSound

\* The calls that make no cancellation record.
LEMMA PlainCallKeys ==
    ASSUME Inv, NEW id \in DOMAIN booking, PlainCall(id)
    PROVE  /\ Inv' /\ ~booking[id].settled
           /\ UNCHANGED <<next_booking_id, booking_ref_index, cancel_settlement>>
           /\ \A k \in DOMAIN booking \ {id} : booking'[k] = booking[k]
  <1> DEFINE Kept == UNCHANGED <<next_booking_id, booking_ref_index, cancel_settlement>>
  <1>1. CASE UpdateCall(id)
    <2>1. Kept
      BY <1>1 DEF UpdateCall, UpdateBooking, StelloSets
    <2> QED
      BY <1>1, <2>1, UpdateBookingInv, UpdateBookingStep DEF UpdateCall, Rewritten
  <1>2. CASE \E amount \in AmountArgs : LockEscrow(id, amount)
    <2>1. Kept
      BY <1>2 DEF LockEscrow
    <2> QED
      BY <1>2, <2>1, LockEscrowInv, LockEscrowStep DEF Funded
  <1>3. CASE CheckIn(id)
    <2>1. Kept
      BY <1>3 DEF CheckIn, StelloSets
    <2> QED
      BY <1>3, <2>1, CheckInInv, CheckInStep DEF Rewritten
  <1>4. CASE Complete(id)
    <2>1. Kept
      BY <1>4 DEF Complete, StelloSets
    <2> QED
      BY <1>4, <2>1, CompleteInv, CompleteStep DEF Rewritten
  <1>5. CASE ExecuteSplit(id)
    <2>1. Kept
      BY <1>5 DEF ExecuteSplit, Settle
    <2> QED
      BY <1>5, <2>1, ExecuteSplitInv DEF Settled
  <1>6. CASE OpenDispute(id)
    <2>1. Kept
      BY <1>6 DEF OpenDispute, StelloSets
    <2> QED
      BY <1>6, <2>1, OpenDisputeInv, OpenDisputeStep DEF Rewritten
  <1>7. CASE \E bps \in BpsArgs : ResolveDispute(id, bps)
    <2>1. Kept
      BY <1>7 DEF ResolveDispute, Settle
    <2> QED
      BY <1>7, <2>1, ResolveDisputeInv DEF Settled
  <1> QED
    BY <1>1, <1>2, <1>3, <1>4, <1>5, <1>6, <1>7 DEF PlainCall

\* The cancellations make one, of a booking they settle.
LEMMA CancelCallKeys ==
    ASSUME Inv, NEW id \in DOMAIN booking, CancelCall(id)
    PROVE  /\ Inv' /\ ~booking[id].settled /\ booking'[id].settled
           /\ UNCHANGED <<next_booking_id, booking_ref_index>>
           /\ DOMAIN cancel_settlement' = DOMAIN cancel_settlement \cup {id}
           /\ \A k \in DOMAIN booking \ {id} : booking'[k] = booking[k]
  <1>1. Inv' /\ Settled(id)
    BY CancelByTravellerInv, CancelByHostInv DEF CancelCall
  <1>2. UNCHANGED <<next_booking_id, booking_ref_index>>
    BY DEF CancelCall, CancelByTraveller, CancelByHost, HostCancels, Settle
  <1>3. \E shares : RecordCancelSettlement(id, shares)
    BY DEF CancelCall, CancelByTraveller, CancelByHost, HostCancels
  <1>4. DOMAIN cancel_settlement' = DOMAIN cancel_settlement \cup {id}
    BY <1>3 DEF RecordCancelSettlement, Put
  <1> QED
    BY <1>1, <1>2, <1>4 DEF Settled

-----------------------------------------------------------------------------
(* The inductive invariant: a cancellation record belongs to a settled     *)
(* booking, so no later call counts as a use of it, and no booking is      *)
(* extended beyond the longest lifetime.                                   *)

CancelledSettled ==
    \A id \in DOMAIN cancel_settlement :
        id \in DOMAIN booking /\ booking[id].settled

BookingTtlBounded == \A id \in DOMAIN booking : booking_ttl[id] <= Longest

TtlInv ==
    /\ TtlTypeOK
    /\ RefLivesWithBooking
    /\ KeptAliveByUse
    /\ InstanceKeepsUp
    /\ CancelledSettled
    /\ BookingTtlBounded

\* The instance outlives no threshold that a booking's bound allows for.
LEMMA KeepsUpAfterCall ==
    ASSUME NEW remaining \in Nat, NEW instance \in Nat,
           remaining <= Longest, instance >= INSTANCE_TTL_THRESHOLD
    PROVE  remaining <= instance + Longest - INSTANCE_TTL_THRESHOLD
  BY LongestBounds, TtlAssumption

\* The references of two bookings differ.
LEMMA RefsDiffer ==
    ASSUME Inv, NEW i \in DOMAIN booking, NEW j \in DOMAIN booking, i # j
    PROVE  /\ booking[i].booking_ref # booking[j].booking_ref
           /\ booking[i].booking_ref \in DOMAIN booking_ref_index
  BY DEF Inv, RefIndexSound

\* A new booking.
LEMMA BookKeptInv ==
    ASSUME Inv, TtlInv, BookKept
    PROVE  TtlInv'
  <1> PICK ref \in BookingRef, traveller \in Address, host \in Address,
           amount \in AmountArgs, start_time \in StartTimeArgs :
             /\ Book(ref, traveller, host, amount, start_time)
             /\ AddBookingTtl(next_booking_id, ref)
             /\ BumpInstanceTtl
             /\ idle' = Put(idle, next_booking_id, 0)
             /\ UNCHANGED settlement_ttl
    BY DEF BookKept
  <1> DEFINE new   == next_booking_id
             fresh == ExtendBookingTtl(MinTtl)
  <1>1. /\ new \notin DOMAIN booking /\ ref \notin DOMAIN booking_ref_index
        /\ DOMAIN booking' = DOMAIN booking \cup {new}
        /\ DOMAIN booking_ref_index' = DOMAIN booking_ref_index \cup {ref}
        /\ \A k \in DOMAIN booking : booking'[k] = booking[k]
        /\ booking'[new].booking_ref = ref
        /\ cancel_settlement' = cancel_settlement
    BY BookKeys
  <1>2. /\ fresh \in Nat /\ fresh >= PERSISTENT_BOOKING_TTL_THRESHOLD
        /\ fresh <= Longest
    BY BookingNew
  <1>3. instance_ttl' \in Nat /\ instance_ttl' >= INSTANCE_TTL_THRESHOLD
    BY InstanceBumped DEF TtlInv, TtlTypeOK
  <1>4. /\ booking_ttl' = [k \in DOMAIN booking \cup {new} |->
                             IF k = new THEN fresh ELSE booking_ttl[k]]
        /\ booking_ref_ttl' = [r \in DOMAIN booking_ref_index \cup {ref} |->
                                 IF r = ref THEN fresh ELSE booking_ref_ttl[r]]
        /\ idle' = [k \in DOMAIN booking \cup {new} |->
                      IF k = new THEN 0 ELSE idle[k]]
        /\ settlement_ttl' = settlement_ttl
    BY DEF AddBookingTtl, Put, TtlInv, TtlTypeOK
  <1> HIDE DEF fresh
  <1>5. TtlTypeOK'
    BY <1>1, <1>2, <1>3, <1>4, TtlAssumption DEF TtlInv, TtlTypeOK
  <1>6. RefLivesWithBooking'
    <2>1. \A k \in DOMAIN booking : /\ booking[k].booking_ref # ref
                                    /\ booking[k].booking_ref \in DOMAIN booking_ref_index
      BY <1>1 DEF Inv, RefIndexSound
    <2> QED
      BY <1>1, <1>4, <2>1 DEF TtlInv, RefLivesWithBooking
  <1>7. KeptAliveByUse'
    <2>1. \A k \in DOMAIN booking' :
            /\ booking_ttl'[k] + idle'[k] >= PERSISTENT_BOOKING_TTL_THRESHOLD
            /\ instance_ttl' + idle'[k] >= INSTANCE_TTL_THRESHOLD
      BY <1>1, <1>2, <1>3, <1>4, <1>5, TtlAssumption
         DEF TtlInv, TtlTypeOK, KeptAliveByUse
    <2>2. \A k \in DOMAIN cancel_settlement : k # new
      BY <1>1 DEF TtlInv, CancelledSettled
    <2> QED
      BY <1>1, <1>4, <2>1, <2>2 DEF TtlInv, CancelledSettled, KeptAliveByUse
  <1>8. BookingTtlBounded' /\ CancelledSettled'
    BY <1>1, <1>2, <1>4 DEF TtlInv, BookingTtlBounded, CancelledSettled, Longest
  <1>9. InstanceKeepsUp'
    BY <1>3, <1>5, <1>8, KeepsUpAfterCall
       DEF InstanceKeepsUp, BookingTtlBounded, TtlTypeOK, Longest
  <1> QED
    BY <1>5, <1>6, <1>7, <1>8, <1>9 DEF TtlInv

\* What every call on a booking does to the lifetimes.
LEMMA CallTtls ==
    ASSUME Inv, TtlInv, NEW id \in DOMAIN booking, CallKept(id)
    PROVE  /\ DOMAIN booking' = DOMAIN booking
           /\ booking_ref_index' = booking_ref_index
           /\ \A k \in DOMAIN booking : booking'[k].booking_ref = booking[k].booking_ref
           /\ \A k \in DOMAIN booking \ {id} : booking'[k] = booking[k]
           /\ id \notin DOMAIN cancel_settlement
           /\ \/ /\ cancel_settlement' = cancel_settlement
                 /\ settlement_ttl' = settlement_ttl
              \/ /\ DOMAIN cancel_settlement' = DOMAIN cancel_settlement \cup {id}
                 /\ booking'[id].settled
                 /\ settlement_ttl' = [k \in DOMAIN cancel_settlement \cup {id} |->
                      IF k = id THEN ExtendSettlementTtl(MinTtl) ELSE settlement_ttl[k]]
  <1>1. CASE CancelCall(id) /\ NewSettlementTtl(id)
    BY <1>1, CancelCallKeys, RefsKept
       DEF NewSettlementTtl, Put, TtlInv, TtlTypeOK, CancelledSettled
  <1>2. CASE PlainCall(id) /\ UNCHANGED settlement_ttl
    BY <1>2, PlainCallKeys, RefsKept DEF TtlInv, CancelledSettled
  <1> QED
    BY <1>1, <1>2 DEF CallKept

\* A call on a booking.
LEMMA CallKeptInv ==
    ASSUME Inv, TtlInv, NEW id \in DOMAIN booking, CallKept(id)
    PROVE  TtlInv'
  <1> DEFINE ref   == booking[id].booking_ref
             fresh == ExtendBookingTtl(Restored(booking_ttl[id]))
             kept  == ExtendSettlementTtl(MinTtl)
  <1>1. /\ DOMAIN booking' = DOMAIN booking
        /\ booking_ref_index' = booking_ref_index
        /\ \A k \in DOMAIN booking : booking'[k].booking_ref = booking[k].booking_ref
        /\ \A k \in DOMAIN booking \ {id} : booking'[k] = booking[k]
        /\ id \notin DOMAIN cancel_settlement
        /\ \/ /\ cancel_settlement' = cancel_settlement
              /\ settlement_ttl' = settlement_ttl
           \/ /\ DOMAIN cancel_settlement' = DOMAIN cancel_settlement \cup {id}
              /\ booking'[id].settled
              /\ settlement_ttl' = [k \in DOMAIN cancel_settlement \cup {id} |->
                   IF k = id THEN kept ELSE settlement_ttl[k]]
    BY CallTtls
  <1>2. ref \in DOMAIN booking_ref_index /\ booking_ref_ttl[ref] = booking_ttl[id]
    BY DEF Inv, RefIndexSound, TtlInv, RefLivesWithBooking
  <1>3. /\ booking_ttl' = [booking_ttl EXCEPT ![id] = fresh]
        /\ booking_ref_ttl' = [booking_ref_ttl EXCEPT ![ref] = fresh]
        /\ idle' = [idle EXCEPT ![id] = 0]
    BY <1>2 DEF CallKept, BumpBookingAndRefTtl
  <1>4. /\ fresh \in Nat /\ fresh >= PERSISTENT_BOOKING_TTL_THRESHOLD
        /\ fresh <= Longest
    BY BookingExtended DEF TtlInv, TtlTypeOK, BookingTtlBounded
  <1>5. instance_ttl' \in Nat /\ instance_ttl' >= INSTANCE_TTL_THRESHOLD
    BY InstanceBumped DEF CallKept, TtlInv, TtlTypeOK
  <1>6. kept \in Nat /\ kept >= PERSISTENT_SETTLEMENT_TTL_THRESHOLD
    BY SettlementNew
  <1> HIDE DEF fresh, kept
  <1>7. TtlTypeOK'
    BY <1>1, <1>2, <1>3, <1>4, <1>5, <1>6, TtlAssumption DEF TtlInv, TtlTypeOK
  <1>8. RefLivesWithBooking'
    <2>1. ASSUME NEW k \in DOMAIN booking
          PROVE  booking_ref_ttl'[booking[k].booking_ref] = booking_ttl'[k]
      <3>1. CASE k = id
        BY <1>2, <1>3, <3>1 DEF TtlInv, TtlTypeOK
      <3>2. CASE k # id
        BY <1>3, <3>2, RefsDiffer DEF TtlInv, TtlTypeOK, RefLivesWithBooking
      <3> QED
        BY <3>1, <3>2
    <2> QED
      BY <1>1, <2>1 DEF RefLivesWithBooking
  <1>9. KeptAliveByUse'
    <2>1. \A k \in DOMAIN booking :
            /\ booking_ttl'[k] + idle'[k] >= PERSISTENT_BOOKING_TTL_THRESHOLD
            /\ instance_ttl' + idle'[k] >= INSTANCE_TTL_THRESHOLD
      BY <1>1, <1>3, <1>4, <1>5, <1>7, TtlAssumption
         DEF TtlInv, TtlTypeOK, KeptAliveByUse
    <2>2. \A k \in DOMAIN cancel_settlement : k \in DOMAIN booking /\ k # id
      BY <1>1 DEF TtlInv, CancelledSettled
    <2>3. \A k \in DOMAIN cancel_settlement :
            /\ settlement_ttl'[k] = settlement_ttl[k] /\ idle'[k] = idle[k]
      BY <1>1, <1>3, <2>2 DEF TtlInv, TtlTypeOK
    <2>4. id \in DOMAIN cancel_settlement' =>
            settlement_ttl'[id] + idle'[id] >= PERSISTENT_SETTLEMENT_TTL_THRESHOLD
      BY <1>1, <1>3, <1>6, TtlAssumption DEF TtlInv, TtlTypeOK
    <2>5. \A k \in DOMAIN cancel_settlement' : k = id \/ k \in DOMAIN cancel_settlement
      BY <1>1
    <2> QED
      BY <1>1, <2>1, <2>3, <2>4, <2>5 DEF TtlInv, KeptAliveByUse
  <1>10. BookingTtlBounded'
    BY <1>1, <1>3, <1>4 DEF TtlInv, TtlTypeOK, BookingTtlBounded, Longest
  <1>11. CancelledSettled'
    BY <1>1 DEF TtlInv, CancelledSettled
  <1>12. InstanceKeepsUp'
    BY <1>5, <1>7, <1>10, KeepsUpAfterCall
       DEF InstanceKeepsUp, BookingTtlBounded, TtlTypeOK, Longest
  <1> QED
    BY <1>7, <1>8, <1>9, <1>10, <1>11, <1>12 DEF TtlInv

\* upgrade extends the instance.
LEMMA UpgradeKeptInv ==
    ASSUME Inv, TtlInv, UpgradeKept
    PROVE  TtlInv'
  <1>1. /\ UNCHANGED <<booking, booking_ref_index, cancel_settlement>>
        /\ UNCHANGED <<booking_ttl, booking_ref_ttl, settlement_ttl, idle>>
    BY DEF UpgradeKept, Upgrade, storage
  <1>2. instance_ttl' \in Nat /\ instance_ttl' >= INSTANCE_TTL_THRESHOLD
    BY InstanceBumped DEF UpgradeKept, TtlInv, TtlTypeOK
  <1>3. /\ TtlTypeOK' /\ RefLivesWithBooking' /\ CancelledSettled'
        /\ BookingTtlBounded'
    BY <1>1, <1>2 DEF TtlInv, TtlTypeOK, RefLivesWithBooking, CancelledSettled,
                      BookingTtlBounded, Longest
  <1>4. KeptAliveByUse'
    BY <1>1, <1>2, TtlAssumption DEF TtlInv, TtlTypeOK, KeptAliveByUse
  <1>5. InstanceKeepsUp'
    BY <1>2, <1>3, KeepsUpAfterCall
       DEF InstanceKeepsUp, BookingTtlBounded, TtlTypeOK, Longest
  <1> QED
    BY <1>3, <1>4, <1>5 DEF TtlInv

\* A ledger passes.
LEMMA AgeInv ==
    ASSUME Inv, TtlInv, Age
    PROVE  TtlInv'
  <1>1. UNCHANGED <<booking, booking_ref_index, cancel_settlement>>
    BY DEF Age, World, CloseLedger, storage, vars
  <1>2. \A n \in Nat : (IF n = 0 THEN 0 ELSE n - 1) \in Nat
    OBVIOUS
  <1>3. TtlTypeOK'
    BY <1>1, <1>2, TtlAssumption DEF Age, Aged, TtlInv, TtlTypeOK
  <1>4. RefLivesWithBooking'
    BY <1>1 DEF Age, Aged, TtlInv, TtlTypeOK, RefLivesWithBooking, Inv, RefIndexSound
  <1>5. KeptAliveByUse'
    <2>1. ASSUME NEW k \in DOMAIN booking
          PROVE  /\ booking_ttl'[k] + idle'[k] >= PERSISTENT_BOOKING_TTL_THRESHOLD
                 /\ instance_ttl' + idle'[k] >= INSTANCE_TTL_THRESHOLD
      BY TtlAssumption DEF Age, Aged, TtlInv, TtlTypeOK, KeptAliveByUse
    <2>2. ASSUME NEW k \in DOMAIN cancel_settlement
          PROVE  settlement_ttl'[k] + idle'[k] >= PERSISTENT_SETTLEMENT_TTL_THRESHOLD
      <3>1. k \in DOMAIN booking
        BY DEF TtlInv, CancelledSettled
      <3>2. /\ settlement_ttl[k] \in Nat /\ idle[k] \in 0 .. IdleBound
            /\ settlement_ttl[k] + idle[k] >= PERSISTENT_SETTLEMENT_TTL_THRESHOLD
        BY <3>1 DEF TtlInv, TtlTypeOK, KeptAliveByUse
      <3>3. /\ settlement_ttl'[k] = IF settlement_ttl[k] = 0 THEN 0
                                    ELSE settlement_ttl[k] - 1
            /\ idle'[k] = IF idle[k] < IdleBound THEN idle[k] + 1 ELSE IdleBound
        BY <3>1 DEF Age, Aged, TtlInv, TtlTypeOK
      <3> QED
        BY <3>2, <3>3, TtlAssumption
    <2> QED
      BY <1>1, <2>1, <2>2 DEF KeptAliveByUse
  <1>6. BookingTtlBounded'
    BY <1>1, LongestBounds DEF Age, Aged, TtlInv, TtlTypeOK, BookingTtlBounded, Longest
  <1>7. CancelledSettled'
    BY <1>1 DEF TtlInv, CancelledSettled
  <1>8. InstanceKeepsUp'
    <2>1. ASSUME NEW k \in DOMAIN booking
          PROVE  booking_ttl'[k] <= instance_ttl' + Longest - INSTANCE_TTL_THRESHOLD
      BY LongestBounds, TtlAssumption DEF Age, Aged, TtlInv, TtlTypeOK, InstanceKeepsUp
    <2> QED
      BY <1>1, <2>1 DEF InstanceKeepsUp, Longest
  <1> QED
    BY <1>3, <1>4, <1>5, <1>6, <1>7, <1>8 DEF TtlInv

-----------------------------------------------------------------------------
(* The theorems.                                                           *)

\* Counting lifetimes restricts nothing: what the contract does is what the
\* core module specifies.
THEOREM TtlImplementsCore == TtlSpec => Spec
  <1>1. TtlInit => Init
    BY DEF TtlInit
  <1>2. [TtlNext]_allVars => [Next]_vars
    <2>1. BookKept => BookCall
      BY DEF BookKept, BookCall
    <2>2. \A id \in DOMAIN booking : CallKept(id) => BookingCall(id)
      BY DEF CallKept, CancelCall, PlainCall, BookingCall
    <2>3. UpgradeKept => \E hash \in Wasms : Upgrade(hash)
      BY DEF UpgradeKept
    <2>4. Age => World \/ UNCHANGED vars
      BY DEF Age
    <2> QED
      BY <2>1, <2>2, <2>3, <2>4 DEF TtlNext, Next, allVars
  <1> QED
    BY <1>1, <1>2, PTL DEF TtlSpec, Spec

\* The inductive invariant holds in every reachable state.
THEOREM TtlInvariance == TtlSpec => []TtlInv
  <1>1. ASSUME TtlInit
        PROVE  TtlInv
    <2>1. /\ DOMAIN booking = {} /\ DOMAIN booking_ref_index = {}
          /\ DOMAIN cancel_settlement = {}
      BY <1>1 DEF TtlInit, Init
    <2>2. instance_ttl \in Nat
      BY <1>1, TtlAssumption, ExtendedBounds DEF TtlInit
    <2> QED
      BY <1>1, <2>1, <2>2 DEF TtlInit, TtlInv, TtlTypeOK, RefLivesWithBooking,
         KeptAliveByUse, InstanceKeepsUp, CancelledSettled, BookingTtlBounded
  <1>2. Inv /\ TtlInv /\ [TtlNext]_allVars => TtlInv'
    <2>1. ASSUME Inv, TtlInv, UNCHANGED allVars
          PROVE  TtlInv'
      BY <2>1 DEF allVars, vars, storage, ttlVars, TtlInv, TtlTypeOK,
         RefLivesWithBooking, KeptAliveByUse, InstanceKeepsUp, CancelledSettled,
         BookingTtlBounded, Longest
    <2> QED
      BY <2>1, BookKeptInv, CallKeptInv, UpgradeKeptInv, AgeInv DEF TtlNext
  <1> QED
    BY <1>1, <1>2, TtlImplementsCore, Invariance, PTL DEF TtlSpec

\* Every entry has a lifetime exactly while the contract stores it.
THEOREM TtlTypeCorrect == TtlSpec => []TtlTypeOK
  <1>1. TtlInv => TtlTypeOK
    BY DEF TtlInv
  <1> QED
    BY <1>1, TtlInvariance, PTL

\* A booking and its reference are archived together or not at all, so a
\* live booking can always be found by its reference (storage.rs,
\* bump_booking_and_ref_ttl).
THEOREM ReferencesLiveOn == TtlSpec => []RefLivesWithBooking
  <1>1. TtlInv => RefLivesWithBooking
    BY DEF TtlInv
  <1> QED
    BY <1>1, TtlInvariance, PTL

\* What is used within the thresholds is never archived, and a cancellation
\* stays on record for its threshold after the settlement.
THEOREM UseKeepsAlive == TtlSpec => []KeptAliveByUse
  <1>1. TtlInv => KeptAliveByUse
    BY DEF TtlInv
  <1> QED
    BY <1>1, TtlInvariance, PTL

\* No booking outlives the instance by more than the slack of the policy.
THEOREM InstanceFollows == TtlSpec => []InstanceKeepsUp
  <1>1. TtlInv => InstanceKeepsUp
    BY DEF TtlInv
  <1> QED
    BY <1>1, TtlInvariance, PTL
=============================================================================
