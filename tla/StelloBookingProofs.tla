------------------------ MODULE StelloBookingProofs -------------------------
(***************************************************************************)
(* The contract's invariants for every set of addresses, bookings, amounts *)
(* and calls.                                                              *)
(***************************************************************************)
EXTENDS StelloBooking, SettlementMathProofs

\* The ranges of stored amounts, as facts about numbers.
LEMMA I128Range ==
    /\ I128_MAX \in Nat /\ 0 \in 0 .. I128_MAX
    /\ \A n \in 1 .. I128_MAX : n \in 0 .. I128_MAX /\ n \in Nat \ {0} /\ 0 + n = n
    /\ \A n \in 0 .. I128_MAX : n \in Nat
  BY IntWidths

-----------------------------------------------------------------------------
(* The token.                                                              *)

\* A covered transfer keeps balances natural and touches two addresses.
LEMMA TransferType ==
    ASSUME NEW bal \in [Address -> Nat], NEW from \in Address, NEW to \in Address,
           NEW amount \in Nat, bal[from] >= amount
    PROVE  /\ Transfer(bal, from, to, amount) \in [Address -> Nat]
           /\ \A a \in Address \ {from, to} : Transfer(bal, from, to, amount)[a] = bal[a]
           /\ from # to =>
                /\ Transfer(bal, from, to, amount)[from] = bal[from] - amount
                /\ Transfer(bal, from, to, amount)[to] = bal[to] + amount
  BY DEF Transfer

\* What anybody receives from a push is a natural number; an address that
\* is nobody's payee receives nothing.
LEMMA ReceivedNat ==
    ASSUME NEW shares \in Shares, NEW payee, NEW a
    PROVE  /\ Received(shares, payee, a) \in Nat
           /\ (\A r \in Roles : payee[r] # a) => Received(shares, payee, a) = 0
  <1> DEFINE got == [r \in Roles |-> IF payee[r] = a THEN shares[r] ELSE 0]
  <1>1. got \in Shares
    BY DEF Shares
  <1>2. Received(shares, payee, a) = Sum(got)
    BY DEF Received
  <1>3. (\A r \in Roles : payee[r] # a) => Sum(got) = 0
    BY DEF Sum, Roles
  <1> QED
    BY <1>1, <1>2, <1>3, SumBounds

\* A push whose payees are not the contract takes exactly the sum of the
\* shares from the contract, and nothing from anybody else.
LEMMA PushType ==
    ASSUME NEW bal \in [Address -> Nat], NEW shares \in Shares, NEW payee,
           \A r \in Roles : payee[r] # Contract,
           Sum(shares) <= bal[Contract]
    PROVE  /\ Push(bal, shares, payee) \in [Address -> Nat]
           /\ Push(bal, shares, payee)[Contract] = bal[Contract] - Sum(shares)
           /\ \A a \in Address \ {Contract} : Push(bal, shares, payee)[a] >= bal[a]
  <1>1. Contract \in Address /\ Sum(shares) \in Nat
    BY LedgerAssumption, SumBounds
  <1>2. /\ \A a \in Address : Received(shares, payee, a) \in Nat
        /\ Received(shares, payee, Contract) = 0
    BY ReceivedNat
  <1> QED
    BY <1>1, <1>2 DEF Push

-----------------------------------------------------------------------------
(* The inductive invariant: the types, and that records, references and    *)
(* flags agree.  RefIndexSound is needed to know that the next id is new,  *)
(* LifecycleConsistent that a funded record was not funded before, and     *)
(* PartiesDistinct that a payout never comes back to the contract.         *)

Inv == TypeOK /\ RefIndexSound /\ LifecycleConsistent /\ PartiesDistinct

\* The part of it that is about one record.
RecordOK(b) ==
    /\ b \in Bookings
    /\ Consistent(b)
    /\ ValidateParties(b.traveller, b.host)

\* What the invariant says of one booking.
LEMMA InvRecord ==
    ASSUME Inv, NEW id \in DOMAIN booking
    PROVE  RecordOK(booking[id])
  BY DEF Inv, TypeOK, LifecycleConsistent, PartiesDistinct, RecordOK

\* The pools and Stello are addresses other than the contract.
LEMMA ConfigFacts ==
    ASSUME Inv
    PROVE  /\ config.stello_wallet \in Address \ {Contract}
           /\ config.ops_pool \in Address \ {Contract}
           /\ config.review_pool \in Address \ {Contract}
           /\ config.qa_pool \in Address \ {Contract}
           /\ config.o2o_pool \in Address \ {Contract}
           /\ config.token \in Address \ {Contract}
           /\ config.host_cancel_fee \in Nat
  <1>1. /\ config \in [stello_wallet : Address, token : Address,
                       ops_pool : Address, review_pool : Address,
                       qa_pool : Address, o2o_pool : Address,
                       host_cancel_fee : Int]
        /\ ValidateConfig(config)
    BY BookingAssumption DEF Inv, TypeOK
  <1>2. config.host_cancel_fee \in Nat
    BY <1>1 DEF ValidateConfig
  <1> DEFINE addrs == <<config.stello_wallet, config.token, config.ops_pool,
                        config.review_pool, config.qa_pool, config.o2o_pool>>
  <1>3. \A i \in 1 .. 6 : addrs[i] # Contract
    BY <1>1 DEF ValidateConfig
  <1>4. /\ addrs[1] # Contract /\ addrs[2] # Contract /\ addrs[3] # Contract
        /\ addrs[4] # Contract /\ addrs[5] # Contract /\ addrs[6] # Contract
    BY <1>3
  <1> QED
    BY <1>1, <1>2, <1>4

\* Nobody a settlement pays is the contract itself.
LEMMA PayeesOutside ==
    ASSUME Inv, NEW id \in DOMAIN booking
    PROVE  \A r \in Roles : /\ Payee(booking[id])[r] \in Address
                            /\ Payee(booking[id])[r] # Contract
  <1>1. RecordOK(booking[id])
    BY InvRecord
  <1>2. /\ booking[id].traveller \in Address \ {Contract}
        /\ booking[id].host \in Address \ {Contract}
    BY <1>1 DEF RecordOK, Bookings, ValidateParties
  <1> QED
    BY <1>2, ConfigFacts DEF Payee, Roles

\* Writing a sound record over an old one, or under the next id, keeps the
\* records sound.
LEMMA RecordStep ==
    ASSUME Inv, NEW id \in DOMAIN booking, NEW record,
           record \in Bookings, Consistent(record),
           ValidateParties(record.traveller, record.host),
           record.booking_ref = booking[id].booking_ref,
           booking' = [booking EXCEPT ![id] = record],
           UNCHANGED <<config, next_booking_id, booking_ref_index>>
    PROVE  /\ DOMAIN booking' = DOMAIN booking
           /\ booking'[id] = record
           /\ \A k \in DOMAIN booking \ {id} : booking'[k] = booking[k]
           /\ \A k \in DOMAIN booking' : booking'[k] \in Bookings
           /\ RefIndexSound' /\ LifecycleConsistent' /\ PartiesDistinct'
  <1>1. /\ DOMAIN booking' = DOMAIN booking
        /\ booking'[id] = record
        /\ \A k \in DOMAIN booking \ {id} : booking'[k] = booking[k]
    OBVIOUS
  <1>2. \A k \in DOMAIN booking' :
           /\ booking'[k] \in Bookings
           /\ booking'[k].booking_ref = booking[k].booking_ref
    BY <1>1, InvRecord DEF RecordOK
  <1>3. RefIndexSound'
    BY <1>1, <1>2 DEF Inv, RefIndexSound
  <1>4. LifecycleConsistent'
    <2>1. \A k \in DOMAIN booking' : Consistent(booking'[k])
      BY <1>1, InvRecord DEF RecordOK
    <2> QED
      BY <2>1 DEF LifecycleConsistent, Consistent
  <1>5. PartiesDistinct'
    <2>1. \A k \in DOMAIN booking' :
             ValidateParties(booking'[k].traveller, booking'[k].host)
      BY <1>1, InvRecord DEF RecordOK
    <2> QED
      BY <2>1 DEF PartiesDistinct, ValidateParties, Sinks
  <1> QED
    BY <1>1, <1>2, <1>3, <1>4, <1>5
-----------------------------------------------------------------------------
(* Every step preserves the invariant: Stello's rewrites of a record.      *)

\* Rewriting one record keeps the invariant when the record is right and
\* keeps its reference.
LEMMA StelloSetsInv ==
    ASSUME Inv, NEW id \in DOMAIN booking, NEW record, RecordOK(record),
           record.booking_ref = booking[id].booking_ref,
           StelloSets(id, record)
    PROVE  Inv'
  <1>1. /\ booking' = [booking EXCEPT ![id] = record]
        /\ UNCHANGED <<config, next_booking_id, total_escrowed,
                       booking_ref_index, cancel_settlement, wasm, now,
                       balance, refusing>>
        /\ signer' = config.stello_wallet
    BY DEF StelloSets, RequireAuth
  <1>2. /\ DOMAIN booking' = DOMAIN booking
        /\ \A k \in DOMAIN booking' : booking'[k] \in Bookings
        /\ RefIndexSound' /\ LifecycleConsistent' /\ PartiesDistinct'
    BY <1>1, RecordStep DEF RecordOK
  <1>3. TokenTypeOK'
    BY <1>1, ConfigFacts DEF Inv, TypeOK, TokenTypeOK
  <1>4. ValidateConfig(config)'
    BY <1>1 DEF Inv, TypeOK, ValidateConfig
  <1>5. TypeOK'
    BY <1>1, <1>2, <1>3, <1>4 DEF Inv, TypeOK
  <1> QED
    BY <1>2, <1>5 DEF Inv

\* update_booking keeps the invariant.
LEMMA UpdateBookingInv ==
    ASSUME Inv, NEW id \in DOMAIN booking, NEW host \in Address,
           NEW amount \in AmountArgs, NEW start_time \in StartTimeArgs,
           UpdateBooking(id, host, amount, start_time)
    PROVE  Inv'
  <1> DEFINE record == [booking[id] EXCEPT !.host = host, !.amount = amount,
                                           !.start_time = start_time]
  <1>1. RecordOK(booking[id])
    BY InvRecord
  <1>2. amount \in 1 .. I128_MAX /\ start_time \in Nat
    BY BookingAssumption, IntWidths DEF UpdateBooking
  <1>3. /\ booking[id].state = "Created" /\ ~booking[id].escrow_locked
        /\ ValidateParties(booking[id].traveller, host)
        /\ StelloSets(id, record)
    BY DEF UpdateBooking
  <1>4. RecordOK(record) /\ record.booking_ref = booking[id].booking_ref
    <2>1. record \in Bookings
      BY <1>1, <1>2 DEF RecordOK, Bookings
    <2>2. Consistent(record)
      BY <1>1, <1>3 DEF RecordOK, Consistent, Bookings
    <2>3. ValidateParties(record.traveller, record.host)
              /\ record.booking_ref = booking[id].booking_ref
      BY <1>1, <1>3 DEF RecordOK, Bookings
    <2> QED
      BY <2>1, <2>2, <2>3 DEF RecordOK
  <1> HIDE DEF record
  <1> QED
    BY <1>3, <1>4, StelloSetsInv

\* The calls that set the state alone (and the check-in mark).
LEMMA StateStep ==
    ASSUME Inv, NEW id \in DOMAIN booking, NEW s \in States, NEW c \in BOOLEAN,
           Consistent([booking[id] EXCEPT !.state = s, !.checked_in = c])
    PROVE  LET record == [booking[id] EXCEPT !.state = s, !.checked_in = c]
           IN  RecordOK(record) /\ record.booking_ref = booking[id].booking_ref
  BY InvRecord DEF RecordOK, Bookings

\* check_in keeps the invariant.
LEMMA CheckInInv ==
    ASSUME Inv, NEW id \in DOMAIN booking, CheckIn(id)
    PROVE  Inv'
  <1> DEFINE record == [booking[id] EXCEPT !.state = "CheckedIn", !.checked_in = TRUE]
  <1>1. RecordOK(booking[id])
    BY InvRecord
  <1>2. booking[id].state = "Escrowed" /\ StelloSets(id, record)
    BY DEF CheckIn, ValidTransition
  <1>3. Consistent(record)
    BY <1>1, <1>2 DEF RecordOK, Consistent, Bookings
  <1>4. RecordOK(record) /\ record.booking_ref = booking[id].booking_ref
    BY <1>3, StateStep DEF States
  <1> HIDE DEF record
  <1> QED
    BY <1>2, <1>4, StelloSetsInv

\* complete keeps the invariant, from Disputed too.
LEMMA CompleteInv ==
    ASSUME Inv, NEW id \in DOMAIN booking, Complete(id)
    PROVE  Inv'
  <1> DEFINE record == [booking[id] EXCEPT !.state = "Completed"]
  <1>1. RecordOK(booking[id])
    BY InvRecord
  <1>2. /\ booking[id].state \in {"CheckedIn", "Disputed"}
        /\ booking[id].escrow_locked /\ booking[id].checked_in
        /\ StelloSets(id, record)
    BY DEF Complete, ValidTransition
  <1>3. record \in Bookings
    BY <1>1 DEF RecordOK, Bookings, States
  <1>4. Consistent(record)
    BY <1>1, <1>2 DEF RecordOK, Consistent, Bookings
  <1>5. RecordOK(record) /\ record.booking_ref = booking[id].booking_ref
    BY <1>1, <1>3, <1>4 DEF RecordOK, Bookings
  <1> HIDE DEF record
  <1> QED
    BY <1>2, <1>5, StelloSetsInv

\* open_dispute keeps the invariant.
LEMMA OpenDisputeInv ==
    ASSUME Inv, NEW id \in DOMAIN booking, OpenDispute(id)
    PROVE  Inv'
  <1> DEFINE record == [booking[id] EXCEPT !.state = "Disputed"]
  <1>1. RecordOK(booking[id])
    BY InvRecord
  <1>2. /\ ~booking[id].settled
        /\ booking[id].state \in {"Escrowed", "Completed"}
        /\ StelloSets(id, record)
    BY DEF OpenDispute
  <1>3. record \in Bookings
    BY <1>1 DEF RecordOK, Bookings, States
  <1>4. Consistent(record)
    BY <1>1, <1>2 DEF RecordOK, Consistent, Bookings
  <1>5. RecordOK(record) /\ record.booking_ref = booking[id].booking_ref
    BY <1>1, <1>3, <1>4 DEF RecordOK, Bookings
  <1> HIDE DEF record
  <1> QED
    BY <1>2, <1>5, StelloSetsInv

-----------------------------------------------------------------------------
(* Creating and funding a booking.                                         *)

\* book keeps the invariant: the new id is the next one, the reference new.
LEMMA BookInv ==
    ASSUME Inv, NEW ref \in BookingRef, NEW traveller \in Address,
           NEW host \in Address, NEW amount \in AmountArgs,
           NEW start_time \in StartTimeArgs,
           Book(ref, traveller, host, amount, start_time)
    PROVE  Inv'
  <1> DEFINE new    == next_booking_id
             record == NewBooking(ref, traveller, host, amount, start_time)
  <1>1. /\ amount \in 1 .. I128_MAX /\ start_time \in Nat
        /\ ValidateParties(traveller, host)
        /\ ref \notin DOMAIN booking_ref_index
        /\ new \in Nat /\ new >= 1 /\ new + 1 <= U64_MAX /\ U64_MAX \in Nat
    BY BookingAssumption, IntWidths DEF Book, AddBooking, Inv, TypeOK
  <1>2. /\ booking' = Put(booking, new, record)
        /\ booking_ref_index' = Put(booking_ref_index, ref, new)
        /\ next_booking_id' = new + 1
        /\ signer' = config.stello_wallet
        /\ UNCHANGED <<config, total_escrowed, cancel_settlement, wasm, now,
                       balance, refusing>>
    BY DEF Book, AddBooking, RequireAuth
  <1>3. RecordOK(record) /\ record.booking_ref = ref
    <2>1. record \in Bookings
      BY <1>1, ConfigFacts, IntWidths DEF NewBooking, Bookings, States
    <2>2. Consistent(record) /\ record.booking_ref = ref
              /\ record.traveller = traveller /\ record.host = host
      BY DEF NewBooking, Consistent
    <2> QED
      BY <1>1, <2>1, <2>2 DEF RecordOK
  <1> HIDE DEF record
  <1>4. DOMAIN booking = 1 .. (new - 1)
    BY DEF Inv, RefIndexSound
  <1>5. /\ DOMAIN booking' = 1 .. new /\ new \notin DOMAIN booking
        /\ booking'[new] = record
        /\ \A k \in DOMAIN booking : booking'[k] = booking[k]
    BY <1>1, <1>2, <1>4 DEF Put
  <1>6. /\ DOMAIN booking_ref_index' = DOMAIN booking_ref_index \cup {ref}
        /\ booking_ref_index'[ref] = new
        /\ \A f \in DOMAIN booking_ref_index : booking_ref_index'[f] = booking_ref_index[f]
    BY <1>1, <1>2 DEF Put
  <1>7. \A k \in DOMAIN booking' : k \in DOMAIN booking \/ k = new
    BY <1>1, <1>4, <1>5
  <1>8. RefIndexSound'
    <2>1. DOMAIN booking' = 1 .. (next_booking_id' - 1)
      BY <1>1, <1>2, <1>5
    <2>2. \A k \in DOMAIN booking' :
             /\ booking'[k].booking_ref \in DOMAIN booking_ref_index'
             /\ booking_ref_index'[booking'[k].booking_ref] = k
      BY <1>3, <1>5, <1>6, <1>7 DEF Inv, RefIndexSound
    <2>3. \A f \in DOMAIN booking_ref_index' :
             /\ booking_ref_index'[f] \in DOMAIN booking'
             /\ booking'[booking_ref_index'[f]].booking_ref = f
      <3>1. \A f \in DOMAIN booking_ref_index :
               /\ booking_ref_index[f] \in DOMAIN booking
               /\ booking[booking_ref_index[f]].booking_ref = f
        BY DEF Inv, RefIndexSound
      <3>2. DOMAIN booking \subseteq DOMAIN booking' /\ new \in DOMAIN booking'
        BY <1>1, <1>4, <1>5
      <3> QED
        BY <1>3, <1>5, <1>6, <3>1, <3>2
    <2> QED
      BY <2>1, <2>2, <2>3 DEF RefIndexSound
  <1>9. \A k \in DOMAIN booking' : RecordOK(booking'[k])
    BY <1>3, <1>5, <1>7, InvRecord
  <1>10. LifecycleConsistent' /\ PartiesDistinct'
    BY <1>2, <1>9 DEF RecordOK, LifecycleConsistent, PartiesDistinct, Consistent,
                      ValidateParties, Sinks
  <1>11. TypeOK'
    <2>1. TokenTypeOK'
      BY <1>2, ConfigFacts DEF Inv, TypeOK, TokenTypeOK
    <2>2. ValidateConfig(config)'
      BY <1>2 DEF Inv, TypeOK, ValidateConfig
    <2>3. \A f \in DOMAIN booking_ref_index' : booking_ref_index'[f] \in 1 .. U64_MAX
      BY <1>1, <1>6 DEF Inv, TypeOK
    <2>4. /\ DOMAIN booking' \subseteq 1 .. U64_MAX
          /\ DOMAIN booking \subseteq DOMAIN booking'
          /\ next_booking_id' \in 1 .. U64_MAX
      BY <1>1, <1>2, <1>4, <1>5
    <2>5. \A k \in DOMAIN booking' : booking'[k] \in Bookings
      BY <1>9 DEF RecordOK
    <2>6. DOMAIN booking_ref_index' \subseteq BookingRef
      BY <1>6 DEF Inv, TypeOK
    <2> QED
      BY <1>2, <2>1, <2>2, <2>3, <2>4, <2>5, <2>6 DEF Inv, TypeOK
  <1> QED
    BY <1>8, <1>10, <1>11 DEF Inv
\* lock_escrow keeps the invariant.
LEMMA LockEscrowInv ==
    ASSUME Inv, NEW id \in DOMAIN booking, NEW amount, LockEscrow(id, amount)
    PROVE  /\ Inv'
           /\ booking[id].state = "Created" /\ booking[id].amount = amount
           /\ booking' = [booking EXCEPT ![id] =
                [booking[id] EXCEPT !.state = "Escrowed", !.escrow_locked = TRUE,
                                    !.escrow_amount = amount]]
           /\ total_escrowed' = total_escrowed + amount
           /\ balance'[Contract] = balance[Contract] + amount
           /\ \A a \in Address \ {booking[id].traveller} : balance'[a] >= balance[a]
           /\ balance'[booking[id].traveller] = balance[booking[id].traveller] - amount
  <1> DEFINE b      == booking[id]
             record == [b EXCEPT !.state = "Escrowed", !.escrow_locked = TRUE,
                                 !.escrow_amount = amount]
  <1>1. RecordOK(b)
    BY InvRecord
  <1>2. /\ b.state = "Created" /\ ~b.escrow_locked /\ b.escrow_amount = 0
        /\ ~b.settled
        /\ amount = b.amount /\ amount \in 1 .. I128_MAX
        /\ b.traveller \in Address \ {Contract}
    BY <1>1 DEF LockEscrow, RecordOK, Bookings, ValidateParties
  <1>3. /\ balance' = Transfer(balance, b.traveller, Contract, amount)
        /\ balance[b.traveller] >= amount
        /\ booking' = [booking EXCEPT ![id] =
                         [b EXCEPT !.state = "Escrowed", !.escrow_locked = TRUE,
                                   !.escrow_amount = @ + amount]]
        /\ AddFits(total_escrowed, amount)
        /\ total_escrowed' = total_escrowed + amount
        /\ signer' = b.traveller
        /\ UNCHANGED <<config, next_booking_id, booking_ref_index,
                       cancel_settlement, wasm, now, refusing>>
    BY DEF LockEscrow, CanTransfer, IncreaseTotalEscrowed, RequireAuth
  <1>4. booking' = [booking EXCEPT ![id] = record]
    BY <1>2, <1>3, I128Range
  <1>5. RecordOK(record) /\ record.booking_ref = b.booking_ref
    <2>1. record \in Bookings
      BY <1>1, <1>2, I128Range DEF RecordOK, Bookings, States
    <2>2. /\ record.escrow_amount = amount /\ record.amount = amount
          /\ record.escrow_locked /\ ~record.settled
          /\ record.state = "Escrowed" /\ record.token = b.token
          /\ record.checked_in = b.checked_in
          /\ record.was_cancelled = b.was_cancelled
          /\ record.cancelled_by = b.cancelled_by
      BY <1>1, <1>2 DEF RecordOK, Bookings
    <2>3. Consistent(record)
      BY <1>1, <1>2, <2>2 DEF RecordOK, Consistent
    <2> QED
      BY <1>1, <2>1, <2>3 DEF RecordOK, Bookings
  <1>6. /\ balance' \in [Address -> Nat]
        /\ balance'[Contract] = balance[Contract] + amount
        /\ balance'[b.traveller] = balance[b.traveller] - amount
        /\ \A a \in Address \ {b.traveller} : balance'[a] >= balance[a]
    <2>1. balance \in [Address -> Nat] /\ Contract \in Address /\ amount \in Nat
      BY <1>2, LedgerAssumption, IntWidths DEF Inv, TypeOK, TokenTypeOK
    <2>2. /\ balance' \in [Address -> Nat]
          /\ balance'[Contract] = balance[Contract] + amount
          /\ balance'[b.traveller] = balance[b.traveller] - amount
          /\ \A a \in Address \ {b.traveller, Contract} : balance'[a] = balance[a]
      BY <1>2, <1>3, <2>1, TransferType
    <2> QED
      BY <2>1, <2>2
  <1> HIDE DEF record
  <1>7. /\ DOMAIN booking' = DOMAIN booking
        /\ \A k \in DOMAIN booking' : booking'[k] \in Bookings
        /\ RefIndexSound' /\ LifecycleConsistent' /\ PartiesDistinct'
    BY <1>3, <1>4, <1>5, RecordStep DEF RecordOK
  <1>8. TypeOK'
    <2>1. total_escrowed' \in Int /\ total_escrowed' <= I128_MAX
      BY <1>2, <1>3, IntWidths DEF AddFits, Inv, TypeOK
    <2>2. TokenTypeOK'
      BY <1>2, <1>3, <1>6 DEF Inv, TypeOK, TokenTypeOK
    <2>3. ValidateConfig(config)'
      BY <1>3 DEF Inv, TypeOK, ValidateConfig
    <2> QED
      BY <1>3, <1>7, <2>1, <2>2, <2>3 DEF Inv, TypeOK
  <1>9. Inv'
    BY <1>7, <1>8 DEF Inv
  <1> QED
    BY <1>2, <1>3, <1>4, <1>6, <1>9 DEF record

-----------------------------------------------------------------------------
(* Settling a booking.                                                     *)

\* The record a settlement writes.
Closed(record) == [record EXCEPT !.settled = TRUE, !.escrow_amount = 0]

\* The record that the action hands to Settle is the old one with another
\* state and the marks of a cancellation.
Closes(b, closed) ==
    /\ closed \in Bookings
    /\ closed.booking_ref = b.booking_ref
    /\ closed.traveller = b.traveller /\ closed.host = b.host
    /\ Consistent(Closed(closed))

\* What every settlement does, whatever its shares: the invariant survives,
\* and the contract's balance falls by exactly the escrow.
LEMMA SettleStep ==
    ASSUME Inv, NEW id \in DOMAIN booking, NEW closed, NEW shares \in Shares,
           NEW bal \in [Address -> Nat], bal[Contract] = balance[Contract],
           Closes(booking[id], closed),
           Settle(id, closed, shares, bal),
           signer' \in Address,
           DOMAIN cancel_settlement' \subseteq DOMAIN booking,
           \A k \in DOMAIN cancel_settlement' :
             cancel_settlement'[k] \in
               [traveller_amount : Nat, host_amount : Nat, ops_amount : Nat]
    PROVE  /\ Inv'
           /\ booking' = [booking EXCEPT ![id] = Closed(closed)]
           /\ ~booking[id].settled
           /\ booking[id].escrow_amount \in Nat \ {0}
           /\ Solvent
           /\ total_escrowed' = total_escrowed - booking[id].escrow_amount
           /\ balance'[Contract] = balance[Contract] - booking[id].escrow_amount
           /\ \A a \in Address \ {Contract} : balance'[a] >= bal[a]
  <1> DEFINE b == booking[id]
  <1>1. RecordOK(b)
    BY InvRecord
  <1>2. /\ ~b.settled /\ b.escrow_amount \in Nat \ {0}
        /\ Solvent
        /\ Sum(shares) = b.escrow_amount
        /\ CanPush(bal, shares, Payee(b))
        /\ booking' = [booking EXCEPT ![id] = Closed(closed)]
        /\ total_escrowed' = total_escrowed - b.escrow_amount
        /\ balance' = Push(bal, shares, Payee(b))
        /\ UNCHANGED <<config, next_booking_id, booking_ref_index, wasm, now,
                       refusing>>
    BY <1>1, IntWidths DEF Settle, Closed, DecreaseTotalEscrowed, RecordOK, Bookings
  <1>3. /\ Closed(closed) \in Bookings
        /\ Closed(closed).booking_ref = b.booking_ref
        /\ Consistent(Closed(closed))
        /\ ValidateParties(Closed(closed).traveller, Closed(closed).host)
    <2>1. /\ Closed(closed) \in Bookings
          /\ Closed(closed).booking_ref = b.booking_ref
          /\ Closed(closed).traveller = b.traveller
          /\ Closed(closed).host = b.host
      BY I128Range DEF Closes, Closed, Bookings
    <2> QED
      BY <1>1, <2>1 DEF RecordOK, Closes
  <1>4. /\ balance' \in [Address -> Nat]
        /\ balance'[Contract] = balance[Contract] - b.escrow_amount
        /\ \A a \in Address \ {Contract} : balance'[a] >= bal[a]
    <2>1. Sum(shares) <= bal[Contract]
      BY <1>2 DEF CanPush
    <2>2. \A r \in Roles : Payee(b)[r] # Contract
      BY PayeesOutside
    <2> QED
      BY <1>2, <2>1, <2>2, PushType
  <1>5. /\ DOMAIN booking' = DOMAIN booking
        /\ \A k \in DOMAIN booking' : booking'[k] \in Bookings
        /\ RefIndexSound' /\ LifecycleConsistent' /\ PartiesDistinct'
    BY <1>2, <1>3, RecordStep
  <1>6. TypeOK'
    <2>1. total_escrowed' \in Int /\ total_escrowed' <= I128_MAX
      BY <1>2, IntWidths DEF Inv, TypeOK
    <2>2. TokenTypeOK'
      BY <1>2, <1>4 DEF Inv, TypeOK, TokenTypeOK
    <2>3. ValidateConfig(config)'
      BY <1>2 DEF Inv, TypeOK, ValidateConfig
    <2> QED
      BY <1>2, <1>5, <2>1, <2>2, <2>3 DEF Inv, TypeOK
  <1>7. Inv'
    BY <1>5, <1>6 DEF Inv
  <1> QED
    BY <1>2, <1>4, <1>7
\* No cancellation record but that of id changes.
OtherRecordsKept(id) ==
    \A k \in DOMAIN cancel_settlement \ {id} :
        /\ k \in DOMAIN cancel_settlement'
        /\ cancel_settlement'[k] = cancel_settlement[k]

\* What is true of every settlement the contract makes.
Settled(id) ==
    /\ booking[id].escrow_locked /\ ~booking[id].settled
    /\ Solvent
    /\ DOMAIN booking' = DOMAIN booking
    /\ \A k \in DOMAIN booking \ {id} : booking'[k] = booking[k]
    /\ booking'[id].settled /\ booking'[id].escrow_locked
    /\ booking'[id].escrow_amount = 0
    /\ TermsOf(booking'[id]) = TermsOf(booking[id])
    /\ total_escrowed' = total_escrowed - booking[id].escrow_amount
    /\ balance'[Contract] = balance[Contract] - booking[id].escrow_amount
    /\ OtherRecordsKept(id)

\* A booking that holds escrow: what the record says about it.
LEMMA EscrowHeld ==
    ASSUME Inv, NEW id \in DOMAIN booking, booking[id].escrow_amount > 0
    PROVE  /\ booking[id].escrow_locked /\ ~booking[id].settled
           /\ booking[id].escrow_amount = booking[id].amount
           /\ booking[id].escrow_amount \in 1 .. I128_MAX
  <1>1. RecordOK(booking[id])
    BY InvRecord
  <1> QED
    BY <1>1 DEF RecordOK, Consistent, Bookings

\* The step of a settlement whose record keeps the terms.
LEMMA SettledBy ==
    ASSUME Inv, NEW id \in DOMAIN booking, NEW record \in Bookings,
           booking[id].escrow_amount > 0,
           TermsOf(record) = TermsOf(booking[id]),
           record.escrow_locked = booking[id].escrow_locked,
           Solvent,
           booking' = [booking EXCEPT ![id] = Closed(record)],
           total_escrowed' = total_escrowed - booking[id].escrow_amount,
           balance'[Contract] = balance[Contract] - booking[id].escrow_amount,
           OtherRecordsKept(id)
    PROVE  Settled(id)
  <1>1. /\ Closed(record).settled /\ Closed(record).escrow_amount = 0
        /\ Closed(record).escrow_locked = record.escrow_locked
        /\ TermsOf(Closed(record)) = TermsOf(record)
    BY DEF Closed, Bookings, TermsOf
  <1>2. /\ DOMAIN booking' = DOMAIN booking
        /\ booking'[id] = Closed(record)
        /\ \A k \in DOMAIN booking \ {id} : booking'[k] = booking[k]
    OBVIOUS
  <1> QED
    BY <1>1, <1>2, EscrowHeld DEF Settled

\* execute_split keeps the invariant and settles.
LEMMA ExecuteSplitInv ==
    ASSUME Inv, NEW id \in DOMAIN booking, ExecuteSplit(id)
    PROVE  Inv' /\ Settled(id)
  <1> DEFINE b      == booking[id]
             shares == CompletionSplit(b.escrow_amount)
  <1>1. /\ b.state = "Completed" /\ b.escrow_amount > 0
        /\ Settle(id, b, shares, balance)
        /\ signer' = config.stello_wallet
        /\ UNCHANGED cancel_settlement
    BY DEF ExecuteSplit, Settle, RequireAuth
  <1>2. RecordOK(b) /\ b.escrow_locked /\ b.escrow_amount \in 1 .. I128_MAX
    BY <1>1, InvRecord, EscrowHeld
  <1>3. shares \in Shares
    BY <1>2, SettlementsExact
  <1>4. Closes(b, b)
    BY <1>1, <1>2 DEF Closes, Closed, Consistent, RecordOK, Bookings
  <1>5. balance \in [Address -> Nat] /\ signer' \in Address
    BY <1>1, ConfigFacts DEF Inv, TypeOK, TokenTypeOK
  <1>6. /\ DOMAIN cancel_settlement' \subseteq DOMAIN booking
        /\ \A k \in DOMAIN cancel_settlement' :
             cancel_settlement'[k] \in
               [traveller_amount : Nat, host_amount : Nat, ops_amount : Nat]
    BY <1>1 DEF Inv, TypeOK
  <1> HIDE DEF shares
  <1>7. /\ Inv' /\ Solvent
        /\ booking' = [booking EXCEPT ![id] = Closed(b)]
        /\ total_escrowed' = total_escrowed - b.escrow_amount
        /\ balance'[Contract] = balance[Contract] - b.escrow_amount
    BY <1>1, <1>3, <1>4, <1>5, <1>6, SettleStep
  <1> QED
    BY <1>1, <1>2, <1>7, SettledBy DEF RecordOK, OtherRecordsKept

\* resolve_dispute keeps the invariant and settles.
LEMMA ResolveDisputeInv ==
    ASSUME Inv, NEW id \in DOMAIN booking, NEW bps \in BpsArgs,
           ResolveDispute(id, bps)
    PROVE  Inv' /\ Settled(id)
  <1> DEFINE b      == booking[id]
             closed == [b EXCEPT !.state = "Completed"]
             shares == BpsAmounts(b.escrow_amount, bps)
  <1>1. /\ b.state = "Disputed" /\ b.escrow_amount > 0
        /\ ValidBps(bps) /\ bps \in Shares
        /\ Settle(id, closed, shares, balance)
        /\ signer' = config.stello_wallet
        /\ UNCHANGED cancel_settlement
    BY BookingAssumption DEF ResolveDispute, Settle, RequireAuth
  <1>2. RecordOK(b) /\ b.escrow_locked /\ b.escrow_amount \in 1 .. I128_MAX
    BY <1>1, InvRecord, EscrowHeld
  <1>3. shares \in Shares
    BY <1>1, <1>2, SettlementsExact
  <1>4. /\ closed \in Bookings
        /\ TermsOf(closed) = TermsOf(b)
        /\ closed.escrow_locked = b.escrow_locked
    BY <1>2 DEF RecordOK, Bookings, States, TermsOf
  <1>5. Closes(b, closed)
    BY <1>1, <1>2, <1>4 DEF Closes, Closed, Consistent, RecordOK, Bookings
  <1>6. balance \in [Address -> Nat] /\ signer' \in Address
    BY <1>1, ConfigFacts DEF Inv, TypeOK, TokenTypeOK
  <1>7. /\ DOMAIN cancel_settlement' \subseteq DOMAIN booking
        /\ \A k \in DOMAIN cancel_settlement' :
             cancel_settlement'[k] \in
               [traveller_amount : Nat, host_amount : Nat, ops_amount : Nat]
    BY <1>1 DEF Inv, TypeOK
  <1> HIDE DEF shares, closed
  <1>8. /\ Inv' /\ Solvent
        /\ booking' = [booking EXCEPT ![id] = Closed(closed)]
        /\ total_escrowed' = total_escrowed - b.escrow_amount
        /\ balance'[Contract] = balance[Contract] - b.escrow_amount
    BY <1>1, <1>3, <1>5, <1>6, <1>7, SettleStep
  <1> QED
    BY <1>1, <1>4, <1>8, SettledBy DEF OtherRecordsKept

\* The record and the cancellation entry of both cancellations.
LEMMA CancelStep ==
    ASSUME Inv, NEW id \in DOMAIN booking, NEW by \in {"Traveller", "Host"},
           NEW shares \in Shares, NEW bal \in [Address -> Nat],
           bal[Contract] = balance[Contract],
           CanCancel(booking[id]),
           Settle(id, CancelledRecord(booking[id], by), shares, bal),
           RecordCancelSettlement(id, shares),
           signer' \in Address
    PROVE  Inv' /\ Settled(id)
  <1> DEFINE b      == booking[id]
             closed == CancelledRecord(b, by)
  <1>1. b.state = "Escrowed" /\ b.escrow_amount > 0
    BY DEF CanCancel, Settle
  <1>2. RecordOK(b) /\ b.escrow_locked
    BY <1>1, InvRecord, EscrowHeld
  <1>3. /\ closed \in Bookings
        /\ TermsOf(closed) = TermsOf(b)
        /\ closed.escrow_locked = b.escrow_locked
    BY <1>2 DEF RecordOK, Bookings, States, TermsOf, CancelledRecord
  <1>4. Closes(b, closed)
    BY <1>1, <1>2, <1>3
       DEF Closes, Closed, Consistent, RecordOK, Bookings, CancelledRecord
  <1>5. /\ DOMAIN cancel_settlement' \subseteq DOMAIN booking
        /\ \A k \in DOMAIN cancel_settlement' :
             cancel_settlement'[k] \in
               [traveller_amount : Nat, host_amount : Nat, ops_amount : Nat]
        /\ OtherRecordsKept(id)
    <2> DEFINE entry == [traveller_amount |-> shares["traveller"],
                         host_amount |-> shares["host"],
                         ops_amount |-> shares["ops"]]
    <2>1. entry \in [traveller_amount : Nat, host_amount : Nat, ops_amount : Nat]
      BY DEF Shares, Roles
    <2>2. cancel_settlement' = Put(cancel_settlement, id, entry)
      BY DEF RecordCancelSettlement
    <2> HIDE DEF entry
    <2> QED
      BY <2>1, <2>2 DEF Put, Inv, TypeOK, OtherRecordsKept
  <1> HIDE DEF closed
  <1>6. /\ Inv' /\ Solvent
        /\ booking' = [booking EXCEPT ![id] = Closed(closed)]
        /\ total_escrowed' = total_escrowed - b.escrow_amount
        /\ balance'[Contract] = balance[Contract] - b.escrow_amount
    <2>1. Settle(id, closed, shares, bal)
      BY DEF closed
    <2> QED
      BY <1>4, <1>5, <2>1, SettleStep
  <1> QED
    BY <1>1, <1>3, <1>5, <1>6, SettledBy

\* cancel_by_traveller keeps the invariant and settles.
LEMMA CancelByTravellerInv ==
    ASSUME Inv, NEW id \in DOMAIN booking, CancelByTraveller(id)
    PROVE  Inv' /\ Settled(id)
  <1> DEFINE b      == booking[id]
             shares == TravellerRefund(b.escrow_amount, b.start_time, now)
  <1>1. /\ CanCancel(b) /\ b.escrow_amount > 0
        /\ Settle(id, CancelledRecord(b, "Traveller"), shares, balance)
        /\ RecordCancelSettlement(id, shares)
        /\ signer' = config.stello_wallet
    BY DEF CancelByTraveller, Settle, RequireAuth
  <1>2. RecordOK(b) /\ b.escrow_amount \in 1 .. I128_MAX
    BY <1>1, InvRecord, EscrowHeld
  <1>3. b.start_time \in Nat /\ now \in Nat
    BY <1>2, BookingAssumption DEF RecordOK, Bookings, Inv, TypeOK
  <1>4. shares \in Shares
    BY <1>2, <1>3, SettlementsExact
  <1>5. balance \in [Address -> Nat] /\ signer' \in Address
    BY <1>1, ConfigFacts DEF Inv, TypeOK, TokenTypeOK
  <1> HIDE DEF shares
  <1> QED
    BY <1>1, <1>4, <1>5, CancelStep

\* cancel_by_host keeps the invariant and settles; the fee leaves the
\* contract's balance alone.
LEMMA CancelByHostInv ==
    ASSUME Inv, NEW id \in DOMAIN booking, CancelByHost(id)
    PROVE  Inv' /\ Settled(id)
  <1> DEFINE b      == booking[id]
             fee    == config.host_cancel_fee
             shares == HostCancelRefund(b.escrow_amount)
             paid   == FeePaid(b)
  <1>1. /\ CanCancel(b) /\ b.escrow_amount > 0
        /\ balance[b.host] >= fee
        /\ Settle(id, CancelledRecord(b, "Host"), shares, paid)
        /\ RecordCancelSettlement(id, shares)
        /\ signer' = b.host
    BY DEF CancelByHost, HostCancels, Settle, RequireAuth, CanTransfer
  <1>2. RecordOK(b) /\ b.escrow_amount \in 1 .. I128_MAX
    BY <1>1, InvRecord, EscrowHeld
  <1>3. shares \in Shares
    BY <1>2, I128Range DEF HostCancelRefund, CancelShares, Shares
  <1>4. /\ b.host \in Address \ {Contract} /\ b.host # config.ops_pool
        /\ config.ops_pool \in Address \ {Contract} /\ fee \in Nat
        /\ balance \in [Address -> Nat] /\ Contract \in Address
    BY <1>2, ConfigFacts, LedgerAssumption
       DEF RecordOK, Bookings, ValidateParties, Sinks, Inv, TypeOK, TokenTypeOK
  <1>5. paid \in [Address -> Nat] /\ paid[Contract] = balance[Contract]
    BY <1>1, <1>4, TransferType DEF FeePaid
  <1> HIDE DEF shares, paid
  <1> QED
    BY <1>1, <1>3, <1>4, <1>5, CancelStep
-----------------------------------------------------------------------------
(* The steps of the specification, by what they do to the money.           *)

\* A new booking, not yet funded.
Created(new) ==
    /\ new \notin DOMAIN booking
    /\ DOMAIN booking' = DOMAIN booking \cup {new}
    /\ \A k \in DOMAIN booking : booking'[k] = booking[k]
    /\ ~booking'[new].escrow_locked /\ booking'[new].escrow_amount = 0
    /\ UNCHANGED <<total_escrowed, balance, cancel_settlement>>

\* A rewrite of an unsettled record that leaves the money alone, and the
\* terms too once the booking is funded.
Rewritten(id) ==
    /\ ~booking[id].settled /\ ~booking'[id].settled
    /\ DOMAIN booking' = DOMAIN booking
    /\ \A k \in DOMAIN booking \ {id} : booking'[k] = booking[k]
    /\ booking[id].escrow_locked <=> booking'[id].escrow_locked
    /\ booking'[id].escrow_amount = booking[id].escrow_amount
    /\ booking[id].escrow_locked => TermsOf(booking'[id]) = TermsOf(booking[id])
    /\ UNCHANGED <<total_escrowed, balance, cancel_settlement>>

\* A booking is funded with tokens that arrive.
Funded(id) ==
    /\ ~booking[id].escrow_locked /\ ~booking[id].settled
    /\ DOMAIN booking' = DOMAIN booking
    /\ \A k \in DOMAIN booking \ {id} : booking'[k] = booking[k]
    /\ booking'[id].escrow_locked /\ ~booking'[id].settled
    /\ booking'[id].escrow_amount \in Nat \ {0}
    /\ total_escrowed' = total_escrowed + booking'[id].escrow_amount
    /\ balance'[Contract] = balance[Contract] + booking'[id].escrow_amount
    /\ UNCHANGED cancel_settlement

\* The issuer claws tokens back.
ClawedBack == \E amount \in Clawbacks : Clawback(amount)

\* Nothing happens to the bookings; the contract's balance falls only by a
\* clawback.
Outside ==
    /\ UNCHANGED <<booking, total_escrowed, cancel_settlement>>
    /\ balance'[Contract] \in Nat
    /\ balance'[Contract] >= balance[Contract] \/ ClawedBack

StepKind ==
    \/ \E new \in 1 .. U64_MAX : Created(new)
    \/ \E id \in DOMAIN booking : Rewritten(id) \/ Funded(id) \/ Settled(id)
    \/ Outside

\* book only creates.
LEMMA BookStep ==
    ASSUME Inv, NEW ref \in BookingRef, NEW traveller \in Address,
           NEW host \in Address, NEW amount \in AmountArgs,
           NEW start_time \in StartTimeArgs,
           Book(ref, traveller, host, amount, start_time)
    PROVE  Created(next_booking_id) /\ next_booking_id \in 1 .. U64_MAX
  <1> DEFINE new    == next_booking_id
             record == NewBooking(ref, traveller, host, amount, start_time)
  <1>1. new \in 1 .. U64_MAX /\ DOMAIN booking = 1 .. (new - 1) /\ U64_MAX \in Nat
    BY BookingAssumption DEF Inv, TypeOK, RefIndexSound
  <1>2. /\ booking' = Put(booking, new, record)
        /\ UNCHANGED <<total_escrowed, cancel_settlement, balance>>
        /\ ~record.escrow_locked /\ record.escrow_amount = 0
    BY DEF Book, AddBooking, NewBooking
  <1>3. new \notin DOMAIN booking
    BY <1>1
  <1> HIDE DEF record
  <1> QED
    BY <1>1, <1>2, <1>3 DEF Put, Created

\* A rewrite that keeps flags, escrow and funded terms is Rewritten.
LEMMA RewriteStep ==
    ASSUME Inv, NEW id \in DOMAIN booking, NEW record,
           ~booking[id].settled, ~record.settled,
           booking[id].escrow_locked <=> record.escrow_locked,
           record.escrow_amount = booking[id].escrow_amount,
           booking[id].escrow_locked => TermsOf(record) = TermsOf(booking[id]),
           StelloSets(id, record)
    PROVE  Rewritten(id)
  <1>1. /\ booking' = [booking EXCEPT ![id] = record]
        /\ UNCHANGED <<total_escrowed, balance, cancel_settlement>>
    BY DEF StelloSets
  <1>2. /\ DOMAIN booking' = DOMAIN booking /\ booking'[id] = record
        /\ \A k \in DOMAIN booking \ {id} : booking'[k] = booking[k]
    BY <1>1
  <1> QED
    BY <1>1, <1>2 DEF Rewritten

\* update_booking rewrites, before the lock only.
LEMMA UpdateBookingStep ==
    ASSUME Inv, NEW id \in DOMAIN booking, NEW host, NEW amount, NEW start_time,
           UpdateBooking(id, host, amount, start_time)
    PROVE  Rewritten(id)
  <1> DEFINE record == [booking[id] EXCEPT !.host = host, !.amount = amount,
                                           !.start_time = start_time]
  <1>1. /\ RecordOK(booking[id]) /\ ~booking[id].escrow_locked
        /\ booking[id].state = "Created" /\ StelloSets(id, record)
    BY InvRecord DEF UpdateBooking
  <1>2. ~booking[id].settled
    BY <1>1 DEF RecordOK, Consistent
  <1>3. /\ ~record.settled /\ ~record.escrow_locked
        /\ record.escrow_amount = booking[id].escrow_amount
    BY <1>1, <1>2 DEF RecordOK, Bookings
  <1> HIDE DEF record
  <1> QED
    BY <1>1, <1>2, <1>3, RewriteStep

\* check_in rewrites.
LEMMA CheckInStep ==
    ASSUME Inv, NEW id \in DOMAIN booking, CheckIn(id)
    PROVE  Rewritten(id)
  <1> DEFINE record == [booking[id] EXCEPT !.state = "CheckedIn", !.checked_in = TRUE]
  <1>1. /\ RecordOK(booking[id]) /\ booking[id].escrow_locked
        /\ booking[id].state = "Escrowed" /\ StelloSets(id, record)
    BY InvRecord DEF CheckIn, ValidTransition
  <1>2. ~booking[id].settled
    BY <1>1 DEF RecordOK, Consistent
  <1>3. /\ ~record.settled /\ record.escrow_locked
        /\ record.escrow_amount = booking[id].escrow_amount
        /\ TermsOf(record) = TermsOf(booking[id])
    BY <1>1, <1>2 DEF RecordOK, Bookings, TermsOf
  <1> HIDE DEF record
  <1> QED
    BY <1>1, <1>2, <1>3, RewriteStep

\* Complete and OpenDispute only set the state.
LEMMA SetStateStep ==
    ASSUME Inv, NEW id \in DOMAIN booking, NEW s \in States,
           ~booking[id].settled,
           StelloSets(id, [booking[id] EXCEPT !.state = s])
    PROVE  Rewritten(id)
  <1> DEFINE record == [booking[id] EXCEPT !.state = s]
  <1>1. RecordOK(booking[id])
    BY InvRecord
  <1>2. /\ ~record.settled /\ record.escrow_locked = booking[id].escrow_locked
        /\ record.escrow_amount = booking[id].escrow_amount
        /\ TermsOf(record) = TermsOf(booking[id])
    BY <1>1 DEF RecordOK, Bookings, TermsOf
  <1>3. StelloSets(id, record)
    OBVIOUS
  <1> HIDE DEF record
  <1> QED
    BY <1>2, <1>3, RewriteStep

\* complete rewrites.
LEMMA CompleteStep ==
    ASSUME Inv, NEW id \in DOMAIN booking, Complete(id)
    PROVE  Rewritten(id)
  <1>1. /\ booking[id].state \in {"CheckedIn", "Disputed"}
        /\ RecordOK(booking[id])
        /\ StelloSets(id, [booking[id] EXCEPT !.state = "Completed"])
    BY InvRecord DEF Complete, ValidTransition
  <1>2. ~booking[id].settled
    BY <1>1 DEF RecordOK, Consistent
  <1> QED
    BY <1>1, <1>2, SetStateStep DEF States

\* open_dispute rewrites.
LEMMA OpenDisputeStep ==
    ASSUME Inv, NEW id \in DOMAIN booking, OpenDispute(id)
    PROVE  Rewritten(id)
  BY SetStateStep DEF OpenDispute, States

\* lock_escrow funds.
LEMMA LockEscrowStep ==
    ASSUME Inv, NEW id \in DOMAIN booking, NEW amount, LockEscrow(id, amount)
    PROVE  Funded(id)
  <1> DEFINE b      == booking[id]
             record == [b EXCEPT !.state = "Escrowed", !.escrow_locked = TRUE,
                                 !.escrow_amount = amount]
  <1>1. /\ RecordOK(b)
        /\ ~b.escrow_locked /\ ~b.settled /\ amount = b.amount
        /\ amount \in 1 .. I128_MAX /\ UNCHANGED cancel_settlement
    BY InvRecord DEF LockEscrow, RecordOK, Bookings
  <1>2. /\ booking' = [booking EXCEPT ![id] = record]
        /\ total_escrowed' = total_escrowed + amount
        /\ balance'[Contract] = balance[Contract] + amount
    BY LockEscrowInv
  <1>3. record.escrow_locked /\ ~record.settled /\ record.escrow_amount = amount
    BY <1>1 DEF RecordOK, Bookings
  <1> HIDE DEF record
  <1>4. /\ DOMAIN booking' = DOMAIN booking /\ booking'[id] = record
        /\ \A k \in DOMAIN booking \ {id} : booking'[k] = booking[k]
    BY <1>2
  <1> QED
    BY <1>1, <1>2, <1>3, <1>4, I128Range DEF Funded

-----------------------------------------------------------------------------
(* The world outside, and all steps together.                              *)

\* What happens outside the contract keeps the invariant.
LEMMA WorldInv ==
    ASSUME Inv, World
    PROVE  Inv' /\ Outside
  <1>1. /\ balance \in [Address -> Nat] /\ Contract \in Address
        /\ refusing \in SUBSET Refusers /\ signer \in Address \cup {Nobody}
    BY LedgerAssumption DEF Inv, TypeOK, TokenTypeOK
  <1>2. /\ UNCHANGED <<storage, wasm>>
        /\ now' \in LedgerTimes
        /\ TokenTypeOK'
        /\ balance'[Contract] >= balance[Contract] \/ ClawedBack
    <2>1. CASE CloseLedger
      BY <1>1, <2>1 DEF CloseLedger, TokenTypeOK
    <2>2. CASE TokenNext /\ UNCHANGED <<storage, wasm, now>>
      <3>1. ASSUME NEW from \in Address, NEW amount \in Donations, Donate(from, amount)
            PROVE  TokenTypeOK' /\ balance'[Contract] >= balance[Contract]
        <4>1. amount \in Nat /\ balance[from] >= amount /\ from # Contract
          BY <3>1, LedgerAssumption DEF Donate, CanTransfer
        <4>2. /\ balance' \in [Address -> Nat]
              /\ balance'[Contract] = balance[Contract] + amount
          BY <1>1, <3>1, <4>1, TransferType DEF Donate
        <4> QED
          BY <1>1, <3>1, <4>1, <4>2 DEF Donate, RequireAuth, TokenTypeOK
      <3>2. ASSUME NEW amount \in Clawbacks, Clawback(amount)
            PROVE  TokenTypeOK' /\ ClawedBack
        <4>1. TokenTypeOK'
          BY <1>1, <3>2, LedgerAssumption DEF Clawback, TokenTypeOK
        <4>2. ClawedBack
          BY <3>2 DEF ClawedBack
        <4> QED
          BY <4>1, <4>2
      <3>3. ASSUME NEW a \in Refusers, SetReceiving(a)
            PROVE  TokenTypeOK' /\ balance'[Contract] >= balance[Contract]
        BY <1>1, <3>3 DEF SetReceiving, TokenTypeOK
      <3>4. now \in LedgerTimes
        BY DEF Inv, TypeOK
      <3> QED
        BY <2>2, <3>1, <3>2, <3>3, <3>4 DEF TokenNext
    <2> QED
      BY <2>1, <2>2 DEF World
  <1>3. Inv'
    BY <1>2 DEF storage, Inv, TypeOK, RefIndexSound, LifecycleConsistent,
                PartiesDistinct, Consistent, ValidateParties, Sinks, ValidateConfig
  <1>4. Outside
    BY <1>1, <1>2 DEF Outside, storage, TokenTypeOK
  <1> QED
    BY <1>3, <1>4

\* upgrade keeps the invariant.
LEMMA UpgradeInv ==
    ASSUME Inv, NEW hash \in Wasms, Upgrade(hash)
    PROVE  Inv' /\ Outside
  <1>1. /\ UNCHANGED <<storage, now, balance, refusing>>
        /\ wasm' = hash /\ signer' = config.stello_wallet
    BY DEF Upgrade, RequireAuth
  <1>2. TokenTypeOK' /\ balance[Contract] \in Nat
    BY <1>1, ConfigFacts, LedgerAssumption DEF Inv, TypeOK, TokenTypeOK
  <1>3. Inv'
    BY <1>1, <1>2 DEF storage, Inv, TypeOK, RefIndexSound, LifecycleConsistent,
                      PartiesDistinct, Consistent, ValidateParties, Sinks,
                      ValidateConfig
  <1> QED
    BY <1>1, <1>2, <1>3 DEF Outside, storage

\* So does a step that changes nothing.
LEMMA StutterInv ==
    ASSUME Inv, UNCHANGED vars
    PROVE  Inv' /\ Outside
  <1>1. /\ UNCHANGED <<storage, wasm, now, balance, refusing, signer>>
        /\ balance[Contract] \in Nat
    BY LedgerAssumption DEF vars, tokenVars, Inv, TypeOK, TokenTypeOK
  <1>2. Inv'
    BY <1>1 DEF storage, Inv, TypeOK, TokenTypeOK, RefIndexSound,
                LifecycleConsistent, PartiesDistinct, Consistent,
                ValidateParties, Sinks, ValidateConfig
  <1> QED
    BY <1>1, <1>2 DEF Outside, storage

\* Every step keeps the invariant and is of one of the kinds.
LEMMA StepInv ==
    ASSUME Inv, [Next]_vars
    PROVE  Inv' /\ StepKind
  <1>1. CASE BookCall
    BY <1>1, BookInv, BookStep DEF BookCall, StepKind
  <1>2. ASSUME NEW id \in DOMAIN booking, BookingCall(id)
        PROVE  Inv' /\ (Rewritten(id) \/ Funded(id) \/ Settled(id))
    <2>1. CASE UpdateCall(id)
      BY <2>1, UpdateBookingInv, UpdateBookingStep DEF UpdateCall
    <2>2. CASE \E amount \in AmountArgs : LockEscrow(id, amount)
      BY <2>2, LockEscrowInv, LockEscrowStep
    <2>3. CASE CheckIn(id)
      BY <2>3, CheckInInv, CheckInStep
    <2>4. CASE Complete(id)
      BY <2>4, CompleteInv, CompleteStep
    <2>5. CASE ExecuteSplit(id)
      BY <2>5, ExecuteSplitInv
    <2>6. CASE CancelByTraveller(id)
      BY <2>6, CancelByTravellerInv
    <2>7. CASE CancelByHost(id)
      BY <2>7, CancelByHostInv
    <2>8. CASE OpenDispute(id)
      BY <2>8, OpenDisputeInv, OpenDisputeStep
    <2>9. CASE \E bps \in BpsArgs : ResolveDispute(id, bps)
      BY <2>9, ResolveDisputeInv
    <2> QED
      BY <1>2, <2>1, <2>2, <2>3, <2>4, <2>5, <2>6, <2>7, <2>8, <2>9 DEF BookingCall
  <1>3. CASE \E hash \in Wasms : Upgrade(hash)
    BY <1>3, UpgradeInv DEF StepKind
  <1>4. CASE World
    BY <1>4, WorldInv DEF StepKind
  <1>5. CASE UNCHANGED vars
    BY <1>5, StutterInv DEF StepKind
  <1> QED
    BY <1>1, <1>2, <1>3, <1>4, <1>5 DEF Next, StepKind
-----------------------------------------------------------------------------
(* The theorems.                                                           *)

\* The invariant holds at deployment.
LEMMA InitInv ==
    ASSUME Init
    PROVE  Inv /\ AlwaysSolvent
  <1>1. /\ DOMAIN booking = {} /\ DOMAIN booking_ref_index = {}
        /\ DOMAIN cancel_settlement = {}
        /\ next_booking_id = 1 /\ total_escrowed = 0 /\ balance = InitialBalance
    BY DEF Init
  <1>2. config \in Configs /\ ValidateConfig(config)
    BY DEF Init
  <1>3. TypeOK
    <2>1. config.stello_wallet \in Address
      BY <1>2, BookingAssumption
    <2>2. TokenTypeOK
      BY <1>1, <2>1, BookingAssumption DEF Init, TokenTypeOK
    <2>3. next_booking_id \in 1 .. U64_MAX
      BY <1>1, BookingAssumption
    <2> QED
      BY <1>1, <1>2, <2>2, <2>3, I128Range DEF Init, TypeOK
  <1>4. RefIndexSound /\ LifecycleConsistent /\ PartiesDistinct
    BY <1>1 DEF RefIndexSound, LifecycleConsistent, PartiesDistinct
  <1>5. AlwaysSolvent
    BY <1>1, BookingAssumption DEF AlwaysSolvent, Solvent
  <1> QED
    BY <1>3, <1>4, <1>5 DEF Inv

\* The inductive invariant holds in every reachable state.
THEOREM Invariance == Spec => []Inv
  <1>1. Init => Inv
    BY InitInv
  <1>2. Inv /\ [Next]_vars => Inv'
    BY StepInv
  <1> QED
    BY <1>1, <1>2, PTL DEF Spec

\* Whatever is stored has its declared type: no call can write an amount
\* that is not positive or a total that does not fit.
THEOREM TypeCorrect == Spec => []TypeOK
  <1>1. Inv => TypeOK
    BY DEF Inv
  <1> QED
    BY <1>1, Invariance, PTL

\* The reference index stays the inverse of the records, so a reference
\* names one booking for ever (lib.rs, book: "idempotency").
THEOREM ReferencesUnique == Spec => []RefIndexSound
  <1>1. Inv => RefIndexSound
    BY DEF Inv
  <1> QED
    BY <1>1, Invariance, PTL

\* State, flags and escrow of every record agree, in every order of calls.
THEOREM RecordsConsistent == Spec => []LifecycleConsistent
  <1>1. Inv => LifecycleConsistent
    BY DEF Inv
  <1> QED
    BY <1>1, Invariance, PTL

\* The parties of a booking stay different from each other, from the pools
\* and from the contract, through every update (lib.rs, validate_parties).
THEOREM PartiesStayDistinct == Spec => []PartiesDistinct
  <1>1. Inv => PartiesDistinct
    BY DEF Inv
  <1> QED
    BY <1>1, Invariance, PTL

\* A step that is no clawback never leaves the contract with less than it
\* accounts for, if it had enough.
LEMMA CoverKept ==
    ASSUME Inv, [Next]_vars, Solvent, ~ClawedBack
    PROVE  Solvent'
  <1>1. StepKind
    BY StepInv
  <1>2. /\ balance[Contract] \in Nat /\ total_escrowed \in Int
        /\ balance[Contract] >= total_escrowed
    BY LedgerAssumption DEF Solvent, Inv, TypeOK, TokenTypeOK
  <1>3. ASSUME NEW new \in 1 .. U64_MAX, Created(new)
        PROVE  balance'[Contract] >= total_escrowed'
    BY <1>2, <1>3 DEF Created
  <1>4. ASSUME NEW id \in DOMAIN booking, Rewritten(id) \/ Funded(id) \/ Settled(id)
        PROVE  balance'[Contract] >= total_escrowed'
    <2>1. booking[id].escrow_amount \in Nat
      BY InvRecord, I128Range DEF RecordOK, Bookings
    <2>2. CASE Rewritten(id)
      BY <1>2, <2>2 DEF Rewritten
    <2>3. CASE Funded(id)
      <3>1. PICK n \in Nat : n = booking'[id].escrow_amount
        BY <2>3 DEF Funded
      <3>2. total_escrowed' = total_escrowed + n
               /\ balance'[Contract] = balance[Contract] + n
        BY <2>3, <3>1 DEF Funded
      <3> QED
        BY <1>2, <3>2
    <2>4. CASE Settled(id)
      <3>1. PICK n \in Nat : n = booking[id].escrow_amount
        BY <2>1
      <3>2. total_escrowed' = total_escrowed - n
               /\ balance'[Contract] = balance[Contract] - n
        BY <2>4, <3>1 DEF Settled
      <3> QED
        BY <1>2, <3>2
    <2> QED
      BY <1>4, <2>2, <2>3, <2>4
  <1>5. ASSUME Outside
        PROVE  balance'[Contract] >= total_escrowed'
    BY <1>2, <1>5 DEF Outside
  <1>6. balance'[Contract] >= total_escrowed'
    BY <1>1, <1>3, <1>4, <1>5 DEF StepKind
  <1> QED
    BY <1>6 DEF Solvent

\* Only a clawback ever makes the contract short of what it accounts for: no
\* call, in whatever order, and nothing strangers do.
THEOREM ShortOnlyByClawback == Spec => [][Solvent => Solvent' \/ ClawedBack]_vars
  <1>1. Inv /\ [Next]_vars => [Solvent => Solvent' \/ ClawedBack]_vars
    BY CoverKept
  <1> QED
    BY <1>1, Invariance, PTL DEF Spec

\* Without clawbacks the contract owns at least what it accounts for, so
\* the solvency check never blocks a settlement.
THEOREM Solvency ==
    ASSUME Clawbacks = {}
    PROVE  Spec => []AlwaysSolvent
  <1>1. Init => AlwaysSolvent
    BY InitInv
  <1>2. ~ClawedBack
    BY DEF ClawedBack
  <1>3. Inv /\ AlwaysSolvent /\ [Next]_vars => AlwaysSolvent'
    BY <1>2, CoverKept DEF AlwaysSolvent
  <1> QED
    BY <1>1, <1>3, Invariance, PTL DEF Spec

\* No booking disappears, and a funded one keeps its terms and stays funded.
LEMMA TermsKept ==
    ASSUME Inv, [Next]_vars
    PROVE  /\ DOMAIN booking \subseteq DOMAIN booking'
           /\ \A id \in DOMAIN booking : booking[id].escrow_locked =>
                /\ TermsOf(booking'[id]) = TermsOf(booking[id])
                /\ booking'[id].escrow_locked
  <1>1. StepKind
    BY StepInv
  <1> QED
    BY <1>1 DEF StepKind, Created, Rewritten, Funded, Settled, Outside

\* A funded booking keeps its terms for ever.
THEOREM TermsNeverChange == Spec => TermsFrozen
  <1> DEFINE Kept == \A id \in DOMAIN booking : booking[id].escrow_locked =>
                        /\ id \in DOMAIN booking'
                        /\ TermsOf(booking'[id]) = TermsOf(booking[id])
                        /\ booking'[id].escrow_locked
  <1>1. ASSUME Inv, [Next]_vars
        PROVE  Kept
    BY <1>1, TermsKept
  <1>2. Inv /\ [Next]_vars => [Kept]_vars
    BY <1>1
  <1> QED
    BY <1>2, Invariance, PTL DEF Spec, TermsFrozen

\* A settled booking, and its cancellation record, never change again: no
\* escrow is paid twice.
THEOREM SettlementFinal == Spec => SettledForever
  <1> DEFINE Kept == \A id \in DOMAIN booking : booking[id].settled =>
                        /\ id \in DOMAIN booking' /\ booking'[id] = booking[id]
                        /\ id \in DOMAIN cancel_settlement =>
                             /\ id \in DOMAIN cancel_settlement'
                             /\ cancel_settlement'[id] = cancel_settlement[id]
  <1>1. ASSUME Inv, [Next]_vars
        PROVE  Kept
    <2>1. StepKind
      BY <1>1, StepInv
    <2> QED
      BY <2>1 DEF StepKind, Created, Rewritten, Funded, Settled, Outside,
                  OtherRecordsKept
  <1>2. Inv /\ [Next]_vars => [Kept]_vars
    BY <1>1
  <1> QED
    BY <1>2, Invariance, PTL DEF Spec, SettledForever
\* The balances of the contract and its total, as numbers.
LEMMA MoneyTypes ==
    ASSUME Inv
    PROVE  balance[Contract] \in Nat /\ total_escrowed \in Int
  BY LedgerAssumption DEF Inv, TypeOK, TokenTypeOK

\* A call on a booking moves exactly the escrow it accounts for; tokens
\* that arrived unsolicited are neither paid out nor counted.
THEOREM SurplusStays == Spec => SurplusUntouched
  <1> DEFINE Stays == booking' # booking => Unescrowed' = Unescrowed
  <1>1. ASSUME Inv, [Next]_vars
        PROVE  Stays
    <2>1. StepKind /\ balance[Contract] \in Nat /\ total_escrowed \in Int
      BY <1>1, StepInv, MoneyTypes
    <2>2. ASSUME NEW new \in 1 .. U64_MAX, Created(new)
          PROVE  Unescrowed' = Unescrowed
      BY <2>2 DEF Created, Unescrowed
    <2>3. ASSUME NEW id \in DOMAIN booking, Rewritten(id)
          PROVE  Unescrowed' = Unescrowed
      BY <2>3 DEF Rewritten, Unescrowed
    <2>4. ASSUME NEW id \in DOMAIN booking, Funded(id)
          PROVE  Unescrowed' = Unescrowed
      <3>1. PICK n \in Nat : n = booking'[id].escrow_amount
        BY <2>4 DEF Funded
      <3>2. total_escrowed' = total_escrowed + n
               /\ balance'[Contract] = balance[Contract] + n
        BY <2>4, <3>1 DEF Funded
      <3> QED
        BY <2>1, <3>2 DEF Unescrowed
    <2>5. ASSUME NEW id \in DOMAIN booking, Settled(id)
          PROVE  Unescrowed' = Unescrowed
      <3>1. PICK n \in Nat : n = booking[id].escrow_amount
        BY <1>1, InvRecord, I128Range DEF RecordOK, Bookings
      <3>2. total_escrowed' = total_escrowed - n
               /\ balance'[Contract] = balance[Contract] - n
        BY <2>5, <3>1 DEF Settled
      <3> QED
        BY <2>1, <3>2 DEF Unescrowed
    <2>6. Outside => booking' = booking
      BY DEF Outside
    <2> QED
      BY <2>1, <2>2, <2>3, <2>4, <2>5, <2>6 DEF StepKind
  <1>2. Inv /\ [Next]_vars => [Stays]_vars
    BY <1>1
  <1> QED
    BY <1>2, Invariance, PTL DEF Spec, SurplusUntouched

\* Whatever is clawed back or donated, a payout leaves at least the escrow
\* of every other booking behind (lib.rs, require_solvency).
THEOREM NeverPaidFromOthersHolds == Spec => NeverPaidFromOthers
  <1> DEFINE Covered == booking' # booking /\ balance'[Contract] < balance[Contract]
                           => balance'[Contract] >= total_escrowed'
  <1>1. ASSUME Inv, [Next]_vars
        PROVE  Covered
    <2>1. StepKind /\ balance[Contract] \in Nat /\ total_escrowed \in Int
      BY <1>1, StepInv, MoneyTypes
    <2>2. ASSUME NEW new \in 1 .. U64_MAX, Created(new)
          PROVE  ~(balance'[Contract] < balance[Contract])
      BY <2>1, <2>2 DEF Created
    <2>3. ASSUME NEW id \in DOMAIN booking, Rewritten(id)
          PROVE  ~(balance'[Contract] < balance[Contract])
      BY <2>1, <2>3 DEF Rewritten
    <2>4. ASSUME NEW id \in DOMAIN booking, Funded(id)
          PROVE  ~(balance'[Contract] < balance[Contract])
      <3>1. PICK n \in Nat : n = booking'[id].escrow_amount
        BY <2>4 DEF Funded
      <3>2. balance'[Contract] = balance[Contract] + n
        BY <2>4, <3>1 DEF Funded
      <3> QED
        BY <2>1, <3>2
    <2>5. ASSUME NEW id \in DOMAIN booking, Settled(id)
          PROVE  balance'[Contract] >= total_escrowed'
      <3>1. PICK n \in Nat : n = booking[id].escrow_amount
        BY <1>1, InvRecord, I128Range DEF RecordOK, Bookings
      <3>2. /\ total_escrowed' = total_escrowed - n
            /\ balance'[Contract] = balance[Contract] - n
            /\ balance[Contract] >= total_escrowed
        BY <2>5, <3>1 DEF Settled, Solvent
      <3> QED
        BY <2>1, <3>2
    <2>6. Outside => booking' = booking
      BY DEF Outside
    <2> QED
      BY <2>1, <2>2, <2>3, <2>4, <2>5, <2>6 DEF StepKind
  <1>2. Inv /\ [Next]_vars => [Covered]_vars
    BY <1>1
  <1> QED
    BY <1>2, Invariance, PTL DEF Spec, NeverPaidFromOthers

-----------------------------------------------------------------------------
(* The refinement of the vault.                                            *)

Ids    == 1 .. U64_MAX
Status == [id \in Ids |-> BoxStatus(id)]
Held   == [id \in Ids |-> EscrowOf(id)]

\* A step that changes no box but id changes the vault's functions at id.
LEMMA BoxesExcept ==
    ASSUME NEW id \in Ids, DOMAIN booking' = DOMAIN booking,
           \A k \in DOMAIN booking \ {id} : booking'[k] = booking[k]
    PROVE  /\ Status' = [Status EXCEPT ![id] = BoxStatus(id)']
           /\ Held' = [Held EXCEPT ![id] = EscrowOf(id)']
  <1>1. \A k \in Ids \ {id} : BoxStatus(k)' = BoxStatus(k) /\ EscrowOf(k)' = EscrowOf(k)
    BY DEF BoxStatus, EscrowOf
  <1>2. /\ Status' = [k \in Ids |-> BoxStatus(k)']
        /\ Held' = [k \in Ids |-> EscrowOf(k)']
    BY DEF Status, Held, Ids
  <1> QED
    BY <1>1, <1>2 DEF Status, Held

\* Tokens the issuer took, of which no box and no account knows.
LostToIssuer == ClawedBack /\ UNCHANGED <<booking, total_escrowed>>

\* Every box is empty at deployment.
LEMMA VaultInit ==
    ASSUME Init
    PROVE  Vault!Init
  <1>2. DOMAIN booking = {} /\ total_escrowed = 0 /\ balance[Contract] = 0
    BY BookingAssumption DEF Init
  <1>3. \A id \in Ids : BoxStatus(id) = "empty" /\ EscrowOf(id) = 0
    BY <1>2 DEF BoxStatus, EscrowOf
  <1> QED
    BY <1>2, <1>3 DEF Vault!Init, Ids
\* Each kind of step is a step of the vault, or none.
LEMMA VaultStep ==
    ASSUME Inv, [Next]_vars
    PROVE  [Vault!Next \/ LostToIssuer]_(Vault!vars)
  <1>1. /\ StepKind /\ DOMAIN booking \subseteq Ids
        /\ balance[Contract] \in Nat /\ total_escrowed \in Int
    BY StepInv, MoneyTypes DEF Inv, TypeOK, Ids
  <1>2. ASSUME Status' = Status, Held' = Held, total_escrowed' = total_escrowed,
               balance'[Contract] = balance[Contract]
        PROVE  UNCHANGED Vault!vars
    BY <1>2 DEF Vault!vars, Status, Held, Ids
  <1>3. ASSUME NEW new \in Ids, Created(new)
        PROVE  UNCHANGED Vault!vars
    <2>1. \A k \in Ids : BoxStatus(k)' = BoxStatus(k) /\ EscrowOf(k)' = EscrowOf(k)
      BY <1>3 DEF Created, BoxStatus, EscrowOf
    <2>2. Status' = Status /\ Held' = Held
      BY <2>1 DEF Status, Held, Ids
    <2> QED
      BY <1>2, <1>3, <2>2 DEF Created
  <1>4. ASSUME NEW id \in DOMAIN booking, Rewritten(id)
        PROVE  UNCHANGED Vault!vars
    <2>1. \A k \in Ids : BoxStatus(k)' = BoxStatus(k) /\ EscrowOf(k)' = EscrowOf(k)
      BY <1>4 DEF Rewritten, BoxStatus, EscrowOf
    <2>2. Status' = Status /\ Held' = Held
      BY <2>1 DEF Status, Held, Ids
    <2> QED
      BY <1>2, <1>4, <2>2 DEF Rewritten
  <1>5. ASSUME NEW id \in DOMAIN booking, Funded(id)
        PROVE  Vault!Deposit(id)
    <2>1. /\ BoxStatus(id) = "empty" /\ BoxStatus(id)' = "held"
          /\ EscrowOf(id)' = booking'[id].escrow_amount
      BY <1>5 DEF Funded, BoxStatus, EscrowOf
    <2>2. /\ Status' = [Status EXCEPT ![id] = "held"]
          /\ Held' = [Held EXCEPT ![id] = Held'[id]]
          /\ Status[id] = "empty"
          /\ Held'[id] = booking'[id].escrow_amount
      BY <1>1, <1>5, <2>1, BoxesExcept DEF Funded, Status, Held
    <2>3. /\ Held'[id] > 0
          /\ total_escrowed' = total_escrowed + Held'[id]
          /\ balance'[Contract] = balance[Contract] + Held'[id]
      BY <1>5, <2>2 DEF Funded
    <2> QED
      BY <2>2, <2>3 DEF Vault!Deposit, Status, Held, Ids
  <1>6. ASSUME NEW id \in DOMAIN booking, Settled(id)
        PROVE  Vault!Release(id)
    <2>1. /\ BoxStatus(id) = "held" /\ BoxStatus(id)' = "released"
          /\ EscrowOf(id)' = 0
          /\ EscrowOf(id) = booking[id].escrow_amount
      BY <1>6 DEF Settled, BoxStatus, EscrowOf
    <2>2. /\ Status' = [Status EXCEPT ![id] = "released"]
          /\ Held' = [Held EXCEPT ![id] = 0]
          /\ Status[id] = "held"
          /\ Held[id] = booking[id].escrow_amount
      BY <1>1, <1>6, <2>1, BoxesExcept DEF Settled, Status, Held
    <2>3. /\ total_escrowed' = total_escrowed - Held[id]
          /\ balance'[Contract] = balance[Contract] - Held[id]
      BY <1>6, <2>2 DEF Settled
    <2> QED
      BY <2>2, <2>3 DEF Vault!Release, Status, Held, Ids
  <1>7. ASSUME Outside
        PROVE  Vault!Gift \/ LostToIssuer \/ UNCHANGED Vault!vars
    <2>1. \A k \in Ids : BoxStatus(k)' = BoxStatus(k) /\ EscrowOf(k)' = EscrowOf(k)
      BY <1>7 DEF Outside, BoxStatus, EscrowOf
    <2>2. /\ Status' = Status /\ Held' = Held
          /\ total_escrowed' = total_escrowed
          /\ balance'[Contract] \in Nat
          /\ balance'[Contract] >= balance[Contract] \/ LostToIssuer
      BY <1>7, <2>1 DEF Outside, LostToIssuer, Status, Held, Ids
    <2>3. CASE balance'[Contract] > balance[Contract]
      BY <2>2, <2>3 DEF Vault!Gift, Status, Held, Ids
    <2>4. CASE balance'[Contract] = balance[Contract]
      BY <1>2, <2>2, <2>4
    <2> QED
      BY <1>1, <2>2, <2>3, <2>4
  <1> QED
    BY <1>1, <1>3, <1>4, <1>5, <1>6, <1>7 DEF StepKind, Vault!Next, Ids

\* The contract is the vault, but for what the issuer takes: each box is
\* filled once with tokens that arrive and emptied once, whole, with tokens
\* that leave, and no step of the contract moves tokens otherwise.
THEOREM VaultButForClawbacks ==
    Spec => Vault!Init /\ [][Vault!Next \/ LostToIssuer]_(Vault!vars)
  <1>1. Inv /\ [Next]_vars => [Vault!Next \/ LostToIssuer]_(Vault!vars)
    BY VaultStep
  <1> QED
    BY <1>1, VaultInit, Invariance, PTL DEF Spec

\* Without clawbacks, every behaviour of the contract is a behaviour of the
\* vault.
THEOREM VaultImplemented ==
    ASSUME Clawbacks = {}
    PROVE  Spec => ImplementsVault
  <1>1. ~LostToIssuer
    BY DEF LostToIssuer, ClawedBack
  <1>2. Inv /\ [Next]_vars => [Vault!Next]_(Vault!vars)
    BY <1>1, VaultStep
  <1> QED
    BY <1>2, VaultInit, Invariance, PTL DEF Spec, ImplementsVault, Vault!Spec

-----------------------------------------------------------------------------
(* What the settlements pay, exactly.                                      *)

\* Every settlement divides the whole escrow into shares.
LEMMA EscrowShares ==
    ASSUME Inv, NEW id \in DOMAIN booking, booking[id].escrow_amount > 0
    PROVE  LET e == booking[id].escrow_amount
               Divides(shares) == shares \in Shares /\ Sum(shares) = e
           IN  /\ Divides(CompletionSplit(e))
               /\ Divides(TravellerRefund(e, booking[id].start_time, now))
               /\ Divides(HostCancelRefund(e))
               /\ \A bps \in BpsArgs : ValidBps(bps) => Divides(BpsAmounts(e, bps))
  <1>1. RecordOK(booking[id]) /\ booking[id].escrow_amount \in 1 .. I128_MAX
    BY InvRecord, EscrowHeld
  <1>2. booking[id].start_time \in Nat /\ now \in Nat /\ BpsArgs \subseteq Shares
    BY <1>1, BookingAssumption DEF RecordOK, Bookings, Inv, TypeOK
  <1>3. /\ HostCancelRefund(booking[id].escrow_amount) \in Shares
        /\ Sum(HostCancelRefund(booking[id].escrow_amount)) = booking[id].escrow_amount
    BY <1>1, I128Range DEF HostCancelRefund, CancelShares, Shares, Sum, Roles
  <1> QED
    BY <1>1, <1>2, <1>3, SettlementsExact

\* A settlement writes the closed record and pushes the shares out of the
\* balances it starts from; no other balance falls.
LEMMA SettleEffect ==
    ASSUME Inv, NEW id \in DOMAIN booking, NEW closed, NEW shares \in Shares,
           NEW bal \in [Address -> Nat],
           Settle(id, closed, shares, bal)
    PROVE  /\ booking' = [booking EXCEPT ![id] = Closed(closed)]
           /\ Sum(shares) = booking[id].escrow_amount
           /\ balance' = Push(bal, shares, Payee(booking[id]))
           /\ \A a \in Address \ {Contract} : balance'[a] >= bal[a]
  <1>1. /\ booking' = [booking EXCEPT ![id] = Closed(closed)]
        /\ Sum(shares) = booking[id].escrow_amount
        /\ balance' = Push(bal, shares, Payee(booking[id]))
        /\ Sum(shares) <= bal[Contract]
    BY DEF Settle, Closed, CanPush
  <1>2. \A r \in Roles : Payee(booking[id])[r] # Contract
    BY PayeesOutside
  <1> QED
    BY <1>1, <1>2, PushType

\* Of a full refund only the traveller receives anything.
LEMMA PushFullRefund ==
    ASSUME NEW n \in Nat, NEW payee, NEW bal \in [Address -> Nat],
           NEW a \in Address \ {Contract}
    PROVE  Push(bal, HostCancelRefund(n), payee)[a]
             = IF a = payee["traveller"] THEN bal[a] + n ELSE bal[a]
  <1>1. bal[a] \in Nat
    OBVIOUS
  <1> QED
    BY <1>1 DEF Push, Received, HostCancelRefund, CancelShares, Sum, Roles

\* What a host's cancellation does to every balance but the contract's.
LEMMA HostCancelBalances ==
    ASSUME Inv, NEW id \in DOMAIN booking, CancelByHost(id)
    PROVE  LET b   == booking[id]
               fee == config.host_cancel_fee
           IN  /\ signer' = b.host
               /\ balance'[b.traveller] = balance[b.traveller] + b.amount
               /\ balance'[b.host] = balance[b.host] - fee
               /\ balance'[config.ops_pool] = balance[config.ops_pool] + fee
               /\ \A a \in Address \ {Contract, b.host} : balance'[a] >= balance[a]
  <1> DEFINE b      == booking[id]
             fee    == config.host_cancel_fee
             shares == HostCancelRefund(b.escrow_amount)
             paid   == FeePaid(b)
  <1>1. /\ b.escrow_amount > 0 /\ balance[b.host] >= fee
        /\ Settle(id, CancelledRecord(b, "Host"), shares, paid)
        /\ signer' = b.host
    BY DEF CancelByHost, HostCancels, Settle, RequireAuth, CanTransfer
  <1>2. /\ RecordOK(b) /\ b.escrow_amount = b.amount /\ b.amount \in Nat
        /\ b.escrow_amount \in Nat /\ shares \in Shares
    BY <1>1, InvRecord, EscrowHeld, EscrowShares, I128Range
  <1>3. /\ b.host \in Address \ {Contract} /\ b.traveller \in Address \ {Contract}
        /\ config.ops_pool \in Address \ {Contract}
        /\ b.host # config.ops_pool /\ b.traveller # config.ops_pool
        /\ b.host # b.traveller
        /\ fee \in Nat /\ balance \in [Address -> Nat]
    BY <1>2, ConfigFacts
       DEF RecordOK, Bookings, ValidateParties, Sinks, Inv, TypeOK, TokenTypeOK
  <1>4. /\ paid \in [Address -> Nat]
        /\ paid[b.host] = balance[b.host] - fee
        /\ paid[config.ops_pool] = balance[config.ops_pool] + fee
        /\ \A a \in Address \ {b.host, config.ops_pool} : paid[a] = balance[a]
    BY <1>1, <1>3, TransferType DEF FeePaid
  <1>5. ASSUME NEW a \in Address \ {Contract}
        PROVE  balance'[a] = IF a = b.traveller THEN paid[a] + b.amount ELSE paid[a]
    <2>1. Payee(b)["traveller"] = b.traveller
      BY DEF Payee, Roles
    <2>2. shares = HostCancelRefund(b.amount)
      BY <1>2
    <2> HIDE DEF paid, shares
    <2>3. balance' = Push(paid, HostCancelRefund(b.amount), Payee(b))
      BY <1>1, <1>2, <1>4, <2>2, SettleEffect
    <2>4. PICK n \in Nat : n = b.amount
      BY <1>2
    <2>5. balance'[a] = IF a = b.traveller THEN paid[a] + n ELSE paid[a]
      BY <1>4, <2>1, <2>3, <2>4, PushFullRefund
    <2> QED
      BY <2>4, <2>5
  <1> HIDE DEF shares, paid
  <1>6. \A a \in Address : balance[a] \in Nat /\ paid[a] \in Nat
    BY <1>3, <1>4
  <1>7. \A a \in Address \ {Contract, b.host} : balance'[a] >= balance[a]
    BY <1>2, <1>3, <1>4, <1>5, <1>6
  <1> QED
    BY <1>1, <1>2, <1>3, <1>4, <1>5, <1>6, <1>7

\* A settlement that starts from the stored balances lowers no balance but
\* the contract's.
LEMMA SettlementPays ==
    ASSUME Inv, NEW id \in DOMAIN booking,
           \/ ExecuteSplit(id) \/ CancelByTraveller(id)
           \/ \E bps \in BpsArgs : ResolveDispute(id, bps)
    PROVE  \A a \in Address \ {Contract} : balance'[a] >= balance[a]
  <1> DEFINE e == booking[id].escrow_amount
  <1>1. PICK closed, shares : shares \in Shares /\ Settle(id, closed, shares, balance)
    <2>1. CASE ExecuteSplit(id)
      <3>1. e > 0 /\ Settle(id, booking[id], CompletionSplit(e), balance)
        BY <2>1 DEF ExecuteSplit, Settle
      <3> QED
        BY <3>1, EscrowShares
    <2>2. CASE CancelByTraveller(id)
      <3>1. /\ e > 0
            /\ Settle(id, CancelledRecord(booking[id], "Traveller"),
                      TravellerRefund(e, booking[id].start_time, now), balance)
        BY <2>2 DEF CancelByTraveller, Settle
      <3> QED
        BY <3>1, EscrowShares
    <2>3. ASSUME NEW bps \in BpsArgs, ResolveDispute(id, bps)
          PROVE  \E closed, shares : shares \in Shares /\ Settle(id, closed, shares, balance)
      <3>1. /\ e > 0 /\ ValidBps(bps)
            /\ Settle(id, [booking[id] EXCEPT !.state = "Completed"],
                      BpsAmounts(e, bps), balance)
        BY <2>3 DEF ResolveDispute, Settle
      <3> QED
        BY <3>1, EscrowShares
    <2> QED
      BY <2>1, <2>2, <2>3
  <1>2. balance \in [Address -> Nat]
    BY DEF Inv, TypeOK, TokenTypeOK
  <1> QED
    BY <1>1, <1>2, SettleEffect

-----------------------------------------------------------------------------
(* Who pays, and what for.                                                 *)

\* The calls on a booking, by what they may do to it: a rewrite of the
\* record, the lock, or one of the four settlements.
LEMMA CallKind ==
    ASSUME Inv, NEW id \in DOMAIN booking, BookingCall(id)
    PROVE  \/ Rewritten(id)
           \/ \E amount \in AmountArgs : LockEscrow(id, amount)
           \/ ExecuteSplit(id) \/ CancelByTraveller(id)
           \/ \E bps \in BpsArgs : ResolveDispute(id, bps)
           \/ CancelByHost(id)
  BY UpdateBookingStep, CheckInStep, CompleteStep, OpenDisputeStep
     DEF BookingCall, UpdateCall

\* What happens outside the contract changes no booking, and takes nothing
\* from anybody but the contract without his signature.
LEMMA WorldConsent ==
    ASSUME Inv, World, NEW a \in Address \ {Contract}, balance'[a] < balance[a]
    PROVE  booking' = booking /\ signer' = a
  <1>1. balance \in [Address -> Nat] /\ Contract \in Address
    BY LedgerAssumption DEF Inv, TypeOK, TokenTypeOK
  <1>2. PICK n \in Nat : n = balance[a]
    BY <1>1
  <1>3. ~(n < n) /\ balance' # balance
    BY <1>2
  <1>4. TokenNext /\ UNCHANGED storage
    BY <1>3 DEF World, CloseLedger
  <1>5. ASSUME NEW from \in Address, NEW amount \in Donations, Donate(from, amount)
        PROVE  signer' = a
    <2>1. amount \in Nat /\ balance[from] >= amount /\ from # Contract
      BY <1>5, LedgerAssumption DEF Donate, CanTransfer
    <2>2. \A x \in Address \ {from, Contract} : balance'[x] = balance[x]
      BY <1>1, <1>5, <2>1, TransferType DEF Donate
    <2>3. a = from
      BY <1>2, <1>3, <2>2
    <2> QED
      BY <1>5, <2>3 DEF Donate, RequireAuth
  <1>6. ASSUME NEW amount \in Clawbacks, Clawback(amount)
        PROVE  FALSE
    <2>1. balance'[a] = balance[a]
      BY <1>1, <1>6 DEF Clawback
    <2> QED
      BY <1>2, <1>3, <2>1
  <1>7. ~ \E x \in Refusers : SetReceiving(x)
    BY <1>3 DEF SetReceiving
  <1> QED
    BY <1>4, <1>5, <1>6, <1>7 DEF TokenNext, storage

\* Nobody but the contract loses tokens without having signed, and in a call
\* he loses the amount of his booking or the host's fee, nothing else.
THEOREM OwnConsentHolds == Spec => OwnConsent
  <1> DEFINE Price(a) == balance[a] - balance'[a] \in
                           {config.host_cancel_fee} \cup
                           { booking[id].amount : id \in DOMAIN booking }
             Consent  == \A a \in Address \ {Contract} : balance'[a] < balance[a] =>
                           /\ signer' = a
                           /\ booking' # booking =>
                                balance[a] - balance'[a] \in
                                  {config.host_cancel_fee} \cup
                                  { booking[id].amount : id \in DOMAIN booking }
  <1>1. ASSUME Inv, [Next]_vars
        PROVE  Consent
    <2> SUFFICES ASSUME NEW a \in Address \ {Contract}, balance'[a] < balance[a]
                 PROVE  signer' = a /\ (booking' # booking => Price(a))
      OBVIOUS
    <2>1. balance \in [Address -> Nat]
      BY <1>1 DEF Inv, TypeOK, TokenTypeOK
    <2>2. PICK n \in Nat : n = balance[a]
      BY <2>1
    <2>3. balance'[a] # balance[a] /\ ~(balance'[a] >= balance[a])
      <3>1. ~(n < n)
        BY <2>2
      <3>2. balance'[a] < n /\ balance'[a] \in Nat
        BY <1>1, <2>2, StepInv DEF Inv, TypeOK, TokenTypeOK
      <3>3. balance'[a] # n
        BY <3>1, <3>2
      <3>4. ~(balance'[a] >= n)
        BY <2>2, <3>2
      <3> QED
        BY <2>2, <3>3, <3>4
    <2>4. ASSUME NEW id \in DOMAIN booking, BookingCall(id)
          PROVE  signer' = a /\ Price(a)
      <3>1. RecordOK(booking[id]) /\ booking[id].amount \in Nat
        BY <1>1, InvRecord, I128Range DEF RecordOK, Bookings
      <3>2. ASSUME NEW amount \in AmountArgs, LockEscrow(id, amount)
            PROVE  signer' = a /\ Price(a)
        <4>1. /\ signer' = booking[id].traveller /\ booking[id].amount = amount
              /\ a = booking[id].traveller
          BY <1>1, <2>3, <3>2, LockEscrowInv DEF LockEscrow, RequireAuth
        <4>2. PICK m \in Nat : m = amount
          BY <3>1, <4>1
        <4>3. balance'[a] = balance[a] - m
          BY <1>1, <3>2, <4>1, <4>2, LockEscrowInv
        <4>4. balance[a] - balance'[a] = booking[id].amount
          BY <2>2, <4>1, <4>2, <4>3
        <4> QED
          BY <4>1, <4>4
      <3>3. CASE CancelByHost(id)
        <4>1. signer' = booking[id].host /\ a = booking[id].host
          BY <1>1, <2>3, <3>3, HostCancelBalances
        <4>2. PICK fee \in Nat : fee = config.host_cancel_fee
          BY <1>1, ConfigFacts
        <4>3. balance'[a] = balance[a] - fee
          BY <1>1, <3>3, <4>1, <4>2, HostCancelBalances
        <4>4. balance[a] - balance'[a] = config.host_cancel_fee
          BY <2>2, <4>2, <4>3
        <4> QED
          BY <4>1, <4>4
      <3>4. ~Rewritten(id)
        BY <2>3 DEF Rewritten
      <3>5. ~(ExecuteSplit(id) \/ CancelByTraveller(id)
                \/ \E bps \in BpsArgs : ResolveDispute(id, bps))
        BY <1>1, <2>3, SettlementPays
      <3> QED
        BY <1>1, <2>4, <3>2, <3>3, <3>4, <3>5, CallKind
    <2>5. ~(BookCall \/ (\E hash \in Wasms : Upgrade(hash)) \/ UNCHANGED vars)
      BY <2>3 DEF BookCall, Book, AddBooking, Upgrade, vars, tokenVars
    <2>6. ASSUME World
          PROVE  signer' = a /\ booking' = booking
      <3>1. Inv
        BY <1>1
      <3> QED
        BY <2>6, <3>1, WorldConsent
    <2> QED
      BY <1>1, <2>4, <2>5, <2>6 DEF Next
  <1>2. Inv /\ [Next]_vars => [Consent]_vars
    BY <1>1
  <1> QED
    BY <1>2, Invariance, PTL DEF Spec, OwnConsent

-----------------------------------------------------------------------------
(* Cancellations, and the record that is kept of them.                     *)

\* A step that cancels nothing.
NoCancellation ==
    /\ UNCHANGED cancel_settlement
    /\ DOMAIN booking \subseteq DOMAIN booking'
    /\ \A id \in DOMAIN booking :
         /\ booking'[id].was_cancelled = booking[id].was_cancelled
         /\ booking'[id].cancelled_by = booking[id].cancelled_by
         /\ booking[id].was_cancelled => booking'[id].amount = booking[id].amount
    /\ \A id \in DOMAIN booking' \ DOMAIN booking : ~booking'[id].was_cancelled

\* A step that cancels a booking for one of its parties.
Cancellation(id, by, shares) ==
    /\ shares["traveller"] + shares["host"] + shares["ops"] = booking[id].amount
    /\ by = "Host" => shares = HostCancelRefund(booking[id].amount) /\ CancelByHost(id)
    /\ by = "Traveller" =>
         /\ shares = TravellerRefund(booking[id].amount, booking[id].start_time, now)
         /\ CancelByTraveller(id)
    /\ booking' = [booking EXCEPT ![id] = Closed(CancelledRecord(booking[id], by))]
    /\ RecordCancelSettlement(id, shares)

CancellationKind ==
    \/ NoCancellation
    \/ \E id \in DOMAIN booking, by \in {"Traveller", "Host"}, shares \in Shares :
         Cancellation(id, by, shares)

\* Writing a record with the same marks cancels nothing.
LEMMA MarksKept ==
    ASSUME Inv, NEW id \in DOMAIN booking, NEW record,
           booking' = [booking EXCEPT ![id] = record],
           UNCHANGED cancel_settlement,
           record.was_cancelled = booking[id].was_cancelled,
           record.cancelled_by = booking[id].cancelled_by,
           booking[id].was_cancelled => record.amount = booking[id].amount
    PROVE  NoCancellation
  <1>1. /\ DOMAIN booking' = DOMAIN booking /\ booking'[id] = record
        /\ \A k \in DOMAIN booking \ {id} : booking'[k] = booking[k]
    OBVIOUS
  <1> QED
    BY <1>1 DEF NoCancellation

\* update_booking, lock_escrow and the calls that set the state cancel
\* nothing; the amount changes only before the lock.
LEMMA NotCancelling ==
    ASSUME Inv, NEW id \in DOMAIN booking,
           \/ UpdateCall(id) \/ CheckIn(id) \/ Complete(id) \/ OpenDispute(id)
           \/ \E amount \in AmountArgs : LockEscrow(id, amount)
    PROVE  NoCancellation
  <1> DEFINE b == booking[id]
  <1>1. RecordOK(b) /\ b \in Bookings
    BY InvRecord DEF RecordOK
  <1>2. ASSUME NEW host \in Address, NEW amount \in AmountArgs,
               NEW start_time \in StartTimeArgs,
               UpdateBooking(id, host, amount, start_time)
        PROVE  NoCancellation
    <2> DEFINE record == [b EXCEPT !.host = host, !.amount = amount,
                                   !.start_time = start_time]
    <2>1. ~b.was_cancelled
      BY <1>1, <1>2 DEF UpdateBooking, RecordOK, Consistent
    <2>2. record.was_cancelled = b.was_cancelled /\ record.cancelled_by = b.cancelled_by
      BY <1>1 DEF Bookings
    <2>3. booking' = [booking EXCEPT ![id] = record] /\ UNCHANGED cancel_settlement
      BY <1>2 DEF UpdateBooking, StelloSets
    <2> HIDE DEF record
    <2> QED
      BY <2>1, <2>2, <2>3, MarksKept
  <1>3. ASSUME NEW s, StelloSets(id, [b EXCEPT !.state = s])
        PROVE  NoCancellation
    <2> DEFINE record == [b EXCEPT !.state = s]
    <2>1. /\ record.was_cancelled = b.was_cancelled
          /\ record.cancelled_by = b.cancelled_by /\ record.amount = b.amount
      BY <1>1 DEF Bookings
    <2>2. booking' = [booking EXCEPT ![id] = record] /\ UNCHANGED cancel_settlement
      BY <1>3 DEF StelloSets
    <2> HIDE DEF record
    <2> QED
      BY <2>1, <2>2, MarksKept
  <1>4. CASE CheckIn(id)
    <2> DEFINE record == [b EXCEPT !.state = "CheckedIn", !.checked_in = TRUE]
    <2>1. /\ record.was_cancelled = b.was_cancelled
          /\ record.cancelled_by = b.cancelled_by /\ record.amount = b.amount
      BY <1>1 DEF Bookings
    <2>2. booking' = [booking EXCEPT ![id] = record] /\ UNCHANGED cancel_settlement
      BY <1>4 DEF CheckIn, StelloSets
    <2> HIDE DEF record
    <2> QED
      BY <2>1, <2>2, MarksKept
  <1>5. ASSUME NEW amount \in AmountArgs, LockEscrow(id, amount)
        PROVE  NoCancellation
    <2> DEFINE record == [b EXCEPT !.state = "Escrowed", !.escrow_locked = TRUE,
                                   !.escrow_amount = amount]
    <2>1. /\ record.was_cancelled = b.was_cancelled
          /\ record.cancelled_by = b.cancelled_by /\ record.amount = b.amount
      BY <1>1 DEF Bookings
    <2>2. UNCHANGED cancel_settlement
      BY <1>5 DEF LockEscrow
    <2>3. booking' = [booking EXCEPT ![id] = record]
      BY <1>5, LockEscrowInv
    <2> HIDE DEF record
    <2> QED
      BY <2>1, <2>2, <2>3, MarksKept
  <1>6. CASE Complete(id) \/ OpenDispute(id)
    BY <1>3, <1>6 DEF Complete, OpenDispute
  <1> QED
    BY <1>2, <1>4, <1>5, <1>6 DEF UpdateCall

\* The settlements that are no cancellation leave the marks.
LEMMA SplitNotCancelling ==
    ASSUME Inv, NEW id \in DOMAIN booking,
           ExecuteSplit(id) \/ \E bps \in BpsArgs : ResolveDispute(id, bps)
    PROVE  NoCancellation
  <1> DEFINE b == booking[id]
  <1>1. b \in Bookings
    BY InvRecord DEF RecordOK
  <1>2. PICK closed \in {b, [b EXCEPT !.state = "Completed"]} :
          /\ booking' = [booking EXCEPT ![id] = Closed(closed)]
          /\ UNCHANGED cancel_settlement
    BY DEF ExecuteSplit, ResolveDispute, Settle, Closed
  <1> DEFINE record == Closed(closed)
  <1>3. /\ record.was_cancelled = b.was_cancelled
        /\ record.cancelled_by = b.cancelled_by /\ record.amount = b.amount
    BY <1>1 DEF Bookings, Closed
  <1>4. booking' = [booking EXCEPT ![id] = record]
    BY <1>2
  <1> HIDE DEF record
  <1> QED
    BY <1>2, <1>3, <1>4, MarksKept

\* Both cancellations record shares that are the whole agreed amount.
LEMMA Cancelling ==
    ASSUME Inv, NEW id \in DOMAIN booking, CancelByTraveller(id) \/ CancelByHost(id)
    PROVE  \E by \in {"Traveller", "Host"}, shares \in Shares :
             Cancellation(id, by, shares)
  <1> DEFINE b == booking[id]
  <1>1. CASE CancelByTraveller(id)
    <2> DEFINE shares == TravellerRefund(b.escrow_amount, b.start_time, now)
    <2>1. /\ b.escrow_amount > 0
          /\ booking' = [booking EXCEPT ![id] = Closed(CancelledRecord(b, "Traveller"))]
          /\ RecordCancelSettlement(id, shares)
      BY <1>1 DEF CancelByTraveller, Settle, Closed
    <2>2. /\ shares \in Shares
          /\ shares = TravellerRefund(b.amount, b.start_time, now)
          /\ shares["traveller"] + shares["host"] + shares["ops"] = b.amount
      BY <2>1, EscrowShares, EscrowHeld, RefundShares, I128Range
    <2> HIDE DEF shares
    <2>3. Cancellation(id, "Traveller", shares)
      BY <1>1, <2>1, <2>2 DEF Cancellation
    <2> QED
      BY <2>2, <2>3
  <1>2. CASE CancelByHost(id)
    <2> DEFINE shares == HostCancelRefund(b.escrow_amount)
    <2>1. /\ b.escrow_amount > 0
          /\ booking' = [booking EXCEPT ![id] = Closed(CancelledRecord(b, "Host"))]
          /\ RecordCancelSettlement(id, shares)
      BY <1>2 DEF CancelByHost, HostCancels, Settle, Closed
    <2>2. shares \in Shares /\ shares = HostCancelRefund(b.amount)
             /\ b.amount \in Nat
      BY <2>1, EscrowShares, EscrowHeld, I128Range
    <2>3. shares["traveller"] + shares["host"] + shares["ops"] = b.amount
      BY <2>2 DEF HostCancelRefund, CancelShares, Roles
    <2> HIDE DEF shares
    <2>4. Cancellation(id, "Host", shares)
      BY <1>2, <2>1, <2>2, <2>3 DEF Cancellation
    <2> QED
      BY <2>2, <2>4
  <1> QED
    BY <1>1, <1>2

\* A step cancels nothing or one booking.
LEMMA CancellationStep ==
    ASSUME Inv, [Next]_vars
    PROVE  CancellationKind
  <1>1. ASSUME NEW id \in DOMAIN booking, BookingCall(id)
        PROVE  CancellationKind
    BY <1>1, NotCancelling, SplitNotCancelling, Cancelling
       DEF BookingCall, CancellationKind
  <1>2. CASE BookCall
    <2>1. PICK new \in 1 .. U64_MAX :
            Created(new) /\ ~booking'[new].was_cancelled
      <3>1. PICK ref \in BookingRef, traveller \in Address, host \in Address,
                 amount \in AmountArgs, start_time \in StartTimeArgs :
              Book(ref, traveller, host, amount, start_time)
        BY <1>2 DEF BookCall
      <3>2. booking'[next_booking_id]
              = NewBooking(ref, traveller, host, amount, start_time)
        BY <3>1 DEF Book, AddBooking, Put
      <3> QED
        BY <3>1, <3>2, BookStep DEF NewBooking
    <2> QED
      BY <2>1 DEF Created, NoCancellation, CancellationKind
  <1>3. CASE World \/ (\E hash \in Wasms : Upgrade(hash)) \/ UNCHANGED vars
    BY <1>3, WorldInv, UpgradeInv, StutterInv
       DEF Outside, NoCancellation, CancellationKind
  <1> QED
    BY <1>1, <1>2, <1>3 DEF Next

\* A host's cancellation gives the traveller the whole escrow, costs the
\* host exactly the fee, and operations receives exactly that fee: the fee
\* never comes out of the escrow (lib.rs, cancel_by_host).
CancelledByHostNow(id) ==
    booking'[id].cancelled_by = "Host" /\ booking[id].cancelled_by # "Host"

HostCancelMakesWhole ==
    [][ \A id \in DOMAIN booking : CancelledByHostNow(id) =>
          LET b   == booking[id]
              fee == config.host_cancel_fee
          IN  /\ balance'[b.traveller] = balance[b.traveller] + b.amount
              /\ balance'[b.host] = balance[b.host] - fee
              /\ balance'[config.ops_pool] = balance[config.ops_pool] + fee ]_vars

\* A host who cancels makes the traveller whole, for any fee and amount.
THEOREM HostCancelMakesWholeHolds == Spec => HostCancelMakesWhole
  <1> DEFINE Whole == \A id \in DOMAIN booking : CancelledByHostNow(id) =>
                        LET b   == booking[id]
                            fee == config.host_cancel_fee
                        IN  /\ balance'[b.traveller] = balance[b.traveller] + b.amount
                            /\ balance'[b.host] = balance[b.host] - fee
                            /\ balance'[config.ops_pool] = balance[config.ops_pool] + fee
  <1>1. ASSUME Inv, [Next]_vars
        PROVE  Whole
    <2> SUFFICES ASSUME NEW id \in DOMAIN booking, CancelledByHostNow(id)
                 PROVE  CancelByHost(id)
      BY <1>1, HostCancelBalances
    <2>1. booking'[id].cancelled_by # booking[id].cancelled_by
             /\ booking'[id].cancelled_by = "Host"
      BY DEF CancelledByHostNow
    <2>2. ~NoCancellation
      BY <2>1 DEF NoCancellation
    <2>3. PICK k \in DOMAIN booking, by \in {"Traveller", "Host"}, shares \in Shares :
            Cancellation(k, by, shares)
      BY <1>1, <2>2, CancellationStep DEF CancellationKind
    <2>4. k = id /\ booking[k] \in Bookings
      BY <1>1, <2>1, <2>3, InvRecord DEF Cancellation, RecordOK
    <2>5. booking'[id].cancelled_by = by
      BY <2>3, <2>4 DEF Cancellation, Closed, CancelledRecord, Bookings
    <2> QED
      BY <2>1, <2>3, <2>4, <2>5 DEF Cancellation
  <1>2. Inv /\ [Next]_vars => [Whole]_vars
    BY <1>1
  <1> QED
    BY <1>2, Invariance, PTL DEF Spec, HostCancelMakesWhole

\* There is a cancellation record of exactly the cancelled bookings; it
\* accounts for the whole agreed amount, and for a host's cancellation it
\* says that the traveller got all of it.
THEOREM CancellationsRecorded == Spec => []CancelSettlementSound
  <1>1. Init => CancelSettlementSound
    BY DEF Init, CancelSettlementSound
  <1>2. ASSUME Inv, CancelSettlementSound, [Next]_vars
        PROVE  CancelSettlementSound'
    <2>1. CASE NoCancellation
      BY <1>2, <2>1 DEF NoCancellation, CancelSettlementSound
    <2>2. ASSUME NEW id \in DOMAIN booking, NEW by \in {"Traveller", "Host"},
                 NEW shares \in Shares, Cancellation(id, by, shares)
          PROVE  CancelSettlementSound'
      <3> DEFINE entry == [traveller_amount |-> shares["traveller"],
                           host_amount |-> shares["host"],
                           ops_amount |-> shares["ops"]]
      <3>1. booking[id] \in Bookings
        BY <1>2, InvRecord DEF RecordOK
      <3>2. /\ DOMAIN booking' = DOMAIN booking
            /\ \A k \in DOMAIN booking \ {id} : booking'[k] = booking[k]
            /\ booking'[id].was_cancelled /\ booking'[id].cancelled_by = by
            /\ booking'[id].amount = booking[id].amount
        BY <2>2, <3>1 DEF Cancellation, Closed, CancelledRecord, Bookings
      <3>3. cancel_settlement' = Put(cancel_settlement, id, entry)
        BY <2>2 DEF Cancellation, RecordCancelSettlement
      <3>4. /\ DOMAIN cancel_settlement' = DOMAIN cancel_settlement \cup {id}
            /\ cancel_settlement'[id] = entry
            /\ \A k \in DOMAIN cancel_settlement \ {id} :
                 cancel_settlement'[k] = cancel_settlement[k]
        BY <3>3 DEF Put
      <3>5. entry.traveller_amount + entry.host_amount + entry.ops_amount
              = booking[id].amount
        BY <2>2 DEF Cancellation
      <3>6. by = "Host" => entry.traveller_amount = booking[id].amount
        BY <2>2 DEF Cancellation, HostCancelRefund, CancelShares, Roles
      <3> HIDE DEF entry
      <3>7. DOMAIN cancel_settlement'
              = { k \in DOMAIN booking' : booking'[k].was_cancelled }
        BY <1>2, <3>2, <3>4 DEF CancelSettlementSound
      <3>8. \A k \in DOMAIN cancel_settlement \ {id} :
              /\ k \in DOMAIN booking \ {id}
              /\ cancel_settlement'[k] = cancel_settlement[k]
        BY <1>2, <3>4 DEF CancelSettlementSound
      <3> QED
        BY <1>2, <3>2, <3>4, <3>5, <3>6, <3>7, <3>8 DEF CancelSettlementSound
    <2> QED
      BY <1>2, <2>1, <2>2, CancellationStep DEF CancellationKind
  <1> QED
    BY <1>1, <1>2, Invariance, PTL DEF Spec

-----------------------------------------------------------------------------
(* What the clients of the contract need to know of a step.                *)

\* Only book touches the reference index; the configuration is fixed and
\* ledger time never goes back.
LEMMA QuietCall ==
    ASSUME Inv,
           \/ \E id \in DOMAIN booking : BookingCall(id)
           \/ \E hash \in Wasms : Upgrade(hash)
           \/ World
           \/ UNCHANGED vars
    PROVE  UNCHANGED <<config, booking_ref_index>> /\ now' \in Nat /\ now <= now'
  <1>1. now \in Nat
    BY BookingAssumption DEF Inv, TypeOK
  <1>2. ASSUME NEW id \in DOMAIN booking, BookingCall(id)
        PROVE  UNCHANGED <<config, booking_ref_index, now>>
    <2>1. UpdateCall(id) => UNCHANGED <<config, booking_ref_index, now>>
      BY DEF UpdateCall, UpdateBooking, StelloSets
    <2>2. CheckIn(id) \/ Complete(id) \/ OpenDispute(id)
             => UNCHANGED <<config, booking_ref_index, now>>
      BY DEF CheckIn, Complete, OpenDispute, StelloSets
    <2>3. (\E amount \in AmountArgs : LockEscrow(id, amount))
             => UNCHANGED <<config, booking_ref_index, now>>
      BY DEF LockEscrow
    <2>4. ExecuteSplit(id) \/ CancelByTraveller(id) \/ CancelByHost(id)
             \/ (\E bps \in BpsArgs : ResolveDispute(id, bps))
             => UNCHANGED <<config, booking_ref_index, now>>
      BY DEF ExecuteSplit, CancelByTraveller, CancelByHost, HostCancels,
             ResolveDispute, Settle
    <2> QED
      BY <1>2, <2>1, <2>2, <2>3, <2>4 DEF BookingCall
  <1>3. CASE World
    <2>1. CASE CloseLedger
      BY <1>1, <2>1, BookingAssumption DEF CloseLedger, storage
    <2>2. CASE TokenNext /\ UNCHANGED <<storage, wasm, now>>
      BY <1>1, <2>2 DEF storage
    <2> QED
      BY <1>3, <2>1, <2>2 DEF World
  <1>4. CASE (\E hash \in Wasms : Upgrade(hash)) \/ UNCHANGED vars
    BY <1>1, <1>4 DEF Upgrade, vars, storage
  <1> QED
    BY <1>1, <1>2, <1>3, <1>4

\* A call on a booking never gives it an amount that nobody passed.
LEMMA AmountCall ==
    ASSUME Inv, NEW id \in DOMAIN booking, BookingCall(id)
    PROVE  /\ DOMAIN booking' = DOMAIN booking
           /\ \A k \in DOMAIN booking \ {id} : booking'[k] = booking[k]
           /\ \/ booking'[id].amount = booking[id].amount
              \/ booking'[id].amount \in AmountArgs
  <1>1. RecordOK(booking[id]) /\ booking[id] \in Bookings
    BY InvRecord DEF RecordOK
  <1>2. Rewritten(id) \/ Funded(id) \/ Settled(id)
    BY CallKind, LockEscrowStep, ExecuteSplitInv, CancelByTravellerInv,
       CancelByHostInv, ResolveDisputeInv
  <1>3. DOMAIN booking' = DOMAIN booking
           /\ \A k \in DOMAIN booking \ {id} : booking'[k] = booking[k]
    BY <1>2 DEF Rewritten, Funded, Settled
  <1>4. ASSUME booking[id].escrow_locked
        PROVE  booking'[id].amount = booking[id].amount
    <2>1. TermsOf(booking'[id]) = TermsOf(booking[id])
      BY <1>2, <1>4 DEF Rewritten, Funded, Settled
    <2> QED
      BY <2>1 DEF TermsOf
  <1>5. CASE UpdateCall(id)
    BY <1>1, <1>5 DEF UpdateCall, UpdateBooking, StelloSets, Bookings
  <1>6. ASSUME NEW amount \in AmountArgs, LockEscrow(id, amount)
        PROVE  booking'[id].amount = booking[id].amount
    <2> DEFINE record == [booking[id] EXCEPT !.state = "Escrowed",
                            !.escrow_locked = TRUE, !.escrow_amount = amount]
    <2>1. booking' = [booking EXCEPT ![id] = record]
      BY <1>6, LockEscrowInv
    <2>2. record.amount = booking[id].amount
      BY <1>1 DEF Bookings
    <2> HIDE DEF record
    <2> QED
      BY <2>1, <2>2
  <1>7. CASE CheckIn(id) \/ Complete(id) \/ OpenDispute(id)
    BY <1>4, <1>7, <1>3, EscrowHeld DEF CheckIn, Complete, OpenDispute
  <1>8. CASE ExecuteSplit(id) \/ CancelByTraveller(id) \/ CancelByHost(id)
               \/ (\E bps \in BpsArgs : ResolveDispute(id, bps))
    <2>1. booking[id].escrow_amount > 0
      BY <1>8 DEF ExecuteSplit, CancelByTraveller, CancelByHost, HostCancels,
                  ResolveDispute, Settle
    <2> QED
      BY <1>3, <1>4, <2>1, EscrowHeld
  <1> QED
    BY <1>3, <1>5, <1>6, <1>7, <1>8 DEF BookingCall
-----------------------------------------------------------------------------
(* Who is paid what, exactly.  A settlement makes up to six transfers; that *)
(* each payee's balance changes by one share, and not by two, rests on the  *)
(* parties and the pools being different addresses.                         *)

\* The payees of a booking are six different addresses: validate_config and
\* validate_parties keep them apart.
LEMMA PayeesDiffer ==
    ASSUME Inv, NEW id \in DOMAIN booking,
           NEW r \in Roles, NEW q \in Roles, r # q
    PROVE  Payee(booking[id])[r] # Payee(booking[id])[q]
  <1> DEFINE b == booking[id]
  <1>1. ValidateConfig(config)
    BY DEF Inv, TypeOK
  <1> DEFINE addrs == <<config.stello_wallet, config.token, config.ops_pool,
                        config.review_pool, config.qa_pool, config.o2o_pool>>
  <1>2. \A i, j \in 1 .. 6 : i < j => addrs[i] # addrs[j]
    BY <1>1 DEF ValidateConfig
  <1>3. /\ addrs[3] # addrs[4] /\ addrs[3] # addrs[5] /\ addrs[3] # addrs[6]
        /\ addrs[4] # addrs[5] /\ addrs[4] # addrs[6] /\ addrs[5] # addrs[6]
    BY <1>2
  <1>4. /\ b.traveller # b.host
        /\ {config.ops_pool, config.review_pool, config.qa_pool, config.o2o_pool}
             \cap {b.traveller, b.host} = {}
    BY InvRecord DEF RecordOK, ValidateParties, Sinks
  <1> DEFINE payee == Payee(b)
  <1>5. /\ payee["traveller"] = b.traveller /\ payee["host"] = b.host
        /\ payee["ops"] = config.ops_pool /\ payee["review"] = config.review_pool
        /\ payee["qa"] = config.qa_pool /\ payee["o2o"] = config.o2o_pool
    BY DEF Payee, Roles
  <1> HIDE DEF payee
  <1>6. payee[r] # payee[q]
    <2>1. {b.traveller, b.host} \cap {payee["ops"], payee["review"],
                                      payee["qa"], payee["o2o"]} = {}
      BY <1>4, <1>5
    <2>2. CASE r \in {"traveller", "host"} /\ q \in {"traveller", "host"}
      BY <1>4, <1>5, <2>2
    <2>3. CASE r \in {"traveller", "host"} /\ q \notin {"traveller", "host"}
      BY <1>5, <2>1, <2>3 DEF Roles
    <2>4. CASE r \notin {"traveller", "host"} /\ q \in {"traveller", "host"}
      BY <1>5, <2>1, <2>4 DEF Roles
    <2>5. CASE r \notin {"traveller", "host"} /\ q \notin {"traveller", "host"}
      BY <1>3, <1>5, <2>5 DEF Roles
    <2> QED
      BY <2>2, <2>3, <2>4, <2>5
  <1> QED
    BY <1>6 DEF payee

\* What is pushed to different payees reaches each of them once.
LEMMA PushPays ==
    ASSUME NEW bal \in [Address -> Nat], NEW shares \in Shares, NEW payee,
           \A q, s \in Roles : q # s => payee[q] # payee[s],
           NEW r \in Roles, payee[r] \in Address, payee[r] # Contract
    PROVE  Push(bal, shares, payee)[payee[r]] = bal[payee[r]] + shares[r]
  <1> DEFINE got == [q \in Roles |-> IF payee[q] = payee[r] THEN shares[q] ELSE 0]
  <1>1. got = [q \in Roles |-> IF q = r THEN shares[r] ELSE 0]
    OBVIOUS
  <1>2. \A q \in Roles : got[q] = IF q = r THEN shares[r] ELSE 0
    BY <1>1
  <1>3. shares[r] \in Nat /\ bal[payee[r]] \in Nat
    BY DEF Shares
  <1> HIDE DEF got
  <1>4. Sum(got) = shares[r]
    BY <1>2, <1>3 DEF Sum, Roles
  <1>5. Received(shares, payee, payee[r]) = shares[r]
    BY <1>4 DEF Received, got
  <1> QED
    BY <1>3, <1>5 DEF Push

\* So a settlement pays every payee of the booking its share.
LEMMA SettlePaysShares ==
    ASSUME Inv, NEW id \in DOMAIN booking, NEW closed, NEW shares \in Shares,
           NEW bal \in [Address -> Nat],
           Settle(id, closed, shares, bal)
    PROVE  \A r \in Roles :
             LET a == Payee(booking[id])[r]
             IN  balance'[a] = bal[a] + shares[r]
  <1>1. balance' = Push(bal, shares, Payee(booking[id]))
    BY SettleEffect
  <1>2. \A q, s \in Roles :
           q # s => Payee(booking[id])[q] # Payee(booking[id])[s]
    BY PayeesDiffer
  <1>3. \A r \in Roles : /\ Payee(booking[id])[r] \in Address
                         /\ Payee(booking[id])[r] # Contract
    BY PayeesOutside
  <1> QED
    BY <1>1, <1>2, <1>3, PushPays

\* The same in terms of what each address gains, for the settlements that
\* start from the stored balances.
LEMMA SettleGains ==
    ASSUME Inv, NEW id \in DOMAIN booking, NEW closed, NEW shares \in Shares,
           Settle(id, closed, shares, balance)
    PROVE  /\ Gain(booking[id].traveller) = shares["traveller"]
           /\ Gain(booking[id].host) = shares["host"]
           /\ Gain(config.ops_pool) = shares["ops"]
           /\ Gain(config.review_pool) = shares["review"]
           /\ Gain(config.qa_pool) = shares["qa"]
           /\ Gain(config.o2o_pool) = shares["o2o"]
  <1>1. balance \in [Address -> Nat]
    BY DEF Inv, TypeOK, TokenTypeOK
  <1>2. \A r \in Roles : LET a == Payee(booking[id])[r]
                         IN  balance'[a] = balance[a] + shares[r]
    BY <1>1, SettlePaysShares
  <1>3. ASSUME NEW r \in Roles
        PROVE  Gain(Payee(booking[id])[r]) = shares[r]
    <2> DEFINE a == Payee(booking[id])[r]
    <2>1. PICK m \in Nat, n \in Nat : m = balance[a] /\ n = shares[r]
      BY <1>1, PayeesOutside DEF Shares
    <2>2. balance'[a] = m + n
      BY <1>2, <2>1
    <2> QED
      BY <2>1, <2>2 DEF Gain
  <1>4. /\ Payee(booking[id])["traveller"] = booking[id].traveller
        /\ Payee(booking[id])["host"] = booking[id].host
        /\ Payee(booking[id])["ops"] = config.ops_pool
        /\ Payee(booking[id])["review"] = config.review_pool
        /\ Payee(booking[id])["qa"] = config.qa_pool
        /\ Payee(booking[id])["o2o"] = config.o2o_pool
    BY DEF Payee, Roles
  <1> QED
    BY <1>3, <1>4 DEF Roles

\* What a cancellation records is what its parties gained, but for the fee.
LEMMA CancellationPays ==
    ASSUME Inv, NEW id \in DOMAIN booking, NEW by \in {"Traveller", "Host"},
           NEW shares \in Shares, Cancellation(id, by, shares)
    PROVE  LET b   == booking[id]
               fee == IF by = "Host" THEN config.host_cancel_fee ELSE 0
           IN  /\ Gain(b.traveller) = shares["traveller"]
               /\ Gain(b.host) = shares["host"] - fee
               /\ Gain(config.ops_pool) = shares["ops"] + fee
  <1> DEFINE b == booking[id]
  <1>1. shares["host"] \in Nat /\ shares["ops"] \in Nat
    BY DEF Shares, Roles
  <1>2. CASE by = "Traveller"
    <2> DEFINE e == b.escrow_amount
    <2>1. /\ e > 0
          /\ Settle(id, CancelledRecord(b, "Traveller"),
                    TravellerRefund(e, b.start_time, now), balance)
      BY <1>2 DEF Cancellation, CancelByTraveller, Settle
    <2>2. TravellerRefund(e, b.start_time, now) = shares
      BY <1>2, <2>1, EscrowHeld DEF Cancellation
    <2>3. Settle(id, CancelledRecord(b, "Traveller"), shares, balance)
      BY <2>1, <2>2
    <2>4. /\ Gain(b.traveller) = shares["traveller"]
          /\ Gain(b.host) = shares["host"]
          /\ Gain(config.ops_pool) = shares["ops"]
      BY <2>3, SettleGains
    <2> QED
      BY <1>1, <1>2, <2>4
  <1>3. CASE by = "Host"
    <2>1. CancelByHost(id) /\ shares = HostCancelRefund(b.amount)
      BY <1>3 DEF Cancellation
    <2>2. shares["traveller"] = b.amount /\ shares["host"] = 0 /\ shares["ops"] = 0
      BY <2>1 DEF HostCancelRefund, CancelShares, Roles
    <2>3. PICK fee \in Nat : fee = config.host_cancel_fee
      BY ConfigFacts
    <2>4. /\ balance'[b.traveller] = balance[b.traveller] + b.amount
          /\ balance'[b.host] = balance[b.host] - fee
          /\ balance'[config.ops_pool] = balance[config.ops_pool] + fee
      BY <2>1, <2>3, HostCancelBalances
    <2>5. PICK t \in Nat, h \in Nat, o \in Nat, n \in Nat :
            /\ t = balance[b.traveller] /\ h = balance[b.host]
            /\ o = balance[config.ops_pool] /\ n = b.amount
      <3>1. RecordOK(b) /\ balance \in [Address -> Nat]
        BY InvRecord DEF Inv, TypeOK, TokenTypeOK
      <3> QED
        BY <3>1, ConfigFacts, I128Range DEF RecordOK, Bookings
    <2>6. /\ Gain(b.traveller) = n /\ Gain(b.host) = 0 - fee
          /\ Gain(config.ops_pool) = 0 + fee
      BY <2>4, <2>5 DEF Gain
    <2> QED
      BY <1>3, <2>2, <2>3, <2>5, <2>6
  <1> QED
    BY <1>2, <1>3

\* The cancellation record never differs from the payments it stands for.
THEOREM PaymentsRecorded == Spec => PaidAsRecorded
  <1> DEFINE New  == DOMAIN cancel_settlement' \ DOMAIN cancel_settlement
             Paid == \A id \in New :
                       LET b   == booking[id]
                           c   == cancel_settlement'[id]
                           fee == IF booking'[id].cancelled_by = "Host"
                                  THEN config.host_cancel_fee ELSE 0
                       IN  /\ Gain(b.traveller) = c.traveller_amount
                           /\ Gain(b.host) = c.host_amount - fee
                           /\ Gain(config.ops_pool) = c.ops_amount + fee
  <1>1. ASSUME Inv, [Next]_vars
        PROVE  Paid
    <2>1. CASE NoCancellation
      BY <2>1 DEF NoCancellation
    <2>2. ASSUME NEW k \in DOMAIN booking, NEW by \in {"Traveller", "Host"},
                 NEW shares \in Shares, Cancellation(k, by, shares)
          PROVE  Paid
      <3> DEFINE entry == [traveller_amount |-> shares["traveller"],
                           host_amount |-> shares["host"],
                           ops_amount |-> shares["ops"]]
      <3>1. cancel_settlement' = Put(cancel_settlement, k, entry)
        BY <2>2 DEF Cancellation, RecordCancelSettlement
      <3>2. New \subseteq {k} /\ cancel_settlement'[k] = entry
        BY <3>1 DEF Put
      <3>3. booking[k] \in Bookings
        BY <1>1, InvRecord DEF RecordOK
      <3>4. booking'[k].cancelled_by = by
        BY <2>2, <3>3 DEF Cancellation, Closed, CancelledRecord, Bookings
      <3>5. LET fee == IF by = "Host" THEN config.host_cancel_fee ELSE 0
            IN  /\ Gain(booking[k].traveller) = entry.traveller_amount
                /\ Gain(booking[k].host) = entry.host_amount - fee
                /\ Gain(config.ops_pool) = entry.ops_amount + fee
        BY <1>1, <2>2, CancellationPays
      <3> HIDE DEF entry
      <3> QED
        BY <3>2, <3>4, <3>5
    <2> QED
      BY <1>1, <2>1, <2>2, CancellationStep DEF CancellationKind
  <1>2. Inv /\ [Next]_vars => [Paid]_vars
    BY <1>1
  <1> QED
    BY <1>2, Invariance, PTL DEF Spec, PaidAsRecorded

\* A booking found Completed is settled by execute_split alone: the other
\* settlements start from Escrowed or Disputed.
LEMMA SplitsCompleted ==
    ASSUME Inv, [Next]_vars, NEW id \in DOMAIN booking, SplitNow(id)
    PROVE  ExecuteSplit(id)
  <1>1. /\ booking[id].state = "Completed" /\ ~booking[id].settled
        /\ booking'[id].settled
    BY DEF SplitNow
  <1>2. ASSUME NEW k \in DOMAIN booking, BookingCall(k)
        PROVE  ExecuteSplit(id)
    <2>1. k = id
      BY <1>1, <1>2, AmountCall
    <2>2. ~Rewritten(id) /\ ~Funded(id)
      BY <1>1 DEF Rewritten, Funded
    <2>3. ~ \E amount \in AmountArgs : LockEscrow(id, amount)
      BY <1>1 DEF LockEscrow
    <2>4. ~(CancelByTraveller(id) \/ CancelByHost(id))
      BY <1>1 DEF CancelByTraveller, CancelByHost, HostCancels, CanCancel
    <2>5. ~ \E bps \in BpsArgs : ResolveDispute(id, bps)
      BY <1>1 DEF ResolveDispute
    <2> QED
      BY <1>2, <2>1, <2>2, <2>3, <2>4, <2>5, CallKind
  <1>3. CASE BookCall
    <2>1. \E new \in 1 .. U64_MAX : Created(new)
      BY <1>3, BookStep DEF BookCall
    <2> QED
      BY <1>1, <2>1 DEF Created
  <1>4. CASE World \/ (\E hash \in Wasms : Upgrade(hash)) \/ UNCHANGED vars
    BY <1>1, <1>4, WorldInv, UpgradeInv, StutterInv DEF Outside
  <1> QED
    BY <1>2, <1>3, <1>4 DEF Next

\* The completion split pays ten, five, three and two percent of what the
\* traveller paid to the pools, and the host the rest.
THEOREM SplitPaysPercentages == Spec => SplitAsPromised
  <1> DEFINE Right(id) == LET b      == booking[id]
                              Pct(n) == Percent(b.amount, n)
                          IN  /\ Gain(config.ops_pool) = Pct(10)
                              /\ Gain(config.review_pool) = Pct(5)
                              /\ Gain(config.qa_pool) = Pct(3)
                              /\ Gain(config.o2o_pool) = Pct(2)
                              /\ Gain(b.host) = b.amount - Pct(10) - Pct(5)
                                                  - Pct(3) - Pct(2)
                              /\ Gain(b.traveller) = 0
             Promised  == \A id \in DOMAIN booking : SplitNow(id) => Right(id)
  <1>1. ASSUME Inv, [Next]_vars
        PROVE  Promised
    <2> SUFFICES ASSUME NEW id \in DOMAIN booking, ExecuteSplit(id)
                 PROVE  Right(id)
      BY <1>1, SplitsCompleted
    <2> DEFINE b == booking[id]
               e == b.escrow_amount
    <2>1. e > 0 /\ Settle(id, b, CompletionSplit(e), balance)
      BY DEF ExecuteSplit, Settle
    <2>2. e = b.amount /\ e \in Nat
      BY <1>1, <2>1, EscrowHeld, I128Range
    <2>3. PICK n \in Nat : n = e
      BY <2>2
    <2>4. LET s == CompletionSplit(n)
          IN  /\ s \in Shares
              /\ s["traveller"] = 0
              /\ s["ops"] = Percent(n, 10) /\ s["review"] = Percent(n, 5)
              /\ s["qa"] = Percent(n, 3) /\ s["o2o"] = Percent(n, 2)
              /\ s["host"] = n - Percent(n, 10) - Percent(n, 5)
                               - Percent(n, 3) - Percent(n, 2)
      BY SplitShares DEF Percent
    <2> DEFINE shares == CompletionSplit(n)
    <2>5. Settle(id, b, shares, balance) /\ shares \in Shares
      BY <2>1, <2>3, <2>4
    <2> HIDE DEF shares
    <2>6. /\ Gain(b.traveller) = shares["traveller"]
          /\ Gain(b.host) = shares["host"]
          /\ Gain(config.ops_pool) = shares["ops"]
          /\ Gain(config.review_pool) = shares["review"]
          /\ Gain(config.qa_pool) = shares["qa"]
          /\ Gain(config.o2o_pool) = shares["o2o"]
      BY <1>1, <2>5, SettleGains
    <2>7. n = b.amount
      BY <2>2, <2>3
    <2> QED
      BY <2>4, <2>6, <2>7, Zenon DEF shares
  <1>2. Inv /\ [Next]_vars => [Promised]_vars
    BY <1>1
  <1> QED
    BY <1>2, Invariance, PTL DEF Spec, SplitAsPromised
=============================================================================
