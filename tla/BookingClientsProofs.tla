------------------------ MODULE BookingClientsProofs -------------------------
(***************************************************************************)
(* What clients can rely on, for every set of references, requests and     *)
(* transactions: the model of the clients is a restriction of the          *)
(* contract's calls, and its own invariant ties each transaction in flight *)
(* to the record it was signed for.                                        *)
(***************************************************************************)
EXTENDS BookingClients, StelloBookingProofs

Progress == {"new", "sent", "refused", "known", "given_up"}

\* No book transaction of the request can ever succeed again: its parties
\* and its amount stay invalid, its start time stays in the past.
Hopeless(ref) ==
    LET q == Request[ref]
    IN  ~(ValidateParties(q.traveller, q.host) /\ q.amount > 0
            /\ ValidateStartTime(q.start_time))

\* A lock names a booking; a cancellation names a funded booking, and quotes
\* the refund of a moment that is past.
LockTx(id, amount) == [call |-> "lock_escrow", id |-> id, amount |-> amount]

CancelTx(id, t) ==
    [call |-> "cancel_by_traveller", id |-> id,
     bps |-> RefundBps(UntilStart(booking[id].start_time, t)),
     quote |-> TravellerRefund(booking[id].amount, booking[id].start_time, t)]

TxOK(tx) ==
    \/ \E ref \in BookingRef : tx = BookTx(ref)
    \/ \E id \in DOMAIN booking, amount \in AmountArgs : tx = LockTx(id, amount)
    \/ \E id \in DOMAIN booking, t \in LedgerTimes :
         t <= now /\ booking[id].escrow_locked /\ tx = CancelTx(id, t)

\* What the backend knows is in the index; what it was refused is in the
\* index, or hopeless; what it gave up is hopeless and not in the index.
BackendOK ==
    /\ progress \in [BookingRef -> Progress]
    /\ \A ref \in DOMAIN known :
         ref \in DOMAIN booking_ref_index /\ booking_ref_index[ref] = known[ref]
    /\ \A ref \in BookingRef :
         progress[ref] = "refused" => ref \in DOMAIN booking_ref_index \/ Hopeless(ref)
    /\ \A ref \in BookingRef :
         progress[ref] = "given_up" =>
           ref \notin DOMAIN booking_ref_index /\ Hopeless(ref)

AmountsPassed == \A id \in DOMAIN booking : booking[id].amount \in AmountArgs

InflightOK == \A tx \in inflight : TxOK(tx)

ClientsInv == Inv /\ AmountsPassed /\ InflightOK /\ BackendOK

-----------------------------------------------------------------------------
(* Every step of the clients is a step of the contract, or none of it.     *)

\* What the arguments of a request are.
LEMMA RequestTypes ==
    ASSUME NEW ref \in BookingRef
    PROVE  /\ Request[ref].traveller \in Address /\ Request[ref].host \in Address
           /\ Request[ref].amount \in AmountArgs
           /\ Request[ref].start_time \in StartTimeArgs
           /\ Request[ref].start_time \in Nat
  BY RequestAssumption, BookingAssumption

\* The backend's book transaction is a call of book.
LEMMA BookOfClient ==
    ASSUME NEW ref \in BookingRef, NEW heard, ExecuteBook(ref, heard)
    PROVE  BookCall
  BY RequestTypes DEF ExecuteBook, BookCall

\* A lock in flight names a booking and an amount that somebody passed.
LEMMA LockInFlight ==
    ASSUME ClientsInv, NEW tx \in LockTxs
    PROVE  tx.id \in DOMAIN booking /\ tx.amount \in AmountArgs
  BY DEF ClientsInv, InflightOK, TxOK, LockTxs, BookTx, LockTx, CancelTx

\* A cancellation in flight names a funded booking and quotes its refund.
LEMMA CancelInFlight ==
    ASSUME ClientsInv, NEW tx \in CancelTxs
    PROVE  /\ tx.id \in DOMAIN booking
           /\ \E t \in LedgerTimes : t <= now /\ tx = CancelTx(tx.id, t)
  BY DEF ClientsInv, InflightOK, TxOK, CancelTxs, BookTx, LockTx, CancelTx

\* The calls that leave the reference index alone.
Quiet ==
    \/ \E id \in DOMAIN booking : BookingCall(id)
    \/ \E hash \in Wasms : Upgrade(hash)
    \/ World
    \/ UNCHANGED vars

\* A transaction signed against what was read is such a call.
LEMMA SignedCalls ==
    ASSUME ClientsInv,
           \/ \E tx \in LockTxs : ExecuteLock(tx)
           \/ \E tx \in CancelTxs : ExecuteCancel(tx)
    PROVE  \E id \in DOMAIN booking : BookingCall(id)
  <1>1. ASSUME NEW tx \in LockTxs, ExecuteLock(tx)
        PROVE  \E id \in DOMAIN booking : BookingCall(id)
    BY <1>1, LockInFlight DEF ExecuteLock, BookingCall
  <1>2. ASSUME NEW tx \in CancelTxs, ExecuteCancel(tx)
        PROVE  \E id \in DOMAIN booking : BookingCall(id)
    BY <1>2, CancelInFlight DEF ExecuteCancel, BookingCall
  <1> QED
    BY <1>1, <1>2

\* So are the calls nobody quoted anything for.
LEMMA OtherCallsQuiet ==
    ASSUME OtherCall
    PROVE  Quiet
  BY DEF OtherCall, Quiet, BookingCall

\* What a client does on his own.
Private ==
    \/ \E ref \in BookingRef : SubmitBook(ref) \/ RefuseBook(ref) \/ Resolve(ref)
    \/ \E id \in DOMAIN booking : SignLock(id) \/ SignCancel(id)
    \/ \E tx \in inflight : Expire(tx)

\* A step of the clients: a booking, a quiet call, or nothing at the contract.
LEMMA ClientStepKinds ==
    ASSUME ClientsInv, [ClientsNext]_clientsVars
    PROVE  \/ \E ref \in BookingRef, heard \in BOOLEAN : ExecuteBook(ref, heard)
           \/ Quiet /\ UNCHANGED clientVars
           \/ Private /\ UNCHANGED vars
  <1>1. CASE UNCHANGED clientsVars
    BY <1>1 DEF clientsVars, Quiet
  <1>2. CASE \/ \E tx \in LockTxs : ExecuteLock(tx)
             \/ \E tx \in CancelTxs : ExecuteCancel(tx)
    <2>1. Quiet
      BY <1>2, SignedCalls DEF Quiet
    <2> QED
      BY <1>2, <2>1 DEF ExecuteLock, ExecuteCancel
  <1>3. CASE OtherCall /\ UNCHANGED clientVars
    BY <1>3, OtherCallsQuiet
  <1>4. CASE Private
    BY <1>4 DEF Private, SubmitBook, RefuseBook, Resolve, SignLock, SignCancel, Expire
  <1> QED
    BY <1>1, <1>2, <1>3, <1>4 DEF ClientsNext, Private

\* So it is a step of the contract.
LEMMA ClientStepOfContract ==
    ASSUME ClientsInv, [ClientsNext]_clientsVars
    PROVE  [Next]_vars
  BY ClientStepKinds, BookOfClient DEF Quiet, Next

-----------------------------------------------------------------------------
(* The clients' invariant.                                                 *)

\* Once hopeless, a request stays so.
LEMMA HopelessStable ==
    ASSUME Inv, NEW ref \in BookingRef, Hopeless(ref),
           config' = config, now' \in Nat, now <= now'
    PROVE  Hopeless(ref)'
  <1>1. now \in Nat /\ Request[ref].start_time \in Nat
    BY RequestTypes, BookingAssumption DEF Inv, TypeOK
  <1> QED
    BY <1>1 DEF Hopeless, ValidateParties, Sinks, ValidateStartTime

\* What a book transaction that succeeds does.
LEMMA BookEffect ==
    ASSUME Inv, NEW ref \in BookingRef, NEW heard, ExecuteBook(ref, heard)
    PROVE  /\ ~Hopeless(ref) /\ ref \notin DOMAIN booking_ref_index
           /\ DOMAIN booking_ref_index' = DOMAIN booking_ref_index \cup {ref}
           /\ booking_ref_index'[ref] = next_booking_id
           /\ \A x \in DOMAIN booking_ref_index :
                booking_ref_index'[x] = booking_ref_index[x]
           /\ UNCHANGED <<config, now>> /\ now \in Nat
           /\ next_booking_id \notin DOMAIN booking
           /\ DOMAIN booking' = DOMAIN booking \cup {next_booking_id}
           /\ \A k \in DOMAIN booking : booking'[k] = booking[k]
           /\ booking'[next_booking_id].amount \in AmountArgs
  <1> DEFINE q      == Request[ref]
             record == NewBooking(ref, q.traveller, q.host, q.amount, q.start_time)
  <1>1. /\ ValidateParties(q.traveller, q.host) /\ q.amount > 0
        /\ ValidateStartTime(q.start_time)
        /\ ref \notin DOMAIN booking_ref_index
        /\ booking' = Put(booking, next_booking_id, record)
        /\ booking_ref_index' = Put(booking_ref_index, ref, next_booking_id)
        /\ UNCHANGED <<config, now>>
    BY DEF ExecuteBook, Book, AddBooking
  <1>2. next_booking_id \notin DOMAIN booking
    BY DEF Inv, TypeOK, RefIndexSound
  <1>3. record.amount \in AmountArgs
    BY RequestTypes DEF NewBooking
  <1>4. now \in Nat
    BY BookingAssumption DEF Inv, TypeOK
  <1> HIDE DEF record
  <1> QED
    BY <1>1, <1>2, <1>3, <1>4 DEF Hopeless, Put

\* Amounts stay among those that callers pass.
LEMMA AmountsStep ==
    ASSUME ClientsInv, [ClientsNext]_clientsVars
    PROVE  AmountsPassed'
  <1>1. Inv /\ AmountsPassed
    BY DEF ClientsInv
  <1>2. ASSUME NEW ref \in BookingRef, NEW heard, ExecuteBook(ref, heard)
        PROVE  AmountsPassed'
    BY <1>1, <1>2, BookEffect DEF AmountsPassed
  <1>3. ASSUME NEW id \in DOMAIN booking, BookingCall(id)
        PROVE  AmountsPassed'
    BY <1>1, <1>3, AmountCall DEF AmountsPassed
  <1>4. CASE (\E hash \in Wasms : Upgrade(hash)) \/ World \/ UNCHANGED vars
    <2>1. booking' = booking
      BY <1>1, <1>4, UpgradeInv, WorldInv, StutterInv DEF Outside
    <2> QED
      BY <1>1, <2>1 DEF AmountsPassed
  <1> QED
    BY <1>2, <1>3, <1>4, ClientStepKinds DEF Quiet

\* Time and the reference index only grow, and the configuration is fixed.
LEMMA ClientGrowth ==
    ASSUME ClientsInv, [ClientsNext]_clientsVars
    PROVE  config' = config /\ now' \in Nat /\ now <= now'
  <1>1. Inv
    BY DEF ClientsInv
  <1>2. ASSUME NEW ref \in BookingRef, NEW heard, ExecuteBook(ref, heard)
        PROVE  config' = config /\ now' \in Nat /\ now <= now'
    <2>1. config' = config /\ now' = now /\ now \in Nat
      BY <1>1, <1>2, BookEffect
    <2> QED
      BY <2>1
  <1>3. ASSUME Quiet
        PROVE  config' = config /\ now' \in Nat /\ now <= now'
    BY <1>1, <1>3, QuietCall DEF Quiet
  <1> QED
    BY <1>2, <1>3, ClientStepKinds DEF Quiet

\* A transaction in flight keeps its meaning: bookings stay, a funded one
\* with its terms, and the quote's moment stays in the past.
LEMMA TxStable ==
    ASSUME ClientsInv, [ClientsNext]_clientsVars, NEW tx, TxOK(tx)
    PROVE  TxOK(tx)'
  <1>1. Inv /\ [Next]_vars /\ now \in Nat /\ now' \in Nat /\ now <= now'
    BY ClientStepOfContract, ClientGrowth, BookingAssumption
       DEF ClientsInv, Inv, TypeOK
  <1>2. /\ DOMAIN booking \subseteq DOMAIN booking'
        /\ \A id \in DOMAIN booking : booking[id].escrow_locked =>
             /\ TermsOf(booking'[id]) = TermsOf(booking[id])
             /\ booking'[id].escrow_locked
    BY <1>1, TermsKept
  <1>3. ASSUME NEW id \in DOMAIN booking, NEW t \in LedgerTimes,
               t <= now, booking[id].escrow_locked, tx = CancelTx(id, t)
        PROVE  TxOK(tx)'
    <2>1. /\ booking'[id].amount = booking[id].amount
          /\ booking'[id].start_time = booking[id].start_time
      BY <1>2, <1>3 DEF TermsOf
    <2>2. tx = CancelTx(id, t)'
      BY <1>3, <2>1 DEF CancelTx
    <2>3. t <= now'
      BY <1>1, <1>3, BookingAssumption
    <2> QED
      BY <1>2, <1>3, <2>2, <2>3 DEF TxOK
  <1>4. ASSUME NEW id \in DOMAIN booking, NEW amount \in AmountArgs,
               tx = LockTx(id, amount)
        PROVE  TxOK(tx)'
    BY <1>2, <1>4 DEF TxOK, LockTx
  <1>5. ASSUME NEW ref \in BookingRef, tx = BookTx(ref)
        PROVE  TxOK(tx)'
    BY <1>5 DEF TxOK, BookTx
  <1> QED
    BY <1>3, <1>4, <1>5 DEF TxOK

\* Whatever is signed is right when it is signed.
LEMMA InflightStep ==
    ASSUME ClientsInv, [ClientsNext]_clientsVars
    PROVE  InflightOK'
  <1>1. \A tx \in inflight : TxOK(tx)'
    BY TxStable DEF ClientsInv, InflightOK
  <1>2. ASSUME NEW id \in DOMAIN booking, SignLock(id), UNCHANGED vars
        PROVE  \A tx \in inflight' : tx \in inflight \/ TxOK(tx)
    BY <1>2 DEF SignLock, ClientsInv, AmountsPassed, TxOK, LockTx
  <1>3. ASSUME NEW id \in DOMAIN booking, SignCancel(id), UNCHANGED vars
        PROVE  \A tx \in inflight' : tx \in inflight \/ TxOK(tx)
    <2>1. /\ booking[id].escrow_locked /\ booking[id].escrow_amount = booking[id].amount
          /\ now \in LedgerTimes /\ now <= now
      BY <1>3, InvRecord, BookingAssumption
         DEF SignCancel, ClientsInv, Inv, TypeOK, RecordOK, Consistent
    <2>2. inflight' = inflight \cup {CancelTx(id, now)}
      BY <1>3, <2>1 DEF SignCancel, CancelTx
    <2> QED
      BY <2>1, <2>2 DEF TxOK
  <1>4. ASSUME NEW ref \in BookingRef, SubmitBook(ref)
        PROVE  \A tx \in inflight' : tx \in inflight \/ TxOK(tx)
    BY <1>4 DEF SubmitBook, TxOK
  <1>5. ASSUME Private, UNCHANGED vars
        PROVE  \A tx \in inflight' : tx \in inflight \/ TxOK(tx)
    BY <1>2, <1>3, <1>4, <1>5 DEF Private, RefuseBook, Resolve, Expire
  <1>6. \A tx \in inflight' : tx \in inflight \/ TxOK(tx)
    BY <1>5, ClientStepKinds DEF ExecuteBook, clientVars
  <1>7. \A tx : TxOK(tx) => TxOK(tx)'
    BY TxStable
  <1> QED
    BY <1>1, <1>6, <1>7 DEF InflightOK

\* The backend's knowledge stays right.
LEMMA BackendStep ==
    ASSUME ClientsInv, [ClientsNext]_clientsVars
    PROVE  BackendOK'
  <1>1. Inv /\ BackendOK
    BY DEF ClientsInv
  <1>2. \A ref \in BookingRef : Hopeless(ref) => Hopeless(ref)'
    BY <1>1, ClientGrowth, HopelessStable
  <1>3. ASSUME NEW ref \in BookingRef, NEW heard \in BOOLEAN, ExecuteBook(ref, heard)
        PROVE  BackendOK'
    <2>1. /\ ~Hopeless(ref) /\ ref \notin DOMAIN booking_ref_index
          /\ DOMAIN booking_ref_index' = DOMAIN booking_ref_index \cup {ref}
          /\ booking_ref_index'[ref] = next_booking_id
          /\ \A x \in DOMAIN booking_ref_index :
               booking_ref_index'[x] = booking_ref_index[x]
      BY <1>1, <1>3, BookEffect
    <2>2. ASSUME NEW x \in DOMAIN known'
          PROVE  x \in DOMAIN booking_ref_index' /\ booking_ref_index'[x] = known'[x]
      BY <1>1, <1>3, <2>1, <2>2 DEF ExecuteBook, Learn, Put, BackendOK
    <2>3. /\ progress' \in [BookingRef -> Progress]
          /\ \A x \in BookingRef : progress'[x] \in {"refused", "given_up"}
                                     => progress'[x] = progress[x]
      BY <1>1, <1>3 DEF ExecuteBook, Learn, BackendOK, Progress
    <2> QED
      BY <1>1, <1>2, <2>1, <2>2, <2>3 DEF BackendOK
  <1>4. CASE Quiet /\ UNCHANGED clientVars
    <2>1. booking_ref_index' = booking_ref_index
      BY <1>1, <1>4, QuietCall DEF Quiet
    <2> QED
      BY <1>1, <1>2, <1>4, <2>1 DEF BackendOK, clientVars
  <1>5. ASSUME NEW ref \in BookingRef, UNCHANGED vars,
               SubmitBook(ref) \/ RefuseBook(ref) \/ Resolve(ref)
        PROVE  BackendOK'
    <2>1. booking_ref_index' = booking_ref_index
      BY <1>5 DEF vars, storage
    <2>2. CASE SubmitBook(ref)
      BY <1>1, <1>2, <2>1, <2>2 DEF SubmitBook, BackendOK, Progress
    <2>3. CASE RefuseBook(ref)
      <3>1. ref \in DOMAIN booking_ref_index \/ Hopeless(ref)
        <4>1. PICK n \in Int : n = Request[ref].amount
          BY RequestTypes, BookingAssumption
        <4>2. n <= 0 => ~(n > 0)
          OBVIOUS
        <4>3. BookError(Request[ref], ref) # "None"
          BY <2>3 DEF RefuseBook
        <4> QED
          BY <4>1, <4>2, <4>3 DEF BookError, Hopeless
      <3> QED
        BY <1>1, <1>2, <2>1, <2>3, <3>1 DEF RefuseBook, BackendOK, Progress
    <2>4. CASE Resolve(ref)
      BY <1>1, <1>2, <2>1, <2>4 DEF Resolve, Learn, Put, BackendOK, Progress
    <2> QED
      BY <1>5, <2>2, <2>3, <2>4
  <1>6. ASSUME UNCHANGED <<vars, progress, known>>
        PROVE  BackendOK'
    BY <1>1, <1>2, <1>6 DEF vars, storage, BackendOK
  <1>7. CASE Private /\ UNCHANGED vars
    BY <1>5, <1>6, <1>7 DEF Private, SignLock, SignCancel, Expire
  <1> QED
    BY <1>3, <1>4, <1>7, ClientStepKinds

\* The invariant holds, and the clients' behaviours are the contract's.
LEMMA ClientsInvariance == ClientsSpec => []ClientsInv /\ Spec
  <1>1. ClientsInit => ClientsInv
    <2> SUFFICES ASSUME ClientsInit PROVE ClientsInv
      OBVIOUS
    <2>1. Inv
      BY InitInv DEF ClientsInit
    <2>2. DOMAIN booking = {} /\ inflight = {} /\ DOMAIN known = {}
             /\ progress = [ref \in BookingRef |-> "new"]
      BY DEF ClientsInit, Init
    <2> QED
      BY <2>1, <2>2 DEF ClientsInv, AmountsPassed, InflightOK, BackendOK, Progress
  <1>2. ClientsInv /\ [ClientsNext]_clientsVars => ClientsInv'
    <2> SUFFICES ASSUME ClientsInv, [ClientsNext]_clientsVars PROVE ClientsInv'
      OBVIOUS
    <2>1. Inv'
      BY ClientStepOfContract, StepInv DEF ClientsInv
    <2> QED
      BY <2>1, AmountsStep, InflightStep, BackendStep DEF ClientsInv
  <1>3. ClientsInit => Init
    BY DEF ClientsInit
  <1>4. ClientsInv /\ [ClientsNext]_clientsVars => [Next]_vars
    BY ClientStepOfContract
  <1> QED
    BY <1>1, <1>2, <1>3, <1>4, PTL DEF ClientsSpec, Spec

-----------------------------------------------------------------------------
(* The theorems.                                                           *)

\* Whatever the clients do, retry, forget or sign too late, the contract
\* behaves as its own specification says; so all that is proved of it holds.
THEOREM ClientsUseContract == ClientsSpec => Spec
  BY ClientsInvariance, PTL

\* The id the backend has learned is that of the only booking made for the
\* request, however many copies of it were executed (lib.rs, book:
\* "Uniqueness / idempotency").
THEOREM KnownStaysRight == ClientsSpec => []KnownRight
  <1>1. ClientsInv => KnownRight
    <2> SUFFICES ASSUME ClientsInv, NEW ref \in DOMAIN known
                 PROVE  { id \in DOMAIN booking : booking[id].booking_ref = ref }
                          = {known[ref]}
      BY DEF KnownRight
    <2>1. ref \in DOMAIN booking_ref_index /\ booking_ref_index[ref] = known[ref]
      BY DEF ClientsInv, BackendOK
    <2> QED
      BY <2>1 DEF ClientsInv, Inv, RefIndexSound
  <1> QED
    BY <1>1, ClientsInvariance, PTL

\* What the backend gave up is never booked later, although copies of the
\* request may still be under way.
THEOREM GivenUpStaysUnbooked == ClientsSpec => []GivenUpForGood
  <1>1. ClientsInv => GivenUpForGood
    BY DEF ClientsInv, BackendOK, GivenUpForGood
  <1> QED
    BY <1>1, ClientsInvariance, PTL

\* A lock takes from the traveller exactly what a transaction he signed says
\* (lib.rs, lock_escrow: the amount must be the booking's).
THEOREM AlwaysPaidAsSigned == ClientsSpec => PaidAsSigned
  <1> DEFINE Paid == \A id \in DOMAIN booking : LockedNow(id) =>
                       LET payer == booking[id].traveller
                       IN  \E tx \in LockTxs : tx.id = id
                             /\ tx.amount = balance[payer] - balance'[payer]
  <1>1. ASSUME ClientsInv, [ClientsNext]_clientsVars
        PROVE  Paid
    <2> SUFFICES ASSUME NEW id \in DOMAIN booking, LockedNow(id)
                 PROVE  LET payer == booking[id].traveller
                        IN  \E tx \in LockTxs : tx.id = id
                              /\ tx.amount = balance[payer] - balance'[payer]
      OBVIOUS
    <2>1. Inv /\ ~booking[id].escrow_locked /\ booking'[id].escrow_locked
      BY <1>1 DEF ClientsInv, LockedNow
    <2>2. ~ \E ref \in BookingRef, heard \in BOOLEAN : ExecuteBook(ref, heard)
      BY <2>1, BookEffect
    <2>3. ~ OtherCall
      <3>1. ASSUME NEW k \in DOMAIN booking, Rewritten(k) \/ Settled(k)
            PROVE  FALSE
        BY <2>1, <3>1 DEF Rewritten, Settled
      <3>2. ASSUME Outside
            PROVE  FALSE
        BY <2>1, <3>2 DEF Outside
      <3> QED
        BY <2>1, <3>1, <3>2, UpdateBookingStep, CheckInStep, CompleteStep,
           OpenDisputeStep, ExecuteSplitInv, CancelByHostInv, ResolveDisputeInv,
           UpgradeInv, WorldInv
           DEF OtherCall, UpdateCall
    <2>4. ~ \E tx \in CancelTxs : ExecuteCancel(tx)
      <3> SUFFICES ASSUME NEW tx \in CancelTxs, ExecuteCancel(tx) PROVE FALSE
        OBVIOUS
      <3>1. tx.id \in DOMAIN booking /\ CancelByTraveller(tx.id)
        BY <1>1, CancelInFlight DEF ExecuteCancel
      <3>2. Settled(tx.id)
        BY <2>1, <3>1, CancelByTravellerInv
      <3> QED
        BY <2>1, <3>2 DEF Settled
    <2>5. booking' # booking
      BY <2>1
    <2>6. PICK tx \in LockTxs : ExecuteLock(tx)
      BY <1>1, <2>2, <2>3, <2>4, <2>5
         DEF ClientsNext, clientsVars, vars, storage, SubmitBook, RefuseBook,
             Resolve, SignLock, SignCancel, Expire
    <2>7. tx.id \in DOMAIN booking /\ LockEscrow(tx.id, tx.amount)
      BY <1>1, <2>6, LockInFlight DEF ExecuteLock
    <2>8. Funded(tx.id)
      BY <2>1, <2>7, LockEscrowStep
    <2>9. tx.id = id
      BY <2>1, <2>8 DEF Funded
    <2>10. PICK n \in Nat : n = tx.amount
      <3>1. RecordOK(booking[id]) /\ booking[id].amount = tx.amount
        BY <2>1, <2>7, <2>9, InvRecord, LockEscrowInv
      <3> QED
        BY <3>1, I128Range DEF RecordOK, Bookings
    <2>11. PICK m \in Nat : m = balance[booking[id].traveller]
      BY <2>1, InvRecord DEF Inv, TypeOK, TokenTypeOK, RecordOK, Bookings
    <2>12. balance'[booking[id].traveller] = m - n
      BY <2>1, <2>7, <2>9, <2>10, <2>11, LockEscrowInv
    <2>13. tx.amount = balance[booking[id].traveller]
                         - balance'[booking[id].traveller]
      BY <2>10, <2>11, <2>12
    <2> QED
      BY <2>9, <2>13
  <1>2. ClientsInv /\ [ClientsNext]_clientsVars => [Paid]_clientsVars
    BY <1>1
  <1> QED
    BY <1>2, ClientsInvariance, PTL DEF ClientsSpec, PaidAsSigned

\* A cancellation that was quoted refunds the traveller at most the quote,
\* and the quote itself unless a window bound was passed meanwhile
\* (refund.rs: the windows).
THEOREM QuoteAlwaysKept == ClientsSpec => QuoteKept
  <1> DEFINE Kept == \A tx \in CancelTxs :
                       LET id == tx.id
                           c  == cancel_settlement'[id]
                       IN  id \notin DOMAIN cancel_settlement
                             /\ id \in DOMAIN cancel_settlement'
                             /\ booking'[id].cancelled_by = "Traveller"
                           => /\ c.traveller_amount <= tx.quote["traveller"]
                              /\ RefundBps(UntilStart(booking[id].start_time, now)) = tx.bps
                                   => c.traveller_amount = tx.quote["traveller"]
  <1>1. ASSUME ClientsInv, [ClientsNext]_clientsVars
        PROVE  Kept
    <2> SUFFICES ASSUME NEW tx \in CancelTxs,
                        tx.id \notin DOMAIN cancel_settlement,
                        tx.id \in DOMAIN cancel_settlement',
                        booking'[tx.id].cancelled_by = "Traveller"
                 PROVE  /\ cancel_settlement'[tx.id].traveller_amount
                             <= tx.quote["traveller"]
                        /\ RefundBps(UntilStart(booking[tx.id].start_time, now)) = tx.bps
                             => cancel_settlement'[tx.id].traveller_amount
                                  = tx.quote["traveller"]
      OBVIOUS
    <2> DEFINE b == booking[tx.id]
    <2>1. PICK t \in LedgerTimes : t <= now /\ tx = CancelTx(tx.id, t)
      BY <1>1, CancelInFlight
    <2>2. Inv /\ [Next]_vars /\ tx.id \in DOMAIN booking
      BY <1>1, ClientStepOfContract, CancelInFlight DEF ClientsInv
    <2>3. b \in Bookings /\ b.amount \in Nat /\ b.start_time \in Nat
             /\ t \in Nat /\ now \in Nat
      BY <2>2, InvRecord, I128Range, BookingAssumption
         DEF RecordOK, Bookings, Inv, TypeOK
    <2>4. ~NoCancellation
      BY DEF NoCancellation
    <2>5. PICK k \in DOMAIN booking, by \in {"Traveller", "Host"}, shares \in Shares :
            Cancellation(k, by, shares)
      BY <2>2, <2>4, CancellationStep DEF CancellationKind
    <2>6. k = tx.id /\ cancel_settlement'[tx.id].traveller_amount = shares["traveller"]
      BY <2>5 DEF Cancellation, RecordCancelSettlement, Put
    <2>7. booking'[tx.id].cancelled_by = by
      BY <2>3, <2>5, <2>6 DEF Cancellation, Closed, CancelledRecord, Bookings
    <2>8. shares = TravellerRefund(b.amount, b.start_time, now)
      BY <2>5, <2>6, <2>7 DEF Cancellation
    <2>9. /\ tx.quote = TravellerRefund(b.amount, b.start_time, t)
          /\ tx.bps = RefundBps(UntilStart(b.start_time, t))
      BY <2>1 DEF CancelTx
    <2>10. shares["traveller"] <= tx.quote["traveller"]
      BY <2>1, <2>3, <2>8, <2>9, RefundFalls
    <2>11. /\ shares["traveller"]
                = BpsFloor(b.amount, RefundBps(UntilStart(b.start_time, now))["traveller"])
           /\ tx.quote["traveller"] = BpsFloor(b.amount, tx.bps["traveller"])
      BY <2>3, <2>8, <2>9, RefundShares
    <2> QED
      BY <2>6, <2>10, <2>11
  <1>2. ClientsInv /\ [ClientsNext]_clientsVars => [Kept]_clientsVars
    BY <1>1
  <1> QED
    BY <1>2, ClientsInvariance, PTL DEF ClientsSpec, QuoteKept
=============================================================================
