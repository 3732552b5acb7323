--------------------------- MODULE BookingClients ---------------------------
(***************************************************************************)
(* The contract as its clients meet it: transactions are signed against    *)
(* what a client has read, and executed later, in any order, or never.     *)
(*                                                                         *)
(* The backend books each of its references with a retried call: it sends  *)
(* the same arguments again when no answer came, although the first        *)
(* transaction may still be under way.  When book returns an error it asks *)
(* get_booking_id_by_ref, and gives the request up only if there is no     *)
(* booking.  A traveller signs lock_escrow for the amount he has read; the *)
(* backend signs cancel_by_traveller having quoted the refund.  Everybody  *)
(* else calls the contract in between.                                     *)
(*                                                                         *)
(* The clients are outside the repository.  A transaction stays in flight  *)
(* until it expires, so executing one twice stands for every copy a retry  *)
(* may have sent.                                                          *)
(***************************************************************************)
EXTENDS StelloBooking

CONSTANT Request     \* the arguments with which the backend books a reference

ASSUME RequestAssumption ==
    Request \in [BookingRef -> [traveller : Address, host : Address,
                                amount : AmountArgs, start_time : StartTimeArgs]]

VARIABLES inflight,  \* signed transactions, neither expired nor forgotten
          progress,  \* reference -> how far the backend is with its request
          known      \* reference -> the booking id the backend has learned

clientVars == <<inflight, progress, known>>

clientsVars == <<vars, clientVars>>

ClientsInit ==
    /\ Init
    /\ inflight = {}
    /\ progress = [ref \in BookingRef |-> "new"]
    /\ known = [ref \in {} |-> 0]

BookTx(ref) == [call |-> "book", ref |-> ref]

LockTxs == { tx \in inflight : tx.call = "lock_escrow" }

CancelTxs == { tx \in inflight : tx.call = "cancel_by_traveller" }

-----------------------------------------------------------------------------
(* What the contract answers.                                              *)

\* Seeded fault: a reference that exists is no error of its own.
BookErrorUnnamed(q, ref) ==
    IF ~ValidateParties(q.traveller, q.host) THEN "InvalidAddress"
    ELSE IF q.amount <= 0 THEN "InvalidAmount"
    ELSE IF ~ValidateStartTime(q.start_time) THEN "InvalidStartTime"
    ELSE "None"

\* The error book returns: that of the first check that fails.  A reference
\* that exists is checked last, so a late retry of a request that was booked
\* may be answered InvalidStartTime.
BookError(q, ref) ==
    IF ~ValidateParties(q.traveller, q.host) THEN "InvalidAddress"
    ELSE IF q.amount <= 0 THEN "InvalidAmount"
    ELSE IF ~ValidateStartTime(q.start_time) THEN "InvalidStartTime"
    ELSE IF ref \in DOMAIN booking_ref_index THEN "DuplicateBookingRef"
    ELSE "None"

-----------------------------------------------------------------------------
(* The backend books its references.                                       *)

SubmitBook(ref) ==
    /\ progress[ref] \in {"new", "sent"}
    /\ BookTx(ref) \notin inflight
    /\ inflight' = inflight \cup {BookTx(ref)}
    /\ progress' = [progress EXCEPT ![ref] = "sent"]
    /\ UNCHANGED <<vars, known>>

Learn(ref, id) ==
    /\ known' = Put(known, ref, id)
    /\ progress' = [progress EXCEPT ![ref] = "known"]

\* The transaction succeeds; the backend hears of the id, or does not.
ExecuteBook(ref, heard) ==
    /\ BookTx(ref) \in inflight
    /\ Book(ref, Request[ref].traveller, Request[ref].host,
            Request[ref].amount, Request[ref].start_time)
    /\ IF heard /\ progress[ref] = "sent" THEN Learn(ref, next_booking_id)
       ELSE UNCHANGED <<progress, known>>
    /\ UNCHANGED inflight

\* The transaction fails and changes nothing; the backend hears of the error.
RefuseBook(ref) ==
    /\ BookTx(ref) \in inflight
    /\ BookError(Request[ref], ref) # "None"
    /\ progress[ref] = "sent"
    /\ progress' = [progress EXCEPT ![ref] = "refused"]
    /\ UNCHANGED <<vars, inflight, known>>

\* Whatever the error was, the backend asks get_booking_id_by_ref, which
\* answers with the id or with BookingNotFound.
Resolve(ref) ==
    /\ progress[ref] = "refused"
    /\ IF ref \in DOMAIN booking_ref_index THEN Learn(ref, booking_ref_index[ref])
       ELSE progress' = [progress EXCEPT ![ref] = "given_up"] /\ UNCHANGED known
    /\ UNCHANGED <<vars, inflight>>

-----------------------------------------------------------------------------
(* Transactions signed against what was read.                              *)

\* The traveller has read the booking (get_booking) and agrees to its amount.
SignLock(id) ==
    /\ booking[id].state = "Created"
    /\ inflight' = inflight \cup {[call |-> "lock_escrow", id |-> id,
                                   amount |-> booking[id].amount]}
    /\ UNCHANGED <<vars, progress, known>>

ExecuteLock(tx) == LockEscrow(tx.id, tx.amount) /\ UNCHANGED clientVars

\* The backend has quoted the refund of this moment.
SignCancel(id) ==
    LET b == booking[id]
    IN  /\ b.state = "Escrowed"
        /\ \A tx \in CancelTxs : tx.id # id
        /\ inflight' = inflight \cup
             {[call |-> "cancel_by_traveller", id |-> id,
               bps |-> RefundBps(UntilStart(b.start_time, now)),
               quote |-> TravellerRefund(b.escrow_amount, b.start_time, now)]}
        /\ UNCHANGED <<vars, progress, known>>

ExecuteCancel(tx) == CancelByTraveller(tx.id) /\ UNCHANGED clientVars

\* A transaction leaves no trace: it was dropped, or its bounds are over.
Expire(tx) == inflight' = inflight \ {tx} /\ UNCHANGED <<vars, progress, known>>

\* Calls nobody quoted anything for, and what is no call.
OtherCall ==
    \/ \E id \in DOMAIN booking :
          \/ UpdateCall(id)
          \/ CheckIn(id)
          \/ Complete(id)
          \/ ExecuteSplit(id)
          \/ CancelByHost(id)
          \/ OpenDispute(id)
          \/ \E bps \in BpsArgs : ResolveDispute(id, bps)
    \/ \E hash \in Wasms : Upgrade(hash)
    \/ World

ClientsNext ==
    \/ \E ref \in BookingRef :
          \/ SubmitBook(ref)
          \/ \E heard \in BOOLEAN : ExecuteBook(ref, heard)
          \/ RefuseBook(ref)
          \/ Resolve(ref)
    \/ \E id \in DOMAIN booking : SignLock(id) \/ SignCancel(id)
    \/ \E tx \in LockTxs : ExecuteLock(tx)
    \/ \E tx \in CancelTxs : ExecuteCancel(tx)
    \/ \E tx \in inflight : Expire(tx)
    \/ OtherCall /\ UNCHANGED clientVars

\* The backend keeps retrying, and of an endless number of transactions the
\* network answers one.
BackendPersists ==
    \A ref \in BookingRef :
        /\ WF_clientsVars(SubmitBook(ref))
        /\ WF_clientsVars(Resolve(ref))
        /\ SF_clientsVars(ExecuteBook(ref, TRUE) \/ RefuseBook(ref))

ClientsSpec == ClientsInit /\ [][ClientsNext]_clientsVars /\ BackendPersists

-----------------------------------------------------------------------------
(* What a client can rely on.                                              *)

\* However often a request was sent, whichever answers were lost and whatever
\* a late copy was told, the id the backend has is that of the one booking
\* made for the request (lib.rs, book: "Uniqueness / idempotency").
KnownRight ==
    \A ref \in DOMAIN known :
        { id \in DOMAIN booking : booking[id].booking_ref = ref } = {known[ref]}

\* A request given up stays unbooked, although copies of it may still be in
\* flight: no error book returns can become a success later.
GivenUpForGood ==
    \A ref \in BookingRef :
        progress[ref] = "given_up" => ref \notin DOMAIN booking_ref_index

\* A traveller pays exactly what he signed for: if the amount was changed
\* after he read it, his transaction is refused.
LockedNow(id) ==
    id \in DOMAIN booking /\ ~booking[id].escrow_locked /\ booking'[id].escrow_locked

PaidAsSigned ==
    [][ \A id \in DOMAIN booking : LockedNow(id) =>
          LET payer == booking[id].traveller
          IN  \E tx \in LockTxs : tx.id = id
                /\ tx.amount = balance[payer] - balance'[payer] ]_clientsVars

\* A cancellation that executes late never refunds the traveller more than
\* the quote, and it refunds the quote unless a window bound was passed.
QuoteKept ==
    [][ \A tx \in CancelTxs :
          LET id == tx.id
              c  == cancel_settlement'[id]
          IN  id \notin DOMAIN cancel_settlement
                /\ id \in DOMAIN cancel_settlement'
                /\ booking'[id].cancelled_by = "Traveller"
              => /\ c.traveller_amount <= tx.quote["traveller"]
                 /\ RefundBps(UntilStart(booking[id].start_time, now)) = tx.bps
                      => c.traveller_amount = tx.quote["traveller"] ]_clientsVars

\* Retrying ends: every request is booked and known, or given up.
RequestsEnd ==
    \A ref \in BookingRef :
        progress[ref] = "sent" ~> progress[ref] \in {"known", "given_up"}
=============================================================================
