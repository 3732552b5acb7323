---------------------------- MODULE StelloEvents ----------------------------
(***************************************************************************)
(* The events the contract publishes (events.rs, and the publish calls of  *)
(* lib.rs), and the indexer they are for.                                  *)
(*                                                                         *)
(* A call publishes its events with its state change or not at all, so     *)
(* each entrypoint is an action of StelloBooking together with the events  *)
(* it appends to the stream.  The indexer is outside the repository: it    *)
(* never reads the contract, takes the events one at a time, in order and  *)
(* arbitrarily late, and treats them as the header of events.rs says.      *)
(*                                                                         *)
(* Left out: service_ref and the timestamps, which nothing reads, and the  *)
(* event the host emits for an upgrade.                                    *)
(***************************************************************************)
EXTENDS StelloBooking, Sequences

CONSTANT MaxLag      \* events the stream holds before the indexer takes one

ASSUME LagAssumption == MaxLag \in Nat \ {0}

VARIABLES stream,    \* events published and not yet indexed
          index,       \* booking_id -> what the indexer knows of the booking
          books        \* the balances the indexer derives

indexerVars == <<stream, index, books>>

eventVars == <<vars, indexerVars>>

\* The indexer starts from the balances at deployment.
EventsInit ==
    /\ Init
    /\ stream = <<>>
    /\ index = [id \in {} |-> {}]
    /\ books = InitialBalance

-----------------------------------------------------------------------------
(* The events of each call, in the order in which it publishes them.       *)

Event(type, id, data) == [type |-> type, booking_id |-> id, data |-> data]

BookingCreated(id, b) ==
    Event("BookingCreated", id,
          [booking_ref |-> b.booking_ref, traveller |-> b.traveller,
           host |-> b.host, amount |-> b.amount, token |-> b.token,
           start_time |-> b.start_time])

BookingUpdated(id, host, amount, start_time) ==
    Event("BookingUpdated", id,
          [host |-> host, amount |-> amount, start_time |-> start_time])

EscrowLocked(id, amount) ==
    Event("EscrowLocked", id, [amount |-> amount, token |-> config.token])

SettlementExecuted(id, type, amounts) ==
    Event("SettlementExecuted", id,
          [settlement_type |-> type, amounts |-> amounts])

\* The three amounts repeat those of the settlement.
BookingCancelled(id, by_host, shares) ==
    Event("BookingCancelled", id,
          [by_host |-> by_host, traveller_amount |-> shares["traveller"],
           host_amount |-> shares["host"], ops_amount |-> shares["ops"]])

HostCancellationFeePaid(id, host, ops, amount) ==
    Event("HostCancellationFeePaid", id,
          [host |-> host, ops |-> ops, amount |-> amount])

\* check_in, complete and open_dispute announce the booking alone.
Lifecycle(type, id) == Event(type, id, {})

\* Seeded fault: an update that changes the host is announced without it.
UpdateEventsOldHost(id, host, amount, start_time) ==
    << BookingUpdated(id, booking[id].host, amount, start_time) >>

UpdateEvents(id, host, amount, start_time) ==
    << BookingUpdated(id, host, amount, start_time) >>

SplitEvents(id, shares) == << SettlementExecuted(id, "Completed", shares) >>

\* Seeded fault: the settlement is announced before the cancellation.
CancelEventsSwapped(id, shares) ==
    << SettlementExecuted(id, "TravellerCancel", shares),
       BookingCancelled(id, FALSE, shares) >>

TravellerCancelEvents(id, shares) ==
    << BookingCancelled(id, FALSE, shares),
       SettlementExecuted(id, "TravellerCancel", shares) >>

\* Seeded fault: the fee is folded into the settlement.
HostCancelEventsWithFee(id, shares, fee) ==
    << BookingCancelled(id, TRUE, shares),
       SettlementExecuted(id, "HostCancel", [shares EXCEPT !["ops"] = @ + fee]) >>

HostCancelEvents(id, shares, fee) ==
    << HostCancellationFeePaid(id, booking[id].host, config.ops_pool, fee),
       BookingCancelled(id, TRUE, shares),
       SettlementExecuted(id, "HostCancel", shares) >>

ResolveEvents(id, bps, shares) ==
    << Event("DisputeResolved", id, bps),
       SettlementExecuted(id, "Dispute", shares) >>

-----------------------------------------------------------------------------
(* The entrypoints.                                                        *)

Publish(events) ==
    /\ Len(stream) + Len(events) <= MaxLag
    /\ stream' = stream \o events
    /\ UNCHANGED <<index, books>>

PublishedBook ==
    \E ref \in BookingRef, traveller, host \in Address, amount \in AmountArgs,
       start_time \in StartTimeArgs :
        /\ Book(ref, traveller, host, amount, start_time)
        /\ Publish(<< BookingCreated(next_booking_id,
                        NewBooking(ref, traveller, host, amount, start_time)) >>)

PublishedUpdate(id) ==
    \E host \in Address, amount \in AmountArgs, start_time \in StartTimeArgs :
        /\ UpdateBooking(id, host, amount, start_time)
        /\ Publish(UpdateEvents(id, host, amount, start_time))

\* The escrow a settlement divides, read before the record is closed.
Escrowed(id) == booking[id].escrow_amount

PublishedCall(id) ==
    \/ PublishedUpdate(id)
    \/ \E amount \in AmountArgs :
          LockEscrow(id, amount) /\ Publish(<< EscrowLocked(id, amount) >>)
    \/ CheckIn(id) /\ Publish(<< Lifecycle("BookingCheckedIn", id) >>)
    \/ Complete(id) /\ Publish(<< Lifecycle("BookingCompleted", id) >>)
    \/ OpenDispute(id) /\ Publish(<< Lifecycle("DisputeOpened", id) >>)
    \/ ExecuteSplit(id) /\ Publish(SplitEvents(id, CompletionSplit(Escrowed(id))))
    \/ /\ CancelByTraveller(id)
       /\ Publish(TravellerCancelEvents(id,
                    TravellerRefund(Escrowed(id), booking[id].start_time, now)))
    \/ /\ CancelByHost(id)
       /\ Publish(HostCancelEvents(id, HostCancelRefund(Escrowed(id)),
                                   config.host_cancel_fee))
    \/ \E bps \in BpsArgs :
          /\ ResolveDispute(id, bps)
          /\ Publish(ResolveEvents(id, bps, BpsAmounts(Escrowed(id), bps)))

-----------------------------------------------------------------------------
(* The indexer.                                                            *)

\* What the indexer knows of a booking after event e; old is what it knew.
Entry(old, e) ==
    CASE e.type = "BookingCreated" ->
           [booking_ref |-> e.data.booking_ref, traveller |-> e.data.traveller,
            host |-> e.data.host, amount |-> e.data.amount,
            token |-> e.data.token, start_time |-> e.data.start_time,
            state |-> "Created", escrow_amount |-> 0, settled |-> FALSE]
      [] e.type = "BookingUpdated" ->
           [old EXCEPT !.host = e.data.host, !.amount = e.data.amount,
                       !.start_time = e.data.start_time]
      [] e.type = "EscrowLocked" ->
           [old EXCEPT !.state = "Escrowed", !.escrow_amount = e.data.amount]
      [] e.type = "BookingCheckedIn" -> [old EXCEPT !.state = "CheckedIn"]
      [] e.type \in {"BookingCompleted", "DisputeResolved"} ->
           [old EXCEPT !.state = "Completed"]
      [] e.type = "DisputeOpened"    -> [old EXCEPT !.state = "Disputed"]
      [] e.type = "BookingCancelled" -> [old EXCEPT !.state = "Cancelled"]
      [] e.type = "SettlementExecuted" ->
           [old EXCEPT !.escrow_amount = @ - Sum(e.data.amounts), !.settled = TRUE]
      [] OTHER -> old

\* The balances after the payments that event e stands for, about a booking
\* of which the indexer knew old.  BookingCancelled stands for none.
Booked(sums, old, e) ==
    CASE e.type = "EscrowLocked" ->
           Transfer(sums, old.traveller, Contract, e.data.amount)
      [] e.type = "SettlementExecuted" -> Push(sums, e.data.amounts, Payee(old))
      [] e.type = "HostCancellationFeePaid" ->
           Transfer(sums, e.data.host, e.data.ops, e.data.amount)
      [] OTHER -> sums

Consume ==
    LET e   == Head(stream)
        old == index[e.booking_id]
    IN  /\ stream # <<>>
        /\ index' = Put(index, e.booking_id, Entry(old, e))
        /\ books' = Booked(books, old, e)
        /\ stream' = Tail(stream)
        /\ UNCHANGED vars

EventsNext ==
    \/ PublishedBook
    \/ \E id \in DOMAIN booking : PublishedCall(id)
    \/ ((\E hash \in Wasms : Upgrade(hash)) \/ World) /\ UNCHANGED indexerVars
    \/ Consume

EventsSpec == EventsInit /\ [][EventsNext]_eventVars

-----------------------------------------------------------------------------
(* What the events are good for.                                           *)

CaughtUp == stream = <<>>

\* The events say everything about a booking that a reader of the contract
\* would learn: once the indexer has caught up, by whatever calls in whatever
\* order, its terms, its state and its escrow agree with the record.
Seen(b) ==
    [booking_ref |-> b.booking_ref, traveller |-> b.traveller, host |-> b.host,
     amount |-> b.amount, token |-> b.token, start_time |-> b.start_time,
     state |-> b.state, escrow_amount |-> b.escrow_amount, settled |-> b.settled]

IndexAgrees ==
    CaughtUp => index = [id \in DOMAIN booking |-> Seen(booking[id])]

\* The money follows from the events alone: the escrow they leave in the
\* contract is the total it accounts for, and everybody else holds what they
\* say he holds (unsolicited transfers apart, which the token reports).  So
\* the host's fee is part of no settlement, no share is announced twice, and
\* each goes to the host who was announced last (events.rs, "Settlement
\* accounting for indexers").
BooksAgree ==
    CaughtUp =>
        /\ books[Contract] = total_escrowed
        /\ \A a \in Address \ {Contract} : books[a] = balance[a]

\* A settlement is the last thing the stream ever says of a booking, so an
\* indexer may close its file: no booking is announced settled twice, and no
\* cancellation or dispute follows the settlement it led to.
SettlementIsLast ==
    \A i \in DOMAIN stream :
        LET id == stream[i].booking_id
        IN  /\ id \in DOMAIN index => ~index[id].settled
            /\ \A j \in 1 .. i - 1 :
                  stream[j].type = "SettlementExecuted" => stream[j].booking_id # id
=============================================================================
