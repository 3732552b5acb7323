--------------------------- MODULE StelloBooking ----------------------------
(***************************************************************************)
(* The booking / escrow / settlement contract (lib.rs) over its storage    *)
(* (storage.rs) and its state machine (state_machine.rs).                  *)
(*                                                                         *)
(* A contract call is one action: Soroban runs it atomically, and a call   *)
(* that returns an error or panics leaves no trace, so it is no step.  An  *)
(* action's guard is the conjunction of the checks the entrypoint makes,   *)
(* its transfers included.  The variable signer holds the address whose    *)
(* authorization the entrypoint requires.                                  *)
(*                                                                         *)
(* Left out: service_ref and created_at, which are stored and never read.  *)
(* The events are in StelloEvents, the entries' lifetimes in StorageTtl,   *)
(* and the callers in BookingClients.                                      *)
(***************************************************************************)
EXTENDS TokenLedger

CONSTANTS BookingRef,      \* the references the backend may use
          U64_MAX,         \* largest booking id (scaled down)
          Configs,         \* constructor arguments, acceptable or not
          AmountArgs,      \* amounts callers pass
          StartTimeArgs,   \* start times Stello passes
          BpsArgs,         \* allocations Stello passes to resolve_dispute
          Wasms,           \* hashes of uploaded executables
          InitialBalance,  \* balances at deployment
          LedgerTimes      \* timestamps at which a ledger may close

ASSUME BookingAssumption ==
    /\ U64_MAX \in Nat \ {0}
    /\ AmountArgs \subseteq Int /\ \A a \in AmountArgs : a <= I128_MAX
    /\ StartTimeArgs \subseteq Nat /\ LedgerTimes \subseteq Nat
    /\ BpsArgs \subseteq Shares
    /\ InitialBalance \in [Address -> Nat] /\ InitialBalance[Contract] = 0
    /\ Configs \subseteq
         [stello_wallet : Address, token : Address, ops_pool : Address,
          review_pool : Address, qa_pool : Address, o2o_pool : Address,
          host_cancel_fee : Int]

VARIABLES config,             \* DataKey::Config
          next_booking_id,    \* DataKey::NextBookingId
          total_escrowed,     \* DataKey::TotalEscrowed
          booking,            \* DataKey::Booking(id), a function of the ids used
          booking_ref_index,  \* DataKey::BookingRef(ref), of the references used
          cancel_settlement,  \* DataKey::CancelSettlement(id)
          wasm,               \* the executable of the contract
          now                 \* env.ledger().timestamp()

storage == <<config, next_booking_id, total_escrowed, booking,
             booking_ref_index, cancel_settlement>>

vars == <<storage, wasm, now, tokenVars>>

States == {"Created", "Escrowed", "CheckedIn", "Completed",
           "Cancelled", "Disputed"}

Bookings ==
    [booking_ref : BookingRef, traveller : Address, host : Address,
     amount : 1 .. I128_MAX, token : Address, start_time : Nat,
     state : States, escrow_locked : BOOLEAN, escrow_amount : 0 .. I128_MAX,
     checked_in : BOOLEAN, settled : BOOLEAN, was_cancelled : BOOLEAN,
     cancelled_by : {"None", "Traveller", "Host"}]

\* Storage set(key, value): a new entry or a new value of an old one.
Put(f, k, v) == [x \in DOMAIN f \cup {k} |-> IF x = k THEN v ELSE f[x]]

-----------------------------------------------------------------------------
(* Validation.                                                             *)

Sinks == {config.stello_wallet, config.ops_pool, config.review_pool,
          config.qa_pool, config.o2o_pool}

ValidateConfig(c) ==
    LET addrs == <<c.stello_wallet, c.token, c.ops_pool, c.review_pool,
                   c.qa_pool, c.o2o_pool>>
    IN  /\ c.host_cancel_fee > 0
        /\ \A i \in 1 .. 6 : addrs[i] # Contract
        /\ \A i, j \in 1 .. 6 : i < j => addrs[i] # addrs[j]

\* Seeded fault: the pools are not excluded.
ValidatePartiesNotSinks(traveller, host) ==
    /\ traveller # host
    /\ {traveller, host} \cap {Contract, config.token} = {}

ValidateParties(traveller, host) ==
    /\ traveller # host
    /\ \A party \in {traveller, host} :
          party \notin Sinks \cup {Contract, config.token}

\* Seeded fault: the comparison is the wrong way round.
ValidateStartTimeSwapped(start_time) == start_time < now

ValidateStartTime(start_time) == start_time > now

ValidTransition(from, to) ==
    <<from, to>> \in { <<"Created", "Escrowed">>,    <<"Escrowed", "CheckedIn">>,
                       <<"CheckedIn", "Completed">>, <<"Escrowed", "Cancelled">>,
                       <<"Escrowed", "Disputed">>,   <<"Completed", "Disputed">>,
                       <<"Disputed", "Completed">> }

\* Seeded fault: no solvency check.
SolventUnchecked == TRUE

\* require_solvency
Solvent == balance[Contract] >= total_escrowed

-----------------------------------------------------------------------------
(* The constructor, then the entrypoints that move no tokens.              *)

Init ==
    /\ config \in { c \in Configs : ValidateConfig(c) }
    /\ next_booking_id = 1
    /\ total_escrowed = 0
    /\ booking = [id \in {} |-> {}]
    /\ booking_ref_index = [ref \in {} |-> 0]
    /\ cancel_settlement = [id \in {} |-> {}]
    /\ wasm \in Wasms
    /\ now \in LedgerTimes
    /\ balance = InitialBalance
    /\ refusing = {}
    /\ signer = config.stello_wallet

NewBooking(ref, traveller, host, amount, start_time) ==
    [booking_ref |-> ref, traveller |-> traveller, host |-> host,
     amount |-> amount, token |-> config.token, start_time |-> start_time,
     state |-> "Created", escrow_locked |-> FALSE, escrow_amount |-> 0,
     checked_in |-> FALSE, settled |-> FALSE, was_cancelled |-> FALSE,
     cancelled_by |-> "None"]

\* next_booking_id, set_booking and set_booking_ref_index.  (First, a seeded
\* fault: the counter wraps round.)
AddBookingWrapping(ref, record) ==
    /\ booking' = Put(booking, next_booking_id, record)
    /\ booking_ref_index' = Put(booking_ref_index, ref, next_booking_id)
    /\ next_booking_id' = (next_booking_id + 1) % (U64_MAX + 1)
    /\ UNCHANGED <<config, total_escrowed, cancel_settlement, wasm, now,
                   balance, refusing>>

AddBooking(ref, record) ==
    /\ next_booking_id + 1 <= U64_MAX
    /\ booking' = Put(booking, next_booking_id, record)
    /\ booking_ref_index' = Put(booking_ref_index, ref, next_booking_id)
    /\ next_booking_id' = next_booking_id + 1
    /\ UNCHANGED <<config, total_escrowed, cancel_settlement, wasm, now,
                   balance, refusing>>

\* Seeded fault: a reference may be used again.
BookAgain(ref, traveller, host, amount, start_time) ==
    /\ RequireAuth(config.stello_wallet)
    /\ ValidateParties(traveller, host)
    /\ amount > 0
    /\ ValidateStartTime(start_time)
    /\ AddBooking(ref, NewBooking(ref, traveller, host, amount, start_time))

Book(ref, traveller, host, amount, start_time) ==
    /\ RequireAuth(config.stello_wallet)
    /\ ValidateParties(traveller, host)
    /\ amount > 0
    /\ ValidateStartTime(start_time)
    /\ ref \notin DOMAIN booking_ref_index
    /\ AddBooking(ref, NewBooking(ref, traveller, host, amount, start_time))

\* A call of Stello that rewrites the record of a booking and nothing else.
StelloSets(id, record) ==
    /\ RequireAuth(config.stello_wallet)
    /\ booking' = [booking EXCEPT ![id] = record]
    /\ UNCHANGED <<config, next_booking_id, total_escrowed, booking_ref_index,
                   cancel_settlement, wasm, now, balance, refusing>>

\* Seeded faults: each leaves out one check of update_booking.
UpdateAnyTime(id, host, amount, start_time) ==
    /\ ValidateParties(booking[id].traveller, host)
    /\ amount > 0
    /\ ValidateStartTime(start_time)
    /\ StelloSets(id, [booking[id] EXCEPT !.host = host, !.amount = amount,
                                          !.start_time = start_time])

UpdateAnyHost(id, host, amount, start_time) ==
    /\ booking[id].state = "Created" /\ ~booking[id].escrow_locked
    /\ amount > 0
    /\ ValidateStartTime(start_time)
    /\ StelloSets(id, [booking[id] EXCEPT !.host = host, !.amount = amount,
                                          !.start_time = start_time])

UpdateBooking(id, host, amount, start_time) ==
    /\ booking[id].state = "Created" /\ ~booking[id].escrow_locked
    /\ ValidateParties(booking[id].traveller, host)
    /\ amount > 0
    /\ ValidateStartTime(start_time)
    /\ StelloSets(id, [booking[id] EXCEPT !.host = host, !.amount = amount,
                                          !.start_time = start_time])

\* Seeded fault: any locked booking can be checked in.
CheckInAnyState(id) ==
    /\ booking[id].escrow_locked
    /\ StelloSets(id, [booking[id] EXCEPT !.state = "CheckedIn",
                                          !.checked_in = TRUE])

CheckIn(id) ==
    /\ ValidTransition(booking[id].state, "CheckedIn")
    /\ booking[id].escrow_locked
    /\ StelloSets(id, [booking[id] EXCEPT !.state = "CheckedIn",
                                          !.checked_in = TRUE])

\* Seeded fault: complete relies on the state machine alone.
CompleteByEdge(id) ==
    /\ ValidTransition(booking[id].state, "Completed")
    /\ StelloSets(id, [booking[id] EXCEPT !.state = "Completed"])

\* The edge Disputed -> Completed belongs to resolve_dispute, but the check
\* is shared: a disputed booking that was checked in passes it too.
Complete(id) ==
    /\ ValidTransition(booking[id].state, "Completed")
    /\ booking[id].escrow_locked /\ booking[id].checked_in
    /\ StelloSets(id, [booking[id] EXCEPT !.state = "Completed"])

\* Seeded fault: a completed booking cannot be disputed.
OpenDisputeEscrowed(id) ==
    /\ booking[id].state = "Escrowed"
    /\ booking[id].escrow_amount > 0
    /\ StelloSets(id, [booking[id] EXCEPT !.state = "Disputed"])

OpenDispute(id) ==
    /\ ~booking[id].settled
    /\ booking[id].state \in {"Escrowed", "Completed"}
    /\ ValidTransition(booking[id].state, "Disputed")
    /\ booking[id].escrow_amount > 0
    /\ StelloSets(id, [booking[id] EXCEPT !.state = "Disputed"])

Upgrade(new_wasm_hash) ==
    /\ RequireAuth(config.stello_wallet)
    /\ wasm' = new_wasm_hash
    /\ UNCHANGED <<storage, now, balance, refusing>>

-----------------------------------------------------------------------------
(* Funding.                                                                *)

\* Seeded faults: the total is set, not increased; it is increased without
\* a check; it is not decreased.
SetTotalEscrowed(amount) == total_escrowed' = amount

IncreaseTotalUnchecked(amount) == total_escrowed' = total_escrowed + amount

KeepTotalEscrowed(amount) == total_escrowed' = total_escrowed

\* checked_add; the checked_sub of two non-negative numbers cannot fail.
IncreaseTotalEscrowed(amount) ==
    /\ AddFits(total_escrowed, amount)
    /\ total_escrowed' = total_escrowed + amount

DecreaseTotalEscrowed(amount) == total_escrowed' = total_escrowed - amount

\* Seeded fault: the amount signed for is not compared with the booking's.
LockEscrowUncompared(id, amount) ==
    LET b == booking[id]
    IN  /\ RequireAuth(b.traveller)
        /\ b.state = "Created"
        /\ amount > 0
        /\ CanTransfer(balance, b.traveller, Contract, b.amount)
        /\ balance' = Transfer(balance, b.traveller, Contract, b.amount)
        /\ booking' = [booking EXCEPT ![id] =
                         [b EXCEPT !.state = "Escrowed", !.escrow_locked = TRUE,
                                   !.escrow_amount = b.amount]]
        /\ IncreaseTotalEscrowed(b.amount)
        /\ UNCHANGED <<config, next_booking_id, booking_ref_index,
                       cancel_settlement, wasm, now, refusing>>

LockEscrow(id, amount) ==
    LET b == booking[id]
    IN  /\ RequireAuth(b.traveller)
        /\ ~b.settled
        /\ b.state = "Created" /\ ValidTransition(b.state, "Escrowed")
        /\ ~b.escrow_locked /\ b.escrow_amount = 0
        /\ amount > 0 /\ amount = b.amount
        /\ AddFits(b.escrow_amount, amount) /\ b.escrow_amount + amount <= b.amount
        /\ b.token = config.token
        /\ CanTransfer(balance, b.traveller, Contract, amount)
        /\ balance' = Transfer(balance, b.traveller, Contract, amount)
        /\ booking' = [booking EXCEPT ![id] =
                         [b EXCEPT !.state = "Escrowed", !.escrow_locked = TRUE,
                                   !.escrow_amount = @ + amount]]
        /\ IncreaseTotalEscrowed(amount)
        /\ UNCHANGED <<config, next_booking_id, booking_ref_index,
                       cancel_settlement, wasm, now, refusing>>

-----------------------------------------------------------------------------
(* Settlement.                                                             *)

\* (First, a seeded fault: two pools are mixed up.)
PayeePoolsSwapped(b) ==
    [r \in Roles |-> CASE r = "traveller" -> b.traveller
                       [] r = "host"      -> b.host
                       [] r = "ops"       -> config.ops_pool
                       [] r = "review"    -> config.qa_pool
                       [] r = "qa"        -> config.review_pool
                       [] r = "o2o"       -> config.o2o_pool]

Payee(b) ==
    [r \in Roles |-> CASE r = "traveller" -> b.traveller
                       [] r = "host"      -> b.host
                       [] r = "ops"       -> config.ops_pool
                       [] r = "review"    -> config.review_pool
                       [] r = "qa"        -> config.qa_pool
                       [] r = "o2o"       -> config.o2o_pool]

\* The common end of every settlement: the record is closed, the total is
\* decreased by the whole escrow, and the shares are pushed out of the
\* balances bal.  closed is the record with its new state and marks.
Settle(id, closed, shares, bal) ==
    LET b == booking[id]
    IN  /\ ~b.settled
        /\ b.escrow_amount > 0
        /\ Solvent
        /\ Sum(shares) = b.escrow_amount
        /\ CanPush(bal, shares, Payee(b))
        /\ booking' = [booking EXCEPT ![id] =
                         [closed EXCEPT !.settled = TRUE, !.escrow_amount = 0]]
        /\ DecreaseTotalEscrowed(b.escrow_amount)
        /\ balance' = Push(bal, shares, Payee(b))
        /\ UNCHANGED <<config, next_booking_id, booking_ref_index, wasm, now,
                       refusing>>

ExecuteSplit(id) ==
    LET b == booking[id]
    IN  /\ RequireAuth(config.stello_wallet)
        /\ b.state = "Completed"
        /\ CompletionSplitFits(b.escrow_amount)
        /\ Settle(id, b, CompletionSplit(b.escrow_amount), balance)
        /\ UNCHANGED cancel_settlement

\* Guards and marks shared by the two cancellations.
CanCancel(b) ==
    /\ ~b.was_cancelled
    /\ b.state = "Escrowed" /\ ValidTransition(b.state, "Cancelled")

CancelledRecord(b, by) ==
    [b EXCEPT !.state = "Cancelled", !.was_cancelled = TRUE, !.cancelled_by = by]

\* set_cancel_settlement; the record keeps the three cancellation shares.
\* (First, a seeded fault: the share of operations is not recorded.)
RecordWithoutOps(id, shares) ==
    cancel_settlement' = Put(cancel_settlement, id,
        [traveller_amount |-> shares["traveller"],
         host_amount |-> shares["host"], ops_amount |-> 0])

RecordCancelSettlement(id, shares) ==
    cancel_settlement' = Put(cancel_settlement, id,
        [traveller_amount |-> shares["traveller"],
         host_amount |-> shares["host"], ops_amount |-> shares["ops"]])

CancelByTraveller(id) ==
    LET b      == booking[id]
        shares == TravellerRefund(b.escrow_amount, b.start_time, now)
    IN  /\ RequireAuth(config.stello_wallet)
        /\ CanCancel(b)
        /\ TravellerRefundFits(b.escrow_amount, b.start_time, now)
        /\ Settle(id, CancelledRecord(b, "Traveller"), shares, balance)
        /\ RecordCancelSettlement(id, shares)

\* Balances once the fee is paid; as a seeded fault, paid by the contract.
FeeFromEscrow(b) ==
    Transfer(balance, Contract, config.ops_pool, config.host_cancel_fee)

FeePaid(b) == Transfer(balance, b.host, config.ops_pool, config.host_cancel_fee)

\* The fee goes from the host's wallet to operations before the escrow is
\* pushed back whole; a host that cannot pay it cannot cancel.
HostCancels(id) ==
    LET b      == booking[id]
        fee    == config.host_cancel_fee
        shares == HostCancelRefund(b.escrow_amount)
    IN  /\ CanCancel(b)
        /\ fee > 0
        /\ CanTransfer(balance, b.host, config.ops_pool, fee)
        /\ Settle(id, CancelledRecord(b, "Host"), shares, FeePaid(b))
        /\ RecordCancelSettlement(id, shares)

\* Seeded fault: Stello may cancel in the host's name.
CancelByHostForStello(id) ==
    RequireAuth(config.stello_wallet) /\ HostCancels(id)

CancelByHost(id) == RequireAuth(booking[id].host) /\ HostCancels(id)

ResolveDispute(id, bps) ==
    LET b      == booking[id]
        shares == BpsAmounts(b.escrow_amount, bps)
    IN  /\ RequireAuth(config.stello_wallet)
        /\ b.state = "Disputed" /\ ValidTransition(b.state, "Completed")
        /\ ValidBps(bps)
        /\ BpsAmountsFits(b.escrow_amount, bps)
        /\ \A r \in Roles : shares[r] <= b.escrow_amount
        /\ Settle(id, [b EXCEPT !.state = "Completed"], shares, balance)
        /\ UNCHANGED cancel_settlement

-----------------------------------------------------------------------------
(* The environment, and the specification.                                 *)

\* A ledger closes at a later timestamp.
CloseLedger ==
    /\ now' \in { t \in LedgerTimes : t > now }
    /\ UNCHANGED <<storage, wasm, balance, refusing, signer>>

World == CloseLedger \/ (TokenNext /\ UNCHANGED <<storage, wasm, now>>)

BookCall ==
    \E ref \in BookingRef, traveller, host \in Address, amount \in AmountArgs,
       start_time \in StartTimeArgs : Book(ref, traveller, host, amount, start_time)

UpdateCall(id) ==
    \E host \in Address, amount \in AmountArgs, start_time \in StartTimeArgs :
        UpdateBooking(id, host, amount, start_time)

\* The calls on an existing booking (require_booking fails on any other).
BookingCall(id) ==
    \/ UpdateCall(id)
    \/ \E amount \in AmountArgs : LockEscrow(id, amount)
    \/ CheckIn(id)
    \/ Complete(id)
    \/ ExecuteSplit(id)
    \/ CancelByTraveller(id)
    \/ CancelByHost(id)
    \/ OpenDispute(id)
    \/ \E bps \in BpsArgs : ResolveDispute(id, bps)

Next ==
    \/ BookCall
    \/ \E id \in DOMAIN booking : BookingCall(id)
    \/ \E hash \in Wasms : Upgrade(hash)
    \/ World

Spec == Init /\ [][Next]_vars

-----------------------------------------------------------------------------
(* Invariants.                                                             *)

\* Every stored value has the type the Rust code declares, amounts are
\* positive from creation on, and the escrow total fits an i128.
TypeOK ==
    /\ config \in Configs /\ ValidateConfig(config)
    /\ next_booking_id \in 1 .. U64_MAX
    /\ total_escrowed \in Int /\ total_escrowed <= I128_MAX
    /\ DOMAIN booking \subseteq 1 .. U64_MAX
    /\ \A id \in DOMAIN booking : booking[id] \in Bookings
    /\ DOMAIN booking_ref_index \subseteq BookingRef
    /\ \A ref \in DOMAIN booking_ref_index : booking_ref_index[ref] \in 1 .. U64_MAX
    /\ DOMAIN cancel_settlement \subseteq DOMAIN booking
    /\ \A id \in DOMAIN cancel_settlement :
         cancel_settlement[id] \in
           [traveller_amount : Nat, host_amount : Nat, ops_amount : Nat]
    /\ wasm \in Wasms
    /\ now \in LedgerTimes
    /\ TokenTypeOK

\* Ids are dense and the index is the inverse of the records' references:
\* a retried book call can neither create a second booking for a reference
\* nor orphan the first (lib.rs: "idempotency").
RefIndexSound ==
    /\ DOMAIN booking = 1 .. (next_booking_id - 1)
    /\ \A id \in DOMAIN booking :
         /\ booking[id].booking_ref \in DOMAIN booking_ref_index
         /\ booking_ref_index[booking[id].booking_ref] = id
    /\ \A ref \in DOMAIN booking_ref_index :
         /\ booking_ref_index[ref] \in DOMAIN booking
         /\ booking[booking_ref_index[ref]].booking_ref = ref

\* The flags of a record, its state and its escrow always tell one story,
\* by whatever route it got there: escrow is held exactly from the lock to
\* the settlement, and is then the agreed amount; only a locked booking is
\* settled; a cancelled booking is settled; a booking that awaits its split
\* was checked in, and a check-in rules a cancellation out.
Consistent(b) ==
    /\ b.escrow_amount = IF b.escrow_locked /\ ~b.settled THEN b.amount ELSE 0
    /\ b.escrow_locked <=> b.state # "Created"
    /\ b.settled => b.state \in {"Completed", "Cancelled"}
    /\ b.state = "Cancelled" <=> b.was_cancelled
    /\ b.was_cancelled => b.settled /\ ~b.checked_in
    /\ b.was_cancelled <=> b.cancelled_by # "None"
    /\ b.state \in {"Created", "Escrowed"} => ~b.checked_in
    /\ b.state = "CheckedIn" => b.checked_in
    /\ b.state = "Completed" /\ ~b.settled => b.checked_in
    /\ b.token = config.token

LifecycleConsistent == \A id \in DOMAIN booking : Consistent(booking[id])

\* The parties of every booking are different addresses that can be told
\* from the pools, from Stello, from the token and from the contract.
PartiesDistinct ==
    \A id \in DOMAIN booking :
        ValidateParties(booking[id].traveller, booking[id].host)

\* The escrow the contract accounts for is the sum of what its bookings
\* hold: no path of any booking's life forgets or repeats a decrease.
EscrowOf(id) == IF id \in DOMAIN booking THEN booking[id].escrow_amount ELSE 0

EscrowUpTo[n \in 0 .. U64_MAX] ==
    IF n = 0 THEN 0 ELSE EscrowUpTo[n - 1] + EscrowOf(n)

EscrowAccounted == total_escrowed = EscrowUpTo[U64_MAX]

\* A cancellation record exists for exactly the cancelled bookings, and
\* says where the whole agreed amount went.
CancelSettlementSound ==
    /\ DOMAIN cancel_settlement =
         { id \in DOMAIN booking : booking[id].was_cancelled }
    /\ \A id \in DOMAIN cancel_settlement :
         LET c == cancel_settlement[id]
         IN  /\ c.traveller_amount + c.host_amount + c.ops_amount
                  = booking[id].amount
             /\ booking[id].cancelled_by = "Host" =>
                  c.traveller_amount = booking[id].amount

\* While nobody claws tokens back, the contract owns at least the escrow it
\* accounts for: Insolvent is never the reason a settlement fails.
AlwaysSolvent == Solvent

\* No escrow is ever stuck (lib.rs, execute_split: "Recovery: open_dispute
\* then resolve_dispute").  Whatever recipients refuse, a booking that holds
\* escrow has a call that brings it nearer to Disputed, and a disputed one
\* can be settled by some allocation as long as one payee can receive.
Recoverable ==
    \A id \in DOMAIN booking : booking[id].escrow_amount > 0 =>
        LET b == booking[id]
        IN  \/ b.state \in {"Escrowed", "Completed"} /\ ENABLED OpenDispute(id)
            \/ b.state = "CheckedIn" /\ ENABLED Complete(id)
            \/ /\ b.state = "Disputed"
               /\ Solvent /\ (\E r \in Roles : Payee(b)[r] \notin refusing) =>
                    \E bps \in BpsArgs : ENABLED ResolveDispute(id, bps)

-----------------------------------------------------------------------------
(* What a step may never do.                                               *)

Unescrowed == balance[Contract] - total_escrowed

\* From the moment the traveller has paid, nobody can change the deal he
\* paid for: the parties, the amount, the token, or the start time that
\* decides his refund (lib.rs, update_booking).
TermsOf(b) == <<b.booking_ref, b.traveller, b.host, b.amount, b.token, b.start_time>>

TermsFrozen ==
    [][ \A id \in DOMAIN booking : booking[id].escrow_locked =>
            /\ id \in DOMAIN booking'
            /\ TermsOf(booking'[id]) = TermsOf(booking[id])
            /\ booking'[id].escrow_locked ]_vars

\* A settled booking is over: no later call, in any order, changes its
\* record or its cancellation record again.
SettledForever ==
    [][ \A id \in DOMAIN booking : booking[id].settled =>
            /\ id \in DOMAIN booking' /\ booking'[id] = booking[id]
            /\ id \in DOMAIN cancel_settlement =>
                 /\ id \in DOMAIN cancel_settlement'
                 /\ cancel_settlement'[id] = cancel_settlement[id] ]_vars

\* A call on a booking moves exactly the escrow it accounts for.  Tokens
\* that arrived unsolicited are never paid out and never counted as escrow
\* (lib.rs, get_total_escrowed: "excludes unsolicited token transfers").
SurplusUntouched == [][ booking' # booking => Unescrowed' = Unescrowed ]_vars

\* Nobody's own tokens move without his signature, and then only by the
\* amount of a booking he funds or by the host's cancellation fee.
OwnConsent ==
    [][ \A a \in Address \ {Contract} : balance'[a] < balance[a] =>
            /\ signer' = a
            /\ booking' # booking =>
                 balance[a] - balance'[a] \in
                   {config.host_cancel_fee} \cup
                   { booking[id].amount : id \in DOMAIN booking } ]_vars

\* The record kept of a cancellation, which the backend reads later, is what
\* each party really received in that call; besides it only the fee moved.
Gain(a) == balance'[a] - balance[a]

PaidAsRecorded ==
    [][ \A id \in DOMAIN cancel_settlement' \ DOMAIN cancel_settlement :
          LET b   == booking[id]
              c   == cancel_settlement'[id]
              fee == IF booking'[id].cancelled_by = "Host"
                     THEN config.host_cancel_fee ELSE 0
          IN  /\ Gain(b.traveller) = c.traveller_amount
              /\ Gain(b.host) = c.host_amount - fee
              /\ Gain(config.ops_pool) = c.ops_amount + fee ]_vars

\* Of a completed booking each pool gets its percentage of what the
\* traveller paid, rounded down, and the host all the rest, by whatever way
\* the booking was completed (lib.rs, execute_split: "80/10/5/3/2").
Percent(amount, n) == (amount * n) \div 100

SplitNow(id) ==
    /\ booking[id].state = "Completed" /\ ~booking[id].settled
    /\ booking'[id].settled

SplitAsPromised ==
    [][ \A id \in DOMAIN booking : SplitNow(id) =>
          LET b      == booking[id]
              Pct(n) == Percent(b.amount, n)
          IN  /\ Gain(config.ops_pool) = Pct(10)
              /\ Gain(config.review_pool) = Pct(5)
              /\ Gain(config.qa_pool) = Pct(3)
              /\ Gain(config.o2o_pool) = Pct(2)
              /\ Gain(b.host) = b.amount - Pct(10) - Pct(5) - Pct(3) - Pct(2)
              /\ Gain(b.traveller) = 0 ]_vars

\* Even after a clawback no booking is paid out of another booking's
\* escrow: what a settlement leaves behind still covers every other one.
NeverPaidFromOthers ==
    [][ booking' # booking /\ balance'[Contract] < balance[Contract] =>
            balance'[Contract] >= total_escrowed' ]_vars

\* How far a booking has come: booked, funded, stayed in, over, settled.
Stage(b) ==
    IF b.settled THEN 4
    ELSE IF b.state \in {"Completed", "Disputed"} THEN 3
    ELSE IF b.checked_in THEN 2
    ELSE IF b.escrow_locked THEN 1 ELSE 0

\* A booking's life goes one way, but for one loop: after the stay, Completed
\* and Disputed may follow each other any number of times.  So a dispute
\* opened instead of the stay ends only by being settled.
OnlyDisputesLoop ==
    [][ \A id \in DOMAIN booking : booking'[id].state # booking[id].state =>
          \/ Stage(booking'[id]) > Stage(booking[id])
          \/ /\ booking[id].checked_in /\ Stage(booking'[id]) = 3
             /\ {booking[id].state, booking'[id].state} = {"Completed", "Disputed"} ]_vars

\* The state machine's header: "Escrowed -> Disputed -> Completed (dispute
\* resolve settles)", and complete's: "CheckedIn -> Completed".  A dispute
\* would then end only by being settled.
DisputeEndsSettled ==
    [][ \A id \in DOMAIN booking :
          booking[id].state = "Disputed" /\ booking'[id].state # "Disputed" =>
              booking'[id].settled ]_vars

-----------------------------------------------------------------------------
(* What eventually happens, if Stello does its part.                       *)

\* Nobody is obliged to call, and the code makes nothing happen by itself.
\* Stello, who alone may complete, dispute and resolve, is assumed to do so
\* while it can, and to insist on resolving: complete can take a dispute away
\* between two attempts, so weak fairness would not do.
StelloResolves(id) ==
    id \in DOMAIN booking /\ \E bps \in BpsArgs : ResolveDispute(id, bps)

StelloPersists ==
    \A id \in 1 .. U64_MAX :
        /\ WF_vars(id \in DOMAIN booking /\ OpenDispute(id))
        /\ WF_vars(id \in DOMAIN booking /\ Complete(id))
        /\ SF_vars(StelloResolves(id))

FairSpec == Spec /\ StelloPersists

\* Every escrow is released in the end, whichever recipients stop receiving
\* and however often, as long as one of them never does: the recovery path
\* of execute_split leads out of every state and out of every loop.
EveryEscrowReleased ==
    \A id \in 1 .. U64_MAX :
        (id \in DOMAIN booking /\ booking[id].escrow_locked)
            ~> (id \in DOMAIN booking /\ booking[id].settled)

-----------------------------------------------------------------------------
(* The contract implements the vault.                                      *)

BoxStatus(id) ==
    IF id \notin DOMAIN booking \/ ~booking[id].escrow_locked THEN "empty"
    ELSE IF booking[id].settled THEN "released" ELSE "held"

Vault == INSTANCE EscrowVault WITH
    Id     <- 1 .. U64_MAX,
    status <- [id \in 1 .. U64_MAX |-> BoxStatus(id)],
    held   <- [id \in 1 .. U64_MAX |-> EscrowOf(id)],
    owed   <- total_escrowed,
    tokens <- balance[Contract]

\* Every behaviour without clawbacks is a behaviour of the vault.
ImplementsVault == Vault!Spec
=============================================================================
