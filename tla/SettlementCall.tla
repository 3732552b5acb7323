--------------------------- MODULE SettlementCall ---------------------------
(***************************************************************************)
(* A settlement as the code runs it: the checks of the entrypoint, then    *)
(* one host call after the other, each of which writes one storage entry   *)
(* or moves tokens once (lib.rs).  StelloBooking takes all of them in one  *)
(* step.  This module shows what that step stands on: the order of the     *)
(* host calls, the amounts each of them moves, and the host that undoes    *)
(* them all when one of them fails.                                        *)
(*                                                                         *)
(* Soroban runs one transaction at a time: while a call is under way       *)
(* nobody else acts, and nobody sees what it has written so far.           *)
(***************************************************************************)
EXTENDS StelloBooking, Sequences

VARIABLE call   \* the settlement under way: of which booking, what is left
                \* to do, and what the host restores if it fails

callVars == <<call, vars>>

\* Ids start at 1: no settlement is under way.
NoCall == [id |-> 0]

Idle == call.id = 0

Saved == [booking |-> booking, total_escrowed |-> total_escrowed,
          cancel_settlement |-> cancel_settlement, balance |-> balance,
          signer |-> signer]

CallInit == Init /\ call = NoCall

-----------------------------------------------------------------------------
(* The entrypoints up to their first effect.                               *)

\* "Effects before interactions (CEI)": the record, then the total.
Effects == <<"set_booking", "decrease_total">>

CancelEffects == <<"set_booking", "set_cancel_settlement", "decrease_total">>

\* All routes push in this order; a share of zero is passed over.
Pushes == <<"traveller", "host", "ops", "review", "qa", "o2o">>

\* A cancellation by the host collects the fee before everything else.
HostCancelSteps == <<"pay_fee">> \o CancelEffects \o Pushes

\* The checks all routes make, the last ones before they touch anything.
Begin(id, closed, shares, todo) ==
    LET b == booking[id]
    IN  /\ Idle
        /\ ~b.settled
        /\ b.escrow_amount > 0
        /\ Solvent
        /\ Sum(shares) = b.escrow_amount
        /\ call' = [id |-> id, todo |-> todo, shares |-> shares, saved |-> Saved,
                    closed |-> [closed EXCEPT !.settled = TRUE, !.escrow_amount = 0]]
        /\ UNCHANGED <<storage, wasm, now, balance, refusing>>

BeginSplit(id) ==
    LET b == booking[id]
    IN  /\ RequireAuth(config.stello_wallet)
        /\ b.state = "Completed"
        /\ CompletionSplitFits(b.escrow_amount)
        /\ Begin(id, b, CompletionSplit(b.escrow_amount), Effects \o Pushes)

BeginCancelByTraveller(id) ==
    LET b == booking[id]
    IN  /\ RequireAuth(config.stello_wallet)
        /\ CanCancel(b)
        /\ TravellerRefundFits(b.escrow_amount, b.start_time, now)
        /\ Begin(id, CancelledRecord(b, "Traveller"),
                 TravellerRefund(b.escrow_amount, b.start_time, now),
                 CancelEffects \o Pushes)

BeginCancelByHost(id) ==
    LET b == booking[id]
    IN  /\ RequireAuth(b.host)
        /\ CanCancel(b)
        /\ config.host_cancel_fee > 0
        /\ Begin(id, CancelledRecord(b, "Host"), HostCancelRefund(b.escrow_amount),
                 HostCancelSteps)

BeginResolve(id, bps) ==
    LET b      == booking[id]
        shares == BpsAmounts(b.escrow_amount, bps)
    IN  /\ RequireAuth(config.stello_wallet)
        /\ b.state = "Disputed" /\ ValidTransition(b.state, "Completed")
        /\ ValidBps(bps)
        /\ BpsAmountsFits(b.escrow_amount, bps)
        /\ \A r \in Roles : shares[r] <= b.escrow_amount
        /\ Begin(id, [b EXCEPT !.state = "Completed"], shares, Effects \o Pushes)

-----------------------------------------------------------------------------
(* The host calls.                                                         *)

\* The booking as the entrypoint has read it.
Read == call.saved.booking[call.id]

\* token.transfer panics if it cannot be made.
MoveTokens(from, to, amount) ==
    /\ CanTransfer(balance, from, to, amount)
    /\ balance' = Transfer(balance, from, to, amount)

\* Seeded fault: try_transfer, and its result is not looked at.
TransferFromContractTried(to, amount) ==
    balance' = IF amount > 0 /\ CanTransfer(balance, Contract, to, amount)
               THEN Transfer(balance, Contract, to, amount) ELSE balance

TransferFromContract(to, amount) ==
    IF amount > 0 THEN MoveTokens(Contract, to, amount) ELSE balance' = balance

Does(op) ==
    \/ /\ op = "pay_fee"
       /\ MoveTokens(Read.host, config.ops_pool, config.host_cancel_fee)
       /\ UNCHANGED <<booking, cancel_settlement, total_escrowed>>
    \/ /\ op = "set_booking"
       /\ booking' = [booking EXCEPT ![call.id] = call.closed]
       /\ UNCHANGED <<cancel_settlement, total_escrowed, balance>>
    \/ /\ op = "set_cancel_settlement"
       /\ RecordCancelSettlement(call.id, call.shares)
       /\ UNCHANGED <<booking, total_escrowed, balance>>
    \/ /\ op = "decrease_total"
       /\ DecreaseTotalEscrowed(Read.escrow_amount)
       /\ UNCHANGED <<booking, cancel_settlement, balance>>
    \/ /\ op \in Roles
       /\ TransferFromContract(Payee(Read)[op], call.shares[op])
       /\ UNCHANGED <<booking, cancel_settlement, total_escrowed>>

HostCall ==
    /\ ~Idle /\ call.todo # <<>>
    /\ Does(Head(call.todo))
    /\ call' = [call EXCEPT !.todo = Tail(@)]
    /\ UNCHANGED <<config, next_booking_id, booking_ref_index, wasm, now,
                   refusing, signer>>

Return ==
    /\ ~Idle /\ call.todo = <<>>
    /\ call' = NoCall
    /\ UNCHANGED vars

\* A transfer fails, and the host undoes the whole transaction.
Fails(op) ==
    \/ /\ op = "pay_fee"
       /\ ~CanTransfer(balance, Read.host, config.ops_pool, config.host_cancel_fee)
    \/ /\ op \in Roles /\ call.shares[op] > 0
       /\ ~CanTransfer(balance, Contract, Payee(Read)[op], call.shares[op])

Revert ==
    /\ ~Idle /\ call.todo # <<>>
    /\ Fails(Head(call.todo))
    /\ booking' = call.saved.booking
    /\ total_escrowed' = call.saved.total_escrowed
    /\ cancel_settlement' = call.saved.cancel_settlement
    /\ balance' = call.saved.balance
    /\ signer' = call.saved.signer
    /\ call' = NoCall
    /\ UNCHANGED <<config, next_booking_id, booking_ref_index, wasm, now, refusing>>

-----------------------------------------------------------------------------

BeginSettlement(id) ==
    \/ BeginSplit(id)
    \/ BeginCancelByTraveller(id)
    \/ BeginCancelByHost(id)
    \/ \E bps \in BpsArgs : BeginResolve(id, bps)

\* The calls of one step, as in StelloBooking.
OneStepCall(id) ==
    \/ UpdateCall(id)
    \/ \E amount \in AmountArgs : LockEscrow(id, amount)
    \/ CheckIn(id)
    \/ Complete(id)
    \/ OpenDispute(id)

Elsewhere ==
    /\ Idle
    /\ \/ BookCall
       \/ \E id \in DOMAIN booking : OneStepCall(id)
       \/ \E hash \in Wasms : Upgrade(hash)
       \/ World
    /\ UNCHANGED call

CallNext ==
    \/ \E id \in DOMAIN booking : BeginSettlement(id)
    \/ HostCall
    \/ Return
    \/ Revert
    \/ Elsewhere

CallSpec == CallInit /\ [][CallNext]_callVars

-----------------------------------------------------------------------------
(* What the rest of the world sees: the state the call has started from,   *)
(* until it returns.                                                       *)

Seen(v, saved) == IF Idle THEN v ELSE saved

Outside == INSTANCE StelloBooking WITH
    booking           <- Seen(booking, call.saved.booking),
    total_escrowed    <- Seen(total_escrowed, call.saved.total_escrowed),
    cancel_settlement <- Seen(cancel_settlement, call.saved.cancel_settlement),
    balance           <- Seen(balance, call.saved.balance),
    signer            <- Seen(signer, call.saved.signer)

\* A settlement is one step of StelloBooking or nothing: no sequence of host
\* calls leaves the fee paid without the refund, a share pushed twice or not
\* at all, or a total that counts a booking that is paid out (lib.rs,
\* cancel_by_host: "If the fee transfer fails, the whole call reverts
\* atomically"; open_dispute: "recovery when execute_split cannot push").
CallsAreAtomic == Outside!Spec
=============================================================================
