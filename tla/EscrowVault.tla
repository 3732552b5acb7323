----------------------------- MODULE EscrowVault ----------------------------
(***************************************************************************)
(* What the booking contract promises about money, without bookings,       *)
(* parties, states or splits: a vault with one box per booking.  A box is  *)
(* filled once, with tokens that really arrive; it is emptied once, of its *)
(* whole content, which really leaves; and no other step of the contract   *)
(* touches the tokens.  Tokens nobody owes may arrive at any time and stay *)
(* where they are.                                                         *)
(***************************************************************************)
EXTENDS Integers

CONSTANT Id

VARIABLES status,   \* of every box
          held,     \* what the box holds
          owed,     \* what the vault says it holds for all boxes
          tokens    \* what the vault really has

vars == <<status, held, owed, tokens>>

Init == /\ status = [id \in Id |-> "empty"]
        /\ held = [id \in Id |-> 0]
        /\ owed = 0
        /\ tokens = 0

\* Some positive amount goes into an empty box.
Deposit(id) ==
    /\ status[id] = "empty"
    /\ status' = [status EXCEPT ![id] = "held"]
    /\ held'[id] > 0
    /\ held' = [held EXCEPT ![id] = held'[id]]
    /\ owed' = owed + held'[id]
    /\ tokens' = tokens + held'[id]

\* The whole content of a box leaves, and the box is closed for good.
Release(id) ==
    /\ status[id] = "held"
    /\ status' = [status EXCEPT ![id] = "released"]
    /\ held' = [held EXCEPT ![id] = 0]
    /\ owed' = owed - held[id]
    /\ tokens' = tokens - held[id]

\* Unsolicited tokens arrive.
Gift == /\ tokens' > tokens
        /\ UNCHANGED <<status, held, owed>>

Next == \/ \E id \in Id : Deposit(id) \/ Release(id)
        \/ Gift

Spec == Init /\ [][Next]_vars
=============================================================================
