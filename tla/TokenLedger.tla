---------------------------- MODULE TokenLedger -----------------------------
(***************************************************************************)
(* The token (a Stellar Asset Contract) as the booking contract uses it:   *)
(* balances, transfers that succeed whole or fail, recipients that cannot  *)
(* receive, and what strangers and the issuer can do to the contract's     *)
(* balance without calling it.  The token is not part of the repository;   *)
(* src/test_token.rs stands for it in the tests.                           *)
(***************************************************************************)
EXTENDS SettlementMath

CONSTANTS Address,      \* every account and contract, the booking contract too
          Contract,     \* env.current_contract_address()
          Nobody,       \* signs for no address: the issuer, or no transaction
          Donations,    \* amounts that arrive unsolicited
          Clawbacks,    \* amounts the issuer may claw back from the contract
          Refusers      \* addresses that may lose the ability to receive

ASSUME LedgerAssumption ==
    /\ Contract \in Address
    /\ Nobody \notin Address
    /\ Donations \subseteq Nat /\ Clawbacks \subseteq Nat
    /\ Refusers \subseteq Address \ {Contract}

VARIABLES balance,      \* token.balance(a) of every address
          refusing,     \* the addresses a transfer to which fails now
          signer        \* the address that authorized the last transaction

tokenVars == <<balance, refusing, signer>>

TokenTypeOK ==
    /\ balance \in [Address -> Nat]
    /\ refusing \in SUBSET Refusers
    /\ signer \in Address \cup {Nobody}

\* a.require_auth(): the transaction carries the signature of a.
RequireAuth(a) == signer' = a

\* token.transfer(from, to, amount) succeeds, and its effect on balances bal.
CanTransfer(bal, from, to, amount) == bal[from] >= amount /\ to \notin refusing

Transfer(bal, from, to, amount) ==
    LET debited == [bal EXCEPT ![from] = @ - amount]
    IN  [debited EXCEPT ![to] = @ + amount]

\* What address a receives when the shares go to the payees.
Received(shares, payee, a) ==
    Sum([r \in Roles |-> IF payee[r] = a THEN shares[r] ELSE 0])

\* The pushes out of the contract, one per role.  They are one atomic step:
\* a failing push reverts those made before it.  A zero share is not pushed.
\* (First, seeded faults: zero shares are pushed; the last push is missing.)
CanPushWithZeros(bal, shares, payee) ==
    /\ Sum(shares) <= bal[Contract]
    /\ \A r \in Roles : payee[r] \notin refusing

PushWithoutO2o(bal, shares, payee) ==
    LET pushed == [shares EXCEPT !["o2o"] = 0]
    IN  [a \in Address |-> bal[a] + Received(pushed, payee, a)
                             - IF a = Contract THEN Sum(pushed) ELSE 0]

CanPush(bal, shares, payee) ==
    /\ Sum(shares) <= bal[Contract]
    /\ \A r \in Roles : shares[r] > 0 => payee[r] \notin refusing

Push(bal, shares, payee) ==
    [a \in Address |-> bal[a] + Received(shares, payee, a)
                         - IF a = Contract THEN Sum(shares) ELSE 0]

-----------------------------------------------------------------------------
(* What happens to the contract's balance without a call to the contract.  *)

\* Anybody transfers tokens to the contract directly.
Donate(from, amount) ==
    /\ amount > 0
    /\ CanTransfer(balance, from, Contract, amount)
    /\ from # Contract
    /\ balance' = Transfer(balance, from, Contract, amount)
    /\ RequireAuth(from)
    /\ UNCHANGED refusing

\* The issuer of a clawback-enabled asset takes tokens from the contract.
Clawback(amount) ==
    /\ amount > 0
    /\ amount <= balance[Contract]
    /\ balance' = [balance EXCEPT ![Contract] = @ - amount]
    /\ signer' = Nobody
    /\ UNCHANGED refusing

\* A recipient loses its trustline or authorization, or gets it back.
SetReceiving(a) ==
    /\ refusing' = IF a \in refusing THEN refusing \ {a} ELSE refusing \cup {a}
    /\ signer' = Nobody
    /\ UNCHANGED balance

TokenNext ==
    \/ \E from \in Address, amount \in Donations : Donate(from, amount)
    \/ \E amount \in Clawbacks : Clawback(amount)
    \/ \E a \in Refusers : SetReceiving(a)
=============================================================================
