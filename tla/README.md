# Formal model of the Stello booking contract

TLA+ models, TLC runs and TLAPS proofs for `StelloBookingContract`, the Soroban
contract under `src/src/`. A booking is created by the Stello backend, funded by
its traveller, checked in, completed and then settled: the escrow is pushed to
the parties at once, by one of four routes. All bookings share one token
balance, the contract's own.

How to run, in this directory:

    tlc -workers 2 -config MCAccounting.cfg MCStelloBooking.tla    # any run below
    tlapm StelloBookingProofs.tla                                  # or another *Proofs module

## 1. Inventory

| Component | Source | State it keeps | Operations | Modelled in |
|---|---|---|---|---|
| Booking lifecycle and escrow | `lib.rs` | (in storage) | `__constructor`, `book`, `update_booking`, `lock_escrow`, `check_in`, `complete`, `execute_split`, `cancel_by_traveller`, `cancel_by_host`, `open_dispute`, `resolve_dispute`, `upgrade` | `StelloBooking`; the settlements also in `SettlementCall` |
| State machine | `state_machine.rs` | none | `validate_transition`, `is_terminal` (tests only) | `StelloBooking!ValidTransition` |
| Settlement arithmetic | `split.rs`, `refund.rs`, constants of `types.rs` | none | `bps_floor`, `compute_completion_split`, `compute_bps_amounts`, `compute_refund` | `SettlementMath` |
| Storage, values | `storage.rs` | `Config`, `NextBookingId`, `TotalEscrowed`; `Booking(id)`, `BookingRef(ref)`, `CancelSettlement(id)` | get / set / increase / decrease | variables of `StelloBooking` |
| Storage, lifetimes | `storage.rs` | TTL of the instance and of each entry | extend on write (and on `require_*` reads) | `StorageTtl` |
| Events | `events.rs`, `lib.rs` | none (a log outside) | ten event types | `StelloEvents`, with an indexer |
| Token | outside; `test_token.rs` in tests | balances, who can receive | transfer, clawback, authorization | `TokenLedger` (external) |
| Clients | outside; retries and reads as `lib.rs` and the README expect them | signed transactions, what was read | retry `book`, sign `lock_escrow`, quote a refund | `BookingClients` (external) |
| Release pipeline | `.github/workflows/deploy-testnet.yml` | contract id, snapshot before the upgrade | deploy, upgrade, post-checks, publish | `ReleasePipeline` |
| Getters, error codes | `lib.rs`, `errors.rs` | none | reads, and the errors of `book` | in `BookingClients`, as far as clients depend on them |
| CI, tests | `.github`, `test.rs` | none | | not modelled: they keep no state |

**Interactions.** A transaction invokes one entrypoint. The entrypoint reads
storage, asks the host for the authorization of *one* party (Stello, the
booking's traveller, or the booking's host), writes storage, and calls the
token zero to six times. The host makes the invocation atomic: an error or a
panic anywhere, in a token call too, undoes everything (`SettlementCall` has this
host call by host call; the other modules take an invocation as one step). Concurrency is
therefore the *order* in which calls of Stello, travellers and hosts land in
ledgers, with token events and the passing of time between them.

**What is hard.** Four settlement routes leave from three states, and the state
graph has a cycle (`Completed -> Disputed -> Completed`), so *no double
settlement* depends on flags and not on the graph. `total_escrowed` is a sum
maintained by hand in five places. The solvency check reads a balance that
strangers can raise and the issuer can lower. A push can fail because its
recipient cannot receive, and one recipient then blocks every route that pays
it. The refund depends on the time of execution, not of signature. The
arithmetic must be exact to one unit for every `i128`. `PROJECT.json` lists
each hazard at its line, with the property that covers it.

**Correctness, per component.** *Lifecycle*: the record's flags agree with its
state by every route; the funded terms never change; a settled booking is over;
references are unique. *Escrow*: the total is the sum of the bookings' escrows,
is covered by the balance, and one booking never pays for another. *Arithmetic*:
floors are exact, nothing overflows, every unit is paid, the dust goes where the
header says. *Token use*: only the signer's own tokens move, by the amount he
agreed to. *Recovery*: no escrow can get stuck. *Events*: they say everything, and
say it once. *Lifetimes*: what is used is not archived, and an index not before
its booking. *Clients*: a retry never books twice or misleads, and a late
transaction does what was signed or nothing. *Pipeline*: what is released is what
runs, and has kept the configuration and the total, as far as its checks can see: the
Stello wallet may upgrade by hand after them, and `Booking` records are not compared.

## 2. Modules

    SettlementMath ----------> TokenLedger ----------> StelloBooking ==implements==> EscrowVault
       |      \                                          |       \
    MCSettlementMath  SettlementMathProofs      MCStelloBooking   StelloBookingProofs --> EscrowProofs
        \____________/
     MCSettlementMathProofs

    StelloBooking <-- SettlementCall  (the settlements, host call by host call)  MCSettlementCall
    StelloBooking --> StelloEvents    (+ the event stream and an indexer)        MCStelloEvents, StelloEventsProofs
    StelloBooking --> StorageTtl      (+ the lifetime of each entry)             MCStorageTtl, StorageTtlProofs
    StelloBooking --> BookingClients  (+ transactions in flight and a backend)   MCBookingClients, BookingClientsProofs
    ReleasePipeline                   (the workflow; contracts as it sees them)  MCReleasePipeline, ReleasePipelineProofs

* **`SettlementMath`**: pure operators. `split.rs` and `refund.rs` contain the
  same computation three times (floor every share, give the rest to one role),
  here `Allocate(amount, bps, dust)`. A Rust `Result` is a value `X` and a predicate
  `XFits` (no checked operation overflows and no inner check fails); the
  overflow tests are written without forming a number that would not fit.
* **`TokenLedger`**: the token as this contract meets it. `Transfer`,
  `Push` (the up to six pushes of one settlement, in one step; that a settlement is one
  step is what `SettlementCall` is about; a zero share is not pushed), and what happens without a
  call of the contract: `Donate`, `Clawback`, `SetReceiving` (a trustline or an
  authorization is lost or regained). External: `src/` has only a test double.
* **`StelloBooking`**: one action per entrypoint. The guard is the conjunction of
  the entrypoint's checks in the code's order, the final transfers' conditions
  included; a failing call leaves no trace and is no step. `require_auth` is the
  variable `signer`: the address whose signature the transaction carries.
  `Settle` is the common tail of the four settlements. The storage keys are
  variables; a key map is a function whose domain is the set of keys present.
* **`EscrowVault`**: what the contract promises about money, in 50 lines and
  without bookings: one box per id, filled once with tokens that really arrive,
  emptied once and wholly, and nothing else moves the tokens except gifts, which
  stay. `StelloBooking` implements it with the mapping at the end of its module
  (a box is `held` from the lock to the settlement).
* **`SettlementCall`**: a settlement as the code runs it. `BeginSplit`,
  `BeginCancelByTraveller`, `BeginCancelByHost` and `BeginResolve` are the entrypoints up to
  their first effect; then each `HostCall` writes one storage entry or moves tokens
  once, in the code's order. `Return` ends the call; a transfer that fails is `Revert`, which
  restores what the host saved. The module implements `StelloBooking`: what
  the outside sees is the state before the call until the call returns.
* **`StelloEvents`**: every action of `StelloBooking` together with the events the
  entrypoint publishes, in its order, appended to `stream`. The indexer takes one
  event at a time (`Consume`), arbitrarily late, never reads the contract, and
  follows the header of `events.rs`: `SettlementExecuted` is money,
  `HostCancellationFeePaid` is other money, `BookingCancelled` is none.
* **`StorageTtl`**: every action of `StelloBooking` together with the lifetimes it
  extends, in ledgers. `Age` is a ledger in which the contract is not called; at
  zero an entry is archived, and the call that needs it next restores it with the
  network's minimum before the code extends it. `idle` is a history variable.
* **`BookingClients`**: transactions are signed (`SignLock`, `SignCancel`,
  `SubmitBook`) and executed by separate steps, with everybody's calls between
  them. A transaction stays in flight until it expires, so executing it twice is
  the duplicate a retry sends. `BookError` is the error `book` returns, by the
  order of its checks: the duplicate check is the last one.
* **`ReleasePipeline`**: one action per read or write of the chain by the job (the
  snapshot reads the configuration and the total separately, and so do the checks
  after the upgrade), runs of several tags and their re-runs in one concurrency
  group, any step failing, the answer to an on-chain transaction lost after it took
  effect, the operator editing the environment, and users calling the contract at any
  moment. `ManualUpgrade` is the CLI upgrade of the repository's `README.md:60-77`: the
  contract's wallet may install any code, at any moment, outside the concurrency group.
  Two marks of a job are history, which its steps never read: `untouched` (no user
  has called since the snapshot) and `by_hand` (the step before which the wallet has last
  upgraded by hand, if it has since the job read the configuration).
* **`MC*`**: instances for TLC. **`*Proofs`**: theorems for TLAPS.

| Code | Model |
|---|---|
| `require_stello(&config)`, `booking.traveller.require_auth()`, `booking.host.require_auth()` | `RequireAuth(config.stello_wallet)`, `RequireAuth(b.traveller)`, `RequireAuth(booking[id].host)` |
| `require_booking` | `\E id \in DOMAIN booking` in `Next` |
| `next_booking_id` + `set_booking` + `set_booking_ref_index` | `AddBooking` |
| `validate_config`, `validate_parties`, `validate_start_time`, `validate_transition`, `require_solvency` | the operators of the same names (`Solvent`) |
| `increase_total_escrowed`, `decrease_total_escrowed` | `IncreaseTotalEscrowed`, `DecreaseTotalEscrowed` |
| `cancel_by_host`: fee, then refund | `FeePaid` gives the balances from which `Settle` pushes |
| `env.ledger().timestamp()` | `now`, advanced by `CloseLedger` |
| `X { .. }.publish(&env)` | `Publish(<< X(..) >>)`; the fields of `X` are those of `events.rs` without `service_ref` and timestamps |
| `extend_ttl(key, threshold, extend_to)` | `Extended(remaining, threshold, extend_to)` |
| `require_booking`, `set_booking` (lifetimes) | `BumpBookingAndRefTtl`, `BumpInstanceTtl` |
| `concurrency: group, cancel-in-progress: false` | `Enqueue` (a waiting run is superseded), `Start` (waits for the running one) |
| `steps.mode`, `OLD_TOTAL_ESCROWED`, `pre-upgrade-config.json` | `job[t].mode`, `.old_total`, `.old_config` |
| `upgrade()` of the contract the workflow sees: `require_config`, `require_stello` | `Authorizes` (a contract that has lost its configuration cannot be upgraded again), `Replaced` |
| `transfer_from_contract`, `token_client.transfer(&booking.host, ..)` (`SettlementCall`) | `TransferFromContract`, `MoveTokens` |
| `Config.host_cancel_fee` etc. | `config`; the initial states are those of the arguments `ValidateConfig` accepts |

**Abstractions.** Addresses and references are opaque values. `service_ref` and
`created_at` are stored and never read by the code, so they are left out, as is
the `booking_id` field of a record (it is the key). Which error a rejected call
returns is modelled for `book` only, because a client acts on it. In
`StelloBooking` an upgrade changes `wasm` and keeps storage; the new code is assumed
to be this code. `ReleasePipeline` is where a new version may lose what was stored.
Its contracts are what the workflow reads of them: the code, the configuration
(the signer's address and the rest), the total, and what the users really hold; not the
`Booking` records, which the workflow does not look at. The
checks of `resolve_dispute` and `lock_escrow` that repeat each other are kept
(each is a conjunct) even where one implies another.

Definitions whose comment begins "Seeded fault" are not part of the model and
nothing uses them. Each states a plausible mistake in the definition it stands
beside (a dropped check, a swapped recipient, a missing update); putting it in
that definition's place makes the corresponding run fail, which shows that the
property is about that code. `PROJECT.json` pairs them under `mutants`.

## 3. Runs

| Run | Question | Properties | Distinct states |
|---|---|---|---|
| `settlement_math` (`MCSettlementMath.cfg`) | Is the arithmetic exact and total? | `FloorIsExact`, `NoMathError`, `WholeAmountPaid`, `DustDocumented`, `RefundShrinks` | 14 751 |
| `accounting` (`MCAccounting.cfg`) | Is every unit accounted for, in every interleaving of two bookings? | `EscrowAccounted`, `AlwaysSolvent`, `CancelSettlementSound`, `SurplusUntouched`, `OwnConsent`, `PaidAsRecorded`, `SplitAsPromised`, `ImplementsVault` | 32 252 |
| `lifecycle` (`MCLifecycle.cfg`) | Do records stay consistent while terms change? | `TypeOK`, `RefIndexSound`, `LifecycleConsistent`, `PartiesDistinct`, `TermsFrozen`, `SettledForever`, `OnlyDisputesLoop` | 47 016 |
| `recovery` (`MCSettlementCall.cfg`) | When recipients refuse: what does a settlement leave behind that fails on the way, and is there always a way out for the escrow? | `Recoverable`, `CallsAreAtomic` | 154 304 |
| `insolvency` (`MCInsolvency.cfg`) | After a clawback, who pays? | `NeverPaidFromOthers` | 211 171 |
| `release` (`MCRelease.cfg`) | Does every escrow leave in the end? | `EveryEscrowReleased` | 44 240 |
| `events` (`MCEvents.cfg`) | Can an indexer rebuild everything from the events? | `IndexAgrees`, `BooksAgree`, `SettlementIsLast` | 110 202 |
| `ttl` (`MCTtl.cfg`) | What can be archived, and when? | `TtlTypeOK`, `RefLivesWithBooking`, `KeptAliveByUse`, `InstanceKeepsUp` | 248 238 |
| `clients` (`MCClients.cfg`) | What can a client rely on that is late, repeats itself, or is not answered? | `KnownRight`, `GivenUpForGood`, `PaidAsSigned`, `QuoteKept`, `RequestsEnd` | 29 323 |
| `pipeline` (`MCPipeline.cfg`) | Is what is released what runs, and has it kept the state? | `LossesAreOwn`, `ReleasedCodeIsLive`, `ReleaseKeepsState` | 3 831 744 |
| `pipeline_ends` (`MCPipelineEnds.cfg`) | Does every tag come to an end? | `TagsEnd` | 143 838 |
| `dispute_ends_settled` (`MCDispute.cfg`) | Does a dispute end only by being settled? | `DisputeEndsSettled` (violated) | |

What they show, beyond the one-line answers:

* *Recovery* is a property of the reachable states: wherever the booking is, the
  next call towards `resolve_dispute` is enabled (`open_dispute`, or `complete`
  for a checked-in booking, which can then be disputed), and in `Disputed` some
  allocation succeeds as long as *one* of the six payees can receive. It depends
  on zero shares not being pushed (the mutant pushes them). Note that the dust of
  a dispute allocation goes to the traveller even when his share is 0 bps, so
  against a traveller who cannot receive the allocation must leave no dust; all
  to one role leaves none, which is why the run uses those allocations.
* *Insolvency*: `require_solvency` compares the whole balance with the whole
  total, so after a clawback every settlement stops until somebody tops the
  contract up, rather than the first ones being paid out of the last ones'
  escrow. `lock_escrow` makes no solvency check: a traveller can still fund an
  insolvent contract. The property therefore speaks of payouts only.
* *Accounting*: a donation can hide a later shortage from the solvency check but
  is never paid out while nobody claws back: `balance - total_escrowed` is
  unchanged by every call. `PaidAsRecorded` compares two separate computations, the
  shares `set_cancel_settlement` writes and the pushes that move tokens; with
  `CancelSettlementSound` it says that a host's cancellation leaves the traveller whole;
  `SplitAsPromised` states the split in the percentages the documents promise,
  though the code divides basis points by quotient and remainder and gives the rest
  to the host.
* *Atomic calls* (`recovery`): the other runs take a settlement as one step, and this one shows
  what that step stands on. Recipients refuse, a host cannot pay the fee, and the
  issuer claws back, so every transfer of every route fails somewhere, after writes and
  transfers that had succeeded; what remains is a step of `StelloBooking` or nothing. It
  depends on each transfer's failure failing the call: the mutant, which uses
  `try_transfer` and goes on, leaves a share in the contract. One direction is
  shown, that every completed call is a step of `StelloBooking`; that the host
  restores what it saved is assumed. One booking is enough, for while a call is under
  way nobody else acts.
* *Arithmetic*: `FloorIsExact` holds up to the largest `i128`, where the product itself does
  not fit; the comparison is made in two digits to base 100 000 (`Wide`).
* *Lifecycle*: `OnlyDisputesLoop` bounds the finding below: the only way back is
  between `Completed` and `Disputed`, and only for a booking that was checked
  in, so a dispute opened instead of the stay does end by being settled.
* *Release*: `Recoverable` says a way out exists, `EveryEscrowReleased` that it is
  taken. Two recipients stop and resume receiving at will, so a settlement may be
  refused as often as they like; the escrow still leaves, because a dispute can
  be opened in every funded state but `CheckedIn`, from which `complete` leads on.
* *Events*: the fee of a host's cancellation and the settlement it accompanies are
  separate payments to the same pool, and `BooksAgree` tells them apart; in
  `SettlementIsLast` the order in which a call publishes matters, since the
  indexer may stop between two events of one call.
* *Lifetimes*: `RefLivesWithBooking` is an equality: no sequence of calls, idle times and
  restorations lets the index of a booking go before the booking. `InstanceKeepsUp`
  bounds how much a booking can outlive the instance that carries its total.
* *Clients*: a retry of a booked request may be answered `InvalidStartTime` instead of
  `DuplicateBookingRef`, since the reference is checked last; a backend that
  then asks by reference (as modelled) still ends with the right id, and giving up
  is final because no error of `book` turns into success later. `RequestsEnd` would
  fail if a duplicate were not refused with an error. A lock binds the
  amount and nothing else: host and start time may have changed since the
  traveller looked, and nothing in the code prevents it.
* *Pipeline*: the wallet's upgrades by hand are outside the concurrency group, and the
  properties say how far the job's checks reach in spite of them. One that lands before a
  check is found out by it: other code fails the hash verification, a lost configuration
  or total its comparison. One that lands after it is not, so `ReleasedCodeIsLive`
  excepts the moment between the hash verification and the publication, and
  `ReleaseKeepsState` the moments after the comparison concerned; `LossesAreOwn` blames
  an upgrade only if the wallet has been quiet since the snapshot. These exceptions are
  real: without any one of them TLC finds a violation.
  `ReleaseKeepsState` says of the total "if no user was active
  meanwhile": a version that loses one unit while a user pays one in passes the
  comparison, since only two numbers are compared. Conversely a user's lock or settlement
  between snapshot and comparison makes the job refuse a version that has kept
  everything, as the workflow demands an unchanged total. `LossesAreOwn` is what makes the
  comparison mean anything: no other job and no edit of the environment
  comes between the snapshot and the check.

**Finding** (`dispute_ends_settled`). `validate_transition` has one edge
`Disputed -> Completed`, meant for `resolve_dispute`; `complete` uses the same
table and asks only that the escrow is locked and that the booking was checked
in. So `check_in, complete, open_dispute, complete` takes a disputed booking back
to `Completed` unresolved and unsettled, and `execute_split` may pay it as if
nobody had disputed. The documents say `complete` is `CheckedIn -> Completed`
(`lib.rs:331`) and that `Disputed -> Completed` settles (`state_machine.rs:6`).
All of these calls are Stello's own, and money stays accounted for; it is a
divergence from the documented state machine. `LifecycleConsistent` and
`SettledForever` hold with it.

### Bounds, and why they are enough

* **Two bookings** (`U64_MAX = 3`: ids 1 and 2 exist). The lifecycle run has three
  references, so its third `book` passes the duplicate check and meets the id bound;
  the others have two. Two bookings share the pot, which is what interference needs: one settles
  while the other is locked, cancelled, disputed, or short. Recovery concerns
  one booking at a time, because `Recoverable` looks at each booking's own record,
  the payees and the solvency, so its instance has one booking.
* **Two people** who book with each other, so that each is a traveller here and a
  host there; the seven other addresses are the contract, Stello, the token and
  the four pools, each of which `Book` and `UpdateBooking` also try as a party.
  Bob's balance covers one booking and then no longer the host fee, so both
  outcomes of both transfers occur. In the accounting run everybody can receive
  (`Refusers` is empty); refusals are in `recovery` and `release`.
* **Amounts**: 10003 leaves dust in every split (and 7 in the lifecycle run
  leaves nothing but dust); 0 is refused. The lifecycle run also has 600 010 003, of which
  `I128_MAX` holds one and not two, so that the second lock meets the bound of the total.
  `MCSettlementMath` walks windows of amounts up to the largest.
* **Times**: before the four-week bound, one second past it, exactly on the
  two-week bound, and after the start. `MCSettlementMath` has one second either
  side of each bound.
* **Scaled widths**: `I128_MAX = 10^9` (TLC computes with 32 bits; the proofs
  cover any width with `BPS_DENOM^2 <= I128_MAX`), `U32_MAX = 10499` (so that a
  wrapped sum of basis points can equal 10000).
* **Allocations**: mixed with dust, all to one role, one short, one whose `u32`
  sum would wrap.
* **Configurations**: one acceptable, four the constructor refuses.

Deadlock checking is off: when the ids are used up, every booking is settled and
the last timestamp has passed, nothing need happen any more.

The other runs keep these scales, except:

* **Events**: three people, so that an update can change the host; the stream holds three
  events, the most one call publishes, so each call may still be unread when the
  next one happens, or be read halfway.
* **Lifetimes**: thresholds 2, extensions 4 (3 for the record), a minimum of 1; they keep
  the order of the real numbers (50 000 < 100 000 < 200 000 < 500 000) and the
  proofs cover any. An entry can thus be extended, be above the threshold and not
  be extended, be used at the last ledger, and be archived and restored.
* **Clients**: one request that can be booked until the stay starts, one whose start is past
  from the beginning; times on, after and four weeks after a refund bound.
* **Pipeline**: two tags and three runs, which is a run in progress, one waiting and one that
  supersedes it, or an upgrade between a run and its re-run; two contract ids, so
  that a second deployment is possible; the wallet may upgrade as often as it likes, to the code
  of either tag. `pipeline_ends` has three tags, one contract and no escrow: the queue
  does not depend on them.

**Symmetry** is used where TLC's definition of it applies: the references of the lifecycle
run and the contract ids of the pipeline run are model values that no definition and no
property tells apart. The run with a liveness property has none.

### Fairness

The contract schedules nothing: every step is somebody's decision to submit a
transaction, and nothing in the code obliges anybody to. Safety is therefore
checked without fairness, and each liveness property names who must persist:

* `FairSpec` (`release`): Stello opens disputes and completes while it can (weak), and insists
  on resolving (strong). Strong fairness is needed because `complete` can take a
  booking out of `Disputed` between two attempts (see the finding). This is an
  assumption on Stello, who alone may make these calls; travellers, hosts and
  recipients owe nothing.
* `ClientsSpec` (`clients`): the backend resubmits and asks (weak), and a transaction submitted again
  and again is answered in the end (strong: each single one may expire).
* `PipelineSpec` (`pipeline_ends`): the service starts a run when the group is free and carries out its next step
  (weak). A step may fail, and the runner's death is a step too: the service ends
  such a job. Nothing is assumed of operator, wallet or users.

## 4. Proofs

TLAPS checks these for every value of the constants (any addresses, bookings,
amounts, times, widths) under the named assumptions `IntWidths`,
`LedgerAssumption` and `BookingAssumption`, which say only that constants have
their types, that the contract starts without tokens, and that an `i128` holds
`BPS_DENOM^2`.

**Arithmetic** (`SettlementMathProofs`). `BpsFloorIsFloor` (the
quotient/remainder form is the floor of the product), `BpsFloorNeverOverflows`,
`AllocationExact` (shares are natural, sum to the amount, dust at most 5),
`AllocationNeverFails`, and `SettlementsExact` for the three settlements.
`RefundFalls`: of two cancellations the later refunds no more.
`MCSettlementMathProofs` carries these to the specification the run checks, at every
width that satisfies `IntWidths` (the run has one): with the invariant `Inputs`
(the counter stays within what a caller may pass), `FloorAlwaysExact` (for the whole range of
amounts, and the shares `ShareBps`; `WideOrder` shows that the comparison digit by digit
is that of the products; `BpsFloorIsFloor` has every share),
`NeverMathError`, `AlwaysWholeAmount`, `DustAlwaysDocumented` and `RefundAlwaysShrinks`.

**Contract** (`StelloBookingProofs`). The inductive invariant is

    Inv == TypeOK /\ RefIndexSound /\ LifecycleConsistent /\ PartiesDistinct

Each part needs the others. A settlement removes an escrow that the record says
is there (`LifecycleConsistent`) from a total that fits (`TypeOK`). A new booking
overwrites none because ids are dense (`RefIndexSound`), and that is also why
the index stays the inverse. A push out of the contract comes back to it in no
share, and a host pays his fee out of his own pocket, because parties and sinks
are different from the contract (`PartiesDistinct`, `ValidateConfig`).
`Consistent` is strengthened with "not checked in while `Created` or `Escrowed`",
without which neither "a cancelled booking was not checked in" nor "a booking
awaiting its split was" is inductive.

Every step is then classified once (`StepKind`): a booking is *Created*,
*Rewritten* (its record changes, its money does not), *Funded* or *Settled*, or
the step is *Outside* the bookings. From the classification follow the action
properties `TermsNeverChange`, `SettlementFinal`, `SurplusStays` and
`NeverPaidFromOthersHolds`, and the refinement `VaultImplemented`: *Funded* is
`Deposit`, *Settled* is `Release`, the rest stutter or are a `Gift`.

Three results are about who pays and what a cancellation is worth. `OwnConsentHolds`: in a
lock or a host's cancellation the payer is the signer and the sum is the booking's
amount or the fee; every other call only pushes, which takes from nobody but the contract;
and a direct transfer is signed by whoever makes it.
`HostCancelMakesWholeHolds`, which no run checks by itself (`CancelSettlementSound` and
`PaidAsRecorded` imply it), follows the two movements of
`cancel_by_host` through the balances: the traveller, the host and operations are
different addresses (`PartiesDistinct`), so that neither movement disturbs the other.
`CancellationsRecorded` says that `CancelSettlementSound` is invariant: a step either touches
no cancellation or writes one record, whose shares `SettlementsExact` adds up.

Two more say what everybody is paid, to the unit. `PayeesDiffer` collects from `PartiesDistinct`
and `ValidateConfig` that the six payees and the contract are seven addresses, so that
`PushPays` gives each exactly his share. `PaymentsRecorded` then matches the record of a
cancellation with what each party's balance gained, the host's fee apart.
`SplitPaysPercentages` does the same for a completed booking and, by `SplitShares` (of
`SettlementMathProofs`: `n` percent in basis points, floored by quotient and remainder,
is `(amount * n) \div 100`), with the percentages the documents promise.

**Escrow total** (`EscrowProofs`). `EscrowTotal`: `total_escrowed` is the sum of
the bookings' escrows (`EscrowAccounted`), and `TotalCoversEach`: it is at least
each of them and never negative, so the `checked_sub` of
`decrease_total_escrowed` has nothing to catch. The sum is the recursive function
`EscrowUpTo` over ids. That it satisfies its equation (`EscrowUpToSums`), and that
it moves by `d` when one booking's escrow does (`SumShifts`), are inductions on
ids; they are made by the least id at which the claim fails (`IntervalInduction`,
from the library's `WFMin`), because an induction rule that takes a predicate as
a parameter cannot be used. The rest is the step classification again.

`NeverStuck` is the recovery that `execute_split` documents, without `ENABLED`: the checks of
`open_dispute`, `complete_booking` and `resolve_dispute` are state conditions
(`MayOpenDispute`, `MayComplete`, `MayResolve`), and `CallsByTheirChecks` shows that a call can be a
step only where they hold, and that a step with the call's updates from there is the call. In every reachable
state a booking with money in escrow has its way out: a dispute can be opened, or the
booking completed and then disputed, and a dispute can be resolved wholly in favour
of any payee whose account receives, as long as the contract is solvent. Such an
allocation leaves no dust (`AllToOnePays`), so it is one push, and `TotalCoversEach`
covers it.

`LifeGoesOneWay` (`OnlyDisputesLoop`) orders a record's life in five stages. Apart from the
loop between `Completed` and `Disputed` each change of state leads to a later stage: it is the
safety half of `EveryEscrowReleased`, which adds that someone persists.

**Clawbacks.** A token whose issuer can claw back leaves the contract short, whatever it
does. `ShortOnlyByClawback` and `VaultButForClawbacks` say without any assumption that nothing
else does: a step from a solvent state leads to a solvent one or is a clawback, and a step that is not
a clawback is a step of the vault or a stutter, in an insolvent state too.
`Solvency` and `VaultImplemented` are these two for `Clawbacks = {}`.

**Lifetimes** (`StorageTtlProofs`). `TtlImplementsCore`: forgetting the lifetimes, every step is a
step of the contract or a stutter, so the contract's invariants may be used. The
inductive invariant `TtlInv` adds to the four properties two facts. A cancellation
record belongs to a settled booking (`CancelledSettled`), so it is written once, and the
lifetime its writing gives is not overtaken by another. No booking lives longer
than `Longest` (`BookingTtlBounded`), which is what `InstanceKeepsUp` compares with when a call
lifts the instance to its threshold. `RefLivesWithBooking` needs `RefIndexSound` of the contract: two
bookings that shared a reference would share a lifetime.

**Events** (`StelloEventsProofs`). `EventsUseContract`: forgetting the stream and the indexer, every
step is one of the contract or a stutter. The inductive invariant is
`EventsInv == Inv /\ StreamExplains`: the events still in the stream, applied in turn, lead from what the
indexer knows to a view that `Mirrors` the contract, its records and its balances.
The views in between are the history `h`; each is what `Consume` makes of the one before,
and none forgets a booking or reopens a settled one (`Grows`), which is why
a settlement is the last word on its booking (`SettlementAlwaysLast`). The work is per
call: the events it appends, in the order it appends them, turn a view that mirrors the state before
into one that mirrors the state after. An empty stream then gives
`IndexAlwaysAgrees` and `BooksAgreeButForGifts`. Tokens sent to the contract by a plain
transfer are announced by no event of this contract, so `Mirrors` relates the books to the balances
up to `Gifts`, a natural number per address that only such a transfer changes. The escrow total
is known exactly all the same; `BooksAlwaysAgree` is the case `Donations = {}`, in which the
gifts are zero.

**Clients** (`BookingClientsProofs`). `ClientsUseContract`, and the inductive invariant

    ClientsInv == Inv /\ AmountsPassed /\ InflightOK /\ BackendOK

`InflightOK` ties each transaction in flight to a record as it was when it was signed: a quoted
cancellation is of a locked booking and of a time that has passed, whatever
happened since. `BackendOK` is about the backend's retries: what it has looked up (`known`) is in the
index, and a request it has been refused is either booked or `Hopeless` (its parties or
its amount are invalid, or its start is past), which time cannot undo. That is why
looking the reference up after a refusal is final in either answer (`KnownStaysRight`,
`GivenUpStaysUnbooked`). `AlwaysPaidAsSigned` and `QuoteAlwaysKept` are the action properties of the
run: a lock takes the amount signed for though another call may have come between, and
a cancellation refunds no more than its quote, and the quote itself unless a window
bound was passed (`RefundFalls`).

**Releases** (`ReleasePipelineProofs`). The inductive invariant is

    PipelineInv == PipelineTypeOK /\ OneRunning /\ TargetExists /\ JobsSound

At most one job runs (`OneRunning`, which is what the concurrency group is for), it
works on a contract that exists (`TargetExists`), and every running job is sound
(`JobsSound`): a job at the step that deploys is in the mode that takes no snapshot (`DeploysAnew`); from the snapshot to the
upgrade the contract is as the snapshot says (`SnapshotHolds`); after the upgrade only
what this version loses is gone (`LossesOwn`); and what a check has found still holds
(`ChecksHold`): the configuration, the total, then the code. Only the running job and the
wallet change code or configuration; the wallet leaves the mark `by_hand`, and a user's call
clears the mark `untouched`. Each part is conditional on these marks: a check made
after the last upgrade by hand holds whatever that upgrade did, which is why
`by_hand` remembers the step and not merely that there was one.
`ReleaseNamesLiveCode` and `ReleaseLosesNothing` follow at the step that publishes,
`LossesAreItsOwn` from `LossesOwn`.

The theorems about events, lifetimes and releases assume `LagAssumption`, `TtlAssumption` and
`PipelineAssumption`, those about clients `RequestAssumption`: the
constants have their types and the values that stand for no contract id are none.

**Only model-checked**: `Recoverable`, which speaks of what is `ENABLED` (`NeverStuck` is what can be
proved of it: the checks of the calls that lead out hold), `CallsAreAtomic`, and all
liveness, `EveryEscrowReleased`, `RequestsEnd` and `TagsEnd`. `ENABLED` and liveness under fairness are beyond the
proof system. Every other property of a passing run is a theorem.

## 5. Plan and limits

Done: all the modules above with their runs, and a theorem for every safety property the
runs check, `Recoverable` and `CallsAreAtomic` excepted.

Left: a version of the contract other than this one after `Upgrade`. The invariants are
proved of storage that this code wrote. The workflow compares a successor's configuration
and total with its predecessor's (`ReleasePipeline`); that its entrypoints keep the
invariants would be an assumption about code that does not exist.

**Not modelled, and why.** Which error a rejected call other than `book` returns: no
client in the repository's documents acts on it. Strangers who pay to extend or
restore an entry: they only prolong its life. Archival itself and its restoration
belong to the network; the model has them as `storage.rs` describes them. In the
workflow: the build, its attestation, the interface and provenance checks and the
version string, which can only end a job (`StepFails`), the secrets, and whether `Booking`
records survive an upgrade, which the workflow does not check either.
Continuous integration and tests keep no state.
