-------------------------- MODULE ReleasePipeline ---------------------------
(***************************************************************************)
(* The testnet release workflow (deploy-testnet.yml): a pushed tag either  *)
(* deploys a new contract or upgrades the one whose id the operator has    *)
(* put into the variable STELLO_TESTNET_CONTRACT_ID, checks the result on  *)
(* the chain, and publishes a release.                                     *)
(*                                                                         *)
(* Jobs, the operator, the Stello wallet and the users of the contracts    *)
(* take turns in any order; a job reads the chain once in an action.  The  *)
(* code of a tag stands for the WASM built from it.  A new version may     *)
(* lose what its predecessor has stored, as the workflow "does not migrate *)
(* Booking records".  The wallet may also upgrade a contract by hand, as   *)
(* the README shows, and no concurrency group holds that back.             *)
(*                                                                         *)
(* Left out: the build, its attestation and the interface checks, which    *)
(* can only fail a job (StepFails), contract_version, the secrets, and the *)
(* Booking records, which the workflow does not look at.                   *)
(***************************************************************************)
EXTENDS Integers

CONSTANTS Tag,            \* tags that may be pushed
          Version,        \* code that may be uploaded, that of the tags included
          ContractId,     \* addresses the network may give to contracts
          Unset, Invalid, \* values of the variable that are no contract id
          Lost,           \* what a version reads of a configuration it lost
          Settings,       \* values of the constructor variables
          LosesConfig,    \* versions that cannot read the stored Config
          LosesTotal,     \* versions that start from a total of 0
          MaxEscrow,      \* escrow the users hold at most
          MaxRuns         \* runs of the workflow, of all tags together

ASSUME PipelineAssumption ==
    /\ Unset \notin ContractId /\ Invalid \notin ContractId /\ Unset # Invalid
    /\ Settings \subseteq [wallet : {"w1", "w2"}, rest : {"x", "y"}]
    /\ Lost \notin Settings
    /\ Tag \subseteq Version
    /\ LosesConfig \subseteq Version /\ LosesTotal \subseteq Version
    /\ MaxEscrow \in Nat /\ MaxRuns \in Nat

VARIABLES contracts,   \* id -> code, what the code reads, what users have paid
          variable,    \* vars.STELLO_TESTNET_CONTRACT_ID
          settings,    \* the other variables of the environment "dev"
          job,         \* tag -> the latest run of its workflow; as a history,
                       \* .untouched: no user call since its snapshot, and
                       \* .by_hand: the step before which the wallet has last
                       \* upgraded its contract by hand
          runs         \* workflow runs so far

pipelineVars == <<contracts, variable, settings, job, runs>>

Waiting  == {"none", "queued"}
Ended    == {"released", "refused", "failed", "superseded"}
Steps    == {"deploy", "pre_upgrade", "snapshot", "upgrade", "post",
             "post_total", "hash_verify", "publish"}

NoJob == [pc |-> "none", mode |-> "none", env |-> Lost,
          target |-> Unset, old_config |-> Lost, old_total |-> 0,
          untouched |-> FALSE, by_hand |-> "none"]

PipelineInit ==
    /\ contracts = [id \in {} |-> {}]
    /\ variable \in {Unset, Invalid}
    /\ settings \in Settings
    /\ job = [t \in Tag |-> NoJob]
    /\ runs = 0

\* A job whose runner died would hold its place for ever (a seeded fault).
RunningUntilReleased(t) == job[t].pc \notin Waiting \cup {"released", "superseded"}

Running(t) == job[t].pc \in Steps

-----------------------------------------------------------------------------
(* The queue: one concurrency group, nothing in progress is cancelled.     *)

\* A run that waits in the group is cancelled when a newer one arrives.
Enqueue(t) ==
    /\ runs < MaxRuns /\ runs' = runs + 1
    /\ job' = [u \in Tag |->
                 IF u = t THEN [NoJob EXCEPT !.pc = "queued"]
                 ELSE IF job[u].pc = "queued" THEN [job[u] EXCEPT !.pc = "superseded"]
                 ELSE job[u]]
    /\ UNCHANGED <<contracts, variable, settings>>

PushTag(t) == job[t].pc = "none" /\ Enqueue(t)

\* Somebody runs an ended workflow again.
Rerun(t) == job[t].pc \in Ended /\ Enqueue(t)

Continue(t, pc) == job' = [job EXCEPT ![t].pc = pc]

\* Of a run that has ended only the outcome matters.
End(t, outcome) == job' = [job EXCEPT ![t] = [NoJob EXCEPT !.pc = outcome]]

\* The environment is read once, when the job starts, and decides what it
\* does: only the empty variable means a first deployment.
DetermineMode(t) ==
    LET Begin(pc, mode, target) ==
          job' = [job EXCEPT ![t].pc = pc, ![t].mode = mode,
                             ![t].target = target, ![t].env = settings]
    IN  CASE variable = Unset   -> Begin("deploy", "deploy", Unset)
          [] variable = Invalid -> End(t, "refused")
          [] OTHER              -> Begin("pre_upgrade", "upgrade", variable)

\* Seeded fault: no concurrency group.
StartAtOnce(t) ==
    /\ job[t].pc = "queued"
    /\ DetermineMode(t)
    /\ UNCHANGED <<contracts, variable, settings, runs>>

Start(t) ==
    /\ job[t].pc = "queued"
    /\ \A u \in Tag : ~Running(u)
    /\ DetermineMode(t)
    /\ UNCHANGED <<contracts, variable, settings, runs>>

-----------------------------------------------------------------------------
(* The contracts.                                                          *)

\* upgrade() reads the configuration and asks its wallet to sign.
Authorizes(c, wallet) == c.config # Lost /\ c.config.wallet = wallet

\* The same contract with other code, which reads what it still can.
Replaced(c, code) ==
    [c EXCEPT !.code = code,
              !.config = IF code \in LosesConfig THEN Lost ELSE @,
              !.total = IF code \in LosesTotal THEN 0 ELSE @]

\* Jobs on contract id, each with a note of what has happened to it.
Noted(id, note(_)) ==
    [t \in Tag |-> IF job[t].target = id THEN note(job[t]) ELSE job[t]]

-----------------------------------------------------------------------------
(* The steps of a job.                                                     *)

\* A transaction of the job takes effect; the answer may be lost on the way,
\* which fails the job.
Answered(t, id) ==
    \/ job' = [job EXCEPT ![t].pc = "post", ![t].target = id]
    \/ End(t, "failed")

Deploy(t) ==
    /\ job[t].pc = "deploy"
    /\ \E id \in ContractId \ DOMAIN contracts :
         /\ contracts' =
              [c \in DOMAIN contracts \cup {id} |->
                 IF c = id THEN [code |-> t, config |-> job[t].env, total |-> 0,
                                 held |-> 0]
                 ELSE contracts[c]]
         /\ Answered(t, id)
    /\ UNCHANGED <<variable, settings, runs>>

\* The signer must be the wallet of the environment and of the contract; the
\* configuration is kept for the comparison after the upgrade.
PreUpgrade(t) ==
    LET c == contracts[job[t].target]
    IN  /\ job[t].pc = "pre_upgrade"
        /\ IF Authorizes(c, job[t].env.wallet)
           THEN job' = [job EXCEPT ![t].pc = "snapshot",
                                   ![t].old_config = c.config,
                                   ![t].by_hand = "none"]
           ELSE End(t, "refused")
        /\ UNCHANGED <<contracts, variable, settings, runs>>

\* The total is read by a call of its own.
Snapshot(t) ==
    /\ job[t].pc = "snapshot"
    /\ job' = [job EXCEPT ![t].pc = "upgrade", ![t].untouched = TRUE,
                          ![t].old_total = contracts[job[t].target].total]
    /\ UNCHANGED <<contracts, variable, settings, runs>>

\* upload, then upgrade.
Upgrade(t) ==
    LET id == job[t].target
    IN  /\ job[t].pc = "upgrade"
        /\ Authorizes(contracts[id], job[t].env.wallet)
        /\ contracts' = [contracts EXCEPT ![id] = Replaced(@, t)]
        /\ Answered(t, id)
        /\ UNCHANGED <<variable, settings, runs>>

\* The configuration must be that of the environment and of the snapshot.
PostConfigOk(j, c) ==
    c.config = j.env /\ (j.mode = "upgrade" => c.config = j.old_config)

PostConfig(t) ==
    /\ job[t].pc = "post"
    /\ IF PostConfigOk(job[t], contracts[job[t].target])
       THEN Continue(t, "post_total") ELSE End(t, "refused")
    /\ UNCHANGED <<contracts, variable, settings, runs>>

\* Seeded fault: the total is not compared with the snapshot.
PostTotalUnchecked(j, c) == j.mode = "deploy" => c.total = 0

\* The total must be that of the snapshot; a fresh contract must hold nothing.
PostTotalOk(j, c) == c.total = IF j.mode = "upgrade" THEN j.old_total ELSE 0

PostTotal(t) ==
    /\ job[t].pc = "post_total"
    /\ IF PostTotalOk(job[t], contracts[job[t].target])
       THEN Continue(t, "hash_verify") ELSE End(t, "refused")
    /\ UNCHANGED <<contracts, variable, settings, runs>>

HashVerify(t) ==
    /\ job[t].pc = "hash_verify"
    /\ IF contracts[job[t].target].code = t
       THEN Continue(t, "publish") ELSE End(t, "refused")
    /\ UNCHANGED <<contracts, variable, settings, runs>>

Publish(t) ==
    /\ job[t].pc = "publish"
    /\ End(t, "released")
    /\ UNCHANGED <<contracts, variable, settings, runs>>

\* A command fails, or the runner dies.
StepFails(t) ==
    /\ Running(t)
    /\ End(t, "failed")
    /\ UNCHANGED <<contracts, variable, settings, runs>>

Step(t) ==
    \/ Deploy(t)
    \/ PreUpgrade(t)
    \/ Snapshot(t)
    \/ Upgrade(t)
    \/ PostConfig(t)
    \/ PostTotal(t)
    \/ HashVerify(t)
    \/ Publish(t)
    \/ StepFails(t)

-----------------------------------------------------------------------------
(* The operator, the Stello wallet, and the users of the contracts.        *)

SetVariable ==
    /\ variable' \in {Unset, Invalid} \cup DOMAIN contracts
    /\ UNCHANGED <<contracts, settings, job, runs>>

SetSettings ==
    /\ settings' \in Settings
    /\ UNCHANGED <<contracts, variable, job, runs>>

\* The contract's own wallet upgrades it, to any code, at any time.
ManualUpgrade(id, code) ==
    /\ contracts[id].config # Lost
    /\ contracts' = [contracts EXCEPT ![id] = Replaced(@, code)]
    /\ job' = Noted(id, LAMBDA j : [j EXCEPT !.by_hand = j.pc])
    /\ UNCHANGED <<variable, settings, runs>>

\* A booking is funded, or settled: both read the configuration, and take the
\* total the code reads, whatever that is, up or down.
UserCall(id) ==
    /\ contracts[id].config # Lost
    /\ \E n \in {1, -1} :
         /\ contracts[id].held + n \in 0..MaxEscrow
         /\ contracts' = [contracts EXCEPT ![id].held = @ + n, ![id].total = @ + n]
    /\ job' = Noted(id, LAMBDA j : [j EXCEPT !.untouched = FALSE])
    /\ UNCHANGED <<variable, settings, runs>>

PipelineNext ==
    \/ \E t \in Tag : PushTag(t) \/ Rerun(t) \/ Start(t) \/ Step(t)
    \/ SetVariable
    \/ SetSettings
    \/ \E id \in DOMAIN contracts :
         UserCall(id) \/ \E code \in Version : ManualUpgrade(id, code)

\* The service starts what it can start, and a job goes on to its end.
PipelineSpec ==
    /\ PipelineInit /\ [][PipelineNext]_pipelineVars
    /\ \A t \in Tag : WF_pipelineVars(Start(t)) /\ WF_pipelineVars(Step(t))

-----------------------------------------------------------------------------
(* What a release stands for, in spite of an upgrade by hand at any moment *)
(* but the last: a job sees on the chain what has happened before its      *)
(* checks, and nothing of what happens after them.                         *)

ReleasedNow(t) == job[t].pc # "released" /\ job'[t].pc = "released"

\* A release names the code that runs at that moment, unless the wallet has
\* upgraded by hand between the verification of the hash and the publication:
\* an earlier upgrade by hand is found out, and no other job comes between.
ReleasedCodeIsLive ==
    [][ \A t \in Tag : ReleasedNow(t) /\ job[t].by_hand # "publish" =>
          contracts[job[t].target].code = t ]_pipelineVars

\* An upgrade is released with the configuration and, if no user was active
\* meanwhile, the total its contract had before.  Only what the wallet does
\* by hand after the check concerned escapes it; before the check, other
\* code that loses them makes the job fail or be refused.
ReleaseKeepsState ==
    [][ \A t \in Tag : ReleasedNow(t) /\ job[t].mode = "upgrade" =>
          LET j == job[t]
              c == contracts[j.target]
          IN  /\ j.by_hand \notin {"post_total", "hash_verify", "publish"} =>
                   c.config = j.old_config
              /\ j.by_hand \notin {"hash_verify", "publish"} /\ j.untouched =>
                   c.total = j.old_total ]_pipelineVars

\* Whatever fails and whoever dies, a pushed tag comes to an end, and the
\* place in the queue is free again.
TagsEnd == \A t \in Tag : job[t].pc = "queued" ~> job[t].pc \in Ended

\* What the checks after an upgrade find changed, this upgrade has changed,
\* unless users or the wallet itself were active meanwhile: no other job, and
\* nobody who edits the environment, makes it compare with another
\* contract's past.
LossesAreOwn ==
    \A t \in Tag :
        LET j == job[t]
            c == contracts[j.target]
        IN  j.pc \in {"post", "post_total"} /\ j.mode = "upgrade"
              /\ j.by_hand = "none" =>
            /\ c.config # j.old_config => t \in LosesConfig
            /\ j.untouched /\ c.total # j.old_total => t \in LosesTotal
=============================================================================
