------------------------ MODULE ReleasePipelineProofs ------------------------
(***************************************************************************)
(* What a release stands for, for every set of tags, contracts, settings   *)
(* and versions, faulty ones included, and any number of runs, calls of    *)
(* users and upgrades by hand.                                             *)
(***************************************************************************)
EXTENDS ReleasePipeline, TLAPS

(* The inductive invariant.  OneRunning is what the concurrency group is   *)
(* for: without it another job could replace the code between a check and  *)
(* the publication, and leave no mark of it.                               *)

Jobs == [pc : Waiting \cup Ended \cup Steps, mode : {"none", "deploy", "upgrade"},
         env : Settings \cup {Lost}, target : ContractId \cup {Unset, Invalid},
         old_config : Settings \cup {Lost}, old_total : Int, untouched : BOOLEAN,
         by_hand : Waiting \cup Ended \cup Steps]

Contracts == [code : Version, config : Settings \cup {Lost}, total : Int, held : Nat]

PipelineTypeOK ==
    /\ DOMAIN contracts \subseteq ContractId
    /\ contracts \in [DOMAIN contracts -> Contracts]
    /\ variable \in {Unset, Invalid} \cup DOMAIN contracts
    /\ settings \in Settings
    /\ job \in [Tag -> Jobs]

OneRunning == \A t, u \in Tag : Running(t) /\ Running(u) => t = u

\* Every step but a first deployment works on a contract that exists.
TargetExists ==
    \A t \in Tag : job[t].pc \in Steps \ {"deploy"} => job[t].target \in DOMAIN contracts

\* A first deployment is no upgrade, and has no snapshot.
DeploysAnew(j) == j.pc = "deploy" => j.mode = "deploy"

\* The snapshot is what contract c holds until the job's own upgrade.
SnapshotHolds(j, c) ==
    j.by_hand = "none" =>
    /\ j.pc \in {"snapshot", "upgrade"} => c.config = j.old_config
    /\ j.pc = "upgrade" /\ j.untouched => c.total = j.old_total

\* What the checks will find changed since then, that upgrade has changed.
LossesOwn(t, j, c) ==
    j.pc \in {"post", "post_total"} /\ j.mode = "upgrade" /\ j.by_hand = "none" =>
    /\ c.config # j.old_config => t \in LosesConfig
    /\ j.untouched /\ c.total # j.old_total => t \in LosesTotal

\* What a step has checked still holds when the job goes on.
ChecksHold(t, j, c) ==
    /\ j.pc = "publish" /\ j.by_hand # "publish" => c.code = t
    /\ j.mode = "upgrade" =>
         /\ /\ j.pc \in {"post_total", "hash_verify", "publish"}
            /\ j.by_hand \notin {"post_total", "hash_verify", "publish"}
            => c.config = j.old_config
         /\ /\ j.pc \in {"hash_verify", "publish"}
            /\ j.by_hand \notin {"hash_verify", "publish"}
            /\ j.untouched
            => c.total = j.old_total

\* All this of run j of tag t and the contract it works on.
JobSound(t, j, c) ==
    DeploysAnew(j) /\ SnapshotHolds(j, c) /\ LossesOwn(t, j, c) /\ ChecksHold(t, j, c)

JobsSound == \A t \in Tag : JobSound(t, job[t], contracts[job[t].target])

PipelineInv == PipelineTypeOK /\ OneRunning /\ TargetExists /\ JobsSound

-----------------------------------------------------------------------------

\* A job that does not run relies on nothing.
LEMMA IdleSound ==
    ASSUME NEW t, NEW j, NEW c, j.pc \notin Steps
    PROVE  JobSound(t, j, c)
  BY DEF JobSound, DeploysAnew, SnapshotHolds, LossesOwn, ChecksHold, Steps

\* NoJob and its variants are jobs that do not run.
LEMMA NoJobType ==
    ASSUME NEW pc \in Waiting \cup Ended
    PROVE  /\ [NoJob EXCEPT !.pc = pc] \in Jobs
           /\ [NoJob EXCEPT !.pc = pc].pc = pc
           /\ pc \notin Steps
  <1>1. NoJob \in Jobs
    BY DEF NoJob, Jobs, Waiting
  <1>2. pc \notin Steps
    BY DEF Waiting, Ended, Steps
  <1> QED
    BY <1>1, <1>2 DEF Jobs

\* The job that a run is put in the queue for waits, and so do those it
\* supersedes: no job starts, and the running one stays as it is.
LEMMA EnqueueInv ==
    ASSUME PipelineInv, NEW t \in Tag, job[t].pc \notin Steps, Enqueue(t)
    PROVE  PipelineInv'
  <1>1. UNCHANGED <<contracts, variable, settings>>
    BY DEF Enqueue
  <1>2. \A u \in Tag :
           /\ job'[u] \in Jobs
           /\ job'[u] = job[u] \/ job'[u].pc \notin Steps
    <2>1. \A u \in Tag : job[u] \in Jobs
      BY DEF PipelineInv, PipelineTypeOK
    <2>2. ASSUME NEW u \in Tag
          PROVE  job'[u] = [NoJob EXCEPT !.pc = "queued"]
                   \/ job'[u] = [job[u] EXCEPT !.pc = "superseded"]
                   \/ job'[u] = job[u]
      BY <2>2 DEF Enqueue
    <2>3. ASSUME NEW u \in Tag
          PROVE  /\ [job[u] EXCEPT !.pc = "superseded"] \in Jobs
                 /\ [job[u] EXCEPT !.pc = "superseded"].pc \notin Steps
      BY <2>1, <2>3 DEF Jobs, Ended, Steps
    <2>4. /\ [NoJob EXCEPT !.pc = "queued"] \in Jobs
          /\ [NoJob EXCEPT !.pc = "queued"].pc \notin Steps
      BY NoJobType DEF Waiting
    <2> QED
      BY <2>1, <2>2, <2>3, <2>4
  <1>3. job' \in [Tag -> Jobs]
    BY <1>2 DEF Enqueue
  <1>4. PipelineTypeOK'
    BY <1>1, <1>3 DEF PipelineInv, PipelineTypeOK
  <1>5. OneRunning'
    BY <1>2 DEF PipelineInv, OneRunning, Running
  <1>6. TargetExists'
    BY <1>1, <1>2 DEF PipelineInv, TargetExists
  <1>7. JobsSound'
    BY <1>1, <1>2, IdleSound DEF PipelineInv, JobsSound
  <1> QED
    BY <1>4, <1>5, <1>6, <1>7 DEF PipelineInv

\* A step that changes one job keeps the invariant if the new job is sound:
\* what it works on exists, and it runs only if it ran before or if nobody
\* else does.
LEMMA JobStep ==
    ASSUME PipelineInv, NEW t \in Tag, NEW j \in Jobs,
           job' = [job EXCEPT ![t] = j],
           UNCHANGED <<contracts, variable, settings>>,
           j.pc \in Steps => \/ Running(t)
                             \/ \A u \in Tag : ~Running(u),
           j.pc \in Steps \ {"deploy"} => j.target \in DOMAIN contracts,
           JobSound(t, j, contracts[j.target])
    PROVE  PipelineInv'
  <1>1. /\ job' \in [Tag -> Jobs]
        /\ job'[t] = j
        /\ \A u \in Tag \ {t} : job'[u] = job[u]
    BY DEF PipelineInv, PipelineTypeOK
  <1>2. PipelineTypeOK'
    BY <1>1 DEF PipelineInv, PipelineTypeOK
  <1>3. OneRunning'
    BY <1>1 DEF PipelineInv, OneRunning, Running
  <1>4. TargetExists'
    BY <1>1 DEF PipelineInv, TargetExists
  <1>5. JobsSound'
    <2>1. \A u \in Tag : JobSound(u, job'[u], contracts'[job'[u].target])
      BY <1>1 DEF PipelineInv, JobsSound
    <2> QED
      BY <2>1 DEF JobsSound
  <1> QED
    BY <1>2, <1>3, <1>4, <1>5 DEF PipelineInv

\* Ending a job keeps the invariant, whatever else the job did to it.
LEMMA EndInv ==
    ASSUME PipelineInv, NEW t \in Tag, NEW outcome \in Ended, End(t, outcome),
           UNCHANGED <<contracts, variable, settings>>
    PROVE  PipelineInv'
  <1> DEFINE j == [NoJob EXCEPT !.pc = outcome]
  <1>1. j \in Jobs /\ j.pc = outcome /\ outcome \notin Steps
    BY NoJobType
  <1>2. job' = [job EXCEPT ![t] = j]
    BY DEF End
  <1> HIDE DEF j
  <1>3. JobSound(t, j, contracts[j.target])
    BY <1>1, IdleSound
  <1> QED
    BY <1>1, <1>2, <1>3, JobStep

\* A running job that only reads the chain and goes on with new notes.
LEMMA ReadStep ==
    ASSUME PipelineInv, NEW t \in Tag, NEW j \in Jobs,
           job[t].pc \in Steps \ {"deploy"}, j.target = job[t].target,
           job' = [job EXCEPT ![t] = j],
           UNCHANGED <<contracts, variable, settings>>,
           JobSound(t, j, contracts[j.target])
    PROVE  PipelineInv'
  <1>1. Running(t) /\ j.target \in DOMAIN contracts
    BY DEF PipelineInv, TargetExists, Running
  <1> QED
    BY <1>1, JobStep

-----------------------------------------------------------------------------
(* The steps of a job.                                                     *)

\* The environment decides between the two modes and a refusal.
LEMMA StartInv ==
    ASSUME PipelineInv, NEW t \in Tag, Start(t)
    PROVE  PipelineInv'
  <1> DEFINE Begun(pc, mode, target) ==
               [job[t] EXCEPT !.pc = pc, !.mode = mode, !.target = target,
                              !.env = settings]
  <1>1. /\ job \in [Tag -> Jobs] /\ job[t] \in Jobs /\ settings \in Settings
        /\ variable \in {Unset, Invalid} \cup DOMAIN contracts
        /\ DOMAIN contracts \subseteq ContractId
        /\ \A u \in Tag : ~Running(u)
        /\ UNCHANGED <<contracts, variable, settings>>
    BY DEF PipelineInv, PipelineTypeOK, Start
  <1>2. CASE variable = Unset
    <2> DEFINE j == Begun("deploy", "deploy", Unset)
    <2>1. job' = [job EXCEPT ![t] = j]
      BY <1>1, <1>2, PipelineAssumption DEF Start, DetermineMode
    <2>2. j \in Jobs /\ j.pc = "deploy" /\ j.mode = "deploy"
      BY <1>1 DEF Jobs, Steps
    <2> HIDE DEF j
    <2>3. JobSound(t, j, contracts[j.target])
      BY <2>2 DEF JobSound, DeploysAnew, SnapshotHolds, LossesOwn, ChecksHold
    <2> QED
      BY <1>1, <2>1, <2>2, <2>3, JobStep
  <1>3. CASE variable = Invalid /\ variable # Unset
    <2>1. End(t, "refused")
      BY <1>3, PipelineAssumption DEF Start, DetermineMode
    <2> QED
      BY <1>1, <2>1, EndInv DEF Ended
  <1>4. CASE variable \notin {Unset, Invalid}
    <2> DEFINE j == Begun("pre_upgrade", "upgrade", variable)
    <2>1. job' = [job EXCEPT ![t] = j]
      BY <1>1, <1>4 DEF Start, DetermineMode
    <2>2. j \in Jobs /\ j.pc = "pre_upgrade" /\ j.target = variable
      BY <1>1, <1>4 DEF Jobs, Steps
    <2> HIDE DEF j
    <2>3. JobSound(t, j, contracts[j.target])
      BY <2>2 DEF JobSound, DeploysAnew, SnapshotHolds, LossesOwn, ChecksHold
    <2> QED
      BY <1>1, <1>4, <2>1, <2>2, <2>3, JobStep
  <1> QED
    BY <1>2, <1>3, <1>4

\* The running job changes or creates one contract and waits for the checks
\* after it, or fails.  It is alone, so no other job relies on the contract.
LEMMA TransactionInv ==
    ASSUME PipelineInv, NEW t \in Tag, Running(t), NEW id \in ContractId,
           DOMAIN contracts' = DOMAIN contracts \cup {id},
           contracts' \in [DOMAIN contracts' -> Contracts],
           Answered(t, id), UNCHANGED <<variable, settings>>,
           LossesOwn(t, [job[t] EXCEPT !.pc = "post", !.target = id], contracts'[id])
    PROVE  PipelineInv'
  <1>1. /\ job \in [Tag -> Jobs] /\ job[t] \in Jobs
        /\ \A u \in Tag \ {t} : job[u].pc \notin Steps
    BY DEF PipelineInv, PipelineTypeOK, OneRunning, Running
  <1>2. PICK j \in Jobs :
           /\ job' = [job EXCEPT ![t] = j]
           /\ j.pc \in Steps => j.target = id
           /\ JobSound(t, j, contracts'[j.target])
    <2>1. CASE job' = [job EXCEPT ![t].pc = "post", ![t].target = id]
      <3> DEFINE j == [job[t] EXCEPT !.pc = "post", !.target = id]
      <3>1. j \in Jobs /\ j.pc = "post" /\ j.target = id
        BY <1>1 DEF Jobs, Steps
      <3>2. job' = [job EXCEPT ![t] = j]
        BY <1>1, <2>1
      <3>3. LossesOwn(t, j, contracts'[id])
        OBVIOUS
      <3> HIDE DEF j
      <3>4. JobSound(t, j, contracts'[j.target])
        BY <3>1, <3>3 DEF JobSound, DeploysAnew, SnapshotHolds, ChecksHold
      <3> QED
        BY <3>1, <3>2, <3>4
    <2>2. CASE End(t, "failed")
      <3> DEFINE j == [NoJob EXCEPT !.pc = "failed"]
      <3>1. j \in Jobs /\ j.pc = "failed" /\ j.pc \notin Steps
        BY NoJobType DEF Ended
      <3>2. job' = [job EXCEPT ![t] = j]
        BY <2>2 DEF End
      <3> HIDE DEF j
      <3> QED
        BY <3>1, <3>2, IdleSound
    <2> QED
      BY <2>1, <2>2 DEF Answered
  <1>3. /\ job' \in [Tag -> Jobs] /\ job'[t] = j
        /\ \A u \in Tag \ {t} : job'[u].pc \notin Steps
    BY <1>1, <1>2
  <1>4. PipelineTypeOK'
    BY <1>3 DEF PipelineInv, PipelineTypeOK
  <1>5. OneRunning'
    BY <1>3 DEF OneRunning, Running
  <1>6. TargetExists'
    BY <1>2, <1>3 DEF TargetExists
  <1>7. JobsSound'
    <2>1. \A u \in Tag : JobSound(u, job'[u], contracts'[job'[u].target])
      BY <1>2, <1>3, IdleSound
    <2> QED
      BY <2>1 DEF JobsSound
  <1> QED
    BY <1>4, <1>5, <1>6, <1>7 DEF PipelineInv

\* A first deployment keeps the invariant: it has nothing to be compared with.
LEMMA DeployInv ==
    ASSUME PipelineInv, NEW t \in Tag, Deploy(t)
    PROVE  PipelineInv'
  <1>1. PICK id \in ContractId \ DOMAIN contracts :
           /\ contracts' =
                [c \in DOMAIN contracts \cup {id} |->
                   IF c = id THEN [code |-> t, config |-> job[t].env, total |-> 0,
                                   held |-> 0]
                   ELSE contracts[c]]
           /\ Answered(t, id)
    BY DEF Deploy
  <1>2. job[t] \in Jobs /\ job[t].mode = "deploy"
    BY DEF Deploy, PipelineInv, PipelineTypeOK, JobsSound, JobSound, DeploysAnew
  <1>3. [code |-> t, config |-> job[t].env, total |-> 0, held |-> 0] \in Contracts
    BY <1>2, PipelineAssumption DEF Jobs, Contracts
  <1>4. contracts' \in [DOMAIN contracts \cup {id} -> Contracts]
    BY <1>1, <1>3 DEF PipelineInv, PipelineTypeOK
  <1>5. Running(t) /\ UNCHANGED <<variable, settings>>
    BY DEF Deploy, Running, Steps
  <1> DEFINE j == [job[t] EXCEPT !.pc = "post", !.target = id]
  <1>6. j.mode = "deploy"
    BY <1>2 DEF Jobs
  <1>7. LossesOwn(t, j, contracts'[id])
    BY <1>6 DEF LossesOwn
  <1> QED
    BY <1>1, <1>4, <1>5, <1>7, TransactionInv

\* What is replaced is a contract, whose fields change as the code has it.
LEMMA ReplacedFields ==
    ASSUME NEW c \in Contracts, NEW code \in Version
    PROVE  /\ Replaced(c, code) \in Contracts
           /\ code \notin LosesConfig => Replaced(c, code).config = c.config
           /\ code \notin LosesTotal => Replaced(c, code).total = c.total
  <1>1. Replaced(c, code).config = IF code \in LosesConfig THEN Lost ELSE c.config
    BY DEF Replaced, Contracts
  <1>2. Replaced(c, code).total = IF code \in LosesTotal THEN 0 ELSE c.total
    BY DEF Replaced, Contracts
  <1>3. Replaced(c, code) \in Contracts
    <2> DEFINE config == IF code \in LosesConfig THEN Lost ELSE c.config
               total  == IF code \in LosesTotal THEN 0 ELSE c.total
    <2>1. Replaced(c, code) =
            [c EXCEPT !.code = code, !.config = config, !.total = total]
      BY DEF Replaced, Contracts
    <2>2. config \in Settings \cup {Lost} /\ total \in Int
      BY DEF Contracts
    <2> HIDE DEF config, total
    <2> QED
      BY <2>1, <2>2 DEF Contracts
  <1> QED
    BY <1>1, <1>2, <1>3

\* An upgrade keeps the invariant, even one that loses what was stored.
LEMMA UpgradeInv ==
    ASSUME PipelineInv, NEW t \in Tag, Upgrade(t)
    PROVE  PipelineInv'
  <1> DEFINE id  == job[t].target
             new == Replaced(contracts[id], t)
             j   == [job[t] EXCEPT !.pc = "post", !.target = id]
  <1>1. /\ id \in DOMAIN contracts /\ id \in ContractId
        /\ contracts[id] \in Contracts /\ job[t] \in Jobs
        /\ contracts \in [DOMAIN contracts -> Contracts]
        /\ Running(t) /\ UNCHANGED <<variable, settings>> /\ Answered(t, id)
    BY DEF Upgrade, PipelineInv, PipelineTypeOK, TargetExists, Running, Steps
  <1>2. contracts' = [contracts EXCEPT ![id] = new]
    BY <1>1 DEF Upgrade
  <1>3. /\ new \in Contracts
        /\ t \notin LosesConfig => new.config = contracts[id].config
        /\ t \notin LosesTotal => new.total = contracts[id].total
    BY <1>1, ReplacedFields, PipelineAssumption
  <1>4. job[t].by_hand = "none" =>
          /\ contracts[id].config = job[t].old_config
          /\ job[t].untouched => contracts[id].total = job[t].old_total
    BY DEF Upgrade, PipelineInv, JobsSound, JobSound, SnapshotHolds
  <1>5. /\ j.old_config = job[t].old_config /\ j.old_total = job[t].old_total
        /\ j.untouched = job[t].untouched /\ j.by_hand = job[t].by_hand
    BY <1>1 DEF Jobs
  <1> HIDE DEF new
  <1>6. /\ DOMAIN contracts' = DOMAIN contracts \cup {id}
        /\ contracts' \in [DOMAIN contracts' -> Contracts]
        /\ contracts'[id] = new
    BY <1>1, <1>2, <1>3
  <1>7. LossesOwn(t, j, contracts'[id])
    BY <1>3, <1>4, <1>5, <1>6 DEF LossesOwn
  <1> QED
    BY <1>1, <1>6, <1>7, TransactionInv

\* The configuration before an upgrade is kept as it is at that moment.
LEMMA PreUpgradeInv ==
    ASSUME PipelineInv, NEW t \in Tag, PreUpgrade(t)
    PROVE  PipelineInv'
  <1> DEFINE c == contracts[job[t].target]
             j == [job[t] EXCEPT !.pc = "snapshot", !.old_config = c.config,
                                 !.by_hand = "none"]
  <1>1. /\ job[t] \in Jobs /\ job[t].pc \in Steps \ {"deploy"} /\ c \in Contracts
        /\ UNCHANGED <<contracts, variable, settings>>
    BY DEF PreUpgrade, PipelineInv, PipelineTypeOK, TargetExists, Steps
  <1>2. CASE job' = [job EXCEPT ![t] = j]
    <2>1. /\ j \in Jobs /\ j.pc = "snapshot" /\ j.target = job[t].target
          /\ j.old_config = c.config
      BY <1>1 DEF Jobs, Contracts, Steps, Waiting
    <2> HIDE DEF j
    <2>2. JobSound(t, j, contracts[j.target])
      BY <2>1 DEF JobSound, DeploysAnew, SnapshotHolds, LossesOwn, ChecksHold
    <2> QED
      BY <1>1, <1>2, <2>1, <2>2, ReadStep
  <1>3. CASE End(t, "refused")
    BY <1>1, <1>3, EndInv DEF Ended
  <1> QED
    BY <1>2, <1>3 DEF PreUpgrade

\* The total is that of the same contract, whose configuration is the one
\* kept, unless the wallet has upgraded it in between.
LEMMA SnapshotInv ==
    ASSUME PipelineInv, NEW t \in Tag, Snapshot(t)
    PROVE  PipelineInv'
  <1> DEFINE c == contracts[job[t].target]
             j == [job[t] EXCEPT !.pc = "upgrade", !.untouched = TRUE,
                                 !.old_total = c.total]
  <1>1. /\ job[t] \in Jobs /\ job[t].pc \in Steps \ {"deploy"} /\ c \in Contracts
        /\ UNCHANGED <<contracts, variable, settings>>
        /\ job' = [job EXCEPT ![t] = j]
        /\ job[t].by_hand = "none" => c.config = job[t].old_config
    BY DEF Snapshot, PipelineInv, PipelineTypeOK, TargetExists, Steps, JobsSound,
           JobSound, SnapshotHolds
  <1>2. /\ j \in Jobs /\ j.pc = "upgrade" /\ j.target = job[t].target
        /\ j.old_config = job[t].old_config /\ j.old_total = c.total
        /\ j.by_hand = job[t].by_hand
    BY <1>1 DEF Jobs, Contracts, Steps
  <1> HIDE DEF j
  <1>3. JobSound(t, j, contracts[j.target])
    BY <1>1, <1>2 DEF JobSound, DeploysAnew, SnapshotHolds, LossesOwn, ChecksHold
  <1> QED
    BY <1>1, <1>2, <1>3, ReadStep

\* A job that goes on with nothing but its place changed.
LEMMA ContinueInv ==
    ASSUME PipelineInv, NEW t \in Tag, job[t].pc \in Steps \ {"deploy"},
           NEW pc \in {"post_total", "hash_verify", "publish"}, Continue(t, pc),
           UNCHANGED <<contracts, variable, settings>>,
           JobSound(t, [job[t] EXCEPT !.pc = pc], contracts[job[t].target])
    PROVE  PipelineInv'
  <1> DEFINE j == [job[t] EXCEPT !.pc = pc]
  <1>1. job[t] \in Jobs
    BY DEF PipelineInv, PipelineTypeOK
  <1>2. j \in Jobs /\ j.target = job[t].target /\ job' = [job EXCEPT ![t] = j]
    BY <1>1 DEF Jobs, Steps, Continue
  <1>3. JobSound(t, j, contracts[j.target])
    BY <1>2
  <1> HIDE DEF j
  <1> QED
    BY <1>2, <1>3, ReadStep

\* What a running job knows, and what it keeps when only its place changes.
LEMMA Continued ==
    ASSUME PipelineInv, NEW t \in Tag, NEW pc
    PROVE  LET j == [job[t] EXCEPT !.pc = pc]
           IN  /\ j.pc = pc /\ j.mode = job[t].mode
               /\ j.old_config = job[t].old_config /\ j.old_total = job[t].old_total
               /\ j.untouched = job[t].untouched /\ j.by_hand = job[t].by_hand
               /\ JobSound(t, job[t], contracts[job[t].target])
  <1>1. job[t] \in Jobs
    BY DEF PipelineInv, PipelineTypeOK
  <1> QED
    BY <1>1 DEF Jobs, PipelineInv, JobsSound

\* The first check establishes that the configuration is the one kept.
LEMMA PostConfigInv ==
    ASSUME PipelineInv, NEW t \in Tag, PostConfig(t)
    PROVE  PipelineInv'
  <1>1. /\ job[t].pc = "post" /\ job[t].pc \in Steps \ {"deploy"}
        /\ UNCHANGED <<contracts, variable, settings>>
    BY DEF PostConfig, Steps
  <1>2. CASE PostConfigOk(job[t], contracts[job[t].target]) /\ Continue(t, "post_total")
    <2> DEFINE j == [job[t] EXCEPT !.pc = "post_total"]
               c == contracts[job[t].target]
    <2>1. /\ j.pc = "post_total" /\ j.mode = job[t].mode
          /\ j.old_config = job[t].old_config /\ j.old_total = job[t].old_total
          /\ j.untouched = job[t].untouched /\ j.by_hand = job[t].by_hand
          /\ JobSound(t, job[t], c)
      BY Continued
    <2> HIDE DEF j
    <2>2. JobSound(t, j, c)
      BY <1>1, <1>2, <2>1 DEF JobSound, DeploysAnew, SnapshotHolds, LossesOwn,
         ChecksHold, PostConfigOk
    <2> QED
      BY <1>1, <1>2, <2>2, ContinueInv DEF j
  <1>3. CASE End(t, "refused")
    BY <1>1, <1>3, EndInv DEF Ended
  <1> QED
    BY <1>2, <1>3 DEF PostConfig

\* The second one establishes that the total is that of the snapshot.
LEMMA PostTotalInv ==
    ASSUME PipelineInv, NEW t \in Tag, PostTotal(t)
    PROVE  PipelineInv'
  <1>1. /\ job[t].pc = "post_total" /\ job[t].pc \in Steps \ {"deploy"}
        /\ UNCHANGED <<contracts, variable, settings>>
    BY DEF PostTotal, Steps
  <1>2. CASE PostTotalOk(job[t], contracts[job[t].target]) /\ Continue(t, "hash_verify")
    <2> DEFINE j == [job[t] EXCEPT !.pc = "hash_verify"]
               c == contracts[job[t].target]
    <2>1. /\ j.pc = "hash_verify" /\ j.mode = job[t].mode
          /\ j.old_config = job[t].old_config /\ j.old_total = job[t].old_total
          /\ j.untouched = job[t].untouched /\ j.by_hand = job[t].by_hand
          /\ JobSound(t, job[t], c)
      BY Continued
    <2> HIDE DEF j
    <2>2. JobSound(t, j, c)
      BY <1>1, <1>2, <2>1 DEF JobSound, DeploysAnew, SnapshotHolds, LossesOwn,
         ChecksHold, PostTotalOk
    <2> QED
      BY <1>1, <1>2, <2>2, ContinueInv DEF j
  <1>3. CASE End(t, "refused")
    BY <1>1, <1>3, EndInv DEF Ended
  <1> QED
    BY <1>2, <1>3 DEF PostTotal

\* The hash verification establishes that the code is the tag's.
LEMMA HashVerifyInv ==
    ASSUME PipelineInv, NEW t \in Tag, HashVerify(t)
    PROVE  PipelineInv'
  <1>1. /\ job[t].pc = "hash_verify" /\ job[t].pc \in Steps \ {"deploy"}
        /\ UNCHANGED <<contracts, variable, settings>>
    BY DEF HashVerify, Steps
  <1>2. CASE contracts[job[t].target].code = t /\ Continue(t, "publish")
    <2> DEFINE j == [job[t] EXCEPT !.pc = "publish"]
               c == contracts[job[t].target]
    <2>1. /\ j.pc = "publish" /\ j.mode = job[t].mode
          /\ j.old_config = job[t].old_config /\ j.old_total = job[t].old_total
          /\ j.untouched = job[t].untouched /\ j.by_hand = job[t].by_hand
          /\ JobSound(t, job[t], c)
      BY Continued
    <2> HIDE DEF j
    <2>2. JobSound(t, j, c)
      BY <1>1, <1>2, <2>1 DEF JobSound, DeploysAnew, SnapshotHolds, LossesOwn,
         ChecksHold
    <2> QED
      BY <1>1, <1>2, <2>2, ContinueInv DEF j
  <1>3. CASE End(t, "refused")
    BY <1>1, <1>3, EndInv DEF Ended
  <1> QED
    BY <1>2, <1>3 DEF HashVerify

-----------------------------------------------------------------------------
(* The operator, the wallet and the users.                                 *)

\* A contract changes outside the jobs, and those that work on it bear a mark.
LEMMA OutsideInv ==
    ASSUME PipelineInv, NEW id \in DOMAIN contracts, NEW new \in Contracts,
           contracts' = [contracts EXCEPT ![id] = new],
           UNCHANGED <<variable, settings>>, DOMAIN job' = Tag, job' = [t \in Tag |-> job'[t]],
           \A t \in Tag : job[t].target # id => job'[t] = job[t],
           \A t \in Tag : job[t].target = id =>
               /\ job'[t] \in Jobs
               /\ job'[t].pc = job[t].pc /\ job'[t].target = id
               /\ JobSound(t, job'[t], new)
    PROVE  PipelineInv'
  <1>1. /\ contracts \in [DOMAIN contracts -> Contracts]
        /\ job \in [Tag -> Jobs]
    BY DEF PipelineInv, PipelineTypeOK
  <1>2. /\ DOMAIN contracts' = DOMAIN contracts
        /\ contracts' \in [DOMAIN contracts' -> Contracts]
        /\ contracts'[id] = new
        /\ \A c \in DOMAIN contracts \ {id} : contracts'[c] = contracts[c]
    BY <1>1
  <1>3. \A t \in Tag : /\ job'[t] \in Jobs /\ job'[t].pc = job[t].pc
                       /\ job'[t].target = job[t].target
    BY <1>1
  <1>4. PipelineTypeOK'
    BY <1>2, <1>3 DEF PipelineInv, PipelineTypeOK
  <1>5. OneRunning'
    BY <1>3 DEF PipelineInv, OneRunning, Running
  <1>6. TargetExists'
    BY <1>2, <1>3 DEF PipelineInv, TargetExists
  <1>7. ASSUME NEW t \in Tag
        PROVE  JobSound(t, job'[t], contracts'[job'[t].target])
    <2>1. CASE job[t].target = id
      BY <1>2, <1>3, <2>1
    <2>2. CASE job[t].target \in DOMAIN contracts \ {id}
      BY <1>2, <1>3, <2>2 DEF PipelineInv, JobsSound
    <2>3. CASE job[t].target \notin DOMAIN contracts
      <3>1. job'[t] = job[t] /\ job[t].pc \notin Steps \ {"deploy"}
        BY <2>3 DEF PipelineInv, TargetExists
      <3>2. JobSound(t, job[t], contracts[job[t].target])
        BY DEF PipelineInv, JobsSound
      <3> QED
        BY <3>1, <3>2 DEF JobSound, DeploysAnew, SnapshotHolds, LossesOwn,
           ChecksHold, Steps
    <2> QED
      BY <2>1, <2>2, <2>3
  <1>8. JobsSound'
    BY <1>7 DEF JobsSound
  <1> QED
    BY <1>4, <1>5, <1>6, <1>8 DEF PipelineInv

\* Calls of users change the total of a contract and nothing else of it that
\* a job looks at.
LEMMA UserCallInv ==
    ASSUME PipelineInv, NEW id \in DOMAIN contracts, UserCall(id)
    PROVE  PipelineInv'
  <1>1. /\ contracts \in [DOMAIN contracts -> Contracts] /\ contracts[id] \in Contracts
        /\ job \in [Tag -> Jobs]
        /\ UNCHANGED <<variable, settings>>
    BY DEF UserCall, PipelineInv, PipelineTypeOK
  <1>2. PICK n \in {1, -1} :
           /\ contracts[id].held + n \in 0..MaxEscrow
           /\ contracts' = [contracts EXCEPT ![id].held = @ + n, ![id].total = @ + n]
    BY DEF UserCall
  <1> DEFINE new == [contracts[id] EXCEPT !.held = @ + n, !.total = @ + n]
  <1>3. contracts[id].held + n \in Nat /\ contracts[id].total + n \in Int
    BY <1>1, <1>2, PipelineAssumption DEF Contracts
  <1>4. contracts' = [contracts EXCEPT ![id] = new]
    BY <1>1, <1>2 DEF Contracts
  <1>5. new \in Contracts
    BY <1>1, <1>3 DEF Contracts
  <1>6. new.code = contracts[id].code /\ new.config = contracts[id].config
    BY <1>1 DEF Contracts
  <1> HIDE DEF new
  <1>7. /\ contracts' = [contracts EXCEPT ![id] = new]
        /\ new \in Contracts
        /\ new.code = contracts[id].code /\ new.config = contracts[id].config
    BY <1>4, <1>5, <1>6
  <1>8. job' = [t \in Tag |-> IF job[t].target = id
                              THEN [job[t] EXCEPT !.untouched = FALSE] ELSE job[t]]
    BY DEF UserCall, Noted
  <1>9. ASSUME NEW t \in Tag, job[t].target = id
        PROVE  /\ job'[t] \in Jobs
               /\ job'[t].pc = job[t].pc /\ job'[t].target = id
               /\ JobSound(t, job'[t], new)
    <2>1. JobSound(t, job[t], contracts[id])
      BY <1>9 DEF PipelineInv, JobsSound
    <2>2. job[t] \in Jobs /\ job'[t] = [job[t] EXCEPT !.untouched = FALSE]
      BY <1>1, <1>8, <1>9
    <2>3. /\ job'[t] \in Jobs /\ job'[t].pc = job[t].pc /\ job'[t].target = id
          /\ job'[t].mode = job[t].mode /\ job'[t].by_hand = job[t].by_hand
          /\ job'[t].old_config = job[t].old_config /\ ~job'[t].untouched
      BY <1>9, <2>2 DEF Jobs
    <2>4. JobSound(t, job'[t], new)
      BY <1>7, <2>1, <2>3 DEF JobSound, DeploysAnew, SnapshotHolds, LossesOwn,
         ChecksHold
    <2> QED
      BY <2>3, <2>4
  <1> QED
    BY <1>1, <1>7, <1>8, <1>9, OutsideInv

\* The wallet changes whatever it likes, and the jobs bear the mark.
LEMMA ManualUpgradeInv ==
    ASSUME PipelineInv, NEW id \in DOMAIN contracts, NEW code \in Version,
           ManualUpgrade(id, code)
    PROVE  PipelineInv'
  <1> DEFINE new == Replaced(contracts[id], code)
  <1>1. /\ contracts[id] \in Contracts /\ job \in [Tag -> Jobs]
        /\ contracts' = [contracts EXCEPT ![id] = new]
        /\ UNCHANGED <<variable, settings>>
    BY DEF ManualUpgrade, PipelineInv, PipelineTypeOK
  <1>2. new \in Contracts
    BY <1>1, ReplacedFields
  <1> HIDE DEF new
  <1>3. job' = [t \in Tag |-> IF job[t].target = id
                              THEN [job[t] EXCEPT !.by_hand = job[t].pc] ELSE job[t]]
    BY DEF ManualUpgrade, Noted
  <1>4. ASSUME NEW t \in Tag, job[t].target = id
        PROVE  /\ job'[t] \in Jobs
               /\ job'[t].pc = job[t].pc /\ job'[t].target = id
               /\ JobSound(t, job'[t], new)
    <2>1. DeploysAnew(job[t])
      BY DEF PipelineInv, JobsSound, JobSound
    <2>2. job[t] \in Jobs /\ job'[t] = [job[t] EXCEPT !.by_hand = job[t].pc]
      BY <1>1, <1>3, <1>4
    <2>3. /\ job'[t] \in Jobs /\ job'[t].pc = job[t].pc /\ job'[t].target = id
          /\ job'[t].mode = job[t].mode /\ job'[t].by_hand = job'[t].pc
      BY <1>4, <2>2 DEF Jobs
    <2>4. JobSound(t, job'[t], new)
      BY <2>1, <2>3 DEF JobSound, DeploysAnew, SnapshotHolds, LossesOwn,
         ChecksHold
    <2> QED
      BY <2>3, <2>4
  <1> QED
    BY <1>1, <1>2, <1>3, <1>4, OutsideInv

\* The operator may change every variable at any time.
LEMMA OperatorInv ==
    ASSUME PipelineInv, SetVariable \/ SetSettings
    PROVE  PipelineInv'
  <1>1. UNCHANGED <<contracts, job>>
    BY DEF SetVariable, SetSettings
  <1>2. PipelineTypeOK'
    BY <1>1 DEF PipelineInv, PipelineTypeOK, SetVariable, SetSettings
  <1> QED
    BY <1>1, <1>2 DEF PipelineInv, OneRunning, Running, TargetExists, JobsSound

-----------------------------------------------------------------------------
(* The theorems.                                                           *)

\* Every step of the pipeline keeps the invariant.
LEMMA PipelineStepInv ==
    ASSUME PipelineInv, [PipelineNext]_pipelineVars
    PROVE  PipelineInv'
  <1>1. ASSUME NEW t \in Tag, PushTag(t) \/ Rerun(t)
        PROVE  PipelineInv'
    <2>1. job[t].pc \notin Steps /\ Enqueue(t)
      BY <1>1 DEF PushTag, Rerun, Ended, Steps
    <2> QED
      BY <2>1, EnqueueInv
  <1>2. ASSUME NEW t \in Tag, Step(t)
        PROVE  PipelineInv'
    <2>1. CASE Publish(t)
      BY <2>1, EndInv DEF Publish, Ended
    <2>2. CASE StepFails(t)
      BY <2>2, EndInv DEF StepFails, Ended
    <2> QED
      BY <1>2, <2>1, <2>2, DeployInv, PreUpgradeInv, SnapshotInv, UpgradeInv,
         PostConfigInv, PostTotalInv, HashVerifyInv DEF Step
  <1>3. CASE UNCHANGED pipelineVars
    BY <1>3 DEF pipelineVars, PipelineInv, PipelineTypeOK, OneRunning, Running,
                TargetExists, JobsSound
  <1> QED
    BY <1>1, <1>2, <1>3, StartInv, OperatorInv, UserCallInv, ManualUpgradeInv
       DEF PipelineNext

\* In every reachable state the running job is alone, and what it has read
\* and checked holds, or bears the mark of a user or of an upgrade by hand,
\* whatever the operator, the wallet, the users and other tags do meanwhile.
THEOREM PipelineInvariance == PipelineSpec => []PipelineInv
  <1>1. PipelineInit => PipelineInv
    <2>1. SUFFICES ASSUME PipelineInit PROVE PipelineInv
      OBVIOUS
    <2>2. NoJob \in Jobs /\ NoJob.pc = "none"
      BY DEF NoJob, Jobs, Waiting
    <2>3. DOMAIN contracts = {} /\ \A t \in Tag : job[t] = NoJob
      BY <2>1 DEF PipelineInit
    <2>4. PipelineTypeOK
      BY <2>1, <2>2 DEF PipelineInit, PipelineTypeOK
    <2>5. \A t \in Tag : job[t].pc \notin Steps
      BY <2>2, <2>3 DEF Steps
    <2>6. JobsSound
      BY <2>5, IdleSound DEF JobsSound
    <2> QED
      BY <2>4, <2>5, <2>6 DEF PipelineInv, OneRunning, Running, TargetExists
  <1>2. PipelineInv /\ [PipelineNext]_pipelineVars => PipelineInv'
    BY PipelineStepInv
  <1> QED
    BY <1>1, <1>2, PTL DEF PipelineSpec

\* A job is released by its own publication.
LEMMA OnlyPublishReleases ==
    ASSUME PipelineInv, [PipelineNext]_pipelineVars, NEW t \in Tag, ReleasedNow(t)
    PROVE  job[t].pc = "publish" /\ UNCHANGED contracts
  <1>1. job \in [Tag -> Jobs]
    BY DEF PipelineInv, PipelineTypeOK
  <1>2. job[t].pc # "released" /\ job'[t].pc = "released"
    BY DEF ReleasedNow
  <1>3. ASSUME NEW u \in Tag, NEW pc, pc # "released", End(u, pc) \/ Continue(u, pc)
        PROVE  FALSE
    BY <1>1, <1>2, <1>3 DEF End, Continue, NoJob, Jobs
  <1>4. ASSUME NEW u \in Tag, Enqueue(u)
        PROVE  FALSE
    BY <1>1, <1>2, <1>4 DEF Enqueue, NoJob, Jobs
  <1>5. ASSUME NEW u \in Tag, Start(u)
        PROVE  FALSE
    <2>1. CASE End(u, "refused")
      BY <1>3, <2>1
    <2>2. CASE ~End(u, "refused")
      BY <1>1, <1>2, <1>5, <2>2 DEF Start, DetermineMode, Jobs
    <2> QED
      BY <2>1, <2>2
  <1>6. ASSUME NEW u \in Tag, NEW id, Answered(u, id)
        PROVE  FALSE
    <2>1. CASE End(u, "failed")
      BY <1>3, <2>1
    <2>2. CASE job' = [job EXCEPT ![u].pc = "post", ![u].target = id]
      BY <1>1, <1>2, <2>2 DEF Jobs
    <2> QED
      BY <1>6, <2>1, <2>2 DEF Answered
  <1>7. ASSUME NEW u \in Tag, PreUpgrade(u) \/ Snapshot(u)
        PROVE  FALSE
    <2>1. CASE End(u, "refused")
      BY <1>3, <2>1
    <2>2. CASE ~End(u, "refused")
      BY <1>1, <1>2, <1>7, <2>2 DEF PreUpgrade, Snapshot, Jobs
    <2> QED
      BY <2>1, <2>2
  <1>8. ASSUME NEW u \in Tag, Publish(u)
        PROVE  job[t].pc = "publish" /\ UNCHANGED contracts
    BY <1>1, <1>2, <1>8 DEF Publish, End
  <1>9. ASSUME NEW id \in DOMAIN contracts,
               UserCall(id) \/ \E code \in Version : ManualUpgrade(id, code)
        PROVE  FALSE
    BY <1>1, <1>2, <1>9 DEF UserCall, ManualUpgrade, Noted, Jobs
  <1>10. ASSUME NEW u \in Tag,
                PostConfig(u) \/ PostTotal(u) \/ HashVerify(u) \/ StepFails(u)
         PROVE  FALSE
    BY <1>3, <1>10 DEF PostConfig, PostTotal, HashVerify, StepFails
  <1>11. ~(SetVariable \/ SetSettings \/ UNCHANGED pipelineVars)
    BY <1>2 DEF SetVariable, SetSettings, pipelineVars
  <1>12. ASSUME NEW u \in Tag, Deploy(u) \/ Upgrade(u)
         PROVE  FALSE
    BY <1>6, <1>12 DEF Deploy, Upgrade
  <1> QED
    BY <1>4, <1>5, <1>7, <1>8, <1>9, <1>10, <1>11, <1>12
       DEF PipelineNext, Step, PushTag, Rerun

\* A release names the code that runs at that moment, although verification
\* and publication are separate steps, other tags wait meanwhile and the
\* wallet may have upgraded by hand at any earlier step.
THEOREM ReleaseNamesLiveCode == PipelineSpec => ReleasedCodeIsLive
  <1> DEFINE Live == \A t \in Tag : ReleasedNow(t) /\ job[t].by_hand # "publish" =>
                       contracts[job[t].target].code = t
  <1>1. ASSUME PipelineInv, [PipelineNext]_pipelineVars
        PROVE  Live
    BY <1>1, OnlyPublishReleases DEF PipelineInv, JobsSound, JobSound, ChecksHold
  <1>2. PipelineInv /\ [PipelineNext]_pipelineVars => [Live]_pipelineVars
    BY <1>1
  <1> QED
    BY <1>2, PipelineInvariance, PTL DEF PipelineSpec, ReleasedCodeIsLive

\* An upgrade is released with the configuration and, if no user was active,
\* the total its contract had before, whatever the wallet did by hand before
\* the check of each.
THEOREM ReleaseLosesNothing == PipelineSpec => ReleaseKeepsState
  <1> DEFINE Kept ==
        \A t \in Tag : ReleasedNow(t) /\ job[t].mode = "upgrade" =>
          LET j == job[t]
              c == contracts[j.target]
          IN  /\ j.by_hand \notin {"post_total", "hash_verify", "publish"} =>
                   c.config = j.old_config
              /\ j.by_hand \notin {"hash_verify", "publish"} /\ j.untouched =>
                   c.total = j.old_total
  <1>1. ASSUME PipelineInv, [PipelineNext]_pipelineVars
        PROVE  Kept
    BY <1>1, OnlyPublishReleases DEF PipelineInv, JobsSound, JobSound, ChecksHold
  <1>2. PipelineInv /\ [PipelineNext]_pipelineVars => [Kept]_pipelineVars
    BY <1>1
  <1> QED
    BY <1>2, PipelineInvariance, PTL DEF PipelineSpec, ReleaseKeepsState

\* What the checks after an upgrade find changed, this upgrade has changed,
\* unless users or the wallet itself were active meanwhile.
THEOREM LossesAreItsOwn == PipelineSpec => []LossesAreOwn
  <1>1. PipelineInv => LossesAreOwn
    BY DEF PipelineInv, JobsSound, JobSound, LossesOwn, LossesAreOwn
  <1> QED
    BY <1>1, PipelineInvariance, PTL
=============================================================================
