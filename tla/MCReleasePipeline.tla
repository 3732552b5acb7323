------------------------- MODULE MCReleasePipeline --------------------------
(***************************************************************************)
(* ReleasePipeline with constructor variables that change independently.   *)
(* The network gives contracts their addresses: any may be any other.      *)
(***************************************************************************)
EXTENDS ReleasePipeline, TLC

MCSettings == { [wallet |-> "w1", rest |-> "x"], [wallet |-> "w1", rest |-> "y"],
                [wallet |-> "w2", rest |-> "x"] }

MCTwoSettings == { s \in MCSettings : s.wallet = "w1" }

ContractSymmetry == Permutations(ContractId)
=============================================================================
