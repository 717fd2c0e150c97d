-------------------------- MODULE MCRvcInference --------------------------
(***************************************************************************)
(* Two executor threads and the main thread, and two models that share a   *)
(* HuBERT model. Settings are saved twice, the same ones or others that    *)
(* differ in the HuBERT model and in the number of threads.                *)
(***************************************************************************)
EXTENDS RvcInference, TLC

CONSTANTS w1, w2, main

SameSettings == {[model |-> "a.pth", hubert |-> "base.pt", threads |-> 8]}
OtherSettings ==
  SameSettings \cup {[model |-> "a.pth", hubert |-> "other.pt", threads |-> 2]}

WorkerSymmetry == Permutations({w1, w2})
============================================================================
