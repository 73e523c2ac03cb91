---------------------------- MODULE MCMergeGate ----------------------------
(* The instance of MergeGate that TLC checks. *)
EXTENDS MergeGate

CONSTANTS w1, w2
=============================================================================
