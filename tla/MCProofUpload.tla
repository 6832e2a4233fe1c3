---------------------------- MODULE MCProofUpload ----------------------------
(* Instances of ProofUpload.  Operations, calls and keys are symmetric. *)
EXTENDS ProofUpload, TLC

CONSTANTS o1, o2, o3, a1, a2, a3, k1, k2, daily

Symmetry == Permutations(Objects) \cup Permutations(Calls) \cup Permutations(Keys)
=============================================================================
