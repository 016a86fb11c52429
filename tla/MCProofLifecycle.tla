-------------------------- MODULE MCProofLifecycle --------------------------
(***************************************************************************)
(* Instances of ProofLifecycle for TLC.                                    *)
(***************************************************************************)
EXTENDS ProofLifecycle, TLC

\* Submissions, shares and API cleaners are interchangeable among themselves.
Symmetry == Permutations(Subs) \cup Permutations(Shares) \cup Permutations(Cleaners)
=============================================================================
