---------------------------- MODULE MCWalletUnit ----------------------------
(***************************************************************************)
(* Instances of WalletUnit for TLC.                                        *)
(***************************************************************************)
EXTENDS WalletUnit, TLC

\* Calls and keys of one kind are interchangeable.
Symmetry == Permutations(Units) \cup Permutations(Issues) \cup Permutations(Keys)
              \cup Permutations(Revocations)
=============================================================================
