---------------------------- MODULE MCStatusList ----------------------------
(* Instances of StatusList for TLC. *)
EXTENDS StatusList, TLC

(* Allocations of one kind, and entities, are interchangeable. *)
CallSymmetry == Permutations(Nested) \cup Permutations(Allocations \ Nested)
                  \cup Permutations(Entities)

============================================================================
