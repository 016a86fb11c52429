------------------------- MODULE StatusListContract -------------------------
(***************************************************************************)
(* What the issued credentials rely on: a status list is a sequence of     *)
(* owners that only grows at its end, so that an index, once given out,    *)
(* belongs to its owner for good and no index is skipped.                  *)
(***************************************************************************)
EXTENDS Sequences

CONSTANT Owners

VARIABLE owners

Init == owners \in Seq(Owners)

Allocate(o) == owners' = Append(owners, o)

Next == \E o \in Owners : Allocate(o)

Spec == Init /\ [][Next]_owners

============================================================================
