----------------------------- MODULE MCPageSync -----------------------------
(* Instances of PageSync for the model checker. *)
EXTENDS PageSync, TLC

CONSTANTS b1, b2, v0, v1, v2

\* The blocks are interchangeable, and so are the values other than the first.
Symmetry == Permutations({b1, b2}) \cup Permutations({v1, v2})

\* Of a deletion of the remote page, a version of the same body and a crash one at most.
OneSurprise == spent.touch + spent.delete + spent.crash <= 1
=============================================================================
