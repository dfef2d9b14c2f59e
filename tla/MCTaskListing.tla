---------------------------- MODULE MCTaskListing ----------------------------
(* Instances of TaskListing for TLC. *)
EXTENDS TaskListing, TLC

\* Given and not given, zero and negative, not a number, over the maximum.
SomePages == {Undefined, NaN, -1, 1}
SomeLimits == {NaN, -1, 0, 9}

Symmetry == Permutations(Tasks)
=============================================================================
