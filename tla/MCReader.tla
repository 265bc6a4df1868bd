------------------------------ MODULE MCReader ------------------------------
(* Files of two chapters: two that have the same identifier, and one whose   *)
(* identifier gives its copy the same name.  What follows an overlap of two  *)
(* users of the open book is not explored: nothing is promised about it.     *)
EXTENDS BookReader, TLC

CONSTANTS f1, f2, f3

MCIdOf == f1 :> "a:1" @@ f2 :> "a:1" @@ f3 :> "a/1"
MCNameOf == [i \in Identifier |-> "a_1"]

\* Of the two files with one identifier, either may be the other.
Swap == f1 :> f2 @@ f2 :> f1
Symmetry == Permutations(Slot) \cup {Swap}
Undisturbed == ~mixed
=============================================================================
