------------------------------ MODULE MCFiles -------------------------------
(***************************************************************************)
(* Instances of FileSync for TLC.                                          *)
(***************************************************************************)
EXTENDS FileSync, TLC

CONSTANTS b1, b2, f0

OneStored == [f \in {f0} |-> b1]
FaultBounds == [s \in BOOLEAN |-> IF s THEN 2 ELSE 1]
Alike == Permutations(Call) \cup Permutations(Task)
=============================================================================
