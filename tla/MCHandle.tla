------------------------------ MODULE MCHandle ------------------------------
(* EngineHandle with two threads and two databases, which are interchangeable. *)
EXTENDS EngineHandle, TLC

Symmetry == Permutations(Caller) \cup Permutations(Db)
=============================================================================
