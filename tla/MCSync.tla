------------------------------- MODULE MCSync -------------------------------
(***************************************************************************)
(* Instances of SyncEngine for TLC.                                        *)
(***************************************************************************)
EXTENDS SyncEngine

CONSTANTS d1, d2, s1, s2, b1, progress, bookmark

MCObject == {progress, bookmark}
MCBookOf == [o \in MCObject |-> b1]
MCBookOfP == [o \in {progress} |-> b1]
OnePerDevice == [s \in Session |-> IF s = s1 THEN d1 ELSE d2]
BothHaveBook == [d \in Device |-> {b1}]
OnlyFirstHasBook == [d \in Device |-> IF d = d1 THEN {b1} ELSE {}]
Ops22 == [d \in Device |-> 2]
Ops20 == [d \in Device |-> IF d = d1 THEN 2 ELSE 0]
Ops11 == [d \in Device |-> 1]
Stamps2 == 1 .. 2
Stamps3 == 1 .. 3
=============================================================================
