------------------------------- MODULE MCAuth -------------------------------
(***************************************************************************)
(* Instances of AuthSession for TLC.  Device 2 makes no call of its own:   *)
(* what it could ask of the server a call of device 1 asks as well, and    *)
(* both calls meet on one token, one file and one state.                   *)
(***************************************************************************)
EXTENDS AuthSession

MCOwner == [c \in Call |-> 1]
BothSignedIn == <<1, 2>>
MCRequests == [k \in Clocks |-> IF k = "ordered" THEN 3 ELSE 2]
=============================================================================
