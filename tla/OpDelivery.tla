----------------------------- MODULE OpDelivery -----------------------------
(***************************************************************************)
(* What operation synchronisation promises: the operations of each device  *)
(* enter one log exactly once and in the order the device logged them, and *)
(* each device moves along that log without ever going back or overrunning *)
(* it.  How requests, pages, retries and crashes bring this about is the   *)
(* business of SyncEngine.                                                 *)
(***************************************************************************)
EXTENDS Integers, Sequences

CONSTANT Device

VARIABLES
    issued,    \* how many operations each device has logged
    log,       \* the common log, of <<device, number>> pairs
    position   \* how far along the log each device is

Init ==
    /\ issued = [d \in Device |-> 0]
    /\ log = << >>
    /\ position = [d \in Device |-> 0]

Issue(d) ==
    /\ issued' = [issued EXCEPT ![d] = @ + 1]
    /\ UNCHANGED <<log, position>>

InLog(d, n) == \E k \in DOMAIN log : log[k] = <<d, n>>

\* Numbers m+1 .. n of device d enter the log, m being the last one in it.
Commit(d) ==
    /\ \E m, n \in 0 .. issued[d] :
          /\ m < n
          /\ \A i \in 1 .. issued[d] : InLog(d, i) <=> i <= m
          /\ log' = log \o [k \in 1 .. n - m |-> <<d, m + k>>]
    /\ UNCHANGED <<issued, position>>

Deliver(d) ==
    /\ \E p \in position[d] + 1 .. Len(log) : position' = [position EXCEPT ![d] = p]
    /\ UNCHANGED <<issued, log>>

Next == \E d \in Device : Issue(d) \/ Commit(d) \/ Deliver(d)

Spec == Init /\ [][Next]_<<issued, log, position>>
=============================================================================
