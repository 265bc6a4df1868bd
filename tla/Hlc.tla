-------------------------------- MODULE Hlc --------------------------------
(***************************************************************************)
(* Hybrid logical clock timestamps (crates/core_sync/src/lib.rs): tick and *)
(* merge, and the u64 encoding by which stamps are stored, sent and        *)
(* compared.  The encoding leaves node_id out.                             *)
(***************************************************************************)
EXTENDS Integers

CONSTANTS
    Node,      \* node ids
    Base,      \* size of the counter field: 2^16
    Word       \* size of the encoding: 2^64

ASSUME HlcAssumption ==
    /\ Node \subseteq Nat
    /\ Base \in Nat \ {0, 1}
    /\ \E q \in 1 .. Word : Word = q * Base

\* The counter is a u16.
CounterMax == Base - 1

Timestamp == [wall : Nat, counter : 0 .. CounterMax, node : Nat]

New(now, node) == [wall |-> now, counter |-> 0, node |-> node]

\* The derived order: wall time, then counter, then node id.
Less(a, b) ==
    \/ a.wall < b.wall
    \/ a.wall = b.wall /\ a.counter < b.counter
    \/ a.wall = b.wall /\ a.counter = b.counter /\ a.node < b.node

\* (wall << 16) | counter: what is shifted out of the 64 bits is lost.
ToU64(ts) == ((ts.wall * Base) % Word) + ts.counter

\* Mutant of FromU64: the counter is masked away.
FromU64NoCounter(val, node) == [wall |-> val \div Base, counter |-> 0, node |-> node]

FromU64(val, node) == [wall |-> val \div Base, counter |-> val % Base, node |-> node]

-----------------------------------------------------------------------------
(* tick and merge count in the u16 counter with checked_add: where Next    *)
(* would not fit, the code panics.                                         *)

Max2(a, b) == IF a >= b THEN a ELSE b

\* The wall time of a tick and of a merge, and the counter that their result
\* goes on from: -1 when the wall time is new.
TickWall(ts, now) == Max2(now, ts.wall)
TickFrom(ts, now) == IF now > ts.wall THEN -1 ELSE ts.counter

MergeWall(ts, remote, now) == Max2(Max2(now, ts.wall), remote.wall)

\* Mutant of MergeFrom: equal wall times keep the local counter.
MergeFromLocal(ts, remote, now) ==
    LET wall == MergeWall(ts, remote, now)
    IN IF wall = ts.wall THEN ts.counter
       ELSE IF wall = remote.wall THEN remote.counter
       ELSE -1

MergeFrom(ts, remote, now) ==
    LET wall == MergeWall(ts, remote, now)
    IN IF wall = ts.wall /\ wall = remote.wall THEN Max2(ts.counter, remote.counter)
       ELSE IF wall = ts.wall THEN ts.counter
       ELSE IF wall = remote.wall THEN remote.counter
       ELSE -1

\* Mutant of TickPanics: the counter is incremented without a check.
TickNeverPanics(ts, now) == FALSE

TickPanics(ts, now) == TickFrom(ts, now) = CounterMax

\* Mutant of Tick: takes the wall clock when it reads the same millisecond.
TickRereads(ts, now) ==
    IF now >= ts.wall THEN New(now, ts.node) ELSE [ts EXCEPT !.counter = @ + 1]

Tick(ts, now) ==
    [wall |-> TickWall(ts, now), counter |-> TickFrom(ts, now) + 1, node |-> ts.node]

MergePanics(ts, remote, now) == MergeFrom(ts, remote, now) = CounterMax

Merge(ts, remote, now) ==
    [wall |-> MergeWall(ts, remote, now), counter |-> MergeFrom(ts, remote, now) + 1,
     node |-> ts.node]
=============================================================================
