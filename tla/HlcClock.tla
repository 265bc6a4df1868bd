------------------------------ MODULE HlcClock ------------------------------
(***************************************************************************)
(* The clocks of several sync engines.  An engine's clock is a mutex over  *)
(* a timestamp (crates/core_sync/src/engine.rs); it starts from the        *)
(* physical clock, ticks for local events, and is merged with the stamp of *)
(* every operation that is pulled.  It lives as long as its engine: a new  *)
(* engine starts again from the physical clock, which may have been set    *)
(* back.  A counter overflow panics while the mutex is held, and every     *)
(* later use of the clock panics on the poisoned mutex.                    *)
(***************************************************************************)
EXTENDS Hlc

CONSTANTS
    MaxWall,   \* bound: the latest physical time
    MaxLives   \* bound: engines created per node

ASSUME ClockAssumption ==
    /\ MaxWall \in Nat /\ MaxLives \in Nat \ {0}
    /\ (MaxWall + 1) * Base <= Word   \* the 48-bit limit on wall_time_ms

VARIABLES
    hlc,       \* [Node -> Timestamp]
    poisoned,  \* nodes whose clock panicked
    sent,      \* the encoded stamps put on operations
    newest,    \* history: the largest stamp this engine issued or merged, or 0
    lives      \* engines created so far per node

vars == <<hlc, poisoned, sent, newest, lives>>

Now == 0 .. MaxWall

Init ==
    /\ hlc \in [Node -> [wall : Now, counter : {0}, node : Node]]
    /\ \A n \in Node : hlc[n].node = n
    /\ poisoned = {}
    /\ sent = {}
    /\ newest = [n \in Node |-> 0]
    /\ lives = [n \in Node |-> 1]

\* SyncEngine::tick: advance the clock; the stamp goes on an operation.
TickEvent(n, now) ==
    /\ n \notin poisoned
    /\ IF TickPanics(hlc[n], now)
       THEN /\ poisoned' = poisoned \cup {n}
            /\ UNCHANGED <<hlc, sent, newest>>
       ELSE LET ts == Tick(hlc[n], now)
            IN /\ hlc' = [hlc EXCEPT ![n] = ts]
               /\ sent' = sent \cup {ToU64(ts)}
               /\ newest' = [newest EXCEPT ![n] = Max2(@, ToU64(ts))]
               /\ UNCHANGED poisoned
    /\ UNCHANGED lives

\* pull_remote, for an operation of another device: its stamp is decoded with
\* node id 0 and merged.
Receive(n, val, now) ==
    /\ n \notin poisoned
    /\ val \in sent
    /\ LET remote == FromU64(val, 0)
       IN IF MergePanics(hlc[n], remote, now)
          THEN /\ poisoned' = poisoned \cup {n}
               /\ UNCHANGED <<hlc, newest>>
          ELSE /\ hlc' = [hlc EXCEPT ![n] = Merge(@, remote, now)]
               /\ newest' = [newest EXCEPT ![n] = Max2(@, val)]
               /\ UNCHANGED poisoned
    /\ UNCHANGED <<sent, lives>>

\* SyncEngine::new in place of the old engine, or after a restart.
Recreate(n, now) ==
    /\ lives[n] < MaxLives
    /\ hlc' = [hlc EXCEPT ![n] = New(now, n)]
    /\ poisoned' = poisoned \ {n}
    /\ newest' = [newest EXCEPT ![n] = 0]
    /\ lives' = [lives EXCEPT ![n] = @ + 1]
    /\ UNCHANGED sent

Next == \E n \in Node, now \in Now :
    \/ TickEvent(n, now)
    \/ \E val \in sent : Receive(n, val, now)
    \/ Recreate(n, now)

Spec == Init /\ [][Next]_vars

-----------------------------------------------------------------------------

\* The types of the clocks, of the stamps in transit and of the histories.
TypeOK ==
    /\ hlc \in [Node -> Timestamp]
    /\ poisoned \subseteq Node
    /\ sent \subseteq 0 .. Word - 1
    /\ newest \in [Node -> 0 .. Word - 1]
    /\ lives \in [Node -> 1 .. MaxLives]

\* An engine's clock is never behind a stamp it issued or merged, in the order
\* in which stamps are compared (u64), whatever the physical clock does.
ClockDominates ==
    \A n \in Node : newest[n] <= ToU64(hlc[n])

\* A clock that moves within one engine's life moves strictly up, in the u64
\* order and so past every stamp it has issued or merged.
ClockGrows ==
    [][\A n \in Node : lives'[n] = lives[n] /\ hlc'[n] # hlc[n] =>
          /\ ToU64(hlc[n]) < ToU64(hlc'[n])
          /\ newest[n] < ToU64(hlc'[n])]_vars

\* Storing or sending a stamp loses nothing but the node id.
RoundTrips == \A n \in Node : FromU64(ToU64(hlc[n]), n) = hlc[n]
=============================================================================
