----------------------------- MODULE HlcProofs -----------------------------
(***************************************************************************)
(* Theorems about the clocks, for any counter and word size, any nodes and *)
(* any physical clocks within the 48-bit limit.                            *)
(***************************************************************************)
EXTENDS HlcClock, TLAPS

\* A stamp whose wall time is within the 48-bit limit.
Encodable(ts) == ts \in Timestamp /\ ts.wall <= MaxWall

\* One more on the wall time outweighs any counter.
LEMMA ScaledOrder ==
    ASSUME NEW a \in Nat, NEW b \in Nat, NEW B \in Nat, a < b
    PROVE  a * B + B <= b * B
<1>1. PICK e \in Nat : b = a + 1 + e
  BY b - a - 1 \in Nat
<1>2. b * B = a * B + B + e * B
  BY <1>1
<1>3. e * B \in Nat /\ a * B \in Nat
  OBVIOUS
<1>4. QED
  BY <1>2, <1>3

LEMMA ModSmall ==
    ASSUME NEW x \in Nat, NEW W \in Nat, x < W
    PROVE  x % W = x
  OBVIOUS

\* Within the limit nothing is shifted out of the word.
LEMMA EncodingExact ==
    ASSUME NEW ts, Encodable(ts)
    PROVE  /\ ToU64(ts) = ts.wall * Base + ts.counter
           /\ ToU64(ts) \in 0 .. Word - 1
<1>1. ts.wall \in Nat /\ ts.counter \in Nat /\ ts.counter < Base /\ ts.wall < MaxWall + 1
  BY HlcAssumption, ClockAssumption DEF Encodable, Timestamp, CounterMax
<1>2. Base \in Nat /\ MaxWall \in Nat /\ Word \in Nat /\ (MaxWall + 1) * Base <= Word
  BY HlcAssumption, ClockAssumption
<1>3. ts.wall * Base + Base <= (MaxWall + 1) * Base
  BY <1>1, <1>2, ScaledOrder
<1>4. ts.wall * Base \in Nat /\ (MaxWall + 1) * Base \in Nat
  BY <1>1, <1>2
<1>5. ts.wall * Base < Word /\ ts.wall * Base + ts.counter < Word
  BY <1>1, <1>2, <1>3, <1>4
<1>6. (ts.wall * Base) % Word = ts.wall * Base
  BY <1>2, <1>4, <1>5, ModSmall
<1>7. QED
  BY <1>1, <1>2, <1>4, <1>5, <1>6 DEF ToU64

\* The u64 order is the order of wall time, then counter.
LEMMA EncodingOrder ==
    ASSUME NEW a, NEW b, Encodable(a), Encodable(b),
           a.wall < b.wall \/ (a.wall = b.wall /\ a.counter < b.counter)
    PROVE  ToU64(a) < ToU64(b)
<1>1. /\ a.wall \in Nat /\ a.counter \in Nat /\ a.counter < Base
      /\ b.wall \in Nat /\ b.counter \in Nat
      /\ Base \in Nat
  BY HlcAssumption DEF Encodable, Timestamp, CounterMax
<1>2. ToU64(a) = a.wall * Base + a.counter /\ ToU64(b) = b.wall * Base + b.counter
  BY EncodingExact
<1>3. a.wall * Base \in Nat /\ b.wall * Base \in Nat
  BY <1>1
<1>4. CASE a.wall < b.wall
  <2>1. a.wall * Base + Base <= b.wall * Base
    BY <1>1, <1>4, ScaledOrder
  <2>2. QED
    BY <1>1, <1>2, <1>3, <2>1
<1>5. CASE a.wall = b.wall /\ a.counter < b.counter
  BY <1>1, <1>2, <1>3, <1>5
<1>6. QED
  BY <1>4, <1>5

LEMMA DivMod ==
    ASSUME NEW w \in Nat, NEW B \in Nat \ {0}, NEW c \in 0 .. B - 1
    PROVE  (w * B + c) \div B = w /\ (w * B + c) % B = c
  OBVIOUS

\* from_u64 gives back what to_u64 encoded, with the node id it is told.
LEMMA DecodeEncoded ==
    ASSUME NEW ts, Encodable(ts), NEW node \in Nat
    PROVE  FromU64(ToU64(ts), node) = [wall |-> ts.wall, counter |-> ts.counter, node |-> node]
<1>1. ts.wall \in Nat /\ Base \in Nat \ {0} /\ ts.counter \in 0 .. Base - 1
  BY HlcAssumption DEF Encodable, Timestamp, CounterMax
<1>2. ToU64(ts) = ts.wall * Base + ts.counter
  BY EncodingExact
<1>3. ToU64(ts) \div Base = ts.wall /\ ToU64(ts) % Base = ts.counter
  <2> DEFINE w == ts.wall
             c == ts.counter
  <2>1. w \in Nat /\ Base \in Nat \ {0} /\ c \in 0 .. Base - 1 /\ ToU64(ts) = w * Base + c
    BY <1>1, <1>2
  <2> HIDE DEF w, c
  <2>2. (w * Base + c) \div Base = w /\ (w * Base + c) % Base = c
    BY <2>1, DivMod
  <2>3. ToU64(ts) \div Base = w /\ ToU64(ts) % Base = c
    BY <2>1, <2>2
  <2>4. QED
    BY <2>3 DEF w, c
<1>4. QED
  BY <1>3 DEF FromU64

\* "a new timestamp that is guaranteed to be greater than self".
LEMMA TickGreater ==
    ASSUME NEW ts, Encodable(ts), NEW now \in Now, ~TickPanics(ts, now)
    PROVE  /\ Encodable(Tick(ts, now))
           /\ Tick(ts, now).node = ts.node
           /\ ToU64(ts) < ToU64(Tick(ts, now))
<1> DEFINE u == Tick(ts, now)
<1>1. /\ ts \in [wall : Nat, counter : 0 .. CounterMax, node : Nat]
      /\ ts.wall <= MaxWall /\ now \in Nat /\ now <= MaxWall
      /\ CounterMax \in Nat /\ MaxWall \in Nat
  BY HlcAssumption, ClockAssumption DEF Encodable, Timestamp, CounterMax, Now
<1>2. /\ u.wall = (IF now > ts.wall THEN now ELSE ts.wall)
      /\ u.counter = (IF now > ts.wall THEN 0 ELSE ts.counter + 1)
      /\ u.node = ts.node
  BY <1>1 DEF Tick, TickWall, TickFrom, Max2
<1>3. u.counter \in 0 .. CounterMax
  BY <1>1, <1>2 DEF TickPanics, TickFrom
<1>4. Encodable(u)
  <2>1. u.wall \in Nat /\ u.wall <= MaxWall /\ u.node \in Nat
    BY <1>1, <1>2
  <2>2. u = [wall |-> u.wall, counter |-> u.counter, node |-> u.node]
    BY DEF Tick
  <2> HIDE DEF u
  <2>3. QED
    BY <1>3, <2>1, <2>2 DEF Encodable, Timestamp
<1>5. ts.wall < u.wall \/ (ts.wall = u.wall /\ ts.counter < u.counter)
  BY <1>1, <1>2
<1> HIDE DEF u
<1>6. ToU64(ts) < ToU64(u)
  BY <1>4, <1>5, EncodingOrder
<1>7. QED
  BY <1>2, <1>4, <1>6 DEF u

\* "a new timestamp that is greater than both self and remote".
LEMMA MergeGreater ==
    ASSUME NEW ts, NEW remote, Encodable(ts), Encodable(remote), NEW now \in Now,
           ~MergePanics(ts, remote, now)
    PROVE  LET u == Merge(ts, remote, now) IN
           /\ Encodable(u)
           /\ u.node = ts.node
           /\ ToU64(ts) < ToU64(u)
           /\ ToU64(remote) < ToU64(u)
<1> DEFINE u == Merge(ts, remote, now)
           w == MergeWall(ts, remote, now)
           from == MergeFrom(ts, remote, now)
<1>1. /\ ts \in [wall : Nat, counter : 0 .. CounterMax, node : Nat]
      /\ remote \in [wall : Nat, counter : 0 .. CounterMax, node : Nat]
      /\ ts.wall <= MaxWall /\ remote.wall <= MaxWall /\ now \in Nat /\ now <= MaxWall
      /\ CounterMax \in Nat /\ MaxWall \in Nat
  BY HlcAssumption, ClockAssumption DEF Encodable, Timestamp, CounterMax, Now
<1>2. /\ w \in Nat /\ w <= MaxWall
      /\ ts.wall <= w /\ remote.wall <= w
  BY <1>1 DEF MergeWall, Max2
<1>3. /\ ts.wall = w => ts.counter <= from
      /\ remote.wall = w => remote.counter <= from
      /\ from \in -1 .. CounterMax - 1
  BY <1>1, <1>2 DEF MergeFrom, Max2, MergePanics
<1>4. u = [wall |-> w, counter |-> from + 1, node |-> ts.node]
  BY DEF Merge
<1> HIDE DEF u, w, from
<1>5. u.wall = w /\ u.counter = from + 1 /\ u.node = ts.node
  BY <1>4
<1>6. Encodable(u)
  BY <1>1, <1>2, <1>3, <1>4, <1>5 DEF Encodable, Timestamp
<1>7. ToU64(ts) < ToU64(u)
  <2>1. ts.wall < u.wall \/ (ts.wall = u.wall /\ ts.counter < u.counter)
    BY <1>1, <1>2, <1>3, <1>5
  <2>2. QED
    BY <1>6, <2>1, EncodingOrder
<1>8. ToU64(remote) < ToU64(u)
  <2>1. remote.wall < u.wall \/ (remote.wall = u.wall /\ remote.counter < u.counter)
    BY <1>1, <1>2, <1>3, <1>5
  <2>2. QED
    BY <1>6, <2>1, EncodingOrder
<1>9. QED
  BY <1>5, <1>6, <1>7, <1>8 DEF u

-----------------------------------------------------------------------------
(* The clocks.                                                             *)

\* The encoding of some stamp within the limit.
Encoded(val) == \E ts : Encodable(ts) /\ val = ToU64(ts)

\* What makes ClockDominates inductive: every stamp in transit decodes to the
\* stamp that was encoded, and every clock is within the limit.
ClockInv ==
    /\ hlc \in [Node -> Timestamp]
    /\ \A n \in Node : hlc[n].wall <= MaxWall /\ hlc[n].node = n
    /\ poisoned \in SUBSET Node
    /\ \A val \in sent : Encoded(val)
    /\ newest \in [Node -> 0 .. Word - 1]
    /\ lives \in [Node -> 1 .. MaxLives]
    /\ ClockDominates

LEMMA ClockEncodable ==
    ASSUME ClockInv, NEW n \in Node
    PROVE  Encodable(hlc[n]) /\ hlc[n].node = n
  BY DEF ClockInv, Encodable

LEMMA NewEncodable ==
    ASSUME NEW n \in Node, NEW now \in Now
    PROVE  Encodable(New(now, n)) /\ New(now, n).node = n
<1>1. n \in Nat /\ now \in Nat /\ now <= MaxWall /\ 0 \in 0 .. CounterMax
  BY HlcAssumption, ClockAssumption DEF Now, CounterMax
<1>2. QED
  BY <1>1 DEF New, Encodable, Timestamp

LEMMA ClockInit == Init => ClockInv
<1> SUFFICES ASSUME Init PROVE ClockInv
  OBVIOUS
<1>1. 0 \in 0 .. CounterMax /\ Node \subseteq Nat /\ Now \subseteq Nat
      /\ \A now \in Now : now <= MaxWall
  BY HlcAssumption, ClockAssumption DEF CounterMax, Now
<1>2. hlc \in [Node -> [wall : Now, counter : {0}, node : Node]]
  BY DEF Init
<1>3. ASSUME NEW n \in Node PROVE hlc[n] \in Timestamp /\ hlc[n].wall <= MaxWall
  <2>1. hlc[n] \in [wall : Now, counter : {0}, node : Node]
    BY <1>2
  <2>2. QED
    BY <1>1, <2>1 DEF Timestamp
<1>4. hlc \in [Node -> Timestamp]
  BY <1>2, <1>3
<1>5. 0 \in 0 .. Word - 1 /\ 1 \in 1 .. MaxLives
  <2>1. MaxWall + 1 \in Nat \ {0} /\ Base \in Nat \ {0}
    BY HlcAssumption, ClockAssumption
  <2>2. (MaxWall + 1) * Base \in Nat \ {0}
    <3>1. 0 * Base + Base <= (MaxWall + 1) * Base
      BY <2>1, ScaledOrder
    <3>2. QED
      BY <2>1, <3>1
  <2>3. QED
    BY <2>2, HlcAssumption, ClockAssumption
<1>6. ASSUME NEW n \in Node PROVE newest[n] <= ToU64(hlc[n])
  <2>1. Encodable(hlc[n])
    BY <1>3 DEF Encodable
  <2>2. QED
    BY <2>1, EncodingExact DEF Init
<1>7. QED
  BY <1>3, <1>4, <1>5, <1>6 DEF Init, ClockInv, ClockDominates

\* A clock that is set to a stamp u no smaller than what it issued or merged
\* by then; the other clocks stand still.
LEMMA ClockSet ==
    ASSUME ClockInv, NEW n \in Node, NEW u, NEW v \in 0 .. Word - 1,
           Encodable(u), u.node = n, v <= ToU64(u),
           hlc' = [hlc EXCEPT ![n] = u],
           newest' = [newest EXCEPT ![n] = v],
           poisoned' \in SUBSET Node,
           \A val \in sent' : Encoded(val),
           lives' \in [Node -> 1 .. MaxLives]
    PROVE  ClockInv'
<1>1. hlc \in [Node -> Timestamp] /\ newest \in [Node -> 0 .. Word - 1] /\ u \in Timestamp
  BY DEF ClockInv, Encodable
<1>2. hlc' \in [Node -> Timestamp] /\ newest' \in [Node -> 0 .. Word - 1]
  BY <1>1
<1>3. /\ hlc'[n] = u /\ newest'[n] = v
      /\ \A m \in Node : m # n => hlc'[m] = hlc[m] /\ newest'[m] = newest[m]
  BY <1>1
<1>4. ASSUME NEW m \in Node
      PROVE  hlc'[m].wall <= MaxWall /\ hlc'[m].node = m /\ newest'[m] <= ToU64(hlc'[m])
  <2>1. CASE m = n
    BY <1>3, <2>1 DEF Encodable
  <2>2. CASE m # n
    BY <1>3, <2>2 DEF ClockInv, ClockDominates
  <2>3. QED
    BY <2>1, <2>2
<1>5. ClockDominates'
  BY <1>4 DEF ClockDominates, ToU64
<1>6. QED
  BY <1>2, <1>4, <1>5 DEF ClockInv, Encoded, Encodable, ToU64

\* A clock that moves to a larger stamp u, after issuing or merging v; the
\* stamp it had and v are both behind u.
LEMMA ClockMoves ==
    ASSUME ClockInv, NEW n \in Node, NEW u, NEW v \in 0 .. Word - 1,
           Encodable(u), u.node = n, v <= ToU64(u), ToU64(hlc[n]) < ToU64(u),
           hlc' = [hlc EXCEPT ![n] = u],
           newest' = [newest EXCEPT ![n] = Max2(@, v)],
           poisoned' \in SUBSET Node,
           \A val \in sent' : Encoded(val),
           lives' \in [Node -> 1 .. MaxLives]
    PROVE  ClockInv' /\ newest[n] < ToU64(u)
<1> DEFINE m == Max2(newest[n], v)
<1>1. newest[n] \in 0 .. Word - 1 /\ newest[n] <= ToU64(hlc[n]) /\ Word \in Nat
  BY HlcAssumption, ClockAssumption DEF ClockInv, ClockDominates
<1>2. ToU64(u) \in Int /\ ToU64(hlc[n]) \in Int
  BY EncodingExact, ClockEncodable
<1>3. newest[n] < ToU64(u)
  BY <1>1, <1>2
<1>4. m \in 0 .. Word - 1 /\ m <= ToU64(u)
  BY <1>1, <1>2, <1>3 DEF Max2
<1>5. newest' = [newest EXCEPT ![n] = m]
  OBVIOUS
<1> HIDE DEF m
<1>6. QED
  BY <1>3, <1>4, <1>5, ClockSet

\* Within one engine's life a clock that moves moves past everything.
Grows(n) ==
    lives'[n] = lives[n] /\ hlc'[n] # hlc[n] =>
        /\ ToU64(hlc[n]) < ToU64(hlc'[n])
        /\ newest[n] < ToU64(hlc'[n])

LEMMA TickStep ==
    ASSUME ClockInv, NEW n \in Node, NEW now \in Now, TickEvent(n, now)
    PROVE  ClockInv' /\ \A m \in Node : Grows(m)
<1> DEFINE u == Tick(hlc[n], now)
<1>1. CASE TickPanics(hlc[n], now)
  <2>1. poisoned' \in SUBSET Node /\ UNCHANGED <<hlc, sent, newest, lives>>
    BY <1>1 DEF TickEvent, ClockInv
  <2>2. QED
    BY <2>1 DEF ClockInv, ClockDominates, Encoded, Grows, ToU64
<1>2. CASE ~TickPanics(hlc[n], now)
  <2>1. Encodable(u) /\ u.node = n /\ ToU64(hlc[n]) < ToU64(u)
    BY <1>2, ClockEncodable, TickGreater
  <2>2. /\ hlc' = [hlc EXCEPT ![n] = u]
        /\ sent' = sent \cup {ToU64(u)}
        /\ newest' = [newest EXCEPT ![n] = Max2(@, ToU64(u))]
        /\ UNCHANGED <<poisoned, lives>>
    BY <1>2 DEF TickEvent
  <2> HIDE DEF u
  <2>3. ToU64(u) \in 0 .. Word - 1 /\ ToU64(u) <= ToU64(u)
    BY <2>1, EncodingExact
  <2>4. \A val \in sent' : Encoded(val)
    BY <2>1, <2>2 DEF ClockInv, Encoded
  <2>5. poisoned' \in SUBSET Node /\ lives' \in [Node -> 1 .. MaxLives]
    BY <2>2 DEF ClockInv
  <2>6. ClockInv' /\ newest[n] < ToU64(u)
    BY <2>1, <2>2, <2>3, <2>4, <2>5, ClockMoves
  <2>7. hlc'[n] = u /\ \A m \in Node : m # n => hlc'[m] = hlc[m]
    BY <2>2 DEF ClockInv
  <2>8. QED
    BY <2>1, <2>6, <2>7 DEF Grows
<1>3. QED
  BY <1>1, <1>2

LEMMA ReceiveStep ==
    ASSUME ClockInv, NEW n \in Node, NEW now \in Now, NEW val, Receive(n, val, now)
    PROVE  ClockInv' /\ \A m \in Node : Grows(m)
<1> DEFINE remote == FromU64(val, 0)
           u == Merge(hlc[n], remote, now)
<1>1. PICK ts : Encodable(ts) /\ val = ToU64(ts)
  BY DEF Receive, ClockInv, Encoded
<1>2. remote = [wall |-> ts.wall, counter |-> ts.counter, node |-> 0]
  BY <1>1, DecodeEncoded
<1>3. Encodable(remote) /\ ToU64(remote) = val
  BY <1>1, <1>2 DEF Encodable, Timestamp, ToU64
<1>4. CASE MergePanics(hlc[n], remote, now)
  <2>1. poisoned' \in SUBSET Node /\ UNCHANGED <<hlc, sent, newest, lives>>
    BY <1>4 DEF Receive, ClockInv
  <2>2. QED
    BY <2>1 DEF ClockInv, ClockDominates, Encoded, Grows, ToU64
<1>5. CASE ~MergePanics(hlc[n], remote, now)
  <2>1. /\ hlc' = [hlc EXCEPT ![n] = u]
        /\ newest' = [newest EXCEPT ![n] = Max2(@, val)]
        /\ UNCHANGED <<poisoned, sent, lives>>
    BY <1>5 DEF Receive
  <2> HIDE DEF remote
  <2>2. Encodable(u) /\ u.node = n /\ ToU64(hlc[n]) < ToU64(u) /\ ToU64(remote) < ToU64(u)
    BY <1>3, <1>5, ClockEncodable, MergeGreater
  <2> HIDE DEF u
  <2>3. val \in 0 .. Word - 1 /\ ToU64(u) \in Int
    BY <1>1, <2>2, EncodingExact
  <2>4. val <= ToU64(u)
    BY <1>3, <2>2, <2>3
  <2>5. /\ \A x \in sent' : Encoded(x)
        /\ poisoned' \in SUBSET Node
        /\ lives' \in [Node -> 1 .. MaxLives]
    BY <2>1 DEF ClockInv
  <2>6. ClockInv' /\ newest[n] < ToU64(u)
    BY <2>1, <2>2, <2>3, <2>4, <2>5, ClockMoves
  <2>7. hlc'[n] = u /\ \A m \in Node : m # n => hlc'[m] = hlc[m]
    BY <2>1 DEF ClockInv
  <2>8. QED
    BY <2>2, <2>6, <2>7 DEF Grows
<1>6. QED
  BY <1>4, <1>5

LEMMA RecreateStep ==
    ASSUME ClockInv, NEW n \in Node, NEW now \in Now, Recreate(n, now)
    PROVE  ClockInv' /\ \A m \in Node : Grows(m)
<1> DEFINE u == New(now, n)
<1>1. /\ hlc' = [hlc EXCEPT ![n] = u]
      /\ poisoned' \in SUBSET Node
      /\ newest' = [newest EXCEPT ![n] = 0]
      /\ lives' = [lives EXCEPT ![n] = @ + 1]
      /\ lives[n] < MaxLives
      /\ sent' = sent
  BY DEF Recreate, ClockInv
<1>2. Encodable(u) /\ u.node = n
  BY NewEncodable
<1> HIDE DEF u
<1>3. ToU64(u) \in 0 .. Word - 1 /\ Word \in Nat
  BY <1>2, EncodingExact, HlcAssumption, ClockAssumption
<1>4. 0 \in 0 .. Word - 1 /\ 0 <= ToU64(u)
  BY <1>3
<1>5. lives[n] \in 1 .. MaxLives /\ MaxLives \in Nat
  BY ClockAssumption DEF ClockInv
<1>6. lives' \in [Node -> 1 .. MaxLives] /\ lives'[n] # lives[n]
  BY <1>1, <1>5 DEF ClockInv
<1>7. \A x \in sent' : Encoded(x)
  BY <1>1 DEF ClockInv
<1>8. ClockInv'
  BY <1>1, <1>2, <1>4, <1>6, <1>7, ClockSet
<1>9. \A m \in Node : m # n => hlc'[m] = hlc[m]
  BY <1>1 DEF ClockInv
<1>10. QED
  BY <1>6, <1>8, <1>9 DEF Grows

LEMMA ClockNext ==
    ClockInv /\ [Next]_vars => ClockInv' /\ [\A n \in Node : Grows(n)]_vars
<1> SUFFICES ASSUME ClockInv, [Next]_vars
             PROVE  ClockInv' /\ [\A n \in Node : Grows(n)]_vars
  OBVIOUS
<1>1. CASE UNCHANGED vars
  BY <1>1 DEF vars, ClockInv, ClockDominates, Encoded, ToU64
<1>2. CASE Next
  BY <1>2, TickStep, ReceiveStep, RecreateStep DEF Next
<1>3. QED
  BY <1>1, <1>2

LEMMA ClockInvariance == Spec => []ClockInv
  BY ClockInit, ClockNext, PTL DEF Spec

\* An engine's clock is never behind a stamp it issued or merged: what
\* SyncEngine puts on an operation next is larger than all of them.
THEOREM ClockNeverBehind == Spec => []ClockDominates
<1>1. ClockInv => ClockDominates
  BY DEF ClockInv
<1>2. QED
  BY <1>1, ClockInvariance, PTL

\* tick and merge move the clock strictly up in the order of the stored u64,
\* past everything issued or merged, for any physical clock readings.
THEOREM ClockMovesUp == Spec => ClockGrows
<1>1. [\A n \in Node : Grows(n)]_vars =>
      [\A n \in Node : lives'[n] = lives[n] /\ hlc'[n] # hlc[n] =>
          /\ ToU64(hlc[n]) < ToU64(hlc'[n])
          /\ newest[n] < ToU64(hlc'[n])]_vars
  BY DEF Grows
<1>2. QED
  BY <1>1, ClockNext, ClockInvariance, PTL DEF Spec, ClockGrows

\* to_u64 and from_u64 are inverse on every stamp a clock can show.
THEOREM StampsRoundTrip == Spec => []RoundTrips
<1>1. ASSUME ClockInv, NEW n \in Node PROVE FromU64(ToU64(hlc[n]), n) = hlc[n]
  <2>1. Encodable(hlc[n]) /\ hlc[n].node = n /\ n \in Nat
    BY <1>1, ClockEncodable, HlcAssumption
  <2>2. FromU64(ToU64(hlc[n]), n) = [wall |-> hlc[n].wall, counter |-> hlc[n].counter, node |-> n]
    BY <2>1, DecodeEncoded
  <2>3. hlc[n] = [wall |-> hlc[n].wall, counter |-> hlc[n].counter, node |-> hlc[n].node]
    BY <2>1 DEF Encodable, Timestamp
  <2>4. QED
    BY <2>1, <2>2, <2>3
<1>2. ClockInv => RoundTrips
  BY <1>1 DEF RoundTrips
<1>3. QED
  BY <1>2, ClockInvariance, PTL

\* The clocks, the stamps in transit and the histories keep their types: every
\* stamp that is sent or stored fits the word, by the 48-bit limit.
THEOREM ClockTyped == Spec => []TypeOK
<1>1. ASSUME ClockInv, NEW val \in sent PROVE val \in 0 .. Word - 1
  <2>1. PICK ts : Encodable(ts) /\ val = ToU64(ts)
    BY <1>1 DEF ClockInv, Encoded
  <2>2. QED
    BY <2>1, EncodingExact
<1>2. ClockInv => TypeOK
  BY <1>1 DEF ClockInv, TypeOK
<1>3. QED
  BY <1>2, ClockInvariance, PTL
=============================================================================
