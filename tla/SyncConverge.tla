---------------------------- MODULE SyncConverge ----------------------------
(***************************************************************************)
(* Synchronisation converges, for any number of devices.  Theorems about   *)
(* SyncEngine: last writer wins converges, the engine implements           *)
(* OpDelivery, bookmarks and annotations converge under SyncStorage's      *)
(* contract and as the FFI wires the engine, and what nobody deleted is    *)
(* everywhere.                                                             *)
(***************************************************************************)
EXTENDS SyncProofs

-----------------------------------------------------------------------------
(* The inductive invariant, on top of IInv.  OpIn is Op with the databases *)
(* as a parameter, so that both states of a step can be named.             *)

OpIn(D, e) == D[e[1]].oplog[e[2]]

\* Stamps are positive and name one operation; registers are only put.
Stamped(D) ==
    /\ \A d \in Device : \A i \in DOMAIN D[d].oplog :
          /\ D[d].oplog[i].ts > 0
          /\ D[d].oplog[i].obj \in Register => D[d].oplog[i].type = "put"
    /\ \A d, e \in Device : \A i \in DOMAIN D[d].oplog : \A j \in DOMAIN D[e].oplog :
          D[d].oplog[i].ts = D[e].oplog[j].ts => d = e /\ i = j

\* A device has only dealt with what the server has.
HandledIsLogged == \A d \in Device : handled[d] \subseteq DOMAIN log

\* A row that is at least as new as ts.
AtLeast(row, ts) == row # NoRow /\ ts <= row.ts

\* A row of o that some device logged.
Sourced(D, row, o) ==
    \E e \in Device : \E i \in DOMAIN D[e].oplog :
        /\ row = [ts |-> D[e].oplog[i].ts, by |-> <<e, i>>]
        /\ D[e].oplog[i].obj = o

\* The row of o on d is the newest of those that d has logged or dealt with.
RowIsNewest(d, o) ==
    LET row == db[d].rows[o]
    IN /\ \A i \in DOMAIN db[d].oplog :
             db[d].oplog[i].obj = o => AtLeast(row, db[d].oplog[i].ts)
       /\ \A k \in handled[d] :
             OpIn(db, log[k]).obj = o => AtLeast(row, OpIn(db, log[k]).ts)
       /\ row # NoRow => Sourced(db, row, o)

NewestWins == \A d \in Device, o \in Register : o \notin unlogged => RowIsNewest(d, o)

CInv == Stamped(db) /\ HandledIsLogged /\ NewestWins

-----------------------------------------------------------------------------
(* What IInv says of operations and rows.                                  *)

\* An entry of the server's log is an operation that its device has logged.
LEMMA EntryFacts ==
    ASSUME IInv, NEW k \in DOMAIN log
    PROVE  /\ log[k][1] \in Device
           /\ log[k][2] \in DOMAIN db[log[k][1]].oplog
           /\ log[k] = <<log[k][1], log[k][2]>>
           /\ OpIn(db, log[k]) \in LoggedOp
<1>1. log[k] \in Device \X Nat
  BY ElementOfSeq, LenProperties DEF IInv, LogFacts
<1>2. /\ log[k][1] \in Device
      /\ log[k][2] \in DOMAIN db[log[k][1]].oplog
      /\ log[k] = <<log[k][1], log[k][2]>>
  BY <1>1 DEF IInv, LogFacts
<1>3. OpIn(db, log[k]) \in LoggedOp
  BY <1>2, DeviceFacts, ElementOfSeq DEF OpIn
<1>4. QED
  BY <1>2, <1>3

LEMMA OpTyped ==
    ASSUME IInv, NEW d \in Device, NEW i \in DOMAIN db[d].oplog
    PROVE  /\ db[d].oplog[i].obj \in Object
           /\ db[d].oplog[i].ts \in Nat
           /\ db[d].oplog[i].type \in {"put", "delete"}
           /\ i \in Nat
<1>1. db[d].oplog[i] \in LoggedOp /\ i \in Nat
  BY DeviceFacts, ElementOfSeq
<1>2. QED
  BY <1>1 DEF LoggedOp

LEMMA RowTyped ==
    ASSUME IInv, NEW d \in Device, NEW o \in Object
    PROVE  /\ db[d].rows[o] \in Row \cup {NoRow}
           /\ db[d].rows[o] # NoRow => db[d].rows[o].ts \in Nat
<1>1. db[d].rows[o] \in Row \cup {NoRow}
  BY DeviceFacts DEF Db
<1>2. QED
  BY <1>1 DEF Row

-----------------------------------------------------------------------------
(* The shape of every step.                                                *)

\* The operations logged so far keep their object, stamp and type.
OpsKept ==
    \A d \in Device : \A i \in DOMAIN db[d].oplog :
        /\ i \in DOMAIN db'[d].oplog
        /\ db'[d].oplog[i].obj = db[d].oplog[i].obj
        /\ db'[d].oplog[i].ts = db[d].oplog[i].ts
        /\ db'[d].oplog[i].type = db[d].oplog[i].type

\* The row of o on d is replaced by a newer one or not at all, and it is newer than
\* what d logs and deals with in the step.
RowMoves(d, o) ==
    LET row == db[d].rows[o]
        new == db'[d].rows[o]
    IN /\ new = row \/ (Sourced(db', new, o) /\ (row # NoRow => AtLeast(new, row.ts)))
       /\ \A i \in DOMAIN db'[d].oplog \ DOMAIN db[d].oplog :
             db'[d].oplog[i].obj = o => AtLeast(new, db'[d].oplog[i].ts)
       /\ \A k \in handled'[d] \ handled[d] :
             OpIn(db', log'[k]).obj = o => AtLeast(new, OpIn(db', log'[k]).ts)

LEMMA NewestStep ==
    ASSUME IInv, IInv', CInv, Extends(log, log'), OpsKept,
           Stamped(db'), HandledIsLogged',
           \A d \in Device, o \in Register :
              o \notin unlogged' => o \notin unlogged /\ RowMoves(d, o)
    PROVE  CInv'
<1>1. ASSUME NEW d \in Device, NEW k \in handled[d]
      PROVE  /\ OpIn(db', log'[k]).obj = OpIn(db, log[k]).obj
             /\ OpIn(db', log'[k]).ts = OpIn(db, log[k]).ts
             /\ OpIn(db, log[k]).ts \in Nat
  <2>1. k \in DOMAIN log /\ log'[k] = log[k]
    BY <1>1 DEF CInv, HandledIsLogged, Extends
  <2>2. QED
    BY <2>1, EntryFacts DEF OpIn, OpsKept, LoggedOp
<1>2. ASSUME NEW d \in Device, NEW o \in Register, o \notin unlogged'
      PROVE  RowIsNewest(d, o)'
  <2> DEFINE row == db[d].rows[o]
             new == db'[d].rows[o]
  <2>1. RowIsNewest(d, o) /\ RowMoves(d, o)
    BY <1>2 DEF CInv, NewestWins
  <2>2. o \in Object
    BY StoreAssumption
  <2>3. /\ row # NoRow => row.ts \in Nat
        /\ new # NoRow => new.ts \in Nat
    <3>1. db'[d].rows[o] \in Row \cup {NoRow}
      BY <2>2 DEF IInv, Functional, Db
    <3>2. QED
      BY <3>1, <2>2, RowTyped DEF Row
  <2>4. ASSUME NEW ts \in Nat, AtLeast(row, ts) PROVE AtLeast(new, ts)
    BY <2>1, <2>3, <2>4 DEF RowMoves, AtLeast
  <2>5. ASSUME NEW i \in DOMAIN db'[d].oplog, db'[d].oplog[i].obj = o
        PROVE  AtLeast(new, db'[d].oplog[i].ts)
    <3>1. CASE i \in DOMAIN db[d].oplog
      <4>1. db[d].oplog[i].obj = o /\ db[d].oplog[i].ts = db'[d].oplog[i].ts
        BY <3>1, <2>5 DEF OpsKept
      <4>2. AtLeast(row, db[d].oplog[i].ts) /\ db[d].oplog[i].ts \in Nat
        BY <3>1, <4>1, <2>1, OpTyped DEF RowIsNewest
      <4>3. QED
        BY <4>1, <4>2, <2>4
    <3>2. CASE i \notin DOMAIN db[d].oplog
      BY <3>2, <2>5, <2>1 DEF RowMoves
    <3>3. QED
      BY <3>1, <3>2
  <2>6. ASSUME NEW k \in handled'[d], OpIn(db', log'[k]).obj = o
        PROVE  AtLeast(new, OpIn(db', log'[k]).ts)
    <3>1. CASE k \in handled[d]
      <4>1. AtLeast(row, OpIn(db, log[k]).ts) /\ OpIn(db, log[k]).ts \in Nat
        BY <3>1, <1>1, <2>6, <2>1 DEF RowIsNewest
      <4>2. QED
        BY <3>1, <1>1, <4>1, <2>4
    <3>2. CASE k \notin handled[d]
      BY <3>2, <2>6, <2>1 DEF RowMoves
    <3>3. QED
      BY <3>1, <3>2
  <2>7. ASSUME new # NoRow PROVE Sourced(db', new, o)
    <3>1. CASE new = row
      <4>1. Sourced(db, row, o)
        BY <2>7, <3>1, <2>1 DEF RowIsNewest
      <4>2. QED
        BY <4>1, <3>1 DEF Sourced, OpsKept
    <3>2. CASE new # row
      BY <3>2, <2>1 DEF RowMoves
    <3>3. QED
      BY <3>1, <3>2
  <2> HIDE DEF row, new
  <2>8. QED
    BY <2>5, <2>6, <2>7 DEF RowIsNewest, row, new
<1>3. QED
  BY <1>2 DEF CInv, NewestWins

\* A step that logs nothing, deals with nothing, and changes no row of a register
\* unless it declares the object changed outside the log.
LEMMA QuietStep ==
    ASSUME IInv, IInv', CInv, Extends(log, log'), handled' = handled,
           unlogged \subseteq unlogged', OpsKept,
           \A d \in Device : DOMAIN db'[d].oplog = DOMAIN db[d].oplog,
           \A d \in Device, o \in Register :
              o \notin unlogged' => db'[d].rows[o] = db[d].rows[o]
    PROVE  CInv'
<1>1. Stamped(db')
  BY DEF CInv, Stamped, OpsKept
<1>2. HandledIsLogged'
  BY DEF CInv, HandledIsLogged, Extends
<1>3. \A d \in Device, o \in Register :
         o \notin unlogged' => o \notin unlogged /\ RowMoves(d, o)
  BY DEF RowMoves
<1>4. QED
  BY <1>1, <1>2, <1>3, NewestStep

\* E is D with other marks, cursor and books, and other rows of the objects in U only.
Quiet(D, E, U) ==
    /\ DOMAIN E.oplog = DOMAIN D.oplog
    /\ \A i \in DOMAIN D.oplog : /\ E.oplog[i].obj = D.oplog[i].obj
                                /\ E.oplog[i].ts = D.oplog[i].ts
                                /\ E.oplog[i].type = D.oplog[i].type
    /\ \A o \in Register : o \notin U => E.rows[o] = D.rows[o]

\* The quiet steps of one device.
LEMMA QuietDevice ==
    ASSUME IInv, IInv', CInv, log' = log, handled' = handled, unlogged \subseteq unlogged',
           NEW d \in Device, NEW E, db' = [db EXCEPT ![d] = E], Quiet(db[d], E, unlogged')
    PROVE  CInv'
<1>1. db'[d] = E /\ \A e \in Device : e # d => db'[e] = db[e]
  BY DEF IInv, Functional
<1>2. OpsKept
  BY <1>1 DEF OpsKept, Quiet
<1>3. Extends(log, log')
  BY ExtendsSelf DEF IInv, LogFacts
<1>4. \A e \in Device : DOMAIN db'[e].oplog = DOMAIN db[e].oplog
  BY <1>1 DEF Quiet
<1>5. \A e \in Device, o \in Register :
         o \notin unlogged' => db'[e].rows[o] = db[e].rows[o]
  BY <1>1 DEF Quiet
<1>6. QED
  BY <1>2, <1>3, <1>4, <1>5, QuietStep

\* The steps that leave the databases alone.
LEMMA QuietServer ==
    ASSUME IInv, IInv', CInv, Extends(log, log'), UNCHANGED <<db, handled, unlogged>>
    PROVE  CInv'
<1>1. OpsKept
  BY DEF OpsKept
<1>2. QED
  BY <1>1, QuietStep

-----------------------------------------------------------------------------
(* One lemma per action.                                                   *)

LEMMA MarkSyncedConv ==
    ASSUME IInv, IInv', CInv, NEW s \in Session, MarkSynced(s)
    PROVE  CInv'
<1> DEFINE d == Owner[s]
           E == MarkOpsSynced(db[d], sess[s].sending)
           Marked(op) == [op EXCEPT !.synced = TRUE]
<1>1. d \in Device /\ db[d] \in Db
  BY OwnerFacts, DeviceFacts
<1>2. db' = [db EXCEPT ![d] = E] /\ UNCHANGED <<log, handled, unlogged>>
  BY DEF MarkSynced
<1>3. E.rows = db[d].rows
      /\ E.oplog = [i \in DOMAIN db[d].oplog |->
                       IF i \in sess[s].sending THEN Marked(db[d].oplog[i]) ELSE db[d].oplog[i]]
  BY <1>1 DEF MarkOpsSynced, Db
<1>4. \A op \in LoggedOp : /\ Marked(op).obj = op.obj
                           /\ Marked(op).ts = op.ts
                           /\ Marked(op).type = op.type
  BY DEF LoggedOp
<1>5. \A i \in DOMAIN db[d].oplog : db[d].oplog[i] \in LoggedOp
  BY <1>1, DeviceFacts, ElementOfSeq
<1> HIDE DEF Marked, E
<1>6. Quiet(db[d], E, unlogged')
  BY <1>3, <1>4, <1>5 DEF Quiet
<1> HIDE DEF d
<1>7. QED
  BY <1>1, <1>2, <1>3, <1>6, QuietDevice

LEMMA SaveConv ==
    ASSUME IInv, IInv', CInv, NEW s \in Session, SavePage(s) \/ SaveFailed(s)
    PROVE  CInv'
<1> DEFINE d == Owner[s]
<1>1. d \in Device /\ db[d] \in Db
  BY OwnerFacts, DeviceFacts
<1>2. /\ \E c : db' = [db EXCEPT ![d] = SetCursor(db[d], c)]
      /\ UNCHANGED <<log, handled, unlogged>>
  BY DEF SavePage, SaveFailed
<1>3. PICK c : db' = [db EXCEPT ![d] = SetCursor(db[d], c)]
  BY <1>2
<1> DEFINE E == SetCursor(db[d], c)
<1>4. E.rows = db[d].rows /\ E.oplog = db[d].oplog
  BY <1>1 DEF SetCursor, Db
<1> HIDE DEF E, d
<1>5. Quiet(db[d], E, unlogged')
  BY <1>4 DEF Quiet
<1>6. QED
  BY <1>1, <1>2, <1>3, <1>5, QuietDevice DEF E

LEMMA RegisterBookConv ==
    ASSUME IInv, IInv', CInv, NEW d \in Device, NEW b \in Book, RegisterBook(d, b)
    PROVE  CInv'
<1> DEFINE E == UpsertBook(db[d], b)
<1>1. db' = [db EXCEPT ![d] = E] /\ UNCHANGED <<log, handled>> /\ unlogged \subseteq unlogged'
  BY DEF RegisterBook
<1>2. db[d] \in Db
  BY DeviceFacts
<1>3. E.oplog = db[d].oplog
      /\ E.rows = [o \in Object |-> IF BookOf[o] = b THEN NoRow ELSE db[d].rows[o]]
  BY <1>2 DEF UpsertBook, Db
<1>4. ASSUME NEW o \in Register, o \notin unlogged' PROVE E.rows[o] = db[d].rows[o]
  <2>1. o \in Object
    BY StoreAssumption
  <2>2. BookOf[o] = b => db[d].rows[o] = NoRow
    BY <1>4, <2>1 DEF RegisterBook
  <2>3. QED
    BY <1>3, <2>1, <2>2
<1> HIDE DEF E
<1>5. Quiet(db[d], E, unlogged')
  BY <1>3, <1>4 DEF Quiet
<1>6. QED
  BY <1>1, <1>5, QuietDevice

LEMMA TornWriteConv ==
    ASSUME IInv, IInv', CInv, NEW d \in Device, NEW o \in Object, NEW ts \in Stamp,
           TornWrite(d, o, ts)
    PROVE  CInv'
<1> DEFINE U == UpsertRow(db[d], o, ts, <<d, 0>>)
           R == DeleteRow(db[d], o)
<1>1. /\ UNCHANGED <<log, handled>>
      /\ unlogged' = unlogged \cup {o}
      /\ db' = [db EXCEPT ![d] = U] \/ db' = [db EXCEPT ![d] = R]
  BY DEF TornWrite
<1>2. db[d] \in Db
  BY DeviceFacts
<1>3. /\ U.oplog = db[d].oplog /\ R.oplog = db[d].oplog
      /\ \A p \in Object : p # o => U.rows[p] = db[d].rows[p] /\ R.rows[p] = db[d].rows[p]
  BY <1>2 DEF UpsertRow, DeleteRow, Db
<1> HIDE DEF U, R
<1>4. PICK E \in {U, R} : db' = [db EXCEPT ![d] = E]
  BY <1>1
<1>5. Quiet(db[d], E, unlogged')
  BY <1>1, <1>3, StoreAssumption DEF Quiet
<1>6. QED
  BY <1>1, <1>4, <1>5, QuietDevice

LEMMA ServerPushConv ==
    ASSUME IInv, IInv', CInv, NEW s \in Session, ServerPush(s)
    PROVE  CInv'
<1> DEFINE d == Owner[s]
           ids == Fresh(d, sess[s].sending)
           c == Cardinality(ids)
<1>1. d \in Device /\ DOMAIN db[d].oplog = 1 .. Len(db[d].oplog) /\ Len(db[d].oplog) \in Nat
      /\ sess[s].sending \subseteq DOMAIN db[d].oplog
  BY OwnerFacts, DeviceFacts DEF SessionFacts
<1>2. ids \in SUBSET (1 .. Len(db[d].oplog)) /\ ids \in SUBSET Nat
  BY <1>1 DEF Fresh
<1>3. PICK f \in Orderings(d, ids) : log' = log \o [k \in DOMAIN f |-> <<d, f[k]>>]
  BY DEF ServerPush
<1>4. f \in [1 .. c -> ids]
  BY <1>3 DEF Orderings
<1>5. c \in Nat
  <2> HIDE DEF ids
  <2>1. QED
    BY <1>1, <1>2, ChunkFinite
<1>6. log \in Seq(Device \X Nat)
  BY DEF IInv, LogFacts
<1> HIDE DEF c, ids, d
<1>7. Extends(log, log')
  BY <1>1, <1>2, <1>3, <1>4, <1>5, <1>6, AppendFacts
<1>8. QED
  BY <1>7, QuietServer DEF ServerPush

\* What logging an operation adds to a database.
LEMMA LoggedLast ==
    ASSUME NEW D \in Db, NEW o \in Object, NEW ts \in Nat, NEW type \in {"put", "delete"}
    PROVE  LET E == WriteOpLog(D, type, o, ts)
               n == NextId(D)
           IN /\ E.rows = D.rows
              /\ DOMAIN E.oplog = DOMAIN D.oplog \cup {n}
              /\ n \notin DOMAIN D.oplog
              /\ E.oplog[n].obj = o /\ E.oplog[n].ts = ts /\ E.oplog[n].type = type
              /\ \A i \in DOMAIN D.oplog : E.oplog[i] = D.oplog[i]
<1> DEFINE new == [type |-> type, obj |-> o, ts |-> ts, synced |-> FALSE]
           E == WriteOpLog(D, type, o, ts)
           n == NextId(D)
<1>1. new \in LoggedOp /\ new.obj = o /\ new.ts = ts /\ new.type = type
  BY DEF LoggedOp
<1>2. D.oplog \in Seq(LoggedOp)
  BY DEF Db
<1> HIDE DEF new
<1>3. /\ Append(D.oplog, new) \in Seq(LoggedOp)
      /\ Len(Append(D.oplog, new)) = Len(D.oplog) + 1
      /\ \A i \in 1 .. Len(D.oplog) : Append(D.oplog, new)[i] = D.oplog[i]
      /\ Append(D.oplog, new)[Len(D.oplog) + 1] = new
  BY <1>1, <1>2, AppendProperties
<1>4. E.oplog = Append(D.oplog, new) /\ E.rows = D.rows
  BY DEF WriteOpLog, Db, new
<1>5. /\ DOMAIN D.oplog = 1 .. Len(D.oplog)
      /\ DOMAIN E.oplog = 1 .. Len(D.oplog) + 1
      /\ Len(D.oplog) \in Nat
  BY <1>2, <1>3, <1>4, LenProperties
<1> HIDE DEF E
<1>6. QED
  BY <1>1, <1>3, <1>4, <1>5 DEF NextId, E

\* D is the database of d with the row of o written, before the write is logged.
Written(d, D, o, ts, type) ==
    /\ D \in Db /\ D.oplog = db[d].oplog
    /\ o \in Register =>
          type = "put" /\ D.rows[o] = [ts |-> ts, by |-> <<d, NextId(D)>>]
    /\ \A p \in Register : p # o => D.rows[p] = db[d].rows[p]

\* A device writes a row and logs it.  Here the clocks matter: the
\* new stamp is larger than what the device has seen of the object.
LEMMA LoggingConv ==
    ASSUME IInv, IInv', CInv, OrderedClocks,
           log' = log, handled' = handled, unlogged' = unlogged,
           NEW d \in Device, NEW o \in Object, NEW ts \in Stamp, StampOK(d, o, ts),
           NEW type \in {"put", "delete"}, NEW D, Written(d, D, o, ts, type),
           db' = [db EXCEPT ![d] = WriteOpLog(D, type, o, ts)]
    PROVE  CInv'
<1> DEFINE E == WriteOpLog(D, type, o, ts)
           n == NextId(D)
<1>1. /\ ts \in Nat /\ ts > 0
      /\ D \in Db /\ D.oplog = db[d].oplog
      /\ o \in Register => type = "put" /\ D.rows[o] = [ts |-> ts, by |-> <<d, n>>]
      /\ \A p \in Register : p # o => D.rows[p] = db[d].rows[p]
  BY SyncAssumption DEF Written
<1>2. /\ E.rows = D.rows
      /\ DOMAIN E.oplog = DOMAIN db[d].oplog \cup {n}
      /\ n \notin DOMAIN db[d].oplog
      /\ E.oplog[n].obj = o /\ E.oplog[n].ts = ts /\ E.oplog[n].type = type
      /\ \A i \in DOMAIN db[d].oplog : E.oplog[i] = db[d].oplog[i]
  BY <1>1, LoggedLast
<1>3. n \in Nat
  BY <1>1, DeviceFacts DEF NextId
<1> HIDE DEF E, n
<1>4. db'[d] = E /\ \A e \in Device : e # d => db'[e] = db[e]
  BY DEF IInv, Functional, E
<1>5. OpsKept
  BY <1>2, <1>4 DEF OpsKept
<1>6. \A e \in Device : \A i \in DOMAIN db'[e].oplog :
         \/ i \in DOMAIN db[e].oplog /\ db'[e].oplog[i] = db[e].oplog[i]
         \/ e = d /\ i = n
  BY <1>2, <1>4
<1>7. Stamped(db')
  <2>1. ASSUME NEW e \in Device, NEW i \in DOMAIN db'[e].oplog
        PROVE  /\ db'[e].oplog[i].ts > 0
               /\ db'[e].oplog[i].obj \in Register => db'[e].oplog[i].type = "put"
    <3>1. CASE i \in DOMAIN db[e].oplog /\ db'[e].oplog[i] = db[e].oplog[i]
      BY <3>1 DEF CInv, Stamped
    <3>2. CASE e = d /\ i = n
      BY <3>2, <1>1, <1>2, <1>4
    <3>3. QED
      BY <3>1, <3>2, <1>6
  <2>2. \A e \in Device : \A i \in DOMAIN db[e].oplog : db[e].oplog[i].ts # ts
    BY DEF StampOK
  <2>3. db'[d].oplog[n].ts = ts
    BY <1>2, <1>4
  <2>4. ASSUME NEW e \in Device, NEW f \in Device,
               NEW i \in DOMAIN db'[e].oplog, NEW j \in DOMAIN db'[f].oplog,
               db'[e].oplog[i].ts = db'[f].oplog[j].ts
        PROVE  e = f /\ i = j
    <3>1. CASE /\ i \in DOMAIN db[e].oplog /\ db'[e].oplog[i] = db[e].oplog[i]
               /\ j \in DOMAIN db[f].oplog /\ db'[f].oplog[j] = db[f].oplog[j]
      BY <3>1, <2>4 DEF CInv, Stamped
    <3>2. CASE e = d /\ i = n
      BY <3>2, <2>2, <2>3, <2>4, <1>6
    <3>3. CASE f = d /\ j = n
      BY <3>3, <2>2, <2>3, <2>4, <1>6
    <3>4. QED
      BY <3>1, <3>2, <3>3, <1>6
  <2>5. QED
    BY <2>1, <2>4 DEF Stamped
<1>8. ASSUME NEW e \in Device, NEW p \in Register PROVE RowMoves(e, p)
  <2>1. CASE e # d
    BY <2>1, <1>4 DEF RowMoves
  <2>2. CASE e = d /\ p # o
    <3>1. db'[d].rows[p] = db[d].rows[p]
      BY <2>2, <1>1, <1>2, <1>4
    <3>2. \A i \in DOMAIN db'[d].oplog \ DOMAIN db[d].oplog : db'[d].oplog[i].obj # p
      BY <2>2, <1>2, <1>4
    <3>3. QED
      BY <2>2, <3>1, <3>2 DEF RowMoves
  <2>3. CASE e = d /\ p = o
    <3> DEFINE new == db'[d].rows[o]
    <3>1. new = [ts |-> ts, by |-> <<d, n>>]
      BY <2>3, <1>1, <1>2, <1>4 DEF n
    <3>2. new \in Row /\ new.ts = ts
      BY <3>1, <1>1, <1>3 DEF Row
    <3>3. new # NoRow
      BY <3>2, StoreAssumption DEF Row
    <3>4. Sourced(db', new, o)
      <4>1. n \in DOMAIN db'[d].oplog /\ db'[d].oplog[n].ts = ts /\ db'[d].oplog[n].obj = o
        BY <1>2, <1>4
      <4> HIDE DEF new
      <4>2. QED
        BY <3>1, <4>1 DEF Sourced
    <3> HIDE DEF new
    <3>5. db[d].rows[o] # NoRow => AtLeast(new, db[d].rows[o].ts)
      BY <3>2, <3>3, <1>1, RowTyped DEF StampOK, AtLeast
    <3>6. \A i \in DOMAIN db'[d].oplog \ DOMAIN db[d].oplog : AtLeast(new, db'[d].oplog[i].ts)
      BY <3>2, <3>3, <1>1, <1>2, <1>4 DEF AtLeast
    <3>7. QED
      BY <2>3, <3>4, <3>5, <3>6 DEF RowMoves, new
  <2>4. QED
    BY <2>1, <2>2, <2>3
<1>9. Extends(log, log') /\ HandledIsLogged'
  BY ExtendsSelf DEF IInv, LogFacts, CInv, HandledIsLogged
<1>10. QED
  BY <1>5, <1>7, <1>8, <1>9, NewestStep

LEMMA PutConv ==
    ASSUME IInv, IInv', CInv, OrderedClocks,
           NEW d \in Device, NEW o \in Object, NEW ts \in Stamp, Put(d, o, ts)
    PROVE  CInv'
<1> DEFINE D == UpsertRow(db[d], o, ts, <<d, NextId(db[d])>>)
<1>1. /\ log' = log /\ handled' = handled /\ unlogged' = unlogged
      /\ StampOK(d, o, ts)
      /\ db' = [db EXCEPT ![d] = WriteOpLog(D, "put", o, ts)]
  BY DEF Put
<1>2. db[d] \in Db /\ ts \in Nat /\ <<d, NextId(db[d])>> \in Device \X Nat
  BY DeviceFacts, SyncAssumption DEF NextId
<1>3. D \in Db /\ D.oplog = db[d].oplog
  BY <1>2, UpsertRowType
<1>4. /\ D.rows[o] = [ts |-> ts, by |-> <<d, NextId(db[d])>>]
      /\ \A p \in Object : p # o => D.rows[p] = db[d].rows[p]
  BY <1>2 DEF UpsertRow, Db
<1> HIDE DEF D
<1>5. \A p \in Register : p # o => D.rows[p] = db[d].rows[p]
  BY <1>4, StoreAssumption
<1>6. D.rows[o] = [ts |-> ts, by |-> <<d, NextId(D)>>]
  BY <1>3, <1>4 DEF NextId
<1>7. Written(d, D, o, ts, "put")
  BY <1>3, <1>5, <1>6 DEF Written
<1>8. QED
  BY <1>1, <1>7, LoggingConv

LEMMA DeleteConv ==
    ASSUME IInv, IInv', CInv, OrderedClocks,
           NEW d \in Device, NEW o \in Object, NEW ts \in Stamp, Delete(d, o, ts)
    PROVE  CInv'
<1> DEFINE D == DeleteRow(db[d], o)
<1>1. /\ log' = log /\ handled' = handled /\ unlogged' = unlogged
      /\ StampOK(d, o, ts)
      /\ o \notin Register
      /\ db' = [db EXCEPT ![d] = WriteOpLog(D, "delete", o, ts)]
  BY DEF Delete
<1>2. db[d] \in Db
  BY DeviceFacts
<1>3. D \in Db /\ D.oplog = db[d].oplog
  BY <1>2, DeleteRowType
<1>4. \A p \in Object : p # o => D.rows[p] = db[d].rows[p]
  BY <1>2 DEF DeleteRow, Db
<1> HIDE DEF D
<1>5. \A p \in Register : p # o => D.rows[p] = db[d].rows[p]
  BY <1>4, StoreAssumption
<1>6. Written(d, D, o, ts, "delete")
  BY <1>1, <1>3, <1>5 DEF Written
<1>7. QED
  BY <1>1, <1>6, LoggingConv

\* apply_remote_op replaces the row of a register by a newer one or not at all, and
\* what it was given is not newer than the row it leaves.
LEMMA ApplyRow ==
    ASSUME NEW D \in Db, NEW op \in LoggedOp, NEW by \in Device \X Nat, op.ts > 0,
           op.obj \in Register => op.type = "put", NEW p \in Register
    PROVE  LET A == ApplyRemoteOp(D, op, by)
           IN /\ \/ A.db.rows[p] = D.rows[p]
                 \/ /\ A.db.rows[p] = [ts |-> op.ts, by |-> by]
                    /\ op.obj = p
                    /\ D.rows[p] # NoRow => AtLeast(A.db.rows[p], D.rows[p].ts)
              /\ A.res # "failed" /\ op.obj = p => AtLeast(A.db.rows[p], op.ts)
<1> DEFINE A == ApplyRemoteOp(D, op, by)
           new == [ts |-> op.ts, by |-> by]
<1>1. /\ p \in Object /\ op.obj \in Object /\ op.ts \in Nat /\ op.type \in {"put", "delete"}
      /\ D.rows \in [Object -> Row \cup {NoRow}]
  BY StoreAssumption DEF LoggedOp, Db
<1>2. D.rows[p] # NoRow => D.rows[p].ts \in Nat
  BY <1>1 DEF Row
<1>3. new \in Row /\ new.ts = op.ts
  BY <1>1 DEF Row
<1>4. new # NoRow
  BY <1>3, StoreAssumption DEF Row
<1>5. CASE op.obj # p
  BY <1>5, <1>1 DEF ApplyRemoteOp, ApplyPut, ApplyDelete, UpsertRow, DeleteRow, Db
<1>6. CASE op.obj = p /\ ~Newer(D, p, op.ts)
  <2>1. A = [db |-> D, res |-> "lost"]
    BY <1>6 DEF ApplyRemoteOp, ApplyPut
  <2>2. AtLeast(D.rows[p], op.ts)
    BY <1>1, <1>2, <1>6 DEF Newer, AtLeast
  <2>3. QED
    BY <2>1, <2>2
<1>7. CASE op.obj = p /\ Newer(D, p, op.ts) /\ CanHold(D, p)
  <2>1. A = [db |-> UpsertRow(D, p, op.ts, by), res |-> "applied"]
    BY <1>7 DEF ApplyRemoteOp, ApplyPut
  <2>2. A.db.rows[p] = new
    BY <2>1, <1>1 DEF UpsertRow, Db
  <2> HIDE DEF A
  <2>3. AtLeast(new, op.ts) /\ (D.rows[p] # NoRow => AtLeast(new, D.rows[p].ts))
    <3> HIDE DEF new
    <3>1. QED
      BY <1>1, <1>2, <1>3, <1>4, <1>7 DEF Newer, AtLeast
  <2> HIDE DEF new
  <2>4. /\ A.db.rows[p] = new /\ op.obj = p
        /\ D.rows[p] # NoRow => AtLeast(A.db.rows[p], D.rows[p].ts)
        /\ AtLeast(A.db.rows[p], op.ts)
    BY <2>2, <2>3, <1>7
  <2>5. QED
    BY <2>4 DEF A, new
<1>8. CASE op.obj = p /\ Newer(D, p, op.ts) /\ ~CanHold(D, p)
  BY <1>8 DEF ApplyRemoteOp, ApplyPut
<1>9. QED
  BY <1>5, <1>6, <1>7, <1>8

LEMMA ApplyOpConv ==
    ASSUME IInv, IInv', CInv, NEW s \in Session, ApplyOp(s)
    PROVE  CInv'
<1> DEFINE d == Owner[s]
           k == sess[s].cursor + 1
           op == OpIn(db, log[k])
           A == ApplyRemoteOp(db[d], op, log[k])
           own == OwnDeviceKnown /\ log[k][1] = d
           E == IF own THEN db[d] ELSE A.db
<1>1. d \in Device /\ db[d] \in Db
  BY OwnerFacts, DeviceFacts
<1>2. k \in DOMAIN log
  <2>1. sess[s] \in SessionState /\ sess[s].cursor < sess[s].last /\ sess[s].last <= Len(log)
    BY OwnerFacts DEF SessionFacts, ApplyOp
  <2>2. log \in Seq(Device \X Nat)
    BY DEF IInv, LogFacts
  <2>3. QED
    BY <2>1, <2>2, LenProperties DEF SessionState
<1>3. /\ log[k][1] \in Device
      /\ log[k][2] \in DOMAIN db[log[k][1]].oplog
      /\ log[k] = <<log[k][1], log[k][2]>>
      /\ op \in LoggedOp
      /\ op.ts > 0
      /\ op.obj \in Register => op.type = "put"
  <2> HIDE DEF k
  <2>1. QED
    BY <1>2, EntryFacts DEF CInv, Stamped, OpIn
<1>4. log[k] \in Device \X Nat
  BY <1>2, ElementOfSeq, LenProperties DEF IInv, LogFacts
<1>5. /\ db' = [db EXCEPT ![d] = E]
      /\ log' = log /\ unlogged' = unlogged
      /\ \/ handled' = handled
         \/ handled' = [handled EXCEPT ![d] = @ \cup {k}] /\ (own \/ A.res # "failed")
  BY DEF ApplyOp, Op, OpIn
<1> HIDE DEF k, op, d, own
<1>6. E.oplog = db[d].oplog
  BY <1>1, <1>3, <1>4, ApplyRemoteOpType
<1>7. ASSUME NEW p \in Register, ~own
      PROVE  /\ \/ A.db.rows[p] = db[d].rows[p]
                \/ /\ A.db.rows[p] = [ts |-> op.ts, by |-> log[k]]
                   /\ op.obj = p
                   /\ db[d].rows[p] # NoRow => AtLeast(A.db.rows[p], db[d].rows[p].ts)
             /\ A.res # "failed" /\ op.obj = p => AtLeast(A.db.rows[p], op.ts)
  BY <1>1, <1>3, <1>4, ApplyRow
<1> HIDE DEF A
<1>8. db'[d] = E /\ \A e \in Device : e # d => db'[e] = db[e]
  BY <1>1, <1>5 DEF IInv, Functional
<1>9. \A e \in Device : db'[e].oplog = db[e].oplog
  BY <1>6, <1>8
<1>10. OpsKept /\ Stamped(db')
  BY <1>9 DEF OpsKept, CInv, Stamped
<1>11. /\ \A e \in Device : e # d => handled'[e] = handled[e]
       /\ \/ handled'[d] = handled[d]
          \/ handled'[d] = handled[d] \cup {k} /\ (own \/ A.res # "failed")
  BY <1>1, <1>5 DEF IInv, Functional
<1>12. HandledIsLogged'
  BY <1>1, <1>2, <1>5, <1>11 DEF CInv, HandledIsLogged
<1>13. OpIn(db', log[k]) = op
  BY <1>3, <1>9 DEF OpIn, op
<1>14. ASSUME NEW e \in Device, NEW p \in Register, p \notin unlogged' PROVE RowMoves(e, p)
  <2>1. CASE e # d
    BY <2>1, <1>8, <1>11 DEF RowMoves
  <2>2. CASE e = d /\ own
    <3>1. db'[d].rows[p] = db[d].rows[p]
      BY <2>2, <1>8
    <3>2. op.obj = p => AtLeast(db[d].rows[p], op.ts)
      <4>1. RowIsNewest(d, p)
        BY <1>1, <1>5, <1>14 DEF CInv, NewestWins
      <4>2. op = db[d].oplog[log[k][2]] /\ log[k][2] \in DOMAIN db[d].oplog
        BY <2>2, <1>3 DEF own, op, OpIn
      <4>3. QED
        BY <4>1, <4>2 DEF RowIsNewest
    <3>3. QED
      BY <2>2, <3>1, <3>2, <1>5, <1>9, <1>11, <1>13 DEF RowMoves
  <2>3. CASE e = d /\ ~own
    <3> DEFINE new == db'[d].rows[p]
    <3>1. /\ \/ new = db[d].rows[p]
             \/ /\ new = [ts |-> op.ts, by |-> log[k]]
                /\ op.obj = p
                /\ db[d].rows[p] # NoRow => AtLeast(new, db[d].rows[p].ts)
          /\ A.res # "failed" /\ op.obj = p => AtLeast(new, op.ts)
      BY <2>3, <1>7, <1>8
    <3> HIDE DEF new
    <3>2. new = [ts |-> op.ts, by |-> log[k]] /\ op.obj = p => Sourced(db', new, p)
      BY <1>3, <1>9 DEF Sourced, op, OpIn
    <3>3. \A j \in handled'[d] \ handled[d] :
             OpIn(db', log'[j]).obj = p => AtLeast(new, OpIn(db', log'[j]).ts)
      BY <2>3, <3>1, <1>5, <1>11, <1>13
    <3>4. QED
      BY <2>3, <3>1, <3>2, <3>3, <1>9 DEF RowMoves, new
  <2>4. QED
    BY <2>1, <2>2, <2>3
<1>15. Extends(log, log')
  BY <1>5, ExtendsSelf DEF IInv, LogFacts
<1>16. QED
  BY <1>5, <1>10, <1>12, <1>14, <1>15, NewestStep

-----------------------------------------------------------------------------
(* The theorem.                                                            *)

LEMMA InitConv == Init => CInv
<1> SUFFICES ASSUME Init PROVE CInv
  OBVIOUS
<1>1. /\ \A d \in Device : DOMAIN db[d].oplog = {} /\ handled[d] = {}
      /\ \A d \in Device, o \in Object : db[d].rows[o] = NoRow
  BY DEF Init, EmptyDb
<1>2. Register \subseteq Object
  BY StoreAssumption
<1>3. QED
  BY <1>1, <1>2 DEF CInv, Stamped, HandledIsLogged, NewestWins, RowIsNewest

LEMMA NextConv ==
    ASSUME OrderedClocks, IInv, IInv', CInv, [Next]_vars
    PROVE  CInv'
<1>1. ASSUME UNCHANGED <<db, log, handled, unlogged>> PROVE CInv'
  BY <1>1, ExtendsSelf, QuietServer DEF IInv, LogFacts
<1>2. CASE UNCHANGED vars
  BY <1>1, <1>2 DEF vars
<1>3. ASSUME NEW d \in Device, User(d) PROVE CInv'
  BY <1>3, PutConv, DeleteConv, RegisterBookConv DEF User
<1>4. ASSUME NEW d \in Device, Crash(d) PROVE CInv'
  BY <1>1, <1>4 DEF Crash
<1>5. ASSUME NEW d \in Device, NEW o \in Object, NEW ts \in Stamp, TornWrite(d, o, ts)
      PROVE  CInv'
  BY <1>5, TornWriteConv
<1>6. ASSUME NEW s \in Session, Step(s) PROVE CInv'
  <2>1. CASE ReadCursor(s) \/ ServerPull(s)
    BY <2>1, <1>1 DEF ReadCursor, ServerPull
  <2>2. CASE ServerPush(s) \/ MarkSynced(s) \/ ApplyOp(s) \/ SavePage(s) \/ SaveFailed(s)
    BY <2>2, ServerPushConv, MarkSyncedConv, ApplyOpConv, SaveConv
  <2>3. QED
    BY <1>6, <2>1, <2>2 DEF Step
<1>7. ASSUME NEW s \in Session, Lose(s) PROVE CInv'
  BY <1>1, <1>7 DEF Lose
<1>8. ASSUME NEW s \in Session, NEW mode \in Modes, ReadUnsynced(s, mode) PROVE CInv'
  BY <1>1, <1>8 DEF ReadUnsynced
<1>9. QED
  BY <1>2, <1>3, <1>4, <1>5, <1>6, <1>7, <1>8 DEF Next

\* When all is exchanged, every device has dealt with whatever any device logged.
LEMMA QuiescentFacts ==
    ASSUME IInv, CInv, Quiescent, NEW d \in Device, NEW e \in Device,
           NEW i \in DOMAIN db[e].oplog
    PROVE  \E k \in handled[d] : log[k] = <<e, i>>
<1>1. db[e].oplog[i].synced
  <2>1. i \notin UnsyncedIds(db[e])
    BY DEF Quiescent
  <2>2. db[e].oplog[i].synced \in BOOLEAN
    <3>1. db[e].oplog[i] \in LoggedOp
      BY DeviceFacts, ElementOfSeq
    <3>2. QED
      BY <3>1 DEF LoggedOp
  <2>3. QED
    BY <2>1, <2>2 DEF UnsyncedIds
<1>2. PICK k \in DOMAIN log : log[k] = <<e, i>>
  BY <1>1, DeviceFacts DEF StoreFacts, InLog
<1>3. DOMAIN log = 1 .. db[d].cursor
  <2>1. log \in Seq(Device \X Nat) /\ db[d].cursor = Len(log)
    BY DEF IInv, LogFacts, Quiescent
  <2>2. QED
    BY <2>1, LenProperties
<1>4. 1 .. db[d].cursor \subseteq handled[d]
  BY DeviceFacts DEF StoreFacts
<1>5. QED
  BY <1>2, <1>3, <1>4

LEMMA NewestAgree ==
    ASSUME IInv, CInv, Quiescent, NEW o \in Register, o \notin unlogged,
           NEW d \in Device, NEW e \in Device
    PROVE  db[d].rows[o] = db[e].rows[o]
<1> DEFINE row(a) == db[a].rows[o]
<1>1. ASSUME NEW a \in Device, NEW b \in Device, row(a) # NoRow
      PROVE  AtLeast(row(b), row(a).ts)
  <2>1. RowIsNewest(a, o) /\ RowIsNewest(b, o)
    BY DEF CInv, NewestWins
  <2>2. PICK c \in Device : \E i \in DOMAIN db[c].oplog :
           /\ row(a) = [ts |-> db[c].oplog[i].ts, by |-> <<c, i>>]
           /\ db[c].oplog[i].obj = o
    BY <2>1, <1>1 DEF RowIsNewest, Sourced
  <2>3. PICK i \in DOMAIN db[c].oplog :
           /\ row(a) = [ts |-> db[c].oplog[i].ts, by |-> <<c, i>>]
           /\ db[c].oplog[i].obj = o
    BY <2>2
  <2>4. PICK k \in handled[b] : log[k] = <<c, i>>
    BY QuiescentFacts
  <2>5. OpIn(db, log[k]) = db[c].oplog[i]
    BY <2>4 DEF OpIn
  <2>6. AtLeast(row(b), db[c].oplog[i].ts)
    BY <2>1, <2>3, <2>5 DEF RowIsNewest
  <2>7. row(a).ts = db[c].oplog[i].ts
    <3> HIDE DEF row
    <3>1. QED
      BY <2>3
  <2>8. QED
    BY <2>6, <2>7
<1>2. ASSUME NEW a \in Device, row(a) # NoRow
      PROVE  \E c \in Device : \E i \in DOMAIN db[c].oplog :
                row(a) = [ts |-> db[c].oplog[i].ts, by |-> <<c, i>>]
  <2>1. RowIsNewest(a, o)
    BY DEF CInv, NewestWins
  <2>2. QED
    BY <2>1, <1>2 DEF RowIsNewest, Sourced
<1>3. CASE row(d) = NoRow /\ row(e) = NoRow
  BY <1>3
<1>4. CASE row(d) # NoRow \/ row(e) # NoRow
  <2>1. row(d) # NoRow /\ row(e) # NoRow
    BY <1>1, <1>4 DEF AtLeast
  <2>2. row(d).ts = row(e).ts
    <3>1. row(d).ts \in Nat /\ row(e).ts \in Nat
      BY <2>1, RowTyped, StoreAssumption
    <3>2. row(d).ts <= row(e).ts /\ row(e).ts <= row(d).ts
      BY <2>1, <1>1 DEF AtLeast
    <3> HIDE DEF row
    <3>3. QED
      BY <3>1, <3>2
  <2>3. PICK c \in Device : \E i \in DOMAIN db[c].oplog :
           row(d) = [ts |-> db[c].oplog[i].ts, by |-> <<c, i>>]
    BY <2>1, <1>2
  <2>4. PICK i \in DOMAIN db[c].oplog : row(d) = [ts |-> db[c].oplog[i].ts, by |-> <<c, i>>]
    BY <2>3
  <2>5. PICK f \in Device : \E j \in DOMAIN db[f].oplog :
           row(e) = [ts |-> db[f].oplog[j].ts, by |-> <<f, j>>]
    BY <2>1, <1>2
  <2>6. PICK j \in DOMAIN db[f].oplog : row(e) = [ts |-> db[f].oplog[j].ts, by |-> <<f, j>>]
    BY <2>5
  <2> HIDE DEF row
  <2>7. db[c].oplog[i].ts = db[f].oplog[j].ts
    BY <2>2, <2>4, <2>6
  <2>8. c = f /\ i = j
    BY <2>7 DEF CInv, Stamped
  <2>9. QED
    BY <2>4, <2>6, <2>8 DEF row
<1>5. QED
  BY <1>3, <1>4

LEMMA ConvImplies == IInv /\ CInv => RegistersConverge
  BY NewestAgree DEF RegistersConverge, Agree

\* Reading progress and preferences converge: with stamps that grow the way HLC
\* stamps do, when everything is exchanged every device holds the same row, for any
\* number of devices and of overlapping push_pending, pull_remote and sync calls,
\* with replies lost, processes killed, operations pushed twice (StableOpIds FALSE)
\* and a device applying its own operations (OwnDeviceKnown FALSE).
THEOREM LastWriterWins == ASSUME OrderedClocks PROVE Spec => []RegistersConverge
<1>1. Init => IInv /\ CInv
  BY InitInv, InitConv
<1>2. IInv /\ CInv /\ [Next]_vars => (IInv /\ CInv)'
  BY NextInv, NextConv
<1>3. IInv /\ CInv => RegistersConverge
  BY ConvImplies
<1>4. QED
  BY <1>1, <1>2, <1>3, PTL DEF Spec
-----------------------------------------------------------------------------
(***************************************************************************)
(* SyncEngine implements OpDelivery: a theorem for any number of devices,  *)
(* operations, batch and page sizes, and for all faults.  It needs what    *)
(* the engine expects of its surroundings: op_ids that do not change,      *)
(* clocks that move up, and one session at a time on each device.          *)
(***************************************************************************)

SerialSessions == \A s, t \in Session : Owner[s] = Owner[t] => s = t

-----------------------------------------------------------------------------
(* The inductive invariant, on top of IInv.                                *)

\* The push order of a device's operations is the order in which it logged them.
StampsGrow(D) ==
    \A d \in Device : \A i, j \in DOMAIN D[d].oplog :
        i < j => D[d].oplog[i].ts < D[d].oplog[j].ts

\* Whatever d logged before an operation of T is in T too, or in the log.
Closed(L, d, T) == \A i \in T : \A j \in 1 .. i - 1 : j \in T \/ InLog(L, d, j)

\* The log has no operation of d without the ones before it.
Gapless(L, d) == Closed(L, d, {i \in Nat : InLog(L, d, i)})

\* A session has all that is to be pushed before what it holds.
InOrder(d, S, L) ==
    /\ S.pc = "push" => Closed(L, d, S.sending)
    /\ Closed(L, d, S.sending \cup S.waiting)

\* A session is not behind the cursor that its device has saved.
Ahead(S, D) == S.pc \in {"pull", "apply", "failed"} => D.cursor <= S.cursor

SessionOrder(d, S, D, L) == InOrder(d, S, L) /\ Ahead(S, D)

DInv ==
    /\ StampsGrow(db)
    /\ \A d \in Device : Gapless(log, d)
    /\ \A s \in Session : SessionOrder(Owner[s], sess[s], db[Owner[s]], log)

-----------------------------------------------------------------------------
(* Runs of numbers.                                                        *)

\* f enumerates m + 1 .. n in order; c is how many they are.
Enumerates(f, c, m, n) ==
    /\ m \in Nat /\ n \in Nat /\ m <= n /\ c \in Nat
    /\ c = Cardinality(m + 1 .. n)
    /\ f \in [1 .. c -> m + 1 .. n]
    /\ \A y \in m + 1 .. n : \E k \in 1 .. c : f[k] = y
    /\ \A j, k \in 1 .. c : j < k => f[j] < f[k]

\* There is only one such enumeration.
LEMMA RankInRun ==
    ASSUME NEW f, NEW c, NEW m, NEW n, Enumerates(f, c, m, n)
    PROVE  c = n - m /\ \A k \in 1 .. c : f[k] = m + k
<1>0. /\ m \in Nat /\ n \in Nat /\ m <= n /\ c \in Nat
      /\ c = Cardinality(m + 1 .. n)
      /\ f \in [1 .. c -> m + 1 .. n]
      /\ \A y \in m + 1 .. n : \E k \in 1 .. c : f[k] = y
      /\ \A j, k \in 1 .. c : j < k => f[j] < f[k]
  BY DEF Enumerates
<1>1. c = n - m
  <2>1. m + 1 \in Int /\ n \in Int
    BY <1>0
  <2>2. Cardinality(m + 1 .. n) = IF m + 1 > n THEN 0 ELSE n - (m + 1) + 1
    BY <2>1, FS_Interval
  <2>3. QED
    BY <1>0, <2>2
<1>2. ASSUME NEW k \in 1 .. c PROVE f[k] = m + k
  <2> DEFINE run == m + 1 .. f[k]
             g == [i \in 1 .. k |-> f[i]]
  <2>1. f[k] \in m + 1 .. n
    BY <1>0
  <2>2. \A i \in 1 .. k : i \in 1 .. c /\ (i < k \/ i = k)
    BY <1>0
  <2>3. \A i \in 1 .. k : f[i] \in m + 1 .. n /\ f[i] <= f[k]
    <3>1. ASSUME NEW i \in 1 .. k PROVE f[i] \in m + 1 .. n /\ f[i] <= f[k]
      <4>1. i \in 1 .. c /\ f[i] \in m + 1 .. n /\ (f[i] < f[k] \/ f[i] = f[k])
        BY <1>0, <2>2
      <4>2. QED
        BY <1>0, <2>1, <4>1
    <3>2. QED
      BY <3>1
  <2>4. g \in [1 .. k -> run]
    BY <1>0, <2>1, <2>3
  <2>5. \A i, j \in 1 .. k : g[i] = g[j] => i = j
    <3>1. ASSUME NEW i \in 1 .. k, NEW j \in 1 .. k, i < j PROVE f[i] # f[j]
      BY <1>0, <2>2, <2>3, <3>1
    <3>2. QED
      BY <1>0, <3>1
  <2>6. \A y \in run : \E i \in 1 .. k : g[i] = y
    <3>1. ASSUME NEW y \in run PROVE \E i \in 1 .. k : f[i] = y
      <4>1. y \in m + 1 .. n
        BY <1>0, <2>1
      <4>2. PICK i \in 1 .. c : f[i] = y
        BY <1>0, <4>1
      <4>3. ~(k < i)
        BY <1>0, <2>1, <4>1, <4>2
      <4>4. QED
        BY <1>0, <4>2, <4>3
    <3>2. QED
      BY <3>1
  <2> HIDE DEF g, run
  <2>7. g \in Bijection(1 .. k, run)
    BY <2>4, <2>5, <2>6 DEF Bijection, Injection, Surjection, IsInjective
  <2>8. IsFiniteSet(1 .. k) /\ Cardinality(1 .. k) = k
    BY <1>0, FS_Interval
  <2>9. Cardinality(run) = Cardinality(1 .. k)
    <3>1. ExistsBijection(1 .. k, run)
      BY <2>7 DEF ExistsBijection
    <3>2. QED
      BY <2>8, <3>1, FS_Bijection
  <2>10. Cardinality(run) = f[k] - m
    <3>1. m + 1 \in Int /\ f[k] \in Int /\ ~(m + 1 > f[k])
      BY <1>0, <2>1
    <3>2. Cardinality(m + 1 .. f[k]) = f[k] - (m + 1) + 1
      BY <3>1, FS_Interval
    <3>3. QED
      BY <1>0, <2>1, <3>2 DEF run
  <2>11. QED
    BY <1>0, <2>1, <2>8, <2>9, <2>10
<1>3. QED
  BY <1>1, <1>2

-----------------------------------------------------------------------------
(* Pushing: what the server appends is the next run of the device's        *)
(* operations.                                                             *)

LEMMA BeforeIsLess ==
    ASSUME IInv, StampsGrow(db), NEW d \in Device,
           NEW i \in DOMAIN db[d].oplog, NEW j \in DOMAIN db[d].oplog
    PROVE  Before(db[d], i, j) <=> i < j
<1>1. /\ db[d].oplog[i].ts \in Nat /\ db[d].oplog[j].ts \in Nat
      /\ i \in Nat /\ j \in Nat
  BY OpTyped
<1>2. /\ i < j => db[d].oplog[i].ts < db[d].oplog[j].ts
      /\ j < i => db[d].oplog[j].ts < db[d].oplog[i].ts
  BY DEF StampsGrow
<1>3. QED
  BY <1>1, <1>2 DEF Before

LEMMA InLogIsPushed ==
    ASSUME NEW d, NEW i
    PROVE  InLog(log, d, i) <=> <<d, i>> \in Pushed
  BY DEF InLog, Pushed

\* The new operations of a request are a run, and those before it are in the log.
LEMMA FreshIsRun ==
    ASSUME IInv, DInv, StableOpIds, NEW s \in Session, sess[s].pc = "push",
           NEW c \in Nat \ {0},
           NEW f \in [1 .. c -> Fresh(Owner[s], sess[s].sending)],
           \A i \in Fresh(Owner[s], sess[s].sending) : \E k \in 1 .. c : f[k] = i,
           \A j, k \in 1 .. c : j < k => f[j] < f[k]
    PROVE  /\ f[1] - 1 \in Nat /\ f[c] \in Nat /\ f[1] - 1 <= f[c]
           /\ Fresh(Owner[s], sess[s].sending) = (f[1] - 1) + 1 .. f[c]
           /\ \A i \in Nat \ {0} : InLog(log, Owner[s], i) => i <= f[1] - 1
           /\ \A i \in 1 .. f[1] - 1 : InLog(log, Owner[s], i)
<1> DEFINE d == Owner[s]
           sending == sess[s].sending
           ids == Fresh(d, sending)
<1>1. /\ d \in Device
      /\ sending \subseteq 1 .. Len(db[d].oplog)
      /\ Len(db[d].oplog) \in Nat
  BY OwnerFacts, DeviceFacts DEF SessionFacts
<1>2. ids \subseteq sending /\ \A i \in sending : i \in ids <=> ~InLog(log, d, i)
  BY InLogIsPushed DEF Fresh
<1>3. Closed(log, d, sending) /\ Gapless(log, d)
  BY <1>1 DEF DInv, SessionOrder, InOrder
<1> HIDE DEF d, sending, ids
<1>4. f \in [1 .. c -> ids] /\ \A i \in ids : \E k \in 1 .. c : f[k] = i
  BY DEF ids, d, sending
<1>5. \A i \in sending : i \in Nat \ {0}
  BY <1>1
<1>6. 1 \in 1 .. c /\ c \in 1 .. c /\ f[1] \in ids /\ f[c] \in ids
  BY <1>4
<1>7. \A k \in 1 .. c : f[1] <= f[k] /\ f[k] <= f[c]
  <2>1. ASSUME NEW k \in 1 .. c PROVE f[1] <= f[k] /\ f[k] <= f[c]
    <3>1. f[k] \in Nat /\ f[1] \in Nat /\ f[c] \in Nat
      BY <1>2, <1>4, <1>5, <1>6
    <3>2. (1 < k \/ k = 1) /\ (k < c \/ k = c)
      OBVIOUS
    <3>3. QED
      BY <1>6, <3>1, <3>2
  <2>2. QED
    BY <2>1
<1>8. ASSUME NEW i \in Nat \ {0}, InLog(log, d, i) PROVE i < f[1]
  <2>1. CASE f[1] = i
    BY <1>2, <1>6, <1>8, <2>1
  <2>2. CASE f[1] < i
    <3>1. f[1] \in 1 .. i - 1
      BY <1>2, <1>5, <1>6, <2>2
    <3>2. InLog(log, d, f[1])
      BY <1>3, <1>8, <3>1 DEF Gapless, Closed
    <3>3. QED
      BY <1>2, <1>6, <3>2
  <2>3. QED
    BY <1>2, <1>5, <1>6, <2>1, <2>2
<1>9. ASSUME NEW i \in 1 .. f[1] - 1 PROVE InLog(log, d, i)
  <2>1. i \in sending \/ InLog(log, d, i)
    BY <1>2, <1>3, <1>6 DEF Closed
  <2>2. i \notin ids
    <3>1. \A k \in 1 .. c : f[k] # i
      BY <1>2, <1>5, <1>6, <1>7
    <3>2. QED
      BY <1>4, <3>1
  <2>3. QED
    BY <1>2, <2>1, <2>2
<1>10. ASSUME NEW i \in ids PROVE i \in f[1] .. f[c]
  <2>1. PICK k \in 1 .. c : f[k] = i
    BY <1>4
  <2>2. QED
    BY <1>2, <1>5, <1>6, <1>7, <2>1
<1>11. ASSUME NEW i \in f[1] .. f[c] PROVE i \in ids
  <2>1. i \in Nat \ {0} /\ ~InLog(log, d, i)
    BY <1>2, <1>5, <1>6, <1>8
  <2>2. CASE i = f[c]
    BY <1>6, <2>2
  <2>3. CASE i < f[c]
    <3>1. i \in 1 .. f[c] - 1 /\ f[c] \in sending
      BY <1>2, <1>5, <1>6, <2>1, <2>3
    <3>2. QED
      BY <1>2, <1>3, <2>1, <3>1 DEF Closed
  <2>4. QED
    BY <1>2, <1>5, <1>6, <2>2, <2>3
<1>12. ids = f[1] .. f[c]
  BY <1>10, <1>11
<1>13. f[1] \in Nat \ {0} /\ f[c] \in Nat /\ f[1] <= f[c]
  BY <1>2, <1>5, <1>6, <1>7
<1>14. ids = (f[1] - 1) + 1 .. f[c]
  BY <1>12, <1>13
<1>15. /\ \A i \in Nat \ {0} : InLog(log, d, i) => i <= f[1] - 1
       /\ \A i \in 1 .. f[1] - 1 : InLog(log, d, i)
  BY <1>8, <1>9, <1>13
<1>16. QED
  BY <1>13, <1>14, <1>15 DEF ids, d, sending

\* The server appends the next run of the device's operations, or nothing.
NextRun(d) ==
    \E m, n \in 0 .. Len(db[d].oplog) :
        /\ m < n
        /\ \A i \in 1 .. Len(db[d].oplog) : InLog(log, d, i) <=> i <= m
        /\ log' = log \o [k \in 1 .. n - m |-> <<d, m + k>>]

LEMMA PushAppendsRun ==
    ASSUME IInv, DInv, StableOpIds, NEW s \in Session, ServerPush(s)
    PROVE  log' = log \/ NextRun(Owner[s])
<1> DEFINE d == Owner[s]
           ids == Fresh(d, sess[s].sending)
           c == Cardinality(ids)
           len == Len(db[d].oplog)
<1>1. /\ d \in Device /\ len \in Nat /\ DOMAIN db[d].oplog = 1 .. len
      /\ sess[s].sending \subseteq 1 .. len
      /\ sess[s].pc = "push"
  BY OwnerFacts, DeviceFacts DEF SessionFacts, ServerPush
<1>2. ids \in SUBSET (1 .. len)
  BY <1>1 DEF Fresh
<1>3. PICK f \in Orderings(d, ids) : log' = log \o [k \in DOMAIN f |-> <<d, f[k]>>]
  BY DEF ServerPush
<1>4. c \in Nat /\ (c = 0 => ids = {})
  <2> HIDE DEF ids, len
  <2>1. IsFiniteSet(1 .. len)
    BY <1>1, FS_Interval
  <2>2. IsFiniteSet(ids)
    BY <1>2, <2>1, FS_Subset
  <2>3. QED
    BY <2>2, FS_CardinalityType, FS_EmptySet
<1>5. /\ f \in [1 .. c -> ids]
      /\ {f[k] : k \in DOMAIN f} = ids
      /\ \A j, k \in 1 .. c : j < k => Before(db[d], f[j], f[k])
  BY <1>3 DEF Orderings
<1>6. DOMAIN f = 1 .. c
  BY <1>5
<1>7. \A j, k \in 1 .. c : j < k => f[j] < f[k]
  <2>1. ASSUME NEW j \in 1 .. c, NEW k \in 1 .. c, j < k PROVE f[j] < f[k]
    <3>1. f[j] \in DOMAIN db[d].oplog /\ f[k] \in DOMAIN db[d].oplog
      BY <1>1, <1>2, <1>5
    <3>2. Before(db[d], f[j], f[k])
      BY <1>5, <2>1
    <3>3. QED
      BY <1>1, <3>1, <3>2, BeforeIsLess DEF DInv
  <2>2. QED
    BY <2>1
<1>8. log \in Seq(Device \X Nat)
  BY DEF IInv, LogFacts
<1>9. CASE c = 0
  <2>1. DOMAIN f = {}
    BY <1>6, <1>9
  <2>2. [k \in DOMAIN f |-> <<d, f[k]>>] = << >>
    BY <2>1
  <2>3. QED
    BY <1>3, <1>8, <2>2, ConcatEmptySeq
<1>10. CASE c # 0
  <2> DEFINE m == f[1] - 1
             n == f[c]
  <2>1. \A i \in ids : \E k \in 1 .. c : f[k] = i
    BY <1>5, <1>6
  <2>2. /\ m \in Nat /\ n \in Nat /\ m <= n
        /\ ids = m + 1 .. n
        /\ \A i \in Nat \ {0} : InLog(log, d, i) => i <= m
        /\ \A i \in 1 .. m : InLog(log, d, i)
    <3>1. c \in Nat \ {0}
      BY <1>4, <1>10
    <3>2. f \in [1 .. c -> Fresh(Owner[s], sess[s].sending)]
      BY <1>5
    <3> HIDE DEF c
    <3>3. QED
      BY <1>1, <1>7, <2>1, <3>1, <3>2, FreshIsRun
  <2>3. n \in ids
    BY <1>4, <1>5, <1>10
  <2>4. m < n /\ n \in 1 .. len
    BY <1>2, <2>2, <2>3
  <2>5. c = n - m /\ \A k \in 1 .. c : f[k] = m + k
    <3>1. f \in [1 .. c -> m + 1 .. n] /\ \A y \in m + 1 .. n : \E k \in 1 .. c : f[k] = y
      BY <1>5, <2>1, <2>2
    <3>2. c = Cardinality(m + 1 .. n)
      BY <2>2
    <3>3. \A j, k \in 1 .. c : j < k => f[j] < f[k]
      BY <1>7
    <3>4. m \in Nat /\ n \in Nat /\ m <= n /\ c \in Nat
      BY <1>4, <2>2
    <3>5. Enumerates(f, c, m, n)
      BY <3>1, <3>2, <3>3, <3>4 DEF Enumerates
    <3> HIDE DEF c, m, n
    <3>6. QED
      BY <3>5, RankInRun
  <2>6. [k \in DOMAIN f |-> <<d, f[k]>>] = [k \in 1 .. n - m |-> <<d, m + k>>]
    BY <1>6, <2>5
  <2>7. m \in 0 .. len /\ n \in 0 .. len
    BY <1>1, <2>2, <2>4
  <2>8. \A i \in 1 .. len : InLog(log, d, i) <=> i <= m
    BY <1>1, <2>2
  <2>9. log' = log \o [k \in 1 .. n - m |-> <<d, m + k>>]
    BY <1>3, <2>6
  <2> HIDE DEF m, n, d
  <2>10. QED
    BY <2>4, <2>7, <2>8, <2>9 DEF NextRun, d
<1>11. QED
  BY <1>9, <1>10

\* The log stays without gaps.
LEMMA RunIsGapless ==
    ASSUME IInv, NEW d \in Device, Gapless(log, d), NextRun(d)
    PROVE  /\ Extends(log, log')
           /\ Gapless(log', d)
           /\ \A e, i : e # d => (InLog(log', e, i) <=> InLog(log, e, i))
<1> DEFINE len == Len(db[d].oplog)
<1>1. len \in Nat
  BY DeviceFacts
<1>2. PICK m \in 0 .. len, n \in 0 .. len :
         /\ m < n
         /\ \A i \in 1 .. len : InLog(log, d, i) <=> i <= m
         /\ log' = log \o [k \in 1 .. n - m |-> <<d, m + k>>]
  BY DEF NextRun
<1> DEFINE c == n - m
           ids == m + 1 .. n
           f == [k \in 1 .. c |-> m + k]
<1>3. m \in Nat /\ n \in Nat /\ c \in Nat /\ ids \in SUBSET Nat /\ f \in [1 .. c -> ids]
  BY <1>1, <1>2
<1>4. log \in Seq(Device \X Nat) /\ Len(log) \in Nat /\ DOMAIN log = 1 .. Len(log)
  BY LenProperties DEF IInv, LogFacts
<1>5. log' = log \o [k \in DOMAIN f |-> <<d, f[k]>>]
  <2>1. [k \in DOMAIN f |-> <<d, f[k]>>] = [k \in 1 .. n - m |-> <<d, m + k>>]
    OBVIOUS
  <2>2. QED
    BY <1>2, <2>1
<1>6. /\ log' \in Seq(Device \X Nat)
      /\ Len(log') = Len(log) + c
      /\ Extends(log, log')
      /\ \A k \in 1 .. c : log'[Len(log) + k] = <<d, f[k]>>
  <2> DEFINE M == log \o [k \in DOMAIN f |-> <<d, f[k]>>]
  <2>1. log' = M
    BY <1>5
  <2> HIDE DEF f, ids, c
  <2>2. /\ M \in Seq(Device \X Nat)
        /\ Len(M) = Len(log) + c
        /\ Extends(log, M)
        /\ \A k \in 1 .. c : M[Len(log) + k] = <<d, f[k]>>
    BY <1>3, <1>4, AppendFacts
  <2> HIDE DEF M
  <2>3. QED
    BY <2>1, <2>2
<1>7. DOMAIN log' = 1 .. Len(log) + c
  BY <1>6, LenProperties
<1>8. ASSUME NEW k \in DOMAIN log'
      PROVE  \/ k \in DOMAIN log /\ log'[k] = log[k]
             \/ \E j \in 1 .. c : log'[k] = <<d, m + j>>
  <2>1. CASE k \in DOMAIN log
    BY <1>6, <2>1 DEF Extends
  <2>2. CASE k \notin DOMAIN log
    <3>1. k - Len(log) \in 1 .. c /\ k = Len(log) + (k - Len(log))
      BY <1>3, <1>4, <1>7, <2>2
    <3>2. QED
      BY <1>6, <3>1
  <2>3. QED
    BY <2>1, <2>2
<1>9. \A e, i : InLog(log, e, i) => InLog(log', e, i)
  BY <1>6 DEF InLog, Extends
<1>10. ASSUME NEW e, NEW i, e # d, InLog(log', e, i) PROVE InLog(log, e, i)
  <2>1. PICK k \in DOMAIN log' : log'[k] = <<e, i>>
    BY <1>10 DEF InLog
  <2>2. \A j : log'[k] # <<d, j>>
    BY <1>10, <2>1
  <2>3. QED
    BY <1>8, <2>1, <2>2 DEF InLog
<1>11. ASSUME NEW j \in 1 .. c PROVE InLog(log', d, m + j)
  <2>1. Len(log) + j \in DOMAIN log' /\ log'[Len(log) + j] = <<d, m + j>>
    <3>1. Len(log) + j \in 1 .. Len(log) + c
      BY <1>3, <1>4
    <3>2. QED
      BY <1>6, <1>7, <3>1
  <2>2. QED
    BY <2>1 DEF InLog
<1>12. ASSUME NEW i \in Nat, InLog(log', d, i), NEW j \in 1 .. i - 1 PROVE InLog(log', d, j)
  <2>1. PICK k \in DOMAIN log' : log'[k] = <<d, i>>
    BY <1>12 DEF InLog
  <2>2. CASE log[k] = <<d, i>> /\ k \in DOMAIN log
    <3>1. InLog(log, d, i)
      BY <2>2 DEF InLog
    <3>2. InLog(log, d, j)
      BY <1>12, <3>1 DEF Gapless, Closed
    <3>3. QED
      BY <1>9, <3>2
  <2>3. ASSUME NEW l \in 1 .. c, i = m + l PROVE InLog(log', d, j)
    <3>1. CASE j <= m
      <4>1. j \in 1 .. len
        BY <1>1, <1>3, <3>1
      <4>2. QED
        BY <1>2, <1>9, <3>1, <4>1
    <3>2. CASE ~(j <= m)
      <4>1. j - m \in 1 .. c /\ j = m + (j - m)
        BY <1>3, <2>3, <3>2
      <4>2. QED
        BY <1>11, <4>1
    <3>3. QED
      BY <3>1, <3>2
  <2>4. QED
    BY <1>8, <2>1, <2>2, <2>3
<1>13. Gapless(log', d)
  BY <1>12 DEF Gapless, Closed
<1>14. QED
  BY <1>6, <1>9, <1>10, <1>13

-----------------------------------------------------------------------------
(* The shape of every step: of the implementation, and of what it maps to. *)

\* What issued and position stand for.
Issued == [d \in Device |-> Len(db[d].oplog)]
Position == [d \in Device |-> db[d].cursor]

LEMMA ClosedGrows ==
    ASSUME NEW L, NEW M, NEW d, NEW T, Closed(L, d, T), Extends(L, M)
    PROVE  Closed(M, d, T)
  BY DEF Closed, InLog, Extends

LEMMA OrderStep ==
    ASSUME DInv, Extends(log, log'), StampsGrow(db'),
           \A d \in Device : Gapless(log', d),
           \A s \in Session :
               \/ sess'[s] = sess[s] /\ db'[Owner[s]].cursor = db[Owner[s]].cursor
               \/ SessionOrder(Owner[s], sess'[s], db'[Owner[s]], log')
    PROVE  DInv'
<1>1. ASSUME NEW s \in Session PROVE SessionOrder(Owner[s], sess'[s], db'[Owner[s]], log')
  <2>1. CASE sess'[s] = sess[s] /\ db'[Owner[s]].cursor = db[Owner[s]].cursor
    <3>1. InOrder(Owner[s], sess[s], log) /\ Ahead(sess[s], db[Owner[s]])
      BY DEF DInv, SessionOrder
    <3>2. InOrder(Owner[s], sess[s], log')
      BY <3>1, ClosedGrows DEF InOrder
    <3>3. QED
      BY <2>1, <3>1, <3>2 DEF SessionOrder, InOrder, Ahead
  <2>2. QED
    BY <2>1
<1>2. QED
  BY <1>1 DEF DInv

\* The logged operations of D and E have the same stamps.
SameStamps(D, E) ==
    /\ DOMAIN E.oplog = DOMAIN D.oplog
    /\ \A i \in DOMAIN D.oplog : E.oplog[i].ts = D.oplog[i].ts

\* A step that logs nothing and pushes nothing.
LEMMA NothingLogged ==
    ASSUME IInv, DInv, log' = log,
           NEW d \in Device, NEW E, db' = [db EXCEPT ![d] = E], SameStamps(db[d], E),
           \A s \in Session :
               \/ sess'[s] = sess[s] /\ (Owner[s] = d => E.cursor = db[d].cursor)
               \/ SessionOrder(Owner[s], sess'[s], db'[Owner[s]], log)
    PROVE  DInv'
<1>1. db'[d] = E /\ \A e \in Device : e # d => db'[e] = db[e]
  BY DEF IInv, Functional
<1>2. StampsGrow(db')
  BY <1>1 DEF DInv, StampsGrow, SameStamps
<1>3. Extends(log, log')
  BY ExtendsSelf DEF IInv, LogFacts
<1>4. ASSUME NEW s \in Session
      PROVE  \/ sess'[s] = sess[s] /\ db'[Owner[s]].cursor = db[Owner[s]].cursor
             \/ SessionOrder(Owner[s], sess'[s], db'[Owner[s]], log')
  <2>1. Owner[s] \in Device
    BY SyncAssumption
  <2>2. QED
    BY <1>1, <2>1
<1>5. \A e \in Device : Gapless(log', e)
  BY DEF DInv
<1>6. QED
  BY <1>2, <1>3, <1>4, <1>5, OrderStep

\* A step of the sessions only.
LEMMA SessionsMove ==
    ASSUME IInv, DInv, UNCHANGED <<db, log>>,
           \A s \in Session :
               \/ sess'[s] = sess[s]
               \/ SessionOrder(Owner[s], sess'[s], db[Owner[s]], log)
    PROVE  DInv' /\ UNCHANGED <<Issued, log, Position>>
<1>1. Extends(log, log')
  BY ExtendsSelf DEF IInv, LogFacts
<1>2. StampsGrow(db') /\ \A e \in Device : Gapless(log', e)
  BY DEF DInv
<1>3. DInv'
  BY <1>1, <1>2, OrderStep
<1>4. QED
  BY <1>3 DEF Issued, Position

LEMMA OneSessionMoves ==
    ASSUME IInv, DInv, UNCHANGED <<db, log>>, NEW s \in Session, NEW T, Goto(s, T),
           SessionOrder(Owner[s], T, db[Owner[s]], log)
    PROVE  DInv' /\ UNCHANGED <<Issued, log, Position>>
<1>1. sess'[s] = T /\ \A r \in Session : r # s => sess'[r] = sess[r]
  BY DEF Goto, IInv, Functional
<1>2. QED
  BY <1>1, SessionsMove

\* A session that holds nothing and pulls nothing.
LEMMA RestOrder ==
    ASSUME NEW d, NEW D, NEW L, NEW mode
    PROVE  SessionOrder(d, Idle, D, L) /\ SessionOrder(d, AfterPush(mode), D, L)
  BY DEF Idle, AfterPush, SessionOrder, InOrder, Ahead, Closed

-----------------------------------------------------------------------------
(* One lemma per action, or for two.                                       *)

\* The device logs an operation.
LEMMA LoggingDelivers ==
    ASSUME IInv, DInv, OrderedClocks, UNCHANGED <<log, sess>>,
           NEW d \in Device, NEW o \in Object, NEW ts \in Stamp, StampOK(d, o, ts),
           NEW type \in {"put", "delete"},
           NEW D \in Db, D.oplog = db[d].oplog, D.cursor = db[d].cursor,
           db' = [db EXCEPT ![d] = WriteOpLog(D, type, o, ts)]
    PROVE  DInv' /\ Delivery!Issue(d)
<1> DEFINE E == WriteOpLog(D, type, o, ts)
           n == NextId(D)
<1>1. ts \in Nat
  BY SyncAssumption
<1>2. /\ DOMAIN E.oplog = DOMAIN db[d].oplog \cup {n}
      /\ E.oplog[n].ts = ts
      /\ \A i \in DOMAIN db[d].oplog : E.oplog[i] = db[d].oplog[i]
  BY <1>1, LoggedLast
<1>3. E.cursor = db[d].cursor /\ Len(E.oplog) = Len(db[d].oplog) + 1
  <2>1. E.cursor = D.cursor /\ Len(E.oplog) = Len(D.oplog) + 1
    BY <1>1, WriteOpLogType, Zenon
  <2>2. QED
    BY <2>1
<1>4. \A i \in DOMAIN db[d].oplog : db[d].oplog[i].ts < ts /\ i < n /\ i \in Nat
  <2>1. \A i \in DOMAIN db[d].oplog : db[d].oplog[i].ts < ts
    BY Zenon DEF StampOK
  <2>2. \A i \in DOMAIN db[d].oplog : i < n /\ i \in Nat
    BY DeviceFacts DEF NextId
  <2>3. QED
    BY <2>1, <2>2
<1>5. n \in Nat
  BY DeviceFacts DEF NextId
<1> HIDE DEF E, n
<1>6. db'[d] = E /\ \A e \in Device : e # d => db'[e] = db[e]
  BY DEF IInv, Functional, E
<1>7. ASSUME NEW i \in DOMAIN E.oplog, NEW j \in DOMAIN E.oplog, i < j
      PROVE  E.oplog[i].ts < E.oplog[j].ts
  <2>1. i \in DOMAIN db[d].oplog
    BY <1>2, <1>4, <1>5, <1>7
  <2>2. CASE j = n
    BY <1>2, <1>4, <2>1, <2>2
  <2>3. CASE j \in DOMAIN db[d].oplog
    BY <1>2, <1>7, <2>1, <2>3 DEF DInv, StampsGrow
  <2>4. QED
    BY <1>2, <2>2, <2>3
<1>8. StampsGrow(db')
  BY <1>6, <1>7 DEF DInv, StampsGrow
<1>9. Extends(log, log') /\ \A e \in Device : Gapless(log', e)
  BY ExtendsSelf DEF IInv, LogFacts, DInv
<1>10. \A s \in Session : sess'[s] = sess[s] /\ db'[Owner[s]].cursor = db[Owner[s]].cursor
  BY <1>3, <1>6, SyncAssumption
<1>11. DInv'
  BY <1>8, <1>9, <1>10, OrderStep
<1>12. Position' = Position
  BY <1>3, <1>6 DEF Position
<1>13. Issued' = [Issued EXCEPT ![d] = @ + 1]
  <2>1. Issued[d] + 1 = Len(E.oplog)
    BY <1>3 DEF Issued
  <2>2. Issued' = [e \in Device |-> IF e = d THEN Len(E.oplog) ELSE Len(db[e].oplog)]
    BY <1>6 DEF Issued
  <2>3. QED
    BY <2>1, <2>2 DEF Issued
<1>14. Delivery!Issue(d)
  <2>1. log' = log
    OBVIOUS
  <2>2. QED
    BY <1>12, <1>13, <2>1 DEF Issued, Position, Delivery!Issue
<1>15. QED
  BY <1>11, <1>14

LEMMA PutDelivers ==
    ASSUME IInv, DInv, OrderedClocks,
           NEW d \in Device, NEW o \in Object, NEW ts \in Stamp, Put(d, o, ts)
    PROVE  DInv' /\ Delivery!Issue(d)
<1> DEFINE D == UpsertRow(db[d], o, ts, <<d, NextId(db[d])>>)
<1>1. /\ UNCHANGED <<log, sess>>
      /\ StampOK(d, o, ts)
      /\ db' = [db EXCEPT ![d] = WriteOpLog(D, "put", o, ts)]
  BY DEF Put
<1>2. db[d] \in Db /\ ts \in Nat /\ <<d, NextId(db[d])>> \in Device \X Nat
  BY DeviceFacts, SyncAssumption DEF NextId
<1>3. D \in Db /\ D.oplog = db[d].oplog /\ D.cursor = db[d].cursor
  BY <1>2, UpsertRowType
<1> HIDE DEF D
<1>4. QED
  BY <1>1, <1>3, LoggingDelivers

LEMMA DeleteDelivers ==
    ASSUME IInv, DInv, OrderedClocks,
           NEW d \in Device, NEW o \in Object, NEW ts \in Stamp, Delete(d, o, ts)
    PROVE  DInv' /\ Delivery!Issue(d)
<1> DEFINE D == DeleteRow(db[d], o)
<1>1. /\ UNCHANGED <<log, sess>>
      /\ StampOK(d, o, ts)
      /\ db' = [db EXCEPT ![d] = WriteOpLog(D, "delete", o, ts)]
  BY DEF Delete
<1>2. D \in Db /\ D.oplog = db[d].oplog /\ D.cursor = db[d].cursor
  BY DeviceFacts, DeleteRowType
<1> HIDE DEF D
<1>3. QED
  BY <1>1, <1>2, LoggingDelivers

\* A step that changes the rows and the books of a device, and marks operations.
LEMMA NothingDelivered ==
    ASSUME IInv, DInv, log' = log,
           NEW d \in Device, NEW E, db' = [db EXCEPT ![d] = E], SameStamps(db[d], E),
           Len(E.oplog) = Len(db[d].oplog), E.cursor = db[d].cursor,
           \A s \in Session :
               \/ sess'[s] = sess[s]
               \/ SessionOrder(Owner[s], sess'[s], db'[Owner[s]], log)
    PROVE  DInv' /\ UNCHANGED <<Issued, log, Position>>
<1>1. db'[d] = E /\ \A e \in Device : e # d => db'[e] = db[e]
  BY DEF IInv, Functional
<1>2. DInv'
  BY NothingLogged
<1>3. Issued' = Issued /\ Position' = Position
  BY <1>1 DEF Issued, Position
<1>4. QED
  BY <1>2, <1>3

LEMMA RegisterBookDelivers ==
    ASSUME IInv, DInv, NEW d \in Device, NEW b \in Book, RegisterBook(d, b)
    PROVE  DInv' /\ UNCHANGED <<Issued, log, Position>>
<1> DEFINE E == UpsertBook(db[d], b)
<1>1. E.oplog = db[d].oplog /\ E.cursor = db[d].cursor
  BY DeviceFacts, UpsertBookType
<1>2. db' = [db EXCEPT ![d] = E] /\ log' = log /\ sess' = sess
  BY DEF RegisterBook
<1> HIDE DEF E
<1>3. SameStamps(db[d], E)
  BY <1>1 DEF SameStamps
<1>4. QED
  BY <1>1, <1>2, <1>3, NothingDelivered

LEMMA TornWriteDelivers ==
    ASSUME IInv, DInv, NEW d \in Device, NEW o \in Object, NEW ts \in Stamp,
           TornWrite(d, o, ts)
    PROVE  DInv' /\ UNCHANGED <<Issued, log, Position>>
<1> DEFINE U == UpsertRow(db[d], o, ts, <<d, 0>>)
           R == DeleteRow(db[d], o)
<1>1. ts \in Nat /\ <<d, 0>> \in Device \X Nat /\ db[d] \in Db
  BY SyncAssumption, DeviceFacts
<1>2. /\ U.oplog = db[d].oplog /\ U.cursor = db[d].cursor
      /\ R.oplog = db[d].oplog /\ R.cursor = db[d].cursor
  BY <1>1, UpsertRowType, DeleteRowType
<1>3. /\ log' = log /\ Killed(d)
      /\ db' = [db EXCEPT ![d] = U] \/ db' = [db EXCEPT ![d] = R]
  BY DEF TornWrite, Killed
<1> HIDE DEF U, R
<1>4. PICK E \in {U, R} : db' = [db EXCEPT ![d] = E]
  BY <1>3
<1>5. SameStamps(db[d], E) /\ Len(E.oplog) = Len(db[d].oplog) /\ E.cursor = db[d].cursor
  BY <1>2, <1>4 DEF SameStamps
<1>6. \A s \in Session : \/ sess'[s] = sess[s]
                         \/ SessionOrder(Owner[s], sess'[s], db'[Owner[s]], log)
  BY <1>3, KilledSessions, RestOrder
<1>7. QED
  BY <1>3, <1>4, <1>5, <1>6, NothingDelivered

LEMMA ApplyOpDelivers ==
    ASSUME IInv, DInv, NEW s \in Session, ApplyOp(s)
    PROVE  DInv' /\ UNCHANGED <<Issued, log, Position>>
<1> DEFINE d == Owner[s]
           S == sess[s]
           k == S.cursor + 1
           R == IF OwnDeviceKnown /\ log[k][1] = d
                THEN [db |-> db[d], res |-> "own"]
                ELSE ApplyRemoteOp(db[d], Op(log[k]), log[k])
           E == R.db
           T == IF R.res = "failed" THEN [S EXCEPT !.pc = "failed"] ELSE [S EXCEPT !.cursor = k]
<1>1. /\ d \in Device
      /\ S \in SessionState
      /\ SessionFacts(d, S, db[d], handled[d], log)
      /\ db[d] \in Db
  BY OwnerFacts, DeviceFacts
<1>2. /\ S.pc = "apply"
      /\ S.cursor < S.last
      /\ db' = [db EXCEPT ![d] = E]
      /\ Goto(s, T)
      /\ log' = log
  BY DEF ApplyOp
<1>3. k \in DOMAIN log
  BY <1>1, <1>2, LenProperties DEF SessionFacts, SessionState, IInv, LogFacts
<1>4. E.oplog = db[d].oplog /\ E.cursor = db[d].cursor
  <2>1. log[k] \in Device \X Nat
    BY <1>3, ElementOfSeq, LenProperties DEF IInv, LogFacts
  <2>2. Op(log[k]) \in LoggedOp
    BY <1>3, EntryFacts DEF Op, OpIn
  <2> HIDE DEF k
  <2>3. QED
    BY <1>1, <2>1, <2>2, ApplyRemoteOpType
<1> HIDE DEF E, R
<1>5. /\ T.pc \in {"apply", "failed"} /\ T.cursor \in {S.cursor, k}
      /\ T.sending = S.sending /\ T.waiting = S.waiting
  BY <1>1, <1>2 DEF SessionState
<1>6. db[d].cursor \in Nat /\ S.cursor \in Nat /\ db[d].cursor <= S.cursor
  BY <1>1, <1>2 DEF Db, SessionState, DInv, SessionOrder, Ahead
<1> HIDE DEF T
<1>7. SessionOrder(d, T, E, log)
  <2>1. InOrder(d, T, log)
    BY <1>5 DEF DInv, SessionOrder, InOrder
  <2>2. E.cursor <= T.cursor
    BY <1>4, <1>5, <1>6
  <2>3. QED
    BY <2>1, <2>2 DEF SessionOrder, Ahead
<1>8. db'[d] = E /\ sess'[s] = T /\ \A r \in Session : r # s => sess'[r] = sess[r]
  BY <1>1, <1>2 DEF Goto, IInv, Functional
<1>9. SameStamps(db[d], E) /\ Len(E.oplog) = Len(db[d].oplog)
  BY <1>4 DEF SameStamps
<1>10. \A r \in Session : \/ sess'[r] = sess[r]
                          \/ SessionOrder(Owner[r], sess'[r], db'[Owner[r]], log)
  BY <1>7, <1>8
<1> HIDE DEF d
<1>11. QED
  BY <1>1, <1>2, <1>4, <1>9, <1>10, NothingDelivered

\* What a session sends and keeps of ids, when all before them is pushed.
LEMMA SendChunkOrder ==
    ASSUME IInv, StampsGrow(db), NEW d \in Device, NEW mode, NEW D,
           NEW ids \in SUBSET DOMAIN db[d].oplog, Closed(log, d, ids)
    PROVE  SessionOrder(d, SendChunk(d, mode, ids), D, log)
<1> DEFINE Rank(i) == {j \in ids : Before(db[d], j, i)}
           chunk == {i \in ids : Cardinality(Rank(i)) < BatchSize}
           T == SendChunk(d, mode, ids)
<1>1. DOMAIN db[d].oplog = 1 .. Len(db[d].oplog) /\ Len(db[d].oplog) \in Nat
  BY DeviceFacts
<1>2. IsFiniteSet(ids)
  <2>1. IsFiniteSet(1 .. Len(db[d].oplog))
    BY <1>1, FS_Interval
  <2>2. QED
    BY <1>1, <2>1, FS_Subset
<1>3. ASSUME NEW i \in chunk, NEW j \in ids, j < i PROVE j \in chunk
  <2>1. Rank(j) \subseteq Rank(i)
    <3>1. ASSUME NEW l \in Rank(j) PROVE l \in Rank(i)
      <4>1. l \in ids /\ l < j
        BY <3>1, BeforeIsLess
      <4>2. l < i
        BY <1>1, <1>3, <4>1
      <4>3. QED
        BY <4>1, <4>2, BeforeIsLess
    <3>2. QED
      BY <3>1
  <2>2. IsFiniteSet(Rank(i))
    BY <1>2, FS_Subset
  <2>3. Cardinality(Rank(j)) <= Cardinality(Rank(i))
        /\ Cardinality(Rank(j)) \in Nat /\ Cardinality(Rank(i)) \in Nat
    <3>1. IsFiniteSet(Rank(j)) /\ Cardinality(Rank(j)) <= Cardinality(Rank(i))
      BY <2>1, <2>2, FS_Subset
    <3>2. QED
      BY <2>2, <3>1, FS_CardinalityType
  <2>4. BatchSize \in Nat /\ Cardinality(Rank(i)) < BatchSize
    BY <1>3, SyncAssumption
  <2> HIDE DEF Rank
  <2>5. QED
    BY <2>3, <2>4
<1>4. T = [Idle EXCEPT !.pc = "push", !.mode = mode, !.sending = chunk, !.waiting = ids \ chunk]
  BY DEF SendChunk
<1>5. chunk \subseteq ids
  OBVIOUS
<1> HIDE DEF chunk, T
<1>6. T.pc = "push" /\ T.sending = chunk /\ T.waiting = ids \ chunk
  BY <1>4 DEF Idle
<1>7. Closed(log, d, chunk)
  BY <1>1, <1>3, <1>5 DEF Closed
<1>8. chunk \cup (ids \ chunk) = ids
  BY <1>5
<1>9. SessionOrder(d, T, D, log)
  BY <1>6, <1>7, <1>8 DEF SessionOrder, InOrder, Ahead
<1>10. QED
  BY <1>9 DEF T

LEMMA ReadUnsyncedDelivers ==
    ASSUME IInv, DInv, NEW s \in Session, NEW mode, ReadUnsynced(s, mode)
    PROVE  DInv' /\ UNCHANGED <<Issued, log, Position>>
<1> DEFINE d == Owner[s]
           ids == UnsyncedIds(db[d])
           T == IF ids = {} THEN AfterPush(mode) ELSE SendChunk(d, mode, ids)
<1>1. d \in Device /\ StoreFacts(d, db[d], handled[d], log)
      /\ DOMAIN db[d].oplog = 1 .. Len(db[d].oplog) /\ Len(db[d].oplog) \in Nat
  BY OwnerFacts, DeviceFacts
<1>2. Goto(s, T) /\ UNCHANGED <<db, log>>
  BY DEF ReadUnsynced
<1>3. ids \in SUBSET DOMAIN db[d].oplog
  BY DEF UnsyncedIds
<1>4. Closed(log, d, ids)
  <2>1. ASSUME NEW i \in ids, NEW j \in 1 .. i - 1 PROVE j \in ids \/ InLog(log, d, j)
    <3>1. j \in DOMAIN db[d].oplog
      BY <1>1, <1>3
    <3>2. QED
      BY <1>1, <3>1 DEF UnsyncedIds, StoreFacts
  <2>2. QED
    BY <2>1 DEF Closed
<1> HIDE DEF d, ids
<1>5. SessionOrder(d, T, db[d], log)
  BY <1>1, <1>3, <1>4, RestOrder, SendChunkOrder DEF DInv
<1> HIDE DEF T
<1>6. QED
  BY <1>2, <1>5, OneSessionMoves DEF d

\* The reply of a push: what comes next is closed, because the server has the rest.
LEMMA MarkSyncedDelivers ==
    ASSUME IInv, DInv, NEW s \in Session, MarkSynced(s)
    PROVE  DInv' /\ UNCHANGED <<Issued, log, Position>>
<1> DEFINE d == Owner[s]
           S == sess[s]
           E == MarkOpsSynced(db[d], S.sending)
           T == IF S.waiting = {} THEN AfterPush(S.mode) ELSE SendChunk(d, S.mode, S.waiting)
           Marked(op) == [op EXCEPT !.synced = TRUE]
<1>1. /\ d \in Device /\ db[d] \in Db
      /\ S \in SessionState
      /\ SessionFacts(d, S, db[d], handled[d], log)
  BY OwnerFacts, DeviceFacts
<1>2. /\ S.pc = "reply"
      /\ db' = [db EXCEPT ![d] = E]
      /\ Goto(s, T)
      /\ log' = log
  BY DEF MarkSynced
<1>3. E.cursor = db[d].cursor /\ Len(E.oplog) = Len(db[d].oplog)
      /\ DOMAIN E.oplog = DOMAIN db[d].oplog
  <2>1. S.sending \in SUBSET Nat
    BY <1>1 DEF SessionState
  <2>2. QED
    BY <1>1, <2>1, MarkOpsSyncedType, Zenon
<1>4. \A i \in DOMAIN db[d].oplog : E.oplog[i].ts = db[d].oplog[i].ts
  <2>1. E.oplog = [i \in DOMAIN db[d].oplog |->
                      IF i \in S.sending THEN Marked(db[d].oplog[i]) ELSE db[d].oplog[i]]
    BY <1>1 DEF MarkOpsSynced, Db
  <2>2. \A op \in LoggedOp : Marked(op).ts = op.ts
    BY DEF LoggedOp
  <2>3. \A i \in DOMAIN db[d].oplog : db[d].oplog[i] \in LoggedOp
    BY <1>1, DeviceFacts, ElementOfSeq
  <2> HIDE DEF Marked
  <2>4. QED
    BY <2>1, <2>2, <2>3
<1> HIDE DEF E
<1>5. SameStamps(db[d], E)
  BY <1>3, <1>4 DEF SameStamps
<1>6. Closed(log, d, S.waiting) /\ S.waiting \in SUBSET DOMAIN db[d].oplog
  <2>1. Closed(log, d, S.sending \cup S.waiting) /\ \A i \in S.sending : InLog(log, d, i)
    BY <1>1, <1>2 DEF DInv, SessionOrder, InOrder, SessionFacts
  <2>2. QED
    BY <1>1, <2>1 DEF Closed, SessionFacts
<1>7. SessionOrder(d, T, E, log)
  <2> DEFINE W == S.waiting
             mode == S.mode
  <2> HIDE DEF d, W, mode
  <2>1. SessionOrder(d, AfterPush(mode), E, log)
    BY RestOrder
  <2>2. W \in SUBSET DOMAIN db[d].oplog /\ Closed(log, d, W)
    BY <1>6 DEF W
  <2>3. SessionOrder(d, SendChunk(d, mode, W), E, log)
    BY <1>1, <2>2, SendChunkOrder DEF DInv
  <2>4. QED
    BY <2>1, <2>3 DEF T, W, mode
<1> HIDE DEF T
<1>8. db'[d] = E /\ sess'[s] = T /\ \A r \in Session : r # s => sess'[r] = sess[r]
  BY <1>1, <1>2 DEF Goto, IInv, Functional
<1>9. \A r \in Session : \/ sess'[r] = sess[r]
                         \/ SessionOrder(Owner[r], sess'[r], db'[Owner[r]], log)
  BY <1>7, <1>8
<1> HIDE DEF d
<1>10. QED
  BY <1>1, <1>2, <1>3, <1>5, <1>9, NothingDelivered

LEMMA ReadCursorDelivers ==
    ASSUME IInv, DInv, NEW s \in Session, ReadCursor(s)
    PROVE  DInv' /\ UNCHANGED <<Issued, log, Position>>
<1> DEFINE d == Owner[s]
           m == IF sess[s].pc = "idle" THEN "pull" ELSE sess[s].mode
           T == [Idle EXCEPT !.pc = "pull", !.mode = m, !.cursor = db[d].cursor]
<1>1. db[d].cursor \in Nat
  BY OwnerFacts, DeviceFacts DEF Db
<1>2. Goto(s, T) /\ UNCHANGED <<db, log>>
  BY DEF ReadCursor
<1>3. T.pc = "pull" /\ T.sending = {} /\ T.waiting = {} /\ T.cursor = db[d].cursor
  BY DEF Idle
<1> HIDE DEF T
<1>4. SessionOrder(d, T, db[d], log)
  BY <1>1, <1>3 DEF SessionOrder, InOrder, Ahead, Closed
<1>5. QED
  BY <1>2, <1>4, OneSessionMoves

LEMMA ServerPullDelivers ==
    ASSUME IInv, DInv, NEW s \in Session, ServerPull(s)
    PROVE  DInv' /\ UNCHANGED <<Issued, log, Position>>
<1> DEFINE d == Owner[s]
           S == sess[s]
           e == PageEnd(S.cursor)
           R == [S EXCEPT !.pc = "apply", !.last = e, !.more = Len(log) > e]
           T == IF e <= S.cursor THEN Idle ELSE R
<1>1. S \in SessionState /\ InOrder(d, S, log) /\ Ahead(S, db[d])
  BY OwnerFacts DEF DInv, SessionOrder
<1>2. S.pc = "pull" /\ Goto(s, T) /\ UNCHANGED <<db, log>>
  BY DEF ServerPull
<1> HIDE DEF e
<1>3. R.pc = "apply" /\ R.sending = S.sending /\ R.waiting = S.waiting /\ R.cursor = S.cursor
  BY <1>1 DEF SessionState
<1> HIDE DEF R
<1>4. SessionOrder(d, R, db[d], log)
  BY <1>1, <1>2, <1>3 DEF SessionOrder, InOrder, Ahead
<1>5. SessionOrder(d, T, db[d], log)
  BY <1>4, RestOrder
<1> HIDE DEF T
<1>6. QED
  BY <1>2, <1>5, OneSessionMoves

LEMMA LoseDelivers ==
    ASSUME IInv, DInv, NEW s \in Session, Lose(s)
    PROVE  DInv' /\ UNCHANGED <<Issued, log, Position>>
<1>1. Goto(s, Idle) /\ UNCHANGED <<db, log>>
  BY DEF Lose
<1>2. QED
  BY <1>1, RestOrder, OneSessionMoves

LEMMA CrashDelivers ==
    ASSUME IInv, DInv, NEW d \in Device, Crash(d)
    PROVE  DInv' /\ UNCHANGED <<Issued, log, Position>>
<1>1. Killed(d) /\ UNCHANGED <<db, log>>
  BY DEF Crash, Killed
<1>2. QED
  BY <1>1, KilledSessions, RestOrder, SessionsMove

\* The server's transaction is a Commit, or repeats what is in the log.
LEMMA ServerPushDelivers ==
    ASSUME IInv, DInv, StableOpIds, NEW s \in Session, ServerPush(s)
    PROVE  /\ DInv'
           /\ Delivery!Commit(Owner[s]) \/ UNCHANGED <<Issued, log, Position>>
<1> DEFINE d == Owner[s]
           S == sess[s]
           T == [S EXCEPT !.pc = "reply"]
<1>1. d \in Device /\ S \in SessionState /\ InOrder(d, S, log)
  BY OwnerFacts DEF DInv, SessionOrder
<1>2. S.pc = "push" /\ Goto(s, T) /\ db' = db
  BY DEF ServerPush
<1>3. T.pc = "reply" /\ T.sending = S.sending /\ T.waiting = S.waiting
  BY <1>1 DEF SessionState
<1> HIDE DEF T
<1>4. sess'[s] = T /\ \A r \in Session : r # s => sess'[r] = sess[r]
  BY <1>2 DEF Goto, IInv, Functional
<1>5. SessionOrder(d, T, db[d], log)
  BY <1>1, <1>3 DEF SessionOrder, InOrder, Ahead
<1>6. Issued' = Issued /\ Position' = Position
  BY <1>2 DEF Issued, Position
<1>7. CASE log' = log
  <2>1. DInv'
    BY <1>2, <1>4, <1>5, <1>7, SessionsMove
  <2>2. QED
    BY <1>6, <1>7, <2>1
<1>8. CASE NextRun(d)
  <2>1. /\ Extends(log, log')
        /\ Gapless(log', d)
        /\ \A e, i : e # d => (InLog(log', e, i) <=> InLog(log, e, i))
    BY <1>1, <1>8, RunIsGapless DEF DInv
  <2>2. \A e \in Device : Gapless(log', e)
    BY <2>1 DEF DInv, Gapless, Closed
  <2>3. SessionOrder(d, T, db[d], log')
    BY <1>3, <1>5, <2>1, ClosedGrows DEF SessionOrder, InOrder, Ahead
  <2>4. StampsGrow(db')
    BY <1>2 DEF DInv
  <2>5. \A r \in Session :
            \/ sess'[r] = sess[r] /\ db'[Owner[r]].cursor = db[Owner[r]].cursor
            \/ SessionOrder(Owner[r], sess'[r], db'[Owner[r]], log')
    BY <1>2, <1>4, <2>3
  <2>6. DInv'
    BY <2>1, <2>2, <2>4, <2>5, OrderStep
  <2>7. Delivery!Commit(d)
    <3>1. Issued[d] = Len(db[d].oplog)
      BY <1>1 DEF Issued
    <3>2. \E m, n \in 0 .. Issued[d] :
              /\ m < n
              /\ \A i \in 1 .. Issued[d] : InLog(log, d, i) <=> i <= m
              /\ log' = log \o [k \in 1 .. n - m |-> <<d, m + k>>]
      BY <1>8, <3>1 DEF NextRun
    <3>3. \A i : InLog(log, d, i) <=> Delivery!InLog(d, i)
      BY DEF InLog, Delivery!InLog
    <3>4. QED
      BY <1>6, <3>2, <3>3 DEF Issued, Position, Delivery!Commit
  <2>8. QED
    BY <2>6, <2>7
<1>9. QED
  BY <1>7, <1>8, PushAppendsRun

\* Saving a cursor is a Deliver, or changes nothing: it does not go back,
\* because no other session of the device can have saved a later one.
LEMMA SaveDelivers ==
    ASSUME IInv, DInv, SerialSessions, NEW s \in Session,
           SavePage(s) \/ SaveFailed(s)
    PROVE  /\ DInv'
           /\ Delivery!Deliver(Owner[s]) \/ UNCHANGED <<Issued, log, Position>>
<1> DEFINE d == Owner[s]
           S == sess[s]
           c == S.cursor
           E == SetCursor(db[d], c)
           T == IF S.pc = "apply" /\ S.more THEN [S EXCEPT !.pc = "pull"] ELSE Idle
<1>1. /\ d \in Device /\ db[d] \in Db
      /\ S \in SessionState
      /\ SessionFacts(d, S, db[d], handled[d], log)
      /\ InOrder(d, S, log) /\ Ahead(S, db[d])
  BY OwnerFacts, DeviceFacts DEF DInv, SessionOrder
<1>2. /\ S.pc \in {"apply", "failed"}
      /\ db' = [db EXCEPT ![d] = E]
      /\ Goto(s, T)
      /\ log' = log
  BY DEF SavePage, SaveFailed
<1>3. c \in Nat /\ db[d].cursor \in Nat /\ db[d].cursor <= c /\ c <= Len(log)
  <2>1. c <= S.last /\ S.last <= Len(log) /\ S.last \in Nat /\ Len(log) \in Nat
    BY <1>1, <1>2, LenProperties DEF SessionFacts, SessionState, IInv, LogFacts
  <2>2. QED
    BY <1>1, <1>2, <2>1 DEF SessionState, Db, Ahead
<1>4. E.oplog = db[d].oplog /\ E.cursor = c
  BY <1>1, <1>3, SetCursorType
<1> HIDE DEF E
<1>5. SessionOrder(d, T, E, log)
  <2>1. CASE S.pc = "apply" /\ S.more
    <3>1. T.pc = "pull" /\ T.sending = S.sending /\ T.waiting = S.waiting /\ T.cursor = c
      BY <1>1, <2>1 DEF SessionState
    <3> HIDE DEF T
    <3>2. QED
      BY <1>1, <1>3, <1>4, <3>1 DEF SessionOrder, InOrder, Ahead
  <2>2. CASE ~(S.pc = "apply" /\ S.more)
    BY <2>2, RestOrder
  <2>3. QED
    BY <2>1, <2>2
<1> HIDE DEF T
<1>6. /\ db'[d] = E /\ \A e \in Device : e # d => db'[e] = db[e]
      /\ sess'[s] = T /\ \A r \in Session : r # s => sess'[r] = sess[r]
  BY <1>1, <1>2 DEF Goto, IInv, Functional
<1>7. SameStamps(db[d], E)
  BY <1>4 DEF SameStamps
<1>8. \A r \in Session :
          \/ sess'[r] = sess[r] /\ (Owner[r] = d => E.cursor = db[d].cursor)
          \/ SessionOrder(Owner[r], sess'[r], db'[Owner[r]], log)
  BY <1>5, <1>6 DEF SerialSessions
<1>9. DInv'
  <2>1. d \in Device /\ log' = log /\ db' = [db EXCEPT ![d] = E]
    BY <1>1, <1>2
  <2> HIDE DEF d, S
  <2>2. QED
    BY <2>1, <1>7, <1>8, NothingLogged
<1>10. Issued' = Issued
  BY <1>4, <1>6 DEF Issued
<1>11. Position' = [Position EXCEPT ![d] = c]
  BY <1>4, <1>6 DEF Position
<1>12. CASE c = db[d].cursor
  <2>1. Position' = Position
    BY <1>1, <1>11, <1>12 DEF Position
  <2>2. QED
    BY <1>2, <1>9, <1>10, <2>1
<1>13. CASE c # db[d].cursor
  <2>1. c \in Position[d] + 1 .. Len(log)
    BY <1>1, <1>3, <1>13, LenProperties DEF Position, IInv, LogFacts
  <2> HIDE DEF c
  <2>2. Delivery!Deliver(d)
    BY <1>2, <1>10, <1>11, <2>1 DEF Issued, Position, Delivery!Deliver
  <2>3. QED
    BY <1>9, <2>2
<1>14. QED
  BY <1>12, <1>13

-----------------------------------------------------------------------------
(* The theorem.                                                            *)

LEMMA InitDelivers == Init => DInv /\ Delivery!Init
<1> SUFFICES ASSUME Init PROVE DInv /\ Delivery!Init
  OBVIOUS
<1>1. \A d \in Device : db[d].oplog = << >> /\ db[d].cursor = 0
  BY DEF Init, EmptyDb
<1>2. log = << >> /\ \A s \in Session : sess[s] = Idle
  BY DEF Init
<1>3. StampsGrow(db)
  BY <1>1 DEF StampsGrow
<1>4. \A d \in Device : Gapless(log, d)
  BY <1>2 DEF Gapless, Closed, InLog
<1>5. DInv
  BY <1>2, <1>3, <1>4, RestOrder DEF DInv
<1>6. Delivery!Init
  BY <1>1, <1>2 DEF Delivery!Init
<1>7. QED
  BY <1>5, <1>6

LEMMA NextDelivers ==
    ASSUME StableOpIds, OrderedClocks, SerialSessions
    PROVE  IInv /\ DInv /\ [Next]_vars
           => DInv' /\ [Delivery!Next]_<<Issued, log, Position>>
<1> SUFFICES ASSUME IInv, DInv, [Next]_vars
             PROVE  DInv' /\ [Delivery!Next]_<<Issued, log, Position>>
  OBVIOUS
<1> DEFINE Goal == DInv' /\ [Delivery!Next]_<<Issued, log, Position>>
<1>1. CASE UNCHANGED vars
  <2>1. UNCHANGED <<db, log, sess>>
    BY <1>1 DEF vars
  <2>2. QED
    BY <2>1, SessionsMove
<1>2. ASSUME NEW d \in Device, User(d) PROVE Goal
  <2>1. ASSUME NEW o \in Object, NEW ts \in Stamp, Put(d, o, ts) \/ Delete(d, o, ts)
        PROVE  Goal
    BY <2>1, PutDelivers, DeleteDelivers DEF Delivery!Next
  <2>2. ASSUME NEW b \in Book, RegisterBook(d, b) PROVE Goal
    BY <2>2, RegisterBookDelivers
  <2> HIDE DEF Goal
  <2>3. QED
    BY <1>2, <2>1, <2>2 DEF User
<1>3. ASSUME NEW d \in Device, Crash(d) PROVE Goal
  BY <1>3, CrashDelivers
<1>4. ASSUME NEW d \in Device, NEW o \in Object, NEW ts \in Stamp, TornWrite(d, o, ts)
      PROVE  Goal
  BY <1>4, TornWriteDelivers
<1>5. ASSUME NEW s \in Session, Step(s) PROVE Goal
  <2>1. Owner[s] \in Device
    BY OwnerFacts
  <2>2. CASE ServerPush(s)
    BY <2>1, <2>2, ServerPushDelivers DEF Delivery!Next
  <2>3. CASE MarkSynced(s)
    BY <2>3, MarkSyncedDelivers
  <2>4. CASE ReadCursor(s)
    BY <2>4, ReadCursorDelivers
  <2>5. CASE ServerPull(s)
    BY <2>5, ServerPullDelivers
  <2>6. CASE ApplyOp(s)
    BY <2>6, ApplyOpDelivers
  <2>7. CASE SavePage(s) \/ SaveFailed(s)
    BY <2>1, <2>7, SaveDelivers DEF Delivery!Next
  <2> HIDE DEF Goal
  <2>8. QED
    BY <1>5, <2>2, <2>3, <2>4, <2>5, <2>6, <2>7 DEF Step
<1>6. ASSUME NEW s \in Session, Lose(s) PROVE Goal
  BY <1>6, LoseDelivers
<1>7. ASSUME NEW s \in Session, NEW mode \in Modes, ReadUnsynced(s, mode) PROVE Goal
  BY <1>7, ReadUnsyncedDelivers
<1> HIDE DEF Goal
<1>8. Goal
  BY <1>1, <1>2, <1>3, <1>4, <1>5, <1>6, <1>7 DEF Next, Goal
<1>9. QED
  BY <1>8 DEF Goal

\* Whatever is lost, crashes or is torn, the operations of each device enter
\* the server's log exactly once and in order, and each device's cursor moves
\* along that log without going back: push_pending, pull_remote and the server
\* implement OpDelivery, for any number of devices, operations and pages.
THEOREM EngineDelivers ==
    ASSUME StableOpIds, OrderedClocks, SerialSessions
    PROVE  Spec => ImplementsDelivery
<1>1. IInv /\ DInv /\ [Next]_vars => DInv' /\ [Delivery!Next]_<<Issued, log, Position>>
  BY NextDelivers
<1>2. QED
  BY <1>1, Invariance, InitDelivers, PTL
     DEF Spec, ImplementsDelivery, Delivery!Spec, Issued, Position
-----------------------------------------------------------------------------
(***************************************************************************)
(* Bookmarks and annotations converge too: a theorem for any number of     *)
(* devices, and for lost requests and replies.  It needs what the last one *)
(* needs, and more: a device that knows its own operations, no process     *)
(* that dies (a page that is pulled twice brings a deleted bookmark back), *)
(* and books that every device has had from the start (a bookmark whose    *)
(* book is missing is dropped for good).                                   *)
(***************************************************************************)

NoDeaths == Faults \subseteq {"network"}

BooksEverywhere == \A b \in Registrable, d \in Device : b \in InitialBooks[d]

-----------------------------------------------------------------------------
(* The inductive invariant, on top of IInv, CInv, DInv and PushedOnce.  D  *)
(* stands for the databases, H for what each device dealt with, and L for  *)
(* the log.                                                                *)

Minted == Object \ Register

\* The ids under which e logged an operation of this type on o.
Ids(D, e, o, type) ==
    {i \in DOMAIN D[e].oplog : D[e].oplog[i].obj = o /\ D[e].oplog[i].type = type}

\* Device d logged operation i of e itself, or has dealt with it.
Seen(H, L, d, e, i) == e = d \/ \E k \in H[d] : L[k] = <<e, i>>

SeenSome(D, H, L, d, o, type) ==
    \E e \in Device : \E i \in Ids(D, e, o, type) : Seen(H, L, d, e, i)

\* An id is minted once.
OnePut(D) ==
    \A o \in Minted : \A e, f \in Device :
        \A i \in Ids(D, e, o, "put"), j \in Ids(D, f, o, "put") : e = f /\ i = j

\* The row is the one that d has seen put, until d sees a deletion.
FromPut(D, H, L, d, o) ==
    \E e \in Device : \E i \in Ids(D, e, o, "put") :
        /\ Seen(H, L, d, e, i)
        /\ D[d].rows[o] = [ts |-> D[e].oplog[i].ts, by |-> <<e, i>>]

RowIsSeen(D, H, L, d, o) ==
    /\ D[d].rows[o] # NoRow =>
          /\ CanHold(D[d], o)
          /\ FromPut(D, H, L, d, o)
          /\ ~SeenSome(D, H, L, d, o, "delete")
    /\ CanHold(D[d], o) /\ SeenSome(D, H, L, d, o, "put") =>
          D[d].rows[o] # NoRow \/ SeenSome(D, H, L, d, o, "delete")

\* The entry e of a log is an operation of this type on o.
EntryIs(D, e, o, type) == e[2] \in Ids(D, e[1], o, type)

\* A device deletes what it has put before or was given.
Caused(D, H, L, d, o) ==
    \A i \in Ids(D, d, o, "delete") :
        \/ \E j \in Ids(D, d, o, "put") : j < i
        \/ \E k \in H[d] : EntryIs(D, L[k], o, "put")

\* In the log, a put comes before the deletions of what it puts.
PutFirst(D, L, o) ==
    \A k \in DOMAIN L : EntryIs(D, L[k], o, "delete") =>
        \E j \in DOMAIN L : j < k /\ EntryIs(D, L[j], o, "put")

Shelved(D, H, L, o) ==
    /\ PutFirst(D, L, o)
    /\ \A d \in Device : RowIsSeen(D, H, L, d, o) /\ Caused(D, H, L, d, o)

\* Device d dealt with the log from the start to where its session is.
SweptTo(S, D, H) ==
    /\ H = 1 .. (IF S.pc \in {"apply", "failed"} THEN S.cursor ELSE D.cursor)
    /\ S.pc = "pull" => S.cursor = D.cursor

Swept == \A s \in Session : SweptTo(sess[s], db[Owner[s]], handled[Owner[s]])

BooksKept == \A d \in Device : db[d].books = InitialBooks[d]

BInv ==
    /\ BooksKept
    /\ OnePut(db)
    /\ \A o \in Minted \ unlogged : Shelved(db, handled, log, o)

-----------------------------------------------------------------------------
(* A session deals with every entry of the log once, and with none out of  *)
(* turn.                                                                   *)

\* One session moves, and its device with it.
LEMMA OneSweeps ==
    ASSUME IInv, SerialSessions, Swept, NEW s \in Session, NEW T, Goto(s, T),
           \A e \in Device : e # Owner[s] =>
               db'[e].cursor = db[e].cursor /\ handled'[e] = handled[e],
           SweptTo(T, db'[Owner[s]], handled'[Owner[s]])
    PROVE  Swept'
<1>1. sess'[s] = T /\ \A r \in Session : r # s => sess'[r] = sess[r]
  BY DEF Goto, IInv, Functional
<1>2. ASSUME NEW r \in Session, r # s
      PROVE  SweptTo(sess'[r], db'[Owner[r]], handled'[Owner[r]])
  <2>1. Owner[r] # Owner[s] /\ Owner[r] \in Device
    BY <1>2, OwnerFacts DEF SerialSessions
  <2>2. QED
    BY <1>1, <1>2, <2>1 DEF Swept, SweptTo
<1>3. QED
  BY <1>1, <1>2 DEF Swept

\* No cursor moves and nothing is dealt with.
LEMMA NoneSweeps ==
    ASSUME IInv, Swept, UNCHANGED <<sess, handled>>,
           \A e \in Device : db'[e].cursor = db[e].cursor
    PROVE  Swept'
  BY OwnerFacts DEF Swept, SweptTo

\* A session that does not pull before the step and not after it.
LEMMA IdlerSweeps ==
    ASSUME IInv, SerialSessions, Swept, NEW s \in Session, NEW T, Goto(s, T),
           handled' = handled, \A e \in Device : db'[e].cursor = db[e].cursor,
           sess[s].pc \notin {"apply", "failed"}, T.pc \notin {"pull", "apply", "failed"}
    PROVE  Swept'
<1>1. SweptTo(T, db'[Owner[s]], handled'[Owner[s]])
  BY OwnerFacts DEF Swept, SweptTo
<1>2. QED
  BY <1>1, OneSweeps

\* Logging leaves the cursors alone.
LEMMA LoggingCursors ==
    ASSUME IInv, NEW d \in Device, NEW o \in Object, NEW ts \in Stamp,
           Put(d, o, ts) \/ Delete(d, o, ts)
    PROVE  /\ UNCHANGED <<sess, handled>>
           /\ \A e \in Device : db'[e].cursor = db[e].cursor
<1> DEFINE U == UpsertRow(db[d], o, ts, <<d, NextId(db[d])>>)
           R == DeleteRow(db[d], o)
<1>1. ts \in Nat /\ <<d, NextId(db[d])>> \in Device \X Nat /\ db[d] \in Db
  BY DeviceFacts, SyncAssumption DEF NextId
<1>2. U \in Db /\ U.cursor = db[d].cursor /\ R \in Db /\ R.cursor = db[d].cursor
  BY <1>1, UpsertRowType, DeleteRowType
<1>3. \/ db' = [db EXCEPT ![d] = WriteOpLog(U, "put", o, ts)]
      \/ db' = [db EXCEPT ![d] = WriteOpLog(R, "delete", o, ts)]
  BY DEF Put, Delete
<1>4. UNCHANGED <<sess, handled>>
  BY DEF Put, Delete
<1> HIDE DEF U, R
<1>5. /\ WriteOpLog(U, "put", o, ts).cursor = db[d].cursor
      /\ WriteOpLog(R, "delete", o, ts).cursor = db[d].cursor
  <2>1. /\ WriteOpLog(U, "put", o, ts).cursor = U.cursor
        /\ WriteOpLog(R, "delete", o, ts).cursor = R.cursor
    BY <1>1, <1>2, WriteOpLogType, Zenon
  <2>2. QED
    BY <1>2, <2>1
<1>6. \A e \in Device : db'[e].cursor = db[e].cursor
  BY <1>3, <1>5 DEF IInv, Functional
<1>7. QED
  BY <1>4, <1>6

LEMMA LoggingSweeps ==
    ASSUME IInv, Swept, NEW d \in Device, NEW o \in Object, NEW ts \in Stamp,
           Put(d, o, ts) \/ Delete(d, o, ts)
    PROVE  Swept'
  BY LoggingCursors, NoneSweeps

LEMMA RegisterBookSweeps ==
    ASSUME IInv, Swept, NEW d \in Device, NEW b \in Book, RegisterBook(d, b)
    PROVE  Swept'
<1>1. db' = [db EXCEPT ![d] = UpsertBook(db[d], b)] /\ UNCHANGED <<sess, handled>>
  BY DEF RegisterBook
<1>2. UpsertBook(db[d], b).cursor = db[d].cursor
  BY DeviceFacts, UpsertBookType
<1>3. \A e \in Device : db'[e].cursor = db[e].cursor
  BY <1>1, <1>2 DEF IInv, Functional
<1>4. QED
  BY <1>1, <1>3, NoneSweeps

\* Where a push starts or goes on.
LEMMA PushPc ==
    ASSUME NEW d, NEW mode, NEW ids
    PROVE  AfterPush(mode).pc \in {"idle", "readCursor"} /\ SendChunk(d, mode, ids).pc = "push"
  BY DEF AfterPush, SendChunk, Idle

\* A push moves no cursor and starts no pull.
LEMMA PushMoves ==
    ASSUME IInv, NEW s \in Session,
           \/ \E mode : ReadUnsynced(s, mode)
           \/ ServerPush(s) \/ MarkSynced(s)
    PROVE  /\ sess[s].pc \in {"idle", "push", "reply"}
           /\ handled' = handled /\ \A e \in Device : db'[e].cursor = db[e].cursor
           /\ \E T : Goto(s, T) /\ T.pc \in {"idle", "readCursor", "push", "reply"}
<1> DEFINE d == Owner[s]
           S == sess[s]
<1>1. d \in Device /\ db[d] \in Db /\ S \in SessionState
  BY OwnerFacts, DeviceFacts
<1>2. S.pc \in {"idle", "push", "reply"} /\ handled' = handled
  BY DEF ReadUnsynced, ServerPush, MarkSynced
<1>3. \A e \in Device : db'[e].cursor = db[e].cursor
  <2>1. CASE db' = db
    BY <2>1
  <2>2. CASE MarkSynced(s)
    <3>1. S.sending \in SUBSET Nat
      BY <1>1 DEF SessionState
    <3>2. db' = [db EXCEPT ![d] = MarkOpsSynced(db[d], S.sending)]
      BY <2>2 DEF MarkSynced
    <3>3. MarkOpsSynced(db[d], S.sending).cursor = db[d].cursor
      BY <1>1, <3>1, MarkOpsSyncedType, Zenon
    <3>4. QED
      BY <3>2, <3>3 DEF IInv, Functional
  <2>3. QED
    BY <2>1, <2>2 DEF ReadUnsynced, ServerPush
<1>4. \E T : Goto(s, T) /\ T.pc \in {"idle", "readCursor", "push", "reply"}
  <2>1. CASE ServerPush(s)
    <3>1. Goto(s, [S EXCEPT !.pc = "reply"])
      BY <2>1 DEF ServerPush
    <3>2. [S EXCEPT !.pc = "reply"].pc = "reply"
      BY <1>1 DEF SessionState
    <3>3. QED
      BY <3>1, <3>2
  <2>2. CASE MarkSynced(s)
    <3>1. \/ Goto(s, AfterPush(S.mode))
          \/ Goto(s, SendChunk(d, S.mode, S.waiting))
      BY <2>2 DEF MarkSynced
    <3>2. QED
      BY <3>1, PushPc
  <2>3. ASSUME NEW mode, ReadUnsynced(s, mode)
        PROVE  \E T : Goto(s, T) /\ T.pc \in {"idle", "readCursor", "push", "reply"}
    <3>1. \/ Goto(s, AfterPush(mode))
          \/ Goto(s, SendChunk(d, mode, UnsyncedIds(db[d])))
      BY <2>3 DEF ReadUnsynced
    <3>2. QED
      BY <3>1, PushPc
  <2>4. QED
    BY <2>1, <2>2, <2>3
<1>5. QED
  BY <1>2, <1>3, <1>4

LEMMA PushSweeps ==
    ASSUME IInv, SerialSessions, Swept, NEW s \in Session,
           \/ \E mode : ReadUnsynced(s, mode)
           \/ ServerPush(s) \/ MarkSynced(s)
    PROVE  Swept'
<1>1. PICK T : Goto(s, T) /\ T.pc \in {"idle", "readCursor", "push", "reply"}
  BY PushMoves
<1>2. QED
  BY <1>1, PushMoves, IdlerSweeps

LEMMA LoseSweeps ==
    ASSUME IInv, SerialSessions, Swept, NEW s \in Session, Lose(s)
    PROVE  Swept'
<1>1. sess[s].pc \notin {"apply", "failed"} /\ Goto(s, Idle) /\ UNCHANGED <<db, handled>>
  BY DEF Lose
<1>2. Idle.pc = "idle"
  BY DEF Idle
<1>3. QED
  BY <1>1, <1>2, IdlerSweeps

\* A pull starts where the device is, and a page starts where the pull is.
LEMMA PullSweeps ==
    ASSUME IInv, SerialSessions, Swept, NEW s \in Session, ReadCursor(s) \/ ServerPull(s)
    PROVE  Swept'
<1> DEFINE d == Owner[s]
           S == sess[s]
<1>1. d \in Device /\ S \in SessionState /\ UNCHANGED <<db, handled>>
  BY OwnerFacts DEF ReadCursor, ServerPull
<1>2. SweptTo(S, db[d], handled[d])
  BY DEF Swept
<1>3. CASE ReadCursor(s)
  <2> DEFINE m == IF S.pc = "idle" THEN "pull" ELSE S.mode
             T == [Idle EXCEPT !.pc = "pull", !.mode = m, !.cursor = db[d].cursor]
  <2>1. Goto(s, T) /\ S.pc \in {"idle", "readCursor"}
    BY <1>3 DEF ReadCursor
  <2>2. T.pc = "pull" /\ T.cursor = db[d].cursor
    BY DEF Idle
  <2> HIDE DEF T
  <2>3. SweptTo(T, db'[d], handled'[d])
    BY <1>1, <1>2, <2>1, <2>2 DEF SweptTo
  <2>4. QED
    BY <1>1, <2>1, <2>3, OneSweeps
<1>4. CASE ServerPull(s)
  <2> DEFINE e == PageEnd(S.cursor)
             R == [S EXCEPT !.pc = "apply", !.last = e, !.more = Len(log) > e]
  <2>1. (Goto(s, Idle) \/ Goto(s, R)) /\ S.pc = "pull"
    BY <1>4 DEF ServerPull
  <2>2. R.pc = "apply" /\ R.cursor = S.cursor /\ Idle.pc = "idle"
    BY <1>1 DEF SessionState, Idle
  <2> HIDE DEF R
  <2>3. SweptTo(Idle, db'[d], handled'[d]) /\ SweptTo(R, db'[d], handled'[d])
    BY <1>1, <1>2, <2>1, <2>2 DEF SweptTo
  <2>4. QED
    BY <1>1, <2>1, <2>3, OneSweeps
<1>5. QED
  BY <1>3, <1>4

\* The page is done, or broken off: the device is where its session was.
LEMMA SaveSweeps ==
    ASSUME IInv, SerialSessions, Swept, NEW s \in Session, SavePage(s) \/ SaveFailed(s)
    PROVE  Swept'
<1> DEFINE d == Owner[s]
           S == sess[s]
           E == SetCursor(db[d], S.cursor)
           R == [S EXCEPT !.pc = "pull"]
<1>1. d \in Device /\ S \in SessionState /\ db[d] \in Db /\ S.cursor \in Nat
  BY OwnerFacts, DeviceFacts DEF SessionState
<1>2. /\ S.pc \in {"apply", "failed"}
      /\ db' = [db EXCEPT ![d] = E]
      /\ Goto(s, R) \/ Goto(s, Idle)
      /\ handled' = handled
  BY DEF SavePage, SaveFailed
<1>3. E.cursor = S.cursor
  BY <1>1, SetCursorType
<1> HIDE DEF E
<1>4. db'[d] = E /\ \A e \in Device : e # d => db'[e] = db[e]
  BY <1>1, <1>2 DEF IInv, Functional
<1>5. R.pc = "pull" /\ R.cursor = S.cursor /\ Idle.pc = "idle"
  BY <1>1 DEF SessionState, Idle
<1> HIDE DEF R
<1>6. SweptTo(S, db[d], handled[d])
  BY DEF Swept
<1>7. SweptTo(R, db'[d], handled'[d]) /\ SweptTo(Idle, db'[d], handled'[d])
  BY <1>2, <1>3, <1>4, <1>5, <1>6 DEF SweptTo
<1>8. QED
  BY <1>2, <1>4, <1>7, OneSweeps

\* One operation: it is dealt with, or the page stops before it.
LEMMA ApplyOpSweeps ==
    ASSUME IInv, SerialSessions, Swept, NEW s \in Session, ApplyOp(s)
    PROVE  Swept'
<1> DEFINE d == Owner[s]
           S == sess[s]
           k == S.cursor + 1
           R == IF OwnDeviceKnown /\ log[k][1] = d
                THEN [db |-> db[d], res |-> "own"]
                ELSE ApplyRemoteOp(db[d], Op(log[k]), log[k])
           F == [S EXCEPT !.pc = "failed"]
           G == [S EXCEPT !.cursor = k]
<1>1. d \in Device /\ S \in SessionState /\ S.cursor \in Nat
  BY OwnerFacts DEF SessionState
<1>2. /\ S.pc = "apply"
      /\ db' = [db EXCEPT ![d] = R.db]
      /\ \/ Goto(s, F) /\ handled' = handled
         \/ Goto(s, G) /\ handled' = [handled EXCEPT ![d] = @ \cup {k}]
  BY DEF ApplyOp
<1>3. /\ F.pc = "failed" /\ F.cursor = S.cursor
      /\ G.pc = "apply" /\ G.cursor = k
  BY <1>1, <1>2 DEF SessionState
<1> HIDE DEF R, F, G
<1>4. \A e \in Device : e # d => db'[e] = db[e]
  BY <1>1, <1>2 DEF IInv, Functional
<1>5. handled[d] = 1 .. S.cursor
  <2>1. SweptTo(S, db[d], handled[d])
    BY DEF Swept
  <2>2. QED
    BY <1>2, <2>1 DEF SweptTo
<1>6. CASE Goto(s, F) /\ handled' = handled
  <2>1. SweptTo(F, db'[d], handled'[d])
    BY <1>3, <1>5, <1>6 DEF SweptTo
  <2>2. QED
    BY <1>4, <1>6, <2>1, OneSweeps
<1>7. CASE Goto(s, G) /\ handled' = [handled EXCEPT ![d] = @ \cup {k}]
  <2>1. /\ handled'[d] = handled[d] \cup {k}
        /\ \A e \in Device : e # d => handled'[e] = handled[e]
    BY <1>1, <1>7 DEF IInv, Functional
  <2>2. handled'[d] = 1 .. k
    BY <1>1, <1>5, <2>1
  <2>3. SweptTo(G, db'[d], handled'[d])
    BY <1>3, <2>2 DEF SweptTo
  <2>4. QED
    BY <1>4, <1>7, <2>1, <2>3, OneSweeps
<1>8. QED
  BY <1>2, <1>6, <1>7

LEMMA NextSweeps ==
    ASSUME SerialSessions, NoDeaths, IInv, Swept, [Next]_vars
    PROVE  Swept'
<1>1. CASE UNCHANGED vars
  BY <1>1, NoneSweeps DEF vars
<1>2. ASSUME NEW d \in Device, User(d) PROVE Swept'
  BY <1>2, LoggingSweeps, RegisterBookSweeps DEF User
<1>3. ASSUME NEW d \in Device PROVE ~Crash(d) /\ \A o, ts : ~TornWrite(d, o, ts)
  BY DEF NoDeaths, Crash, TornWrite, Fault
<1>4. ASSUME NEW s \in Session, Step(s) PROVE Swept'
  BY <1>4, PushSweeps, PullSweeps, ApplyOpSweeps, SaveSweeps DEF Step
<1>5. ASSUME NEW s \in Session, Lose(s) PROVE Swept'
  BY <1>5, LoseSweeps
<1>6. ASSUME NEW s \in Session, NEW mode \in Modes, ReadUnsynced(s, mode) PROVE Swept'
  BY <1>6, PushSweeps
<1>7. QED
  BY <1>1, <1>2, <1>3, <1>4, <1>5, <1>6 DEF Next

-----------------------------------------------------------------------------
(* What is on a shelf.                                                     *)

\* D and E have o on the same shelves, and it was put and deleted alike.
SameFor(D, E, o) ==
    \A d \in Device :
        /\ E[d].rows[o] = D[d].rows[o]
        /\ E[d].books = D[d].books
        /\ \A type : Ids(E, d, o, type) = Ids(D, d, o, type)
        /\ \A type : \A i \in Ids(D, d, o, type) : E[d].oplog[i].ts = D[d].oplog[i].ts

LEMMA ShelvedSame ==
    ASSUME NEW D, NEW E, NEW H, NEW L, NEW o, SameFor(D, E, o), Shelved(D, H, L, o),
           \A k \in DOMAIN L : L[k][1] \in Device,
           \A d \in Device : H[d] \subseteq DOMAIN L
    PROVE  Shelved(E, H, L, o)
<1>1. \A k \in DOMAIN L : \A type : EntryIs(E, L[k], o, type) <=> EntryIs(D, L[k], o, type)
  BY DEF EntryIs, SameFor
<1>2. PutFirst(E, L, o)
  BY <1>1 DEF Shelved, PutFirst
<1>3. ASSUME NEW d \in Device PROVE Caused(E, H, L, d, o)
  <2>1. Caused(D, H, L, d, o)
    BY DEF Shelved
  <2>2. QED
    BY <1>1, <2>1 DEF Caused, SameFor
<1>4. ASSUME NEW d \in Device PROVE RowIsSeen(E, H, L, d, o)
  <2>1. RowIsSeen(D, H, L, d, o)
    BY DEF Shelved
  <2>2. \A type : SeenSome(E, H, L, d, o, type) <=> SeenSome(D, H, L, d, o, type)
    BY DEF SeenSome, SameFor
  <2>3. CanHold(E[d], o) <=> CanHold(D[d], o)
    BY DEF CanHold, SameFor
  <2>4. FromPut(D, H, L, d, o) => FromPut(E, H, L, d, o)
    BY DEF FromPut, SameFor
  <2>5. E[d].rows[o] = D[d].rows[o]
    BY DEF SameFor
  <2>6. QED
    BY <2>1, <2>2, <2>3, <2>4, <2>5 DEF RowIsSeen
<1>5. QED
  BY <1>2, <1>3, <1>4 DEF Shelved

LEMMA OnePutSame ==
    ASSUME NEW D, NEW E, OnePut(D),
           \A d \in Device, o \in Minted : Ids(E, d, o, "put") = Ids(D, d, o, "put")
    PROVE  OnePut(E)
  BY DEF OnePut

\* The entries of the log and what is dealt with of it.
LEMMA LogTyped ==
    ASSUME IInv, CInv
    PROVE  /\ \A k \in DOMAIN log : log[k][1] \in Device
           /\ \A d \in Device : handled[d] \subseteq DOMAIN log
           /\ DOMAIN log \subseteq Nat
<1>1. DOMAIN log \subseteq Nat
  BY LenProperties DEF IInv, LogFacts
<1>2. QED
  BY <1>1, EntryFacts DEF CInv, HandledIsLogged

\* E is D with other marks and cursor, and other rows of objects in U or registers.
QuietShelf(D, E, U) ==
    /\ E.books = D.books
    /\ DOMAIN E.oplog = DOMAIN D.oplog
    /\ \A i \in DOMAIN D.oplog : /\ E.oplog[i].obj = D.oplog[i].obj
                                 /\ E.oplog[i].ts = D.oplog[i].ts
                                 /\ E.oplog[i].type = D.oplog[i].type
    /\ \A o \in Minted : o \notin U => E.rows[o] = D.rows[o]

\* The steps that put and delete nothing.
LEMMA QuietShelves ==
    ASSUME IInv, CInv, BInv, log' = log, handled' = handled, unlogged \subseteq unlogged',
           NEW d \in Device, NEW E, db' = [db EXCEPT ![d] = E], QuietShelf(db[d], E, unlogged')
    PROVE  BInv'
<1>1. db'[d] = E /\ \A e \in Device : e # d => db'[e] = db[e]
  BY DEF IInv, Functional
<1>2. \A e \in Device : QuietShelf(db[e], db'[e], unlogged')
  BY <1>1 DEF QuietShelf
<1>3. \A e \in Device : \A o, type : Ids(db', e, o, type) = Ids(db, e, o, type)
  BY <1>2 DEF QuietShelf, Ids
<1>4. ASSUME NEW o \in Minted, o \notin unlogged' PROVE SameFor(db, db', o)
  <2>1. ASSUME NEW e \in Device
        PROVE  /\ db'[e].rows[o] = db[e].rows[o]
               /\ db'[e].books = db[e].books
               /\ \A type : Ids(db', e, o, type) = Ids(db, e, o, type)
               /\ \A type : \A i \in Ids(db, e, o, type) : db'[e].oplog[i].ts = db[e].oplog[i].ts
    <3>1. \A i \in DOMAIN db[e].oplog : db'[e].oplog[i].ts = db[e].oplog[i].ts
      BY <1>2 DEF QuietShelf
    <3>2. \A type : \A i \in Ids(db, e, o, type) : db'[e].oplog[i].ts = db[e].oplog[i].ts
      BY <3>1 DEF Ids
    <3>3. QED
      BY <1>2, <1>3, <1>4, <3>2 DEF QuietShelf
  <2>2. QED
    BY <2>1 DEF SameFor
<1>5. BooksKept'
  BY <1>2 DEF QuietShelf, BInv, BooksKept
<1>6. OnePut(db')
  <2>1. \A e \in Device, o \in Minted : Ids(db', e, o, "put") = Ids(db, e, o, "put")
    BY <1>3
  <2>2. OnePut(db)
    BY DEF BInv
  <2>3. QED
    BY <2>1, <2>2, OnePutSame
<1>7. ASSUME NEW o \in Minted, o \notin unlogged' PROVE Shelved(db', handled', log', o)
  <2>1. Shelved(db, handled, log, o)
    BY <1>7 DEF BInv
  <2>2. QED
    BY <1>4, <1>7, <2>1, LogTyped, ShelvedSame
<1>8. QED
  BY <1>5, <1>6, <1>7 DEF BInv

LEMMA SilentShelves ==
    ASSUME BInv, UNCHANGED <<db, log, handled, unlogged>>
    PROVE  BInv'
  BY DEF BInv, BooksKept

LEMMA MarkSyncedShelves ==
    ASSUME IInv, CInv, BInv, NEW s \in Session, MarkSynced(s)
    PROVE  BInv'
<1> DEFINE d == Owner[s]
           E == MarkOpsSynced(db[d], sess[s].sending)
           Marked(op) == [op EXCEPT !.synced = TRUE]
<1>1. d \in Device /\ db[d] \in Db
  BY OwnerFacts, DeviceFacts
<1>2. db' = [db EXCEPT ![d] = E] /\ UNCHANGED <<log, handled, unlogged>>
  BY DEF MarkSynced
<1>3. /\ E.rows = db[d].rows /\ E.books = db[d].books
      /\ E.oplog = [i \in DOMAIN db[d].oplog |->
                       IF i \in sess[s].sending THEN Marked(db[d].oplog[i]) ELSE db[d].oplog[i]]
  BY <1>1 DEF MarkOpsSynced, Db
<1>4. \A op \in LoggedOp : /\ Marked(op).obj = op.obj
                           /\ Marked(op).ts = op.ts
                           /\ Marked(op).type = op.type
  BY DEF LoggedOp
<1>5. \A i \in DOMAIN db[d].oplog : db[d].oplog[i] \in LoggedOp
  BY <1>1, DeviceFacts, ElementOfSeq
<1> HIDE DEF Marked, E
<1>6. QuietShelf(db[d], E, unlogged')
  BY <1>3, <1>4, <1>5 DEF QuietShelf
<1> HIDE DEF d
<1>7. QED
  BY <1>1, <1>2, <1>6, QuietShelves

LEMMA SaveShelves ==
    ASSUME IInv, CInv, BInv, NEW s \in Session, SavePage(s) \/ SaveFailed(s)
    PROVE  BInv'
<1> DEFINE d == Owner[s]
           E == SetCursor(db[d], sess[s].cursor)
<1>1. d \in Device /\ db[d] \in Db
  BY OwnerFacts, DeviceFacts
<1>2. db' = [db EXCEPT ![d] = E] /\ UNCHANGED <<log, handled, unlogged>>
  BY DEF SavePage, SaveFailed
<1>3. E.rows = db[d].rows /\ E.oplog = db[d].oplog /\ E.books = db[d].books
  BY <1>1 DEF SetCursor, Db
<1> HIDE DEF E, d
<1>4. QuietShelf(db[d], E, unlogged')
  BY <1>3 DEF QuietShelf
<1>5. QED
  BY <1>1, <1>2, <1>4, QuietShelves

\* register_book of a book that the device has: what its cascade deletes is
\* not in the op_log, and is declared so.
LEMMA RegisterBookShelves ==
    ASSUME IInv, CInv, BInv, BooksEverywhere, NEW d \in Device, NEW b \in Book,
           RegisterBook(d, b)
    PROVE  BInv'
<1> DEFINE E == UpsertBook(db[d], b)
<1>1. /\ db' = [db EXCEPT ![d] = E] /\ UNCHANGED <<log, handled>>
      /\ unlogged \subseteq unlogged'
      /\ \A o \in Object : BookOf[o] = b /\ db[d].rows[o] # NoRow => o \in unlogged'
  BY DEF RegisterBook
<1>2. db[d] \in Db /\ b \in db[d].books
  BY DeviceFacts DEF BInv, BooksKept, BooksEverywhere, RegisterBook
<1>3. /\ E.oplog = db[d].oplog
      /\ E.rows = [o \in Object |-> IF BookOf[o] = b THEN NoRow ELSE db[d].rows[o]]
      /\ E.books = db[d].books \cup {b}
  BY <1>2 DEF UpsertBook, Db
<1> HIDE DEF E
<1>4. \A o \in Minted : o \notin unlogged' => E.rows[o] = db[d].rows[o]
  BY <1>1, <1>3 DEF Minted
<1>5. QuietShelf(db[d], E, unlogged')
  BY <1>2, <1>3, <1>4 DEF QuietShelf
<1>6. QED
  BY <1>1, <1>5, QuietShelves

-----------------------------------------------------------------------------
(* The log: what the server appends is in order.                           *)

\* The entries of d's operations m + 1 .. n.
Run(d, m, n) == [k \in 1 .. n - m |-> <<d, m + k>>]

\* M is L with a run at its end.
RunAdded(L, M, d, m, n) ==
    /\ DOMAIN M = 1 .. Len(L) + (n - m)
    /\ Extends(L, M)
    /\ \A k \in 1 .. n - m : M[Len(L) + k] = <<d, m + k>>

LEMMA RunEntries ==
    ASSUME NEW L \in Seq(Device \X Nat), NEW d \in Device,
           NEW m \in Nat, NEW n \in Nat, m < n
    PROVE  RunAdded(L, L \o Run(d, m, n), d, m, n)
<1> DEFINE c == n - m
           f == [k \in 1 .. c |-> m + k]
           M == L \o [k \in DOMAIN f |-> <<d, f[k]>>]
<1>1. c \in Nat /\ f \in [1 .. c -> Nat] /\ Nat \in SUBSET Nat
  OBVIOUS
<1>2. L \o Run(d, m, n) = M
  <2>1. [k \in DOMAIN f |-> <<d, f[k]>>] = Run(d, m, n)
    BY DEF Run
  <2>2. QED
    BY <2>1
<1>3. \A k \in 1 .. c : f[k] = m + k
  OBVIOUS
<1> HIDE DEF f, c
<1>4. /\ M \in Seq(Device \X Nat)
      /\ Len(M) = Len(L) + c
      /\ Extends(L, M)
      /\ \A k \in 1 .. c : M[Len(L) + k] = <<d, f[k]>>
  BY <1>1, AppendFacts
<1> HIDE DEF M
<1>5. DOMAIN M = 1 .. Len(L) + c /\ \A k \in 1 .. c : M[Len(L) + k] = <<d, m + k>>
  BY <1>3, <1>4, LenProperties
<1>6. RunAdded(L, M, d, m, n)
  BY <1>4, <1>5 DEF c, RunAdded
<1>7. QED
  BY <1>2, <1>6

\* The deletions that are appended: their puts are before them.
LEMMA RunPutFirst ==
    ASSUME IInv, CInv, NEW d \in Device, NEW o, PutFirst(db, log, o),
           Caused(db, handled, log, d, o), NextRun(d)
    PROVE  PutFirst(db, log', o) /\ Extends(log, log')
<1> DEFINE len == Len(db[d].oplog)
<1>1. len \in Nat /\ DOMAIN db[d].oplog = 1 .. len
  BY DeviceFacts
<1>2. PICK m \in 0 .. len, n \in 0 .. len :
         /\ m < n
         /\ \A i \in 1 .. len : InLog(log, d, i) <=> i <= m
         /\ log' = log \o [k \in 1 .. n - m |-> <<d, m + k>>]
  BY DEF NextRun
<1>3. log \in Seq(Device \X Nat) /\ Len(log) \in Nat /\ DOMAIN log = 1 .. Len(log)
  BY LenProperties DEF IInv, LogFacts
<1>4. m \in Nat /\ n \in Nat
  BY <1>1, <1>2
<1>5. /\ DOMAIN log' = 1 .. Len(log) + (n - m)
      /\ Extends(log, log')
      /\ \A k \in 1 .. n - m : log'[Len(log) + k] = <<d, m + k>>
  <2>1. m < n /\ log' = log \o Run(d, m, n)
    BY <1>2 DEF Run
  <2>2. RunAdded(log, log \o Run(d, m, n), d, m, n)
    BY <1>3, <1>4, <2>1, RunEntries
  <2>3. RunAdded(log, log', d, m, n)
    BY <2>1, <2>2
  <2>4. QED
    BY <2>3 DEF RunAdded
<1>6. ASSUME NEW k \in DOMAIN log', EntryIs(db, log'[k], o, "delete")
      PROVE  \E j \in DOMAIN log' : j < k /\ EntryIs(db, log'[j], o, "put")
  <2>1. CASE k \in DOMAIN log
    <3>1. \E j \in DOMAIN log : j < k /\ EntryIs(db, log[j], o, "put")
      BY <1>5, <1>6, <2>1 DEF PutFirst, Extends
    <3>2. QED
      BY <1>5, <3>1 DEF Extends
  <2>2. CASE k \notin DOMAIN log
    <3> DEFINE c == k - Len(log)
    <3>1. c \in 1 .. n - m /\ k = Len(log) + c
      BY <1>3, <1>4, <1>5, <2>2
    <3>2. log'[k] = <<d, m + c>>
      BY <1>5, <3>1
    <3>3. m + c \in Ids(db, d, o, "delete")
      BY <1>6, <3>2 DEF EntryIs
    <3>4. ASSUME NEW i \in Ids(db, d, o, "put"), i < m + c
          PROVE  \E j \in DOMAIN log' : j < k /\ EntryIs(db, log'[j], o, "put")
      <4>1. i \in 1 .. len
        BY <1>1 DEF Ids
      <4>2. CASE i <= m
        <5>1. PICK j \in DOMAIN log : log[j] = <<d, i>>
          BY <1>2, <4>1, <4>2 DEF InLog
        <5>2. j < k /\ log'[j] = <<d, i>> /\ j \in DOMAIN log'
          BY <1>3, <1>5, <3>1, <5>1 DEF Extends
        <5>3. QED
          BY <5>2 DEF EntryIs
      <4>3. CASE ~(i <= m)
        <5> DEFINE j == Len(log) + (i - m)
        <5>1. i - m \in 1 .. n - m /\ m + (i - m) = i /\ j \in DOMAIN log' /\ j < k
          BY <1>3, <1>4, <1>5, <3>1, <3>4, <4>1, <4>3
        <5>2. log'[j] = <<d, i>>
          BY <1>5, <5>1
        <5>3. QED
          BY <5>1, <5>2 DEF EntryIs
      <4>4. QED
        BY <4>2, <4>3
    <3>5. ASSUME NEW j \in handled[d], EntryIs(db, log[j], o, "put")
          PROVE  j \in DOMAIN log' /\ j < k /\ EntryIs(db, log'[j], o, "put")
      <4>1. j \in DOMAIN log
        BY LogTyped
      <4>2. QED
        BY <1>3, <1>5, <3>1, <3>5, <4>1 DEF Extends
    <3>6. \/ \E i \in Ids(db, d, o, "put") : i < m + c
          \/ \E j \in handled[d] : EntryIs(db, log[j], o, "put")
      BY <3>3 DEF Caused
    <3>7. QED
      BY <3>4, <3>5, <3>6
  <2>3. QED
    BY <2>1, <2>2
<1>7. QED
  BY <1>5, <1>6 DEF PutFirst

LEMMA ServerPushShelves ==
    ASSUME IInv, CInv, DInv, BInv, StableOpIds, NEW s \in Session, ServerPush(s)
    PROVE  BInv'
<1> DEFINE d == Owner[s]
<1>1. UNCHANGED <<db, handled, unlogged>> /\ d \in Device
  BY OwnerFacts DEF ServerPush
<1>2. CASE log' = log
  BY <1>1, <1>2, SilentShelves
<1>3. CASE NextRun(d)
  <2>1. ASSUME NEW o \in Minted, o \notin unlogged PROVE Shelved(db, handled, log', o)
    <3>1. Shelved(db, handled, log, o)
      BY <2>1 DEF BInv
    <3>2. PutFirst(db, log', o) /\ Extends(log, log')
      BY <1>1, <1>3, <3>1, RunPutFirst DEF Shelved
    <3>3. \A e \in Device : \A k \in handled[e] : log'[k] = log[k]
      BY <3>2, LogTyped DEF Extends
    <3>4. ASSUME NEW e \in Device
          PROVE  Caused(db, handled, log', e, o) /\ RowIsSeen(db, handled, log', e, o)
      <4>1. \A f, i : Seen(handled, log', e, f, i) <=> Seen(handled, log, e, f, i)
        BY <3>3 DEF Seen
      <4>2. \A type : SeenSome(db, handled, log', e, o, type) <=>
                      SeenSome(db, handled, log, e, o, type)
        BY <4>1 DEF SeenSome
      <4>3. FromPut(db, handled, log, e, o) => FromPut(db, handled, log', e, o)
        BY <4>1 DEF FromPut
      <4>4. Caused(db, handled, log, e, o) /\ RowIsSeen(db, handled, log, e, o)
        BY <3>1 DEF Shelved
      <4>5. Caused(db, handled, log', e, o)
        BY <3>3, <4>4 DEF Caused
      <4>6. RowIsSeen(db, handled, log', e, o)
        BY <4>2, <4>3, <4>4 DEF RowIsSeen
      <4>7. QED
        BY <4>5, <4>6
    <3>5. QED
      BY <3>2, <3>4 DEF Shelved
  <2>2. \A o \in Minted : o \notin unlogged' => Shelved(db', handled', log', o)
    BY <1>1, <2>1
  <2>3. BooksKept' /\ OnePut(db')
    BY <1>1 DEF BInv, BooksKept
  <2>4. QED
    BY <2>2, <2>3 DEF BInv
<1>4. QED
  BY <1>2, <1>3, PushAppendsRun

-----------------------------------------------------------------------------
(* A device writes a row and logs it.                                      *)

\* Device d logs operation n: it is of this type, on o, and nobody else's.
LogsAs(d, n, o, type, ts) ==
    /\ n \notin DOMAIN db[d].oplog
    /\ \A i \in DOMAIN db[d].oplog : i < n
    /\ \A k \in DOMAIN log : log[k] # <<d, n>>
    /\ db'[d].oplog[n].ts = ts
    /\ \A e \in Device : \A i \in DOMAIN db[e].oplog : db'[e].oplog[i].ts = db[e].oplog[i].ts
    /\ \A e \in Device : \A p, t :
          Ids(db', e, p, t) = IF e = d /\ p = o /\ t = type
                              THEN Ids(db, e, p, t) \cup {n} ELSE Ids(db, e, p, t)

LEMMA LoggingLogs ==
    ASSUME IInv, NEW d \in Device, NEW o \in Object, NEW ts \in Stamp,
           NEW type \in {"put", "delete"}, NEW D \in Db, D.oplog = db[d].oplog,
           db' = [db EXCEPT ![d] = WriteOpLog(D, type, o, ts)]
    PROVE  LogsAs(d, NextId(db[d]), o, type, ts)
<1> DEFINE E == WriteOpLog(D, type, o, ts)
           n == NextId(D)
<1>1. ts \in Nat
  BY SyncAssumption
<1>2. /\ DOMAIN E.oplog = DOMAIN db[d].oplog \cup {n}
      /\ n \notin DOMAIN db[d].oplog
      /\ E.oplog[n].obj = o /\ E.oplog[n].ts = ts /\ E.oplog[n].type = type
      /\ \A i \in DOMAIN db[d].oplog : E.oplog[i] = db[d].oplog[i]
  BY <1>1, LoggedLast
<1>3. n = NextId(db[d]) /\ \A i \in DOMAIN db[d].oplog : i < n
  BY DeviceFacts DEF NextId
<1> HIDE DEF E, n
<1>4. db'[d] = E /\ \A e \in Device : e # d => db'[e] = db[e]
  BY DEF IInv, Functional, E
<1>5. \A e \in Device : \A i \in DOMAIN db[e].oplog : db'[e].oplog[i].ts = db[e].oplog[i].ts
  BY <1>2, <1>4
<1>6. ASSUME NEW e \in Device, NEW p, NEW t
      PROVE  Ids(db', e, p, t) = IF e = d /\ p = o /\ t = type
                                 THEN Ids(db, e, p, t) \cup {n} ELSE Ids(db, e, p, t)
  <2>1. CASE e # d
    BY <1>4, <2>1 DEF Ids
  <2>2. CASE e = d
    <3>1. \A i \in DOMAIN db'[d].oplog : i \in DOMAIN db[d].oplog \/ i = n
      BY <1>2, <1>4
    <3>2. \A i \in DOMAIN db[d].oplog : i \in DOMAIN db'[d].oplog /\ i # n
                                        /\ db'[d].oplog[i] = db[d].oplog[i]
      BY <1>2, <1>4
    <3>3. /\ n \in DOMAIN db'[d].oplog
          /\ db'[d].oplog[n].obj = o /\ db'[d].oplog[n].type = type
      BY <1>2, <1>4
    <3>4. QED
      BY <2>2, <3>1, <3>2, <3>3 DEF Ids
  <2>3. QED
    BY <2>1, <2>2
<1>7. \A k \in DOMAIN log : log[k] # <<d, n>>
  <2>1. ASSUME NEW k \in DOMAIN log, log[k] = <<d, n>> PROVE FALSE
    <3>1. log[k][2] \in DOMAIN db[log[k][1]].oplog
      BY EntryFacts
    <3>2. n \in DOMAIN db[d].oplog
      BY <2>1, <3>1
    <3>3. QED
      BY <1>2, <3>2
  <2>2. QED
    BY <2>1
<1>8. db'[d].oplog[n].ts = ts
  BY <1>2, <1>4
<1>9. LogsAs(d, n, o, type, ts)
  BY <1>2, <1>3, <1>5, <1>6, <1>7, <1>8 DEF LogsAs
<1>10. QED
  BY <1>3, <1>9

\* The objects that are not written.
LEMMA LoggingOthers ==
    ASSUME IInv, CInv, BInv, UNCHANGED <<log, handled, unlogged>>,
           NEW d \in Device, NEW n, NEW o, NEW type, NEW ts, LogsAs(d, n, o, type, ts),
           \A e \in Device : db'[e].books = db[e].books,
           NEW p \in Minted, p # o, p \notin unlogged,
           \A e \in Device : db'[e].rows[p] = db[e].rows[p]
    PROVE  Shelved(db', handled', log', p)
<1>1. ASSUME NEW e \in Device
      PROVE  /\ \A t : Ids(db', e, p, t) = Ids(db, e, p, t)
             /\ \A t : \A i \in Ids(db, e, p, t) : db'[e].oplog[i].ts = db[e].oplog[i].ts
  <2>1. \A t : Ids(db, e, p, t) \subseteq DOMAIN db[e].oplog
    BY DEF Ids
  <2>2. QED
    BY <2>1 DEF LogsAs
<1>2. SameFor(db, db', p)
  BY <1>1 DEF SameFor
<1>3. Shelved(db, handled, log, p)
  BY DEF BInv
<1>4. QED
  BY <1>2, <1>3, LogTyped, ShelvedSame

LEMMA PutShelves ==
    ASSUME IInv, CInv, BInv, NEW d \in Device, NEW o \in Object, NEW ts \in Stamp,
           Put(d, o, ts)
    PROVE  BInv'
<1> DEFINE n == NextId(db[d])
           D == UpsertRow(db[d], o, ts, <<d, n>>)
           E == WriteOpLog(D, "put", o, ts)
<1>1. /\ UNCHANGED <<log, handled, unlogged>>
      /\ CanHold(db[d], o)
      /\ db' = [db EXCEPT ![d] = E]
  BY DEF Put
<1>2. db[d] \in Db /\ ts \in Nat /\ n \in Nat
  BY DeviceFacts, SyncAssumption DEF NextId
<1>3. D \in Db /\ D.oplog = db[d].oplog
  BY <1>2, UpsertRowType
<1>4. LogsAs(d, n, o, "put", ts)
  <2> HIDE DEF D
  <2>1. QED
    BY <1>1, <1>3, LoggingLogs
<1>5. /\ D.books = db[d].books
      /\ D.rows[o] = [ts |-> ts, by |-> <<d, n>>]
      /\ \A p \in Object : p # o => D.rows[p] = db[d].rows[p]
  BY <1>2 DEF UpsertRow, Db
<1>6. E.books = D.books /\ E.rows = D.rows
  <2> HIDE DEF D
  <2>1. QED
    BY <1>3 DEF WriteOpLog, Db
<1> HIDE DEF D, E, n
<1>7. db'[d] = E /\ \A e \in Device : e # d => db'[e] = db[e]
  BY <1>1 DEF IInv, Functional
<1>8. /\ \A e \in Device : db'[e].books = db[e].books
      /\ \A e \in Device, p \in Object : e # d \/ p # o => db'[e].rows[p] = db[e].rows[p]
      /\ db'[d].rows[o] = [ts |-> ts, by |-> <<d, n>>]
  BY <1>5, <1>6, <1>7
\* A new id is nobody's.
<1>9. ASSUME o \in Minted, NEW e \in Device
      PROVE  /\ \A type : Ids(db, e, o, type) = {}
             /\ db[e].rows[o] = NoRow
  <2>1. IdOK(o)
    BY DEF Put
  <2>2. db[e].rows[o] = NoRow /\ \A i \in DOMAIN db[e].oplog : db[e].oplog[i].obj # o
    BY <1>9, <2>1 DEF IdOK, Minted
  <2>3. QED
    BY <2>2 DEF Ids
<1>10. ASSUME o \in Minted, NEW e \in Device
       PROVE  /\ Ids(db', e, o, "delete") = {}
              /\ Ids(db', e, o, "put") = IF e = d THEN {n} ELSE {}
  BY <1>4, <1>9, <1>10 DEF LogsAs
<1>11. OnePut(db')
  <2>1. ASSUME NEW p \in Minted, NEW e \in Device, NEW f \in Device,
               NEW i \in Ids(db', e, p, "put"), NEW j \in Ids(db', f, p, "put")
        PROVE  e = f /\ i = j
    <3>1. CASE p = o
      BY <1>10, <2>1, <3>1
    <3>2. CASE p # o
      <4>1. i \in Ids(db, e, p, "put") /\ j \in Ids(db, f, p, "put")
        BY <1>4, <2>1, <3>2 DEF LogsAs
      <4>2. QED
        BY <4>1 DEF BInv, OnePut
    <3>3. QED
      BY <3>1, <3>2
  <2>2. QED
    BY <2>1 DEF OnePut
<1>12. ASSUME o \in Minted PROVE Shelved(db', handled, log, o)
  <2>1. PutFirst(db', log, o)
    BY <1>10, <1>12, LogTyped DEF PutFirst, EntryIs
  <2>2. ASSUME NEW e \in Device PROVE ~SeenSome(db', handled, log, e, o, "delete")
    BY <1>10, <1>12 DEF SeenSome
  <2>3. ASSUME NEW e \in Device PROVE Caused(db', handled, log, e, o)
    BY <1>10, <1>12 DEF Caused
  <2>4. RowIsSeen(db', handled, log, d, o)
    <3>1. n \in Ids(db', d, o, "put") /\ Seen(handled, log, d, d, n) /\ db'[d].oplog[n].ts = ts
      BY <1>4, <1>10, <1>12 DEF Seen, LogsAs
    <3>2. FromPut(db', handled, log, d, o)
      BY <1>8, <3>1 DEF FromPut
    <3>3. CanHold(db'[d], o)
      BY <1>1, <1>8 DEF CanHold
    <3>4. db'[d].rows[o] # NoRow
      <4>1. [ts |-> ts, by |-> <<d, n>>] \in Row
        BY <1>2 DEF Row
      <4>2. QED
        BY <1>8, <4>1, StoreAssumption DEF Row
    <3>5. QED
      BY <2>2, <3>2, <3>3, <3>4 DEF RowIsSeen
  <2>5. ASSUME NEW e \in Device, e # d PROVE RowIsSeen(db', handled, log, e, o)
    <3>1. db'[e].rows[o] = NoRow
      BY <1>8, <1>9, <1>12, <2>5
    <3>2. ~Seen(handled, log, e, d, n)
      BY <1>4, <2>5, LogTyped DEF LogsAs, Seen
    <3>3. ~SeenSome(db', handled, log, e, o, "put")
      BY <1>10, <1>12, <3>2 DEF SeenSome
    <3>4. QED
      BY <3>1, <3>3 DEF RowIsSeen
  <2>6. QED
    BY <2>1, <2>3, <2>4, <2>5 DEF Shelved
<1>13. ASSUME NEW p \in Minted, p \notin unlogged' PROVE Shelved(db', handled', log', p)
  <2>1. CASE p = o
    BY <1>1, <1>12, <2>1
  <2>2. CASE p # o
    <3>1. p \in Object
      BY DEF Minted
    <3>2. \A e \in Device : db'[e].rows[p] = db[e].rows[p]
      BY <1>8, <2>2, <3>1
    <3>3. QED
      BY <1>1, <1>4, <1>8, <1>13, <2>2, <3>2, LoggingOthers
  <2>3. QED
    BY <2>1, <2>2
<1>14. BooksKept'
  BY <1>8 DEF BInv, BooksKept
<1>15. QED
  BY <1>11, <1>13, <1>14 DEF BInv

\* A deletion: the device has the row, so it has seen the put.
LEMMA DeleteShelves ==
    ASSUME IInv, CInv, BInv, NEW d \in Device, NEW o \in Object, NEW ts \in Stamp,
           Delete(d, o, ts)
    PROVE  BInv'
<1> DEFINE n == NextId(db[d])
           D == DeleteRow(db[d], o)
           E == WriteOpLog(D, "delete", o, ts)
<1>1. /\ UNCHANGED <<log, handled, unlogged>>
      /\ o \in Minted /\ db[d].rows[o] # NoRow
      /\ db' = [db EXCEPT ![d] = E]
  BY DEF Delete, Minted
<1>2. db[d] \in Db
  BY DeviceFacts
<1>3. D \in Db /\ D.oplog = db[d].oplog
  BY <1>2, DeleteRowType
<1>4. LogsAs(d, n, o, "delete", ts)
  <2> HIDE DEF D
  <2>1. QED
    BY <1>1, <1>3, LoggingLogs
<1>5. /\ D.books = db[d].books
      /\ D.rows[o] = NoRow
      /\ \A p \in Object : p # o => D.rows[p] = db[d].rows[p]
  BY <1>2 DEF DeleteRow, Db
<1>6. E.books = D.books /\ E.rows = D.rows
  <2> HIDE DEF D
  <2>1. QED
    BY <1>3 DEF WriteOpLog, Db
<1> HIDE DEF D, E, n
<1>7. db'[d] = E /\ \A e \in Device : e # d => db'[e] = db[e]
  BY <1>1 DEF IInv, Functional
<1>8. /\ \A e \in Device : db'[e].books = db[e].books
      /\ \A e \in Device, p \in Object : e # d \/ p # o => db'[e].rows[p] = db[e].rows[p]
      /\ db'[d].rows[o] = NoRow
  BY <1>5, <1>6, <1>7
<1>9. ASSUME NEW e \in Device, NEW p
      PROVE  /\ Ids(db', e, p, "put") = Ids(db, e, p, "put")
             /\ \A i \in Ids(db, e, p, "put") : db'[e].oplog[i].ts = db[e].oplog[i].ts
  <2>1. Ids(db, e, p, "put") \subseteq DOMAIN db[e].oplog
    BY DEF Ids
  <2>2. QED
    BY <1>4, <2>1 DEF LogsAs
<1>10. ASSUME NEW e \in Device
       PROVE  Ids(db', e, o, "delete") = IF e = d THEN Ids(db, e, o, "delete") \cup {n}
                                                  ELSE Ids(db, e, o, "delete")
  BY <1>4 DEF LogsAs
<1>11. OnePut(db')
  BY <1>9, OnePutSame DEF BInv
<1>12. ASSUME o \notin unlogged PROVE Shelved(db', handled, log, o)
  <2>1. Shelved(db, handled, log, o)
    BY <1>1, <1>12 DEF BInv
  <2>2. ASSUME NEW k \in DOMAIN log
        PROVE  /\ EntryIs(db', log[k], o, "put") <=> EntryIs(db, log[k], o, "put")
               /\ EntryIs(db', log[k], o, "delete") <=> EntryIs(db, log[k], o, "delete")
    <3>1. log[k][1] \in Device /\ log[k] = <<log[k][1], log[k][2]>> /\ log[k] # <<d, n>>
      BY <1>4, EntryFacts DEF LogsAs
    <3>2. ~(log[k][1] = d /\ log[k][2] = n)
      BY <3>1
    <3>3. QED
      BY <1>9, <1>10, <3>1, <3>2 DEF EntryIs
  <2>3. PutFirst(db', log, o)
    BY <2>1, <2>2 DEF Shelved, PutFirst
  <2>4. ASSUME NEW e \in Device
        PROVE  Caused(db, handled, log, e, o) /\ RowIsSeen(db, handled, log, e, o)
    BY <2>1 DEF Shelved
  <2>5. PICK f \in Device : \E i \in Ids(db, f, o, "put") : Seen(handled, log, d, f, i)
    BY <1>1, <2>4 DEF RowIsSeen, FromPut
  <2>6. PICK i \in Ids(db, f, o, "put") : Seen(handled, log, d, f, i)
    BY <2>5
  <2>7. \/ \E j \in Ids(db, d, o, "put") : j < n
        \/ \E k \in handled[d] : EntryIs(db, log[k], o, "put")
    <3>1. CASE f = d
      BY <1>4, <2>6, <3>1 DEF LogsAs, Ids
    <3>2. CASE f # d
      <4>1. PICK k \in handled[d] : log[k] = <<f, i>>
        BY <2>6, <3>2 DEF Seen
      <4>2. EntryIs(db, log[k], o, "put")
        BY <2>6, <4>1 DEF EntryIs
      <4>3. QED
        BY <4>2
    <3>3. QED
      BY <3>1, <3>2
  <2>8. ASSUME NEW e \in Device, NEW x \in Ids(db', e, o, "delete")
        PROVE  \/ \E j \in Ids(db', e, o, "put") : j < x
               \/ \E k \in handled[e] : EntryIs(db', log[k], o, "put")
    <3>1. \/ \E j \in Ids(db, e, o, "put") : j < x
          \/ \E k \in handled[e] : EntryIs(db, log[k], o, "put")
      BY <1>10, <2>4, <2>7, <2>8 DEF Caused
    <3>2. QED
      BY <1>9, <2>2, <3>1, LogTyped
  <2>9. \A e \in Device : Caused(db', handled, log, e, o)
    BY <2>8 DEF Caused
  <2>10. ASSUME NEW e \in Device
         PROVE  /\ SeenSome(db', handled, log, e, o, "put") =>
                       SeenSome(db, handled, log, e, o, "put")
                /\ SeenSome(db, handled, log, e, o, "delete") =>
                       SeenSome(db', handled, log, e, o, "delete")
    BY <1>9, <1>10 DEF SeenSome
  <2>11. RowIsSeen(db', handled, log, d, o)
    <3>1. n \in Ids(db', d, o, "delete") /\ Seen(handled, log, d, d, n)
      BY <1>10 DEF Seen
    <3>2. SeenSome(db', handled, log, d, o, "delete")
      BY <3>1 DEF SeenSome
    <3>3. QED
      BY <1>8, <3>2 DEF RowIsSeen
  <2>12. ASSUME NEW e \in Device, e # d PROVE RowIsSeen(db', handled, log, e, o)
    <3>1. db'[e].rows[o] = db[e].rows[o] /\ (CanHold(db'[e], o) <=> CanHold(db[e], o))
      BY <1>1, <1>8, <2>12 DEF CanHold
    <3>2. FromPut(db, handled, log, e, o) => FromPut(db', handled, log, e, o)
      BY <1>9, <3>1 DEF FromPut
    <3>3. SeenSome(db', handled, log, e, o, "delete") =>
              SeenSome(db, handled, log, e, o, "delete")
      <4>1. ~Seen(handled, log, e, d, n)
        BY <1>4, <2>12, LogTyped DEF LogsAs, Seen
      <4>2. QED
        BY <1>10, <4>1 DEF SeenSome
    <3>4. QED
      BY <2>4, <2>10, <3>1, <3>2, <3>3 DEF RowIsSeen
  <2>13. QED
    BY <2>3, <2>9, <2>11, <2>12 DEF Shelved
<1>13. ASSUME NEW p \in Minted, p \notin unlogged' PROVE Shelved(db', handled', log', p)
  <2>1. CASE p = o
    BY <1>1, <1>12, <1>13, <2>1
  <2>2. CASE p # o
    <3>1. p \in Object
      BY DEF Minted
    <3>2. \A e \in Device : db'[e].rows[p] = db[e].rows[p]
      BY <1>8, <2>2, <3>1
    <3>3. /\ UNCHANGED <<log, handled, unlogged>>
          /\ p \notin unlogged
          /\ \A e \in Device : db'[e].books = db[e].books
      BY <1>1, <1>8, <1>13
    <3>4. QED
      BY <1>4, <2>2, <3>2, <3>3, LoggingOthers
  <2>3. QED
    BY <2>1, <2>2
<1>14. BooksKept'
  BY <1>8 DEF BInv, BooksKept
<1>15. QED
  BY <1>11, <1>13, <1>14 DEF BInv

-----------------------------------------------------------------------------
(* A device deals with an entry of the log.                                *)

\* What apply_remote_op does to the row of a bookmark.
LEMMA ApplyShelf ==
    ASSUME NEW D \in Db, NEW op \in LoggedOp, NEW by, NEW p \in Minted
    PROVE  LET A == ApplyRemoteOp(D, op, by)
           IN /\ A.db.books = D.books
              /\ op.obj # p => A.db.rows[p] = D.rows[p]
              /\ op.obj = p /\ op.type = "put" =>
                    A.db.rows[p] = IF CanHold(D, p) THEN [ts |-> op.ts, by |-> by] ELSE D.rows[p]
              /\ op.obj = p /\ op.type = "delete" => A.db.rows[p] = NoRow
<1>1. /\ p \in Object /\ p \notin Register /\ op.obj \in Object
      /\ D.rows \in [Object -> Row \cup {NoRow}]
  BY DEF Minted, LoggedOp, Db
<1>2. CASE op.type = "delete"
  BY <1>1, <1>2 DEF ApplyRemoteOp, ApplyDelete, DeleteRow, Db
<1>3. CASE op.type = "put"
  <2>1. \/ /\ CanHold(D, op.obj)
           /\ ApplyRemoteOp(D, op, by).db = UpsertRow(D, op.obj, op.ts, by)
        \/ /\ ~CanHold(D, op.obj) \/ op.obj \in Register
           /\ ApplyRemoteOp(D, op, by).db = D
    BY <1>3 DEF ApplyRemoteOp, ApplyPut
  <2>2. /\ UpsertRow(D, op.obj, op.ts, by).books = D.books
        /\ \A q \in Object : UpsertRow(D, op.obj, op.ts, by).rows[q] =
               IF q = op.obj THEN [ts |-> op.ts, by |-> by] ELSE D.rows[q]
    BY <1>1 DEF UpsertRow, Db
  <2>3. QED
    BY <1>1, <1>3, <2>1, <2>2
<1>4. QED
  BY <1>2, <1>3 DEF LoggedOp

\* The operations stay, the log stays, and only rows of device d change.
OnlyRows(d) ==
    /\ log' = log /\ unlogged' = unlogged
    /\ \A e \in Device : /\ db'[e].oplog = db[e].oplog
                         /\ db'[e].books = db[e].books
                         /\ e # d => db'[e].rows = db[e].rows /\ handled'[e] = handled[e]
    /\ handled[d] \subseteq handled'[d]

\* What is left to show when device d deals with an entry.
LEMMA DealShelves ==
    ASSUME IInv, CInv, BInv, NEW d \in Device, OnlyRows(d),
           \A o \in Minted : o \notin unlogged => RowIsSeen(db', handled', log, d, o)
    PROVE  BInv'
<1>1. \A e \in Device : \A o, type : Ids(db', e, o, type) = Ids(db, e, o, type)
  BY DEF OnlyRows, Ids
<1>2. BooksKept' /\ OnePut(db')
  <2>1. \A e \in Device, o \in Minted : Ids(db', e, o, "put") = Ids(db, e, o, "put")
    BY <1>1
  <2>2. OnePut(db')
    BY <2>1, OnePutSame DEF BInv
  <2>3. QED
    BY <2>2 DEF BInv, BooksKept, OnlyRows
<1>3. ASSUME NEW k \in DOMAIN log, NEW o, NEW type
      PROVE  EntryIs(db', log[k], o, type) <=> EntryIs(db, log[k], o, type)
  BY <1>1, LogTyped DEF EntryIs
<1>4. ASSUME NEW o \in Minted, o \notin unlogged PROVE Shelved(db', handled', log, o)
  <2>1. Shelved(db, handled, log, o)
    BY <1>4 DEF BInv
  <2>2. PutFirst(db', log, o)
    BY <1>3, <2>1 DEF Shelved, PutFirst
  <2>3. ASSUME NEW e \in Device PROVE Caused(db', handled', log, e, o)
    <3>1. Caused(db, handled, log, e, o)
      BY <2>1 DEF Shelved
    <3>2. handled[e] \subseteq handled'[e] /\ handled[e] \subseteq DOMAIN log
      BY LogTyped DEF OnlyRows
    <3>3. QED
      BY <1>1, <1>3, <3>1, <3>2 DEF Caused
  <2>4. ASSUME NEW e \in Device, e # d PROVE RowIsSeen(db', handled', log, e, o)
    <3>1. RowIsSeen(db, handled, log, e, o)
      BY <2>1 DEF Shelved
    <3>2. /\ db'[e].rows = db[e].rows /\ db'[e].books = db[e].books
          /\ handled'[e] = handled[e]
          /\ \A f \in Device : db'[f].oplog = db[f].oplog
      BY <2>4 DEF OnlyRows
    <3>3. \A f, i : Seen(handled', log, e, f, i) <=> Seen(handled, log, e, f, i)
      BY <3>2 DEF Seen
    <3>4. \A type : SeenSome(db', handled', log, e, o, type) <=>
                    SeenSome(db, handled, log, e, o, type)
      BY <1>1, <3>3 DEF SeenSome
    <3>5. FromPut(db, handled, log, e, o) => FromPut(db', handled', log, e, o)
      BY <1>1, <3>2, <3>3 DEF FromPut
    <3>6. CanHold(db'[e], o) <=> CanHold(db[e], o)
      BY <3>2 DEF CanHold
    <3>7. QED
      BY <3>1, <3>2, <3>4, <3>5, <3>6 DEF RowIsSeen
  <2>5. QED
    BY <1>4, <2>2, <2>3, <2>4 DEF Shelved
<1>5. \A o \in Minted : o \notin unlogged' => Shelved(db', handled', log', o)
  BY <1>4 DEF OnlyRows
<1>6. QED
  BY <1>2, <1>5 DEF BInv

\* Device d deals with entry k of another device for the first time; what it
\* has seen of o so far is what it had logged or dealt with before k.
LEMMA FirstSeen ==
    ASSUME IInv, CInv, PushedOnce, NEW d \in Device, NEW k \in DOMAIN log,
           log[k][1] # d, handled[d] = 1 .. k - 1
    PROVE  ~Seen(handled, log, d, log[k][1], log[k][2])
<1>1. log[k] = <<log[k][1], log[k][2]>> /\ k \in Nat
  BY EntryFacts, LogTyped
<1>2. ASSUME NEW j \in handled[d], log[j] = <<log[k][1], log[k][2]>> PROVE FALSE
  <2>1. j \in DOMAIN log /\ log[j] = log[k]
    BY <1>1, <1>2, LogTyped
  <2>2. j = k
    BY <2>1 DEF PushedOnce
  <2>3. QED
    BY <1>1, <2>2
<1>3. QED
  BY <1>2 DEF Seen

\* A put that the device has not seen: it has not seen a deletion either.
LEMMA NotDeletedYet ==
    ASSUME IInv, CInv, BInv, PushedOnce, NEW d \in Device, NEW k \in DOMAIN log,
           log[k][1] # d, handled[d] = 1 .. k - 1,
           NEW o \in Minted, o \notin unlogged, EntryIs(db, log[k], o, "put")
    PROVE  ~SeenSome(db, handled, log, d, o, "delete")
<1>1. ~Seen(handled, log, d, log[k][1], log[k][2])
  BY FirstSeen
<1>2. Shelved(db, handled, log, o) /\ OnePut(db)
  BY DEF BInv
<1>3. log[k][1] \in Device /\ log[k][2] \in Ids(db, log[k][1], o, "put")
  BY EntryFacts DEF EntryIs
\* Whatever put of o the device has seen would be this one.
<1>4. ASSUME NEW f \in Device, NEW j \in Ids(db, f, o, "put"), Seen(handled, log, d, f, j)
      PROVE  FALSE
  <2>1. f = log[k][1] /\ j = log[k][2]
    BY <1>2, <1>3, <1>4 DEF OnePut
  <2>2. QED
    BY <1>1, <1>4, <2>1
<1>5. ASSUME NEW j \in handled[d], EntryIs(db, log[j], o, "put") PROVE FALSE
  <2>1. j \in DOMAIN log
    BY LogTyped
  <2>2. log[j][1] \in Device /\ log[j] = <<log[j][1], log[j][2]>>
    BY <2>1, EntryFacts
  <2>3. Seen(handled, log, d, log[j][1], log[j][2])
    BY <2>2 DEF Seen
  <2>4. QED
    BY <1>4, <1>5, <2>2, <2>3 DEF EntryIs
<1>6. ASSUME NEW e \in Device, NEW i \in Ids(db, e, o, "delete"), Seen(handled, log, d, e, i)
      PROVE  FALSE
  <2>1. CASE e = d
    <3>1. \/ \E j \in Ids(db, d, o, "put") : j < i
          \/ \E j \in handled[d] : EntryIs(db, log[j], o, "put")
      BY <1>2, <1>6, <2>1 DEF Shelved, Caused
    <3>2. \A j : Seen(handled, log, d, d, j)
      BY DEF Seen
    <3>3. QED
      BY <1>4, <1>5, <3>1, <3>2
  <2>2. CASE e # d
    <3>1. PICK j \in handled[d] : log[j] = <<e, i>>
      BY <1>6, <2>2 DEF Seen
    <3>2. j \in DOMAIN log /\ EntryIs(db, log[j], o, "delete")
      BY <1>6, <3>1, LogTyped DEF EntryIs
    <3>3. PICK l \in DOMAIN log : l < j /\ EntryIs(db, log[l], o, "put")
      BY <1>2, <3>2 DEF Shelved, PutFirst
    <3>4. l \in handled[d]
      <4>1. DOMAIN log = 1 .. Len(log) /\ k \in Nat
        BY LogTyped, LenProperties DEF IInv, LogFacts
      <4>2. QED
        BY <3>1, <3>3, <4>1
    <3>5. QED
      BY <1>5, <3>3, <3>4
  <2>3. QED
    BY <2>1, <2>2
<1>7. QED
  BY <1>6 DEF SeenSome

LEMMA ApplyOpShelves ==
    ASSUME IInv, CInv, BInv, PushedOnce, Swept, OwnDeviceKnown,
           NEW s \in Session, ApplyOp(s)
    PROVE  BInv'
<1> DEFINE d == Owner[s]
           S == sess[s]
           k == S.cursor + 1
           op == OpIn(db, log[k])
           A == ApplyRemoteOp(db[d], op, log[k])
           own == log[k][1] = d
           E == IF own THEN db[d] ELSE A.db
<1>1. d \in Device /\ db[d] \in Db /\ S \in SessionState
  BY OwnerFacts, DeviceFacts
<1>2. k \in DOMAIN log /\ handled[d] = 1 .. k - 1
  <2>1. S.cursor < S.last /\ S.last <= Len(log) /\ S.pc = "apply"
    BY OwnerFacts DEF SessionFacts, ApplyOp
  <2>2. log \in Seq(Device \X Nat) /\ S.cursor \in Nat /\ S.last \in Nat
    BY <1>1 DEF IInv, LogFacts, SessionState
  <2>3. SweptTo(S, db[d], handled[d])
    BY DEF Swept
  <2>4. handled[d] = 1 .. S.cursor
    BY <2>1, <2>3 DEF SweptTo
  <2>5. QED
    BY <2>1, <2>2, <2>4, LenProperties
<1>3. /\ db' = [db EXCEPT ![d] = E]
      /\ log' = log /\ unlogged' = unlogged
      /\ \/ handled' = handled /\ ~own /\ A.res = "failed"
         \/ handled' = [handled EXCEPT ![d] = @ \cup {k}]
  BY DEF ApplyOp, Op, OpIn
<1> HIDE DEF k, S
<1>4. /\ log[k][1] \in Device
      /\ log[k][2] \in DOMAIN db[log[k][1]].oplog
      /\ log[k] = <<log[k][1], log[k][2]>>
      /\ op \in LoggedOp
      /\ log[k] \in Device \X Nat
  BY <1>2, EntryFacts, ElementOfSeq, LenProperties DEF IInv, LogFacts
<1> HIDE DEF op, d
<1>5. E.oplog = db[d].oplog
  BY <1>1, <1>4, ApplyRemoteOpType
<1>6. ASSUME NEW p \in Minted
      PROVE  /\ A.db.books = db[d].books
             /\ op.obj # p => A.db.rows[p] = db[d].rows[p]
             /\ op.obj = p /\ op.type = "put" =>
                   A.db.rows[p] = IF CanHold(db[d], p) THEN [ts |-> op.ts, by |-> log[k]]
                                                       ELSE db[d].rows[p]
             /\ op.obj = p /\ op.type = "delete" => A.db.rows[p] = NoRow
  BY <1>1, <1>4, ApplyShelf
<1>7. A.res = "failed" => A.db = db[d]
  BY DEF ApplyRemoteOp, ApplyPut, ApplyDelete
<1>8. A.db.books = db[d].books
  BY <1>1 DEF ApplyRemoteOp, ApplyPut, ApplyDelete, UpsertRow, DeleteRow, Db
<1> HIDE DEF A
<1>9. db'[d] = E /\ \A e \in Device : e # d => db'[e] = db[e]
  BY <1>1, <1>3 DEF IInv, Functional
<1>10. /\ \A e \in Device : e # d => handled'[e] = handled[e]
       /\ \/ handled'[d] = handled[d] /\ ~own /\ A.res = "failed"
          \/ handled'[d] = handled[d] \cup {k}
  BY <1>1, <1>3 DEF IInv, Functional
<1>11. OnlyRows(d)
  BY <1>3, <1>5, <1>8, <1>9, <1>10 DEF OnlyRows
<1>12. \A e \in Device : \A o, type : Ids(db', e, o, type) = Ids(db, e, o, type)
  BY <1>11 DEF OnlyRows, Ids
<1>13. ASSUME NEW o \in Minted, o \notin unlogged PROVE RowIsSeen(db', handled', log, d, o)
  <2> DEFINE row == db[d].rows[o]
             new == db'[d].rows[o]
  <2>1. RowIsSeen(db, handled, log, d, o)
    BY <1>1, <1>13 DEF BInv, Shelved
  <2>2. CanHold(db'[d], o) <=> CanHold(db[d], o)
    BY <1>1, <1>11 DEF CanHold, OnlyRows
\* Nothing of o is seen that was not seen before.
  <2>3. ASSUME new = row,
               \A e \in Device : \A i : \A type \in {"put", "delete"} :
                   i \in Ids(db, e, o, type) =>
                       (Seen(handled', log, d, e, i) <=> Seen(handled, log, d, e, i))
        PROVE  RowIsSeen(db', handled', log, d, o)
    <3>1. /\ SeenSome(db', handled', log, d, o, "put") <=> SeenSome(db, handled, log, d, o, "put")
          /\ SeenSome(db', handled', log, d, o, "delete") <=>
                 SeenSome(db, handled, log, d, o, "delete")
      BY <1>12, <2>3 DEF SeenSome
    <3>2. FromPut(db, handled, log, d, o) => FromPut(db', handled', log, d, o)
      BY <1>11, <1>12, <2>3 DEF FromPut, OnlyRows
    <3>3. QED
      BY <2>1, <2>2, <2>3, <3>1, <3>2 DEF RowIsSeen
  <2>4. CASE own
    <3>1. new = row
      BY <1>9, <2>4
    <3>2. \A e \in Device : \A i : Seen(handled', log, d, e, i) <=> Seen(handled, log, d, e, i)
      BY <1>4, <1>10, <2>4 DEF Seen
    <3>3. QED
      BY <2>3, <3>1, <3>2
  <2>5. CASE ~own /\ handled'[d] = handled[d] /\ A.res = "failed"
    <3>1. new = row
      BY <1>7, <1>9, <2>5
    <3>2. \A e \in Device : \A i : Seen(handled', log, d, e, i) <=> Seen(handled, log, d, e, i)
      BY <2>5 DEF Seen
    <3>3. QED
      BY <2>3, <3>1, <3>2
  <2>6. CASE ~own /\ handled'[d] = handled[d] \cup {k}
    <3>1. \A e \in Device : \A i :
             Seen(handled', log, d, e, i) <=> Seen(handled, log, d, e, i) \/ <<e, i>> = log[k]
      BY <2>6 DEF Seen
    <3>2. new = A.db.rows[o]
      BY <1>9, <2>6
    <3>3. \A type : log[k][2] \in Ids(db, log[k][1], o, type) <=> op.obj = o /\ op.type = type
      BY <1>4 DEF op, OpIn, Ids
    <3>4. Seen(handled', log, d, log[k][1], log[k][2])
      BY <1>4, <3>1
    <3>5. CASE op.obj # o
      <4>1. new = row
        BY <1>6, <1>13, <3>2, <3>5
      <4>2. ASSUME NEW e \in Device, NEW i, NEW type, i \in Ids(db, e, o, type)
            PROVE  <<e, i>> # log[k]
        BY <3>3, <3>5, <4>2
      <4>3. QED
        BY <2>3, <3>1, <4>1, <4>2
    <3>6. CASE op.obj = o /\ op.type = "delete"
      <4>1. new = NoRow
        BY <1>6, <1>13, <3>2, <3>6
      <4>2. log[k][2] \in Ids(db', log[k][1], o, "delete")
        BY <1>4, <1>12, <3>3, <3>6
      <4>3. SeenSome(db', handled', log, d, o, "delete")
        BY <1>4, <3>4, <4>2 DEF SeenSome
      <4>4. QED
        BY <4>1, <4>3 DEF RowIsSeen
    <3>7. CASE op.obj = o /\ op.type = "put"
      <4>1. EntryIs(db, log[k], o, "put")
        BY <3>3, <3>7 DEF EntryIs
      <4>2. ~SeenSome(db, handled, log, d, o, "delete")
        BY <1>1, <1>2, <1>13, <2>6, <4>1, NotDeletedYet
      <4>3. ASSUME NEW e \in Device, NEW i, i \in Ids(db, e, o, "delete")
            PROVE  <<e, i>> # log[k]
        BY <3>3, <3>7, <4>3
      <4>4. ~SeenSome(db', handled', log, d, o, "delete")
        BY <1>12, <3>1, <4>2, <4>3 DEF SeenSome
      <4>5. CASE CanHold(db[d], o)
        <5>1. new = [ts |-> op.ts, by |-> log[k]]
          BY <1>6, <1>13, <3>2, <3>7, <4>5
        <5>2. new # NoRow
          <6>1. [ts |-> op.ts, by |-> log[k]] \in Row
            BY <1>4 DEF Row, LoggedOp
          <6>2. QED
            BY <5>1, <6>1, StoreAssumption DEF Row
        <5>3. /\ log[k][2] \in Ids(db', log[k][1], o, "put")
              /\ op.ts = db'[log[k][1]].oplog[log[k][2]].ts
          BY <1>4, <1>11, <1>12, <3>3, <3>7 DEF op, OpIn, OnlyRows
        <5>4. FromPut(db', handled', log, d, o)
          BY <1>4, <3>4, <5>1, <5>3 DEF FromPut
        <5>5. QED
          BY <2>2, <4>4, <4>5, <5>2, <5>4 DEF RowIsSeen
      <4>6. CASE ~CanHold(db[d], o)
        <5>1. new = row
          BY <1>6, <1>13, <3>2, <3>7, <4>6
        <5>2. new = NoRow
          BY <2>1, <4>6, <5>1 DEF RowIsSeen
        <5>3. QED
          BY <2>2, <4>6, <5>2 DEF RowIsSeen
      <4>7. QED
        BY <4>5, <4>6
    <3>8. QED
      BY <1>4, <3>5, <3>6, <3>7 DEF LoggedOp
  <2>7. QED
    BY <1>10, <2>4, <2>5, <2>6
<1>14. QED
  BY <1>1, <1>11, <1>13, DealShelves

-----------------------------------------------------------------------------
(* The theorem.                                                            *)

LEMMA InitShelves == Init => Swept /\ BInv
<1> SUFFICES ASSUME Init PROVE Swept /\ BInv
  OBVIOUS
<1>1. /\ \A d \in Device : db[d] = EmptyDb(InitialBooks[d]) /\ handled[d] = {}
      /\ \A s \in Session : sess[s] = Idle
      /\ log = << >>
  BY DEF Init
<1>2. \A d \in Device : /\ db[d].books = InitialBooks[d]
                        /\ db[d].cursor = 0
                        /\ \A o \in Object : db[d].rows[o] = NoRow
                        /\ \A o, type : Ids(db, d, o, type) = {}
  <2>1. ASSUME NEW d \in Device
        PROVE  /\ db[d].books = InitialBooks[d]
               /\ db[d].cursor = 0
               /\ \A o \in Object : db[d].rows[o] = NoRow
               /\ DOMAIN db[d].oplog = {}
    <3>1. db[d] = EmptyDb(InitialBooks[d])
      BY <1>1
    <3>2. QED
      BY <3>1 DEF EmptyDb
  <2>2. QED
    BY <2>1 DEF Ids
<1>3. Swept
  <2>1. ASSUME NEW s \in Session PROVE SweptTo(sess[s], db[Owner[s]], handled[Owner[s]])
    <3>1. Owner[s] \in Device
      BY SyncAssumption
    <3>2. sess[s].pc = "idle"
      BY <1>1 DEF Idle
    <3>3. handled[Owner[s]] = {} /\ db[Owner[s]].cursor = 0 /\ 1 .. 0 = {}
      BY <1>1, <1>2, <3>1
    <3>4. QED
      BY <3>2, <3>3 DEF SweptTo
  <2>2. QED
    BY <2>1 DEF Swept
<1>4. BooksKept /\ OnePut(db)
  BY <1>2 DEF BooksKept, OnePut
<1>5. ASSUME NEW o \in Minted PROVE Shelved(db, handled, log, o)
  <2>1. ASSUME NEW d \in Device
        PROVE  RowIsSeen(db, handled, log, d, o) /\ Caused(db, handled, log, d, o)
    BY <1>2 DEF RowIsSeen, Caused, SeenSome, Minted
  <2>2. PutFirst(db, log, o)
    BY <1>1 DEF PutFirst
  <2>3. QED
    BY <2>1, <2>2 DEF Shelved
<1>6. QED
  BY <1>3, <1>4, <1>5 DEF BInv

LEMMA NextShelves ==
    ASSUME StableOpIds, OwnDeviceKnown, NoDeaths, BooksEverywhere,
           IInv, CInv, DInv, PushedOnce, Swept, BInv, [Next]_vars
    PROVE  BInv'
<1>1. CASE UNCHANGED vars
  BY <1>1, SilentShelves DEF vars
<1>2. ASSUME NEW d \in Device, User(d) PROVE BInv'
  BY <1>2, PutShelves, DeleteShelves, RegisterBookShelves DEF User
<1>3. ASSUME NEW d \in Device PROVE ~Crash(d) /\ \A o, ts : ~TornWrite(d, o, ts)
  BY DEF NoDeaths, Crash, TornWrite, Fault
<1>4. ASSUME NEW s \in Session, Step(s) PROVE BInv'
  <2>1. CASE ReadCursor(s) \/ ServerPull(s)
    BY <2>1, SilentShelves DEF ReadCursor, ServerPull
  <2>2. CASE ServerPush(s) \/ MarkSynced(s) \/ ApplyOp(s) \/ SavePage(s) \/ SaveFailed(s)
    BY <2>2, ServerPushShelves, MarkSyncedShelves, ApplyOpShelves, SaveShelves
  <2>3. QED
    BY <1>4, <2>1, <2>2 DEF Step
<1>5. ASSUME NEW s \in Session, Lose(s) PROVE BInv'
  BY <1>5, SilentShelves DEF Lose
<1>6. ASSUME NEW s \in Session, NEW mode \in Modes, ReadUnsynced(s, mode) PROVE BInv'
  BY <1>6, SilentShelves DEF ReadUnsynced
<1>7. QED
  BY <1>1, <1>2, <1>3, <1>4, <1>5, <1>6 DEF Next

\* When all is exchanged, every device has seen every operation.
LEMMA AllSeen ==
    ASSUME IInv, CInv, Quiescent, NEW d \in Device, NEW e \in Device,
           NEW o, NEW type, NEW i \in Ids(db, e, o, type)
    PROVE  Seen(handled, log, d, e, i)
<1>1. i \in DOMAIN db[e].oplog
  BY DEF Ids
<1>2. \E k \in handled[d] : log[k] = <<e, i>>
  BY <1>1, QuiescentFacts
<1>3. QED
  BY <1>2 DEF Seen

LEMMA ShelvesAgree ==
    ASSUME IInv, CInv, BInv, Quiescent, NEW o \in Minted, o \notin unlogged
    PROVE  Agree(o)
<1>1. OnePut(db) /\ \A a \in Device : RowIsSeen(db, handled, log, a, o)
  BY DEF BInv, Shelved
<1>2. ASSUME NEW a \in Device, NEW b \in Device, CanHold(db[b], o), db[a].rows[o] # NoRow
      PROVE  db[b].rows[o] = db[a].rows[o]
  <2>1. FromPut(db, handled, log, a, o) /\ ~SeenSome(db, handled, log, a, o, "delete")
    BY <1>1, <1>2 DEF RowIsSeen
  <2>2. PICK e \in Device : \E i \in Ids(db, e, o, "put") :
           db[a].rows[o] = [ts |-> db[e].oplog[i].ts, by |-> <<e, i>>]
    BY <2>1 DEF FromPut
  <2>3. PICK i \in Ids(db, e, o, "put") :
           db[a].rows[o] = [ts |-> db[e].oplog[i].ts, by |-> <<e, i>>]
    BY <2>2
  <2>4. SeenSome(db, handled, log, b, o, "put")
    BY AllSeen DEF SeenSome
  <2>5. ~SeenSome(db, handled, log, b, o, "delete")
    BY <2>1, AllSeen DEF SeenSome
  <2>6. FromPut(db, handled, log, b, o)
    BY <1>1, <1>2, <2>4, <2>5 DEF RowIsSeen
  <2>7. PICK f \in Device : \E j \in Ids(db, f, o, "put") :
           db[b].rows[o] = [ts |-> db[f].oplog[j].ts, by |-> <<f, j>>]
    BY <2>6 DEF FromPut
  <2>8. PICK j \in Ids(db, f, o, "put") :
           db[b].rows[o] = [ts |-> db[f].oplog[j].ts, by |-> <<f, j>>]
    BY <2>7
  <2>9. e = f /\ i = j
    BY <1>1 DEF OnePut
  <2>10. QED
    BY <2>3, <2>8, <2>9
<1>3. ASSUME NEW a \in Device, NEW b \in Device, CanHold(db[a], o), CanHold(db[b], o)
      PROVE  db[a].rows[o] = db[b].rows[o]
  BY <1>2, <1>3
<1>4. QED
  BY <1>3 DEF Agree

\* Bookmarks and annotations converge: when everything is exchanged, a bookmark
\* is on every device that has its book, or on none.  A deletion is never
\* overtaken by the put of what it deletes: not in the push order, not in the
\* server's log, and not in apply_remote_op, which is handed every operation
\* of the other devices once and in the log's order.  Any number of requests
\* and replies may be lost.
THEOREM ShelvesConverge ==
    ASSUME StableOpIds, OrderedClocks, OwnDeviceKnown, SerialSessions,
           NoDeaths, BooksEverywhere
    PROVE  Spec => []BookmarksConverge
<1> DEFINE Inv == CInv /\ DInv /\ Swept /\ BInv
<1>1. Init => Inv
  BY InitConv, InitDelivers, InitShelves
<1>2. IInv /\ IInv' /\ PushedOnce /\ Inv /\ [Next]_vars => Inv'
  BY NextConv, NextDelivers, NextSweeps, NextShelves
<1>3. IInv /\ Inv => BookmarksConverge
  BY ShelvesAgree DEF BookmarksConverge, Minted
<1>4. Spec => []IInv /\ []PushedOnce
  BY Invariance, OpsArePushedOnce
<1> HIDE DEF Inv
<1>5. QED
  BY <1>1, <1>2, <1>3, <1>4, PTL DEF Spec
-----------------------------------------------------------------------------
(***************************************************************************)
(* The same for the program as the FFI wires it: the engine does not know  *)
(* its own operations, so that every device is given the whole log, and    *)
(* op_ids are minted on every read.  Then nothing is asked of op_ids, of   *)
(* clocks, or of the processes' lives: whatever a device did and whatever  *)
(* it was given twice, the last entry of the log that is about a bookmark  *)
(* settles its row.  Sessions of one device must not overlap: the slower   *)
(* one would apply an older page after a newer one.                        *)
(***************************************************************************)

-----------------------------------------------------------------------------
(* The inductive invariant, on top of IInv.                                *)

\* Device d has dealt with entry k, and not begun again before it.
Reached(d, k) ==
    \/ k <= db[d].cursor
    \/ \E s \in Session : /\ Owner[s] = d /\ sess[s].pc \in {"apply", "failed"}
                          /\ k <= sess[s].cursor

\* A session pulls from the saved cursor on.
ForwardTo(S, D) ==
    /\ S.pc = "pull" => S.cursor = D.cursor
    /\ S.pc \in {"apply", "failed"} => D.cursor <= S.cursor

Forward == \A s \in Session : ForwardTo(sess[s], db[Owner[s]])

\* Entry k is the last one of the log that is about o.
LastOn(o, k) ==
    /\ k \in DOMAIN log /\ OpIn(db, log[k]).obj = o
    /\ \A j \in DOMAIN log : k < j => OpIn(db, log[j]).obj # o

\* The row that an entry leaves.
Left(D, e) ==
    IF OpIn(D, e).type = "put" THEN [ts |-> OpIn(D, e).ts, by |-> e] ELSE NoRow

\* All that d logged about o is in the server's log.
AllSent(d, o) ==
    \A i \in DOMAIN db[d].oplog : db[d].oplog[i].obj = o => InLog(log, d, i)

RowIsLast(d, o) ==
    CanHold(db[d], o) /\ AllSent(d, o) =>
        \A k \in DOMAIN log : LastOn(o, k) /\ Reached(d, k) => db[d].rows[o] = Left(db, log[k])

\* A row comes from some operation.
RowHasOp(d, o) ==
    db[d].rows[o] # NoRow =>
        \E e \in Device : \E i \in DOMAIN db[e].oplog : db[e].oplog[i].obj = o

LastWrites ==
    \A d \in Device, o \in Minted : o \notin unlogged => RowIsLast(d, o) /\ RowHasOp(d, o)

Kept == BooksKept /\ HandledIsLogged

-----------------------------------------------------------------------------
(* The steps that put and delete nothing and are given nothing.            *)

Still ==
    /\ Extends(log, log') /\ handled' = handled /\ unlogged \subseteq unlogged'
    /\ \A e \in Device : QuietShelf(db[e], db'[e], unlogged')

LEMMA StillDevice ==
    ASSUME IInv, log' = log, handled' = handled, unlogged \subseteq unlogged',
           NEW d \in Device, NEW E, db' = [db EXCEPT ![d] = E], QuietShelf(db[d], E, unlogged')
    PROVE  Still
<1>1. db'[d] = E /\ \A e \in Device : e # d => db'[e] = db[e]
  BY DEF IInv, Functional
<1>2. \A e \in Device : QuietShelf(db[e], db'[e], unlogged')
  BY <1>1 DEF QuietShelf
<1>3. Extends(log, log')
  BY ExtendsSelf DEF IInv, LogFacts
<1>4. QED
  BY <1>2, <1>3 DEF Still

LEMMA StillServer ==
    ASSUME Extends(log, log'), UNCHANGED <<db, handled, unlogged>>
    PROVE  Still
  BY DEF Still, QuietShelf

LEMMA SameIsStill ==
    ASSUME IInv, UNCHANGED <<db, log, handled, unlogged>>
    PROVE  Still
<1>1. Extends(log, log')
  BY ExtendsSelf DEF IInv, LogFacts
<1>2. QED
  BY <1>1, StillServer

LEMMA PushExtends == ASSUME IInv, NEW s \in Session, ServerPush(s) PROVE Extends(log, log')
<1> DEFINE d == Owner[s]
           ids == Fresh(d, sess[s].sending)
           c == Cardinality(ids)
<1>1. d \in Device /\ DOMAIN db[d].oplog = 1 .. Len(db[d].oplog) /\ Len(db[d].oplog) \in Nat
      /\ sess[s].sending \subseteq DOMAIN db[d].oplog
  BY OwnerFacts, DeviceFacts DEF SessionFacts
<1>2. ids \in SUBSET (1 .. Len(db[d].oplog)) /\ ids \in SUBSET Nat
  BY <1>1 DEF Fresh
<1>3. PICK f \in Orderings(d, ids) : log' = log \o [k \in DOMAIN f |-> <<d, f[k]>>]
  BY DEF ServerPush
<1>4. f \in [1 .. c -> ids]
  BY <1>3 DEF Orderings
<1>5. c \in Nat
  <2> HIDE DEF ids
  <2>1. QED
    BY <1>1, <1>2, ChunkFinite
<1>6. log \in Seq(Device \X Nat)
  BY DEF IInv, LogFacts
<1> HIDE DEF c, ids, d
<1>7. QED
  BY <1>1, <1>2, <1>3, <1>4, <1>5, <1>6, AppendFacts

LEMMA MarkSyncedStill == ASSUME IInv, NEW s \in Session, MarkSynced(s) PROVE Still
<1> DEFINE d == Owner[s]
           E == MarkOpsSynced(db[d], sess[s].sending)
           Marked(op) == [op EXCEPT !.synced = TRUE]
<1>1. d \in Device /\ db[d] \in Db
  BY OwnerFacts, DeviceFacts
<1>2. db' = [db EXCEPT ![d] = E] /\ UNCHANGED <<log, handled, unlogged>>
  BY DEF MarkSynced
<1>3. /\ E.rows = db[d].rows /\ E.books = db[d].books
      /\ E.oplog = [i \in DOMAIN db[d].oplog |->
                       IF i \in sess[s].sending THEN Marked(db[d].oplog[i]) ELSE db[d].oplog[i]]
  BY <1>1 DEF MarkOpsSynced, Db
<1>4. \A op \in LoggedOp : /\ Marked(op).obj = op.obj
                           /\ Marked(op).ts = op.ts
                           /\ Marked(op).type = op.type
  BY DEF LoggedOp
<1>5. \A i \in DOMAIN db[d].oplog : db[d].oplog[i] \in LoggedOp
  BY <1>1, DeviceFacts, ElementOfSeq
<1> HIDE DEF Marked, E
<1>6. QuietShelf(db[d], E, unlogged')
  BY <1>3, <1>4, <1>5 DEF QuietShelf
<1> HIDE DEF d
<1>7. QED
  BY <1>1, <1>2, <1>6, StillDevice

LEMMA SaveStill ==
    ASSUME IInv, NEW s \in Session, SavePage(s) \/ SaveFailed(s)
    PROVE  Still
<1> DEFINE d == Owner[s]
           E == SetCursor(db[d], sess[s].cursor)
<1>1. d \in Device /\ db[d] \in Db
  BY OwnerFacts, DeviceFacts
<1>2. db' = [db EXCEPT ![d] = E] /\ UNCHANGED <<log, handled, unlogged>>
  BY DEF SavePage, SaveFailed
<1>3. E.rows = db[d].rows /\ E.oplog = db[d].oplog /\ E.books = db[d].books
  BY <1>1 DEF SetCursor, Db
<1> HIDE DEF E, d
<1>4. QuietShelf(db[d], E, unlogged')
  BY <1>3 DEF QuietShelf
<1>5. QED
  BY <1>1, <1>2, <1>4, StillDevice

LEMMA RegisterBookStill ==
    ASSUME IInv, BooksKept, BooksEverywhere, NEW d \in Device, NEW b \in Book, RegisterBook(d, b)
    PROVE  Still
<1> DEFINE E == UpsertBook(db[d], b)
<1>1. /\ db' = [db EXCEPT ![d] = E] /\ UNCHANGED <<log, handled>>
      /\ unlogged \subseteq unlogged'
      /\ \A o \in Object : BookOf[o] = b /\ db[d].rows[o] # NoRow => o \in unlogged'
  BY DEF RegisterBook
<1>2. db[d] \in Db /\ b \in db[d].books
  BY DeviceFacts DEF BooksKept, BooksEverywhere, RegisterBook
<1>3. /\ E.oplog = db[d].oplog
      /\ E.rows = [o \in Object |-> IF BookOf[o] = b THEN NoRow ELSE db[d].rows[o]]
      /\ E.books = db[d].books \cup {b}
  BY <1>2 DEF UpsertBook, Db
<1> HIDE DEF E
<1>4. \A o \in Minted : o \notin unlogged' => E.rows[o] = db[d].rows[o]
  BY <1>1, <1>3 DEF Minted
<1>5. QuietShelf(db[d], E, unlogged')
  BY <1>2, <1>3, <1>4 DEF QuietShelf
<1>6. QED
  BY <1>1, <1>5, StillDevice

LEMMA TornWriteStill ==
    ASSUME IInv, NEW d \in Device, NEW o \in Object, NEW ts \in Stamp, TornWrite(d, o, ts)
    PROVE  Still
<1> DEFINE U == UpsertRow(db[d], o, ts, <<d, 0>>)
           R == DeleteRow(db[d], o)
<1>1. /\ UNCHANGED <<log, handled>>
      /\ unlogged' = unlogged \cup {o}
      /\ db' = [db EXCEPT ![d] = U] \/ db' = [db EXCEPT ![d] = R]
  BY DEF TornWrite
<1>2. db[d] \in Db
  BY DeviceFacts
<1>3. /\ U.oplog = db[d].oplog /\ R.oplog = db[d].oplog
      /\ U.books = db[d].books /\ R.books = db[d].books
      /\ \A p \in Object : p # o => U.rows[p] = db[d].rows[p] /\ R.rows[p] = db[d].rows[p]
  BY <1>2 DEF UpsertRow, DeleteRow, Db
<1> HIDE DEF U, R
<1>4. PICK E \in {U, R} : db' = [db EXCEPT ![d] = E]
  BY <1>1
<1>5. QuietShelf(db[d], E, unlogged')
  BY <1>1, <1>3 DEF QuietShelf, Minted
<1>6. QED
  BY <1>1, <1>4, <1>5, StillDevice

\* A step that is still, or logs an operation, or gives a device an entry.
LEMMA StepKinds ==
    ASSUME IInv, BooksKept, BooksEverywhere, [Next]_vars
    PROVE  \/ Still
           \/ \E d \in Device, o \in Object, ts \in Stamp : Put(d, o, ts) \/ Delete(d, o, ts)
           \/ \E s \in Session : ApplyOp(s)
<1>1. CASE UNCHANGED vars
  BY <1>1, SameIsStill DEF vars
<1>2. ASSUME NEW d \in Device, NEW b \in Book, RegisterBook(d, b) PROVE Still
  BY <1>2, RegisterBookStill
<1>3. ASSUME NEW d \in Device, Crash(d) PROVE Still
  BY <1>3, SameIsStill DEF Crash
<1>4. ASSUME NEW d \in Device, NEW o \in Object, NEW ts \in Stamp, TornWrite(d, o, ts) PROVE Still
  BY <1>4, TornWriteStill
<1>5. ASSUME NEW s \in Session, Step(s), ~ApplyOp(s) PROVE Still
  <2>1. CASE ReadCursor(s) \/ ServerPull(s)
    BY <2>1, SameIsStill DEF ReadCursor, ServerPull
  <2>2. CASE ServerPush(s)
    BY <2>2, PushExtends, StillServer DEF ServerPush
  <2>3. CASE MarkSynced(s) \/ SavePage(s) \/ SaveFailed(s)
    BY <2>3, MarkSyncedStill, SaveStill
  <2>4. QED
    BY <1>5, <2>1, <2>2, <2>3 DEF Step
<1>6. ASSUME NEW s \in Session, Lose(s) PROVE Still
  BY <1>6, SameIsStill DEF Lose
<1>7. ASSUME NEW s \in Session, NEW mode \in Modes, ReadUnsynced(s, mode) PROVE Still
  BY <1>7, SameIsStill DEF ReadUnsynced
<1>8. QED
  BY <1>1, <1>2, <1>3, <1>4, <1>5, <1>6, <1>7 DEF Next, User

-----------------------------------------------------------------------------
(* How far a device has come.                                              *)

\* A session that goes from S to T, on a device that goes from D to E, reaches
\* no entry that it or the device had not reached.
Stays(S, T, D, E) ==
    /\ E.cursor = D.cursor \/ (S.pc \in {"apply", "failed"} /\ E.cursor = S.cursor)
    /\ T.pc \in {"apply", "failed"} =>
          T.cursor = D.cursor \/ (S.pc \in {"apply", "failed"} /\ T.cursor = S.cursor)

NothingReached == \A e \in Device : \A k : Reached(e, k)' => Reached(e, k)

\* One session moves, and its device with it.
LEMMA OnePlaces ==
    ASSUME IInv, SerialSessions, Forward, NEW s \in Session, NEW T, Goto(s, T),
           \A e \in Device : e # Owner[s] => db'[e].cursor = db[e].cursor,
           ForwardTo(T, db'[Owner[s]])
    PROVE  /\ Forward'
           /\ Stays(sess[s], T, db[Owner[s]], db'[Owner[s]]) => NothingReached
<1> DEFINE d == Owner[s]
<1>1. sess'[s] = T /\ \A r \in Session : r # s => sess'[r] = sess[r]
  BY DEF Goto, IInv, Functional
<1>2. \A r \in Session : r # s => Owner[r] # d /\ Owner[r] \in Device
  BY OwnerFacts DEF SerialSessions
<1>3. \A r \in Session : r # s => ForwardTo(sess'[r], db'[Owner[r]])
  BY <1>1, <1>2 DEF Forward, ForwardTo
<1>4. Forward'
  BY <1>1, <1>3 DEF Forward
<1>5. ASSUME Stays(sess[s], T, db[d], db'[d]), NEW e \in Device, NEW k, Reached(e, k)'
      PROVE  Reached(e, k)
  <2>1. CASE e # d
    BY <1>1, <1>5, <2>1 DEF Reached
  <2>2. CASE e = d
    BY <1>1, <1>2, <1>5, <2>2 DEF Reached, Stays
  <2>3. QED
    BY <2>1, <2>2
<1>6. QED
  BY <1>4, <1>5 DEF NothingReached

\* Sessions that move only to the idle state, and no cursor.
LEMMA NonePlaces ==
    ASSUME IInv, Forward, \A e \in Device : db'[e].cursor = db[e].cursor,
           \A s \in Session : sess'[s] = sess[s] \/ sess'[s] = Idle
    PROVE  Forward' /\ NothingReached
<1>1. Idle.pc = "idle" /\ \A s \in Session : Owner[s] \in Device
  BY OwnerFacts DEF Idle
<1>2. ASSUME NEW s \in Session PROVE ForwardTo(sess'[s], db'[Owner[s]])
  <2>1. CASE sess'[s] = Idle
    BY <1>1, <2>1 DEF ForwardTo
  <2>2. CASE sess'[s] = sess[s]
    BY <1>1, <2>2 DEF ForwardTo, Forward
  <2>3. QED
    BY <2>1, <2>2
<1>3. Forward'
  BY <1>2 DEF Forward
<1>4. ASSUME NEW e \in Device, NEW k, Reached(e, k)' PROVE Reached(e, k)
  BY <1>1, <1>4 DEF Reached
<1>5. QED
  BY <1>3, <1>4 DEF NothingReached

LEMMA UserPlaces ==
    ASSUME IInv, Forward, NEW d \in Device, User(d)
    PROVE  Forward' /\ NothingReached
<1>1. sess' = sess
  BY DEF User, Put, Delete, RegisterBook
<1>2. \A e \in Device : db'[e].cursor = db[e].cursor
  <2>1. ASSUME NEW b \in Book, RegisterBook(d, b)
        PROVE  \A e \in Device : db'[e].cursor = db[e].cursor
    <3>1. db' = [db EXCEPT ![d] = UpsertBook(db[d], b)]
      BY <2>1 DEF RegisterBook
    <3>2. UpsertBook(db[d], b).cursor = db[d].cursor
      BY DeviceFacts, UpsertBookType
    <3>3. QED
      BY <3>1, <3>2 DEF IInv, Functional
  <2>2. QED
    BY <2>1, LoggingCursors DEF User
<1>3. QED
  BY <1>1, <1>2, NonePlaces

LEMMA DeathPlaces ==
    ASSUME IInv, Forward, NEW d \in Device,
           Crash(d) \/ \E o \in Object, ts \in Stamp : TornWrite(d, o, ts)
    PROVE  Forward' /\ NothingReached
<1>1. Killed(d)
  BY DEF Crash, TornWrite, Killed
<1>2. \A s \in Session : sess'[s] = sess[s] \/ sess'[s] = Idle
  BY <1>1, KilledSessions
<1>3. ASSUME NEW o \in Object, NEW ts \in Stamp, TornWrite(d, o, ts)
      PROVE  \A e \in Device : db'[e].cursor = db[e].cursor
  <2> DEFINE U == UpsertRow(db[d], o, ts, <<d, 0>>)
             R == DeleteRow(db[d], o)
  <2>1. db' = [db EXCEPT ![d] = U] \/ db' = [db EXCEPT ![d] = R]
    BY <1>3 DEF TornWrite
  <2>2. U.cursor = db[d].cursor /\ R.cursor = db[d].cursor
    <3>1. ts \in Nat /\ <<d, 0>> \in Device \X Nat /\ db[d] \in Db
      BY DeviceFacts, SyncAssumption
    <3>2. QED
      BY <3>1, UpsertRowType, DeleteRowType
  <2> HIDE DEF U, R
  <2>3. QED
    BY <2>1, <2>2 DEF IInv, Functional
<1>4. \A e \in Device : db'[e].cursor = db[e].cursor
  BY <1>3 DEF Crash
<1>5. QED
  BY <1>2, <1>4, NonePlaces

LEMMA LosePlaces ==
    ASSUME IInv, Forward, NEW s \in Session, Lose(s)
    PROVE  Forward' /\ NothingReached
<1>1. db' = db /\ \A r \in Session : sess'[r] = sess[r] \/ sess'[r] = Idle
  BY DEF Lose, Goto, IInv, Functional
<1>2. QED
  BY <1>1, NonePlaces

LEMMA PushPlaces ==
    ASSUME IInv, SerialSessions, Forward, NEW s \in Session,
           \/ \E mode : ReadUnsynced(s, mode)
           \/ ServerPush(s) \/ MarkSynced(s)
    PROVE  Forward' /\ NothingReached
<1> DEFINE d == Owner[s]
<1>1. PICK T : Goto(s, T) /\ T.pc \in {"idle", "readCursor", "push", "reply"}
  BY PushMoves
<1>2. d \in Device /\ \A e \in Device : db'[e].cursor = db[e].cursor
  BY PushMoves, OwnerFacts
<1>3. ForwardTo(T, db'[d]) /\ Stays(sess[s], T, db[d], db'[d])
  BY <1>1, <1>2 DEF ForwardTo, Stays
<1>4. QED
  BY <1>1, <1>2, <1>3, OnePlaces

LEMMA PullPlaces ==
    ASSUME IInv, SerialSessions, Forward, NEW s \in Session, ReadCursor(s) \/ ServerPull(s)
    PROVE  Forward' /\ NothingReached
<1> DEFINE d == Owner[s]
           S == sess[s]
<1>1. d \in Device /\ S \in SessionState /\ UNCHANGED <<db, handled>>
  BY OwnerFacts DEF ReadCursor, ServerPull
<1>2. db[d].cursor \in Nat
  BY <1>1, DeviceFacts DEF Db
<1>3. CASE ReadCursor(s)
  <2> DEFINE m == IF S.pc = "idle" THEN "pull" ELSE S.mode
             T == [Idle EXCEPT !.pc = "pull", !.mode = m, !.cursor = db[d].cursor]
  <2>1. Goto(s, T)
    BY <1>3 DEF ReadCursor
  <2>2. T.pc = "pull" /\ T.cursor = db[d].cursor
    BY DEF Idle
  <2> HIDE DEF T
  <2>3. ForwardTo(T, db'[d]) /\ Stays(S, T, db[d], db'[d])
    BY <1>1, <2>2 DEF ForwardTo, Stays
  <2>4. QED
    BY <1>1, <2>1, <2>3, OnePlaces
<1>4. CASE ServerPull(s)
  <2> DEFINE e == PageEnd(S.cursor)
             R == [S EXCEPT !.pc = "apply", !.last = e, !.more = Len(log) > e]
  <2>1. (Goto(s, Idle) \/ Goto(s, R)) /\ S.pc = "pull"
    BY <1>4 DEF ServerPull
  <2>2. R.pc = "apply" /\ R.cursor = S.cursor /\ Idle.pc = "idle"
    BY <1>1 DEF SessionState, Idle
  <2>3. S.cursor = db[d].cursor
    BY <2>1 DEF Forward, ForwardTo
  <2> HIDE DEF R
  <2>4. /\ ForwardTo(Idle, db'[d]) /\ Stays(S, Idle, db[d], db'[d])
        /\ ForwardTo(R, db'[d]) /\ Stays(S, R, db[d], db'[d])
    BY <1>1, <1>2, <2>2, <2>3 DEF ForwardTo, Stays
  <2>5. QED
    BY <1>1, <2>1, <2>4, OnePlaces
<1>5. QED
  BY <1>3, <1>4

LEMMA SavePlaces ==
    ASSUME IInv, SerialSessions, Forward, NEW s \in Session, SavePage(s) \/ SaveFailed(s)
    PROVE  Forward' /\ NothingReached
<1> DEFINE d == Owner[s]
           S == sess[s]
           E == SetCursor(db[d], S.cursor)
           R == [S EXCEPT !.pc = "pull"]
<1>1. d \in Device /\ S \in SessionState /\ db[d] \in Db /\ S.cursor \in Nat
  BY OwnerFacts, DeviceFacts DEF SessionState
<1>2. /\ S.pc \in {"apply", "failed"}
      /\ db' = [db EXCEPT ![d] = E]
      /\ Goto(s, R) \/ Goto(s, Idle)
  BY DEF SavePage, SaveFailed
<1>3. E.cursor = S.cursor
  BY <1>1, SetCursorType
<1> HIDE DEF E
<1>4. db'[d] = E /\ \A e \in Device : e # d => db'[e] = db[e]
  BY <1>1, <1>2 DEF IInv, Functional
<1>5. R.pc = "pull" /\ R.cursor = S.cursor /\ Idle.pc = "idle"
  BY <1>1 DEF SessionState, Idle
<1> HIDE DEF R
<1>6. /\ ForwardTo(R, db'[d]) /\ Stays(S, R, db[d], db'[d])
      /\ ForwardTo(Idle, db'[d]) /\ Stays(S, Idle, db[d], db'[d])
  BY <1>2, <1>3, <1>4, <1>5 DEF ForwardTo, Stays
<1>7. QED
  BY <1>2, <1>4, <1>6, OnePlaces

\* A device that is given entry k has reached what came before it, and then k.
LEMMA ApplyOpPlaces ==
    ASSUME IInv, SerialSessions, Forward, NEW s \in Session, ApplyOp(s)
    PROVE  /\ Forward'
           /\ \A e \in Device : \A k \in Nat : Reached(e, k)' =>
                 Reached(e, k) \/ (e = Owner[s] /\ k = sess[s].cursor + 1 /\ sess'[s].pc = "apply")
           /\ \A k \in Nat : Reached(Owner[s], k) <=> k <= sess[s].cursor
<1> DEFINE d == Owner[s]
           S == sess[s]
           k == S.cursor + 1
           R == IF OwnDeviceKnown /\ log[k][1] = d
                THEN [db |-> db[d], res |-> "own"]
                ELSE ApplyRemoteOp(db[d], Op(log[k]), log[k])
           F == [S EXCEPT !.pc = "failed"]
           G == [S EXCEPT !.cursor = k]
<1>1. d \in Device /\ S \in SessionState /\ S.cursor \in Nat /\ db[d] \in Db /\ db[d].cursor \in Nat
  BY OwnerFacts, DeviceFacts DEF SessionState, Db
<1>2. /\ S.pc = "apply"
      /\ db' = [db EXCEPT ![d] = R.db]
      /\ Goto(s, F) \/ Goto(s, G)
  BY DEF ApplyOp
<1>3. /\ F.pc = "failed" /\ F.cursor = S.cursor
      /\ G.pc = "apply" /\ G.cursor = k
  BY <1>1, <1>2 DEF SessionState
<1>4. R.db.cursor = db[d].cursor
  <2>1. k \in DOMAIN log
    <3>1. S.cursor < S.last /\ S.last \in Nat /\ S.last <= Len(log)
      BY <1>1, <1>2, OwnerFacts DEF ApplyOp, SessionFacts, SessionState
    <3>2. Len(log) \in Nat /\ DOMAIN log = 1 .. Len(log)
      BY LenProperties DEF IInv, LogFacts
    <3>3. QED
      BY <1>1, <3>1, <3>2
  <2>2. Op(log[k]) \in LoggedOp /\ log[k] \in Device \X Nat
    <3> HIDE DEF k
    <3>1. log[k] \in Device \X Nat
      BY <2>1, ElementOfSeq, LenProperties DEF IInv, LogFacts
    <3>2. QED
      BY <2>1, <3>1, EntryFacts DEF Op, OpIn
  <2> HIDE DEF k
  <2>3. ApplyRemoteOp(db[d], Op(log[k]), log[k]).db.cursor = db[d].cursor
    BY <1>1, <2>2, ApplyRemoteOpType
  <2>4. QED
    BY <2>3
<1> HIDE DEF R, F, G
<1>5. \A e \in Device : db'[e].cursor = db[e].cursor
  BY <1>1, <1>2, <1>4 DEF IInv, Functional
<1>6. db[d].cursor <= S.cursor
  BY <1>2 DEF Forward, ForwardTo
<1>7. ForwardTo(F, db'[d]) /\ ForwardTo(G, db'[d])
  BY <1>1, <1>3, <1>5, <1>6 DEF ForwardTo
<1>8. Forward'
  BY <1>1, <1>2, <1>5, <1>7, OnePlaces
<1>9. ASSUME NEW e \in Device, NEW j \in Nat, Reached(e, j)', ~Reached(e, j)
      PROVE  e = d /\ j = k /\ sess'[s].pc = "apply"
  <2>1. PICK r \in Session :
           Owner[r] = e /\ sess'[r].pc \in {"apply", "failed"} /\ j <= sess'[r].cursor
    BY <1>5, <1>9 DEF Reached
  <2>2. r = s
    BY <1>2, <1>9, <2>1 DEF Goto, Reached, IInv, Functional
  <2>3. sess'[s] = F \/ sess'[s] = G
    BY <1>2 DEF Goto, IInv, Functional
  <2>4. ~(j <= S.cursor)
    BY <1>2, <1>9, <2>1, <2>2 DEF Reached
  <2>5. QED
    BY <1>1, <1>3, <2>1, <2>2, <2>3, <2>4
<1>10. ASSUME NEW j \in Nat PROVE Reached(d, j) <=> j <= S.cursor
  <2>1. j <= S.cursor => Reached(d, j)
    BY <1>2 DEF Reached
  <2>2. \A r \in Session : Owner[r] = d => r = s
    BY DEF SerialSessions
  <2>3. j <= db[d].cursor => j <= S.cursor
    BY <1>1, <1>6
  <2>4. Reached(d, j) => j <= S.cursor
    BY <2>2, <2>3 DEF Reached
  <2>5. QED
    BY <2>1, <2>4
<1>11. QED
  BY <1>8, <1>9, <1>10

\* Only a device that is given an entry reaches one.
LEMMA NextPlaces ==
    ASSUME IInv, SerialSessions, Forward, [Next]_vars
    PROVE  /\ Forward'
           /\ (\A s \in Session : ~ApplyOp(s)) => NothingReached
<1>1. CASE UNCHANGED vars
  BY <1>1, NonePlaces DEF vars
<1>2. ASSUME NEW d \in Device, User(d) \/ Crash(d) PROVE Forward' /\ NothingReached
  BY <1>2, UserPlaces, DeathPlaces
<1>3. ASSUME NEW d \in Device, NEW o \in Object, NEW ts \in Stamp, TornWrite(d, o, ts)
      PROVE  Forward' /\ NothingReached
  BY <1>3, DeathPlaces
<1>4. ASSUME NEW s \in Session, Step(s), ~ApplyOp(s) PROVE Forward' /\ NothingReached
  BY <1>4, PushPlaces, PullPlaces, SavePlaces DEF Step
<1>5. ASSUME NEW s \in Session, ApplyOp(s) PROVE Forward'
  BY <1>5, ApplyOpPlaces
<1>6. ASSUME NEW s \in Session, Lose(s) PROVE Forward' /\ NothingReached
  BY <1>6, LosePlaces
<1>7. ASSUME NEW s \in Session, NEW mode \in Modes, ReadUnsynced(s, mode)
      PROVE  Forward' /\ NothingReached
  BY <1>7, PushPlaces
<1>8. QED
  BY <1>1, <1>2, <1>3, <1>4, <1>5, <1>6, <1>7 DEF Next

-----------------------------------------------------------------------------
(* What the steps that are not still do.                                   *)

\* The rows of bookmarks, but for that of o on d, and all books stay.
RowsElsewhere(d, o) ==
    /\ \A e \in Device : db'[e].books = db[e].books
    /\ \A e \in Device, p \in Minted : e # d \/ p # o => db'[e].rows[p] = db[e].rows[p]

LEMMA LoggingEffect ==
    ASSUME IInv, NEW d \in Device, NEW o \in Object, NEW ts \in Stamp,
           Put(d, o, ts) \/ Delete(d, o, ts)
    PROVE  /\ UNCHANGED <<log, handled, unlogged>> /\ OpsKept /\ RowsElsewhere(d, o)
           /\ \E type \in {"put", "delete"} :
                 /\ LogsAs(d, NextId(db[d]), o, type, ts)
                 /\ NextId(db[d]) \in Ids(db', d, o, type)
                 /\ type = "put" =>
                       /\ Put(d, o, ts)
                       /\ db'[d].rows[o] = [ts |-> ts, by |-> <<d, NextId(db[d])>>]
<1> DEFINE n == NextId(db[d])
           U == UpsertRow(db[d], o, ts, <<d, n>>)
           R == DeleteRow(db[d], o)
<1>1. UNCHANGED <<log, handled, unlogged>>
  BY DEF Put, Delete
<1>2. /\ ts \in Nat /\ <<d, n>> \in Device \X Nat
      /\ db[d] \in Db /\ db[d].rows \in [Object -> Row \cup {NoRow}]
  BY DeviceFacts, SyncAssumption DEF NextId, Db
<1>3. /\ U \in Db /\ U.oplog = db[d].oplog /\ R \in Db /\ R.oplog = db[d].oplog
      /\ U.books = db[d].books /\ R.books = db[d].books
      /\ U.rows[o] = [ts |-> ts, by |-> <<d, n>>]
      /\ \A p \in Object : p # o => U.rows[p] = db[d].rows[p] /\ R.rows[p] = db[d].rows[p]
  <2>1. U \in Db /\ U.oplog = db[d].oplog /\ R \in Db /\ R.oplog = db[d].oplog
    BY <1>2, UpsertRowType, DeleteRowType
  <2>2. /\ U.books = db[d].books /\ R.books = db[d].books
        /\ U.rows[o] = [ts |-> ts, by |-> <<d, n>>]
        /\ \A p \in Object : p # o => U.rows[p] = db[d].rows[p] /\ R.rows[p] = db[d].rows[p]
    BY <1>2 DEF UpsertRow, DeleteRow, Db
  <2>3. QED
    BY <2>1, <2>2
<1> HIDE DEF U, R
<1>4. PICK D \in {U, R}, type \in {"put", "delete"} :
         /\ db' = [db EXCEPT ![d] = WriteOpLog(D, type, o, ts)]
         /\ type = "put" => D = U /\ Put(d, o, ts)
  <2>1. CASE Put(d, o, ts)
    <3>1. db' = [db EXCEPT ![d] = WriteOpLog(U, "put", o, ts)]
      BY <2>1 DEF Put, U
    <3>2. QED
      BY <2>1, <3>1
  <2>2. CASE Delete(d, o, ts)
    <3>1. db' = [db EXCEPT ![d] = WriteOpLog(R, "delete", o, ts)]
      BY <2>2 DEF Delete, R
    <3>2. QED
      BY <3>1
  <2>3. QED
    BY <2>1, <2>2
<1>5. D \in Db /\ D.oplog = db[d].oplog /\ D.books = db[d].books
      /\ \A p \in Object : p # o => D.rows[p] = db[d].rows[p]
  BY <1>3, <1>4
<1>6. LogsAs(d, n, o, type, ts)
  BY <1>4, <1>5, LoggingLogs
<1> DEFINE E == WriteOpLog(D, type, o, ts)
<1>7. /\ E.rows = D.rows
      /\ DOMAIN db[d].oplog \subseteq DOMAIN E.oplog
      /\ \A i \in DOMAIN db[d].oplog : E.oplog[i] = db[d].oplog[i]
  BY <1>2, <1>4, <1>5, LoggedLast
<1>8. E.books = D.books
  BY <1>5 DEF WriteOpLog, Db
<1> HIDE DEF E
<1>9. db'[d] = E /\ \A e \in Device : e # d => db'[e] = db[e]
  BY <1>4 DEF IInv, Functional, E
<1>10. OpsKept
  BY <1>7, <1>9 DEF OpsKept
<1>11. RowsElsewhere(d, o)
  BY <1>5, <1>7, <1>8, <1>9 DEF RowsElsewhere, Minted
<1>12. n \in Ids(db', d, o, type)
  BY <1>6 DEF LogsAs
<1>13. type = "put" => Put(d, o, ts) /\ db'[d].rows[o] = [ts |-> ts, by |-> <<d, n>>]
  BY <1>3, <1>4, <1>7, <1>9
<1>14. QED
  BY <1>1, <1>6, <1>10, <1>11, <1>12, <1>13

LEMMA ApplyOpEffect ==
    ASSUME IInv, NEW s \in Session, ApplyOp(s)
    PROVE  LET d == Owner[s]
               k == sess[s].cursor + 1
               op == OpIn(db, log[k])
           IN /\ d \in Device /\ k \in DOMAIN log /\ k \in Nat
              /\ UNCHANGED <<log, unlogged>>
              /\ \A e \in Device : db'[e].oplog = db[e].oplog
              /\ RowsElsewhere(d, op.obj)
              /\ op.obj \in Minted =>
                    \/ OwnDeviceKnown /\ log[k][1] = d /\ db'[d].rows = db[d].rows
                    \/ CanHold(db[d], op.obj) => db'[d].rows[op.obj] = Left(db, log[k])
              /\ \A e \in Device : handled[e] \subseteq handled'[e]
              /\ \A e \in Device : handled'[e] \subseteq handled[e] \cup (IF e = d THEN {k} ELSE {})
<1> DEFINE d == Owner[s]
           k == sess[s].cursor + 1
           op == OpIn(db, log[k])
           A == ApplyRemoteOp(db[d], op, log[k])
           own == OwnDeviceKnown /\ log[k][1] = d
           R == IF own THEN [db |-> db[d], res |-> "own"] ELSE A
<1>1. d \in Device /\ db[d] \in Db /\ sess[s].cursor \in Nat /\ k \in Nat
  BY OwnerFacts, DeviceFacts DEF SessionState
<1>2. k \in DOMAIN log
  <2>1. sess[s].cursor < sess[s].last /\ sess[s].last \in Nat /\ sess[s].last <= Len(log)
    BY <1>1, OwnerFacts DEF ApplyOp, SessionFacts, SessionState
  <2>2. Len(log) \in Nat /\ DOMAIN log = 1 .. Len(log)
    BY LenProperties DEF IInv, LogFacts
  <2>3. QED
    BY <1>1, <2>1, <2>2
<1>3. /\ db' = [db EXCEPT ![d] = R.db]
      /\ UNCHANGED <<log, unlogged>>
      /\ handled' = handled \/ handled' = [handled EXCEPT ![d] = @ \cup {k}]
  BY DEF ApplyOp, OpIn, Op
<1> HIDE DEF k
<1>4. op \in LoggedOp /\ log[k] \in Device \X Nat
  BY <1>2, EntryFacts, ElementOfSeq, LenProperties DEF IInv, LogFacts
<1> HIDE DEF op
<1>5. A.db \in Db /\ A.db.oplog = db[d].oplog
  BY <1>1, <1>4, ApplyRemoteOpType
<1>6. A.db.books = db[d].books
  BY <1>1, <1>4 DEF ApplyRemoteOp, ApplyPut, ApplyDelete, UpsertRow, DeleteRow, Db
<1>7. \A p \in Minted :
         /\ op.obj # p => A.db.rows[p] = db[d].rows[p]
         /\ op.obj = p /\ op.type = "put" /\ CanHold(db[d], p) =>
               A.db.rows[p] = [ts |-> op.ts, by |-> log[k]]
         /\ op.obj = p /\ op.type = "delete" => A.db.rows[p] = NoRow
  BY <1>1, <1>4, ApplyShelf
<1>8. op.type \in {"put", "delete"}
  BY <1>4 DEF LoggedOp
<1> HIDE DEF A
<1>9. /\ R.db.oplog = db[d].oplog /\ R.db.books = db[d].books
      /\ \A p \in Minted : op.obj # p => R.db.rows[p] = db[d].rows[p]
      /\ own => R.db.rows = db[d].rows
      /\ ~own => R.db = A.db
  BY <1>5, <1>6, <1>7
<1> HIDE DEF R
<1>10. db'[d] = R.db /\ \A e \in Device : e # d => db'[e] = db[e]
  BY <1>1, <1>3 DEF IInv, Functional
<1>11. \A e \in Device : db'[e].oplog = db[e].oplog
  BY <1>9, <1>10
<1>12. RowsElsewhere(d, op.obj)
  BY <1>9, <1>10 DEF RowsElsewhere
<1>13. ASSUME op.obj \in Minted, ~own, CanHold(db[d], op.obj)
       PROVE  db'[d].rows[op.obj] = Left(db, log[k])
  BY <1>7, <1>8, <1>9, <1>10, <1>13 DEF Left, op
<1>14. \A e \in Device : /\ handled[e] \subseteq handled'[e]
                         /\ handled'[e] \subseteq handled[e] \cup (IF e = d THEN {k} ELSE {})
  BY <1>1, <1>3 DEF IInv, Functional
<1>15. own => db'[d].rows = db[d].rows
  BY <1>9, <1>10
<1> HIDE DEF d
<1>16. QED
  BY <1>1, <1>2, <1>3, <1>11, <1>12, <1>13, <1>14, <1>15 DEF op, k, d

LEMMA KeptNext ==
    ASSUME IInv, Kept, BooksEverywhere, [Next]_vars
    PROVE  Kept'
<1>1. CASE Still
  <2>1. BooksKept'
    BY <1>1 DEF Still, QuietShelf, Kept, BooksKept
  <2>2. HandledIsLogged'
    BY <1>1 DEF Still, Extends, Kept, HandledIsLogged
  <2>3. QED
    BY <2>1, <2>2 DEF Kept
<1>2. ASSUME NEW d \in Device, NEW o \in Object, NEW ts \in Stamp, Put(d, o, ts) \/ Delete(d, o, ts)
      PROVE  Kept'
  BY <1>2, LoggingEffect DEF Kept, BooksKept, HandledIsLogged, RowsElsewhere
<1>3. ASSUME NEW s \in Session, ApplyOp(s) PROVE Kept'
  BY <1>3, ApplyOpEffect DEF Kept, BooksKept, HandledIsLogged, RowsElsewhere
<1>4. QED
  BY <1>1, <1>2, <1>3, StepKinds DEF Kept

\* A device has reached what the server has.
LEMMA ReachedIsLogged ==
    ASSUME IInv, Kept, NEW d \in Device, NEW k \in Nat, Reached(d, k)
    PROVE  k <= Len(log)
<1>1. log \in Seq(Device \X Nat) /\ Len(log) \in Nat /\ DOMAIN log = 1 .. Len(log)
  BY LenProperties DEF IInv, LogFacts
<1>2. CASE k <= db[d].cursor
  <2>1. /\ db[d].cursor \in Nat /\ 1 .. db[d].cursor \subseteq handled[d]
        /\ handled[d] \subseteq DOMAIN log
    BY DeviceFacts DEF StoreFacts, Db, Kept, HandledIsLogged
  <2>2. QED
    BY <1>1, <1>2, <2>1
<1>3. ASSUME NEW s \in Session, sess[s].pc \in {"apply", "failed"}, k <= sess[s].cursor
      PROVE  k <= Len(log)
  <2>1. sess[s].cursor \in Nat /\ sess[s].last \in Nat
        /\ sess[s].cursor <= sess[s].last /\ sess[s].last <= Len(log)
    BY <1>3, OwnerFacts DEF SessionFacts, SessionState
  <2>2. QED
    BY <1>1, <1>3, <2>1
<1>4. QED
  BY <1>2, <1>3 DEF Reached

-----------------------------------------------------------------------------
(* The last entry settles the row.                                         *)

\* An entry of the log stays the operation it was.
LEMMA EntryKept ==
    ASSUME IInv, OpsKept, Extends(log, log'), NEW k \in DOMAIN log
    PROVE  /\ k \in DOMAIN log' /\ log'[k] = log[k]
           /\ OpIn(db', log'[k]).obj = OpIn(db, log[k]).obj
           /\ Left(db', log'[k]) = Left(db, log[k])
<1>1. k \in DOMAIN log' /\ log'[k] = log[k]
  BY DEF Extends
<1>2. log[k][1] \in Device /\ log[k][2] \in DOMAIN db[log[k][1]].oplog
  BY EntryFacts
<1>3. /\ OpIn(db', log[k]).obj = OpIn(db, log[k]).obj
      /\ OpIn(db', log[k]).ts = OpIn(db, log[k]).ts
      /\ OpIn(db', log[k]).type = OpIn(db, log[k]).type
  BY <1>2 DEF OpsKept, OpIn
<1>4. QED
  BY <1>1, <1>3 DEF Left

\* A row that stays is still the one that the last entry left, if the device
\* has not just reached that entry.
LEMMA RowKept ==
    ASSUME IInv, IInv', Kept, OpsKept, Extends(log, log'), NEW d \in Device, NEW o \in Minted,
           RowIsLast(d, o), db'[d].books = db[d].books, db'[d].rows[o] = db[d].rows[o],
           \A k \in DOMAIN log' : LastOn(o, k)' /\ Reached(d, k)' => Reached(d, k)
    PROVE  RowIsLast(d, o)'
<1> SUFFICES ASSUME CanHold(db'[d], o), AllSent(d, o)', NEW k \in DOMAIN log',
                    LastOn(o, k)', Reached(d, k)'
             PROVE  db'[d].rows[o] = Left(db', log'[k])
  BY DEF RowIsLast
<1>1. /\ DOMAIN log = 1 .. Len(log) /\ Len(log) \in Nat
      /\ DOMAIN log' = 1 .. Len(log') /\ Len(log') \in Nat
  BY LenProperties DEF IInv, LogFacts
<1>2. k \in DOMAIN log
  <2>1. Reached(d, k) /\ k \in Nat /\ 1 <= k
    BY <1>1
  <2>2. k <= Len(log)
    BY <2>1, ReachedIsLogged
  <2>3. QED
    BY <1>1, <2>1, <2>2
<1>3. ASSUME NEW j \in DOMAIN log', ~(k < j) PROVE j \in DOMAIN log
  BY <1>1, <1>2, <1>3
<1>4. AllSent(d, o)
  <2>1. ASSUME NEW i \in DOMAIN db[d].oplog, db[d].oplog[i].obj = o PROVE InLog(log, d, i)
    <3>1. i \in DOMAIN db'[d].oplog /\ db'[d].oplog[i].obj = o
      BY <2>1 DEF OpsKept
    <3>2. PICK j \in DOMAIN log' : log'[j] = <<d, i>>
      BY <3>1 DEF AllSent, InLog
    <3>3. OpIn(db', log'[j]).obj = o
      BY <3>1, <3>2 DEF OpIn
    <3>4. j \in DOMAIN log
      BY <1>3, <3>3 DEF LastOn
    <3>5. log[j] = <<d, i>>
      BY <3>2, <3>4 DEF Extends
    <3>6. QED
      BY <3>4, <3>5 DEF InLog
  <2>2. QED
    BY <2>1 DEF AllSent
<1>5. LastOn(o, k)
  <2>1. OpIn(db, log[k]).obj = o
    BY <1>2, EntryKept DEF LastOn
  <2>2. ASSUME NEW j \in DOMAIN log, k < j PROVE OpIn(db, log[j]).obj # o
    BY <2>2, EntryKept DEF LastOn
  <2>3. QED
    BY <1>2, <2>1, <2>2 DEF LastOn
<1>6. CanHold(db[d], o) /\ Reached(d, k)
  BY DEF CanHold
<1>7. db[d].rows[o] = Left(db, log[k])
  BY <1>2, <1>4, <1>5, <1>6 DEF RowIsLast
<1>8. QED
  BY <1>2, <1>7, EntryKept

LEMMA RowHasOpKept ==
    ASSUME OpsKept, NEW d \in Device, NEW o, RowHasOp(d, o),
           db'[d].rows[o] = db[d].rows[o]
    PROVE  RowHasOp(d, o)'
  BY DEF OpsKept, RowHasOp

LEMMA StillLasts ==
    ASSUME IInv, IInv', Kept, LastWrites, Still, NothingReached
    PROVE  LastWrites'
<1>1. OpsKept /\ Extends(log, log')
  BY DEF Still, QuietShelf, OpsKept
<1>2. ASSUME NEW d \in Device, NEW o \in Minted, o \notin unlogged'
      PROVE  RowIsLast(d, o)' /\ RowHasOp(d, o)'
  <2>1. db'[d].books = db[d].books /\ db'[d].rows[o] = db[d].rows[o]
    BY <1>2 DEF Still, QuietShelf
  <2>2. RowIsLast(d, o) /\ RowHasOp(d, o)
    BY <1>2 DEF LastWrites, Still
  <2>3. \A k : Reached(d, k)' => Reached(d, k)
    BY DEF NothingReached
  <2>4. QED
    BY <1>1, <2>1, <2>2, <2>3, RowKept, RowHasOpKept
<1>3. QED
  BY <1>2 DEF LastWrites

\* What a device has just logged is not in the log.
LEMMA LoggingLasts ==
    ASSUME IInv, IInv', Kept, LastWrites, NothingReached,
           NEW d \in Device, NEW o \in Object, NEW ts \in Stamp, Put(d, o, ts) \/ Delete(d, o, ts)
    PROVE  LastWrites'
<1> DEFINE n == NextId(db[d])
<1>1. UNCHANGED <<log, handled, unlogged>> /\ OpsKept /\ RowsElsewhere(d, o)
  BY LoggingEffect
<1>2. PICK type \in {"put", "delete"} :
         LogsAs(d, n, o, type, ts) /\ n \in Ids(db', d, o, type)
  BY LoggingEffect
<1>3. Extends(log, log')
  BY <1>1, ExtendsSelf DEF IInv, LogFacts
<1>4. n \in DOMAIN db'[d].oplog /\ db'[d].oplog[n].obj = o
  BY <1>2 DEF Ids
<1>5. ~AllSent(d, o)'
  BY <1>1, <1>2, <1>4 DEF AllSent, InLog, LogsAs
<1>6. ASSUME NEW e \in Device, NEW p \in Minted, p \notin unlogged'
      PROVE  RowIsLast(e, p)' /\ RowHasOp(e, p)'
  <2>1. RowIsLast(e, p) /\ RowHasOp(e, p)
    BY <1>1, <1>6 DEF LastWrites
  <2>2. CASE e = d /\ p = o
    BY <1>4, <1>5, <2>2 DEF RowIsLast, RowHasOp
  <2>3. CASE e # d \/ p # o
    <3>1. db'[e].books = db[e].books /\ db'[e].rows[p] = db[e].rows[p]
      BY <1>1, <2>3 DEF RowsElsewhere
    <3>2. \A k : Reached(e, k)' => Reached(e, k)
      BY DEF NothingReached
    <3>3. QED
      BY <1>1, <1>3, <2>1, <3>1, <3>2, RowKept, RowHasOpKept
  <2>4. QED
    BY <2>2, <2>3
<1>7. QED
  BY <1>6 DEF LastWrites

\* The entry that a device is given leaves its row; the entries after it are
\* not reached, those before it are not the last.
LEMMA ApplyOpLasts ==
    ASSUME IInv, IInv', Kept, LastWrites, ~OwnDeviceKnown, SerialSessions, Forward,
           NEW s \in Session, ApplyOp(s)
    PROVE  LastWrites'
<1> DEFINE d == Owner[s]
           k == sess[s].cursor + 1
           op == OpIn(db, log[k])
<1>1. /\ d \in Device /\ k \in DOMAIN log /\ k \in Nat
      /\ UNCHANGED <<log, unlogged>>
      /\ \A e \in Device : db'[e].oplog = db[e].oplog
      /\ RowsElsewhere(d, op.obj)
      /\ op.obj \in Minted /\ CanHold(db[d], op.obj) =>
            db'[d].rows[op.obj] = Left(db, log[k])
  BY ApplyOpEffect
<1>2. OpsKept /\ Extends(log, log')
  BY <1>1, ExtendsSelf DEF IInv, LogFacts, OpsKept
<1>3. \A e \in Device : \A j \in Nat : Reached(e, j)' => Reached(e, j) \/ (e = d /\ j = k)
  BY ApplyOpPlaces
<1>4. \A j \in Nat : Reached(d, j) <=> j < k
  <2>1. sess[s].cursor \in Nat /\ \A j \in Nat : Reached(d, j) <=> j <= sess[s].cursor
    BY ApplyOpPlaces, OwnerFacts DEF SessionState
  <2>2. QED
    BY <2>1
<1>5. DOMAIN log \subseteq Nat
  BY LenProperties DEF IInv, LogFacts
<1>6. Left(db', log'[k]) = Left(db, log[k]) /\ OpIn(db', log'[k]).obj = op.obj
  BY <1>1, <1>2, EntryKept
<1> HIDE DEF k, op, d
<1>7. ASSUME NEW e \in Device, NEW p, p = op.obj PROVE RowHasOp(e, p)'
  <2>1. log[k][1] \in Device /\ log[k][2] \in DOMAIN db[log[k][1]].oplog
    BY <1>1, EntryFacts
  <2>2. db'[log[k][1]].oplog[log[k][2]].obj = op.obj
    BY <1>1, <2>1 DEF OpIn, op
  <2>3. QED
    BY <1>1, <1>7, <2>1, <2>2 DEF RowHasOp
<1>8. ASSUME NEW e \in Device, NEW p \in Minted, p \notin unlogged'
      PROVE  RowIsLast(e, p)' /\ RowHasOp(e, p)'
  <2>1. RowIsLast(e, p) /\ RowHasOp(e, p)
    BY <1>1, <1>8 DEF LastWrites
  <2>2. CASE e # d \/ p # op.obj
    <3>1. db'[e].books = db[e].books /\ db'[e].rows[p] = db[e].rows[p]
      BY <1>1, <2>2 DEF RowsElsewhere
    <3>2. \A j \in DOMAIN log' : LastOn(p, j)' /\ Reached(e, j)' => Reached(e, j)
      BY <1>1, <1>3, <1>5, <1>6, <2>2 DEF LastOn
    <3>3. QED
      BY <1>2, <2>1, <3>1, <3>2, RowKept, RowHasOpKept
  <2>3. CASE e = d /\ p = op.obj /\ ~CanHold(db[d], p)
    <3>1. ~CanHold(db'[d], p)
      BY <1>1, <2>3 DEF RowsElsewhere, CanHold
    <3>2. QED
      BY <1>7, <2>3, <3>1 DEF RowIsLast
  <2>4. CASE e = d /\ p = op.obj /\ CanHold(db[d], p)
    <3>1. db'[d].rows[p] = Left(db', log'[k])
      BY <1>1, <1>6, <2>4
    <3>2. ASSUME NEW j \in DOMAIN log', LastOn(p, j)', Reached(d, j)' PROVE j = k
      <4>1. j \in DOMAIN log /\ j \in Nat /\ k \in Nat
        BY <1>1, <1>5
      <4>2. ~(j < k)
        BY <1>1, <1>6, <2>4, <3>2 DEF LastOn
      <4>3. ~(k < j)
        <5>1. k < j => Reached(d, j) \/ j = k
          BY <1>3, <2>4, <3>2, <4>1
        <5>2. Reached(d, j) <=> j < k
          BY <1>4, <4>1
        <5>3. QED
          BY <4>1, <5>1, <5>2
      <4>4. QED
        BY <4>1, <4>2, <4>3
    <3>3. QED
      BY <1>7, <2>4, <3>1, <3>2 DEF RowIsLast
  <2>5. QED
    BY <2>2, <2>3, <2>4
<1>9. QED
  BY <1>8 DEF LastWrites

-----------------------------------------------------------------------------
(* The theorem.                                                            *)

\* A set of numbers up to n has a greatest one.  (The sets of those above each
\* of them are finite, and proper inclusion between finite sets is well founded.)
LEMMA GreatestOf ==
    ASSUME NEW n \in Nat, NEW E, E \subseteq 1 .. n, E # {}
    PROVE  \E x \in E : \A y \in E : y <= x
<1> DEFINE Above(x) == {y \in E : x < y}
           R == StrictSubsetOrdering(E)
           T == {Above(x) : x \in E}
<1>1. IsFiniteSet(E)
  <2>1. IsFiniteSet(1 .. n)
    BY FS_Interval
  <2>2. QED
    BY <2>1, FS_Subset
<1>2. IsWellFoundedOn(R, SUBSET E)
  BY <1>1, FS_StrictSubsetOrderingWellFounded, FS_FiniteSubsetsOfFinite
<1>3. T \subseteq SUBSET E /\ T # {}
  OBVIOUS
<1>4. \E m \in T : \A t \in T : <<t, m>> \notin R
  <2> HIDE DEF T, R
  <2>1. QED
    BY <1>2, <1>3, WFMin, Zenon
<1>5. PICK x \in E : \A y \in E : <<Above(y), Above(x)>> \notin R
  BY <1>4
<1>6. ASSUME NEW y \in E, x < y PROVE FALSE
  <2>1. Above(y) \subseteq Above(x) /\ y \in Above(x) /\ y \notin Above(y)
    <3>1. \A z \in E : (y < z => x < z) /\ ~(y < y)
      <4>1. x \in Int /\ y \in Int /\ \A z \in E : z \in Int
        OBVIOUS
      <4>2. QED
        BY <1>6, <4>1
    <3>2. QED
      BY <1>6, <3>1
  <2>2. Above(x) \in SUBSET E /\ Above(y) \in SUBSET E
    OBVIOUS
  <2> HIDE DEF Above
  <2>3. <<Above(y), Above(x)>> \in R
    BY <2>1, <2>2 DEF StrictSubsetOrdering
  <2>4. QED
    BY <1>5, <2>3
<1>7. QED
  BY <1>6

\* When all is exchanged, a device has reached the whole log, and all it logged is there.
LEMMA QuiescentPlaces ==
    ASSUME IInv, Quiescent, NEW d \in Device
    PROVE  /\ \A k \in DOMAIN log : Reached(d, k)
           /\ \A i \in DOMAIN db[d].oplog : InLog(log, d, i)
<1>1. ASSUME NEW k \in DOMAIN log PROVE Reached(d, k)
  <2>1. DOMAIN log = 1 .. Len(log) /\ Len(log) \in Nat /\ db[d].cursor = Len(log)
    BY LenProperties DEF IInv, LogFacts, Quiescent
  <2>2. k <= db[d].cursor
    BY <2>1
  <2>3. QED
    BY <2>2 DEF Reached
<1>2. ASSUME NEW i \in DOMAIN db[d].oplog PROVE InLog(log, d, i)
  <2>1. db[d].oplog[i] \in LoggedOp
    BY DeviceFacts, ElementOfSeq
  <2>2. i \notin UnsyncedIds(db[d])
    BY DEF Quiescent
  <2>3. db[d].oplog[i].synced
    BY <2>1, <2>2 DEF UnsyncedIds, LoggedOp
  <2>4. QED
    BY <2>3, DeviceFacts DEF StoreFacts
<1>3. QED
  BY <1>1, <1>2

LEMMA LastAgree ==
    ASSUME IInv, LastWrites, Quiescent, NEW o \in Minted, o \notin unlogged
    PROVE  Agree(o)
<1> DEFINE About == {k \in DOMAIN log : OpIn(db, log[k]).obj = o}
<1>1. \A d \in Device : RowIsLast(d, o) /\ RowHasOp(d, o) /\ AllSent(d, o)
  BY QuiescentPlaces DEF LastWrites, AllSent
<1>2. CASE About = {}
  <2>1. ASSUME NEW e \in Device, NEW i \in DOMAIN db[e].oplog, db[e].oplog[i].obj = o
        PROVE  FALSE
    <3>1. PICK k \in DOMAIN log : log[k] = <<e, i>>
      BY QuiescentPlaces DEF InLog
    <3>2. k \in About
      BY <2>1, <3>1 DEF OpIn
    <3>3. QED
      BY <1>2, <3>2
  <2>2. \A d \in Device : db[d].rows[o] = NoRow
    BY <1>1, <2>1 DEF RowHasOp
  <2>3. QED
    BY <2>2 DEF Agree
<1>3. CASE About # {}
  <2>1. DOMAIN log = 1 .. Len(log) /\ Len(log) \in Nat
    BY LenProperties DEF IInv, LogFacts
  <2>2. About \subseteq 1 .. Len(log)
    BY <2>1
  <2> HIDE DEF About
  <2>3. PICK k \in About : \A j \in About : j <= k
    BY <1>3, <2>1, <2>2, GreatestOf
  <2>4. LastOn(o, k)
    <3>1. k \in DOMAIN log /\ OpIn(db, log[k]).obj = o
      BY <2>3 DEF About
    <3>2. ASSUME NEW j \in DOMAIN log, k < j PROVE OpIn(db, log[j]).obj # o
      BY <2>1, <2>3, <3>1, <3>2 DEF About
    <3>3. QED
      BY <3>1, <3>2 DEF LastOn
  <2>5. \A d \in Device : CanHold(db[d], o) => db[d].rows[o] = Left(db, log[k])
    BY <1>1, <2>4, QuiescentPlaces DEF RowIsLast, LastOn
  <2>6. QED
    BY <2>5 DEF Agree
<1>4. QED
  BY <1>2, <1>3

LEMMA InitLasts == Init => Kept /\ Forward /\ LastWrites
<1> SUFFICES ASSUME Init PROVE Kept /\ Forward /\ LastWrites
  OBVIOUS
<1>1. /\ \A d \in Device : db[d] = EmptyDb(InitialBooks[d]) /\ handled[d] = {}
      /\ \A s \in Session : sess[s] = Idle
      /\ log = << >>
  BY DEF Init
<1>2. \A d \in Device : db[d].books = InitialBooks[d] /\ \A o \in Object : db[d].rows[o] = NoRow
  <2>1. ASSUME NEW d \in Device
        PROVE  db[d].books = InitialBooks[d] /\ \A o \in Object : db[d].rows[o] = NoRow
    <3>1. db[d] = EmptyDb(InitialBooks[d])
      BY <1>1
    <3>2. QED
      BY <3>1 DEF EmptyDb
  <2>2. QED
    BY <2>1
<1>3. Forward
  BY <1>1 DEF Forward, ForwardTo, Idle
<1>4. Kept
  BY <1>1, <1>2 DEF Kept, BooksKept, HandledIsLogged
<1>5. LastWrites
  BY <1>1, <1>2 DEF LastWrites, RowIsLast, RowHasOp, Minted
<1>6. QED
  BY <1>3, <1>4, <1>5

LEMMA NextLasts ==
    ASSUME ~OwnDeviceKnown, SerialSessions, BooksEverywhere,
           IInv, IInv', Kept, Forward, LastWrites, [Next]_vars
    PROVE  LastWrites'
<1>1. CASE \E s \in Session : ApplyOp(s)
  BY <1>1, ApplyOpLasts
<1>2. CASE \A s \in Session : ~ApplyOp(s)
  <2>1. NothingReached
    BY <1>2, NextPlaces
  <2>2. QED
    BY <1>2, <2>1, StepKinds, StillLasts, LoggingLasts DEF Kept
<1>3. QED
  BY <1>1, <1>2

\* Bookmarks and annotations converge as the program is wired, whatever is lost
\* and whatever dies: a device that applies its own operations again, a push that is
\* repeated under new op_ids, a page that is pulled twice and a deletion that the log
\* has before the put of what it deletes may bring a bookmark back, but then they
\* bring it back everywhere.  Clocks and op_ids do not matter; that the sessions of a
\* device do not overlap, and that no device misses a book, does.
THEOREM WiredShelvesConverge ==
    ASSUME ~OwnDeviceKnown, SerialSessions, BooksEverywhere
    PROVE  Spec => []BookmarksConverge
<1> DEFINE Inv == Kept /\ Forward /\ LastWrites
<1>1. Init => Inv
  BY InitLasts
<1>2. IInv /\ IInv' /\ Inv /\ [Next]_vars => Inv'
  BY KeptNext, NextPlaces, NextLasts
<1>3. IInv /\ Inv => BookmarksConverge
  BY LastAgree DEF BookmarksConverge, Minted
<1>4. Spec => []IInv
  BY Invariance
<1> HIDE DEF Inv
<1>5. QED
  BY <1>1, <1>2, <1>3, <1>4, PTL DEF Spec

-----------------------------------------------------------------------------
(***************************************************************************)
(* What remains true when sessions overlap, whoever knows what and         *)
(* whatever dies: nothing that nobody deleted is missing anywhere.         *)
(***************************************************************************)

Undeleted(o) == \A e \in Device : Ids(db, e, o, "delete") = {}

\* The row of o on d is the one that operation i of e puts.
HoldsPut(d, o, e, i) ==
    db[d].rows[o] = [ts |-> db[e].oplog[i].ts, by |-> <<e, i>>]

\* A bookmark or annotation that was added on some device, and that no device
\* ever deleted, is on every device that has its book, when all is exchanged.
UndeletedEverywhere ==
    Quiescent => \A o \in Minted : o \notin unlogged /\ Undeleted(o) =>
        \A e \in Device : \A i \in Ids(db, e, o, "put") : \A d \in Device :
            CanHold(db[d], o) => HoldsPut(d, o, e, i)

\* The inductive invariant: a device holds what it put or was given.
Holds(d, o) ==
    Undeleted(o) /\ CanHold(db[d], o) =>
        \A e \in Device : \A i \in Ids(db, e, o, "put") :
            Seen(handled, log, d, e, i) => HoldsPut(d, o, e, i)

Held == OnePut(db) /\ \A d \in Device, o \in Minted : o \notin unlogged => Holds(d, o)

-----------------------------------------------------------------------------

\* A device holds o after the step if the row stays and d sees no more puts of o.
LEMMA HoldsKept ==
    ASSUME NEW d \in Device, NEW o, Holds(d, o), OpsKept,
           db'[d].books = db[d].books, db'[d].rows[o] = db[d].rows[o],
           \A e \in Device : \A i \in Ids(db', e, o, "put") :
               Seen(handled', log', d, e, i) =>
                   i \in Ids(db, e, o, "put") /\ Seen(handled, log, d, e, i)
    PROVE  Holds(d, o)'
<1>1. ASSUME NEW e \in Device, NEW type PROVE Ids(db, e, o, type) \subseteq Ids(db', e, o, type)
  BY DEF OpsKept, Ids
<1>2. Undeleted(o)' => Undeleted(o)
  BY <1>1 DEF Undeleted
<1>3. CanHold(db'[d], o) <=> CanHold(db[d], o)
  BY DEF CanHold
<1>4. ASSUME NEW e \in Device, NEW i \in Ids(db, e, o, "put"), HoldsPut(d, o, e, i)
      PROVE  HoldsPut(d, o, e, i)'
  <2>1. i \in DOMAIN db[e].oplog
    BY DEF Ids
  <2>2. QED
    BY <1>4, <2>1 DEF OpsKept, HoldsPut
<1>5. QED
  BY <1>2, <1>3, <1>4 DEF Holds

LEMMA StillHeld ==
    ASSUME IInv, Kept, Held, Still
    PROVE  Held'
<1>1. OpsKept
  BY DEF Still, QuietShelf, OpsKept
<1>2. \A e \in Device : \A o, type : Ids(db', e, o, type) = Ids(db, e, o, type)
  BY DEF Still, QuietShelf, Ids
<1>3. OnePut(db')
  <2>1. \A e \in Device, o \in Minted : Ids(db', e, o, "put") = Ids(db, e, o, "put")
    BY <1>2
  <2>2. QED
    BY <2>1, OnePutSame DEF Held
<1>4. \A d \in Device : \A e, i : Seen(handled', log', d, e, i) => Seen(handled, log, d, e, i)
  BY DEF Still, Extends, Kept, HandledIsLogged, Seen
<1>5. ASSUME NEW d \in Device, NEW o \in Minted, o \notin unlogged' PROVE Holds(d, o)'
  <2>1. Holds(d, o)
    BY <1>5 DEF Held, Still
  <2>2. db'[d].books = db[d].books /\ db'[d].rows[o] = db[d].rows[o]
    BY <1>5 DEF Still, QuietShelf
  <2>3. QED
    BY <1>1, <1>2, <1>4, <2>1, <2>2, HoldsKept
<1>6. QED
  BY <1>3, <1>5 DEF Held

\* An id is put once, and then it is nobody else's; a deletion ends the promise.
LEMMA LoggingHeld ==
    ASSUME IInv, Kept, Held, NEW d \in Device, NEW o \in Object, NEW ts \in Stamp,
           Put(d, o, ts) \/ Delete(d, o, ts)
    PROVE  Held'
<1>1. PICK n : n = NextId(db[d])
  OBVIOUS
<1>2. UNCHANGED <<log, handled, unlogged>> /\ OpsKept /\ RowsElsewhere(d, o)
  BY LoggingEffect
<1>3. PICK type \in {"put", "delete"} :
         /\ LogsAs(d, n, o, type, ts)
         /\ type = "put" => Put(d, o, ts) /\ db'[d].rows[o] = [ts |-> ts, by |-> <<d, n>>]
  BY <1>1, LoggingEffect
<1>4. ASSUME o \in Minted, type = "put", NEW e \in Device PROVE \A t : Ids(db, e, o, t) = {}
  <2>1. IdOK(o)
    BY <1>3, <1>4 DEF Put
  <2>2. \A i \in DOMAIN db[e].oplog : db[e].oplog[i].obj # o
    BY <1>4, <2>1 DEF IdOK, Minted
  <2>3. QED
    BY <2>2 DEF Ids
<1>5. \A e \in Device : \A p, t :
         Ids(db', e, p, t) = IF e = d /\ p = o /\ t = type
                             THEN Ids(db, e, p, t) \cup {n} ELSE Ids(db, e, p, t)
  BY <1>3 DEF LogsAs
<1>6. OnePut(db')
  <2>1. ASSUME NEW p \in Minted, NEW e \in Device, NEW f \in Device,
               NEW i \in Ids(db', e, p, "put"), NEW j \in Ids(db', f, p, "put")
        PROVE  e = f /\ i = j
    <3>1. CASE p = o /\ type = "put"
      <4>1. /\ Ids(db', e, o, "put") = IF e = d THEN {n} ELSE {}
            /\ Ids(db', f, o, "put") = IF f = d THEN {n} ELSE {}
        BY <1>4, <1>5, <3>1
      <4>2. QED
        BY <2>1, <3>1, <4>1
    <3>2. CASE p # o \/ type # "put"
      <4>1. i \in Ids(db, e, p, "put") /\ j \in Ids(db, f, p, "put")
        BY <1>5, <2>1, <3>2
      <4>2. QED
        BY <4>1 DEF Held, OnePut
    <3>3. QED
      BY <3>1, <3>2
  <2>2. QED
    BY <2>1 DEF OnePut
<1>7. \A e \in Device : \A f, i : Seen(handled', log', e, f, i) => Seen(handled, log, e, f, i)
  BY <1>2 DEF Seen
<1>8. ASSUME NEW e \in Device, NEW p \in Minted, p \notin unlogged' PROVE Holds(e, p)'
  <2>1. Holds(e, p)
    BY <1>2, <1>8 DEF Held
  <2>2. CASE p # o
    <3>1. db'[e].books = db[e].books /\ db'[e].rows[p] = db[e].rows[p]
      BY <1>2, <2>2 DEF RowsElsewhere
    <3>2. \A f \in Device : Ids(db', f, p, "put") = Ids(db, f, p, "put")
      BY <1>5, <2>2
    <3>3. QED
      BY <1>2, <1>7, <2>1, <3>1, <3>2, HoldsKept
  <2>3. CASE p = o /\ type = "delete"
    <3>1. n \in Ids(db', d, o, "delete")
      BY <1>5, <2>3
    <3>2. ~Undeleted(o)'
      BY <3>1 DEF Undeleted
    <3>3. QED
      BY <2>3, <3>2 DEF Holds
  <2>4. CASE p = o /\ type = "put"
    <3>1. \A f \in Device : Ids(db', f, o, "put") = IF f = d THEN {n} ELSE {}
      BY <1>4, <1>5, <2>4
    <3>2. HoldsPut(d, o, d, n)'
      <4>1. db'[d].oplog[n].ts = ts
        BY <1>3 DEF LogsAs
      <4>2. QED
        BY <1>3, <2>4, <4>1 DEF HoldsPut
    <3>3. e # d => ~Seen(handled', log', e, d, n)
      BY <1>2, <1>3 DEF Seen, LogsAs, Kept, HandledIsLogged
    <3>4. QED
      BY <2>4, <3>1, <3>2, <3>3 DEF Holds
  <2>5. QED
    BY <2>2, <2>3, <2>4
<1>9. QED
  BY <1>6, <1>8 DEF Held

\* What a device is given of o is the one put of o; its own it has already.
LEMMA ApplyOpHeld ==
    ASSUME IInv, Kept, Held, NEW s \in Session, ApplyOp(s)
    PROVE  Held'
<1> DEFINE d == Owner[s]
           k == sess[s].cursor + 1
           op == OpIn(db, log[k])
<1>1. /\ d \in Device /\ k \in DOMAIN log
      /\ UNCHANGED <<log, unlogged>>
      /\ \A e \in Device : db'[e].oplog = db[e].oplog
      /\ RowsElsewhere(d, op.obj)
      /\ op.obj \in Minted =>
            \/ log[k][1] = d /\ db'[d].rows = db[d].rows
            \/ CanHold(db[d], op.obj) => db'[d].rows[op.obj] = Left(db, log[k])
      /\ \A e \in Device : handled'[e] \subseteq handled[e] \cup (IF e = d THEN {k} ELSE {})
  BY ApplyOpEffect
<1>2. /\ log[k][1] \in Device /\ log[k] = <<log[k][1], log[k][2]>>
      /\ log[k][2] \in Ids(db, log[k][1], op.obj, op.type)
      /\ op.type \in {"put", "delete"}
  BY <1>1, EntryFacts DEF Ids, OpIn, LoggedOp
<1> HIDE DEF k, op, d
<1>3. OpsKept /\ \A e \in Device : \A o, type : Ids(db', e, o, type) = Ids(db, e, o, type)
  BY <1>1 DEF OpsKept, Ids
<1>4. OnePut(db')
  <2>1. \A e \in Device, o \in Minted : Ids(db', e, o, "put") = Ids(db, e, o, "put")
    BY <1>3
  <2>2. QED
    BY <2>1, OnePutSame DEF Held
<1>5. ASSUME NEW e \in Device, NEW f, NEW i,
             Seen(handled', log', e, f, i), ~Seen(handled, log, e, f, i)
      PROVE  e = d /\ f = log[k][1] /\ i = log[k][2]
  <2>1. PICK j \in handled'[e] : log[j] = <<f, i>>
    BY <1>1, <1>5 DEF Seen
  <2>2. j = k /\ e = d
    BY <1>1, <1>5, <2>1 DEF Seen
  <2>3. QED
    BY <2>1, <2>2
<1>6. ASSUME NEW e \in Device, NEW o \in Minted, o \notin unlogged' PROVE Holds(e, o)'
  <2>1. Holds(e, o) /\ db'[e].books = db[e].books
    BY <1>1, <1>6 DEF Held, RowsElsewhere
  <2>2. CASE e # d \/ o # op.obj
    <3>1. db'[e].rows[o] = db[e].rows[o]
      BY <1>1, <2>2 DEF RowsElsewhere
    <3>2. ASSUME e = d PROVE log[k][2] \notin Ids(db, log[k][1], o, "put")
      BY <1>2, <2>2, <3>2 DEF Ids
    <3>3. \A f \in Device : \A i \in Ids(db', f, o, "put") :
             Seen(handled', log', e, f, i) => Seen(handled, log, e, f, i)
      BY <1>3, <1>5, <3>2
    <3>4. QED
      BY <1>3, <2>1, <3>1, <3>3, HoldsKept
  <2>3. CASE o = op.obj /\ op.type = "delete"
    <3>1. ~Undeleted(o)'
      BY <1>2, <1>3, <2>3 DEF Undeleted
    <3>2. QED
      BY <3>1 DEF Holds
  <2>4. CASE e = d /\ o = op.obj /\ log[k][1] = d /\ db'[d].rows = db[d].rows
    <3>1. \A f, i : Seen(handled', log', e, f, i) => Seen(handled, log, e, f, i)
      BY <1>5, <2>4 DEF Seen
    <3>2. QED
      BY <1>3, <2>1, <2>4, <3>1, HoldsKept
  <2>5. CASE /\ e = d /\ o = op.obj /\ op.type = "put"
             /\ CanHold(db[d], o) => db'[d].rows[o] = Left(db, log[k])
    <3>1. SUFFICES ASSUME CanHold(db'[d], o), NEW f \in Device, NEW i \in Ids(db', f, o, "put")
                   PROVE  HoldsPut(d, o, f, i)'
      BY <2>5 DEF Holds
    <3>2. f = log[k][1] /\ i = log[k][2]
      BY <1>2, <1>3, <2>5, <3>1 DEF Held, OnePut
    <3>3. CanHold(db[d], o)
      BY <2>1, <2>5, <3>1 DEF CanHold
    <3>4. Left(db, log[k]) = [ts |-> db[f].oplog[i].ts, by |-> <<f, i>>]
      BY <1>2, <2>5, <3>2 DEF Left, op, OpIn
    <3>5. db'[f].oplog = db[f].oplog
      BY <1>1
    <3>6. QED
      BY <2>5, <3>3, <3>4, <3>5 DEF HoldsPut
  <2>6. QED
    BY <1>1, <1>2, <2>2, <2>3, <2>4, <2>5
<1>7. QED
  BY <1>4, <1>6 DEF Held

LEMMA InitHeld == Init => Held
<1> SUFFICES ASSUME Init PROVE Held
  OBVIOUS
<1>1. ASSUME NEW d \in Device PROVE \A o, type : Ids(db, d, o, type) = {}
  <2>1. db[d] = EmptyDb(InitialBooks[d])
    BY DEF Init
  <2>2. DOMAIN db[d].oplog = {}
    BY <2>1 DEF EmptyDb
  <2>3. QED
    BY <2>2 DEF Ids
<1>2. QED
  BY <1>1 DEF Held, OnePut, Holds

LEMMA HeldEverywhere == IInv /\ Held => UndeletedEverywhere
<1> SUFFICES ASSUME IInv, Held, Quiescent, NEW o \in Minted, o \notin unlogged, Undeleted(o),
                    NEW e \in Device, NEW i \in Ids(db, e, o, "put"), NEW d \in Device,
                    CanHold(db[d], o)
             PROVE  HoldsPut(d, o, e, i)
  BY DEF UndeletedEverywhere
<1>1. i \in DOMAIN db[e].oplog
  BY DEF Ids
<1>2. PICK k \in DOMAIN log : log[k] = <<e, i>>
  BY <1>1, QuiescentPlaces DEF InLog
<1>3. k \in handled[d]
  <2>1. DOMAIN log = 1 .. Len(log) /\ db[d].cursor = Len(log)
    BY LenProperties DEF IInv, LogFacts, Quiescent
  <2>2. 1 .. db[d].cursor \subseteq handled[d]
    BY DeviceFacts DEF StoreFacts
  <2>3. QED
    BY <2>1, <2>2
<1>4. Seen(handled, log, d, e, i)
  BY <1>2, <1>3 DEF Seen
<1>5. QED
  BY <1>4 DEF Held, Holds

\* Nothing that nobody deleted is lost: when all is exchanged, a bookmark or
\* annotation that was added and never deleted is on every device that has its book.
\* This holds for any number of overlapping sessions, for lost requests and replies
\* and processes that die, for any clocks, whether op_ids are stable or not, and
\* whether a device is given its own operations or not.  That a registered book is
\* known everywhere is needed: a bookmark that comes before its book is dropped.
THEOREM UndeletedIsEverywhere == ASSUME BooksEverywhere PROVE Spec => []UndeletedEverywhere
<1>1. Init => Kept /\ Held
  BY InitLasts, InitHeld
<1>2. IInv /\ Kept /\ Held /\ [Next]_vars => Kept' /\ Held'
  BY KeptNext, StepKinds, StillHeld, LoggingHeld, ApplyOpHeld DEF Kept
<1>3. IInv /\ Held => UndeletedEverywhere
  BY HeldEverywhere
<1>4. Spec => []IInv
  BY Invariance
<1>5. QED
  BY <1>1, <1>2, <1>3, <1>4, PTL DEF Spec
=============================================================================
