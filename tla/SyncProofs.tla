----------------------------- MODULE SyncProofs -----------------------------
(***************************************************************************)
(* Theorems about SyncEngine, for any devices, objects, clocks, faults and *)
(* bounds.                                                                 *)
(***************************************************************************)
EXTENDS SyncEngine, TLAPS, FiniteSetTheorems, SequenceTheorems

-----------------------------------------------------------------------------
(* The store.                                                              *)

\* A write to a row keeps a database a database and touches nothing else.
LEMMA UpsertRowType ==
    ASSUME NEW D \in Db, NEW o \in Object, NEW ts \in Nat, NEW by \in Device \X Nat
    PROVE  /\ UpsertRow(D, o, ts, by) \in Db
           /\ UpsertRow(D, o, ts, by).oplog = D.oplog
           /\ UpsertRow(D, o, ts, by).cursor = D.cursor
  BY DEF UpsertRow, Db, Row

LEMMA DeleteRowType ==
    ASSUME NEW D \in Db, NEW o \in Object
    PROVE  /\ DeleteRow(D, o) \in Db
           /\ DeleteRow(D, o).oplog = D.oplog
           /\ DeleteRow(D, o).cursor = D.cursor
  BY DEF DeleteRow, Db

LEMMA UpsertBookType ==
    ASSUME NEW D \in Db, NEW b \in Book
    PROVE  /\ UpsertBook(D, b) \in Db
           /\ UpsertBook(D, b).oplog = D.oplog
           /\ UpsertBook(D, b).cursor = D.cursor
  BY DEF UpsertBook, Db

\* Logging an operation adds one unsynced row at the end of the op_log.
LEMMA WriteOpLogType ==
    ASSUME NEW D \in Db, NEW o \in Object, NEW ts \in Nat,
           NEW type \in {"put", "delete"}
    PROVE  LET E == WriteOpLog(D, type, o, ts) IN
           /\ E \in Db
           /\ E.cursor = D.cursor
           /\ Len(E.oplog) = Len(D.oplog) + 1
           /\ \A i \in DOMAIN D.oplog : i \in DOMAIN E.oplog /\ E.oplog[i] = D.oplog[i]
           /\ ~E.oplog[Len(D.oplog) + 1].synced
<1> DEFINE new == [type |-> type, obj |-> o, ts |-> ts, synced |-> FALSE]
           E == WriteOpLog(D, type, o, ts)
<1>1. new \in LoggedOp
  BY DEF LoggedOp
<1>2. D.oplog \in Seq(LoggedOp)
  BY DEF Db
<1>3. /\ Append(D.oplog, new) \in Seq(LoggedOp)
      /\ Len(Append(D.oplog, new)) = Len(D.oplog) + 1
      /\ \A i \in 1 .. Len(D.oplog) : Append(D.oplog, new)[i] = D.oplog[i]
      /\ Append(D.oplog, new)[Len(D.oplog) + 1] = new
  BY <1>1, <1>2, AppendProperties
<1>4. E = [D EXCEPT !.oplog = Append(D.oplog, new)]
  BY DEF WriteOpLog
<1>5. E \in Db /\ E.cursor = D.cursor /\ E.oplog = Append(D.oplog, new)
  BY <1>3, <1>4 DEF Db
<1>6. DOMAIN D.oplog = 1 .. Len(D.oplog) /\ DOMAIN E.oplog = 1 .. Len(D.oplog) + 1
  BY <1>2, <1>3, <1>5, LenProperties
<1>7. QED
  BY <1>2, <1>3, <1>5, <1>6, LenProperties

\* Marking changes nothing but the synced column of the ids given.
LEMMA MarkOpsSyncedType ==
    ASSUME NEW D \in Db, NEW ids \in SUBSET Nat
    PROVE  LET E == MarkOpsSynced(D, ids) IN
           /\ E \in Db
           /\ E.cursor = D.cursor
           /\ Len(E.oplog) = Len(D.oplog)
           /\ DOMAIN E.oplog = DOMAIN D.oplog
           /\ \A i \in DOMAIN D.oplog : E.oplog[i].synced => D.oplog[i].synced \/ i \in ids
<1> DEFINE marked == [i \in DOMAIN D.oplog |->
                        IF i \in ids THEN [D.oplog[i] EXCEPT !.synced = TRUE] ELSE D.oplog[i]]
           E == MarkOpsSynced(D, ids)
<1>1. D.oplog \in Seq(LoggedOp)
  BY DEF Db
<1>2. /\ Len(D.oplog) \in Nat
      /\ DOMAIN D.oplog = 1 .. Len(D.oplog)
      /\ \A i \in DOMAIN D.oplog : D.oplog[i] \in LoggedOp
  BY <1>1, LenProperties, ElementOfSeq
<1>3. \A i \in DOMAIN D.oplog : marked[i] \in LoggedOp
  BY <1>2 DEF LoggedOp
<1>4. marked \in Seq(LoggedOp) /\ Len(marked) = Len(D.oplog)
  <2>1. marked \in [1 .. Len(D.oplog) -> LoggedOp]
    BY <1>2, <1>3
  <2>2. QED
    BY <2>1, <1>2, IsASeq, LenProperties
<1>5. E = [D EXCEPT !.oplog = marked]
  BY DEF MarkOpsSynced
<1>6. E \in Db /\ E.cursor = D.cursor /\ E.oplog = marked
  BY <1>4, <1>5 DEF Db
<1>7. \A i \in DOMAIN D.oplog : marked[i].synced => D.oplog[i].synced \/ i \in ids
  BY <1>2 DEF LoggedOp
<1>8. QED
  BY <1>4, <1>6, <1>7

LEMMA SetCursorType ==
    ASSUME NEW D \in Db, NEW c \in Nat
    PROVE  /\ SetCursor(D, c) \in Db
           /\ SetCursor(D, c).oplog = D.oplog
           /\ SetCursor(D, c).cursor = c
  BY DEF SetCursor, Db

\* Applying a pulled operation changes rows only.
LEMMA ApplyRemoteOpType ==
    ASSUME NEW D \in Db, NEW op \in LoggedOp, NEW by \in Device \X Nat
    PROVE  /\ ApplyRemoteOp(D, op, by).db \in Db
           /\ ApplyRemoteOp(D, op, by).db.oplog = D.oplog
           /\ ApplyRemoteOp(D, op, by).db.cursor = D.cursor
<1>1. op.obj \in Object /\ op.ts \in Nat
  BY DEF LoggedOp
<1>2. QED
  BY <1>1, UpsertRowType, DeleteRowType DEF ApplyRemoteOp, ApplyPut, ApplyDelete

-----------------------------------------------------------------------------
(* The inductive invariant.  SyncedIsOnServer and CursorCovers are not     *)
(* inductive by themselves: what a session is about to write depends on    *)
(* what it holds in memory.  StoreFacts is what is known of a device's     *)
(* database, SessionFacts of a session, given the database D of its        *)
(* device d, the server_seqs H that d dealt with and the server's log L.   *)

InLog(L, d, i) == \E k \in DOMAIN L : L[k] = <<d, i>>

StoreFacts(d, D, H, L) ==
    /\ D \in Db
    /\ H \in SUBSET Nat
    /\ \A i \in DOMAIN D.oplog : D.oplog[i].synced => InLog(L, d, i)
    /\ 1 .. D.cursor \subseteq H

SessionFacts(d, S, D, H, L) ==
    /\ S \in SessionState
    /\ S.sending \cup S.waiting \subseteq DOMAIN D.oplog
    /\ S.pc = "reply" => \A i \in S.sending : InLog(L, d, i)
    /\ S.pc \in {"pull", "apply", "failed"} => 1 .. S.cursor \subseteq H
    /\ S.pc \in {"apply", "failed"} => S.cursor <= S.last /\ S.last <= Len(L)

\* Every entry of the log is an operation that its device has logged.
LogFacts ==
    /\ log \in Seq(Device \X Nat)
    /\ \A k \in DOMAIN log : log[k][2] \in DOMAIN db[log[k][1]].oplog

Functional ==
    /\ db \in [Device -> Db]
    /\ sess \in [Session -> SessionState]
    /\ handled \in [Device -> SUBSET Nat]
    /\ faults \in Nat
    /\ unlogged \in SUBSET Object

IInv ==
    /\ Functional
    /\ LogFacts
    /\ \A d \in Device : StoreFacts(d, db[d], handled[d], log)
    /\ \A s \in Session :
           SessionFacts(Owner[s], sess[s], db[Owner[s]], handled[Owner[s]], log)

LEMMA IInvImplies == IInv => TypeOK /\ SyncedIsOnServer /\ CursorCovers
<1>1. IInv => TypeOK
  BY DEF IInv, Functional, LogFacts, TypeOK
<1>2. IInv => SyncedIsOnServer
  <2>1. ASSUME NEW d, NEW i, InLog(log, d, i) PROVE <<d, i>> \in Pushed
    BY <2>1 DEF InLog, Pushed
  <2>2. QED
    BY <2>1 DEF IInv, StoreFacts, SyncedIsOnServer
<1>3. IInv => CursorCovers
  BY DEF IInv, StoreFacts, CursorCovers
<1>4. QED
  BY <1>1, <1>2, <1>3

\* M is L with entries added at the end.
Extends(L, M) ==
    /\ Len(L) <= Len(M)
    /\ DOMAIN L \subseteq DOMAIN M
    /\ \A k \in DOMAIN L : M[k] = L[k]

LEMMA ExtendsSelf == \A L \in Seq(Device \X Nat) : Extends(L, L)
  BY LenProperties DEF Extends

\* What is known of a session stays true while the op_log, the log and the
\* set of handled operations grow and the session does nothing.
LEMMA SessionFactsGrow ==
    ASSUME NEW d, NEW S, NEW D, NEW H, NEW L, NEW E, NEW I, NEW M,
           SessionFacts(d, S, D, H, L),
           L \in Seq(Device \X Nat), M \in Seq(Device \X Nat),
           DOMAIN D.oplog \subseteq DOMAIN E.oplog, H \subseteq I, Extends(L, M)
    PROVE  SessionFacts(d, S, E, I, M)
<1>1. \A i : InLog(L, d, i) => InLog(M, d, i)
  BY DEF InLog, Extends
<1>2. S.last \in Nat /\ Len(L) \in Nat /\ Len(M) \in Nat
  BY LenProperties DEF SessionFacts, SessionState
<1>3. S.pc \in {"apply", "failed"} => S.last <= Len(M)
  BY <1>2 DEF SessionFacts, Extends
<1>4. QED
  BY <1>1, <1>3 DEF SessionFacts

\* An idle session, wherever the others are.
LEMMA IdleFacts ==
    ASSUME NEW d, NEW D, NEW H, NEW L
    PROVE  SessionFacts(d, Idle, D, H, L)
  BY DEF SessionFacts, Idle, SessionState

LEMMA InitInv == Init => IInv
<1> SUFFICES ASSUME Init PROVE IInv
  OBVIOUS
<1> USE SyncAssumption, StoreAssumption
<1>1. \A d \in Device : EmptyDb(InitialBooks[d]) \in Db
  BY DEF EmptyDb, Db
<1>2. \A d \in Device : /\ db[d] \in Db
                        /\ DOMAIN db[d].oplog = {}
                        /\ db[d].cursor = 0
                        /\ handled[d] = {}
  BY <1>1 DEF Init, EmptyDb
<1>3. Functional
  BY <1>1, IdleFacts DEF Functional, Init, SessionFacts
<1>4. LogFacts
  BY DEF LogFacts, Init
<1>5. \A d \in Device : StoreFacts(d, db[d], handled[d], log)
  BY <1>2 DEF StoreFacts
<1>6. \A s \in Session :
          SessionFacts(Owner[s], sess[s], db[Owner[s]], handled[Owner[s]], log)
  BY IdleFacts DEF Init
<1>7. QED
  BY <1>3, <1>4, <1>5, <1>6 DEF IInv

\* The shape of every step: what is on disk and on the server only grows, and
\* the sessions that moved know what they need to know.
LEMMA GrowingStep ==
    ASSUME IInv, Functional', LogFacts', Extends(log, log'),
           \A d \in Device : /\ StoreFacts(d, db'[d], handled'[d], log')
                             /\ DOMAIN db[d].oplog \subseteq DOMAIN db'[d].oplog
                             /\ handled[d] \subseteq handled'[d],
           \A s \in Session :
               \/ sess'[s] = sess[s]
               \/ SessionFacts(Owner[s], sess'[s], db'[Owner[s]], handled'[Owner[s]], log')
    PROVE  IInv'
<1>1. ASSUME NEW s \in Session
      PROVE  SessionFacts(Owner[s], sess'[s], db'[Owner[s]], handled'[Owner[s]], log')
  <2>1. Owner[s] \in Device
    BY SyncAssumption
  <2>2. SessionFacts(Owner[s], sess[s], db[Owner[s]], handled[Owner[s]], log)
    BY DEF IInv
  <2>3. log \in Seq(Device \X Nat) /\ log' \in Seq(Device \X Nat)
    BY DEF IInv, LogFacts
  <2>4. SessionFacts(Owner[s], sess[s], db'[Owner[s]], handled'[Owner[s]], log')
    BY <2>1, <2>2, <2>3, SessionFactsGrow
  <2>5. QED
    BY <2>4
<1>2. QED
  BY <1>1 DEF IInv

\* A step of device d that replaces its database by E, leaves the server
\* alone and marks nothing the server does not have.
LEMMA DeviceStep ==
    ASSUME IInv, NEW d \in Device, NEW E,
           StoreFacts(d, E, handled'[d], log),
           DOMAIN db[d].oplog \subseteq DOMAIN E.oplog,
           db' = [db EXCEPT ![d] = E],
           log' = log,
           handled' \in [Device -> SUBSET Nat],
           \A e \in Device : e # d => handled'[e] = handled[e],
           handled[d] \subseteq handled'[d],
           sess' \in [Session -> SessionState],
           \A s \in Session :
               \/ sess'[s] = sess[s]
               \/ SessionFacts(Owner[s], sess'[s], db'[Owner[s]], handled'[Owner[s]], log),
           faults' \in Nat,
           unlogged' \in SUBSET Object
    PROVE  IInv'
<1>1. db \in [Device -> Db] /\ E \in Db
  BY DEF IInv, Functional, StoreFacts
<1>2. db'[d] = E /\ \A e \in Device : e # d => db'[e] = db[e]
  BY <1>1
<1>3. Functional'
  BY <1>1 DEF Functional
<1>4. \A e \in Device : DOMAIN db[e].oplog \subseteq DOMAIN db'[e].oplog
  BY <1>2
<1>5. LogFacts'
  <2>1. log \in Seq(Device \X Nat)
    BY DEF IInv, LogFacts
  <2>2. \A k \in DOMAIN log : log[k] \in Device \X Nat
    BY <2>1, ElementOfSeq, LenProperties
  <2>3. QED
    BY <2>1, <2>2, <1>4 DEF IInv, LogFacts
<1>6. Extends(log, log')
  BY ExtendsSelf DEF IInv, LogFacts
<1>7. ASSUME NEW e \in Device PROVE StoreFacts(e, db'[e], handled'[e], log')
  BY <1>2 DEF IInv
<1>8. \A e \in Device : handled[e] \subseteq handled'[e]
  OBVIOUS
<1>9. QED
  BY <1>3, <1>4, <1>5, <1>6, <1>7, <1>8, GrowingStep

\* A step of one session that changes nothing but the session.
LEMMA SessionStep ==
    ASSUME IInv, NEW s \in Session, NEW T,
           SessionFacts(Owner[s], T, db[Owner[s]], handled[Owner[s]], log),
           Goto(s, T),
           faults' \in Nat,
           UNCHANGED <<db, log, handled, unlogged>>
    PROVE  IInv'
<1>1. T \in SessionState
  BY DEF SessionFacts
<1>2. sess' = [sess EXCEPT ![s] = T] /\ sess \in [Session -> SessionState]
  BY DEF Goto, IInv, Functional
<1>3. Functional'
  BY <1>1, <1>2 DEF IInv, Functional
<1>4. \A r \in Session : r # s => sess'[r] = sess[r]
  BY <1>2
<1>5. sess'[s] = T
  BY <1>2
<1>6. LogFacts' /\ Extends(log, log')
  BY ExtendsSelf DEF IInv, LogFacts
<1>7. \A d \in Device : /\ StoreFacts(d, db'[d], handled'[d], log')
                        /\ DOMAIN db[d].oplog \subseteq DOMAIN db'[d].oplog
                        /\ handled[d] \subseteq handled'[d]
  BY DEF IInv
<1>8. QED
  BY <1>3, <1>4, <1>5, <1>6, <1>7, GrowingStep

-----------------------------------------------------------------------------
(* One lemma per action.                                                   *)

\* What IInv says of one device and of one session.
LEMMA DeviceFacts ==
    ASSUME IInv, NEW d \in Device
    PROVE  /\ StoreFacts(d, db[d], handled[d], log)
           /\ db[d] \in Db
           /\ db[d].oplog \in Seq(LoggedOp)
           /\ Len(db[d].oplog) \in Nat
           /\ DOMAIN db[d].oplog = 1 .. Len(db[d].oplog)
  BY LenProperties DEF IInv, Functional, Db

LEMMA OwnerFacts ==
    ASSUME IInv, NEW s \in Session
    PROVE  /\ Owner[s] \in Device
           /\ SessionFacts(Owner[s], sess[s], db[Owner[s]], handled[Owner[s]], log)
           /\ sess[s] \in SessionState
           /\ DOMAIN db[Owner[s]].oplog \subseteq Nat
<1>1. Owner[s] \in Device
  BY SyncAssumption
<1>2. QED
  BY <1>1, DeviceFacts DEF IInv, Functional

\* A database that differs from D in its rows and books only.
LEMMA RowsOnly ==
    ASSUME NEW d, NEW D, NEW E, NEW H, NEW L, StoreFacts(d, D, H, L),
           E \in Db, E.oplog = D.oplog, E.cursor = D.cursor
    PROVE  StoreFacts(d, E, H, L) /\ DOMAIN D.oplog \subseteq DOMAIN E.oplog
  BY DEF StoreFacts

\* A database with one more operation, not synced, in its op_log.
LEMMA LoggedMore ==
    ASSUME NEW d, NEW D, NEW H, NEW L, StoreFacts(d, D, H, L),
           NEW o \in Object, NEW ts \in Nat, NEW type \in {"put", "delete"}
    PROVE  /\ StoreFacts(d, WriteOpLog(D, type, o, ts), H, L)
           /\ DOMAIN D.oplog \subseteq DOMAIN WriteOpLog(D, type, o, ts).oplog
<1> DEFINE E == WriteOpLog(D, type, o, ts)
<1>1. D \in Db
  BY DEF StoreFacts
<1> HIDE DEF E
<1>2. /\ E \in Db
      /\ E.cursor = D.cursor
      /\ Len(E.oplog) = Len(D.oplog) + 1
      /\ \A i \in DOMAIN D.oplog : i \in DOMAIN E.oplog /\ E.oplog[i] = D.oplog[i]
      /\ ~E.oplog[Len(D.oplog) + 1].synced
  BY <1>1, WriteOpLogType DEF E
<1>3. DOMAIN D.oplog = 1 .. Len(D.oplog) /\ DOMAIN E.oplog = 1 .. Len(E.oplog)
      /\ Len(D.oplog) \in Nat
  BY <1>1, <1>2, LenProperties DEF Db
<1>4. \A i \in DOMAIN E.oplog : i \in DOMAIN D.oplog \/ i = Len(D.oplog) + 1
  BY <1>2, <1>3
<1>5. \A i \in DOMAIN E.oplog : E.oplog[i].synced => InLog(L, d, i)
  BY <1>2, <1>4 DEF StoreFacts
<1>6. 1 .. E.cursor \subseteq H /\ H \in SUBSET Nat
  BY <1>2 DEF StoreFacts
<1>7. StoreFacts(d, E, H, L) /\ DOMAIN D.oplog \subseteq DOMAIN E.oplog
  BY <1>2, <1>5, <1>6 DEF StoreFacts
<1>8. QED
  BY <1>7 DEF E

LEMMA PutInv ==
    ASSUME IInv, NEW d \in Device, NEW o \in Object, NEW ts \in Stamp, Put(d, o, ts)
    PROVE  IInv'
<1> DEFINE by == <<d, NextId(db[d])>>
           R == UpsertRow(db[d], o, ts, by)
           E == WriteOpLog(R, "put", o, ts)
<1>1. ts \in Nat /\ by \in Device \X Nat
  BY SyncAssumption, DeviceFacts DEF NextId
<1>2. R \in Db /\ R.oplog = db[d].oplog /\ R.cursor = db[d].cursor
  BY <1>1, DeviceFacts, UpsertRowType
<1>3. db' = [db EXCEPT ![d] = E] /\ UNCHANGED <<log, sess, faults, handled, unlogged>>
  BY DEF Put
<1> HIDE DEF R
<1>4. StoreFacts(d, R, handled[d], log) /\ DOMAIN db[d].oplog \subseteq DOMAIN R.oplog
  BY <1>2, DeviceFacts, RowsOnly
<1>5. StoreFacts(d, E, handled[d], log) /\ DOMAIN db[d].oplog \subseteq DOMAIN E.oplog
  BY <1>1, <1>4, LoggedMore
<1> HIDE DEF E
<1>6. QED
  BY <1>3, <1>5, DeviceStep DEF IInv, Functional

LEMMA DeleteInv ==
    ASSUME IInv, NEW d \in Device, NEW o \in Object, NEW ts \in Stamp, Delete(d, o, ts)
    PROVE  IInv'
<1> DEFINE R == DeleteRow(db[d], o)
           E == WriteOpLog(R, "delete", o, ts)
<1>1. ts \in Nat
  BY SyncAssumption
<1>2. R \in Db /\ R.oplog = db[d].oplog /\ R.cursor = db[d].cursor
  BY DeviceFacts, DeleteRowType
<1>3. db' = [db EXCEPT ![d] = E] /\ UNCHANGED <<log, sess, faults, handled, unlogged>>
  BY DEF Delete
<1> HIDE DEF R
<1>4. StoreFacts(d, R, handled[d], log) /\ DOMAIN db[d].oplog \subseteq DOMAIN R.oplog
  BY <1>2, DeviceFacts, RowsOnly
<1>5. StoreFacts(d, E, handled[d], log) /\ DOMAIN db[d].oplog \subseteq DOMAIN E.oplog
  BY <1>1, <1>4, LoggedMore
<1> HIDE DEF E
<1>6. QED
  BY <1>3, <1>5, DeviceStep DEF IInv, Functional

LEMMA RegisterBookInv ==
    ASSUME IInv, NEW d \in Device, NEW b \in Book, RegisterBook(d, b)
    PROVE  IInv'
<1> DEFINE E == UpsertBook(db[d], b)
<1>1. /\ db' = [db EXCEPT ![d] = E]
      /\ UNCHANGED <<log, sess, faults, handled>>
      /\ unlogged' \in SUBSET Object
  BY DEF RegisterBook, IInv, Functional
<1>2. E \in Db /\ E.oplog = db[d].oplog /\ E.cursor = db[d].cursor
  BY DeviceFacts, UpsertBookType
<1> HIDE DEF E
<1>3. StoreFacts(d, E, handled[d], log) /\ DOMAIN db[d].oplog \subseteq DOMAIN E.oplog
  BY <1>2, DeviceFacts, RowsOnly
<1>4. QED
  BY <1>1, <1>3, DeviceStep DEF IInv, Functional

\* The chunk and the rest of a push are the operations the session read.
LEMMA SendChunkFacts ==
    ASSUME NEW d, NEW mode \in {"none", "push", "pull", "sync"}, NEW D, NEW H, NEW L,
           NEW ids \in SUBSET DOMAIN D.oplog, DOMAIN D.oplog \subseteq Nat
    PROVE  SessionFacts(d, SendChunk(d, mode, ids), D, H, L)
<1> DEFINE chunk == {i \in ids : Cardinality({j \in ids : Before(db[d], j, i)}) < BatchSize}
<1>1. chunk \subseteq ids
  OBVIOUS
<1> HIDE DEF chunk
<1>2. SendChunk(d, mode, ids) = [Idle EXCEPT !.pc = "push", !.mode = mode,
                                      !.sending = chunk, !.waiting = ids \ chunk]
  BY DEF SendChunk, chunk
<1>3. SendChunk(d, mode, ids) = [pc |-> "push", mode |-> mode, sending |-> chunk,
                                 waiting |-> ids \ chunk, cursor |-> 0, last |-> 0,
                                 more |-> FALSE]
  BY <1>2 DEF Idle
<1>4. chunk \in SUBSET Nat /\ ids \ chunk \in SUBSET Nat
  BY <1>1
<1>5. chunk \cup (ids \ chunk) \subseteq DOMAIN D.oplog
  BY <1>1
<1>6. SendChunk(d, mode, ids) \in SessionState
  BY <1>3, <1>4 DEF SessionState
<1>7. QED
  BY <1>3, <1>5, <1>6 DEF SessionFacts

LEMMA AfterPushFacts ==
    ASSUME NEW d, NEW mode \in {"none", "push", "pull", "sync"}, NEW D, NEW H, NEW L
    PROVE  SessionFacts(d, AfterPush(mode), D, H, L)
  BY IdleFacts DEF AfterPush, Idle, SessionFacts, SessionState

LEMMA ReadUnsyncedInv ==
    ASSUME IInv, NEW s \in Session, NEW mode \in Modes, ReadUnsynced(s, mode)
    PROVE  IInv'
<1> DEFINE d == Owner[s]
           ids == UnsyncedIds(db[d])
           T == IF ids = {} THEN AfterPush(mode) ELSE SendChunk(d, mode, ids)
<1>1. mode \in {"push", "sync"}
  BY SyncAssumption
<1>2. ids \in SUBSET DOMAIN db[d].oplog /\ DOMAIN db[d].oplog \subseteq Nat
  BY OwnerFacts DEF UnsyncedIds
<1>3. SessionFacts(d, T, db[d], handled[d], log)
  BY <1>1, <1>2, SendChunkFacts, AfterPushFacts
<1>4. Goto(s, T) /\ UNCHANGED <<db, log, faults, handled, unlogged>>
  BY DEF ReadUnsynced
<1> HIDE DEF T
<1>5. QED
  BY <1>3, <1>4, SessionStep DEF IInv, Functional

\* A request has finitely many operations.
LEMMA ChunkFinite ==
    ASSUME NEW n \in Nat, NEW ids \in SUBSET (1 .. n)
    PROVE  Cardinality(ids) \in Nat
<1>1. IsFiniteSet(1 .. n)
  BY FS_Interval
<1>2. IsFiniteSet(ids)
  BY <1>1, FS_Subset
<1>3. QED
  BY <1>2, FS_CardinalityType

\* The log after a push of the operations ids of device d.
LEMMA AppendFacts ==
    ASSUME NEW L \in Seq(Device \X Nat), NEW d \in Device, NEW c \in Nat,
           NEW ids \in SUBSET Nat, NEW f \in [1 .. c -> ids]
    PROVE  LET M == L \o [k \in DOMAIN f |-> <<d, f[k]>>] IN
           /\ M \in Seq(Device \X Nat)
           /\ Len(M) = Len(L) + c
           /\ Extends(L, M)
           /\ \A k \in 1 .. c : M[Len(L) + k] = <<d, f[k]>>
<1> DEFINE new == [k \in DOMAIN f |-> <<d, f[k]>>]
           M == L \o new
<1>1. \A k \in 1 .. c : f[k] \in Nat
  OBVIOUS
<1>2. new \in [1 .. c -> Device \X Nat]
  BY <1>1
<1>3. new \in Seq(Device \X Nat) /\ Len(new) = c
  BY <1>2, IsASeq, LenProperties
<1>4. \A k \in 1 .. c : new[k] = <<d, f[k]>>
  OBVIOUS
<1> HIDE DEF new
<1>5. /\ M \in Seq(Device \X Nat)
      /\ Len(M) = Len(L) + c
      /\ \A i \in 1 .. Len(M) : M[i] = IF i <= Len(L) THEN L[i] ELSE new[i - Len(L)]
  BY <1>3, ConcatProperties
<1>6. Len(L) \in Nat /\ DOMAIN L = 1 .. Len(L) /\ DOMAIN M = 1 .. Len(M)
  BY <1>5, LenProperties
<1>7. \A k \in DOMAIN L : k \in DOMAIN M /\ M[k] = L[k]
  BY <1>5, <1>6
<1>8. ASSUME NEW k \in 1 .. c PROVE M[Len(L) + k] = <<d, f[k]>>
  <2>1. Len(L) + k \in 1 .. Len(M) /\ ~(Len(L) + k <= Len(L)) /\ Len(L) + k - Len(L) = k
    BY <1>5, <1>6
  <2>2. M[Len(L) + k] = new[k]
    BY <1>5, <2>1
  <2>3. QED
    BY <2>2, <1>4
<1> HIDE DEF M
<1>9. M \in Seq(Device \X Nat) /\ Len(M) = Len(L) + c /\ Extends(L, M)
      /\ \A k \in 1 .. c : M[Len(L) + k] = <<d, f[k]>>
  BY <1>5, <1>6, <1>7, <1>8 DEF Extends
<1>10. QED
  BY <1>9 DEF M, new

LEMMA ServerPushInv ==
    ASSUME IInv, NEW s \in Session, ServerPush(s)
    PROVE  IInv'
<1> DEFINE d == Owner[s]
           S == sess[s]
           ids == Fresh(d, S.sending)
           T == [S EXCEPT !.pc = "reply"]
           n == Len(db[d].oplog)
<1>1. /\ d \in Device
      /\ S \in SessionState
      /\ S.sending \cup S.waiting \subseteq 1 .. n
      /\ n \in Nat
      /\ DOMAIN db[d].oplog = 1 .. n
  BY OwnerFacts, DeviceFacts DEF SessionFacts
<1>2. ids \in SUBSET (1 .. n)
  BY <1>1 DEF Fresh
<1>3. PICK f \in Orderings(d, ids) : log' = log \o [k \in DOMAIN f |-> <<d, f[k]>>]
  BY DEF ServerPush
<1> DEFINE c == Cardinality(ids)
<1>4. /\ c \in Nat
      /\ f \in [1 .. c -> ids]
      /\ \A i \in ids : \E k \in 1 .. c : f[k] = i
  <2>1. c \in Nat
    <3> HIDE DEF ids, n
    <3>1. QED
      BY <1>1, <1>2, ChunkFinite
  <2>2. f \in [1 .. c -> ids] /\ {f[k] : k \in DOMAIN f} = ids
    BY <1>3 DEF Orderings
  <2> HIDE DEF c, ids
  <2>3. QED
    BY <2>1, <2>2
<1>5. log \in Seq(Device \X Nat)
  BY DEF IInv, LogFacts
<1> HIDE DEF c, ids
<1>6. /\ log' \in Seq(Device \X Nat)
      /\ Len(log') = Len(log) + c
      /\ Extends(log, log')
      /\ \A k \in 1 .. c : log'[Len(log) + k] = <<d, f[k]>>
  <2>1. ids \in SUBSET Nat
    BY <1>2
  <2> DEFINE M == log \o [k \in DOMAIN f |-> <<d, f[k]>>]
  <2>2. /\ M \in Seq(Device \X Nat)
        /\ Len(M) = Len(log) + c
        /\ Extends(log, M)
        /\ \A k \in 1 .. c : M[Len(log) + k] = <<d, f[k]>>
    <3> HIDE DEF d
    <3>1. QED
      BY <1>1, <1>4, <1>5, <2>1, AppendFacts
  <2>3. log' = M
    BY <1>3
  <2> HIDE DEF M
  <2>4. QED
    BY <2>2, <2>3
<1>7. Len(log) \in Nat /\ DOMAIN log = 1 .. Len(log) /\ DOMAIN log' = 1 .. Len(log) + c
  BY <1>5, <1>6, LenProperties
<1>8. \A k \in DOMAIN log' : k \in DOMAIN log \/ \E j \in 1 .. c : k = Len(log) + j
  <2>1. ASSUME NEW k \in DOMAIN log', k \notin DOMAIN log
        PROVE  k - Len(log) \in 1 .. c /\ k = Len(log) + (k - Len(log))
    BY <1>4, <1>7, <2>1
  <2>2. QED
    BY <2>1
<1>9. /\ Goto(s, T)
      /\ UNCHANGED <<db, faults, handled, unlogged>>
  BY DEF ServerPush
<1>10. sess' = [sess EXCEPT ![s] = T] /\ sess \in [Session -> SessionState]
  BY <1>9 DEF Goto, IInv, Functional
<1>11. T \in SessionState /\ T.pc = "reply" /\ T.sending = S.sending /\ T.waiting = S.waiting
  BY <1>1 DEF SessionState
<1> HIDE DEF T
<1>12. Functional'
  BY <1>9, <1>10, <1>11 DEF IInv, Functional
<1>13. LogFacts'
  <2>1. ASSUME NEW k \in DOMAIN log' PROVE log'[k][2] \in DOMAIN db[log'[k][1]].oplog
    <3>1. CASE k \in DOMAIN log
      BY <1>6, <3>1 DEF Extends, IInv, LogFacts
    <3>2. ASSUME NEW j \in 1 .. c, k = Len(log) + j
          PROVE  log'[k][2] \in DOMAIN db[log'[k][1]].oplog
      <4>1. log'[k] = <<d, f[j]>> /\ f[j] \in 1 .. n
        BY <1>2, <1>4, <1>6, <3>2
      <4>2. QED
        BY <4>1, <1>1
    <3>3. QED
      BY <1>8, <3>1, <3>2
  <2>2. QED
    BY <1>6, <1>9, <2>1 DEF LogFacts
<1>14. \A e, i : InLog(log, e, i) => InLog(log', e, i)
  BY <1>6 DEF InLog, Extends
<1>15. ASSUME NEW i \in S.sending PROVE InLog(log', d, i)
  <2>1. CASE i \in ids
    <3>1. PICK k \in 1 .. c : f[k] = i
      BY <1>4, <2>1
    <3>2. Len(log) + k \in DOMAIN log' /\ log'[Len(log) + k] = <<d, i>>
      <4>1. Len(log) + k \in 1 .. Len(log) + c
        BY <1>4, <1>7
      <4>2. QED
        BY <1>6, <1>7, <3>1, <4>1
    <3>3. QED
      BY <3>2 DEF InLog
  <2>2. CASE i \notin ids
    <3>1. <<d, i>> \in Pushed
      BY <2>2 DEF Fresh, ids
    <3>2. InLog(log, d, i)
      BY <3>1 DEF Pushed, InLog
    <3>3. QED
      BY <3>2, <1>14
  <2>3. QED
    BY <2>1, <2>2
<1>16. \A e \in Device : /\ StoreFacts(e, db'[e], handled'[e], log')
                         /\ DOMAIN db[e].oplog \subseteq DOMAIN db'[e].oplog
                         /\ handled[e] \subseteq handled'[e]
  BY <1>9, <1>14 DEF IInv, StoreFacts
<1>17. SessionFacts(d, T, db'[d], handled'[d], log')
  BY <1>1, <1>9, <1>11, <1>15 DEF SessionFacts
<1>18. \A r \in Session :
          \/ sess'[r] = sess[r]
          \/ SessionFacts(Owner[r], sess'[r], db'[Owner[r]], handled'[Owner[r]], log')
  <2>1. sess'[s] = T
    BY <1>10
  <2>2. \A r \in Session : r # s => sess'[r] = sess[r]
    BY <1>10
  <2>3. QED
    BY <1>17, <2>1, <2>2
<1>19. QED
  BY <1>6, <1>12, <1>13, <1>16, <1>18, GrowingStep

LEMMA MarkSyncedInv ==
    ASSUME IInv, NEW s \in Session, MarkSynced(s)
    PROVE  IInv'
<1> DEFINE d == Owner[s]
           S == sess[s]
           E == MarkOpsSynced(db[d], S.sending)
           T == IF S.waiting = {} THEN AfterPush(S.mode) ELSE SendChunk(d, S.mode, S.waiting)
<1>1. /\ d \in Device
      /\ S \in SessionState
      /\ SessionFacts(d, S, db[d], handled[d], log)
      /\ StoreFacts(d, db[d], handled[d], log)
      /\ DOMAIN db[d].oplog \subseteq Nat
  BY OwnerFacts, DeviceFacts
<1>2. /\ S.sending \in SUBSET Nat
      /\ S.waiting \in SUBSET DOMAIN db[d].oplog
      /\ S.mode \in {"none", "push", "pull", "sync"}
      /\ db[d] \in Db
  BY <1>1 DEF SessionState, SessionFacts, StoreFacts
<1>3. /\ E \in Db
      /\ E.cursor = db[d].cursor
      /\ DOMAIN E.oplog = DOMAIN db[d].oplog
      /\ \A i \in DOMAIN db[d].oplog :
             E.oplog[i].synced => db[d].oplog[i].synced \/ i \in S.sending
  BY <1>2, MarkOpsSyncedType
<1>4. /\ S.pc = "reply"
      /\ db' = [db EXCEPT ![d] = E]
      /\ Goto(s, T)
      /\ UNCHANGED <<log, faults, handled, unlogged>>
  BY DEF MarkSynced
<1> HIDE DEF E
<1>5. \A i \in S.sending : InLog(log, d, i)
  BY <1>1, <1>4 DEF SessionFacts
<1>6. StoreFacts(d, E, handled[d], log)
  BY <1>1, <1>3, <1>5 DEF StoreFacts
<1>7. SessionFacts(d, T, E, handled[d], log)
  BY <1>1, <1>2, <1>3, AfterPushFacts, SendChunkFacts
<1>8. T \in SessionState
  BY <1>7 DEF SessionFacts
<1> HIDE DEF T
<1>9. sess' = [sess EXCEPT ![s] = T] /\ sess \in [Session -> SessionState]
  BY <1>4 DEF Goto, IInv, Functional
<1>10. sess' \in [Session -> SessionState]
  BY <1>8, <1>9
<1>11. db'[d] = E
  BY <1>1, <1>4 DEF IInv, Functional
<1>12. \A r \in Session : r # s => sess'[r] = sess[r]
  BY <1>9
<1>13. sess'[s] = T /\ SessionFacts(Owner[s], sess'[s], db'[Owner[s]], handled'[Owner[s]], log)
  BY <1>4, <1>7, <1>9, <1>11
<1>14. StoreFacts(d, E, handled'[d], log) /\ DOMAIN db[d].oplog \subseteq DOMAIN E.oplog
  BY <1>3, <1>4, <1>6
<1> HIDE DEF d
<1>15. QED
  BY <1>1, <1>4, <1>10, <1>12, <1>13, <1>14, DeviceStep DEF IInv, Functional

\* A session that has read the cursor.
LEMMA PullFacts ==
    ASSUME NEW m \in {"none", "push", "pull", "sync"}, NEW c \in Nat, NEW d, NEW D, NEW H,
           NEW L, 1 .. c \subseteq H
    PROVE  SessionFacts(d, [Idle EXCEPT !.pc = "pull", !.mode = m, !.cursor = c], D, H, L)
<1> DEFINE T == [Idle EXCEPT !.pc = "pull", !.mode = m, !.cursor = c]
<1>1. /\ T \in SessionState
      /\ T.pc = "pull" /\ T.sending = {} /\ T.waiting = {} /\ T.cursor = c
  BY DEF Idle, SessionState
<1> HIDE DEF T
<1>2. SessionFacts(d, T, D, H, L)
  BY <1>1 DEF SessionFacts
<1>3. QED
  BY <1>2 DEF T

LEMMA ReadCursorInv ==
    ASSUME IInv, NEW s \in Session, ReadCursor(s)
    PROVE  IInv'
<1> DEFINE d == Owner[s]
           m == IF sess[s].pc = "idle" THEN "pull" ELSE sess[s].mode
           T == [Idle EXCEPT !.pc = "pull", !.mode = m, !.cursor = db[d].cursor]
<1>1. d \in Device /\ sess[s] \in SessionState
  BY OwnerFacts
<1>2. StoreFacts(d, db[d], handled[d], log)
  BY <1>1, DeviceFacts
<1>3. m \in {"none", "push", "pull", "sync"}
  BY <1>1 DEF SessionState
<1>4. db[d].cursor \in Nat
  BY <1>2 DEF StoreFacts, Db
<1> HIDE DEF m
<1>5. 1 .. db[d].cursor \subseteq handled[d]
  BY <1>2 DEF StoreFacts
<1>6. SessionFacts(d, T, db[d], handled[d], log)
  BY <1>3, <1>4, <1>5, PullFacts
<1>7. Goto(s, T) /\ UNCHANGED <<db, log, faults, handled, unlogged>>
  BY DEF ReadCursor, m
<1> HIDE DEF T
<1>8. QED
  BY <1>6, <1>7, SessionStep DEF IInv, Functional

LEMMA ServerPullInv ==
    ASSUME IInv, NEW s \in Session, ServerPull(s)
    PROVE  IInv'
<1> DEFINE d == Owner[s]
           S == sess[s]
           e == PageEnd(S.cursor)
           more == Len(log) > e
           R == [S EXCEPT !.pc = "apply", !.last = e, !.more = more]
           T == IF e <= S.cursor THEN Idle ELSE R
<1>1. S \in SessionState /\ SessionFacts(d, S, db[d], handled[d], log)
  BY OwnerFacts
<1>2. S.cursor \in Nat /\ Len(log) \in Nat
  BY <1>1, LenProperties DEF SessionState, IInv, LogFacts
<1>3. e \in Nat /\ e <= Len(log)
  BY <1>2, SyncAssumption DEF PageEnd
<1>4. /\ S.pc = "pull"
      /\ Goto(s, T)
      /\ UNCHANGED <<db, log, faults, handled, unlogged>>
  BY DEF ServerPull
<1> HIDE DEF e
<1>5. more \in BOOLEAN
  OBVIOUS
<1> HIDE DEF more
<1>6. /\ R \in SessionState
      /\ R.pc = "apply" /\ R.last = e /\ R.cursor = S.cursor
      /\ R.sending = S.sending /\ R.waiting = S.waiting
  BY <1>1, <1>3, <1>5 DEF SessionState
<1> HIDE DEF R
<1>7. ~(e <= S.cursor) => SessionFacts(d, R, db[d], handled[d], log)
  BY <1>1, <1>2, <1>3, <1>4, <1>6 DEF SessionFacts
<1>8. SessionFacts(d, T, db[d], handled[d], log)
  BY <1>7, IdleFacts
<1> HIDE DEF T
<1>9. QED
  BY <1>4, <1>8, SessionStep DEF IInv, Functional

LEMMA ApplyOpInv ==
    ASSUME IInv, NEW s \in Session, ApplyOp(s)
    PROVE  IInv'
<1> DEFINE d == Owner[s]
           S == sess[s]
           k == S.cursor + 1
           r == IF OwnDeviceKnown /\ log[k][1] = d
                THEN [db |-> db[d], res |-> "own"]
                ELSE ApplyRemoteOp(db[d], Op(log[k]), log[k])
           E == r.db
           failed == r.res = "failed"
           T == IF failed THEN [S EXCEPT !.pc = "failed"] ELSE [S EXCEPT !.cursor = k]
           H == IF failed THEN handled[d] ELSE handled[d] \cup {k}
<1>1. /\ d \in Device
      /\ S \in SessionState
      /\ SessionFacts(d, S, db[d], handled[d], log)
      /\ StoreFacts(d, db[d], handled[d], log)
      /\ db[d] \in Db
  BY OwnerFacts, DeviceFacts
<1>2. /\ log \in Seq(Device \X Nat)
      /\ Len(log) \in Nat
      /\ DOMAIN log = 1 .. Len(log)
  BY LenProperties DEF IInv, LogFacts
<1>3. S.pc = "apply" /\ S.cursor < S.last
  BY DEF ApplyOp
<1>4. S.cursor \in Nat /\ S.last \in Nat /\ S.last <= Len(log) /\ k \in Nat /\ k \in DOMAIN log
  BY <1>1, <1>2, <1>3 DEF SessionFacts, SessionState
<1>5. E \in Db /\ E.oplog = db[d].oplog /\ E.cursor = db[d].cursor
  <2>1. log[k] \in Device \X Nat
    BY <1>2, <1>4, ElementOfSeq
  <2>2. Op(log[k]) \in LoggedOp
    <3>1. log[k][1] \in Device /\ log[k][2] \in DOMAIN db[log[k][1]].oplog
      BY <1>4, <2>1 DEF IInv, LogFacts
    <3>2. QED
      BY <3>1, DeviceFacts, ElementOfSeq DEF Op
  <2>3. LET A == ApplyRemoteOp(db[d], Op(log[k]), log[k])
        IN A.db \in Db /\ A.db.oplog = db[d].oplog /\ A.db.cursor = db[d].cursor
    BY <1>1, <2>1, <2>2, ApplyRemoteOpType
  <2>4. QED
    BY <1>1, <2>3
<1>6. /\ db' = [db EXCEPT ![d] = E]
      /\ Goto(s, T)
      /\ handled' = [handled EXCEPT ![d] = H]
      /\ UNCHANGED <<log, faults, unlogged>>
  <2>1. CASE failed
    BY <2>1 DEF ApplyOp, IInv, Functional
  <2>2. CASE ~failed
    BY <2>2 DEF ApplyOp, IInv, Functional
  <2>3. QED
    BY <2>1, <2>2
<1> HIDE DEF r, E, failed
<1>7. /\ H \in SUBSET Nat
      /\ handled[d] \subseteq H
      /\ 1 .. T.cursor \subseteq H
      /\ T \in SessionState
      /\ T.sending = S.sending /\ T.waiting = S.waiting
      /\ T.pc \in {"apply", "failed"}
      /\ T.last = S.last /\ T.cursor <= T.last
  <2>1. handled[d] \in SUBSET Nat /\ 1 .. S.cursor \subseteq handled[d]
    BY <1>1, <1>3 DEF SessionFacts, StoreFacts
  <2>2. 1 .. k \subseteq (1 .. S.cursor) \cup {k}
    BY <1>4
  <2>3. CASE failed
    BY <2>1, <2>3, <1>1, <1>3, <1>4 DEF SessionState
  <2>4. CASE ~failed
    BY <2>1, <2>2, <2>4, <1>1, <1>3, <1>4 DEF SessionState
  <2>5. QED
    BY <2>3, <2>4
<1> HIDE DEF T, H
<1>8. StoreFacts(d, E, H, log) /\ DOMAIN db[d].oplog \subseteq DOMAIN E.oplog
  BY <1>1, <1>5, <1>7 DEF StoreFacts
<1>9. SessionFacts(d, T, E, H, log)
  BY <1>1, <1>4, <1>5, <1>7 DEF SessionFacts
<1>10. /\ handled' \in [Device -> SUBSET Nat]
       /\ handled'[d] = H
       /\ \A e \in Device : e # d => handled'[e] = handled[e]
  BY <1>1, <1>6, <1>7 DEF IInv, Functional
<1>11. sess' = [sess EXCEPT ![s] = T] /\ sess \in [Session -> SessionState]
  BY <1>6 DEF Goto, IInv, Functional
<1>12. /\ sess' \in [Session -> SessionState]
       /\ sess'[s] = T
       /\ \A q \in Session : q # s => sess'[q] = sess[q]
  BY <1>7, <1>11
<1>13. db'[d] = E
  BY <1>1, <1>6 DEF IInv, Functional
<1>14. SessionFacts(Owner[s], sess'[s], db'[Owner[s]], handled'[Owner[s]], log)
  BY <1>9, <1>10, <1>12, <1>13
<1>15. /\ faults' \in Nat
       /\ unlogged' \in SUBSET Object
       /\ log' = log
  BY <1>4, <1>6 DEF IInv, Functional
<1> HIDE DEF d, k
<1>16. QED
  BY <1>1, <1>6, <1>7, <1>8, <1>10, <1>12, <1>14, <1>15, DeviceStep

\* Saving a cursor up to which the session has dealt with everything.
LEMMA SaveInv ==
    ASSUME IInv, NEW s \in Session, NEW c \in Nat, NEW T,
           1 .. c \subseteq handled[Owner[s]],
           \A E : SessionFacts(Owner[s], sess[s], E, handled[Owner[s]], log)
                      => SessionFacts(Owner[s], T, E, handled[Owner[s]], log),
           db' = [db EXCEPT ![Owner[s]] = SetCursor(@, c)],
           Goto(s, T),
           UNCHANGED <<log, faults, handled, unlogged>>
    PROVE  IInv'
<1> DEFINE d == Owner[s]
           E == SetCursor(db[d], c)
<1>1. /\ d \in Device
      /\ SessionFacts(d, sess[s], db[d], handled[d], log)
      /\ StoreFacts(d, db[d], handled[d], log)
      /\ db[d] \in Db
  BY OwnerFacts, DeviceFacts
<1>2. E \in Db /\ E.oplog = db[d].oplog /\ E.cursor = c
  BY <1>1, SetCursorType
<1>3. db' = [db EXCEPT ![d] = E]
  OBVIOUS
<1> HIDE DEF E
<1>4. StoreFacts(d, E, handled[d], log) /\ DOMAIN db[d].oplog \subseteq DOMAIN E.oplog
  BY <1>1, <1>2 DEF StoreFacts
<1>5. SessionFacts(d, sess[s], E, handled[d], log)
  BY <1>1, <1>2 DEF SessionFacts
<1>6. SessionFacts(d, T, E, handled[d], log)
  BY <1>5
<1>7. sess' = [sess EXCEPT ![s] = T] /\ sess \in [Session -> SessionState] /\ T \in SessionState
  BY <1>6 DEF Goto, IInv, Functional, SessionFacts
<1>8. db'[d] = E
  BY <1>1, <1>3 DEF IInv, Functional
<1>9. SessionFacts(Owner[s], sess'[s], db'[Owner[s]], handled'[Owner[s]], log)
  BY <1>6, <1>7, <1>8
<1>10. sess' \in [Session -> SessionState] /\ \A q \in Session : q # s => sess'[q] = sess[q]
  BY <1>7
<1> HIDE DEF d
<1>11. QED
  BY <1>1, <1>3, <1>4, <1>9, <1>10, DeviceStep DEF IInv, Functional, d

LEMMA SavePageInv ==
    ASSUME IInv, NEW s \in Session, SavePage(s)
    PROVE  IInv'
<1> DEFINE d == Owner[s]
           S == sess[s]
           T == IF S.more THEN [S EXCEPT !.pc = "pull"] ELSE Idle
<1>1. SessionFacts(d, S, db[d], handled[d], log) /\ S \in SessionState
  BY OwnerFacts
<1>2. /\ S.pc = "apply" /\ S.cursor = S.last
      /\ db' = [db EXCEPT ![d] = SetCursor(@, S.last)]
      /\ Goto(s, T)
      /\ UNCHANGED <<log, faults, handled, unlogged>>
  BY DEF SavePage
<1>3. S.last \in Nat /\ 1 .. S.last \subseteq handled[d]
  BY <1>1, <1>2 DEF SessionFacts, SessionState
<1>4. ASSUME NEW E, SessionFacts(d, S, E, handled[d], log)
      PROVE  SessionFacts(d, T, E, handled[d], log)
  <2>1. CASE S.more
    <3>1. /\ T \in SessionState
          /\ T.pc = "pull" /\ T.cursor = S.cursor
          /\ T.sending = S.sending /\ T.waiting = S.waiting
      BY <1>1, <2>1 DEF SessionState
    <3> HIDE DEF T
    <3>2. QED
      BY <1>2, <1>4, <3>1 DEF SessionFacts
  <2>2. CASE ~S.more
    BY <2>2, IdleFacts
  <2>3. QED
    BY <2>1, <2>2
<1> HIDE DEF T
<1>5. QED
  BY <1>2, <1>3, <1>4, SaveInv

LEMMA SaveFailedInv ==
    ASSUME IInv, NEW s \in Session, SaveFailed(s)
    PROVE  IInv'
<1> DEFINE d == Owner[s]
           S == sess[s]
<1>1. SessionFacts(d, S, db[d], handled[d], log) /\ S \in SessionState
  BY OwnerFacts
<1>2. /\ S.pc = "failed"
      /\ db' = [db EXCEPT ![d] = SetCursor(@, S.cursor)]
      /\ Goto(s, Idle)
      /\ UNCHANGED <<log, faults, handled, unlogged>>
  BY DEF SaveFailed
<1>3. S.cursor \in Nat /\ 1 .. S.cursor \subseteq handled[d]
  BY <1>1, <1>2 DEF SessionFacts, SessionState
<1>4. \A E : SessionFacts(d, Idle, E, handled[d], log)
  BY IdleFacts
<1>5. QED
  BY <1>2, <1>3, <1>4, SaveInv

LEMMA LoseInv ==
    ASSUME IInv, NEW s \in Session, Lose(s)
    PROVE  IInv'
<1>1. faults' \in Nat
  BY DEF Lose, Fault, IInv, Functional
<1>2. QED
  BY <1>1, IdleFacts, SessionStep DEF Lose

\* What the death of device d's process does to the sessions.
Killed(d) == sess' = [s \in Session |-> IF Owner[s] = d THEN Idle ELSE sess[s]]

LEMMA KilledSessions ==
    ASSUME IInv, NEW d, Killed(d)
    PROVE  /\ sess' \in [Session -> SessionState]
           /\ \A s \in Session : sess'[s] = sess[s] \/ sess'[s] = Idle
<1>1. Idle \in SessionState
  BY DEF Idle, SessionState
<1>2. QED
  BY <1>1 DEF Killed, IInv, Functional

LEMMA CrashInv ==
    ASSUME IInv, NEW d \in Device, Crash(d)
    PROVE  IInv'
<1>1. /\ Killed(d)
      /\ faults' \in Nat
      /\ UNCHANGED <<db, log, handled, unlogged>>
  BY DEF Crash, Fault, Killed, IInv, Functional
<1>2. Functional'
  BY <1>1, KilledSessions DEF IInv, Functional
<1>3. LogFacts' /\ Extends(log, log')
  BY <1>1, ExtendsSelf DEF IInv, LogFacts
<1>4. \A s \in Session :
          \/ sess'[s] = sess[s]
          \/ SessionFacts(Owner[s], sess'[s], db'[Owner[s]], handled'[Owner[s]], log')
  BY <1>1, KilledSessions, IdleFacts
<1>5. \A e \in Device : /\ StoreFacts(e, db'[e], handled'[e], log')
                        /\ DOMAIN db[e].oplog \subseteq DOMAIN db'[e].oplog
                        /\ handled[e] \subseteq handled'[e]
  BY <1>1 DEF IInv
<1>6. QED
  BY <1>2, <1>3, <1>4, <1>5, GrowingStep

LEMMA TornWriteInv ==
    ASSUME IInv, NEW d \in Device, NEW o \in Object, NEW ts \in Stamp, TornWrite(d, o, ts)
    PROVE  IInv'
<1> DEFINE U == UpsertRow(db[d], o, ts, <<d, 0>>)
           R == DeleteRow(db[d], o)
<1>1. ts \in Nat /\ db[d] \in Db
  BY SyncAssumption, DeviceFacts
<1>2. /\ Killed(d)
      /\ faults' \in Nat
      /\ unlogged' \in SUBSET Object
      /\ UNCHANGED <<log, handled>>
      /\ db' = [db EXCEPT ![d] = U] \/ db' = [db EXCEPT ![d] = R]
  BY DEF TornWrite, Fault, Killed, IInv, Functional
<1>3. /\ U \in Db /\ U.oplog = db[d].oplog /\ U.cursor = db[d].cursor
      /\ R \in Db /\ R.oplog = db[d].oplog /\ R.cursor = db[d].cursor
  <2>1. <<d, 0>> \in Device \X Nat
    OBVIOUS
  <2>2. QED
    BY <1>1, <2>1, UpsertRowType, DeleteRowType
<1> HIDE DEF U, R
<1>4. PICK E \in {U, R} : db' = [db EXCEPT ![d] = E]
  BY <1>2
<1>5. StoreFacts(d, E, handled'[d], log) /\ DOMAIN db[d].oplog \subseteq DOMAIN E.oplog
  BY <1>2, <1>3, <1>4, DeviceFacts, RowsOnly
<1>6. \A s \in Session :
          \/ sess'[s] = sess[s]
          \/ SessionFacts(Owner[s], sess'[s], db'[Owner[s]], handled'[Owner[s]], log)
  BY <1>2, KilledSessions, IdleFacts
<1>7. sess' \in [Session -> SessionState]
  BY <1>2, KilledSessions
<1>8. QED
  BY <1>2, <1>4, <1>5, <1>6, <1>7, DeviceStep DEF IInv, Functional

-----------------------------------------------------------------------------
(* The theorems.                                                           *)

LEMMA NextInv == IInv /\ [Next]_vars => IInv'
<1> SUFFICES ASSUME IInv, [Next]_vars PROVE IInv'
  OBVIOUS
<1>1. CASE UNCHANGED vars
  BY <1>1 DEF vars, IInv, Functional, LogFacts
<1>2. ASSUME NEW d \in Device, User(d) PROVE IInv'
  BY <1>2, PutInv, DeleteInv, RegisterBookInv DEF User
<1>3. ASSUME NEW d \in Device, Crash(d) PROVE IInv'
  BY <1>3, CrashInv
<1>4. ASSUME NEW d \in Device, NEW o \in Object, NEW ts \in Stamp, TornWrite(d, o, ts)
      PROVE  IInv'
  BY <1>4, TornWriteInv
<1>5. ASSUME NEW s \in Session, Step(s) PROVE IInv'
  BY <1>5, ServerPushInv, MarkSyncedInv, ReadCursorInv, ServerPullInv, ApplyOpInv,
     SavePageInv, SaveFailedInv DEF Step
<1>6. ASSUME NEW s \in Session, Lose(s) PROVE IInv'
  BY <1>6, LoseInv
<1>7. ASSUME NEW s \in Session, NEW mode \in Modes, ReadUnsynced(s, mode) PROVE IInv'
  BY <1>7, ReadUnsyncedInv
<1>8. QED
  BY <1>1, <1>2, <1>3, <1>4, <1>5, <1>6, <1>7 DEF Next

\* The strengthened invariant holds of every behaviour.
THEOREM Invariance == Spec => []IInv
  BY InitInv, NextInv, PTL DEF Spec

\* The databases, the sessions and the server's log keep their types through
\* every call of db.rs and every step of the engine.
THEOREM TypeCorrect == Spec => []TypeOK
  BY Invariance, IInvImplies, PTL

\* No operation is lost: mark_ops_synced is only ever called with operations
\* that the server has committed, whatever is lost, crashes or runs twice.
THEOREM SyncedOpsAreOnServer == Spec => []SyncedIsOnServer
  BY Invariance, IInvImplies, PTL

\* The cursor that pull_remote saves never covers an operation that it did
\* not hand to the store, for any number of overlapping sessions.
THEOREM CursorIsCovered == Spec => []CursorCovers
  BY Invariance, IInvImplies, PTL

-----------------------------------------------------------------------------
(* Exactly once.                                                           *)

\* The push order is strict, so a request does not name an operation twice.
LEMMA BeforeIrreflexive ==
    ASSUME IInv, NEW d \in Device, NEW i \in DOMAIN db[d].oplog
    PROVE  ~Before(db[d], i, i)
<1>1. db[d].oplog[i] \in LoggedOp
  BY DeviceFacts, ElementOfSeq
<1>2. db[d].oplog[i].ts \in Nat /\ i \in Nat
  BY <1>1, DeviceFacts DEF LoggedOp
<1>3. QED
  BY <1>2 DEF Before

LEMMA ServerPushOnce ==
    ASSUME StableOpIds, IInv, PushedOnce, NEW s \in Session, ServerPush(s)
    PROVE  PushedOnce'
<1> DEFINE d == Owner[s]
           S == sess[s]
           ids == Fresh(d, S.sending)
           n == Len(db[d].oplog)
           c == Cardinality(ids)
<1>1. /\ d \in Device
      /\ S.sending \subseteq 1 .. n
      /\ n \in Nat
      /\ DOMAIN db[d].oplog = 1 .. n
  BY OwnerFacts, DeviceFacts DEF SessionFacts
<1>2. ids \in SUBSET (1 .. n)
  BY <1>1 DEF Fresh
<1>3. \A i \in ids : <<d, i>> \notin Pushed
  BY DEF Fresh
<1>4. PICK f \in Orderings(d, ids) : log' = log \o [k \in DOMAIN f |-> <<d, f[k]>>]
  BY DEF ServerPush
<1>5. f \in [1 .. c -> ids] /\ \A j, k \in 1 .. c : j < k => Before(db[d], f[j], f[k])
  BY <1>4 DEF Orderings
<1>6. c \in Nat
  <2> HIDE DEF ids, n
  <2>1. QED
    BY <1>1, <1>2, ChunkFinite
<1> HIDE DEF c, ids
<1>7. log \in Seq(Device \X Nat) /\ Len(log) \in Nat /\ DOMAIN log = 1 .. Len(log)
  BY LenProperties DEF IInv, LogFacts
<1> DEFINE M == log \o [k \in DOMAIN f |-> <<d, f[k]>>]
<1>8. /\ M \in Seq(Device \X Nat)
      /\ Len(M) = Len(log) + c
      /\ Extends(log, M)
      /\ \A k \in 1 .. c : M[Len(log) + k] = <<d, f[k]>>
  <2>1. ids \in SUBSET Nat
    BY <1>2
  <2> HIDE DEF d
  <2>2. QED
    BY <1>1, <1>5, <1>6, <1>7, <2>1, AppendFacts
<1>9. log' = M
  BY <1>4
<1> HIDE DEF M
<1>10. DOMAIN M = 1 .. Len(log) + c
  BY <1>8, LenProperties
\* An entry is an old one, or the entry of an operation of the request.
<1>11. ASSUME NEW k \in DOMAIN M, k \notin DOMAIN log
       PROVE  LET j == k - Len(log) IN j \in 1 .. c /\ M[k] = <<d, f[j]>> /\ f[j] \in ids
  <2>1. k - Len(log) \in 1 .. c /\ k = Len(log) + (k - Len(log))
    BY <1>6, <1>7, <1>10, <1>11
  <2>2. QED
    BY <1>5, <1>8, <2>1
<1>12. \A k \in DOMAIN log : M[k] \in Pushed
  BY <1>8 DEF Extends, Pushed
<1>13. ASSUME NEW j \in DOMAIN M, NEW k \in DOMAIN M, M[j] = M[k], j < k
       PROVE  FALSE
  <2>1. CASE k \in DOMAIN log
    <3>1. j \in DOMAIN log
      BY <1>7, <1>10, <1>13, <2>1
    <3>2. log[j] = log[k]
      BY <1>8, <1>13, <2>1, <3>1 DEF Extends
    <3>3. QED
      BY <1>7, <1>13, <2>1, <3>1, <3>2 DEF PushedOnce
  <2>2. CASE k \notin DOMAIN log /\ j \in DOMAIN log
    BY <1>3, <1>11, <1>12, <1>13, <2>2
  <2>3. CASE k \notin DOMAIN log /\ j \notin DOMAIN log
    <3> DEFINE x == j - Len(log)
               y == k - Len(log)
    <3>1. x \in 1 .. c /\ y \in 1 .. c /\ M[j] = <<d, f[x]>> /\ M[k] = <<d, f[y]>>
          /\ f[x] \in ids
      BY <1>11, <2>3
    <3>2. x < y
      BY <1>7, <1>10, <1>13
    <3>3. f[x] = f[y]
      <4>1. <<d, f[x]>> = <<d, f[y]>>
        BY <1>13, <3>1
      <4> HIDE DEF d, x, y
      <4>2. QED
        BY <4>1
    <3>4. Before(db[d], f[x], f[x])
      BY <1>5, <3>1, <3>2, <3>3
    <3>5. f[x] \in DOMAIN db[d].oplog
      BY <1>1, <1>2, <3>1
    <3>6. QED
      BY <1>1, <3>4, <3>5, BeforeIrreflexive
  <2>4. QED
    BY <2>1, <2>2, <2>3
<1>14. \A j, k \in DOMAIN M : M[j] = M[k] => j = k
  <2>1. \A j, k \in DOMAIN M : j < k \/ k < j \/ j = k
    BY <1>6, <1>7, <1>10
  <2>2. QED
    BY <1>13, <2>1
<1>15. QED
  BY <1>9, <1>14 DEF PushedOnce

\* "server handles dedup" (engine.rs): when every read of an operation gives
\* the same op_id, as the SyncStorage trait expects, the server's log holds
\* no operation twice, however requests are lost, repeated or overlapping.
THEOREM OpsArePushedOnce ==
    ASSUME StableOpIds
    PROVE  Spec => []PushedOnce
<1>1. Init => PushedOnce
  BY DEF Init, PushedOnce
<1>2. IInv /\ PushedOnce /\ [Next]_vars => PushedOnce'
  <2> SUFFICES ASSUME IInv, PushedOnce, [Next]_vars PROVE PushedOnce'
    OBVIOUS
  <2>1. CASE \E s \in Session : ServerPush(s)
    BY <2>1, ServerPushOnce
  <2>2. CASE ~\E s \in Session : ServerPush(s)
    <3>1. log' = log
      BY <2>2 DEF Next, vars, User, Put, Delete, RegisterBook, Crash, TornWrite, Step,
                  MarkSynced, ReadCursor, ServerPull, ApplyOp, SavePage, SaveFailed,
                  Lose, ReadUnsynced
    <3>2. QED
      BY <3>1 DEF PushedOnce
  <2>3. QED
    BY <2>1, <2>2
<1>3. QED
  BY <1>1, <1>2, Invariance, PTL DEF Spec
=============================================================================
