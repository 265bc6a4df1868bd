----------------------------- MODULE LocalStore -----------------------------
(***************************************************************************)
(* The SQLite store of one device (crates/core_storage/src/db.rs): the     *)
(* books table, the child tables that hang from it by a foreign key, the   *)
(* operation log and the pull cursor kept in sync_metadata.                *)
(*                                                                         *)
(* reading_progress, preferences, bookmarks and annotations are one        *)
(* function from objects to rows.  A Register object is a progress or      *)
(* preference row (last writer wins); the other objects are bookmarks and  *)
(* annotations (insert or replace, delete).  What a row holds is named by  *)
(* the operation that wrote it, <<device, op_log id>>.                     *)
(***************************************************************************)
EXTENDS Integers, Sequences, FiniteSets

CONSTANTS
    Device,    \* the devices of one account
    Book,      \* book ids
    Object,    \* ids of progress, preference, bookmark and annotation rows
    Register,  \* the objects resolved by last-writer-wins
    BookOf,    \* the book an object's row references, or NoBook
    NoBook,    \* a preference references no book
    NoRow      \* the object has no row

ASSUME StoreAssumption ==
    /\ Register \subseteq Object
    /\ BookOf \in [Object -> Book \cup {NoBook}]
    /\ NoBook \notin Book
    /\ NoRow \notin [ts : Nat, by : Device \X Nat]

Row == [ts : Nat, by : Device \X Nat]

LoggedOp == [type : {"put", "delete"}, obj : Object, ts : Nat, synced : BOOLEAN]

Db == [books  : SUBSET Book,
       rows   : [Object -> Row \cup {NoRow}],
       oplog  : Seq(LoggedOp),
       cursor : Nat]

\* Mutant of EmptyDb: a cursor that was never saved is not read as 0.
EmptyDbUnset(bs) == [books |-> bs, rows |-> [o \in Object |-> NoRow],
                     oplog |-> << >>, cursor |-> NoRow]

\* A fresh database in which the books of bs have been registered.
EmptyDb(bs) == [books  |-> bs,
                rows   |-> [o \in Object |-> NoRow],
                oplog  |-> << >>,
                cursor |-> 0]

-----------------------------------------------------------------------------
(* The tables.                                                             *)

\* The foreign key of the child tables, enforced by PRAGMA foreign_keys=ON.
CanHold(db, o) == BookOf[o] = NoBook \/ BookOf[o] \in db.books

\* INSERT OR REPLACE into a child table; the caller has checked CanHold.
UpsertRow(db, o, ts, by) == [db EXCEPT !.rows[o] = [ts |-> ts, by |-> by]]

DeleteRow(db, o) == [db EXCEPT !.rows[o] = NoRow]

\* INSERT OR REPLACE into books deletes an existing row first, and the
\* children of a deleted book go with it (ON DELETE CASCADE).
UpsertBook(db, b) ==
    [db EXCEPT !.books = @ \cup {b},
               !.rows  = [o \in Object |-> IF BookOf[o] = b THEN NoRow ELSE @[o]]]

-----------------------------------------------------------------------------
(* The operation log and the cursor.                                       *)

\* The id of the next op_log row (AUTOINCREMENT, rows are never deleted).
NextId(db) == Len(db.oplog) + 1

WriteOpLog(db, type, o, ts) ==
    [db EXCEPT !.oplog =
        Append(@, [type |-> type, obj |-> o, ts |-> ts, synced |-> FALSE])]

UnsyncedIds(db) == {i \in DOMAIN db.oplog : ~db.oplog[i].synced}

\* Mutant of Before: newest first.
BeforeReversed(db, i, j) ==
    \/ db.oplog[i].ts > db.oplog[j].ts
    \/ db.oplog[i].ts = db.oplog[j].ts /\ i > j

\* ORDER BY hlc_ts over the (synced, hlc_ts) index: equal stamps by row id.
Before(db, i, j) ==
    \/ db.oplog[i].ts < db.oplog[j].ts
    \/ db.oplog[i].ts = db.oplog[j].ts /\ i < j

\* Mutant of MarkOpsSynced: every row, not only the ones that were pushed.
MarkAllSynced(db, ids) ==
    [db EXCEPT !.oplog = [i \in DOMAIN @ |-> [@[i] EXCEPT !.synced = TRUE]]]

MarkOpsSynced(db, ids) ==
    [db EXCEPT !.oplog =
        [i \in DOMAIN @ |-> IF i \in ids THEN [@[i] EXCEPT !.synced = TRUE] ELSE @[i]]]

SetCursor(db, c) == [db EXCEPT !.cursor = c]

-----------------------------------------------------------------------------
(* apply_remote_op: what the store does with an operation that was pulled. *)
(* The result names why nothing was written: "lost" is the LWW loser,      *)
(* "dropped" the insert whose error the code takes for a duplicate (both   *)
(* Ok(false)), "failed" the error that stops the pull.                     *)

\* Mutant of Newer: the comparison is left out.
NewerAlways(db, o, ts) == TRUE

\* Stored stamps are compared; a missing row counts as stamp 0.
Newer(db, o, ts) == ts > (IF db.rows[o] = NoRow THEN 0 ELSE db.rows[o].ts)

ApplyPut(db, o, ts, by) ==
    IF o \in Register /\ ~Newer(db, o, ts) THEN [db |-> db, res |-> "lost"]
    ELSE IF CanHold(db, o)
         THEN [db |-> UpsertRow(db, o, ts, by), res |-> "applied"]
         ELSE [db |-> db, res |-> IF o \in Register THEN "failed" ELSE "dropped"]

ApplyDelete(db, o) == [db |-> DeleteRow(db, o), res |-> "applied"]

ApplyRemoteOp(db, op, by) ==
    IF op.type = "put" THEN ApplyPut(db, op.obj, op.ts, by) ELSE ApplyDelete(db, op.obj)
=============================================================================
