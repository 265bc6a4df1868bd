----------------------------- MODULE SyncEngine -----------------------------
(***************************************************************************)
(* Operation synchronisation between the devices of one account.           *)
(*                                                                         *)
(*  - each device's StateManager writes a row and then logs the operation  *)
(*    (crates/core_state/src/lib.rs);                                      *)
(*  - sync sessions, each one run of SyncEngine::push_pending, pull_remote *)
(*    or sync, move operations between the device's store and the server   *)
(*    (crates/core_sync/src/engine.rs).  A session holds the store's lock  *)
(*    only for one call, so every call is a step of its own;               *)
(*  - the server keeps the account's operations in one numbered log        *)
(*    (crates/backend/src/handlers/sync.rs).                               *)
(*                                                                         *)
(* An entry <<d, i>> of the server's log stands for the operation that     *)
(* device d logged as row i, pushed by device d; its server_seq is its     *)
(* position (the gaps that other accounts leave are not represented).      *)
(***************************************************************************)
EXTENDS LocalStore

CONSTANTS
    Session,        \* sync sessions: manual calls and the scheduler's cycles
    Owner,          \* the device a session runs on
    InitialBooks,   \* the books registered on each device at the start
    Registrable,    \* the books a user may register (again) during a run
    Modes,          \* the calls that push: "push" and "sync"
    Stamp,          \* the hlc timestamps a caller may pass
    StableOpIds,    \* TRUE: a logged operation keeps one op_id (SyncStorage's
                    \* contract); FALSE: each read mints a new one (ffi_c)
    OwnDeviceKnown, \* TRUE: the engine's device_id is the device the token
                    \* names; FALSE: it is the constant "ffi" (ffi_c)
    OrderedClocks,  \* TRUE: stamps are unique and grow along what a device
                    \* has seen, as HLC timestamps do; FALSE: any stamp
    Faults,         \* the faults that may happen, out of FaultKind
    MaxFaults,      \* bound: faults per behaviour
    MaxOps,         \* bound: operations logged per device
    BatchSize,      \* operations per push request (500 in the code)
    PageSize        \* operations per pull request (100 in the code)

FaultKind == {"network", "crash", "torn"}

ASSUME SyncAssumption ==
    /\ Owner \in [Session -> Device]
    /\ InitialBooks \in [Device -> SUBSET Book]
    /\ Registrable \subseteq Book
    /\ Modes \subseteq {"push", "sync"}
    /\ Stamp \subseteq Nat \ {0}
    /\ StableOpIds \in BOOLEAN /\ OwnDeviceKnown \in BOOLEAN /\ OrderedClocks \in BOOLEAN
    /\ Faults \subseteq FaultKind
    /\ MaxFaults \in Nat /\ MaxOps \in [Device -> Nat]
    /\ BatchSize \in Nat \ {0} /\ PageSize \in Nat \ {0}

VARIABLES
    db,       \* [Device -> Db], survives crashes
    log,      \* the server's operation log of the account
    sess,     \* the volatile state of each session
    faults,   \* faults so far
    handled,  \* history: per device, the server_seqs it dealt with
    unlogged  \* history: objects changed on some device with no operation logged

vars == <<db, log, sess, faults, handled, unlogged>>

Op(e) == db[e[1]].oplog[e[2]]

Pushed == {log[k] : k \in DOMAIN log}

Idle == [pc |-> "idle", mode |-> "none", sending |-> {}, waiting |-> {},
         cursor |-> 0, last |-> 0, more |-> FALSE]

Init ==
    /\ db = [d \in Device |-> EmptyDb(InitialBooks[d])]
    /\ log = << >>
    /\ sess = [s \in Session |-> Idle]
    /\ faults = 0
    /\ handled = [d \in Device |-> {}]
    /\ unlogged = {}

-----------------------------------------------------------------------------
(* What the user does on a device.  An FFI call holds the engine lock from *)
(* the first statement to the last; only a crash can come between them.    *)

StampOK(d, o, ts) ==
    OrderedClocks =>
        /\ \A e \in Device : \A i \in DOMAIN db[e].oplog : db[e].oplog[i].ts # ts
        /\ \A i \in DOMAIN db[d].oplog : db[d].oplog[i].ts < ts
        /\ (db[d].rows[o] # NoRow => db[d].rows[o].ts < ts)

\* Bookmark and annotation ids are UUIDs minted when the row is first added.
IdOK(o) ==
    o \in Register \/ \A d \in Device :
        /\ db[d].rows[o] = NoRow
        /\ \A i \in DOMAIN db[d].oplog : db[d].oplog[i].obj # o

\* update_progress, set_preference, add_bookmark, add_annotation; a foreign
\* key error returns before the operation is logged and changes nothing.
Put(d, o, ts) ==
    /\ NextId(db[d]) <= MaxOps[d]
    /\ StampOK(d, o, ts)
    /\ IdOK(o)
    /\ CanHold(db[d], o)
    /\ LET row == UpsertRow(db[d], o, ts, <<d, NextId(db[d])>>)
       IN db' = [db EXCEPT ![d] = WriteOpLog(row, "put", o, ts)]
    /\ UNCHANGED <<log, sess, faults, handled, unlogged>>

\* delete_bookmark, delete_annotation: logged only when a row was deleted.
Delete(d, o, ts) ==
    /\ NextId(db[d]) <= MaxOps[d]
    /\ StampOK(d, o, ts)
    /\ o \notin Register
    /\ db[d].rows[o] # NoRow
    /\ db' = [db EXCEPT ![d] = WriteOpLog(DeleteRow(@, o), "delete", o, ts)]
    /\ UNCHANGED <<log, sess, faults, handled, unlogged>>

\* register_book, also of a book that is registered already.
RegisterBook(d, b) ==
    /\ b \in Registrable
    /\ db' = [db EXCEPT ![d] = UpsertBook(@, b)]
    /\ unlogged' = unlogged \cup
           {o \in Object : BookOf[o] = b /\ db[d].rows[o] # NoRow}
    /\ UNCHANGED <<log, sess, faults, handled>>

-----------------------------------------------------------------------------
(* push_pending.                                                           *)

Goto(s, state) == sess' = [sess EXCEPT ![s] = state]

\* Where a session goes when its push is over: sync continues with the pull.
AfterPush(mode) ==
    IF mode = "sync" THEN [Idle EXCEPT !.pc = "readCursor", !.mode = mode] ELSE Idle

\* The session about to send the first BatchSize of ids, in push order.
SendChunk(d, mode, ids) ==
    LET chunk == {i \in ids :
            Cardinality({j \in ids : Before(db[d], j, i)}) < BatchSize}
    IN [Idle EXCEPT !.pc = "push", !.mode = mode,
                    !.sending = chunk, !.waiting = ids \ chunk]

ReadUnsynced(s, mode) ==
    /\ sess[s].pc = "idle"
    /\ LET d == Owner[s]  ids == UnsyncedIds(db[d])
       IN Goto(s, IF ids = {} THEN AfterPush(mode) ELSE SendChunk(d, mode, ids))
    /\ UNCHANGED <<db, log, faults, handled, unlogged>>

\* The rows of the request in its order: ids enumerated by Before.
Orderings(d, ids) ==
    {f \in [1 .. Cardinality(ids) -> ids] :
        /\ {f[k] : k \in DOMAIN f} = ids
        /\ \A j, k \in DOMAIN f : j < k => Before(db[d], f[j], f[k])}

\* Mutant of Fresh: the server does not look for the op_id.
FreshUnchecked(d, ids) == ids

\* The operations of a request whose op_id the server has not seen.
Fresh(d, ids) == {i \in ids : ~(StableOpIds /\ <<d, i>> \in Pushed)}

\* The server's push handler: one transaction that skips op_ids it has and
\* appends the rest under the device the token names.
ServerPush(s) ==
    LET d == Owner[s]
    IN /\ sess[s].pc = "push"
       /\ \E f \in Orderings(d, Fresh(d, sess[s].sending)) :
              log' = log \o [k \in DOMAIN f |-> <<d, f[k]>>]
       /\ Goto(s, [sess[s] EXCEPT !.pc = "reply"])
       /\ UNCHANGED <<db, faults, handled, unlogged>>

\* The reply arrives: mark the chunk, then send the next one.
MarkSynced(s) ==
    /\ sess[s].pc = "reply"
    /\ LET d == Owner[s]  S == sess[s]
       IN /\ db' = [db EXCEPT ![d] = MarkOpsSynced(@, S.sending)]
          /\ Goto(s, IF S.waiting = {} THEN AfterPush(S.mode)
                     ELSE SendChunk(d, S.mode, S.waiting))
    /\ UNCHANGED <<log, faults, handled, unlogged>>

-----------------------------------------------------------------------------
(* pull_remote.                                                            *)

\* The first step of a pull, on its own or after the push of a sync.
ReadCursor(s) ==
    /\ sess[s].pc \in {"idle", "readCursor"}
    /\ Goto(s, [Idle EXCEPT !.pc = "pull",
                            !.mode = IF sess[s].pc = "idle" THEN "pull" ELSE sess[s].mode,
                            !.cursor = db[Owner[s]].cursor])
    /\ UNCHANGED <<db, log, faults, handled, unlogged>>

\* Mutant of PageEnd: the page ends one operation early.
PageEndShort(c) == IF Len(log) - c > PageSize THEN c + PageSize ELSE Len(log) - 1

\* The last server_seq of the page that follows cursor c.
PageEnd(c) == IF Len(log) - c > PageSize THEN c + PageSize ELSE Len(log)

\* The server's pull handler; an empty page ends the pull.
ServerPull(s) ==
    LET c == sess[s].cursor
    IN /\ sess[s].pc = "pull"
       /\ Goto(s, IF PageEnd(c) <= c THEN Idle
                  ELSE [sess[s] EXCEPT !.pc = "apply", !.last = PageEnd(c),
                                       !.more = Len(log) > PageEnd(c)])
       /\ UNCHANGED <<db, log, faults, handled, unlogged>>

\* One operation of the page: skipped when it is the device's own, otherwise
\* given to the store; an error ends the page.
ApplyOp(s) ==
    LET d == Owner[s]
        k == sess[s].cursor + 1
        r == IF OwnDeviceKnown /\ log[k][1] = d
             THEN [db |-> db[d], res |-> "own"]
             ELSE ApplyRemoteOp(db[d], Op(log[k]), log[k])
    IN /\ sess[s].pc = "apply"
       /\ sess[s].cursor < sess[s].last
       /\ db' = [db EXCEPT ![d] = r.db]
       /\ IF r.res = "failed"
          THEN /\ Goto(s, [sess[s] EXCEPT !.pc = "failed"])
               /\ UNCHANGED handled
          ELSE /\ Goto(s, [sess[s] EXCEPT !.cursor = k])
               /\ handled' = [handled EXCEPT ![d] = @ \cup {k}]
       /\ UNCHANGED <<log, faults, unlogged>>

\* The page is done: save next_cursor and go on when there is more.
SavePage(s) ==
    /\ sess[s].pc = "apply"
    /\ sess[s].cursor = sess[s].last
    /\ db' = [db EXCEPT ![Owner[s]] = SetCursor(@, sess[s].last)]
    /\ Goto(s, IF sess[s].more THEN [sess[s] EXCEPT !.pc = "pull"] ELSE Idle)
    /\ UNCHANGED <<log, faults, handled, unlogged>>

\* Mutant of SaveFailed: saves next_cursor although the page failed.
SaveFailedPage(s) ==
    /\ sess[s].pc = "failed"
    /\ db' = [db EXCEPT ![Owner[s]] = SetCursor(@, sess[s].last)]
    /\ Goto(s, Idle)
    /\ UNCHANGED <<log, faults, handled, unlogged>>

\* The page failed: save the last operation that was applied and give up.
SaveFailed(s) ==
    /\ sess[s].pc = "failed"
    /\ db' = [db EXCEPT ![Owner[s]] = SetCursor(@, sess[s].cursor)]
    /\ Goto(s, Idle)
    /\ UNCHANGED <<log, faults, handled, unlogged>>

-----------------------------------------------------------------------------
(* Faults.                                                                 *)

Fault(kind) ==
    /\ kind \in Faults
    /\ faults < MaxFaults
    /\ faults' = faults + 1

\* A request or its response is lost, or times out: the error ends the
\* session with nothing saved.  In "reply" the server has committed.
Lose(s) ==
    /\ Fault("network")
    /\ sess[s].pc \in {"push", "reply", "pull"}
    /\ Goto(s, Idle)
    /\ UNCHANGED <<db, log, handled, unlogged>>

\* The device's process dies: its sessions are gone, its database stays.
Crash(d) ==
    /\ Fault("crash")
    /\ \E s \in Session : Owner[s] = d /\ sess[s].pc # "idle"
    /\ sess' = [s \in Session |-> IF Owner[s] = d THEN Idle ELSE sess[s]]
    /\ UNCHANGED <<db, log, handled, unlogged>>

\* The process dies between the row's statement and the op_log's.
TornWrite(d, o, ts) ==
    /\ Fault("torn")
    /\ StampOK(d, o, ts)
    /\ \/ /\ IdOK(o)
          /\ CanHold(db[d], o)
          /\ db' = [db EXCEPT ![d] = UpsertRow(@, o, ts, <<d, 0>>)]
       \/ /\ o \notin Register
          /\ db[d].rows[o] # NoRow
          /\ db' = [db EXCEPT ![d] = DeleteRow(@, o)]
    /\ unlogged' = unlogged \cup {o}
    /\ sess' = [s \in Session |-> IF Owner[s] = d THEN Idle ELSE sess[s]]
    /\ UNCHANGED <<log, handled>>

-----------------------------------------------------------------------------

User(d) ==
    \/ \E o \in Object, ts \in Stamp : Put(d, o, ts) \/ Delete(d, o, ts)
    \/ \E b \in Book : RegisterBook(d, b)

Step(s) ==
    \/ ServerPush(s) \/ MarkSynced(s)
    \/ ReadCursor(s) \/ ServerPull(s) \/ ApplyOp(s) \/ SavePage(s) \/ SaveFailed(s)

Next ==
    \/ \E d \in Device : User(d) \/ Crash(d)
    \/ \E d \in Device, o \in Object, ts \in Stamp : TornWrite(d, o, ts)
    \/ \E s \in Session : Step(s) \/ Lose(s)
    \/ \E s \in Session, mode \in Modes : ReadUnsynced(s, mode)

Spec == Init /\ [][Next]_vars

\* The 30 second poll starts a sync over and over, whatever other sessions do
\* in between (strong fairness); a session that is running goes on (weak).
Fairness ==
    /\ \A s \in Session : WF_vars(Step(s) /\ sess[s].pc # "idle")
    /\ \A s \in Session : SF_vars(ReadUnsynced(s, "sync"))

FairSpec == Spec /\ Fairness

-----------------------------------------------------------------------------
(* Properties.                                                             *)

SessionState ==
    [pc : {"idle", "push", "reply", "readCursor", "pull", "apply", "failed"},
     mode : {"none", "push", "pull", "sync"},
     sending : SUBSET Nat, waiting : SUBSET Nat,
     cursor : Nat, last : Nat, more : BOOLEAN]

\* The types of the variables, of the stores and of the sessions.
TypeOK ==
    /\ db \in [Device -> Db]
    /\ log \in Seq(Device \X Nat)
    /\ sess \in [Session -> SessionState]
    /\ faults \in Nat
    /\ handled \in [Device -> SUBSET Nat]
    /\ unlogged \subseteq Object

\* No operation is lost: an operation marked synced is in the server's log,
\* whatever requests, replies or processes were lost on the way.
SyncedIsOnServer ==
    \A d \in Device : \A i \in DOMAIN db[d].oplog :
        db[d].oplog[i].synced => <<d, i>> \in Pushed

\* The saved cursor never moves past an operation that the store has not been
\* given ("stopping pull to prevent data loss"), whatever page failed, was cut
\* by a crash or was applied twice by two sessions.
CursorCovers ==
    \A d \in Device : 1 .. db[d].cursor \subseteq handled[d]

\* "server handles dedup": no operation is in the server's log twice.
PushedOnce ==
    \A j, k \in DOMAIN log : log[j] = log[k] => j = k

\* Everything logged is marked, everything in the log was pulled, nothing runs.
Quiescent ==
    /\ \A s \in Session : sess[s] = Idle
    /\ \A d \in Device : UnsyncedIds(db[d]) = {} /\ db[d].cursor = Len(log)

Agree(o) == \A d, e \in Device :
    CanHold(db[d], o) /\ CanHold(db[e], o) => db[d].rows[o] = db[e].rows[o]

\* When all is exchanged, every device shows the same reading progress and
\* the same preferences, unless one of them changed outside the log.
RegistersConverge ==
    Quiescent => \A o \in Register \ unlogged : Agree(o)

\* When all is exchanged, every device shows the same bookmarks and annotations.
BookmarksConverge ==
    Quiescent => \A o \in Object \ (Register \cup unlogged) : Agree(o)

\* Every logged operation reaches the server and then every device's cursor,
\* lost requests and replies notwithstanding.
EventuallyDelivered ==
    \A d, e \in Device : \A i \in 1 .. MaxOps[d] :
        (i <= Len(db[d].oplog)) ~> (\E k \in 1 .. db[e].cursor : log[k] = <<d, i>>)

\* Under SyncStorage's contract and one session at a time, synchronisation is
\* exactly-once, in-order delivery with a cursor that never goes back.
Delivery == INSTANCE OpDelivery WITH
    issued <- [d \in Device |-> Len(db[d].oplog)],
    log <- log,
    position <- [d \in Device |-> db[d].cursor]

ImplementsDelivery == Delivery!Spec
=============================================================================
