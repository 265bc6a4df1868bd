---------------------------- MODULE EngineHandle ----------------------------
(***************************************************************************)
(* The C interface of the engine (crates/ffi_c/src/lib.rs): one engine per *)
(* process, kept in globals that have a mutex each, and called from        *)
(* threads of the application.                                             *)
(*                                                                         *)
(* ENGINE is held through the whole of an init, SYNC_SCHEDULER while a     *)
(* scheduler is stopped; the other mutexes only for one look or one        *)
(* assignment, which is one step here.  An operation of an AuthManager is  *)
(* one step as well: how these interleave is the subject of AuthSession.   *)
(* Of the scheduler only its place in SYNC_SCHEDULER is kept: start spawns *)
(* a task from a thread that is not in the runtime, panics, and leaves the *)
(* mutex poisoned.  All databases lie in one directory, with one token     *)
(* file next to them.  A call that returns at once changes nothing and is  *)
(* no step.                                                                *)
(***************************************************************************)
EXTENDS Naturals, FiniteSets

CONSTANTS
    Caller,    \* threads of the application
    Db,        \* database paths
    MaxInits,  \* bound: engines created
    MaxCalls,  \* bound: calls other than inits
    MaxOps,    \* bound: operations logged per database
    None

Manager == 1 .. MaxInits          \* AuthManagers: one per engine, if it has a URL
Thread == Caller \cup Manager     \* thread g is the background refresh of manager g

ASSUME EngineHandleAssumption ==
    /\ MaxInits \in Nat /\ MaxCalls \in Nat /\ MaxOps \in Nat
    /\ Caller \cap Manager = {}
    /\ None \notin Db \cup Thread

VARIABLES
    glob,      \* ENGINE (its database), SYNC_SCHEDULER, AUTH_MANAGER, BASE_URL
    lock,      \* who holds ENGINE and SYNC_SCHEDULER over several steps
    mgr,       \* the state of each manager
    saved,     \* is there a token file?
    thread,    \* the call that each thread is in
    db,        \* op_log: number of operations, and those marked synced
    sent,      \* operations that the server has
    told,      \* what the auth callback was last given
    count,     \* calls and engines so far
    history

vars == <<glob, lock, mgr, saved, thread, db, sent, told, count, history>>

AuthState == {"LoggedOut", "Authenticated", "NeedsRefresh", "NeedsReLogin"}
Scheduler == {"none", "made", "poisoned"}

\* A call of the auth interface: what it asks of the manager, whether the
\* callback is told when that succeeds and when it fails, and whether the answer
\* goes through the engine's return buffer.
Plan(does, ok, err, answer) == [does |-> does, ok |-> ok, err |-> err, answer |-> answer]
Register       == Plan("nothing", FALSE, FALSE, TRUE)
Login          == Plan("login", TRUE, FALSE, TRUE)
Logout         == Plan("logout", TRUE, FALSE, FALSE)
GetToken       == Plan("token", TRUE, TRUE, TRUE)
RefreshToken   == Plan("refresh", TRUE, TRUE, TRUE)
ChangePassword == Plan("token", FALSE, TRUE, FALSE)    \* and remove_device
ListDevices    == Plan("token", FALSE, TRUE, TRUE)
Background     == Plan("refresh", TRUE, TRUE, FALSE)
SyncToken      == Plan("token", FALSE, FALSE, FALSE)
AuthCalls == {Register, Login, Logout, GetToken, RefreshToken, ChangePassword, ListDevices}

\* What the calls keep on their stacks.
Idle == [call |-> "none", at |-> "idle", plan |-> SyncToken, mgr |-> 0, db |-> None,
         batch |-> {}, code |-> None]

Init ==
    /\ glob = [engine |-> None, sched |-> "none", auth |-> 0, url |-> 0]
    /\ lock = [engine |-> None, sched |-> None]
    /\ mgr = [g \in Manager |-> "LoggedOut"]
    /\ saved \in BOOLEAN
    /\ thread = [t \in Thread |-> Idle]
    /\ db = [d \in Db |-> [ops |-> 0, synced |-> {}]]
    /\ sent = {}
    /\ told = None
    /\ count = [calls |-> 0, inits |-> 0]
    /\ history = [overlap |-> FALSE, crossed |-> {}, why |-> {}]

At(t, pc) == thread[t].at = pc
Goto(t, pc) == thread' = [thread EXCEPT ![t].at = pc]
Return(t) == thread' = [thread EXCEPT ![t] = Idle]
Free(l) == lock[l] = None
Take(t, l) == Free(l) /\ lock' = [lock EXCEPT ![l] = t]
\* The end of a scope drops its guards.
GiveBack(t) == lock' = [l \in DOMAIN lock |-> IF lock[l] = t THEN None ELSE lock[l]]
Set(global, value) == glob' = [glob EXCEPT ![global] = value]

Lifecycle == {"init", "destroy"}
Beside(t) == {thread[s].call : s \in Caller \ {t}} \ {"none"}

\* A call begins.  History: an init or a destroy overlaps with another call.
Begin(t, call, start) ==
    /\ t \in Caller /\ At(t, "idle") /\ count.calls < MaxCalls
    /\ thread' = [thread EXCEPT ![t] = [start EXCEPT !.call = call]]
    /\ history' = [history EXCEPT !.overlap =
           @ \/ Beside(t) \cap Lifecycle # {} \/ (call \in Lifecycle /\ Beside(t) # {})]

-----------------------------------------------------------------------------
(* reader_engine_init *)

InitEnter(t, d) ==
    /\ glob.engine = None /\ count.inits < MaxInits
    /\ t \in Caller /\ At(t, "idle")
    /\ Take(t, "engine")
    /\ Set("engine", d)
    /\ count' = [count EXCEPT !.inits = @ + 1]
    /\ thread' = [thread EXCEPT ![t] = [Idle EXCEPT !.call = "init", !.at = "init sched",
                                                    !.mgr = count.inits + 1, !.db = d]]
    /\ LET syncs == {s \in Caller : thread[s].call = "sync" /\ thread[s].db \notin {None, d}}
       IN history' = [history EXCEPT !.overlap = @ \/ Beside(t) # {},
                                     !.crossed = IF syncs = {} THEN @ ELSE @ \cup {d}]
    /\ UNCHANGED <<mgr, saved, db, sent, told>>

\* A poisoned SYNC_SCHEDULER ends the call: there is an engine and nothing else.
InitSched(t) ==
    /\ At(t, "init sched") /\ Free("sched")
    /\ \/ glob.sched = "poisoned" /\ Return(t) /\ GiveBack(t) /\ UNCHANGED glob
       \/ glob.sched # "poisoned" /\ Goto(t, "init auth") /\ Set("sched", "none") /\ UNCHANGED lock
    /\ UNCHANGED <<mgr, saved, db, sent, told, count, history>>

InitAuth(t) ==
    /\ At(t, "init auth") /\ Set("auth", 0) /\ Goto(t, "init url")
    /\ UNCHANGED <<lock, mgr, saved, db, sent, told, count, history>>

\* Without a base URL this is all.
InitUrl(t) ==
    /\ At(t, "init url") /\ Set("url", 0)
    /\ \/ Goto(t, "set url") /\ UNCHANGED lock
       \/ Return(t) /\ GiveBack(t)
    /\ UNCHANGED <<mgr, saved, db, sent, told, count, history>>

InitSetUrl(t) ==
    /\ At(t, "set url") /\ Set("url", thread[t].mgr) /\ Goto(t, "set auth")
    /\ UNCHANGED <<lock, mgr, saved, db, sent, told, count, history>>

\* AuthManager::new looks for a token file.
InitSetAuth(t) ==
    /\ At(t, "set auth") /\ Set("auth", thread[t].mgr) /\ Goto(t, "state")
    /\ mgr' = [mgr EXCEPT ![thread[t].mgr] = IF saved THEN "NeedsRefresh" ELSE "LoggedOut"]
    /\ UNCHANGED <<lock, saved, db, sent, told, count, history>>

(* reader_engine_destroy: each lock is given back before the next is taken. *)

DestroyEnter(t) ==
    /\ glob.sched # "poisoned"
    /\ Begin(t, "destroy", [Idle EXCEPT !.at = "stop"])
    /\ Take(t, "sched")
    /\ count' = [count EXCEPT !.calls = @ + 1]
    /\ UNCHANGED <<glob, mgr, saved, db, sent, told>>

\* Mutant of DestroyStop: the guard lives until the end of the call.
DestroyStopHolding(t) ==
    /\ At(t, "stop") /\ Set("sched", "none") /\ Goto(t, "destroy auth")
    /\ UNCHANGED <<lock, mgr, saved, db, sent, told, count, history>>

DestroyStop(t) ==
    /\ At(t, "stop") /\ Set("sched", "none") /\ GiveBack(t) /\ Goto(t, "destroy auth")
    /\ UNCHANGED <<mgr, saved, db, sent, told, count, history>>

\* Mutant of DestroyAuth: the manager is forgotten.
DestroyKeepsAuth(t) ==
    /\ At(t, "destroy auth") /\ Goto(t, "destroy url")
    /\ UNCHANGED <<glob, lock, mgr, saved, db, sent, told, count, history>>

DestroyAuth(t) ==
    /\ At(t, "destroy auth") /\ Set("auth", 0) /\ Goto(t, "destroy url")
    /\ UNCHANGED <<lock, mgr, saved, db, sent, told, count, history>>

DestroyUrl(t) ==
    /\ At(t, "destroy url") /\ Set("url", 0) /\ Goto(t, "destroy engine")
    /\ UNCHANGED <<lock, mgr, saved, db, sent, told, count, history>>

DestroyEngine(t) ==
    /\ At(t, "destroy engine") /\ Free("engine")
    /\ Set("engine", None) /\ Return(t) /\ GiveBack(t)
    /\ UNCHANGED <<mgr, saved, db, sent, told, count, history>>

-----------------------------------------------------------------------------
(* reader_sync_start_scheduler *)

StartEnter(t) ==
    /\ glob.auth # 0
    /\ Begin(t, "start", [Idle EXCEPT !.at = "ensure"])
    /\ count' = [count EXCEPT !.calls = @ + 1]
    /\ UNCHANGED <<glob, lock, mgr, saved, db, sent, told>>

\* BASE_URL is read while SYNC_SCHEDULER is held.
EnsureScheduler(t) ==
    /\ At(t, "ensure") /\ Free("sched")
    /\ CASE glob.sched = "made" -> Goto(t, "start") /\ UNCHANGED glob
         [] glob.sched = "none" /\ glob.url # 0 -> Goto(t, "start") /\ Set("sched", "made")
         [] OTHER -> Return(t) /\ UNCHANGED glob
    /\ UNCHANGED <<lock, mgr, saved, db, sent, told, count, history>>

\* The panic is caught and reported, but the guard was dropped by it.
StartPanics(t) ==
    /\ At(t, "start") /\ Free("sched")
    /\ Set("sched", IF glob.sched = "made" THEN "poisoned" ELSE glob.sched)
    /\ Return(t)
    /\ UNCHANGED <<lock, mgr, saved, db, sent, told, count, history>>

-----------------------------------------------------------------------------
(* The auth calls, on a clone of the manager *)

AuthEnter(t, plan) ==
    /\ glob.auth # 0
    /\ Begin(t, "auth", [Idle EXCEPT !.at = "manager", !.plan = plan, !.mgr = glob.auth])
    /\ count' = [count EXCEPT !.calls = @ + 1]
    /\ UNCHANGED <<glob, lock, mgr, saved, db, sent, told>>

Result(ok, state, file) == [ok |-> ok, state |-> state, saved |-> file]

\* AuthManager::refresh: renewed; refused, and the file may resist its removal;
\* not answered; or the new token cannot be saved.  Without a token it fails.
Refreshed(s) ==
    IF s \in {"Authenticated", "NeedsRefresh"}
    THEN {Result(TRUE, "Authenticated", TRUE), Result(FALSE, "NeedsRefresh", saved),
          Result(FALSE, s, saved)} \cup {Result(FALSE, "NeedsReLogin", f) : f \in {FALSE, saved}}
    ELSE {Result(FALSE, s, saved)}

Results(does, s) ==
    CASE does = "nothing" -> {Result(ok, s, saved) : ok \in BOOLEAN}
      [] does = "login"   -> {Result(TRUE, "Authenticated", TRUE), Result(FALSE, s, saved)}
      [] does = "logout"  -> {Result(TRUE, "LoggedOut", FALSE), Result(FALSE, s, saved)}
      [] does = "refresh" -> Refreshed(s)
      [] does = "token"   -> IF s = "Authenticated" THEN {Result(TRUE, s, saved)}
                             ELSE IF s = "NeedsRefresh" THEN Refreshed(s)
                             ELSE {Result(FALSE, s, saved)}

\* Mutant of Tells: a refresh that fails is not told.
TellsSuccess(plan, ok) == ok /\ plan.ok

Tells(plan, ok) == IF ok THEN plan.ok ELSE plan.err

\* Where a call goes after the manager: to the callback, to the return buffer, on
\* with a sync, or home.
After(t, r) ==
    IF Tells(thread[t].plan, r.ok) THEN "state"
    ELSE IF r.ok /\ thread[t].call = "sync" THEN "build"
    ELSE IF r.ok /\ thread[t].plan.answer THEN "answer" ELSE "idle"

\* History: a call that was only to obtain a token renews it, and tells nobody.
Manage(t) ==
    LET g == thread[t].mgr IN
       /\ At(t, "manager")
       /\ \E r \in Results(thread[t].plan.does, mgr[g]) :
             /\ mgr' = [mgr EXCEPT ![g] = r.state]
             /\ saved' = r.saved
             /\ IF After(t, r) = "idle" THEN Return(t)
                ELSE thread' = [thread EXCEPT ![t].at = After(t, r),
                                              ![t].plan.answer = @ /\ r.ok]
             /\ history' = IF thread[t].plan.does = "token" /\ r.state # mgr[g]
                              /\ ~Tells(thread[t].plan, r.ok)
                           THEN [history EXCEPT !.why = @ \cup {"quiet"}] ELSE history
       /\ UNCHANGED <<glob, lock, db, sent, told, count>>

ReadState(t) ==
    /\ At(t, "state")
    /\ thread' = [thread EXCEPT ![t].at = "tell", ![t].code = mgr[thread[t].mgr]]
    /\ UNCHANGED <<glob, lock, mgr, saved, db, sent, told, count, history>>

\* fire_auth_callback.  An init ends here, and its background refresh begins when
\* the token file was there.  History: the callback is told what no longer holds.
Tell(t) ==
    LET code == thread[t].code  g == thread[t].mgr
        spawned == IF thread[t].call = "init" /\ code = "NeedsRefresh" THEN {g} ELSE {}
        next == IF thread[t].call = "auth" /\ thread[t].plan.answer
                THEN [thread[t] EXCEPT !.at = "answer"] ELSE Idle
    IN /\ At(t, "tell")
       /\ told' = code
       /\ thread' = [s \in Thread |->
              IF s = t THEN next
              ELSE IF s \in spawned
                   THEN [Idle EXCEPT !.call = "auth", !.at = "manager",
                                     !.plan = Background, !.mgr = g]
                   ELSE thread[s]]
       /\ history' = [history EXCEPT !.why =
              IF glob.auth # 0 /\ code # mgr[glob.auth] THEN {"late"} ELSE {}]
       /\ GiveBack(t)
       /\ UNCHANGED <<glob, mgr, saved, db, sent, count>>

\* The return buffer is in ENGINE, which an init may be holding.
ReturnAnswer(t) ==
    /\ At(t, "answer") /\ Free("engine")
    /\ Return(t)
    /\ UNCHANGED <<glob, lock, mgr, saved, db, sent, told, count, history>>

-----------------------------------------------------------------------------
(* Operations of the reader, and a manual sync (its push) over StorageAdapter: *)
(* each access to the store locks ENGINE and takes the engine that is there.   *)

LogOp ==
    /\ Free("engine") /\ glob.engine # None /\ db[glob.engine].ops < MaxOps
    /\ db' = [db EXCEPT ![glob.engine].ops = @ + 1]
    /\ UNCHANGED <<glob, lock, mgr, saved, thread, sent, told, count, history>>

SyncEnter(t) ==
    /\ glob.auth # 0
    /\ Begin(t, "sync", [Idle EXCEPT !.at = "manager", !.mgr = glob.auth])
    /\ count' = [count EXCEPT !.calls = @ + 1]
    /\ UNCHANGED <<glob, lock, mgr, saved, db, sent, told>>

\* build_sync_engine
SyncBuild(t) ==
    /\ At(t, "build")
    /\ IF glob.url = 0 THEN Return(t) ELSE Goto(t, "read")
    /\ UNCHANGED <<glob, lock, mgr, saved, db, sent, told, count, history>>

Unsynced(d) == (1 .. db[d].ops) \ db[d].synced

SyncRead(t) ==
    /\ At(t, "read") /\ Free("engine")
    /\ IF glob.engine = None THEN Goto(t, "state")
       ELSE thread' = [thread EXCEPT ![t] = [@ EXCEPT
                !.at = IF Unsynced(glob.engine) = {} THEN "state" ELSE "push",
                !.db = glob.engine, !.batch = Unsynced(glob.engine)]]
    /\ UNCHANGED <<glob, lock, mgr, saved, db, sent, told, count, history>>

\* The request, or its reply, may be lost.
SyncPush(t) ==
    LET ops == {<<thread[t].db, i>> : i \in thread[t].batch}
    IN /\ At(t, "push")
       /\ \/ Goto(t, "mark") /\ sent' = sent \cup ops
          \/ Goto(t, "state") /\ sent' \in {sent, sent \cup ops}
       /\ UNCHANGED <<glob, lock, mgr, saved, db, told, count, history>>

\* Mutant of SyncMark: all that is unsynced is marked.
MarkUnsynced(t) ==
    /\ At(t, "mark") /\ Free("engine")
    /\ db' = IF glob.engine = None THEN db
             ELSE [db EXCEPT ![glob.engine].synced = 1 .. db[glob.engine].ops]
    /\ Goto(t, "state")
    /\ UNCHANGED <<glob, lock, mgr, saved, sent, told, count, history>>

\* Mutant of SyncMark: the operations are marked whether they are there or not.
MarkAnywhere(t) ==
    /\ At(t, "mark") /\ Free("engine")
    /\ db' = IF glob.engine = None THEN db
             ELSE [db EXCEPT ![glob.engine].synced = @ \cup thread[t].batch]
    /\ Goto(t, "state")
    /\ UNCHANGED <<glob, lock, mgr, saved, sent, told, count, history>>

SyncMark(t) ==
    /\ At(t, "mark") /\ Free("engine")
    /\ db' = IF glob.engine = None THEN db
             ELSE [db EXCEPT ![glob.engine].synced =
                       @ \cup (thread[t].batch \cap 1 .. db[glob.engine].ops)]
    /\ Goto(t, "state")
    /\ UNCHANGED <<glob, lock, mgr, saved, sent, told, count, history>>

-----------------------------------------------------------------------------
Enter(t) ==
    \/ \E d \in Db : InitEnter(t, d)
    \/ DestroyEnter(t) \/ StartEnter(t) \/ SyncEnter(t)
    \/ \E plan \in AuthCalls : AuthEnter(t, plan)

Step(t) ==
    \/ InitSched(t) \/ InitAuth(t) \/ InitUrl(t) \/ InitSetUrl(t) \/ InitSetAuth(t)
    \/ DestroyStop(t) \/ DestroyAuth(t) \/ DestroyUrl(t) \/ DestroyEngine(t)
    \/ EnsureScheduler(t) \/ StartPanics(t)
    \/ Manage(t) \/ ReadState(t) \/ Tell(t) \/ ReturnAnswer(t)
    \/ SyncBuild(t) \/ SyncRead(t) \/ SyncPush(t) \/ SyncMark(t)

Next == LogOp \/ \E t \in Thread : Enter(t) \/ Step(t)

Spec == Init /\ [][Next]_vars

-----------------------------------------------------------------------------
(* Properties *)

TypeOK ==
    /\ glob \in [engine : Db \cup {None}, sched : Scheduler,
                 auth : Manager \cup {0}, url : Manager \cup {0}]
    /\ lock \in [{"engine", "sched"} -> Caller \cup {None}]
    /\ mgr \in [Manager -> AuthState] /\ saved \in BOOLEAN
    /\ \A d \in Db : db[d].ops \in 0 .. MaxOps /\ db[d].synced \subseteq 1 .. db[d].ops
    /\ told \in AuthState \cup {None}

Quiet == \A t \in Thread : At(t, "idle")

\* Engine, manager and URL come and go together: when nothing is under way, none
\* is left without the engine, and manager and URL are of one init - as long as
\* no init or destroy overlapped with another call.
OneEngine ==
    Quiet /\ ~history.overlap =>
       /\ glob.engine = None => glob.auth = 0 /\ glob.sched = "none"
       /\ glob.url = glob.auth

\* The application knows: when nothing is under way, the callback was last given
\* the state of the manager, unless a call that tells nobody changed it, or one
\* that overlapped with others told a state that had passed.
ToldIsState ==
    Quiet /\ glob.auth # 0 /\ told # mgr[glob.auth] => history.why # {}

\* An operation is marked synced in a database only when the server has it,
\* through every destroy and init that a sync overlaps with - but not when one of
\* them opened another database.
SyncedWasSent ==
    \A d \in Db \ history.crossed : \A i \in db[d].synced : <<d, i>> \in sent

\* No order of locks makes threads wait for each other: as long as a call is under
\* way, one of them can take its next step (and each takes only so many).
SomeCallMoves == ~Quiet => \E t \in Thread : ENABLED Step(t)
=============================================================================
