---------------------------- MODULE HandleProofs ----------------------------
(***************************************************************************)
(* Theorems about EngineHandle: its types, SyncedWasSent, OneEngine and    *)
(* ToldIsState, for any threads, databases, engines, calls and operations. *)
(***************************************************************************)
EXTENDS EngineHandle, TLAPS

-----------------------------------------------------------------------------
(* Types, and where a call of each kind can be.                            *)

AuthPlan == [does : {"nothing", "login", "logout", "token", "refresh"},
             ok : BOOLEAN, err : BOOLEAN, answer : BOOLEAN]

\* What always changes the manager's state is always told.
Open(plan) ==
    /\ plan.does \in {"login", "logout", "refresh"} => plan.ok
    /\ plan.does = "refresh" => plan.err

Place == {"idle", "init sched", "init auth", "init url", "set url", "set auth", "state", "tell",
          "stop", "destroy auth", "destroy url", "destroy engine", "ensure", "start",
          "manager", "answer", "build", "read", "push", "mark"}

Kind == {"none", "init", "destroy", "start", "auth", "sync"}

CallRecord == [call : Kind, at : Place, plan : AuthPlan, mgr : Manager \cup {0},
               db : Db \cup {None}, batch : SUBSET Nat, code : AuthState \cup {None}]

\* What a call is, and knows, that may be at pc.
Fits(r, pc) ==
    /\ (r.call = "none") <=> (pc = "idle")
    /\ pc \in {"init sched", "init auth", "init url", "set url", "set auth"} => r.call = "init"
    /\ pc \in {"stop", "destroy auth", "destroy url", "destroy engine"} => r.call = "destroy"
    /\ pc \in {"ensure", "start"} => r.call = "start"
    /\ pc = "answer" => r.call = "auth"
    /\ pc = "manager" => r.call \in {"auth", "sync"}
    /\ pc \in {"build", "read", "push", "mark"} => r.call = "sync"
    /\ pc \in {"state", "tell"} => r.call \in {"init", "auth", "sync"}
    /\ r.call \in {"init", "auth", "sync"} => r.mgr \in Manager
    /\ pc = "tell" => r.code \in AuthState
    /\ pc \in {"push", "mark"} => r.db \in Db

InPlace(r) == Fits(r, r.at)

\* A background refresh is the only call of its thread.
Proper(t, r) ==
    /\ r \in CallRecord /\ Open(r.plan) /\ InPlace(r)
    /\ t \in Caller \/ r.call \in {"none", "auth"}

Globals ==
    /\ glob \in [engine : Db \cup {None}, sched : Scheduler,
                 auth : Manager \cup {0}, url : Manager \cup {0}]
    /\ lock \in [{"engine", "sched"} -> Caller \cup {None}]
    /\ mgr \in [Manager -> AuthState] /\ saved \in BOOLEAN
    /\ db \in [Db -> [ops : 0 .. MaxOps, synced : SUBSET Nat]]
    /\ \A d \in Db : db[d].synced \subseteq 1 .. db[d].ops
    /\ told \in AuthState \cup {None}
    /\ count \in [calls : Nat, inits : 0 .. MaxInits]
    /\ history \in [overlap : BOOLEAN, crossed : SUBSET Db, why : SUBSET {"quiet", "late"}]

Threads == thread \in [Thread -> CallRecord] /\ \A t \in Thread : Proper(t, thread[t])

Typed == Globals /\ Threads

-----------------------------------------------------------------------------
(* Which database a sync has read from, and what the server has of it.     *)

\* A sync at the mark has been answered, and an engine that is not the one it
\* read from has been recorded.
Sync(r) == r.call = "sync" =>
    /\ r.at = "mark" => \A i \in r.batch : <<r.db, i>> \in sent
    /\ r.db # None /\ glob.engine \notin {None, r.db} => glob.engine \in history.crossed

SyncInv == SyncedWasSent /\ \A t \in Thread : Sync(thread[t])

-----------------------------------------------------------------------------
(* How far an init or a destroy has got that nothing overlapped.           *)

Whole(g) ==
    /\ g.engine = None => g.auth = 0 /\ g.sched = "none"
    /\ g.url = g.auth

Stage(r, g) ==
    /\ r.call = "init" => g.engine # None
    /\ r.at \in {"init sched", "init auth", "init url", "set url"} => g.auth = 0 /\ g.url = 0
    /\ r.at = "set auth" => g.auth = 0 /\ g.url = r.mgr
    /\ r.call = "init" /\ r.at \in {"state", "tell"} => g.auth = g.url
    /\ r.at = "stop" => Whole(g)
    /\ r.at = "destroy auth" => g.sched = "none" /\ g.url = g.auth
    /\ r.at = "destroy url" => g.sched = "none" /\ g.auth = 0
    /\ r.at = "destroy engine" => g.sched = "none" /\ g.auth = 0 /\ g.url = 0

Undisturbed ==
    /\ \A s, t \in Caller : s # t /\ thread[t].call \in Lifecycle => thread[s].call = "none"
    /\ (\A t \in Caller : thread[t].call \notin Lifecycle) => Whole(glob)
    /\ \A t \in Caller : Stage(thread[t], glob)

EngineInv == ~history.overlap => Undisturbed

-----------------------------------------------------------------------------
(* Who still has to tell the application.                                  *)

ToldInv ==
    glob.auth # 0 /\ told # mgr[glob.auth] =>
        history.why # {} \/ \E t \in Thread : thread[t].at \in {"state", "tell"}

-----------------------------------------------------------------------------
(* Who may hold a lock over several steps, and who waits for one.          *)

LockInv ==
    /\ lock["engine"] # None => thread[lock["engine"]].call = "init"
    /\ lock["sched"] # None => thread[lock["sched"]].at = "stop"

Blocked(t) ==
    \/ thread[t].at \in {"init sched", "ensure", "start"} /\ ~Free("sched")
    \/ thread[t].at \in {"destroy engine", "answer", "read", "mark"} /\ ~Free("engine")

HInv == Typed /\ SyncInv /\ EngineInv /\ ToldInv /\ LockInv
-----------------------------------------------------------------------------
(* What steps of one kind have in common.                                  *)

LEMMA IdleProper == ASSUME NEW t \in Thread PROVE Proper(t, Idle) /\ Idle \in CallRecord
  <1>1. Idle \in CallRecord
    BY DEF Idle, CallRecord, Kind, Place, AuthPlan, SyncToken, Plan
  <1> QED
    BY <1>1 DEF Idle, Proper, InPlace, Fits, Open, SyncToken, Plan, Thread

LEMMA Constants ==
    /\ None \notin Db /\ None \notin Thread /\ None \notin Caller
    /\ 0 \notin Manager /\ Manager \subseteq Nat
    /\ Caller \subseteq Thread /\ Manager \subseteq Thread
    /\ \A t \in Caller : t \notin Manager
  BY EngineHandleAssumption DEF Thread, Manager

LEMMA GotoMoves ==
    ASSUME Threads, NEW t \in Thread, NEW pc, Goto(t, pc)
    PROVE  thread' = [thread EXCEPT ![t] = [thread[t] EXCEPT !.at = pc]]
  BY DEF Goto, Threads

LEMMA ThreadsKept ==
    ASSUME Threads, NEW t \in Thread, NEW r, Proper(t, r), thread' = [thread EXCEPT ![t] = r]
    PROVE  Threads'
  BY DEF Threads, Proper

LEMMA GiveBackTyped ==
    ASSUME Globals, NEW t, GiveBack(t)
    PROVE  lock' \in [{"engine", "sched"} -> Caller \cup {None}]
  BY DEF GiveBack, Globals

\* A call goes on to another place where it may be.
LEMMA GotoProper ==
    ASSUME Threads, NEW t \in Thread, NEW pc \in Place, Goto(t, pc), Fits(thread[t], pc)
    PROVE  Threads'
  <1>1. PICK r : r = [thread[t] EXCEPT !.at = pc]
    OBVIOUS
  <1>2. thread[t] \in CallRecord /\ Proper(t, thread[t])
    BY DEF Threads
  <1>3. /\ r \in CallRecord /\ r.plan = thread[t].plan /\ r.call = thread[t].call
        /\ r.at = pc /\ r.mgr = thread[t].mgr /\ r.db = thread[t].db /\ r.code = thread[t].code
    BY <1>1, <1>2 DEF CallRecord
  <1>4. Proper(t, r)
    BY <1>2, <1>3 DEF Proper, InPlace, Fits
  <1> QED
    BY <1>1, <1>4, GotoMoves, ThreadsKept

LEMMA ReturnProper ==
    ASSUME Threads, NEW t \in Thread, Return(t)
    PROVE  Threads'
  BY IdleProper, ThreadsKept DEF Return

\* Steps that no sync and no database is part of.
NoSync ==
    /\ UNCHANGED <<db, sent>> /\ history.crossed \subseteq history'.crossed
    /\ glob'.engine \in {glob.engine, None}
    /\ \A s \in Thread :
          \/ thread'[s] = thread[s] \/ thread'[s].call # "sync"
          \/ thread'[s].at # "mark" /\ thread'[s].db = None
          \/ thread'[s].at # "mark" /\ thread'[s].db = thread[s].db /\ thread[s].call = "sync"

LEMMA SyncKept == ASSUME SyncInv, NoSync PROVE SyncInv'
  <1>1. SyncedWasSent'
    BY DEF SyncInv, SyncedWasSent, NoSync
  <1>2. ASSUME NEW s \in Thread PROVE Sync(thread[s])'
    BY <1>2 DEF SyncInv, Sync, NoSync
  <1> QED
    BY <1>1, <1>2 DEF SyncInv

\* Steps that no init and no destroy is part of.
LEMMA EngineKept ==
    ASSUME EngineInv, glob' = glob, history'.overlap = history.overlap,
           \A s \in Caller :
              \/ thread'[s] = thread[s]
              \/ /\ thread'[s].call \in {thread[s].call, "none"} /\ thread'[s].call \notin Lifecycle
                 /\ thread[s].call \notin Lifecycle
                 /\ thread'[s].at \notin {"init sched", "init auth", "init url", "set url", "set auth",
                        "stop", "destroy auth", "destroy url", "destroy engine"}
    PROVE  EngineInv'
  <1> SUFFICES ASSUME ~history.overlap PROVE Undisturbed'
    BY DEF EngineInv
  <1>0. Undisturbed
    BY DEF EngineInv
  <1>1. \A s \in Caller : thread'[s].call = thread[s].call \/ thread'[s].call = "none"
    OBVIOUS
  <1>2. \A s \in Caller : thread'[s].call \in Lifecycle => thread[s].call \in Lifecycle
    OBVIOUS
  <1>3. \A s \in Caller : thread[s].call \in Lifecycle => thread'[s].call \in Lifecycle
    OBVIOUS
  <1>4. ASSUME NEW s \in Caller PROVE Stage(thread[s], glob)'
    BY <1>0, <1>4 DEF Undisturbed, Stage, Lifecycle, Whole
  <1>5. (\A t \in Caller : thread[t].call \notin Lifecycle)' => Whole(glob)'
    BY <1>0, <1>3 DEF Undisturbed, Whole
  <1>6. ASSUME NEW s \in Caller, NEW t \in Caller, s # t, thread'[t].call \in Lifecycle
        PROVE  thread'[s].call = "none"
    BY <1>0, <1>1, <1>2, <1>6 DEF Undisturbed
  <1> QED
    BY <1>4, <1>5, <1>6 DEF Undisturbed

\* Steps that change no manager's state, and take away nobody who is to tell it.
LEMMA ToldKept ==
    ASSUME ToldInv, glob'.auth \in {glob.auth, 0}, UNCHANGED <<mgr, told>>,
           history.why \subseteq history'.why,
           \A s \in Thread : thread[s].at \in {"state", "tell"} => thread'[s].at \in {"state", "tell"}
    PROVE  ToldInv'
  BY DEF ToldInv

-----------------------------------------------------------------------------
(* One lemma per action, one step per conjunct.                            *)

\* What every step of a thread starts from.
Known(t) ==
    /\ Globals /\ Threads /\ SyncInv /\ EngineInv /\ ToldInv /\ LockInv
    /\ thread[t] \in CallRecord /\ InPlace(thread[t]) /\ Open(thread[t].plan)
    /\ t \in Caller \/ thread[t].call \in {"none", "auth"}

LEMMA Here == ASSUME HInv, NEW t \in Thread PROVE Known(t)
  BY DEF HInv, Typed, Threads, Proper, Known

Others(t) == \A s \in Thread : s # t => thread'[s] = thread[s]

LEMMA Went ==
    ASSUME Threads, NEW t \in Thread, NEW pc \in Place, Goto(t, pc)
    PROVE  /\ Others(t) /\ thread'[t] \in CallRecord /\ thread'[t].at = pc
           /\ thread'[t].call = thread[t].call /\ thread'[t].mgr = thread[t].mgr
           /\ thread'[t].db = thread[t].db /\ thread'[t].batch = thread[t].batch
           /\ thread'[t].plan = thread[t].plan /\ thread'[t].code = thread[t].code
  <1>1. thread' = [thread EXCEPT ![t] = [thread[t] EXCEPT !.at = pc]] /\ thread[t] \in CallRecord
    BY GotoMoves DEF Threads
  <1>2. [thread[t] EXCEPT !.at = pc] \in CallRecord
    BY <1>1 DEF CallRecord
  <1> QED
    BY <1>1, <1>2 DEF CallRecord, Threads, Others

LEMMA Home ==
    ASSUME Threads, NEW t \in Thread, Return(t)
    PROVE  /\ Others(t) /\ thread'[t] = Idle /\ thread'[t].call = "none" /\ thread'[t].at = "idle"
           /\ thread'[t].db = None
  BY DEF Threads, Return, Others, Idle

\* A thread gives its locks back, or does not touch them and stays what holds them.
LEMMA LocksKept ==
    ASSUME Globals, LockInv, NEW t \in Thread,
           \A s \in Caller : s # t => thread'[s] = thread[s],
           \/ GiveBack(t)
           \/ /\ UNCHANGED lock /\ thread[t].at # "stop"
              /\ thread[t].call = "init" => thread'[t].call = "init"
    PROVE  LockInv'
  <1>1. \A l \in {"engine", "sched"} : lock[l] \in Caller \cup {None} /\ DOMAIN lock = {"engine", "sched"}
    BY DEF Globals
  <1>2. CASE GiveBack(t)
    <2>1. \A l \in {"engine", "sched"} : lock'[l] = None \/ (lock'[l] = lock[l] /\ lock[l] # t)
      BY <1>1, <1>2 DEF GiveBack
    <2> QED
      BY <1>1, <2>1 DEF LockInv
  <1>3. CASE /\ UNCHANGED lock /\ thread[t].at # "stop"
             /\ thread[t].call = "init" => thread'[t].call = "init"
    BY <1>1, <1>3 DEF LockInv
  <1> QED
    BY <1>2, <1>3

\* One field of glob is assigned.
LEMMA SetTyped ==
    ASSUME Globals, NEW field, NEW value, Set(field, value),
           \/ field = "engine" /\ value \in Db \cup {None}
           \/ field = "sched" /\ value \in Scheduler
           \/ field \in {"auth", "url"} /\ value \in Manager \cup {0}
    PROVE  /\ glob' \in [engine : Db \cup {None}, sched : Scheduler,
                         auth : Manager \cup {0}, url : Manager \cup {0}]
           /\ glob'.engine = IF field = "engine" THEN value ELSE glob.engine
           /\ glob'.sched = IF field = "sched" THEN value ELSE glob.sched
           /\ glob'.auth = IF field = "auth" THEN value ELSE glob.auth
           /\ glob'.url = IF field = "url" THEN value ELSE glob.url
  BY DEF Globals, Set

\* All that is typed but glob and lock stays.
LEMMA GlobalsKept ==
    ASSUME Globals, UNCHANGED <<mgr, saved, db, told, count, history>>,
           glob' \in [engine : Db \cup {None}, sched : Scheduler,
                      auth : Manager \cup {0}, url : Manager \cup {0}],
           lock' \in [{"engine", "sched"} -> Caller \cup {None}]
    PROVE  Globals'
  BY DEF Globals

LEMMA InitEnterStep ==
    ASSUME HInv, NEW t \in Thread, NEW d \in Db, InitEnter(t, d)
    PROVE  HInv'
  <1> USE Constants
  <1>h. Known(t)
    BY Here
  <1>0. PICK r : r = [Idle EXCEPT !.call = "init", !.at = "init sched",
                                  !.mgr = count.inits + 1, !.db = d]
    OBVIOUS
  <1>1. /\ thread' = [thread EXCEPT ![t] = r] /\ r.call = "init" /\ r.at = "init sched"
        /\ t \in Caller /\ glob.engine = None /\ thread[t].at = "idle"
    BY <1>0 DEF InitEnter, Idle, At
  <1>2. count.inits + 1 \in Manager
    BY <1>h, EngineHandleAssumption DEF InitEnter, Globals, Manager, Known
  <1>3. Proper(t, r)
    BY <1>0, <1>1, <1>2 DEF Proper, CallRecord, InPlace, Fits, Open, Idle, SyncToken, Plan, Kind, Place, AuthPlan
  <1>4. Threads'
    BY <1>h, <1>1, <1>3, ThreadsKept DEF Known
  <1>s. Set("engine", d) /\ Globals /\ Threads
    BY <1>h DEF InitEnter, Known
  <1>g. /\ glob'.engine = d /\ glob'.auth = glob.auth /\ glob'.url = glob.url
        /\ glob' \in [engine : Db \cup {None}, sched : Scheduler,
                      auth : Manager \cup {0}, url : Manager \cup {0}]
    BY <1>s, SetTyped
  <1>5. Globals'
    <2>1. count' \in [calls : Nat, inits : 0 .. MaxInits]
      BY <1>s, EngineHandleAssumption DEF InitEnter, Globals
    <2>2. history' \in [overlap : BOOLEAN, crossed : SUBSET Db, why : SUBSET {"quiet", "late"}]
      BY <1>s DEF InitEnter, Globals
    <2>3. lock' \in [{"engine", "sched"} -> Caller \cup {None}]
      BY <1>s, <1>1 DEF InitEnter, Globals, Take
    <2> QED
      BY <1>s, <1>g, <2>1, <2>2, <2>3 DEF InitEnter, Globals
  <1>6. SyncInv'
    <2>1. history.crossed \subseteq history'.crossed /\ db' = db /\ sent' = sent
      BY <1>s DEF InitEnter, Globals
    <2>2. ASSUME NEW s \in Thread PROVE Sync(thread[s])'
      <3>1. CASE s = t
        BY <1>1, <1>s, <3>1 DEF Sync, Threads
      <3>2. CASE s # t /\ thread[s].call = "sync" /\ thread[s].db \notin {None, d}
        <4>1. thread'[s] = thread[s] /\ s \in Caller
          BY <1>1, <1>s, <3>2 DEF Threads, Proper
        <4>2. d \in history'.crossed
          BY <4>1, <1>s, <3>2 DEF InitEnter, Globals
        <4> QED
          BY <1>h, <4>1, <4>2, <2>1, <1>g DEF Sync, SyncInv, Known
      <3>3. CASE s # t /\ ~(thread[s].call = "sync" /\ thread[s].db \notin {None, d})
        BY <1>1, <1>h, <2>1, <1>g, <3>3 DEF Sync, SyncInv, Threads, Known
      <3> QED
        BY <3>1, <3>2, <3>3
    <2> QED
      BY <1>h, <2>1, <2>2 DEF SyncInv, SyncedWasSent, Known
  <1>7. EngineInv'
    <2> SUFFICES ASSUME ~history'.overlap PROVE Undisturbed'
      BY DEF EngineInv
    <2>1. ~history.overlap /\ Beside(t) = {}
      BY <1>s DEF InitEnter, Globals
    <2>2. \A s \in Caller : s # t => thread[s].call = "none"
      BY <2>1 DEF Beside
    <2>3. thread[t].call = "none"
      BY <1>1, <1>h DEF InPlace, Fits, Known
    <2>4. Whole(glob)
      BY <1>h, <2>1, <2>2, <2>3 DEF EngineInv, Undisturbed, Lifecycle, Known
    <2>5. glob'.auth = 0 /\ glob'.url = 0 /\ glob'.engine # None
      BY <2>4, <1>1, <1>g DEF Whole
    <2>6. \A s \in Caller : s # t => thread'[s] = thread[s] /\ thread[s].at = "idle"
      BY <1>1, <1>s, <2>2 DEF Threads, Proper, InPlace, Fits
    <2>7. ASSUME NEW s \in Caller PROVE Stage(thread[s], glob)'
      BY <1>1, <1>s, <2>2, <2>5, <2>6 DEF Stage, Whole, Threads
    <2> QED
      BY <1>1, <1>s, <2>2, <2>6, <2>7 DEF Undisturbed, Lifecycle, Threads
  <1>8. ToldInv'
    <2>1. /\ mgr' = mgr /\ told' = told /\ history.why \subseteq history'.why
      BY <1>s DEF InitEnter, Globals
    <2>2. \A s \in Thread : thread[s].at \in {"state", "tell"} => thread'[s].at \in {"state", "tell"}
      BY <1>1, <1>s DEF Threads
    <2> QED
      BY <1>h, <1>g, <2>1, <2>2, ToldKept DEF Known
  <1>9. LockInv'
    <2>1. /\ lock'["engine"] = t /\ lock'["sched"] = lock["sched"] /\ lock["sched"] \in Caller \cup {None}
      BY <1>s DEF InitEnter, Take, Globals
    <2>2. thread'[t].call = "init" /\ \A s \in Thread : s # t => thread'[s] = thread[s]
      BY <1>1, <1>s DEF Threads
    <2> QED
      BY <1>h, <1>1, <2>1, <2>2 DEF LockInv, Known
  <1> QED
    BY <1>4, <1>5, <1>6, <1>7, <1>8, <1>9 DEF HInv, Typed

\* An init or a destroy that nothing overlaps is the only call, and stays so.
LEMMA Alone ==
    ASSUME HInv, NEW t \in Caller, thread[t].call \in Lifecycle, ~history.overlap,
           history'.overlap = history.overlap, Others(t),
           thread'[t].call \in {thread[t].call, "none"}, Stage(thread[t], glob)',
           thread'[t].call = "none" => Whole(glob)'
    PROVE  Undisturbed'
  <1>1. Undisturbed /\ Known(t) /\ t \in Thread
    BY Here, Constants DEF Known, EngineInv
  <1>2. \A s \in Caller : s # t => thread[s].call = "none" /\ thread[s].at = "idle" /\ thread'[s] = thread[s]
    BY <1>1, Constants DEF Undisturbed, Others, Known, Threads, Proper, InPlace, Fits
  <1>3. ASSUME NEW s \in Caller PROVE Stage(thread[s], glob)'
    <2>1. CASE s = t
      BY <2>1
    <2>2. CASE s # t
      BY <1>2, <2>2 DEF Stage
    <2> QED
      BY <2>1, <2>2
  <1> QED
    BY <1>2, <1>3 DEF Undisturbed, Lifecycle

\* A step of an init or a destroy that assigns to the globals.
LEMMA LifecycleStep ==
    ASSUME HInv, NEW t \in Thread, thread[t].call \in Lifecycle,
           UNCHANGED <<mgr, saved, db, sent, told, count, history>>,
           \/ GiveBack(t)
           \/ UNCHANGED lock /\ thread[t].at # "stop" /\ thread'[t].call = thread[t].call,
           glob' \in [engine : Db \cup {None}, sched : Scheduler,
                      auth : Manager \cup {0}, url : Manager \cup {0}],
           glob'.engine \in {glob.engine, None}, glob'.auth \in {glob.auth, 0},
           Threads', Others(t), thread'[t].call \in {thread[t].call, "none"},
           thread[t].at \notin {"state", "tell"},
           Stage(thread[t], glob) =>
               Stage(thread[t], glob)' /\ (thread'[t].call = "none" => Whole(glob)')
    PROVE  HInv'
  <1>h. Known(t) /\ t \in Caller
    BY Here DEF Known, Lifecycle
  <1>1. Globals'
    <2>1. lock' \in [{"engine", "sched"} -> Caller \cup {None}]
      BY <1>h, GiveBackTyped DEF Known, Globals
    <2> QED
      BY <1>h, <2>1, GlobalsKept DEF Known
  <1>5. LockInv'
    BY <1>h, LocksKept, Constants DEF Known, Others
  <1>2. NoSync
    BY DEF NoSync, Others, Lifecycle
  <1>3. EngineInv'
    <2> SUFFICES ASSUME ~history.overlap PROVE Undisturbed'
      BY DEF EngineInv
    <2>1. Stage(thread[t], glob)
      BY <1>h DEF Known, EngineInv, Undisturbed
    <2> QED
      BY <1>h, <2>1, Alone
  <1>4. ToldInv'
    BY <1>h, ToldKept DEF Known, Others
  <1> QED
    BY <1>h, <1>1, <1>2, <1>3, <1>4, <1>5, SyncKept DEF HInv, Typed, Known

LEMMA InitSchedStep ==
    ASSUME HInv, NEW t \in Thread, InitSched(t)
    PROVE  HInv'
  <1>h. Known(t) /\ Globals /\ Threads
    BY Here DEF Known
  <1>0. thread[t].call = "init" /\ thread[t].at = "init sched"
    BY <1>h DEF InitSched, Known, At, InPlace, Fits
  <1>1. CASE glob.sched = "poisoned" /\ Return(t) /\ GiveBack(t) /\ UNCHANGED glob
    <2>1. Others(t) /\ thread'[t].call = "none" /\ thread'[t].at = "idle"
      BY <1>h, <1>1, Home
    <2>2. Stage(thread[t], glob) => Stage(thread[t], glob)' /\ Whole(glob)'
      BY <1>0, <1>1, <2>1 DEF Stage, Whole
    <2> QED
      BY <1>h, <1>0, <1>1, <2>1, <2>2, LifecycleStep, ReturnProper, GiveBackTyped
      DEF InitSched, Lifecycle, Globals
  <1>2. CASE Goto(t, "init auth") /\ Set("sched", "none") /\ UNCHANGED lock
    <2>1. Others(t) /\ thread'[t].call = "init" /\ thread'[t].at = "init auth"
      BY <1>h, <1>0, <1>2, Went DEF Place
    <2>2. /\ glob'.engine = glob.engine /\ glob'.auth = glob.auth /\ glob'.url = glob.url
          /\ glob' \in [engine : Db \cup {None}, sched : Scheduler,
                        auth : Manager \cup {0}, url : Manager \cup {0}]
      BY <1>h, <1>2, SetTyped DEF Scheduler
    <2>3. Threads'
      BY <1>h, <1>0, <1>2, GotoProper DEF Known, Fits, InPlace, Place
    <2>4. Stage(thread[t], glob) => Stage(thread[t], glob)'
      BY <1>0, <2>1, <2>2 DEF Stage
    <2> QED
      BY <1>h, <1>0, <1>2, <2>1, <2>2, <2>3, <2>4, LifecycleStep DEF InitSched, Lifecycle, Globals
  <1> QED
    BY <1>1, <1>2 DEF InitSched

LEMMA InitAuthStep ==
    ASSUME HInv, NEW t \in Thread, InitAuth(t)
    PROVE  HInv'
  <1>h. Known(t) /\ Globals /\ Threads
    BY Here DEF Known
  <1>0. thread[t].call = "init" /\ thread[t].at = "init auth"
    BY <1>h DEF InitAuth, Known, At, InPlace, Fits
  <1>1. Others(t) /\ thread'[t].call = "init" /\ thread'[t].at = "init url"
    BY <1>h, <1>0, Went DEF InitAuth, Place
  <1>2. /\ glob'.engine = glob.engine /\ glob'.auth = 0 /\ glob'.url = glob.url
        /\ glob' \in [engine : Db \cup {None}, sched : Scheduler,
                      auth : Manager \cup {0}, url : Manager \cup {0}]
    BY <1>h, SetTyped DEF InitAuth
  <1>3. Threads'
    BY <1>h, <1>0, GotoProper DEF Known, Fits, InPlace, Place, InitAuth
  <1>4. Stage(thread[t], glob) => Stage(thread[t], glob)'
    BY <1>0, <1>1, <1>2 DEF Stage
  <1> QED
    BY <1>h, <1>0, <1>1, <1>2, <1>3, <1>4, LifecycleStep DEF InitAuth, Lifecycle, Globals

LEMMA InitUrlStep ==
    ASSUME HInv, NEW t \in Thread, InitUrl(t)
    PROVE  HInv'
  <1>h. Known(t) /\ Globals /\ Threads
    BY Here DEF Known
  <1>0. thread[t].call = "init" /\ thread[t].at = "init url"
    BY <1>h DEF InitUrl, Known, At, InPlace, Fits
  <1>2. /\ glob'.engine = glob.engine /\ glob'.auth = glob.auth /\ glob'.url = 0
        /\ glob' \in [engine : Db \cup {None}, sched : Scheduler,
                      auth : Manager \cup {0}, url : Manager \cup {0}]
    BY <1>h, SetTyped DEF InitUrl
  <1>3. CASE Goto(t, "set url") /\ UNCHANGED lock
    <2>1. Others(t) /\ thread'[t].call = "init" /\ thread'[t].at = "set url"
      BY <1>h, <1>0, <1>3, Went DEF Place
    <2>2. Threads'
      BY <1>h, <1>0, <1>3, GotoProper DEF Known, Fits, InPlace, Place
    <2>3. Stage(thread[t], glob) => Stage(thread[t], glob)'
      BY <1>0, <1>2, <2>1 DEF Stage
    <2> QED
      BY <1>h, <1>0, <1>2, <1>3, <2>1, <2>2, <2>3, LifecycleStep DEF InitUrl, Lifecycle, Globals
  <1>4. CASE Return(t) /\ GiveBack(t)
    <2>1. Others(t) /\ thread'[t].call = "none" /\ thread'[t].at = "idle"
      BY <1>h, <1>4, Home
    <2>2. Stage(thread[t], glob) => Stage(thread[t], glob)' /\ Whole(glob)'
      BY <1>0, <1>2, <2>1 DEF Stage, Whole
    <2> QED
      BY <1>h, <1>0, <1>2, <1>4, <2>1, <2>2, LifecycleStep, ReturnProper, GiveBackTyped
      DEF InitUrl, Lifecycle
  <1> QED
    BY <1>3, <1>4 DEF InitUrl

LEMMA InitSetUrlStep ==
    ASSUME HInv, NEW t \in Thread, InitSetUrl(t)
    PROVE  HInv'
  <1>h. Known(t) /\ Globals /\ Threads
    BY Here DEF Known
  <1>0. thread[t].call = "init" /\ thread[t].at = "set url" /\ thread[t].mgr \in Manager
    BY <1>h DEF InitSetUrl, Known, At, InPlace, Fits
  <1>1. /\ Others(t) /\ thread'[t].call = "init" /\ thread'[t].at = "set auth"
        /\ thread'[t].mgr = thread[t].mgr
    BY <1>h, <1>0, Went DEF InitSetUrl, Place
  <1>2. /\ glob'.engine = glob.engine /\ glob'.auth = glob.auth /\ glob'.url = thread[t].mgr
        /\ glob' \in [engine : Db \cup {None}, sched : Scheduler,
                      auth : Manager \cup {0}, url : Manager \cup {0}]
    BY <1>h, <1>0, SetTyped DEF InitSetUrl
  <1>3. Threads'
    BY <1>h, <1>0, GotoProper DEF Known, Fits, InPlace, Place, InitSetUrl
  <1>4. Stage(thread[t], glob) => Stage(thread[t], glob)'
    BY <1>0, <1>1, <1>2 DEF Stage
  <1> QED
    BY <1>h, <1>0, <1>1, <1>2, <1>3, <1>4, LifecycleStep DEF InitSetUrl, Lifecycle, Globals

\* The new manager is not told yet, but the init is about to.
LEMMA InitSetAuthStep ==
    ASSUME HInv, NEW t \in Thread, InitSetAuth(t)
    PROVE  HInv'
  <1>h. Known(t) /\ Globals /\ Threads
    BY Here DEF Known
  <1>0. /\ thread[t].call = "init" /\ thread[t].at = "set auth" /\ thread[t].mgr \in Manager
        /\ t \in Caller
    BY <1>h DEF InitSetAuth, Known, At, InPlace, Fits
  <1>1. Others(t) /\ thread'[t].call = "init" /\ thread'[t].at = "state"
    BY <1>h, <1>0, Went DEF InitSetAuth, Place
  <1>2. /\ glob'.engine = glob.engine /\ glob'.auth = thread[t].mgr /\ glob'.url = glob.url
        /\ glob' \in [engine : Db \cup {None}, sched : Scheduler,
                      auth : Manager \cup {0}, url : Manager \cup {0}]
    BY <1>h, <1>0, SetTyped DEF InitSetAuth
  <1>3. Threads'
    BY <1>h, <1>0, GotoProper DEF Known, Fits, InPlace, Place, InitSetAuth
  <1>4. Globals'
    <2>1. mgr' \in [Manager -> AuthState]
      BY <1>h DEF InitSetAuth, Globals, AuthState
    <2> QED
      BY <1>h, <1>2, <2>1 DEF InitSetAuth, Globals
  <1>5. NoSync
    BY <1>1, <1>2 DEF InitSetAuth, NoSync, Others
  <1>6. EngineInv'
    <2> SUFFICES ASSUME ~history.overlap PROVE Undisturbed'
      BY DEF EngineInv, InitSetAuth
    <2>1. Stage(thread[t], glob)
      BY <1>h, <1>0 DEF Known, EngineInv, Undisturbed
    <2>2. Stage(thread[t], glob)'
      BY <1>0, <1>1, <1>2, <2>1 DEF Stage
    <2> QED
      BY <1>0, <1>1, <2>2, Alone DEF InitSetAuth, Lifecycle
  <1>7. ToldInv'
    BY <1>1 DEF ToldInv
  <1>8. LockInv'
    BY <1>h, <1>0, <1>1, LocksKept, Constants DEF Known, Others, InitSetAuth
  <1> QED
    BY <1>h, <1>3, <1>4, <1>5, <1>6, <1>7, <1>8, SyncKept DEF HInv, Typed, Known

LEMMA DestroyStopStep ==
    ASSUME HInv, NEW t \in Thread, DestroyStop(t)
    PROVE  HInv'
  <1>h. Known(t) /\ Globals /\ Threads
    BY Here DEF Known
  <1>0. thread[t].call = "destroy" /\ thread[t].at = "stop"
    BY <1>h DEF DestroyStop, Known, At, InPlace, Fits
  <1>1. Others(t) /\ thread'[t].call = "destroy" /\ thread'[t].at = "destroy auth"
    BY <1>h, <1>0, Went DEF DestroyStop, Place
  <1>2. /\ glob'.engine = glob.engine /\ glob'.auth = glob.auth /\ glob'.url = glob.url
        /\ glob'.sched = "none"
        /\ glob' \in [engine : Db \cup {None}, sched : Scheduler,
                      auth : Manager \cup {0}, url : Manager \cup {0}]
    BY <1>h, SetTyped DEF DestroyStop, Scheduler
  <1>3. Threads'
    BY <1>h, <1>0, GotoProper DEF Known, Fits, InPlace, Place, DestroyStop
  <1>4. Stage(thread[t], glob) => Stage(thread[t], glob)'
    BY <1>0, <1>1, <1>2 DEF Stage, Whole
  <1> QED
    BY <1>h, <1>0, <1>1, <1>2, <1>3, <1>4, LifecycleStep, GiveBackTyped
    DEF DestroyStop, Lifecycle, Globals

LEMMA DestroyAuthStep ==
    ASSUME HInv, NEW t \in Thread, DestroyAuth(t)
    PROVE  HInv'
  <1>h. Known(t) /\ Globals /\ Threads
    BY Here DEF Known
  <1>0. thread[t].call = "destroy" /\ thread[t].at = "destroy auth"
    BY <1>h DEF DestroyAuth, Known, At, InPlace, Fits
  <1>1. Others(t) /\ thread'[t].call = "destroy" /\ thread'[t].at = "destroy url"
    BY <1>h, <1>0, Went DEF DestroyAuth, Place
  <1>2. /\ glob'.engine = glob.engine /\ glob'.auth = 0 /\ glob'.url = glob.url
        /\ glob'.sched = glob.sched
        /\ glob' \in [engine : Db \cup {None}, sched : Scheduler,
                      auth : Manager \cup {0}, url : Manager \cup {0}]
    BY <1>h, SetTyped DEF DestroyAuth, Scheduler
  <1>3. Threads'
    BY <1>h, <1>0, GotoProper DEF Known, Fits, InPlace, Place, DestroyAuth
  <1>4. Stage(thread[t], glob) => Stage(thread[t], glob)'
    BY <1>0, <1>1, <1>2 DEF Stage, Whole
  <1> QED
    BY <1>h, <1>0, <1>1, <1>2, <1>3, <1>4, LifecycleStep, GiveBackTyped
    DEF DestroyAuth, Lifecycle, Globals

LEMMA DestroyUrlStep ==
    ASSUME HInv, NEW t \in Thread, DestroyUrl(t)
    PROVE  HInv'
  <1>h. Known(t) /\ Globals /\ Threads
    BY Here DEF Known
  <1>0. thread[t].call = "destroy" /\ thread[t].at = "destroy url"
    BY <1>h DEF DestroyUrl, Known, At, InPlace, Fits
  <1>1. Others(t) /\ thread'[t].call = "destroy" /\ thread'[t].at = "destroy engine"
    BY <1>h, <1>0, Went DEF DestroyUrl, Place
  <1>2. /\ glob'.engine = glob.engine /\ glob'.auth = glob.auth /\ glob'.url = 0
        /\ glob'.sched = glob.sched
        /\ glob' \in [engine : Db \cup {None}, sched : Scheduler,
                      auth : Manager \cup {0}, url : Manager \cup {0}]
    BY <1>h, SetTyped DEF DestroyUrl, Scheduler
  <1>3. Threads'
    BY <1>h, <1>0, GotoProper DEF Known, Fits, InPlace, Place, DestroyUrl
  <1>4. Stage(thread[t], glob) => Stage(thread[t], glob)'
    BY <1>0, <1>1, <1>2 DEF Stage, Whole
  <1> QED
    BY <1>h, <1>0, <1>1, <1>2, <1>3, <1>4, LifecycleStep, GiveBackTyped
    DEF DestroyUrl, Lifecycle, Globals

LEMMA DestroyEngineStep ==
    ASSUME HInv, NEW t \in Thread, DestroyEngine(t)
    PROVE  HInv'
  <1>h. Known(t) /\ Globals /\ Threads
    BY Here DEF Known
  <1>0. thread[t].call = "destroy" /\ thread[t].at = "destroy engine"
    BY <1>h DEF DestroyEngine, Known, At, InPlace, Fits
  <1>1. Others(t) /\ thread'[t].call = "none" /\ thread'[t].at = "idle"
    BY <1>h, Home DEF DestroyEngine
  <1>2. /\ glob'.engine = None /\ glob'.auth = glob.auth /\ glob'.url = glob.url
        /\ glob'.sched = glob.sched
        /\ glob' \in [engine : Db \cup {None}, sched : Scheduler,
                      auth : Manager \cup {0}, url : Manager \cup {0}]
    BY <1>h, SetTyped DEF DestroyEngine
  <1>3. Stage(thread[t], glob) => Stage(thread[t], glob)' /\ Whole(glob)'
    BY <1>0, <1>1, <1>2 DEF Stage, Whole
  <1> QED
    BY <1>h, <1>0, <1>1, <1>2, <1>3, LifecycleStep, ReturnProper, GiveBackTyped
    DEF DestroyEngine, Lifecycle

-----------------------------------------------------------------------------
(* Calls that begin.                                                       *)

LEMMA BeginStep ==
    ASSUME HInv, NEW t \in Thread, NEW kind, NEW start, NEW r, Begin(t, kind, start),
           r = [start EXCEPT !.call = kind], Proper(t, r),
           kind \in {"destroy", "start", "auth", "sync"}, r.call = kind, r.db = None, r.at # "mark",
           IF kind = "destroy" THEN r.at = "stop" ELSE r.at \in {"ensure", "manager"},
           UNCHANGED <<glob, mgr, saved, db, sent, told>>,
           IF kind = "destroy" THEN Take(t, "sched") ELSE UNCHANGED lock,
           count' = [count EXCEPT !.calls = @ + 1]
    PROVE  HInv'
  <1> USE Constants
  <1>h. Known(t) /\ Globals /\ Threads
    BY Here DEF Known
  <1>0. t \in Caller /\ thread[t].at = "idle" /\ thread[t].call = "none"
    BY <1>h DEF Begin, At, Known, InPlace, Fits
  <1>1. Others(t) /\ thread'[t] = r
    BY <1>h DEF Begin, Others, Threads
  <1>2. Threads'
    BY <1>h, ThreadsKept DEF Begin
  <1>3. Globals'
    <2>1. count' \in [calls : Nat, inits : 0 .. MaxInits]
      BY <1>h DEF Globals
    <2>2. history' \in [overlap : BOOLEAN, crossed : SUBSET Db, why : SUBSET {"quiet", "late"}]
      BY <1>h DEF Begin, Globals
    <2>3. lock' \in [{"engine", "sched"} -> Caller \cup {None}]
      BY <1>h, <1>0 DEF Take, Globals
    <2> QED
      BY <1>h, <2>1, <2>2, <2>3 DEF Globals
  <1>4. NoSync
    BY <1>h, <1>1 DEF NoSync, Others, Begin, Globals
  <1>5. EngineInv'
    <2> SUFFICES ASSUME ~history'.overlap PROVE Undisturbed'
      BY DEF EngineInv
    <2>1. /\ ~history.overlap /\ Beside(t) \cap Lifecycle = {}
          /\ kind \in Lifecycle => Beside(t) = {}
      BY <1>h DEF Begin, Globals
    <2>2. \A s \in Caller : s # t => /\ thread'[s] = thread[s] /\ thread[s].call \notin Lifecycle
                                     /\ kind \in Lifecycle => thread[s].call = "none"
      BY <1>1, <2>1 DEF Beside, Others, Lifecycle
    <2>3. Undisturbed /\ Whole(glob)
      BY <1>h, <1>0, <2>1, <2>2 DEF Known, EngineInv, Undisturbed, Lifecycle
    <2>4. ASSUME NEW s \in Caller PROVE Stage(thread[s], glob)'
      <3>1. CASE s = t
        BY <1>1, <2>3, <3>1 DEF Stage, Whole
      <3>2. CASE s # t
        BY <2>2, <2>3, <3>2 DEF Undisturbed, Stage, Whole
      <3> QED
        BY <3>1, <3>2
    <2>5. ASSUME NEW s \in Caller, NEW u \in Caller, s # u, thread'[u].call \in Lifecycle
          PROVE  thread'[s].call = "none"
      BY <1>1, <2>2, <2>5
    <2> QED
      BY <2>3, <2>4, <2>5 DEF Undisturbed, Whole
  <1>6. ToldInv'
    BY <1>h, <1>0, <1>1, ToldKept DEF Known, Others, Begin, Globals
  <1>7. LockInv'
    <2>1. CASE kind = "destroy"
      <3>1. lock'["engine"] = lock["engine"] /\ lock["engine"] \in Caller \cup {None} /\ lock'["sched"] = t
        BY <1>h, <2>1 DEF Take, Globals
      <3> QED
        BY <1>h, <1>0, <1>1, <2>1, <3>1 DEF LockInv, Known, Others
    <2>2. CASE kind # "destroy"
      BY <1>h, <1>0, <1>1, <2>2, LocksKept DEF Known, Others
    <2> QED
      BY <2>1, <2>2
  <1> QED
    BY <1>h, <1>2, <1>3, <1>4, <1>5, <1>6, <1>7, SyncKept DEF HInv, Typed, Known

LEMMA DestroyEnterStep ==
    ASSUME HInv, NEW t \in Thread, DestroyEnter(t)
    PROVE  HInv'
  <1>1. PICK r : r = [[Idle EXCEPT !.at = "stop"] EXCEPT !.call = "destroy"]
    OBVIOUS
  <1>2. /\ r.call = "destroy" /\ r.at = "stop" /\ r.db = None /\ r \in CallRecord
        /\ r.plan = SyncToken
    BY <1>1 DEF Idle, CallRecord, Kind, Place, AuthPlan, SyncToken, Plan
  <1>3. Proper(t, r)
    BY <1>2 DEF Proper, Open, InPlace, Fits, SyncToken, Plan, DestroyEnter, Begin
  <1> QED
    BY <1>1, <1>2, <1>3, BeginStep DEF DestroyEnter

LEMMA StartEnterStep ==
    ASSUME HInv, NEW t \in Thread, StartEnter(t)
    PROVE  HInv'
  <1>1. PICK r : r = [[Idle EXCEPT !.at = "ensure"] EXCEPT !.call = "start"]
    OBVIOUS
  <1>2. /\ r.call = "start" /\ r.at = "ensure" /\ r.db = None /\ r \in CallRecord
        /\ r.plan = SyncToken
    BY <1>1 DEF Idle, CallRecord, Kind, Place, AuthPlan, SyncToken, Plan
  <1>3. Proper(t, r)
    BY <1>2 DEF Proper, Open, InPlace, Fits, SyncToken, Plan, StartEnter, Begin
  <1> QED
    BY <1>1, <1>2, <1>3, BeginStep DEF StartEnter

LEMMA PlanTyped ==
    \A does \in {"nothing", "login", "logout", "token", "refresh"} :
        \A ok, err, answer \in BOOLEAN : Plan(does, ok, err, answer) \in AuthPlan
  BY DEF Plan, AuthPlan

LEMMA AuthEnterStep ==
    ASSUME HInv, NEW t \in Thread, NEW plan \in AuthCalls, AuthEnter(t, plan)
    PROVE  HInv'
  <1>a. glob.auth \in Manager
    BY Here DEF Known, Globals, AuthEnter
  <1>b. plan \in AuthPlan
    BY PlanTyped DEF AuthCalls, Register, Login, Logout, GetToken, RefreshToken,
                     ChangePassword, ListDevices
  <1>c. Open(plan)
    BY DEF AuthCalls, Open, Plan, Register, Login, Logout, GetToken, RefreshToken,
           ChangePassword, ListDevices
  <1>0. glob.auth \in Manager /\ plan \in AuthPlan /\ Open(plan)
    BY <1>a, <1>b, <1>c
  <1>1. PICK r : r = [[Idle EXCEPT !.at = "manager", !.plan = plan, !.mgr = glob.auth]
                      EXCEPT !.call = "auth"]
    OBVIOUS
  <1>2. /\ r.call = "auth" /\ r.at = "manager" /\ r.db = None /\ r \in CallRecord
        /\ r.plan = plan /\ r.mgr = glob.auth
    BY <1>0, <1>1 DEF Idle, CallRecord, Kind, Place
  <1>3. Proper(t, r)
    BY <1>0, <1>2 DEF Proper, InPlace, Fits, AuthEnter, Begin
  <1> QED
    BY <1>1, <1>2, <1>3, BeginStep DEF AuthEnter

LEMMA SyncEnterStep ==
    ASSUME HInv, NEW t \in Thread, SyncEnter(t)
    PROVE  HInv'
  <1>0. glob.auth \in Manager
    BY Here DEF Known, Globals, SyncEnter
  <1>1. PICK r : r = [[Idle EXCEPT !.at = "manager", !.mgr = glob.auth] EXCEPT !.call = "sync"]
    OBVIOUS
  <1>2. /\ r.call = "sync" /\ r.at = "manager" /\ r.db = None /\ r \in CallRecord
        /\ r.plan = SyncToken /\ r.mgr = glob.auth
    BY <1>0, <1>1 DEF Idle, CallRecord, Kind, Place, AuthPlan, SyncToken, Plan
  <1>3. Proper(t, r)
    BY <1>0, <1>2 DEF Proper, Open, InPlace, Fits, SyncToken, Plan, SyncEnter, Begin
  <1> QED
    BY <1>1, <1>2, <1>3, BeginStep DEF SyncEnter

-----------------------------------------------------------------------------
(* The scheduler of a running engine.                                      *)

LEMMA SchedulerStep ==
    ASSUME HInv, NEW t \in Thread, thread[t].call = "start",
           UNCHANGED <<lock, mgr, saved, db, sent, told, count, history>>,
           glob' \in [engine : Db \cup {None}, sched : Scheduler,
                      auth : Manager \cup {0}, url : Manager \cup {0}],
           glob'.engine = glob.engine, glob'.auth = glob.auth, glob'.url = glob.url,
           glob'.sched # "none" => glob.sched # "none" \/ glob.url # 0,
           Threads', Others(t), thread'[t].call \in {"start", "none"},
           thread'[t].at \in {"start", "idle"}
    PROVE  HInv'
  <1>h. Known(t) /\ Globals /\ Threads
    BY Here DEF Known
  <1>0. t \in Caller /\ thread[t].at \notin {"state", "tell"}
    BY <1>h DEF Known, InPlace, Fits
  <1>1. Globals'
    BY <1>h, GlobalsKept DEF Globals
  <1>2. NoSync
    BY DEF NoSync, Others
  <1>3. EngineInv'
    <2> SUFFICES ASSUME ~history.overlap PROVE Undisturbed'
      BY DEF EngineInv
    <2>1. Undisturbed
      BY <1>h DEF Known, EngineInv
    <2>2. \A s \in Caller : thread[s].call \notin Lifecycle
      BY <1>0, <2>1 DEF Undisturbed, Lifecycle
    <2>3. \A s \in Caller : thread'[s].call \notin Lifecycle
      BY <2>2, Constants DEF Others, Lifecycle
    <2>4. Whole(glob)'
      BY <2>1, <2>2 DEF Undisturbed, Whole
    <2>5. ASSUME NEW s \in Caller PROVE Stage(thread[s], glob)'
      <3>1. CASE s = t
        BY <3>1, <2>4 DEF Stage, Lifecycle
      <3>2. CASE s # t
        <4>1. thread'[s] = thread[s] /\ InPlace(thread[s])
          BY <3>2, <1>h, Constants DEF Others, Threads, Proper
        <4> QED
          BY <4>1, <2>2, <2>4 DEF Stage, Lifecycle, InPlace, Fits
      <3> QED
        BY <3>1, <3>2
    <2> QED
      BY <2>3, <2>4, <2>5 DEF Undisturbed
  <1>4. ToldInv'
    BY <1>h, <1>0, ToldKept DEF Known, Others
  <1>5. LockInv'
    BY <1>h, LocksKept, Constants DEF Known, Others, InPlace, Fits
  <1> QED
    BY <1>h, <1>1, <1>2, <1>3, <1>4, <1>5, SyncKept DEF HInv, Typed, Known

LEMMA EnsureSchedulerStep ==
    ASSUME HInv, NEW t \in Thread, EnsureScheduler(t)
    PROVE  HInv'
  <1>h. Known(t) /\ Globals /\ Threads
    BY Here DEF Known
  <1>0. thread[t].call = "start" /\ thread[t].at = "ensure"
    BY <1>h DEF EnsureScheduler, Known, At, InPlace, Fits
  <1>1. CASE Goto(t, "start") /\ UNCHANGED glob
    <2>1. Others(t) /\ thread'[t].call = "start" /\ thread'[t].at = "start" /\ Threads'
      BY <1>h, <1>0, <1>1, Went, GotoProper DEF Place, Known, Fits, InPlace
    <2> QED
      BY <1>h, <1>0, <1>1, <2>1, SchedulerStep DEF EnsureScheduler, Globals
  <1>2. CASE glob.url # 0 /\ Goto(t, "start") /\ Set("sched", "made")
    <2>1. Others(t) /\ thread'[t].call = "start" /\ thread'[t].at = "start" /\ Threads'
      BY <1>h, <1>0, <1>2, Went, GotoProper DEF Place, Known, Fits, InPlace
    <2>2. /\ glob'.engine = glob.engine /\ glob'.auth = glob.auth /\ glob'.url = glob.url
          /\ glob' \in [engine : Db \cup {None}, sched : Scheduler,
                        auth : Manager \cup {0}, url : Manager \cup {0}]
      BY <1>h, <1>2, SetTyped DEF Scheduler
    <2> QED
      BY <1>h, <1>0, <1>2, <2>1, <2>2, SchedulerStep DEF EnsureScheduler
  <1>3. CASE Return(t) /\ UNCHANGED glob
    <2>1. Others(t) /\ thread'[t].call = "none" /\ thread'[t].at = "idle" /\ Threads'
      BY <1>h, <1>3, Home, ReturnProper
    <2> QED
      BY <1>h, <1>0, <1>3, <2>1, SchedulerStep DEF EnsureScheduler, Globals
  <1> QED
    BY <1>1, <1>2, <1>3 DEF EnsureScheduler

LEMMA StartPanicsStep ==
    ASSUME HInv, NEW t \in Thread, StartPanics(t)
    PROVE  HInv'
  <1>h. Known(t) /\ Globals /\ Threads
    BY Here DEF Known
  <1>0. thread[t].call = "start"
    BY <1>h DEF StartPanics, Known, At, InPlace, Fits
  <1>1. Others(t) /\ thread'[t].call = "none" /\ thread'[t].at = "idle" /\ Threads'
    BY <1>h, Home, ReturnProper DEF StartPanics
  <1>2. PICK s : s = IF glob.sched = "made" THEN "poisoned" ELSE glob.sched
    OBVIOUS
  <1>3. s \in Scheduler /\ (s # "none" => glob.sched # "none")
    BY <1>h, <1>2 DEF Globals, Scheduler
  <1>4. /\ glob'.engine = glob.engine /\ glob'.auth = glob.auth /\ glob'.url = glob.url
        /\ glob'.sched = s
        /\ glob' \in [engine : Db \cup {None}, sched : Scheduler,
                      auth : Manager \cup {0}, url : Manager \cup {0}]
    BY <1>h, <1>2, <1>3, SetTyped DEF StartPanics
  <1> QED
    BY <1>0, <1>1, <1>3, <1>4, SchedulerStep DEF StartPanics

-----------------------------------------------------------------------------
(* Calls of the auth interface, and syncs.                                 *)

\* A call that is neither an init nor a destroy, and that moves alone.
Ordinary(t) ==
    /\ Others(t) /\ thread[t].call \in {"auth", "sync"} /\ thread'[t].call \in {thread[t].call, "none"}
    /\ thread'[t].at \in {"manager", "state", "tell", "answer", "build", "read", "push", "mark", "idle"}
    /\ UNCHANGED <<glob, lock, count>> /\ history'.overlap = history.overlap

LEMMA OrdinaryKeepsEngine ==
    ASSUME EngineInv, NEW t \in Thread, Ordinary(t)
    PROVE  EngineInv'
  <1>1. ASSUME NEW s \in Caller, s # t PROVE thread'[s] = thread[s]
    BY <1>1, Constants DEF Ordinary, Others
  <1> QED
    BY <1>1, EngineKept DEF Ordinary, Lifecycle

LEMMA OrdinaryKeepsLocks ==
    ASSUME NEW t \in Thread, Known(t), Ordinary(t)
    PROVE  LockInv'
  BY LocksKept, Constants DEF Known, Ordinary, Others, InPlace, Fits

LEMMA ReadStateStep ==
    ASSUME HInv, NEW t \in Thread, ReadState(t)
    PROVE  HInv'
  <1>h. Known(t) /\ Globals /\ Threads
    BY Here DEF Known
  <1>0. /\ thread[t].at = "state" /\ thread[t].mgr \in Manager
        /\ thread[t].call \in {"init", "auth", "sync"}
    BY <1>h DEF ReadState, Known, At, InPlace, Fits
  <1>1. mgr[thread[t].mgr] \in AuthState
    BY <1>h, <1>0 DEF Globals
  <1>2. PICK r : r = [thread[t] EXCEPT !.at = "tell", !.code = mgr[thread[t].mgr]]
    OBVIOUS
  <1>3. thread' = [thread EXCEPT ![t] = r]
    BY <1>h, <1>2 DEF ReadState, Threads
  <1>4. /\ r \in CallRecord /\ r.at = "tell" /\ r.code \in AuthState
        /\ r.call = thread[t].call /\ r.mgr = thread[t].mgr /\ r.db = thread[t].db
        /\ r.plan = thread[t].plan
    BY <1>h, <1>1, <1>2 DEF Known, CallRecord, Place
  <1>5. Proper(t, r)
    BY <1>h, <1>0, <1>4 DEF Known, Proper, InPlace, Fits
  <1>6. Threads' /\ Others(t) /\ thread'[t] = r
    BY <1>h, <1>3, <1>5, ThreadsKept DEF Others, Threads
  <1>7. Globals'
    BY <1>h DEF Globals, ReadState
  <1>8. NoSync
    BY <1>4, <1>6 DEF NoSync, Others, ReadState
  <1>9. EngineInv'
    <2>1. CASE thread[t].call = "init"
      <3> SUFFICES ASSUME ~history.overlap PROVE Undisturbed'
        BY DEF EngineInv, ReadState
      <3>1. t \in Caller /\ Stage(thread[t], glob)
        BY <1>h, <2>1 DEF Known, EngineInv, Undisturbed
      <3>2. Stage(thread[t], glob)'
        BY <1>0, <1>4, <1>6, <3>1 DEF Stage, ReadState
      <3> QED
        BY <1>4, <1>6, <2>1, <3>1, <3>2, Alone DEF ReadState, Lifecycle
    <2>2. CASE thread[t].call # "init"
      BY <1>h, <1>0, <1>4, <1>6, <2>2, OrdinaryKeepsEngine DEF Ordinary, ReadState, Known
    <2> QED
      BY <2>1, <2>2
  <1>10. ToldInv'
    BY <1>h, <1>4, <1>6, ToldKept DEF Known, ReadState, Others
  <1>11. LockInv'
    BY <1>h, <1>0, <1>4, <1>6, LocksKept, Constants DEF Known, Others, ReadState
  <1> QED
    BY <1>h, <1>6, <1>7, <1>8, <1>9, <1>10, <1>11, SyncKept DEF HInv, Typed, Known

\* After this step the callback knows the state, or the history knows why not.
LEMMA TellStep ==
    ASSUME HInv, NEW t \in Thread, Tell(t)
    PROVE  HInv'
  <1> USE Constants
  <1>h. Known(t) /\ Globals /\ Threads
    BY Here DEF Known
  <1>0. /\ thread[t].at = "tell" /\ thread[t].mgr \in Manager /\ thread[t].code \in AuthState
        /\ thread[t].call \in {"init", "auth", "sync"}
    BY <1>h DEF Tell, Known, At, InPlace, Fits
  <1>1. PICK r : r = [thread[t] EXCEPT !.at = "answer"]
    OBVIOUS
  <1>2. /\ r \in CallRecord /\ r.at = "answer" /\ r.call = thread[t].call /\ r.mgr = thread[t].mgr
        /\ r.db = thread[t].db /\ r.plan = thread[t].plan
    BY <1>h, <1>1 DEF Known, CallRecord, Place
  <1>3. PICK b : b = [Idle EXCEPT !.call = "auth", !.at = "manager",
                                  !.plan = Background, !.mgr = thread[t].mgr]
    OBVIOUS
  <1>4. /\ b \in CallRecord /\ b.at = "manager" /\ b.call = "auth" /\ b.mgr = thread[t].mgr
        /\ b.db = None /\ b.plan = Background
    BY <1>0, <1>3 DEF Idle, CallRecord, Kind, Place, Background, PlanTyped, Plan, AuthPlan
  <1>5. \A s \in Thread :
           /\ s = t => thread'[s] = Idle \/ (thread[t].call = "auth" /\ thread'[s] = r)
           /\ s # t => thread'[s] = thread[s] \/ (s = thread[t].mgr /\ thread'[s] = b)
    BY <1>1, <1>3 DEF Tell
  <1>6. ASSUME NEW s \in Thread PROVE Proper(s, thread'[s])
    <2>1. CASE s = t /\ thread'[s] = Idle
      BY <2>1, IdleProper
    <2>2. CASE s = t /\ thread[t].call = "auth" /\ thread'[s] = r
      BY <1>h, <1>0, <1>2, <2>2 DEF Known, Proper, InPlace, Fits
    <2>3. CASE s # t /\ thread'[s] = thread[s]
      BY <1>h, <2>3 DEF Threads
    <2>4. CASE s = thread[t].mgr /\ thread'[s] = b
      <3>1. Open(b.plan)
        BY <1>4 DEF Open, Background, Plan
      <3>2. InPlace(b)
        BY <1>0, <1>4 DEF InPlace, Fits
      <3> QED
        BY <1>4, <2>4, <3>1, <3>2 DEF Proper
    <2> QED
      BY <1>5, <2>1, <2>2, <2>3, <2>4
  <1>7. Threads'
    <2>1. thread' = [s \in Thread |-> thread'[s]]
      BY DEF Tell
    <2> QED
      BY <1>6, <2>1 DEF Threads, Proper
  <1>8. Globals'
    <2>1. history' \in [overlap : BOOLEAN, crossed : SUBSET Db, why : SUBSET {"quiet", "late"}]
      BY <1>h DEF Globals, Tell
    <2>2. lock' \in [{"engine", "sched"} -> Caller \cup {None}]
      BY <1>h, GiveBackTyped DEF Tell
    <2> QED
      BY <1>h, <1>0, <2>1, <2>2 DEF Globals, Tell
  <1>9. NoSync
    <2>1. db' = db /\ sent' = sent /\ glob' = glob /\ history.crossed = history'.crossed
      BY <1>h DEF Tell, Globals
    <2>2. Idle.call # "sync"
      BY DEF Idle
    <2> QED
      BY <1>2, <1>4, <1>5, <2>1, <2>2 DEF NoSync
  <1>10. EngineInv'
    <2>0. /\ history'.overlap = history.overlap /\ glob' = glob
          /\ Idle.call = "none" /\ Idle.at = "idle"
          /\ \A s \in Caller : s # t => thread'[s] = thread[s]
      BY <1>h, <1>0, <1>5 DEF Tell, Globals, Idle
    <2>1. CASE thread[t].call = "init"
      <3> SUFFICES ASSUME ~history.overlap PROVE Undisturbed'
        BY <2>0 DEF EngineInv
      <3>1. t \in Caller /\ Undisturbed /\ thread'[t] = Idle
        BY <1>h, <1>5, <2>1 DEF Known, EngineInv
      <3>2. Whole(glob)
        BY <1>0, <2>1, <3>1 DEF Undisturbed, Stage, Whole
      <3>3. ASSUME NEW s \in Caller, s # t
            PROVE  thread'[s].call = "none" /\ thread'[s].at = "idle"
        <4>1. thread[s].call = "none" /\ InPlace(thread[s])
          BY <1>h, <2>1, <3>1, <3>3 DEF Undisturbed, Lifecycle, Threads, Proper
        <4> QED
          BY <2>0, <3>3, <4>1 DEF InPlace, Fits
      <3> QED
        BY <2>0, <3>1, <3>2, <3>3 DEF Undisturbed, Stage, Lifecycle, Whole
    <2>2. CASE thread[t].call # "init"
      BY <1>h, <1>0, <1>2, <1>5, <2>0, <2>2, EngineKept DEF Known, Lifecycle
    <2> QED
      BY <2>1, <2>2
  <1>11. ToldInv'
    <2> SUFFICES ASSUME glob.auth # 0, thread[t].code # mgr[glob.auth] PROVE history'.why # {}
      BY DEF ToldInv, Tell
    <2> QED
      BY <1>h DEF Tell, Globals
  <1>12. LockInv'
    BY <1>h, <1>0, <1>5, LocksKept DEF Known, Tell
  <1> QED
    BY <1>h, <1>7, <1>8, <1>9, <1>10, <1>11, <1>12, SyncKept DEF HInv, Typed, Known

\* A call of the auth interface or a sync that changes no manager.
LEMMA OrdinaryStep ==
    ASSUME HInv, NEW t \in Thread, Ordinary(t), Threads', UNCHANGED <<mgr, saved, told, history>>,
           thread[t].at \notin {"state", "tell"},
           db' \in [Db -> [ops : 0 .. MaxOps, synced : SUBSET Nat]],
           \A d \in Db : db'[d].synced \subseteq 1 .. db'[d].ops,
           SyncInv'
    PROVE  HInv'
  <1>h. Known(t) /\ Globals
    BY Here DEF Known
  <1>1. Globals'
    BY <1>h DEF Ordinary, Globals
  <1>2. EngineInv'
    BY <1>h, OrdinaryKeepsEngine DEF Known
  <1>3. ToldInv'
    BY <1>h, ToldKept DEF Known, Ordinary, Others
  <1>4. LockInv'
    BY <1>h, OrdinaryKeepsLocks
  <1> QED
    BY <1>1, <1>2, <1>3, <1>4 DEF HInv, Typed

LEMMA ReturnAnswerStep ==
    ASSUME HInv, NEW t \in Thread, ReturnAnswer(t)
    PROVE  HInv'
  <1>h. Known(t) /\ Globals /\ Threads
    BY Here DEF Known
  <1>0. thread[t].call = "auth" /\ thread[t].at = "answer"
    BY <1>h DEF ReturnAnswer, Known, At, InPlace, Fits
  <1>1. Others(t) /\ thread'[t].call = "none" /\ thread'[t].at = "idle" /\ Threads'
    BY <1>h, Home, ReturnProper DEF ReturnAnswer
  <1>2. NoSync
    BY <1>1 DEF NoSync, Others, ReturnAnswer
  <1> QED
    BY <1>h, <1>0, <1>1, <1>2, SyncKept, OrdinaryStep DEF ReturnAnswer, Ordinary, Globals, Known

LEMMA SyncBuildStep ==
    ASSUME HInv, NEW t \in Thread, SyncBuild(t)
    PROVE  HInv'
  <1>h. Known(t) /\ Globals /\ Threads
    BY Here DEF Known
  <1>0. thread[t].call = "sync" /\ thread[t].at = "build"
    BY <1>h DEF SyncBuild, Known, At, InPlace, Fits
  <1>1. /\ Others(t) /\ Threads'
        /\ \/ thread'[t].call = "none" /\ thread'[t].at = "idle"
           \/ thread'[t].call = "sync" /\ thread'[t].at = "read" /\ thread'[t].db = thread[t].db
    <2>1. CASE Return(t)
      BY <1>h, <2>1, Home, ReturnProper
    <2>2. CASE Goto(t, "read")
      BY <1>h, <1>0, <2>2, Went, GotoProper DEF Place, Known, Fits, InPlace
    <2> QED
      BY <2>1, <2>2 DEF SyncBuild
  <1>2. NoSync
    BY <1>0, <1>1 DEF NoSync, Others, SyncBuild
  <1> QED
    BY <1>h, <1>0, <1>1, <1>2, SyncKept, OrdinaryStep DEF SyncBuild, Ordinary, Globals, Known

Answer == [ok : BOOLEAN, state : AuthState, saved : BOOLEAN]

LEMMA ResultIs ==
    \A ok, file \in BOOLEAN : \A s \in AuthState :
        /\ Result(ok, s, file) \in Answer
        /\ Result(ok, s, file).state = s /\ (Result(ok, s, file).ok <=> ok)
  BY DEF Result, Answer

LEMMA RefreshedTyped ==
    ASSUME NEW s \in AuthState, saved \in BOOLEAN, NEW r \in Refreshed(s)
    PROVE  r \in Answer
  <1>1. {"Authenticated", "NeedsRefresh", "NeedsReLogin"} \subseteq AuthState
    BY DEF AuthState
  <1>2. CASE s \in {"Authenticated", "NeedsRefresh"}
    <2>1. PICK ok \in BOOLEAN, file \in BOOLEAN, st \in AuthState : r = Result(ok, st, file)
      BY <1>1, <1>2 DEF Refreshed
    <2> QED
      BY <2>1, ResultIs
  <1>3. CASE s \notin {"Authenticated", "NeedsRefresh"}
    BY <1>3, ResultIs DEF Refreshed
  <1> QED
    BY <1>2, <1>3

LEMMA ResultsTyped ==
    ASSUME NEW s \in AuthState, saved \in BOOLEAN,
           NEW does \in {"nothing", "login", "logout", "token", "refresh"},
           NEW r \in Results(does, s)
    PROVE  /\ r \in Answer
           /\ r.state # s => does # "nothing" /\ (does \in {"login", "logout"} => r.ok)
  <1>1. {"Authenticated", "LoggedOut"} \subseteq AuthState /\ TRUE \in BOOLEAN /\ FALSE \in BOOLEAN
    BY DEF AuthState
  <1>2. CASE does = "nothing"
    <2>1. PICK ok \in BOOLEAN : r = Result(ok, s, saved)
      BY <1>2 DEF Results
    <2> QED
      BY <2>1, ResultIs
  <1>3. CASE does \in {"login", "logout"}
    <2>1. \/ r = Result(TRUE, "Authenticated", TRUE) \/ r = Result(TRUE, "LoggedOut", FALSE)
          \/ r = Result(FALSE, s, saved)
      BY <1>3 DEF Results
    <2>2. CASE r = Result(TRUE, "Authenticated", TRUE) \/ r = Result(TRUE, "LoggedOut", FALSE)
      <3>1. r \in Answer /\ r.ok
        BY <1>1, <2>2, ResultIs
      <3> QED
        BY <1>3, <3>1
    <2>3. CASE r = Result(FALSE, s, saved)
      BY <1>1, <2>3, ResultIs
    <2> QED
      BY <2>1, <2>2, <2>3
  <1>4. CASE does = "refresh"
    BY <1>4, RefreshedTyped DEF Results
  <1>5. CASE does = "token"
    <2>1. r \in Refreshed(s) \/ r = Result(TRUE, s, saved) \/ r = Result(FALSE, s, saved)
      BY <1>5 DEF Results
    <2> QED
      BY <1>1, <1>5, <2>1, RefreshedTyped, ResultIs
  <1> QED
    BY <1>2, <1>3, <1>4, <1>5

\* A manager's state changes in two ways: somebody is about to tell it, or the
\* history says that nobody will.
LEMMA ManageStep ==
    ASSUME HInv, NEW t \in Thread, Manage(t)
    PROVE  HInv'
  <1>h. Known(t) /\ Globals /\ Threads
    BY Here DEF Known
  <1>0. /\ thread[t].at = "manager" /\ thread[t].mgr \in Manager
        /\ thread[t].call \in {"auth", "sync"} /\ thread[t].plan \in AuthPlan
        /\ thread[t] \in CallRecord
    BY <1>h DEF Manage, Known, At, InPlace, Fits, CallRecord
  <1>g. PICK g : g = thread[t].mgr
    OBVIOUS
  <1>1. PICK r \in Results(thread[t].plan.does, mgr[g]) :
           /\ mgr' = [mgr EXCEPT ![g] = r.state] /\ saved' = r.saved
           /\ IF After(t, r) = "idle" THEN Return(t)
              ELSE thread' = [thread EXCEPT ![t].at = After(t, r), ![t].plan.answer = @ /\ r.ok]
           /\ history' = IF thread[t].plan.does = "token" /\ r.state # mgr[g]
                            /\ ~Tells(thread[t].plan, r.ok)
                         THEN [history EXCEPT !.why = @ \cup {"quiet"}] ELSE history
    BY <1>g DEF Manage
  <1>2. /\ r.ok \in BOOLEAN /\ r.state \in AuthState /\ r.saved \in BOOLEAN
        /\ r.state # mgr[g] => /\ thread[t].plan.does # "nothing"
                               /\ thread[t].plan.does \in {"login", "logout"} => r.ok
    <2>1. mgr[g] \in AuthState /\ saved \in BOOLEAN
      BY <1>h, <1>0, <1>g DEF Globals
    <2>2. thread[t].plan.does \in {"nothing", "login", "logout", "token", "refresh"}
      BY <1>0 DEF AuthPlan
    <2> QED
      BY <1>1, <2>1, <2>2, ResultsTyped DEF Answer
  <1>3. PICK pc : pc = After(t, r)
    OBVIOUS
  <1>4. /\ pc \in {"state", "build", "answer", "idle"} /\ (pc = "build" => thread[t].call = "sync")
        /\ pc = "answer" => thread[t].call = "auth"
        /\ Tells(thread[t].plan, r.ok) => pc = "state"
    BY <1>0, <1>3 DEF After
  <1>5. /\ Threads' /\ Others(t) /\ (thread'[t].at = pc)
        /\ thread'[t].call \in {thread[t].call, "none"} /\ thread'[t].db \in {thread[t].db, None}
    <2>1. CASE pc = "idle"
      BY <1>h, <1>1, <1>3, <2>1, Home, ReturnProper
    <2>2. CASE pc # "idle"
      <3>1. PICK plan : plan = [thread[t].plan EXCEPT !.answer = thread[t].plan.answer /\ r.ok]
        OBVIOUS
      <3>2. plan \in AuthPlan /\ Open(plan)
        <4>1. /\ plan \in AuthPlan
              /\ plan.does = thread[t].plan.does /\ plan.ok = thread[t].plan.ok
              /\ plan.err = thread[t].plan.err
          BY <1>0, <1>2, <3>1 DEF AuthPlan
        <4> QED
          BY <1>h, <4>1 DEF Known, Open
      <3>3. PICK c : c = [thread[t] EXCEPT !.at = pc, !.plan = plan]
        OBVIOUS
      <3>4. /\ c \in CallRecord /\ c.at = pc /\ c.call = thread[t].call /\ c.mgr = thread[t].mgr
            /\ c.db = thread[t].db /\ c.plan = plan
        BY <1>0, <1>4, <3>2, <3>3 DEF CallRecord, Place
      <3>5. thread' = [thread EXCEPT ![t] = c]
        <4>1. thread \in [Thread -> CallRecord]
          BY <1>h DEF Threads
        <4> QED
          BY <1>0, <1>1, <1>3, <2>2, <3>1, <3>3, <4>1 DEF CallRecord, AuthPlan
      <3>6. Proper(t, c)
        BY <1>h, <1>0, <1>4, <2>2, <3>2, <3>4 DEF Known, Proper, InPlace, Fits
      <3>7. thread \in [Thread -> CallRecord]
        BY <1>h DEF Threads
      <3> QED
        BY <1>h, <3>4, <3>5, <3>6, <3>7, ThreadsKept DEF Others
    <2> QED
      BY <2>1, <2>2
  <1>6. /\ history'.why \in SUBSET {"quiet", "late"} /\ history.why \subseteq history'.why
        /\ history' \in [overlap : BOOLEAN, crossed : SUBSET Db, why : SUBSET {"quiet", "late"}]
        /\ history'.overlap = history.overlap /\ history'.crossed = history.crossed
    <2>1. history \in [overlap : BOOLEAN, crossed : SUBSET Db, why : SUBSET {"quiet", "late"}]
      BY <1>h DEF Globals
    <2>2. history' = history \/ history' = [history EXCEPT !.why = @ \cup {"quiet"}]
      BY <1>1
    <2> QED
      BY <2>1, <2>2
  <1>7. Globals'
    <2>1. mgr' \in [Manager -> AuthState]
      BY <1>h, <1>1, <1>2 DEF Globals
    <2> QED
      BY <1>h, <1>1, <1>2, <1>6, <2>1 DEF Globals, Manage
  <1>8. NoSync
    BY <1>0, <1>4, <1>5, <1>6 DEF NoSync, Others, Manage
  <1>9. EngineInv'
    BY <1>h, <1>0, <1>4, <1>5, <1>6, OrdinaryKeepsEngine DEF Ordinary, Manage, Known
  <1>10. ToldInv'
    <2>1. CASE pc = "state"
      BY <1>5, <2>1 DEF ToldInv
    <2>2. CASE pc # "state" /\ r.state = mgr[g]
      <3>1. mgr' = mgr
        BY <1>h, <1>0, <1>g, <1>1, <2>2 DEF Globals
      <3> QED
        BY <1>h, <1>0, <1>5, <1>6, <3>1, ToldKept DEF Known, Manage, Others
    <2>3. CASE pc # "state" /\ r.state # mgr[g]
      <3>1. ~Tells(thread[t].plan, r.ok)
        BY <1>4, <2>3
      <3>2. thread[t].plan.does = "token"
        BY <1>h, <1>0, <1>2, <2>3, <3>1 DEF Known, Open, Tells, AuthPlan
      <3>3. "quiet" \in history'.why
        BY <1>h, <1>1, <2>3, <3>1, <3>2 DEF Globals
      <3> QED
        BY <3>3 DEF ToldInv
    <2> QED
      BY <2>1, <2>2, <2>3
  <1>11. LockInv'
    BY <1>h, <1>0, <1>4, <1>5, <1>6, OrdinaryKeepsLocks DEF Ordinary, Manage
  <1> QED
    BY <1>h, <1>5, <1>7, <1>8, <1>9, <1>10, <1>11, SyncKept DEF HInv, Typed, Known

\* A sync takes the engine that is there; if it is another one than before, the
\* sync that had read from the old one was recorded.
LEMMA SyncReadStep ==
    ASSUME HInv, NEW t \in Thread, SyncRead(t)
    PROVE  HInv'
  <1>h. Known(t) /\ Globals /\ Threads
    BY Here DEF Known
  <1>0. thread[t].call = "sync" /\ thread[t].at = "read" /\ thread[t] \in CallRecord
    BY <1>h DEF SyncRead, Known, At, InPlace, Fits
  <1>1. CASE glob.engine = None /\ Goto(t, "state")
    <2>1. /\ Others(t) /\ Threads' /\ thread'[t].call = "sync" /\ thread'[t].at = "state"
          /\ thread'[t].db = thread[t].db
      BY <1>h, <1>0, <1>1, Went, GotoProper DEF Place, Known, Fits, InPlace
    <2>2. NoSync
      BY <1>0, <2>1 DEF NoSync, Others, SyncRead
    <2> QED
      BY <1>h, <1>0, <2>1, <2>2, SyncKept, OrdinaryStep DEF SyncRead, Ordinary, Globals, Known
  <1>2. CASE glob.engine # None
    <2>e. PICK e : e = glob.engine
      OBVIOUS
    <2>d. e \in Db /\ db[e].ops \in 0 .. MaxOps /\ db \in [Db -> [ops : 0 .. MaxOps, synced : SUBSET Nat]]
      BY <1>h, <1>2, <2>e DEF Globals
    <2>0. PICK pc : pc = IF Unsynced(e) = {} THEN "state" ELSE "push"
      OBVIOUS
    <2>1. PICK r : r = [thread[t] EXCEPT !.at = pc, !.db = e, !.batch = Unsynced(e)]
      OBVIOUS
    <2>2. thread' = [thread EXCEPT ![t] = r]
      BY <1>2, <2>e, <2>0, <2>1 DEF SyncRead
    <2>3. Unsynced(e) \in SUBSET Nat
      BY <2>d, EngineHandleAssumption DEF Unsynced
    <2>4. /\ r \in CallRecord /\ r.at = pc /\ r.db = e /\ r.call = "sync" /\ pc \in {"state", "push"}
          /\ r.mgr = thread[t].mgr /\ r.plan = thread[t].plan
      BY <1>0, <2>d, <2>0, <2>1, <2>3 DEF CallRecord, Place
    <2>5. Proper(t, r)
      BY <1>h, <1>0, <2>d, <2>4 DEF Known, Proper, InPlace, Fits
    <2>6. Threads' /\ Others(t) /\ thread'[t] = r
      BY <1>h, <2>2, <2>5, ThreadsKept DEF Threads, Others
    <2>7. SyncInv'
      <3>1. /\ db' = db /\ sent' = sent /\ glob' = glob /\ history' = history
        BY DEF SyncRead
      <3>2. ASSUME NEW s \in Thread PROVE Sync(thread[s])'
        <4>1. CASE s = t
          BY <2>e, <2>4, <2>6, <3>1, <4>1 DEF Sync
        <4>2. CASE s # t
          BY <1>h, <2>6, <3>1, <4>2 DEF Known, SyncInv, Sync, Others
        <4> QED
          BY <4>1, <4>2
      <3> QED
        BY <1>h, <3>1, <3>2 DEF Known, SyncInv, SyncedWasSent
    <2> QED
      BY <1>h, <1>0, <2>4, <2>6, <2>7, OrdinaryStep DEF SyncRead, Ordinary, Globals
  <1> QED
    BY <1>1, <1>2 DEF SyncRead

LEMMA SyncPushStep ==
    ASSUME HInv, NEW t \in Thread, SyncPush(t)
    PROVE  HInv'
  <1>h. Known(t) /\ Globals /\ Threads
    BY Here DEF Known
  <1>0. thread[t].call = "sync" /\ thread[t].at = "push" /\ thread[t].db \in Db
    BY <1>h DEF SyncPush, Known, At, InPlace, Fits
  <1>1. PICK ops : ops = {<<thread[t].db, i>> : i \in thread[t].batch}
    OBVIOUS
  <1>2. PICK pc \in {"mark", "state"} :
           Goto(t, pc) /\ sent \subseteq sent' /\ (pc = "mark" => sent' = sent \cup ops)
    BY <1>1 DEF SyncPush
  <1>3. /\ Others(t) /\ Threads' /\ thread'[t].call = "sync" /\ thread'[t].at = pc
        /\ thread'[t].db = thread[t].db /\ thread'[t].batch = thread[t].batch
    BY <1>h, <1>0, <1>2, Went, GotoProper DEF Place, Known, Fits, InPlace
  <1>4. SyncInv'
    <2>1. /\ db' = db /\ glob' = glob /\ history' = history
      BY DEF SyncPush
    <2>2. ASSUME NEW s \in Thread PROVE Sync(thread[s])'
      <3>1. CASE s = t
        <4>1. Sync(thread[t])
          BY <1>h DEF Known, SyncInv
        <4>2. pc = "mark" => \A i \in thread[t].batch : <<thread[t].db, i>> \in sent'
          BY <1>1, <1>2
        <4> QED
          BY <1>0, <1>3, <2>1, <3>1, <4>1, <4>2 DEF Sync
      <3>2. CASE s # t
        BY <1>h, <1>2, <1>3, <2>1, <3>2 DEF Known, SyncInv, Sync, Others
      <3> QED
        BY <3>1, <3>2
    <2> QED
      BY <1>h, <1>2, <2>1, <2>2 DEF Known, SyncInv, SyncedWasSent
  <1> QED
    BY <1>h, <1>0, <1>3, <1>4, OrdinaryStep DEF SyncPush, Ordinary, Globals

\* What is marked is in the batch that was answered; if the engine is not the one
\* the batch was read from, it was recorded as crossed.
LEMMA SyncMarkStep ==
    ASSUME HInv, NEW t \in Thread, SyncMark(t)
    PROVE  HInv'
  <1>h. Known(t) /\ Globals /\ Threads
    BY Here DEF Known
  <1>0. thread[t].call = "sync" /\ thread[t].at = "mark" /\ thread[t].db \in Db
    BY <1>h DEF SyncMark, Known, At, InPlace, Fits
  <1>1. /\ Others(t) /\ Threads' /\ thread'[t].call = "sync" /\ thread'[t].at = "state"
        /\ thread'[t].db = thread[t].db /\ thread'[t].batch = thread[t].batch
    BY <1>h, <1>0, Went, GotoProper DEF SyncMark, Place, Known, Fits, InPlace
  <1>2. /\ db' \in [Db -> [ops : 0 .. MaxOps, synced : SUBSET Nat]]
        /\ \A d \in Db : /\ db'[d].ops = db[d].ops
                         /\ db'[d].synced \subseteq 1 .. db'[d].ops
                         /\ \A i \in db'[d].synced :
                               i \in db[d].synced \/ (d = glob.engine /\ i \in thread[t].batch)
    <2>1. /\ db \in [Db -> [ops : 0 .. MaxOps, synced : SUBSET Nat]]
          /\ \A d \in Db : db[d].synced \subseteq 1 .. db[d].ops
      BY <1>h DEF Globals
    <2>2. CASE glob.engine = None
      BY <2>1, <2>2 DEF SyncMark
    <2>3. CASE glob.engine # None
      <3>1. PICK e : e = glob.engine
        OBVIOUS
      <3>2. PICK row : row = [ops |-> db[e].ops,
                    synced |-> db[e].synced \cup (thread[t].batch \cap 1 .. db[e].ops)]
        OBVIOUS
      <3>3. e \in Db /\ db[e].ops \in Nat
        BY <1>h, <2>1, <2>3, <3>1, EngineHandleAssumption DEF Globals
      <3>4. db' = [db EXCEPT ![e] = row]
        <4>1. row = [db[e] EXCEPT !.synced = db[e].synced \cup (thread[t].batch \cap 1 .. db[e].ops)]
          BY <2>1, <3>2, <3>3
        <4> QED
          BY <2>1, <2>3, <3>1, <3>3, <4>1 DEF SyncMark
      <3> QED
        BY <2>1, <3>1, <3>2, <3>3, <3>4, EngineHandleAssumption
    <2> QED
      BY <2>2, <2>3
  <1>3. SyncInv'
    <2>1. /\ sent' = sent /\ glob' = glob /\ history' = history
      BY DEF SyncMark
    <2>2. ASSUME NEW s \in Thread PROVE Sync(thread[s])'
      BY <1>h, <1>0, <1>1, <2>1, <2>2 DEF Known, SyncInv, Sync, Others
    <2>3. SyncedWasSent'
      <3> SUFFICES ASSUME NEW d \in Db, d \notin history.crossed, NEW i \in db'[d].synced
                   PROVE  <<d, i>> \in sent
        BY <2>1 DEF SyncedWasSent
      <3>1. CASE i \in db[d].synced
        BY <1>h, <3>1 DEF Known, SyncInv, SyncedWasSent
      <3>2. CASE d = glob.engine /\ i \in thread[t].batch
        <4>1. Sync(thread[t]) /\ None \notin Db
          BY <1>h, Constants DEF Known, SyncInv
        <4>2. thread[t].db = d
          BY <1>0, <3>2, <4>1 DEF Sync
        <4> QED
          BY <1>0, <3>2, <4>1, <4>2 DEF Sync
      <3> QED
        BY <1>2, <3>1, <3>2
    <2> QED
      BY <2>2, <2>3 DEF SyncInv
  <1> QED
    BY <1>h, <1>0, <1>1, <1>2, <1>3, OrdinaryStep DEF SyncMark, Ordinary

LEMMA LogOpStep == ASSUME HInv, LogOp PROVE HInv'
  <1>h. Globals /\ Threads /\ SyncInv /\ EngineInv /\ ToldInv /\ LockInv
    BY DEF HInv, Typed
  <1>1. PICK e : e = glob.engine
    OBVIOUS
  <1>2. /\ db \in [Db -> [ops : 0 .. MaxOps, synced : SUBSET Nat]] /\ e \in Db
        /\ \A d \in Db : db[d].synced \subseteq 1 .. db[d].ops
    BY <1>h, <1>1 DEF Globals, LogOp
  <1>3. PICK row : row = [ops |-> db[e].ops + 1, synced |-> db[e].synced]
    OBVIOUS
  <1>4. db' = [db EXCEPT ![e] = row] /\ db[e].ops < MaxOps
    <2>1. row = [db[e] EXCEPT !.ops = db[e].ops + 1]
      BY <1>2, <1>3
    <2> QED
      BY <1>1, <1>2, <2>1 DEF LogOp
  <1>5. /\ db' \in [Db -> [ops : 0 .. MaxOps, synced : SUBSET Nat]]
        /\ \A d \in Db : db'[d].synced \subseteq 1 .. db'[d].ops /\ db'[d].synced = db[d].synced
    BY <1>2, <1>3, <1>4, EngineHandleAssumption
  <1>6. Globals' /\ Threads'
    BY <1>h, <1>5 DEF Globals, Threads, LogOp
  <1>7. SyncInv'
    BY <1>h, <1>5 DEF SyncInv, SyncedWasSent, Sync, LogOp
  <1>8. EngineInv'
    BY <1>h, EngineKept DEF LogOp
  <1>9. ToldInv'
    BY <1>h, ToldKept DEF LogOp
  <1>10. LockInv'
    BY <1>h DEF LogOp, LockInv
  <1> QED
    BY <1>6, <1>7, <1>8, <1>9, <1>10 DEF HInv, Typed

-----------------------------------------------------------------------------
(* The theorems.                                                           *)

LEMMA HandleInit == Init => HInv
  <1> SUFFICES ASSUME Init PROVE HInv
    OBVIOUS
  <1> USE EngineHandleAssumption
  <1>1. Globals
    BY DEF Init, Globals, Scheduler, AuthState
  <1>2. Threads
    BY IdleProper DEF Init, Threads
  <1>3. SyncInv
    BY DEF Init, SyncInv, SyncedWasSent, Sync, Idle
  <1>4. EngineInv
    BY Constants DEF Init, EngineInv, Undisturbed, Stage, Whole, Idle, Lifecycle
  <1>5. ToldInv
    BY DEF Init, ToldInv
  <1>6. LockInv
    BY DEF Init, LockInv
  <1> QED
    BY <1>1, <1>2, <1>3, <1>4, <1>5, <1>6 DEF HInv, Typed

LEMMA HandleNext == ASSUME HInv, [Next]_vars PROVE HInv'
  <1>1. CASE LogOp
    BY <1>1, LogOpStep
  <1>2. ASSUME NEW t \in Thread, Enter(t) PROVE HInv'
    BY <1>2, InitEnterStep, DestroyEnterStep, StartEnterStep, SyncEnterStep, AuthEnterStep DEF Enter
  <1>3. ASSUME NEW t \in Thread, Step(t) PROVE HInv'
    BY <1>3, InitSchedStep, InitAuthStep, InitUrlStep, InitSetUrlStep, InitSetAuthStep,
       DestroyStopStep, DestroyAuthStep, DestroyUrlStep, DestroyEngineStep,
       EnsureSchedulerStep, StartPanicsStep, ManageStep, ReadStateStep, TellStep,
       ReturnAnswerStep, SyncBuildStep, SyncReadStep, SyncPushStep, SyncMarkStep DEF Step
  <1>4. CASE UNCHANGED vars
    <2>1. Globals' /\ Threads'
      BY <1>4 DEF vars, HInv, Typed, Globals, Threads
    <2>2. SyncInv'
      BY <1>4 DEF vars, HInv, SyncInv, SyncedWasSent, Sync
    <2>3. EngineInv'
      BY <1>4 DEF vars, HInv, EngineInv, Undisturbed, Stage, Whole
    <2>4. ToldInv' /\ LockInv'
      BY <1>4 DEF vars, HInv, ToldInv, LockInv
    <2> QED
      BY <2>1, <2>2, <2>3, <2>4 DEF HInv, Typed
  <1> QED
    BY <1>1, <1>2, <1>3, <1>4 DEF Next

\* What a call that is half way still stands for, in every behaviour.
THEOREM HandleInvariance == Spec => []HInv
  BY HandleInit, HandleNext, PTL DEF Spec

\* Globals, managers, databases and histories keep their types.
THEOREM HandleTyped == Spec => []TypeOK
  <1>1. HInv => TypeOK
    BY EngineHandleAssumption DEF HInv, Typed, Globals, TypeOK
  <1> QED
    BY <1>1, HandleInvariance, PTL

\* An operation is marked synced only when the server has it, for any syncs that
\* overlap with any destroys and inits, in every database that no sync crossed into.
THEOREM MarkedWasSent == Spec => []SyncedWasSent
  <1>1. HInv => SyncedWasSent
    BY DEF HInv, SyncInv
  <1> QED
    BY <1>1, HandleInvariance, PTL

\* Engine, manager and URL come and go together when no init or destroy overlapped.
THEOREM EngineIsWhole == Spec => []OneEngine
  <1>1. HInv => OneEngine
    <2> SUFFICES ASSUME HInv, Quiet, ~history.overlap PROVE Whole(glob)
      BY DEF OneEngine, Whole
    <2>1. \A t \in Caller : thread[t].call = "none"
      BY Constants DEF HInv, Typed, Threads, Proper, InPlace, Fits, Quiet, At
    <2> QED
      BY <2>1 DEF HInv, EngineInv, Undisturbed, Lifecycle
  <1> QED
    BY <1>1, HandleInvariance, PTL

\* When nothing is under way the application was told the manager's state, or the
\* history has a reason why it was not.
THEOREM CallbackKnows == Spec => []ToldIsState
  <1>1. HInv => ToldIsState
    BY DEF HInv, ToldInv, ToldIsState, Quiet, At
  <1> QED
    BY <1>1, HandleInvariance, PTL

\* Nobody waits for a lock forever: as long as a call is under way, one of them is
\* not waiting for a lock.  Who holds SYNC_SCHEDULER waits for nothing, and who holds
\* ENGINE at most for SYNC_SCHEDULER.
THEOREM NoDeadlock == Spec => [](~Quiet => \E t \in Thread : ~At(t, "idle") /\ ~Blocked(t))
  <1>1. ASSUME HInv, NEW t \in Thread, ~At(t, "idle")
        PROVE  \E s \in Thread : ~At(s, "idle") /\ ~Blocked(s)
    <2>0. \A l \in {"engine", "sched"} : lock[l] # None => lock[l] \in Thread
      BY <1>1, Constants DEF HInv, Typed, Globals
    <2>1. CASE lock["sched"] # None
      BY <1>1, <2>0, <2>1 DEF HInv, LockInv, At, Blocked
    <2>2. CASE lock["sched"] = None /\ lock["engine"] # None
      <3>1. PICK s \in Thread : s = lock["engine"] /\ thread[s].call = "init"
        BY <1>1, <2>0, <2>2 DEF HInv, LockInv
      <3>2. InPlace(thread[s])
        BY <1>1 DEF HInv, Typed, Threads, Proper
      <3> QED
        BY <2>2, <3>1, <3>2 DEF InPlace, Fits, At, Blocked, Free
    <2>3. CASE lock["sched"] = None /\ lock["engine"] = None
      BY <1>1, <2>3 DEF Blocked, Free
    <2> QED
      BY <2>1, <2>2, <2>3
  <1>2. HInv => (~Quiet => \E t \in Thread : ~At(t, "idle") /\ ~Blocked(t))
    BY <1>1 DEF Quiet
  <1> QED
    BY <1>2, HandleInvariance, PTL
=============================================================================
