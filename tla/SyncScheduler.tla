--------------------------- MODULE SyncScheduler ---------------------------
(***************************************************************************)
(* The background scheduler of a device                                    *)
(* (crates/core_sync/src/scheduler.rs): one task that syncs at once, then  *)
(* every 30 seconds and on command, pushes two seconds after the last push *)
(* request, and pushes a last time when it is told to stop.                *)
(*                                                                         *)
(* What the engine's calls do is SyncEngine's business; here they move the *)
(* count of synced operations to the count that was logged when they read  *)
(* it.  The caller side takes &self for triggers and &mut self for start   *)
(* and stop, so that nothing else is called while a stop is waiting.       *)
(***************************************************************************)
EXTENDS Integers, Sequences

CONSTANTS
    QueueSize,   \* capacity of the command channel (32 in the code)
    MaxOps,      \* bound: operations logged
    Troubles,    \* what may go wrong, out of TroubleKind
    MaxTrouble   \* bound: how often

TroubleKind == {"logout", "network", "auth", "storage", "panic"}

ASSUME SchedulerAssumption ==
    /\ QueueSize \in Nat \ {0} /\ MaxOps \in Nat /\ MaxTrouble \in Nat
    /\ Troubles \subseteq TroubleKind

VARIABLES
    open,      \* command_tx is Some
    queue,     \* the commands in the channel
    task,      \* where the background task is; "done" or "dead" once it ended
    state,     \* the SyncState shown to the application
    debounce,  \* push_debounce: none, armed, or due once its deadline passed
    caller,    \* where a call of stop is
    token,     \* whether the token provider has a token
    logged,    \* operations logged so far
    read,      \* how many of them the running push has read
    synced,    \* how many of them are marked synced
    owed,      \* history: logged when stop was called
    trouble,   \* how often something went wrong
    smooth     \* history: there was a token when stop was called, and nothing
               \* went wrong since

vars == <<open, queue, task, state, debounce, caller, token, logged, read, synced,
          owed, trouble, smooth>>

env == <<token, logged, owed, trouble, smooth>>

Init ==
    /\ open = FALSE /\ queue = << >> /\ task = "none" /\ state = "Dormant"
    /\ debounce = "none" /\ caller = "free"
    /\ token \in BOOLEAN
    /\ logged = 0 /\ read = 0 /\ synced = 0
    /\ owed = 0 /\ trouble = 0 /\ smooth = TRUE

-----------------------------------------------------------------------------
(* The application.                                                        *)

\* start: a second start is ignored while command_tx is there.
Start ==
    /\ caller = "free"
    /\ ~open
    /\ open' = TRUE
    /\ queue' = << >>
    /\ task' = "spawned"
    /\ debounce' = "none"
    /\ UNCHANGED <<state, caller, read, synced, env>>

\* Mutant of Trigger: does not wait for room in the channel.
TriggerUnbounded(cmd) ==
    /\ caller = "free"
    /\ open /\ task # "dead"
    /\ queue' = Append(queue, cmd)
    /\ UNCHANGED <<open, task, state, debounce, caller, read, synced, env>>

\* trigger_now, trigger_push: wait for room in the channel; an error when the
\* task is gone, nothing at all when the scheduler was not started.
Trigger(cmd) ==
    /\ caller = "free"
    /\ open /\ task # "dead"
    /\ Len(queue) < QueueSize
    /\ queue' = Append(queue, cmd)
    /\ UNCHANGED <<open, task, state, debounce, caller, read, synced, env>>

\* stop, first part: take command_tx and send Stop, or show Dormant when there
\* is no task to wait for.
StopCall ==
    /\ caller = "free"
    /\ open' = FALSE
    /\ IF open
       THEN /\ caller' = "sending"
            /\ owed' = logged
            /\ smooth' = token
            /\ UNCHANGED state
       ELSE /\ state' = "Dormant"
            /\ UNCHANGED <<caller, owed, smooth>>
    /\ UNCHANGED <<queue, task, debounce, token, logged, read, synced, trouble>>

\* Mutant of StopSend: does not wait for room, and the command is gone.
StopTrySend ==
    /\ caller = "sending"
    /\ queue' = IF task # "dead" /\ Len(queue) < QueueSize THEN Append(queue, "Stop")
                ELSE queue
    /\ caller' = "joining"
    /\ UNCHANGED <<open, task, state, debounce, read, synced, env>>

\* stop, second part: the command is in the channel, or nobody receives it.
StopSend ==
    /\ caller = "sending"
    /\ IF task = "dead" THEN UNCHANGED queue
       ELSE Len(queue) < QueueSize /\ queue' = Append(queue, "Stop")
    /\ caller' = "joining"
    /\ UNCHANGED <<open, task, state, debounce, read, synced, env>>

\* stop, third part: the task has ended, one way or the other.
StopJoin ==
    /\ caller = "joining"
    /\ task \in {"done", "dead"}
    /\ caller' = "free"
    /\ UNCHANGED <<open, queue, task, state, debounce, read, synced, env>>

\* An operation is logged, whatever the scheduler is doing.
Write ==
    /\ logged < MaxOps
    /\ logged' = logged + 1
    /\ UNCHANGED <<open, queue, task, state, debounce, caller, token, read, synced,
                   owed, trouble, smooth>>

-----------------------------------------------------------------------------
(* The task.  Its handlers run to their end before select! is entered      *)
(* again, so that two of them never contend for sync_mutex.                *)

\* get_token, then do_sync or do_push up to the read of the unsynced
\* operations (busy names what the task then does); Dormant without a token.
Begin(busy, otherwise) ==
    IF token
    THEN task' = busy /\ state' = "Syncing" /\ read' = logged
    ELSE task' = otherwise /\ state' = "Dormant" /\ UNCHANGED read

\* The task starts to run.
Enter ==
    /\ task = "spawned"
    /\ task' = "init"
    /\ state' = "Idle"
    /\ UNCHANGED <<open, queue, debounce, caller, read, synced, env>>

\* The first sync, before the loop.
FirstSync ==
    /\ task = "init"
    /\ Begin("sync", "loop")
    /\ UNCHANGED <<open, queue, debounce, caller, synced, env>>

\* Mutant of Poll: the tick is skipped while a push is waiting.
PollUnlessArmed ==
    /\ task = "loop"
    /\ debounce = "none"
    /\ Begin("sync", "loop")
    /\ UNCHANGED <<open, queue, debounce, caller, synced, env>>

\* The 30 second tick.
Poll ==
    /\ task = "loop"
    /\ Begin("sync", "loop")
    /\ UNCHANGED <<open, queue, debounce, caller, synced, env>>

\* Mutant of Stop: the task ends without a last push.
StopAtOnce == task' = "done" /\ state' = "Dormant" /\ UNCHANGED read

\* The last push before the task ends.
Stop == Begin("lastPush", "done")

\* rx.recv(): every push request sets the two seconds again.
Receive ==
    /\ task = "loop"
    /\ queue # << >>
    /\ queue' = Tail(queue)
    /\ \/ /\ Head(queue) = "SyncNow"
          /\ Begin("sync", "loop")
          /\ UNCHANGED debounce
       \/ /\ Head(queue) = "TriggerPush"
          /\ debounce' = "armed"
          /\ UNCHANGED <<task, state, read>>
       \/ /\ Head(queue) = "Stop"
          /\ Stop
          /\ UNCHANGED debounce
    /\ UNCHANGED <<open, caller, synced, env>>

\* The two seconds pass.
Elapse ==
    /\ debounce = "armed"
    /\ debounce' = "due"
    /\ UNCHANGED <<open, queue, task, state, caller, read, synced, env>>

DebouncedPush ==
    /\ task = "loop"
    /\ debounce = "due"
    /\ debounce' = "none"
    /\ Begin("push", "loop")
    /\ UNCHANGED <<open, queue, caller, synced, env>>

\* Mutant of Pushed: the last push leaves Idle on display.
PushedShowsIdle ==
    /\ \/ task = "sync" /\ task' = "pull" /\ UNCHANGED state
       \/ task = "push" /\ task' = "loop" /\ state' = "Idle"
       \/ task = "lastPush" /\ task' = "done" /\ state' = "Idle"
    /\ synced' = read
    /\ UNCHANGED <<open, queue, debounce, caller, read, env>>

\* push_pending returns: a sync goes on with the pull.
Pushed ==
    /\ \/ task = "sync" /\ task' = "pull" /\ UNCHANGED state
       \/ task = "push" /\ task' = "loop" /\ state' = "Idle"
       \/ task = "lastPush" /\ task' = "done" /\ state' = "Dormant"
    /\ synced' = read
    /\ UNCHANGED <<open, queue, debounce, caller, read, env>>

Pulled ==
    /\ task = "pull"
    /\ task' = "loop" /\ state' = "Idle"
    /\ UNCHANGED <<open, queue, debounce, caller, read, synced, env>>

-----------------------------------------------------------------------------
(* What goes wrong.                                                        *)

Trouble(kind) ==
    /\ kind \in Troubles
    /\ trouble < MaxTrouble
    /\ trouble' = trouble + 1
    /\ smooth' = FALSE
    /\ UNCHANGED <<open, queue, debounce, caller, logged, synced, owed>>

\* do_sync tells the errors apart, do_push does not.
ErrorState(kind) ==
    CASE kind = "auth" -> "Dormant" [] kind = "network" -> "Offline" [] OTHER -> "Error"

Fail(kind) ==
    /\ kind \in {"network", "auth", "storage"}
    /\ Trouble(kind)
    /\ \/ task \in {"sync", "pull"} /\ task' = "loop" /\ state' = ErrorState(kind)
       \/ task = "push" /\ task' = "loop" /\ state' = "Error"
       \/ task = "lastPush" /\ task' = "done" /\ state' = "Dormant"
    /\ UNCHANGED <<token, read>>

\* The task panics in an engine call (HlcTimestamp::merge) or in get_token
\* (block_on inside a runtime); the state it showed last stays.
Panic ==
    /\ Trouble("panic")
    /\ task \notin {"none", "done", "dead"}
    /\ task' = "dead"
    /\ UNCHANGED <<token, read, state>>

Logout ==
    /\ Trouble("logout")
    /\ token /\ token' = FALSE
    /\ UNCHANGED <<task, state, read>>

Login ==
    /\ ~token /\ token' = TRUE
    /\ UNCHANGED <<open, queue, task, state, debounce, caller, logged, read, synced,
                   owed, trouble, smooth>>

-----------------------------------------------------------------------------

Task == Enter \/ FirstSync \/ Pushed \/ Pulled

Next ==
    \/ Start \/ StopCall \/ StopSend \/ StopJoin \/ Write
    \/ \E cmd \in {"SyncNow", "TriggerPush"} : Trigger(cmd)
    \/ Task \/ Poll \/ Receive \/ Elapse \/ DebouncedPush
    \/ \E kind \in TroubleKind : Fail(kind)
    \/ Panic \/ Logout \/ Login

Spec == Init /\ [][Next]_vars

\* tokio polls a task that can run, and select! picks among the branches that
\* are ready at random, so that one that is ready again and again is taken.
Fairness ==
    /\ WF_vars(Task) /\ SF_vars(Poll) /\ SF_vars(Receive)
    /\ SF_vars(StopSend) /\ WF_vars(StopJoin) /\ WF_vars(Login)

FairSpec == Spec /\ Fairness

-----------------------------------------------------------------------------
(* Properties.                                                             *)

\* The types of the variables; a push never has more than was logged.
TypeOK ==
    /\ open \in BOOLEAN /\ token \in BOOLEAN
    /\ queue \in Seq({"SyncNow", "TriggerPush", "Stop"}) /\ Len(queue) <= QueueSize
    /\ task \in {"none", "spawned", "init", "loop", "sync", "pull", "push", "lastPush", "done", "dead"}
    /\ state \in {"Idle", "Syncing", "Error", "Offline", "Dormant"}
    /\ debounce \in {"none", "armed", "due"}
    /\ caller \in {"free", "sending", "joining"}
    /\ logged \in 0 .. MaxOps /\ read \in 0 .. logged /\ synced \in 0 .. read
    /\ owed \in 0 .. logged
    /\ trouble \in 0 .. MaxTrouble /\ smooth \in BOOLEAN

\* "Final push before stopping": all that was logged when stop was called is
\* pushed when the task has ended, whatever was queued or debounced, if there
\* was a token then and nothing has gone wrong since.
StopFlushes ==
    task = "done" /\ smooth => synced >= owed

\* A scheduler that was stopped shows Dormant (test_scheduler_stop), unless its
\* task died of a panic: no error, logout or command on the way to the end leaves
\* anything else on display.
EndedIsDormant ==
    ~open /\ caller = "free" /\ task # "dead" => state = "Dormant"

\* However push requests keep resetting the two seconds, what is logged is
\* pushed before long, unless the scheduler is stopped or its task has died.
EventuallyPushed ==
    \A n \in 1 .. MaxOps : logged >= n ~> (synced >= n \/ ~open \/ task = "dead")

\* A call of stop returns, however full the channel is.
StopReturns == (caller # "free") ~> (caller = "free")
=============================================================================
