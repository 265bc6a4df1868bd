-------------------------- MODULE SchedulerProofs --------------------------
(***************************************************************************)
(* Theorems about the scheduler, for any channel, any number of operations *)
(* and any troubles: a stop that nothing disturbs leaves nothing behind,   *)
(* and a scheduler that was stopped shows it.                              *)
(***************************************************************************)
EXTENDS SyncScheduler, TLAPS

Triggers == {"SyncNow", "TriggerPush"}

\* The task has ended, or was never there.
Ended == task \in {"none", "done", "dead"}

\* A command to stop is in the channel of a task that a stop waits for, or that
\* has ended, and nowhere else.
OneStop ==
    /\ queue \in Seq(Triggers) \/ (~open /\ (caller = "joining" \/ task \in {"done", "dead"}))
    /\ caller = "sending" => queue \in Seq(Triggers) /\ task \notin {"lastPush", "done", "none"}
    /\ open => caller = "free" /\ queue \in Seq(Triggers) /\ task \notin {"lastPush", "done", "none"}
    /\ task = "lastPush" => caller = "joining"

\* Who takes the sender away ends the task, and the task shows it.
Orderly ==
    /\ ~open /\ caller = "free" => Ended
    /\ task \in {"none", "done"} => state = "Dormant"

\* What a stop owes is read by the last push: a stop that nothing disturbs has a
\* token from its call to its return.
Owing ==
    /\ caller # "free" /\ smooth => token
    /\ task = "lastPush" /\ smooth => read >= owed
    /\ StopFlushes

IInv == TypeOK /\ OneStop /\ Orderly /\ Owing

-----------------------------------------------------------------------------
(* The channel.                                                            *)

Commands == {"SyncNow", "TriggerPush", "Stop"}

LEMMA TriggersAreCommands ==
    ASSUME NEW q \in Seq(Triggers)
    PROVE  q \in Seq(Commands)
<1>1. Triggers \subseteq Commands
  BY DEF Triggers, Commands
<1>2. QED
  BY <1>1

LEMMA Appended ==
    ASSUME NEW S, NEW q \in Seq(S), NEW cmd \in S
    PROVE  Append(q, cmd) \in Seq(S) /\ Len(Append(q, cmd)) = Len(q) + 1
  OBVIOUS

LEMMA Received ==
    ASSUME NEW S, NEW q \in Seq(S), q # << >>
    PROVE  Head(q) \in S /\ Tail(q) \in Seq(S) /\ Len(Tail(q)) = Len(q) - 1 /\ Len(q) \in Nat
  OBVIOUS

-----------------------------------------------------------------------------
(* The steps.  Most of them leave the channel alone.                       *)

LEMMA SchedulerInit == Init => IInv
<1> SUFFICES ASSUME Init PROVE IInv
  OBVIOUS
<1>1. queue \in Seq(Triggers) /\ queue \in Seq(Commands) /\ Len(queue) = 0
  BY DEF Init
<1>2. open \in BOOLEAN /\ token \in BOOLEAN /\ smooth \in BOOLEAN
  BY DEF Init
<1>3. TypeOK
  BY <1>2, SchedulerAssumption DEF Init, TypeOK
<1>4. QED
  BY <1>3 DEF Init, IInv, OneStop, Orderly, Owing, StopFlushes, Ended


\* A start empties the channel and spawns the task.
LEMMA StartStep ==
    ASSUME IInv, Start
    PROVE  IInv'
<1>1. << >> \in Seq(Triggers) /\ << >> \in Seq(Commands) /\ Len(<< >>) = 0
  OBVIOUS
<1>11. TypeOK'
  BY SchedulerAssumption DEF IInv, TypeOK, Start, env
<1>12. OneStop'
  BY DEF OneStop, Start
<1>13. Orderly'
  BY DEF Orderly, Start
<1>14. Owing'
  BY DEF Owing, StopFlushes, Start
<1> QED
  BY <1>11, <1>12, <1>13, <1>14 DEF IInv

\* A trigger goes into the channel while nobody is stopping.
LEMMA TriggerStep ==
    ASSUME IInv, NEW cmd \in Triggers, Trigger(cmd)
    PROVE  IInv'
<1>1. queue \in Seq(Triggers) /\ open
  BY DEF IInv, OneStop, Trigger
<1>2. queue' \in Seq(Triggers) /\ Len(queue') = Len(queue) + 1
  BY <1>1 DEF Trigger
<1>3. queue' \in Seq({"SyncNow", "TriggerPush", "Stop"})
  BY <1>2, TriggersAreCommands DEF Commands
<1>4. Len(queue) \in Nat /\ Len(queue) < QueueSize
  BY DEF Trigger
<1>11. TypeOK'
  BY <1>3, SchedulerAssumption DEF IInv, TypeOK, Trigger, env
<1>12. OneStop'
  BY DEF IInv, OneStop, Trigger
<1>13. Orderly'
  BY DEF IInv, Orderly, Trigger
<1>14. Owing'
  BY DEF IInv, Owing, StopFlushes, Trigger, env
<1> QED
  BY <1>11, <1>12, <1>13, <1>14 DEF IInv

\* The command to stop is the last one in the channel.
LEMMA StopSendStep ==
    ASSUME IInv, StopSend
    PROVE  IInv'
<1>1. queue \in Seq(Triggers) /\ caller = "sending"
  BY DEF IInv, OneStop, StopSend
<1>2. queue \in Seq(Commands) /\ Len(queue) \in Nat
  BY <1>1, TriggersAreCommands
<1>3. "Stop" \in Commands
  BY DEF Commands
<1>4. queue' \in Seq({"SyncNow", "TriggerPush", "Stop"}) /\ Len(queue') <= QueueSize
  <2>1. CASE task = "dead"
    BY <2>1 DEF IInv, TypeOK, StopSend
  <2>2. CASE task # "dead"
    <3>1. queue' = Append(queue, "Stop") /\ Len(queue) < QueueSize
      BY <2>2 DEF StopSend
    <3>2. queue' \in Seq(Commands) /\ Len(queue') = Len(queue) + 1
      BY <3>1, <1>2, <1>3
    <3>3. QED
      BY <3>1, <3>2, SchedulerAssumption DEF Commands
  <2>3. QED
    BY <2>1, <2>2
<1>11. TypeOK'
  BY SchedulerAssumption DEF IInv, TypeOK, StopSend, env
<1>12. OneStop'
  BY DEF IInv, OneStop, StopSend
<1>13. Orderly'
  BY DEF IInv, Orderly, StopSend
<1>14. Owing'
  BY DEF IInv, Owing, StopFlushes, StopSend, env
<1> QED
  BY <1>11, <1>12, <1>13, <1>14 DEF IInv

\* The task that takes the command to stop reads all that is owed, or has no token.
LEMMA ReceiveStep ==
    ASSUME IInv, Receive
    PROVE  IInv'
<1>1. queue \in Seq(Commands) /\ queue # << >> /\ task = "loop"
  BY DEF IInv, TypeOK, Receive, Commands
<1>2. /\ Tail(queue) \in Seq(Commands) /\ Len(Tail(queue)) = Len(queue) - 1
      /\ Len(queue) \in Nat
  BY <1>1
<1>3. queue' = Tail(queue) /\ queue' \in Seq({"SyncNow", "TriggerPush", "Stop"})
  BY <1>2 DEF Receive, Commands
<1>4. Len(queue') <= QueueSize
  BY <1>3, SchedulerAssumption DEF IInv, TypeOK
<1>5. queue \in Seq(Triggers) => queue' \in Seq(Triggers) /\ Head(queue) \in Triggers
  BY <1>3
<1>6. Head(queue) = "Stop" => caller = "joining" /\ ~open
  BY <1>1 DEF IInv, OneStop, Triggers
<1>11. TypeOK'
  BY SchedulerAssumption DEF IInv, TypeOK, Receive, Begin, Stop, env
<1>12. OneStop'
  BY <1>6 DEF IInv, OneStop, Receive, Begin
<1>13. Orderly'
  BY DEF IInv, Orderly, Ended, Receive, Begin, Stop
<1>14. Owing'
  BY <1>6 DEF IInv, TypeOK, Owing, StopFlushes, Receive, Begin, Stop, env
<1> QED
  BY <1>11, <1>12, <1>13, <1>14 DEF IInv

\* A stop takes the sender away and owes what is logged by now.
LEMMA StopCallStep ==
    ASSUME IInv, StopCall
    PROVE  IInv'
<1>1. open' \in BOOLEAN /\ token' \in BOOLEAN /\ smooth' \in BOOLEAN
  BY DEF IInv, TypeOK, StopCall
<1>2. owed' \in 0 .. logged'
  BY DEF IInv, TypeOK, StopCall
<1>11. TypeOK'
  BY <1>2 DEF IInv, TypeOK, StopCall
<1>12. OneStop'
  BY DEF IInv, OneStop, StopCall
<1>13. Orderly'
  BY DEF IInv, Orderly, Ended, StopCall
<1>14. Owing'
  BY DEF IInv, OneStop, Owing, StopFlushes, StopCall
<1> QED
  BY <1>11, <1>12, <1>13, <1>14 DEF IInv

\* A stop returns when the task has ended.
LEMMA StopJoinStep ==
    ASSUME IInv, StopJoin
    PROVE  IInv'
<1>11. TypeOK'
  BY DEF IInv, TypeOK, StopJoin, env
<1>12. OneStop'
  BY DEF IInv, OneStop, StopJoin
<1>13. Orderly'
  BY DEF IInv, Orderly, Ended, StopJoin
<1>14. Owing'
  BY DEF IInv, Owing, StopFlushes, StopJoin, env
<1> QED
  BY <1>11, <1>12, <1>13, <1>14 DEF IInv

\* An operation is logged.
LEMMA WriteStep ==
    ASSUME IInv, Write
    PROVE  IInv'
<1>11. TypeOK'
  BY SchedulerAssumption DEF IInv, TypeOK, Write
<1>12. OneStop'
  BY DEF IInv, OneStop, Write
<1>13. Orderly'
  BY DEF IInv, Orderly, Ended, Write
<1>14. Owing'
  BY DEF IInv, Owing, StopFlushes, Write
<1> QED
  BY <1>11, <1>12, <1>13, <1>14 DEF IInv

\* The task starts.
LEMMA EnterStep ==
    ASSUME IInv, Enter
    PROVE  IInv'
<1>11. TypeOK'
  BY DEF IInv, TypeOK, Enter, env
<1>12. OneStop'
  BY DEF IInv, OneStop, Enter
<1>13. Orderly'
  BY DEF IInv, Orderly, Ended, Enter
<1>14. Owing'
  BY DEF IInv, Owing, StopFlushes, Enter, env
<1> QED
  BY <1>11, <1>12, <1>13, <1>14 DEF IInv

\* The task syncs at once.
LEMMA FirstSyncStep ==
    ASSUME IInv, FirstSync
    PROVE  IInv'
<1>11. TypeOK'
  BY DEF IInv, TypeOK, FirstSync, Begin, env
<1>12. OneStop'
  BY DEF IInv, OneStop, FirstSync, Begin
<1>13. Orderly'
  BY DEF IInv, Orderly, Ended, FirstSync, Begin
<1>14. Owing'
  BY DEF IInv, Owing, StopFlushes, FirstSync, Begin, env
<1> QED
  BY <1>11, <1>12, <1>13, <1>14 DEF IInv

\* A tick.
LEMMA PollStep ==
    ASSUME IInv, Poll
    PROVE  IInv'
<1>11. TypeOK'
  BY DEF IInv, TypeOK, Poll, Begin, env
<1>12. OneStop'
  BY DEF IInv, OneStop, Poll, Begin
<1>13. Orderly'
  BY DEF IInv, Orderly, Ended, Poll, Begin
<1>14. Owing'
  BY DEF IInv, Owing, StopFlushes, Poll, Begin, env
<1> QED
  BY <1>11, <1>12, <1>13, <1>14 DEF IInv

\* Two seconds pass.
LEMMA ElapseStep ==
    ASSUME IInv, Elapse
    PROVE  IInv'
<1>11. TypeOK'
  BY DEF IInv, TypeOK, Elapse, env
<1>12. OneStop'
  BY DEF IInv, OneStop, Elapse
<1>13. Orderly'
  BY DEF IInv, Orderly, Ended, Elapse
<1>14. Owing'
  BY DEF IInv, Owing, StopFlushes, Elapse, env
<1> QED
  BY <1>11, <1>12, <1>13, <1>14 DEF IInv

\* The push that was put off.
LEMMA DebouncedPushStep ==
    ASSUME IInv, DebouncedPush
    PROVE  IInv'
<1>11. TypeOK'
  BY DEF IInv, TypeOK, DebouncedPush, Begin, env
<1>12. OneStop'
  BY DEF IInv, OneStop, DebouncedPush, Begin
<1>13. Orderly'
  BY DEF IInv, Orderly, Ended, DebouncedPush, Begin
<1>14. Owing'
  BY DEF IInv, Owing, StopFlushes, DebouncedPush, Begin, env
<1> QED
  BY <1>11, <1>12, <1>13, <1>14 DEF IInv

\* A push returns; the last one has pushed all that is owed.
LEMMA PushedStep ==
    ASSUME IInv, Pushed
    PROVE  IInv'
<1>11. TypeOK'
  BY DEF IInv, TypeOK, Pushed, env
<1>12. OneStop'
  BY DEF IInv, OneStop, Pushed
<1>13. Orderly'
  BY DEF IInv, Orderly, Ended, Pushed
<1>14. Owing'
  BY DEF IInv, Owing, StopFlushes, Pushed, env
<1> QED
  BY <1>11, <1>12, <1>13, <1>14 DEF IInv

\* A pull returns.
LEMMA PulledStep ==
    ASSUME IInv, Pulled
    PROVE  IInv'
<1>11. TypeOK'
  BY DEF IInv, TypeOK, Pulled, env
<1>12. OneStop'
  BY DEF IInv, OneStop, Pulled
<1>13. Orderly'
  BY DEF IInv, Orderly, Ended, Pulled
<1>14. Owing'
  BY DEF IInv, Owing, StopFlushes, Pulled, env
<1> QED
  BY <1>11, <1>12, <1>13, <1>14 DEF IInv

\* The task dies.
LEMMA PanicStep ==
    ASSUME IInv, Panic
    PROVE  IInv'
<1>1. open' \in BOOLEAN /\ token' \in BOOLEAN /\ smooth' \in BOOLEAN
  BY DEF IInv, TypeOK, Panic, Trouble
<1>2. trouble' \in 0 .. MaxTrouble
  BY SchedulerAssumption DEF IInv, TypeOK, Panic, Trouble
<1>11. TypeOK'
  BY <1>2 DEF IInv, TypeOK, Panic, Trouble
<1>12. OneStop'
  BY DEF IInv, OneStop, Panic, Trouble
<1>13. Orderly'
  BY DEF Orderly, Ended, Panic
<1>14. Owing'
  BY DEF Owing, StopFlushes, Panic, Trouble
<1> QED
  BY <1>11, <1>12, <1>13, <1>14 DEF IInv

\* The token goes, and a stop under way is no longer smooth.
LEMMA LogoutStep ==
    ASSUME IInv, Logout
    PROVE  IInv'
<1>1. open' \in BOOLEAN /\ token' \in BOOLEAN /\ smooth' \in BOOLEAN
  BY DEF IInv, TypeOK, Logout, Trouble
<1>2. trouble' \in 0 .. MaxTrouble
  BY SchedulerAssumption DEF IInv, TypeOK, Logout, Trouble
<1>11. TypeOK'
  BY <1>2 DEF IInv, TypeOK, Logout, Trouble
<1>12. OneStop'
  BY DEF IInv, OneStop, Logout, Trouble
<1>13. Orderly'
  BY DEF IInv, Orderly, Ended, Logout, Trouble
<1>14. Owing'
  BY DEF Owing, StopFlushes, Logout, Trouble
<1> QED
  BY <1>11, <1>12, <1>13, <1>14 DEF IInv

\* A token comes.
LEMMA LoginStep ==
    ASSUME IInv, Login
    PROVE  IInv'
<1>11. TypeOK'
  BY DEF IInv, TypeOK, Login
<1>12. OneStop'
  BY DEF IInv, OneStop, Login
<1>13. Orderly'
  BY DEF IInv, Orderly, Ended, Login
<1>14. Owing'
  BY DEF IInv, Owing, StopFlushes, Login
<1> QED
  BY <1>11, <1>12, <1>13, <1>14 DEF IInv

\* An engine call fails; the task goes on, or ends if it was told to.
LEMMA FailStep ==
    ASSUME IInv, NEW kind \in TroubleKind, Fail(kind)
    PROVE  IInv'
<1>1. open' \in BOOLEAN /\ token' \in BOOLEAN /\ smooth' \in BOOLEAN
  BY DEF IInv, TypeOK, Fail, Trouble
<1>2. trouble' \in 0 .. MaxTrouble /\ state' \in {"Idle", "Syncing", "Error", "Offline", "Dormant"}
  BY SchedulerAssumption DEF IInv, TypeOK, Fail, Trouble, ErrorState
<1>11. TypeOK'
  BY <1>2 DEF IInv, TypeOK, Fail, Trouble
<1>12. OneStop'
  BY DEF IInv, OneStop, Fail, Trouble
<1>13. Orderly'
  BY DEF IInv, Orderly, Ended, Fail, Trouble
<1>14. Owing'
  BY DEF Owing, StopFlushes, Fail, Trouble
<1> QED
  BY <1>11, <1>12, <1>13, <1>14 DEF IInv

LEMMA SchedulerNext ==
    ASSUME IInv, [Next]_vars
    PROVE  IInv'
<1>1. CASE UNCHANGED vars
  BY <1>1 DEF vars, IInv, TypeOK, OneStop, Orderly, Owing, StopFlushes, Ended
<1>2. CASE Next
  <2>1. {"SyncNow", "TriggerPush"} = Triggers
    BY DEF Triggers
  <2>2. QED
    BY <1>2, <2>1, StartStep, TriggerStep, StopCallStep, StopSendStep, StopJoinStep,
       WriteStep, EnterStep, FirstSyncStep, PushedStep, PulledStep, PollStep,
       ReceiveStep, ElapseStep, DebouncedPushStep, FailStep, PanicStep, LogoutStep,
       LoginStep
       DEF Next, Task
<1>3. QED
  BY <1>1, <1>2

-----------------------------------------------------------------------------
(* The theorems.                                                           *)

LEMMA SchedulerInvariance == Spec => []IInv
  BY SchedulerInit, SchedulerNext, PTL DEF Spec

\* The variables keep their types: the channel never holds more than its
\* capacity, and nothing is marked synced that was not read and logged.
THEOREM SchedulerTyped == Spec => []TypeOK
<1>1. IInv => TypeOK
  BY DEF IInv
<1>2. QED
  BY <1>1, SchedulerInvariance, PTL

\* A stop that finds a token and is not disturbed has pushed all that was logged
\* when it was called, whatever the channel held and whatever was put off.
THEOREM FinalPushFlushes == Spec => []StopFlushes
<1>1. IInv => StopFlushes
  BY DEF IInv, Owing
<1>2. QED
  BY <1>1, SchedulerInvariance, PTL

\* A scheduler that was stopped shows Dormant, unless its task died.
THEOREM StoppedIsDormant == Spec => []EndedIsDormant
<1>1. IInv => EndedIsDormant
  BY DEF IInv, Orderly, Ended, EndedIsDormant
<1>2. QED
  BY <1>1, SchedulerInvariance, PTL
=============================================================================
