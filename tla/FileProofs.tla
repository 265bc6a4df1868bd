----------------------------- MODULE FileProofs -----------------------------
(***************************************************************************)
(* Theorems about FileSync, for any number of calls, requests and chunks   *)
(* and all faults: a listed file is whole; an upload is told the truth; it *)
(* leaves nothing behind; the destination of downloads is whole.           *)
(***************************************************************************)
EXTENDS FileSync, TLAPS, SequenceTheorems, FiniteSetTheorems

-----------------------------------------------------------------------------
(* The inductive invariant.  What is in a final file while it is merged is *)
(* what the merging request has read, because no other request writes it:  *)
(* a call asks for one completion, and never again once that is answered,  *)
(* given up or dead.                                                       *)

IsRequest(r) ==
    /\ r = [at |-> r.at, call |-> r.call, ix |-> r.ix, data |-> r.data,
            got |-> r.got, live |-> r.live]
    /\ r.at # "free" /\ r.call \in Call /\ r.live \in BOOLEAN

\* A request that a client waits for, and one that has yet to record its file.
Live(r) == r # Free /\ r.live
Completing(r) == r.at \in {"complete", "count", "merge"}

IsCall(r) == DOMAIN r = DOMAIN Idle

\* Calls that wait for an answer, and calls that have asked for completion.
Hearing == {"init", "chunk", "complete", "get"}
Finishing == {"complete", "ok", "failed"}

Shapes ==
    /\ DOMAIN task = Task /\ DOMAIN call = Call
    /\ DOMAIN row = FileId /\ DOMAIN blob = FileId
    /\ \A t \in Task : task[t] = Free \/ IsRequest(task[t])
    /\ \A c \in Call : IsCall(call[c])
    /\ \A f \in FileId : row[f] # Absent => row[f] \in [sha : {row[f].sha}, deleted : BOOLEAN]

\* A call waits for one request, and only while it is in a call to the server.
OneLive ==
    /\ \A t, u \in Task : Live(task[t]) /\ Live(task[u]) /\ task[t].call = task[u].call => t = u
    /\ \A t \in Task : Live(task[t]) => call[task[t].call].at \in Hearing

\* A call has one completion, which it waits for unless it has given up.
OneCompletion ==
    /\ \A t, u \in Task : Completing(task[t]) /\ Completing(task[u])
                          /\ task[t].call = task[u].call => t = u
    /\ \A t \in Task : Completing(task[t]) =>
           call[task[t].call].at = IF task[t].live THEN "complete" ELSE "failed"

\* The final file of a completion is what it has read, and has no row.
Merging ==
    \A t \in Task : Completing(task[t]) =>
        /\ row[task[t].call] = Absent
        /\ task[t].got = IF task[t].at = "merge" THEN blob[task[t].call] ELSE << >>

\* Only a call that has asked for it has a row.
Recorded == \A c \in Call : row[c] # Absent => call[c].at \in Finishing

FInv == Shapes /\ OneLive /\ OneCompletion /\ Merging /\ Recorded /\ WholeFiles

-----------------------------------------------------------------------------
(* What a step does to a request: nothing, or the task ends, or it goes on *)
(* for the same client; nothing but a new request is a new completion.     *)

Later(r, q) ==
    \/ q = r
    \/ q = Free
    \/ /\ r # Free /\ IsRequest(q)
       /\ q.call = r.call /\ q.live = r.live
       /\ Completing(q) => Completing(r)

Becomes(t, q) == task' = [task EXCEPT ![t] = q] /\ Later(task[t], q)

\* It goes on with the same data, at another place.
LEMMA Moved ==
    ASSUME NEW r, IsRequest(r), NEW pc, pc # "free"
    PROVE  LET q == [r EXCEPT !.at = pc] IN
           IsRequest(q) /\ q.at = pc /\ q.call = r.call /\ q.live = r.live /\ q.got = r.got
  BY DEF IsRequest

LEMMA FreeFacts == ~Live(Free) /\ ~Completing(Free) /\ \A r : IsRequest(r) => r # Free
  BY DEF Free, Live, Completing, IsRequest

LEMMA WorkingTask ==
    ASSUME FInv, NEW t \in Task, task[t].at # "free"
    PROVE  IsRequest(task[t])
  BY DEF FInv, Shapes, Free

LEMMA StepBecomes ==
    ASSUME FInv, NEW t \in Task, task[t].at # "free", NEW pc, pc # "free", Step(t, pc),
           pc \in {"complete", "count", "merge"} => Completing(task[t])
    PROVE  \E q : Becomes(t, q) /\ q.at = pc /\ q.got = task[t].got
<1> DEFINE q == [task[t] EXCEPT !.at = pc]
<1>1. /\ IsRequest(q) /\ q.at = pc /\ q.call = task[t].call
      /\ q.live = task[t].live /\ q.got = task[t].got
  BY WorkingTask, Moved
<1>2. task' = [task EXCEPT ![t] = q]
  BY DEF Step
<1>3. task[t] # Free
  BY DEF Free
<1> HIDE DEF q
<1>4. Becomes(t, q)
  BY <1>1, <1>2, <1>3 DEF Becomes, Later, Completing
<1>5. QED
  BY <1>1, <1>4

LEMMA AnswerBecomes ==
    ASSUME FInv, NEW t \in Task, task[t].at # "free", NEW a, Answer(t, a),
           a \notin {"free", "complete", "count", "merge"}
    PROVE  \E q : Becomes(t, q) /\ ~Completing(q)
<1>1. CASE task[t].live
  <2>1. Step(t, a)
    BY <1>1 DEF Answer, Step
  <2>2. PICK q : Becomes(t, q) /\ q.at = a
    BY <2>1, StepBecomes
  <2>3. QED
    BY <2>2 DEF Completing
<1>2. CASE ~task[t].live
  <2>1. task' = [task EXCEPT ![t] = Free]
    BY <1>2 DEF Answer
  <2>2. QED
    BY <2>1, FreeFacts DEF Becomes, Later
<1>3. QED
  BY <1>1, <1>2

LEMMA BecomesLater ==
    ASSUME FInv, NEW t \in Task, NEW q, Becomes(t, q)
    PROVE  /\ DOMAIN task' = Task
           /\ task'[t] = q
           /\ \A u \in Task : u # t => task'[u] = task[u]
           /\ \A u \in Task : Later(task[u], task'[u])
  BY DEF FInv, Shapes, Becomes, Later

\* A step of the server leaves the calls of the clients where they are.
LEMMA ServerStep ==
    ASSUME FInv, call' = call, DOMAIN task' = Task,
           \A t \in Task : Later(task[t], task'[t])
    PROVE  /\ \A t \in Task : task'[t] = Free \/ IsRequest(task'[t])
           /\ OneLive' /\ OneCompletion'
<1>1. \A t \in Task : task'[t] = Free \/ IsRequest(task'[t])
  BY DEF FInv, Shapes, Later
<1>2. ASSUME NEW t \in Task, Live(task'[t])
      PROVE  Live(task[t]) /\ task'[t].call = task[t].call
  BY <1>2, FreeFacts DEF Later, Live
<1>3. OneLive'
  BY <1>2 DEF FInv, OneLive
<1>4. ASSUME NEW t \in Task, Completing(task'[t])
      PROVE  /\ Completing(task[t])
             /\ task'[t].call = task[t].call /\ task'[t].live = task[t].live
  BY <1>4, FreeFacts DEF Later
<1>5. OneCompletion'
  BY <1>4 DEF FInv, OneCompletion
<1>6. QED
  BY <1>1, <1>3, <1>5

\* A step that leaves the files and their rows alone, too.
LEMMA QuietServer ==
    ASSUME FInv, UNCHANGED <<call, row, blob, torn>>, DOMAIN task' = Task,
           \A t \in Task : Later(task[t], task'[t]),
           \A t \in Task : Completing(task'[t]) =>
               task'[t].got = task[t].got /\ (task'[t].at = "merge" <=> task[t].at = "merge")
    PROVE  FInv'
<1>1. /\ \A t \in Task : task'[t] = Free \/ IsRequest(task'[t])
      /\ OneLive' /\ OneCompletion'
  BY ServerStep
<1>2. Shapes'
  BY <1>1 DEF FInv, Shapes, IsRequest
<1>3. \A t \in Task : Completing(task'[t]) =>
          Completing(task[t]) /\ task'[t].call = task[t].call
  BY FreeFacts DEF Later
<1>4. Merging'
  BY <1>3 DEF FInv, Merging
<1>5. Recorded' /\ WholeFiles'
  BY DEF FInv, Recorded, WholeFiles, Active
<1>6. QED
  BY <1>1, <1>2, <1>4, <1>5 DEF FInv

\* One request moves on, and that is all that matters here.
LEMMA QuietTask ==
    ASSUME FInv, UNCHANGED <<call, row, blob, torn>>, NEW t \in Task, NEW q, Becomes(t, q),
           Completing(q) => q.got = task[t].got /\ q.at # "merge" /\ task[t].at # "merge"
    PROVE  FInv'
  BY BecomesLater, QuietServer

LEMMA QuietAnswer ==
    ASSUME FInv, UNCHANGED <<call, row, blob, torn>>, NEW t \in Task, task[t].at # "free",
           NEW a, Answer(t, a), a \notin {"free", "complete", "count", "merge"}
    PROVE  FInv'
  BY AnswerBecomes, QuietTask

LEMMA QuietMove ==
    ASSUME FInv, UNCHANGED <<call, row, blob, torn>>, NEW t \in Task, task[t].at # "free",
           NEW pc, Step(t, pc), pc \notin {"free", "complete", "merge"},
           pc = "count" => task[t].at = "complete"
    PROVE  FInv'
<1>1. pc \in {"complete", "count", "merge"} => Completing(task[t])
  BY DEF Completing
<1>2. PICK q : Becomes(t, q) /\ q.at = pc /\ q.got = task[t].got
  BY <1>1, StepBecomes
<1>3. Completing(q) => q.got = task[t].got /\ q.at # "merge" /\ task[t].at # "merge"
  BY <1>2 DEF Completing
<1>4. QED
  BY <1>2, <1>3, QuietTask

-----------------------------------------------------------------------------
(* The server's steps.                                                     *)

LEMMA InitAndChunks ==
    ASSUME FInv, UNCHANGED <<call, torn>>, NEW t \in Task,
           \/ InitCheck(t) \/ InitDir(t) \/ InitSession(t)
           \/ ChunkCheck(t) \/ ChunkWrite(t) \/ ChunkRow(t)
    PROVE  FInv'
<1>1. UNCHANGED <<call, row, blob, torn>> /\ task[t].at # "free"
  BY DEF InitCheck, InitDir, InitSession, ChunkCheck, ChunkWrite, ChunkRow, At, tables, disk
<1>2. \/ \E a \in {"ok", "conflict", "not found", "error"} : Answer(t, a)
      \/ \E pc \in {"mkdir", "session", "write", "row"} : Step(t, pc)
  BY DEF InitCheck, InitDir, InitSession, ChunkCheck, ChunkWrite, ChunkRow
<1>3. ASSUME NEW a \in {"ok", "conflict", "not found", "error"}, Answer(t, a) PROVE FInv'
  BY <1>1, <1>3, QuietAnswer
<1>4. ASSUME NEW pc \in {"mkdir", "session", "write", "row"}, Step(t, pc) PROVE FInv'
  BY <1>1, <1>4, QuietMove
<1>5. QED
  BY <1>2, <1>3, <1>4

LEMMA DownloadsAndDone ==
    ASSUME FInv, UNCHANGED <<call, torn>>, NEW t \in Task,
           CompleteCheck(t) \/ CompleteDone(t) \/ DownloadOpen(t)
    PROVE  FInv'
<1>1. UNCHANGED <<call, row, blob, torn>> /\ task[t].at # "free"
  BY DEF CompleteCheck, CompleteDone, DownloadOpen, At, tables, disk
<1>2. \/ \E a \in {"ok", "not found"} : Answer(t, a)
      \/ task[t].at = "complete" /\ Step(t, "count")
      \/ Step(t, "stream")
  BY DEF CompleteCheck, CompleteDone, DownloadOpen, At
<1>3. ASSUME NEW a \in {"ok", "not found"}, Answer(t, a) PROVE FInv'
  BY <1>1, <1>3, QuietAnswer
<1>4. QED
  BY <1>1, <1>2, <1>3, QuietMove

\* A request that is completing writes its final file.
LEMMA FinalFile ==
    ASSUME FInv, UNCHANGED <<call, row, torn>>, NEW t \in Task, Completing(task[t]),
           NEW q, Becomes(t, q), NEW x, blob' = [blob EXCEPT ![task[t].call] = x],
           Completing(q) => q.at = "merge" /\ q.got = x
    PROVE  FInv'
<1> DEFINE c == task[t].call
<1>1. /\ task'[t] = q
      /\ DOMAIN task' = Task
      /\ \A u \in Task : u # t => task'[u] = task[u]
      /\ \A u \in Task : Later(task[u], task'[u])
  BY BecomesLater
<1>2. IsRequest(task[t]) /\ c \in Call /\ c \in FileId
  BY FreeFacts DEF FInv, Shapes, IsRequest, FileId
<1>3. DOMAIN blob' = FileId /\ blob'[c] = x /\ \A f \in FileId : f # c => blob'[f] = blob[f]
  BY <1>2 DEF FInv, Shapes
<1>4. /\ \A u \in Task : task'[u] = Free \/ IsRequest(task'[u])
      /\ OneLive' /\ OneCompletion'
  BY <1>1, ServerStep
<1>5. Shapes'
  BY <1>1, <1>3, <1>4 DEF FInv, Shapes, IsRequest
<1>6. row[c] = Absent
  BY DEF FInv, Merging
<1>7. ASSUME NEW u \in Task, Completing(task'[u])
      PROVE  /\ row'[task'[u].call] = Absent
             /\ task'[u].got = IF task'[u].at = "merge" THEN blob'[task'[u].call] ELSE << >>
  <2>1. CASE u = t
    <3>1. q.call = c
      BY <1>1, <1>7, <2>1, FreeFacts DEF Later
    <3>2. QED
      BY <1>1, <1>3, <1>6, <1>7, <2>1, <3>1
  <2>2. CASE u # t
    <3>1. task'[u] = task[u] /\ Completing(task[u])
      BY <1>1, <1>7, <2>2
    <3>2. task[u].call # c /\ task[u].call \in FileId
      BY <2>2, <3>1, FreeFacts DEF FInv, OneCompletion, Shapes, IsRequest, FileId
    <3>3. QED
      BY <1>3, <3>1, <3>2 DEF FInv, Merging
  <2>3. QED
    BY <2>1, <2>2
<1>8. Merging'
  BY <1>7 DEF Merging
<1>9. Recorded' /\ WholeFiles'
  BY <1>3, <1>6 DEF FInv, Recorded, WholeFiles, Active
<1>10. QED
  BY <1>4, <1>5, <1>8, <1>9 DEF FInv

\* The file is truncated, extended by a chunk, or removed after a failure.
LEMMA CompleteCountStep ==
    ASSUME FInv, UNCHANGED <<call, torn>>, NEW t \in Task, CompleteCount(t)
    PROVE  FInv'
<1>1. task[t].at = "count" /\ Completing(task[t]) /\ row' = row
  BY DEF CompleteCount, At, tables, Completing
<1>2. \/ blob' = [blob EXCEPT ![task[t].call] = << >>] /\ Step(t, "merge")
      \/ Answer(t, "bad request") /\ UNCHANGED blob
  BY DEF CompleteCount
<1>3. CASE blob' = [blob EXCEPT ![task[t].call] = << >>] /\ Step(t, "merge")
  <2>1. PICK q : Becomes(t, q) /\ q.at = "merge" /\ q.got = task[t].got
    BY <1>1, <1>3, StepBecomes
  <2>2. q.got = << >>
    BY <1>1, <2>1 DEF FInv, Merging
  <2>3. QED
    BY <1>1, <1>3, <2>1, <2>2, FinalFile
<1>4. CASE Answer(t, "bad request") /\ UNCHANGED blob
  BY <1>1, <1>4, QuietAnswer
<1>5. QED
  BY <1>2, <1>3, <1>4

LEMMA CompleteMergeStep ==
    ASSUME FInv, UNCHANGED <<call, torn>>, NEW t \in Task, CompleteMerge(t)
    PROVE  FInv'
<1> DEFINE c == task[t].call
           n == Len(task[t].got) + 1
           got == Append(task[t].got, chunk[c][n])
           q == [task[t] EXCEPT !.got = got]
<1>1. task[t].at = "merge" /\ Completing(task[t]) /\ row' = row
  BY DEF CompleteMerge, At, tables, Completing
<1>2. \/ Answer(t, "error") /\ UNCHANGED blob
      \/ /\ task' = [task EXCEPT ![t].got = Append(@, chunk[c][n])]
         /\ blob' = [blob EXCEPT ![c] = Append(@, chunk[c][n])]
  BY DEF CompleteMerge
<1>3. CASE Answer(t, "error") /\ UNCHANGED blob
  BY <1>1, <1>3, QuietAnswer
<1>4. CASE /\ task' = [task EXCEPT ![t].got = Append(@, chunk[c][n])]
           /\ blob' = [blob EXCEPT ![c] = Append(@, chunk[c][n])]
  <2>1. IsRequest(task[t])
    BY <1>1, WorkingTask
  <2>2. /\ IsRequest(q) /\ q.at = "merge" /\ q.call = c /\ q.live = task[t].live
        /\ q.got = got
    BY <1>1, <2>1 DEF IsRequest
  <2>3. task' = [task EXCEPT ![t] = q]
    BY <1>4
  <2>4. blob' = [blob EXCEPT ![c] = got]
    BY <1>1, <1>4 DEF FInv, Merging
  <2> HIDE DEF q, got
  <2>5. Becomes(t, q)
    BY <1>1, <2>1, <2>2, <2>3, FreeFacts DEF Becomes, Later
  <2>6. QED
    BY <1>1, <2>2, <2>4, <2>5, FinalFile
<1>5. QED
  BY <1>2, <1>3, <1>4

LEMMA RemoveFileStep ==
    ASSUME FInv, UNCHANGED <<call, row, torn>>, NEW t \in Task, task[t].at = "merge",
           NEW a \in Failure, RemoveFile(task[t].call), Answer(t, a)
    PROVE  FInv'
<1>1. PICK q : Becomes(t, q) /\ ~Completing(q)
  BY AnswerBecomes DEF Failure
<1>2. blob' = [blob EXCEPT ![task[t].call] = Absent] /\ Completing(task[t])
  BY DEF RemoveFile, Completing
<1>3. QED
  BY <1>1, <1>2, FinalFile

\* The row is written: what was read is what the session's hash names.
LEMMA RecordStep ==
    ASSUME FInv, UNCHANGED <<call, blob, torn>>, NEW t \in Task, task[t].at = "merge",
           task[t].got = Content(session[task[t].call].sha),
           Record(task[t].call), Step(t, "rmdir")
    PROVE  FInv'
<1> DEFINE c == task[t].call
           new == [sha |-> session[c].sha, deleted |-> FALSE]
<1>1. PICK q : Becomes(t, q) /\ q.at = "rmdir"
  BY StepBecomes
<1>2. /\ task'[t] = q
      /\ DOMAIN task' = Task
      /\ \A u \in Task : u # t => task'[u] = task[u]
      /\ \A u \in Task : Later(task[u], task'[u])
  BY <1>1, BecomesLater
<1>3. Completing(task[t]) /\ ~Completing(q)
  BY <1>1 DEF Completing
<1>4. c \in Call /\ c \in FileId
  BY WorkingTask DEF IsRequest, FileId
<1>5. DOMAIN row' = FileId /\ row'[c] = new /\ \A f \in FileId : f # c => row'[f] = row[f]
  BY <1>4 DEF FInv, Shapes, Record
<1>6. /\ \A u \in Task : task'[u] = Free \/ IsRequest(task'[u])
      /\ OneLive' /\ OneCompletion'
  BY <1>2, ServerStep
<1>7. Shapes'
  <2>1. new.sha = session[c].sha /\ new \in [sha : {new.sha}, deleted : BOOLEAN]
    OBVIOUS
  <2> HIDE DEF new
  <2>2. \A f \in FileId : row'[f] # Absent =>
            row'[f] \in [sha : {row'[f].sha}, deleted : BOOLEAN]
    BY <1>5, <2>1 DEF FInv, Shapes
  <2>3. QED
    BY <1>2, <1>5, <1>6, <2>2 DEF FInv, Shapes, IsRequest
<1>8. blob[c] = Content(session[c].sha)
  BY <1>3 DEF FInv, Merging
<1>9. Merging'
  <2>1. ASSUME NEW u \in Task, Completing(task'[u])
        PROVE  task'[u] = task[u] /\ task[u].call # c /\ task[u].call \in FileId
    <3>1. u # t /\ task'[u] = task[u]
      BY <1>2, <1>3, <2>1
    <3>2. QED
      BY <1>3, <2>1, <3>1, FreeFacts DEF FInv, OneCompletion, Shapes, IsRequest, FileId
  <2>2. QED
    BY <1>5, <2>1 DEF FInv, Merging
<1>10. call[c].at \in Finishing
  BY <1>3 DEF FInv, OneCompletion, Finishing
<1>11. Recorded'
  BY <1>5, <1>10 DEF FInv, Recorded, FileId
<1>12. ASSUME NEW f \in FileId, row'[f] # Absent, ~row'[f].deleted, f \notin torn
       PROVE  blob[f] = Content(row'[f].sha)
  <2>1. CASE f = c
    BY <1>5, <1>8, <2>1
  <2>2. CASE f # c
    BY <1>5, <1>12, <2>2 DEF FInv, WholeFiles, Active
  <2>3. QED
    BY <2>1, <2>2
<1>13. WholeFiles'
  BY <1>12 DEF WholeFiles, Active, Content
<1>14. QED
  BY <1>6, <1>7, <1>9, <1>11, <1>13 DEF FInv

LEMMA CompleteRecordStep ==
    ASSUME FInv, UNCHANGED <<call, torn>>, NEW t \in Task, CompleteRecord(t)
    PROVE  FInv'
<1> DEFINE c == task[t].call
<1>1. task[t].at = "merge"
  BY DEF CompleteRecord, At
<1>2. \/ \E a \in {"bad request", "conflict"} :
             RemoveFile(c) /\ Answer(t, a) /\ UNCHANGED tables
      \/ /\ task[t].got = Content(session[c].sha)
         /\ Record(c) /\ Step(t, "rmdir") /\ UNCHANGED blob
  BY DEF CompleteRecord
<1>3. ASSUME NEW a \in {"bad request", "conflict"},
             RemoveFile(c), Answer(t, a), UNCHANGED tables
      PROVE  FInv'
  <2>1. a \in Failure /\ row' = row
    BY <1>3 DEF Failure, tables
  <2>2. QED
    BY <1>1, <1>3, <2>1, RemoveFileStep
<1>4. QED
  BY <1>1, <1>2, <1>3, RecordStep

LEMMA FailsStep ==
    ASSUME FInv, UNCHANGED <<call, torn>>, NEW t \in Task, Fails(t)
    PROVE  FInv'
<1> DEFINE a == IF At(t, "rmdir") THEN "ok" ELSE "error"
<1>1. task[t].at # "free" /\ Answer(t, a) /\ row' = row
  BY DEF Fails, Working, tables
<1>2. \/ task[t].at = "merge" /\ RemoveFile(task[t].call)
      \/ UNCHANGED blob
  BY DEF Fails, At
<1>3. CASE task[t].at = "merge" /\ RemoveFile(task[t].call)
  <2>1. a \in Failure
    BY <1>3 DEF At, Failure
  <2> HIDE DEF a
  <2>2. QED
    BY <1>1, <1>3, <2>1, RemoveFileStep
<1>4. CASE UNCHANGED blob
  BY <1>1, <1>4, QuietAnswer
<1>5. QED
  BY <1>2, <1>3, <1>4

LEMMA DropStep ==
    ASSUME FInv, UNCHANGED <<call, torn>>, NEW t \in Task, Drop(t)
    PROVE  FInv'
<1>1. Becomes(t, Free) /\ ~Completing(Free) /\ UNCHANGED <<row, blob>>
  BY FreeFacts DEF Drop, Becomes, Later, tables, disk
<1>2. QED
  BY <1>1, QuietTask

LEMMA DeleteFileStep ==
    ASSUME FInv, UNCHANGED <<call, torn>>, NEW f \in FileId, DeleteFile(f)
    PROVE  FInv'
<1>1. /\ row[f] # Absent /\ UNCHANGED <<task, blob>>
      /\ row' = [row EXCEPT ![f].deleted = TRUE]
  BY DEF DeleteFile, Active, disk
<1>2. /\ DOMAIN row' = FileId
      /\ row'[f].sha = row[f].sha /\ row'[f].deleted = TRUE
      /\ row'[f] \in [sha : {row[f].sha}, deleted : BOOLEAN]
      /\ \A g \in FileId : g # f => row'[g] = row[g]
  <2> DEFINE new == [row[f] EXCEPT !.deleted = TRUE]
  <2>1. row[f] \in [sha : {row[f].sha}, deleted : BOOLEAN]
    BY <1>1 DEF FInv, Shapes
  <2>2. /\ new \in [sha : {row[f].sha}, deleted : BOOLEAN]
        /\ new.sha = row[f].sha /\ new.deleted = TRUE
    BY <2>1
  <2>3. row' = [row EXCEPT ![f] = new]
    BY <1>1
  <2> HIDE DEF new
  <2>4. QED
    BY <2>2, <2>3 DEF FInv, Shapes
<1>3. Shapes' /\ OneLive' /\ OneCompletion'
  BY <1>1, <1>2 DEF FInv, Shapes, OneLive, OneCompletion, IsRequest
<1>4. Merging'
  <2>1. ASSUME NEW t \in Task, Completing(task[t])
        PROVE  task[t].call # f /\ task[t].call \in FileId
    BY <1>1, <2>1, FreeFacts DEF FInv, Merging, Shapes, IsRequest, FileId
  <2>2. QED
    BY <1>1, <1>2, <2>1 DEF FInv, Merging
<1>5. Recorded'
  BY <1>1, <1>2 DEF FInv, Recorded, FileId
<1>6. WholeFiles'
  BY <1>1, <1>2 DEF FInv, WholeFiles, Active
<1>7. QED
  BY <1>3, <1>4, <1>5, <1>6 DEF FInv

\* Steps that move no request, no call and no finished file.
LEMMA NothingMoves ==
    ASSUME FInv, UNCHANGED <<call, row, blob, torn, task>>
    PROVE  FInv'
  BY QuietServer DEF FInv, Shapes, Later

\* The server dies: requests that were live have an error, and a file whose
\* last write had not landed is torn.
LEMMA CrashStep ==
    ASSUME FInv, call' = call, Crash,
           torn' = torn \cup {f \in FileId : FileWrite(f) \in landing}
    PROVE  FInv'
<1>1. /\ row' = row
      /\ task' = [t \in Task |-> IF task[t] # Free /\ task[t].live
                                 THEN [task[t] EXCEPT !.at = "error"] ELSE Free]
      /\ blob' = [f \in FileId |-> IF FileWrite(f) \in landing
                                   THEN SubSeq(blob[f], 1, Extent(f)) ELSE blob[f]]
  BY DEF Crash, tables
<1>2. ASSUME NEW t \in Task
      PROVE  Later(task[t], task'[t]) /\ ~Completing(task'[t])
  <2>1. CASE task[t] # Free /\ task[t].live
    <3>1. IsRequest(task[t])
      BY <2>1 DEF FInv, Shapes
    <3>2. task'[t] = [task[t] EXCEPT !.at = "error"]
      BY <1>1, <2>1
    <3>3. /\ IsRequest(task'[t]) /\ task'[t].at = "error"
          /\ task'[t].call = task[t].call /\ task'[t].live = task[t].live
      BY <3>1, <3>2 DEF IsRequest
    <3>4. QED
      BY <2>1, <3>3 DEF Later, Completing
  <2>2. CASE ~(task[t] # Free /\ task[t].live)
    <3>1. task'[t] = Free
      BY <1>1, <2>2
    <3>2. QED
      BY <3>1, FreeFacts DEF Later
  <2>3. QED
    BY <2>1, <2>2
<1>3. DOMAIN task' = Task
  BY <1>1
<1>4. /\ \A t \in Task : task'[t] = Free \/ IsRequest(task'[t])
      /\ OneLive' /\ OneCompletion'
  BY <1>2, <1>3, ServerStep
<1>5. Shapes'
  BY <1>1, <1>3, <1>4 DEF FInv, Shapes, IsRequest
<1>6. Merging' /\ Recorded'
  BY <1>1, <1>2 DEF FInv, Merging, Recorded
<1>7. \A f \in FileId : f \notin torn' => f \notin torn /\ blob'[f] = blob[f]
  BY <1>1
<1>8. WholeFiles'
  BY <1>1, <1>7 DEF FInv, WholeFiles, Active
<1>9. QED
  BY <1>4, <1>5, <1>6, <1>8 DEF FInv

LEMMA ServeInv ==
    ASSUME FInv, Serve
    PROVE  FInv'
<1>1. UNCHANGED <<call, torn>>
  BY DEF Serve, client
<1>2. ASSUME NEW t \in Task, TaskStep(t) PROVE FInv'
  BY <1>1, <1>2, InitAndChunks, DownloadsAndDone, CompleteCountStep, CompleteMergeStep,
     CompleteRecordStep DEF TaskStep
<1>3. ASSUME NEW w \in landing, Land(w) PROVE FInv'
  BY <1>1, <1>3, NothingMoves DEF Land, tables
<1>4. ASSUME NEW f \in FileId, DeleteFile(f) PROVE FInv'
  BY <1>1, <1>4, DeleteFileStep
<1>5. CASE CleanerStep
  <2>1. UNCHANGED <<row, blob, task>>
    BY <1>5 DEF CleanerStep, CleanSelect, CleanDir, CleanRows, CleanStatus, tables, disk
  <2>2. QED
    BY <1>1, <2>1, NothingMoves
<1>6. QED
  BY <1>2, <1>3, <1>4, <1>5 DEF Serve

-----------------------------------------------------------------------------
(* The clients' steps: the server's files and rows stay.                   *)

files == <<row, blob, torn>>

CallGoes(c, x) == IsCall(x) /\ call' = [call EXCEPT ![c] = x]

LEMMA CallUpdate ==
    ASSUME FInv, NEW c \in Call, NEW x, CallGoes(c, x)
    PROVE  /\ DOMAIN call' = Call
           /\ call'[c] = x
           /\ \A e \in Call : e # c => call'[e] = call[e]
           /\ \A e \in Call : IsCall(call'[e])
  BY DEF FInv, Shapes, CallGoes

\* What has to hold when call c goes to x and request t, of that call, to q.
Keeps(c, x, t, q) ==
    /\ q = Free \/ (IsRequest(q) /\ q.call = c)
    /\ Live(q) => x.at \in Hearing
    /\ \A u \in Task : u # t /\ Live(task[u]) => task[u].call # c
    /\ \A u \in Task : u # t /\ Completing(task[u]) /\ task[u].call = c =>
           ~Completing(q) /\ x.at = "failed"
    /\ Completing(q) => /\ x.at = IF q.live THEN "complete" ELSE "failed"
                        /\ row[c] = Absent
                        /\ q.got = IF q.at = "merge" THEN blob[c] ELSE << >>
    /\ row[c] # Absent => x.at \in Finishing

LEMMA ClientStep ==
    ASSUME FInv, UNCHANGED files, NEW c \in Call, NEW x, CallGoes(c, x),
           NEW t \in Task, NEW q, task' = [task EXCEPT ![t] = q], Keeps(c, x, t, q)
    PROVE  FInv'
<1>0. /\ q = Free \/ (IsRequest(q) /\ q.call = c)
      /\ Live(q) => x.at \in Hearing
      /\ \A u \in Task : u # t /\ Live(task[u]) => task[u].call # c
      /\ \A u \in Task : u # t /\ Completing(task[u]) /\ task[u].call = c =>
             ~Completing(q) /\ x.at = "failed"
      /\ Completing(q) => /\ x.at = IF q.live THEN "complete" ELSE "failed"
                          /\ row[c] = Absent
                          /\ q.got = IF q.at = "merge" THEN blob[c] ELSE << >>
      /\ row[c] # Absent => x.at \in Finishing
  BY DEF Keeps
<1>1. /\ DOMAIN call' = Call
      /\ call'[c] = x
      /\ \A e \in Call : e # c => call'[e] = call[e]
      /\ \A e \in Call : IsCall(call'[e])
  BY CallUpdate
<1>2. DOMAIN task' = Task /\ task'[t] = q /\ \A u \in Task : u # t => task'[u] = task[u]
  BY DEF FInv, Shapes
<1>3. UNCHANGED <<row, blob, torn>>
  BY DEF files
<1>4. \A u \in Task : task[u] = Free \/ task[u].call \in Call
  BY DEF FInv, Shapes, IsRequest
<1>5. Shapes'
  BY <1>0, <1>1, <1>2, <1>3 DEF FInv, Shapes, IsRequest
<1>6. OneLive'
  BY <1>0, <1>1, <1>2, <1>4, FreeFacts DEF FInv, OneLive, Live
<1>7. ASSUME NEW u \in Task, NEW v \in Task, Completing(task'[u]), Completing(task'[v]),
             task'[u].call = task'[v].call
      PROVE  u = v
  BY <1>0, <1>2, <1>7, FreeFacts DEF FInv, OneCompletion
<1>8. ASSUME NEW u \in Task, Completing(task'[u])
      PROVE  call'[task'[u].call].at = IF task'[u].live THEN "complete" ELSE "failed"
  <2>1. CASE u = t
    BY <1>0, <1>1, <1>2, <1>8, <2>1, FreeFacts
  <2>2. CASE u # t
    <3>1. task'[u] = task[u] /\ Completing(task[u]) /\ task[u].call \in Call
      BY <1>2, <1>4, <1>8, <2>2, FreeFacts
    <3>2. CASE task[u].call = c
      <4>1. x.at = "failed" /\ ~Live(task[u])
        BY <1>0, <2>2, <3>1, <3>2
      <4>2. ~task[u].live
        BY <3>1, <4>1, FreeFacts DEF Live
      <4>3. QED
        BY <1>1, <3>1, <3>2, <4>1, <4>2
    <3>3. CASE task[u].call # c
      BY <1>1, <3>1, <3>3 DEF FInv, OneCompletion
    <3>4. QED
      BY <3>2, <3>3
  <2>3. QED
    BY <2>1, <2>2
<1>9. OneCompletion'
  BY <1>7, <1>8 DEF OneCompletion
<1>10. Merging'
  BY <1>0, <1>2, <1>3, FreeFacts DEF FInv, Merging
<1>11. Recorded'
  BY <1>0, <1>1, <1>3 DEF FInv, Recorded
<1>12. WholeFiles'
  BY <1>3 DEF FInv, WholeFiles, Active
<1>13. QED
  BY <1>5, <1>6, <1>9, <1>10, <1>11, <1>12 DEF FInv

LEMMA RequestFacts ==
    ASSUME NEW kind, kind # "free", NEW c \in Call, NEW i, NEW b
    PROVE  LET r == Request(kind, c, i, b) IN
           IsRequest(r) /\ r.at = kind /\ r.call = c /\ r.live /\ r.got = << >>
  BY DEF Request, IsRequest

\* A call that gets an answer, or waits no longer, has no other request that
\* is live, and none that is completing.
Follows(c, x, t, q) ==
    /\ Live(task[t]) /\ task[t].call = c
    /\ q = Free \/ (IsRequest(q) /\ q.call = c)
    /\ Live(q) => x.at \in Hearing
    /\ Completing(q) =>
           \/ /\ call[c].at = "chunk" /\ x.at = "complete"
              /\ q.at = "complete" /\ q.live /\ q.got = << >>
           \/ /\ Completing(task[t]) /\ x.at = "failed"
              /\ q.at = task[t].at /\ ~q.live /\ q.got = task[t].got
    /\ call[c].at = "complete" => x.at \in Finishing

LEMMA Answered ==
    ASSUME FInv, UNCHANGED files, NEW c \in Call, NEW x, CallGoes(c, x),
           NEW t \in Task, NEW q, task' = [task EXCEPT ![t] = q], Follows(c, x, t, q)
    PROVE  FInv'
<1>1. \A u \in Task : u # t /\ Live(task[u]) => task[u].call # c
  BY DEF FInv, OneLive, Follows
<1>2. call[c].at \in Hearing
  BY DEF FInv, OneLive, Follows
<1>3. \A u \in Task : u # t /\ Completing(task[u]) => task[u].call # c
  BY <1>1, <1>2, FreeFacts DEF FInv, OneCompletion, Live, Hearing
<1>4. row[c] # Absent => call[c].at = "complete"
  BY <1>2 DEF FInv, Recorded, Hearing, Finishing
<1>5. Completing(q) => /\ x.at = IF q.live THEN "complete" ELSE "failed"
                       /\ row[c] = Absent
                       /\ q.got = IF q.at = "merge" THEN blob[c] ELSE << >>
  BY <1>4 DEF FInv, Merging, Follows
<1>6. Keeps(c, x, t, q)
  BY <1>1, <1>3, <1>4, <1>5 DEF Keeps, Follows
<1>7. QED
  BY <1>6, ClientStep

\* A call that is in no call to the server, and has not asked for completion,
\* has no request at all.
LEMMA Asks ==
    ASSUME FInv, UNCHANGED files, NEW c \in Call, NEW x, CallGoes(c, x),
           call[c].at \notin Hearing \cup Finishing,
           x.at \in Hearing,
           NEW t \in Task, NEW kind \in {"init", "chunk", "download"}, NEW i, NEW b,
           Ask(t, Request(kind, c, i, b))
    PROVE  FInv'
<1> DEFINE q == Request(kind, c, i, b)
<1>1. IsRequest(q) /\ q.call = c /\ ~Completing(q)
  BY RequestFacts DEF Completing
<1>2. task' = [task EXCEPT ![t] = q]
  BY DEF Ask
<1> HIDE DEF q
<1>3. \A u \in Task : u # t /\ Live(task[u]) => task[u].call # c
  BY DEF FInv, OneLive
<1>4. \A u \in Task : u # t /\ Completing(task[u]) /\ task[u].call = c => x.at = "failed"
  BY DEF FInv, OneCompletion, Finishing
<1>5. row[c] # Absent => x.at \in Finishing
  BY DEF FInv, Recorded
<1>6. Keeps(c, x, t, q)
  BY <1>1, <1>3, <1>4, <1>5 DEF Keeps
<1>7. QED
  BY <1>2, <1>6, ClientStep

\* A call that goes on by itself.
LEMMA CallOnly ==
    ASSUME FInv, UNCHANGED files, task' = task, NEW c \in Call, NEW x, CallGoes(c, x),
           \/ x.at = call[c].at
           \/ call[c].at \notin Hearing \cup Finishing /\ x.at \notin Hearing
    PROVE  FInv'
<1>1. /\ DOMAIN call' = Call
      /\ call'[c] = x
      /\ \A e \in Call : e # c => call'[e] = call[e]
      /\ \A e \in Call : IsCall(call'[e])
  BY CallUpdate
<1>2. UNCHANGED <<row, blob, torn>>
  BY DEF files
<1>3. \A u \in Task : task[u] = Free \/ task[u].call \in Call
  BY DEF FInv, Shapes, IsRequest
<1>4. Shapes'
  BY <1>1, <1>2 DEF FInv, Shapes, IsRequest
<1>5. OneLive'
  BY <1>1, <1>3 DEF FInv, OneLive, Live
<1>6. OneCompletion'
  BY <1>1, <1>3, FreeFacts DEF FInv, OneCompletion, Finishing
<1>7. Merging' /\ WholeFiles'
  BY <1>2 DEF FInv, Merging, WholeFiles, Active
<1>8. Recorded'
  BY <1>1, <1>2 DEF FInv, Recorded
<1>9. QED
  BY <1>4, <1>5, <1>6, <1>7, <1>8 DEF FInv

\* The end of a request, and the start of the next one in its place.
LEMMA Closed ==
    ASSUME FInv, UNCHANGED files, NEW c \in Call, NEW x, CallGoes(c, x),
           NEW t \in Task, NEW kind, Waits(c, t, kind), Done(t),
           kind = "complete" => x.at \in Finishing
    PROVE  FInv'
<1>1. Live(task[t]) /\ task[t].call = c /\ call[c].at = kind
  BY DEF Waits, Live
<1>2. task' = [task EXCEPT ![t] = Free]
  BY DEF Done, Ask
<1>3. Follows(c, x, t, Free)
  BY <1>1, FreeFacts DEF Follows
<1>4. QED
  BY <1>2, <1>3, Answered

LEMMA AsksNext ==
    ASSUME FInv, UNCHANGED files, NEW c \in Call, NEW x, CallGoes(c, x),
           NEW t \in Task, NEW kind \in {"init", "chunk"}, Waits(c, t, kind),
           NEW next \in {"chunk", "complete"}, NEW i, NEW b,
           Ask(t, Request(next, c, i, b)), x.at = next, next = "complete" => kind = "chunk"
    PROVE  FInv'
<1> DEFINE q == Request(next, c, i, b)
<1>1. Live(task[t]) /\ task[t].call = c /\ call[c].at = kind
  BY DEF Waits, Live
<1>2. IsRequest(q) /\ q.call = c /\ q.at = next /\ q.live /\ q.got = << >>
  BY RequestFacts
<1>3. task' = [task EXCEPT ![t] = q]
  BY DEF Ask
<1> HIDE DEF q
<1>4. Completing(q) => /\ call[c].at = "chunk" /\ x.at = "complete"
                       /\ q.at = "complete" /\ q.live /\ q.got = << >>
  BY <1>1, <1>2 DEF Completing
<1>5. x.at \in Hearing /\ call[c].at # "complete"
  BY <1>1 DEF Hearing
<1>6. Follows(c, x, t, q)
  BY <1>1, <1>2, <1>4, <1>5 DEF Follows
<1>7. QED
  BY <1>3, <1>6, Answered

-----------------------------------------------------------------------------
(* One lemma per step of a client.                                         *)

LEMMA CallFacts ==
    ASSUME FInv, NEW c \in Call
    PROVE  DOMAIN call[c] = {"at", "book", "file", "ix", "data", "tries", "fd"}
  BY DEF FInv, Shapes, IsCall, Idle

LEMMA FilesKept ==
    ASSUME UNCHANGED <<tables, disk, torn>>
    PROVE  UNCHANGED files
  BY DEF tables, disk, files

LEMMA GoesTo ==
    ASSUME FInv, NEW c \in Call, NEW pc, Goto(c, pc)
    PROVE  \E x : CallGoes(c, x) /\ x.at = pc
<1> DEFINE x == [call[c] EXCEPT !.at = pc]
<1>1. IsCall(x) /\ x.at = pc
  BY CallFacts DEF IsCall, Idle
<1>2. call' = [call EXCEPT ![c] = x]
  BY DEF Goto
<1> HIDE DEF x
<1>3. QED
  BY <1>1, <1>2 DEF CallGoes

LEMMA FailGoes ==
    ASSUME FInv, NEW c \in Call, Fail(c)
    PROVE  \E x : CallGoes(c, x) /\ x.at = "failed"
<1> DEFINE x == [call[c] EXCEPT !.at = "failed", !.fd = 0]
<1>1. IsCall(x) /\ x.at = "failed"
  BY CallFacts DEF IsCall, Idle
<1>2. call' = [call EXCEPT ![c] = x]
  BY DEF Fail
<1> HIDE DEF x
<1>3. QED
  BY <1>1, <1>2 DEF CallGoes

LEMMA RetryGoes ==
    ASSUME FInv, NEW c \in Call, Retry(c)
    PROVE  \E x : CallGoes(c, x) /\ x.at \in {"again", "failed"}
<1> DEFINE r == [call[c] EXCEPT !.at = "again"]
           x == [r EXCEPT !.tries = call[c].tries + 1]
<1>1. IsCall(r) /\ IsCall(x) /\ r.at = "again" /\ x.at = "again" /\ r.tries = call[c].tries
  BY CallFacts DEF IsCall, Idle
<1>2. call' = [call EXCEPT ![c] = x] \/ Fail(c)
  BY <1>1 DEF Retry, FInv, Shapes
<1> HIDE DEF x, r
<1>3. QED
  BY <1>1, <1>2, FailGoes DEF CallGoes

LEMMA GetAgainGoes ==
    ASSUME FInv, NEW c \in Call, GetAgain(c)
    PROVE  \E x : CallGoes(c, x) /\ x.at \in {"create", "failed"}
<1> DEFINE x == [call[c] EXCEPT !.at = "create", !.tries = call[c].tries + 1, !.fd = 0]
           y == [call[c] EXCEPT !.at = "failed", !.fd = 0]
<1>1. IsCall(x) /\ x.at = "create" /\ IsCall(y) /\ y.at = "failed"
  BY CallFacts DEF IsCall, Idle
<1>2. call' = [call EXCEPT ![c] = x] \/ call' = [call EXCEPT ![c] = y]
  BY DEF GetAgain
<1> HIDE DEF x, y
<1>3. QED
  BY <1>1, <1>2 DEF CallGoes

LEMMA SendChunkInv ==
    ASSUME FInv, UNCHANGED files, NEW c \in Call, NEW t \in Task,
           NEW kind \in {"init", "chunk"}, Waits(c, t, kind), NEW i, SendChunk(c, t, i)
    PROVE  FInv'
<1>1. CASE Fail(c) /\ Done(t)
  BY <1>1, FailGoes, Closed
<1>2. ASSUME NEW d \in Book,
             Ask(t, Request("chunk", c, i, d)),
             call' = [call EXCEPT ![c] = [@ EXCEPT !.at = "chunk", !.ix = i,
                                                   !.data = d, !.tries = 0]]
      PROVE  FInv'
  <2> DEFINE x == [call[c] EXCEPT !.at = "chunk", !.ix = i, !.data = d, !.tries = 0]
  <2>1. IsCall(x) /\ x.at = "chunk"
    BY CallFacts DEF IsCall, Idle
  <2>2. call' = [call EXCEPT ![c] = x]
    BY <1>2
  <2> HIDE DEF x
  <2>3. CallGoes(c, x)
    BY <2>1, <2>2 DEF CallGoes
  <2>4. QED
    BY <1>2, <2>1, <2>3, AsksNext
<1>3. QED
  BY <1>1, <1>2 DEF SendChunk

LEMMA UploadInv ==
    ASSUME FInv, NEW c \in Call, UploadStep(c)
    PROVE  FInv'
<1>1. CASE StartUpload(c)
  <2>1. PICK b \in Book, t \in Task :
            /\ Ask(t, Request("init", c, 0, b))
            /\ call' = [call EXCEPT ![c] = [Idle EXCEPT !.at = "init", !.book = b]]
    BY <1>1 DEF StartUpload
  <2> DEFINE x == [Idle EXCEPT !.at = "init", !.book = b]
  <2>2. IsCall(x) /\ x.at = "init"
    BY DEF IsCall, Idle
  <2> HIDE DEF x
  <2>3. CallGoes(c, x) /\ x.at \in Hearing
    BY <2>1, <2>2 DEF CallGoes, Hearing, x
  <2>4. call[c].at \notin Hearing \cup Finishing
    BY <1>1 DEF StartUpload, MayStart, Hearing, Finishing
  <2>5. UNCHANGED files
    BY <1>1, FilesKept DEF StartUpload, history
  <2>6. QED
    BY <2>1, <2>3, <2>4, <2>5, Asks
<1>2. CASE ResendChunk(c)
  <2>1. PICK t \in Task : Ask(t, Request("chunk", c, call[c].ix, call[c].data))
    BY <1>2 DEF ResendChunk
  <2>2. PICK x : CallGoes(c, x) /\ x.at = "chunk"
    BY <1>2, GoesTo DEF ResendChunk
  <2>3. call[c].at \notin Hearing \cup Finishing /\ x.at \in Hearing
    BY <1>2, <2>2 DEF ResendChunk, Hearing, Finishing
  <2>4. UNCHANGED files
    BY <1>2, FilesKept DEF ResendChunk, history
  <2>5. QED
    BY <2>1, <2>2, <2>3, <2>4, Asks
<1>3. ASSUME NEW t \in Task, InitAnswered(c, t) PROVE FInv'
  <2>1. Waits(c, t, "init") /\ (SendChunk(c, t, 1) \/ (Fail(c) /\ Done(t)))
    BY <1>3 DEF InitAnswered
  <2>2. UNCHANGED files
    BY <1>3, FilesKept DEF InitAnswered, history
  <2>3. CASE SendChunk(c, t, 1)
    BY <2>1, <2>2, <2>3, SendChunkInv
  <2>4. CASE Fail(c) /\ Done(t)
    BY <2>1, <2>2, <2>4, FailGoes, Closed
  <2>5. QED
    BY <2>1, <2>3, <2>4
<1>4. ASSUME NEW t \in Task, ChunkAnswered(c, t) PROVE FInv'
  <2>1. /\ Waits(c, t, "chunk")
        /\ \/ SendChunk(c, t, call[c].ix + 1)
           \/ Ask(t, Request("complete", c, 0, Absent)) /\ Goto(c, "complete")
           \/ Retry(c) /\ Done(t)
    BY <1>4 DEF ChunkAnswered
  <2>2. UNCHANGED files
    BY <1>4, FilesKept DEF ChunkAnswered, history
  <2>3. CASE SendChunk(c, t, call[c].ix + 1)
    BY <2>1, <2>2, <2>3, SendChunkInv
  <2>4. CASE Ask(t, Request("complete", c, 0, Absent)) /\ Goto(c, "complete")
    <3>1. PICK x : CallGoes(c, x) /\ x.at = "complete"
      BY <2>4, GoesTo
    <3>2. QED
      BY <2>1, <2>2, <2>4, <3>1, AsksNext
  <2>5. CASE Retry(c) /\ Done(t)
    BY <2>1, <2>2, <2>5, RetryGoes, Closed
  <2>6. QED
    BY <2>1, <2>3, <2>4, <2>5
<1>5. ASSUME NEW t \in Task, CompleteAnswered(c, t) PROVE FInv'
  <2>1. Waits(c, t, "complete") /\ Done(t) /\ (Goto(c, "ok") \/ Fail(c))
    BY <1>5 DEF CompleteAnswered
  <2>2. PICK x : CallGoes(c, x) /\ x.at \in {"ok", "failed"}
    BY <2>1, GoesTo, FailGoes
  <2>3. UNCHANGED files /\ x.at \in Finishing
    BY <1>5, <2>2, FilesKept DEF CompleteAnswered, history, Finishing
  <2>4. QED
    BY <2>1, <2>2, <2>3, Closed
<1>6. QED
  BY <1>1, <1>2, <1>3, <1>4, <1>5 DEF UploadStep

LEMMA DownloadInv ==
    ASSUME FInv, NEW c \in Call, DownloadStep(c)
    PROVE  FInv'
<1>1. CASE StartDownload(c)
  <2>1. PICK f \in Active :
            call' = [call EXCEPT ![c] = [Idle EXCEPT !.at = "create", !.book = row[f].sha,
                                                     !.file = f]]
    BY <1>1 DEF StartDownload
  <2> DEFINE x == [Idle EXCEPT !.at = "create", !.book = row[f].sha, !.file = f]
  <2>2. IsCall(x) /\ x.at = "create"
    BY DEF IsCall, Idle
  <2> HIDE DEF x
  <2>3. CallGoes(c, x) /\ x.at \notin Hearing
    BY <2>1, <2>2 DEF CallGoes, Hearing, x
  <2>4. call[c].at \notin Hearing \cup Finishing
    BY <1>1 DEF StartDownload, MayStart, Hearing, Finishing
  <2>5. UNCHANGED files /\ task' = task
    BY <1>1 DEF StartDownload, server, files
  <2>6. QED
    BY <2>3, <2>4, <2>5, CallOnly
<1>2. CASE CreatePart(c)
  <2>1. PICK n : call' = [call EXCEPT ![c] = [call[c] EXCEPT !.at = "get", !.ix = 0, !.fd = n]]
    BY <1>2 DEF CreatePart
  <2>2. PICK t \in Task : Ask(t, Request("download", c, 0, call[c].file))
    BY <1>2 DEF CreatePart
  <2> DEFINE x == [call[c] EXCEPT !.at = "get", !.ix = 0, !.fd = n]
  <2>3. IsCall(x) /\ x.at = "get"
    BY CallFacts DEF IsCall, Idle
  <2> HIDE DEF x
  <2>4. CallGoes(c, x) /\ x.at \in Hearing
    BY <2>1, <2>3 DEF CallGoes, Hearing, x
  <2>5. call[c].at \notin Hearing \cup Finishing
    BY <1>2 DEF CreatePart, Hearing, Finishing
  <2>6. UNCHANGED files
    BY <1>2, FilesKept DEF CreatePart, history
  <2>7. QED
    BY <2>2, <2>4, <2>5, <2>6, Asks
<1>3. CASE Verify(c) \/ Rename(c)
  <2>1. /\ UNCHANGED files /\ task' = task
        /\ call[c].at \notin Hearing \cup Finishing
        /\ Fail(c) \/ Goto(c, "rename") \/ Goto(c, "ok")
    BY <1>3 DEF Verify, Rename, server, files, history, Hearing, Finishing
  <2>2. PICK x : CallGoes(c, x) /\ x.at \in {"failed", "rename", "ok"}
    BY <2>1, GoesTo, FailGoes
  <2>3. x.at \notin Hearing
    BY <2>2 DEF Hearing
  <2>4. QED
    BY <2>1, <2>2, <2>3, CallOnly
<1>4. ASSUME NEW t \in Task, Receive(c, t) PROVE FInv'
  <2>1. UNCHANGED files
    BY <1>4, FilesKept DEF Receive, history
  <2>2. \/ task' = task /\ \E i : call' = [call EXCEPT ![c].ix = i]
        \/ call' = call /\ Step(t, "error") /\ task[t].at = "stream"
    BY <1>4 DEF Receive, At
  <2>3. ASSUME task' = task, NEW i, call' = [call EXCEPT ![c].ix = i] PROVE FInv'
    <3> DEFINE x == [call[c] EXCEPT !.ix = i]
    <3>1. IsCall(x) /\ x.at = call[c].at
      BY CallFacts DEF IsCall, Idle
    <3>2. call' = [call EXCEPT ![c] = x]
      BY <2>3
    <3> HIDE DEF x
    <3>3. CallGoes(c, x)
      BY <3>1, <3>2 DEF CallGoes
    <3>4. QED
      BY <2>1, <2>3, <3>1, <3>3, CallOnly
  <2>4. CASE call' = call /\ Step(t, "error") /\ task[t].at = "stream"
    BY <2>1, <2>4, QuietMove DEF files
  <2>5. QED
    BY <2>2, <2>3, <2>4
<1>5. ASSUME NEW t \in Task, Received(c, t) PROVE FInv'
  <2>1. Waits(c, t, "get") /\ Done(t)
        /\ call' = [call EXCEPT ![c] = [call[c] EXCEPT !.at = "verify", !.fd = 0]]
    BY <1>5 DEF Received
  <2> DEFINE x == [call[c] EXCEPT !.at = "verify", !.fd = 0]
  <2>2. IsCall(x)
    BY CallFacts DEF IsCall, Idle
  <2>3. CallGoes(c, x) /\ UNCHANGED files
    BY <1>5, <2>1, <2>2, FilesKept DEF CallGoes, Received, history
  <2> HIDE DEF x
  <2>4. QED
    BY <2>1, <2>3, Closed
<1>6. ASSUME NEW t \in Task, GetFailed(c, t) PROVE FInv'
  <2>1. Waits(c, t, "get") /\ Done(t) /\ GetAgain(c)
    BY <1>6 DEF GetFailed
  <2>2. UNCHANGED files
    BY <1>6, FilesKept DEF GetFailed, history
  <2>3. QED
    BY <2>1, <2>2, GetAgainGoes, Closed
<1>7. QED
  BY <1>1, <1>2, <1>3, <1>4, <1>5, <1>6 DEF DownloadStep

\* The client waits no longer: its request goes on by itself, or is over.
LEMMA TimeoutInv ==
    ASSUME FInv, NEW c \in Call, NEW t \in Task, Timeout(c, t)
    PROVE  FInv'
<1> DEFINE q == IF task[t].at \in Working THEN [task[t] EXCEPT !.live = FALSE] ELSE Free
<1>1. /\ Live(task[t]) /\ task[t].call = c
      /\ \/ call[c].at = "chunk" /\ Retry(c)
         \/ call[c].at = "get" /\ GetAgain(c)
         \/ call[c].at \in {"init", "complete"} /\ Fail(c)
      /\ task' = [task EXCEPT ![t] = q]
  BY DEF Timeout, Live
<1>2. UNCHANGED files
  BY FilesKept DEF Timeout
<1>3. PICK x : CallGoes(c, x) /\ (call[c].at = "complete" => x.at = "failed")
  BY <1>1, RetryGoes, GetAgainGoes, FailGoes
<1>4. IsRequest(task[t])
  BY <1>1 DEF FInv, Shapes, Live
<1>5. \/ q = Free
      \/ IsRequest(q) /\ q.call = c /\ ~q.live /\ q.at = task[t].at /\ q.got = task[t].got
  BY <1>1, <1>4 DEF IsRequest
<1> HIDE DEF q
<1>6. Completing(q) => Completing(task[t]) /\ q # Free
  BY <1>5, FreeFacts DEF Completing
<1>7. Completing(task[t]) => call[c].at = "complete"
  BY <1>1 DEF FInv, OneCompletion, Live
<1>8. ~Live(q)
  BY <1>5, FreeFacts DEF Live
<1>9. Follows(c, x, t, q)
  BY <1>1, <1>3, <1>5, <1>6, <1>7, <1>8 DEF Follows, Finishing
<1>10. QED
  BY <1>1, <1>2, <1>3, <1>9, Answered

LEMMA LocalFailsInv ==
    ASSUME FInv, NEW c \in Call, LocalFails(c)
    PROVE  FInv'
<1>1. UNCHANGED files /\ task' = task
  BY DEF LocalFails, server, files, history
<1>2. PICK x : CallGoes(c, x) /\ x.at = "failed"
  BY FailGoes DEF LocalFails
<1>3. call[c].at \notin Hearing \cup Finishing /\ x.at \notin Hearing
  BY <1>2 DEF LocalFails, Hearing, Finishing
<1>4. QED
  BY <1>1, <1>2, <1>3, CallOnly

\* The client dies: no request is live, and every call that was at work failed.
LEMMA ClientDiesInv ==
    ASSUME FInv, ClientDies
    PROVE  FInv'
<1> DEFINE dead == {c \in Call : call[c].at \notin {"idle", "ok", "failed"}}
<1>1. /\ call' = [c \in Call |-> IF c \in dead
                                 THEN [call[c] EXCEPT !.at = "failed", !.fd = 0] ELSE call[c]]
      /\ task' = [t \in Task |-> IF task[t].at \in Working
                                 THEN [task[t] EXCEPT !.live = FALSE] ELSE Free]
      /\ UNCHANGED <<row, blob, torn>>
  BY DEF ClientDies, tables, disk
<1>2. ASSUME NEW c \in Call
      PROVE  /\ IsCall(call'[c])
             /\ call'[c].at = IF c \in dead THEN "failed" ELSE call[c].at
  <2>1. CASE c \in dead
    <3>1. call'[c] = [call[c] EXCEPT !.at = "failed", !.fd = 0]
      BY <1>1, <2>1
    <3>2. QED
      BY <2>1, <3>1, CallFacts DEF IsCall, Idle
  <2>2. CASE c \notin dead
    BY <1>1, <2>2 DEF FInv, Shapes
  <2>3. QED
    BY <2>1, <2>2
<1>3. ASSUME NEW t \in Task
      PROVE  \/ task'[t] = Free
             \/ /\ IsRequest(task[t]) /\ IsRequest(task'[t])
                /\ ~task'[t].live /\ task'[t].at = task[t].at
                /\ task'[t].call = task[t].call /\ task'[t].got = task[t].got
  <2>1. CASE task[t].at \in Working
    <3>1. task'[t] = [task[t] EXCEPT !.live = FALSE] /\ IsRequest(task[t])
      BY <1>1, <2>1, WorkingTask DEF Working
    <3>2. QED
      BY <3>1 DEF IsRequest
  <2>2. CASE task[t].at \notin Working
    BY <1>1, <2>2
  <2>3. QED
    BY <2>1, <2>2
<1>4. DOMAIN call' = Call /\ DOMAIN task' = Task
  BY <1>1
<1>5. Shapes'
  BY <1>1, <1>2, <1>3, <1>4 DEF FInv, Shapes, IsRequest
<1>6. OneLive'
  BY <1>3, FreeFacts DEF OneLive, Live
<1>7. ASSUME NEW t \in Task, Completing(task'[t])
      PROVE  /\ Completing(task[t]) /\ ~task'[t].live /\ task[t].call \in Call
             /\ task'[t].call = task[t].call /\ task'[t].got = task[t].got
             /\ task'[t].at = task[t].at
  BY <1>3, <1>7, FreeFacts DEF Completing, IsRequest
<1>8. \A t \in Task : Completing(task'[t]) => call'[task[t].call].at = "failed"
  BY <1>2, <1>7 DEF FInv, OneCompletion
<1>9. OneCompletion'
  BY <1>7, <1>8 DEF FInv, OneCompletion
<1>10. Merging'
  BY <1>1, <1>7 DEF FInv, Merging
<1>11. Recorded'
  BY <1>1, <1>2 DEF FInv, Recorded, Finishing
<1>12. WholeFiles'
  BY <1>1 DEF FInv, WholeFiles, Active
<1>13. QED
  BY <1>5, <1>6, <1>9, <1>10, <1>11, <1>12 DEF FInv

LEMMA FaultInv ==
    ASSUME FInv, OperationFails \/ ServerDies \/ \E t \in Task : TaskDropped(t)
    PROVE  FInv'
<1>1. CASE OperationFails
  <2>1. UNCHANGED <<call, torn>>
    BY <1>1 DEF OperationFails, client
  <2>2. CASE CleanFails
    BY <2>1, <2>2, NothingMoves DEF CleanFails, tables, disk
  <2>3. ASSUME NEW t \in Task, Fails(t) PROVE FInv'
    BY <2>1, <2>3, FailsStep
  <2>4. QED
    BY <1>1, <2>2, <2>3 DEF OperationFails
<1>2. CASE ServerDies
  BY <1>2, CrashStep DEF ServerDies, client
<1>3. ASSUME NEW t \in Task, TaskDropped(t) PROVE FInv'
  BY <1>3, DropStep DEF TaskDropped, client
<1>4. QED
  BY <1>1, <1>2, <1>3

-----------------------------------------------------------------------------
(* The theorem.                                                            *)

LEMMA FileInit == Init => FInv
<1> SUFFICES ASSUME Init PROVE FInv
  OBVIOUS
<1>1. /\ DOMAIN task = Task /\ \A t \in Task : task[t] = Free
      /\ DOMAIN call = Call /\ \A c \in Call : call[c] = Idle
      /\ DOMAIN row = FileId /\ DOMAIN blob = FileId
  BY DEF Init, ServerInit
<1>2. ASSUME NEW f \in FileId
      PROVE  /\ f \in Call => row[f] = Absent
             /\ row[f] # Absent =>
                    /\ row[f] \in [sha : {row[f].sha}, deleted : BOOLEAN]
                    /\ blob[f] = Content(row[f].sha)
  <2>1. CASE f \in Call
    BY <2>1 DEF Init, ServerInit
  <2>2. CASE f \notin Call
    <3>1. row[f] = [sha |-> Stored[f], deleted |-> FALSE] /\ blob[f] = [i \in Index |-> Stored[f]]
      BY <2>2 DEF Init, ServerInit
    <3>2. QED
      BY <2>2, <3>1 DEF Content
  <2>3. QED
    BY <2>1, <2>2
<1>3. Shapes
  BY <1>1, <1>2 DEF Shapes, IsCall
<1>4. OneLive /\ OneCompletion /\ Merging
  BY <1>1, FreeFacts DEF OneLive, OneCompletion, Merging
<1>5. Recorded
  BY <1>2 DEF Recorded, FileId
<1>6. WholeFiles
  BY <1>2 DEF WholeFiles, Active
<1>7. QED
  BY <1>3, <1>4, <1>5, <1>6 DEF FInv

LEMMA FileNext == FInv /\ [Next]_vars => FInv'
<1> SUFFICES ASSUME FInv, [Next]_vars PROVE FInv'
  OBVIOUS
<1>1. CASE UNCHANGED vars
  BY <1>1, NothingMoves DEF vars
<1>2. ASSUME NEW c \in Call, UploadStep(c) \/ DownloadStep(c) \/ LocalFails(c) PROVE FInv'
  BY <1>2, UploadInv, DownloadInv, LocalFailsInv
<1>3. ASSUME NEW c \in Call, NEW t \in Task, Timeout(c, t) PROVE FInv'
  BY <1>3, TimeoutInv
<1>4. CASE Serve
  BY <1>4, ServeInv
<1>5. CASE ClientDies
  BY <1>5, ClientDiesInv
<1>6. CASE OperationFails \/ ServerDies \/ \E t \in Task : TaskDropped(t)
  BY <1>6, FaultInv
<1>7. CASE Rest
  BY <1>1, <1>7 DEF Rest
<1>8. QED
  BY <1>1, <1>2, <1>3, <1>4, <1>5, <1>6, <1>7 DEF Next

\* A file that the server lists has the content that its hash names, whatever
\* chunks were sent twice, came late or were cleaned up under a running
\* request: upload_complete compares the hash of what it has merged, and no
\* other request writes the file it merged into.  Only a crash of the server
\* before the last write has landed can leave a listed file short.
THEOREM ListedFilesAreWhole == Spec => []WholeFiles
<1>1. FInv => WholeFiles
  BY DEF FInv
<1>2. QED
  BY <1>1, FileInit, FileNext, PTL DEF Spec

-----------------------------------------------------------------------------
(* The second inductive invariant: types, what the server and a call know  *)
(* of a request, what a call leaves behind on the server, and whose the    *)
(* files of the client are.                                                *)

Initing(r) == r.at \in {"init", "mkdir", "session"}
Chunking(r) == r.at \in {"chunk", "write", "row"}
Ending(r) == Completing(r) \/ r.at = "rmdir"

Piece == Book \cup {Absent, Partial}

TaskOK(r) ==
    /\ r.at \in Working \cup Failure \cup {"ok", "stream"}
    /\ r.live \/ r.at \in Working \cup {"stream"}
    /\ Initing(r) => r.data \in Book
    /\ Chunking(r) => r.data \in Book /\ r.ix \in Index
    /\ r.at \in {"complete", "count", "merge"} => r.got \in Seq(Piece) /\ Len(r.got) <= Chunks

CallAt == {"idle", "init", "chunk", "again", "complete", "create", "get", "verify",
           "rename", "ok", "failed"}

CallRecord == [at : CallAt, book : Book \cup {Absent}, file : FileId \cup {Absent},
               ix : 0 .. Chunks, data : Book \cup {Absent}, tries : Nat, fd : Inode \cup {0}]

CallOK(r) ==
    /\ r \in CallRecord
    /\ r.at \in {"init", "chunk", "again", "complete"} => r.book \in Book
    /\ r.at \in {"chunk", "again"} => r.ix \in Index /\ r.data \in Book
    /\ r.at \in Downloading => r.file # Absent /\ r.book \in Book
    /\ r.fd # 0 <=> r.at = "get"

Written == {FileWrite(f) : f \in FileId} \cup [call : Call, ix : Index, data : Book]

CleanerOK ==
    /\ cleaner.at \in {"idle", "dir", "rows", "status"} /\ cleaner.todo \subseteq Call
    /\ cleaner.at \in {"rows", "status"} =>
          cleaner = [at |-> cleaner.at, todo |-> cleaner.todo, cur |-> cleaner.cur] /\ cleaner.cur \in Call

Listed(f) == row[f] # Absent => /\ row[f] \in [sha : Book, deleted : BOOLEAN]
                                /\ blob[f] \in Seq(Book) /\ Len(blob[f]) <= Chunks

Tables ==
    /\ session \in [Call -> [status : Status, sha : Book \cup {Absent}]]
    /\ chunkRow \in [Call -> SUBSET Index]
    /\ dir \subseteq Call
    /\ chunk \in [Call -> [Index -> Piece]]
    /\ \A f \in FileId : Listed(f)
    /\ landing \subseteq Written

Clients ==
    /\ \A c \in Call : CallOK(call[c])
    /\ \A c \in Call : call[c].at \in Downloading => row[call[c].file] # Absent
    /\ inode \in [Inode -> [Index -> Book \cup {Absent}]]
    /\ part \in Inode \cup {0} /\ dest \in Inode \cup {0}

Counts ==
    /\ slow \in BOOLEAN /\ faults \in 0 .. MaxFaults[slow]
    /\ torn \subseteq FileId

Typed == Tables /\ CleanerOK /\ Clients /\ Counts /\ \A t \in Task : task[t] # Free => TaskOK(task[t])

-----------------------------------------------------------------------------
(* What call c, its requests and its session know of each other.  No       *)
(* request of another call touches any of it.                              *)

\* Where a request may be that its call waits for.
Phase(pc) == CASE pc = "init" -> {"init", "mkdir", "session", "ok"} \cup Failure
               [] pc = "chunk" -> {"chunk", "write", "row", "ok"} \cup Failure
               [] pc = "complete" -> {"complete", "count", "merge", "rmdir", "ok"} \cup Failure
               [] pc = "get" -> {"download", "stream"} \cup Failure
               [] OTHER -> {}

RequestOK(c, t) == LET r == task[t] IN
    /\ r.live => r.at \in Phase(call[c].at)
    /\ Initing(r) => /\ call[c].at = IF r.live THEN "init" ELSE "failed"
                     /\ Under(c) = {t} /\ r.data = call[c].book
                     /\ session[c].status = "none" /\ chunkRow[c] = {} /\ row[c] = Absent
    /\ Ending(r) => /\ call[c].at = IF r.live THEN "complete" ELSE "failed"
                    /\ r.live \/ c \in unsure
                    /\ session[c].sha \in Book
    /\ r.live /\ r.at = "ok" /\ call[c].at = "init" => session[c].sha = call[c].book
    /\ r.live /\ r.at \in {"rmdir", "ok"} /\ call[c].at = "complete" =>
          row[c] # Absent /\ row[c].sha = call[c].book
    /\ r.live /\ r.at \in Failure /\ call[c].at = "complete" => row[c] = Absent \/ c \in unsure

Asked(c) == \A t \in Under(c) : RequestOK(c, t)

Knows(c) ==
    /\ call[c].at = "idle" => Under(c) = {} /\ session[c].status = "none" /\ chunkRow[c] = {}
    /\ call[c].at \in {"chunk", "again", "complete"} => session[c].sha = call[c].book

Told(c) ==
    /\ call[c].at = "ok" /\ call[c].file = Absent =>
          row[c] # Absent /\ row[c].sha = call[c].book
    /\ call[c].at = "failed" /\ c \notin unsure => row[c] = Absent

\* What is left on the server of a call of which no request was cut short.
Cleaning(c) == cleaner.at \in {"rows", "status"} /\ cleaner.cur = c
Picked(c) == c \in cleaner.todo \/ Cleaning(c) => session[c].status # "none"

Entry(c, t) == LET r == task[t] IN
    /\ r.at = "row" => c \in dir /\ chunk[c][r.ix] # Absent
    /\ Ending(r) \/ (r.live /\ r.at = "ok" /\ call[c].at = "chunk") => c \in dir
    /\ r.at = "merge" => \A i \in Index : chunk[c][i] # Absent
    /\ r.at = "rmdir" => Under(c) = {t} /\ session[c].status = "completed" /\ chunkRow[c] = {}

HasFile(c) == blob[c] # Absent \/ FileWrite(c) \in landing

Tidy(c) ==
    /\ \A t \in Under(c) : Entry(c, t)
    /\ c \in dir => session[c].status = "pending" \/ \E t \in Under(c) : task[t].at \in {"session", "rmdir"}
    /\ chunkRow[c] # {} => session[c].status = "pending"
    /\ HasFile(c) => row[c] # Absent \/ \E t \in Under(c) : task[t].at = "merge"
    /\ c \in dir => \A i \in chunkRow[c] : chunk[c][i] # Absent
    /\ Cleaning(c) => c \notin dir /\ (cleaner.at = "status" => chunkRow[c] = {})

CallInv(c) == Asked(c) /\ Knows(c) /\ Told(c) /\ Picked(c) /\ (c \notin cut => Tidy(c))

\* The client's files, as long as downloads do not overlap.
OneDownload == \A c, e \in Call : call[c].at \in Downloading /\ call[e].at \in Downloading => c = e

Verified(c) ==
    /\ call[c].fd # 0 => call[c].fd = part
    /\ call[c].at = "rename" => part # 0 /\ inode[part] = Content(call[c].book)

DestInv == ~clash =>
    /\ OneDownload
    /\ \A c \in Call : Verified(c)
    /\ part # 0 => part # dest
    /\ DestIsWhole

GInv == Typed /\ (\A c \in Call : CallInv(c)) /\ DestInv

-----------------------------------------------------------------------------
(* What a step leaves alone.                                               *)

\* What the server keeps of call e is as it was, for all that matters here.
Kept(e) ==
    /\ session'[e] = session[e] /\ chunkRow'[e] = chunkRow[e]
    /\ e \in dir' <=> e \in dir
    /\ \A i \in Index : chunk[e][i] # Absent => chunk'[e][i] # Absent
    /\ row'[e] = Absent <=> row[e] = Absent
    /\ row'[e].sha = row[e].sha

Data(e) == Kept(e) /\ (HasFile(e)' => HasFile(e))

Cleaner(e) ==
    /\ e \in cleaner'.todo \/ Cleaning(e)' => e \in cleaner.todo \/ Cleaning(e)
    /\ Cleaning(e)' => Cleaning(e) /\ cleaner'.at = cleaner.at

History == unsure \subseteq unsure' /\ cut \subseteq cut'

Requests(e) == \A u \in Task : u \in Under(e) \/ u \in Under(e)' => task'[u] = task[u]

LEMMA SameUnder ==
    ASSUME NEW e, Requests(e)
    PROVE  Under(e)' = Under(e)
  BY DEF Requests, Under

LEMMA ApartInv ==
    ASSUME NEW e \in Call, Typed, CallInv(e), Data(e), Cleaner(e), History, Requests(e), call'[e] = call[e]
    PROVE  CallInv(e)'
<1> USE DEF CallInv
<1>1. Under(e)' = Under(e) /\ \A u \in Under(e) : task'[u] = task[u]
  BY SameUnder DEF Requests, Under
<1>2. Asked(e)'
  BY <1>1 DEF Asked, RequestOK, Data, Kept, History
<1>3. Knows(e)'
  BY <1>1 DEF Knows, Data, Kept
<1>4. Told(e)'
  BY <1>1 DEF Told, Data, Kept, History
<1>5. Picked(e)'
  BY DEF Picked, Data, Kept, Cleaner
<1>6. ASSUME Tidy(e) PROVE Tidy(e)'
  <2>1. ASSUME NEW u \in Under(e)' PROVE Entry(e, u)'
    <3>1. task[u].at = "row" => task[u].ix \in Index
      BY <1>1 DEF Under, Typed, TaskOK, Chunking
    <3>2. QED
      BY <1>1, <1>6, <3>1 DEF Tidy, Entry, Data, Kept, Ending, Completing
  <2>2. /\ e \in dir' => session'[e].status = "pending" \/ \E t \in Under(e)' : task'[t].at \in {"session", "rmdir"}
        /\ chunkRow'[e] # {} => session'[e].status = "pending"
        /\ HasFile(e)' => row'[e] # Absent \/ \E t \in Under(e)' : task'[t].at = "merge"
        /\ Cleaning(e)' => e \notin dir' /\ (cleaner'.at = "status" => chunkRow'[e] = {})
    BY <1>1, <1>6 DEF Tidy, Data, Kept, Cleaner
  <2>3. e \in dir' => \A i \in chunkRow'[e] : chunk'[e][i] # Absent
    BY <1>6 DEF Tidy, Data, Kept, Typed, Tables
  <2>4. QED
    BY <2>1, <2>2, <2>3 DEF Tidy
<1>7. QED
  BY <1>2, <1>3, <1>4, <1>5, <1>6 DEF History

-----------------------------------------------------------------------------
(* A request takes a turn: it goes on for the same call, or ends.          *)

Turns(t, q) ==
    /\ t \in Task /\ task[t] # Free
    /\ task' = [task EXCEPT ![t] = q]
    /\ q = Free \/ (IsRequest(q) /\ q.call = task[t].call /\ q.live = task[t].live)

LEMMA TurnFacts ==
    ASSUME FInv, NEW t, NEW q, Turns(t, q), NEW c, c = task[t].call
    PROVE  /\ c \in Call /\ t \in Under(c) /\ IsRequest(task[t])
           /\ task'[t] = q /\ \A u \in Task : u # t => task'[u] = task[u]
           /\ \A e \in Call : e # c => Requests(e)
           /\ Under(c)' = IF q = Free THEN Under(c) \ {t} ELSE Under(c)
<1>1. c \in Call /\ t \in Under(c) /\ IsRequest(task[t])
  BY DEF FInv, Shapes, Turns, Under, IsRequest
<1>2. task'[t] = q /\ \A u \in Task : u # t => task'[u] = task[u]
  BY DEF FInv, Shapes, Turns
<1>3. \A e \in Call : e # c => Requests(e)
  BY <1>2 DEF Requests, Under, Turns
<1>4. Under(c)' = IF q = Free THEN Under(c) \ {t} ELSE Under(c)
  BY <1>1, <1>2 DEF Under, Turns
<1>5. QED
  BY <1>1, <1>2, <1>3, <1>4

\* It goes on at pc with all it has.
SameAt(q, r, pc) ==
    /\ q # Free /\ q.at = pc /\ q.live = r.live
    /\ q.ix = r.ix /\ q.data = r.data /\ q.got = r.got

LEMMA StepTurns ==
    ASSUME FInv, NEW t \in Task, task[t] # Free, NEW pc, pc # "free", Step(t, pc)
    PROVE  \E q : Turns(t, q) /\ SameAt(q, task[t], pc)
<1> DEFINE q == [task[t] EXCEPT !.at = pc]
<1>1. IsRequest(task[t])
  BY DEF FInv, Shapes
<1>2. /\ IsRequest(q) /\ q.at = pc /\ q.call = task[t].call /\ q.live = task[t].live
      /\ q.ix = task[t].ix /\ q.data = task[t].data /\ q.got = task[t].got
  BY <1>1 DEF IsRequest
<1>3. task' = [task EXCEPT ![t] = q]
  BY DEF Step
<1> HIDE DEF q
<1>4. Turns(t, q) /\ SameAt(q, task[t], pc)
  BY <1>2, <1>3, FreeFacts DEF Turns, SameAt
<1>5. QED
  BY <1>4

\* It ends, or leaves answer a to the call that waits for it.
LEMMA AnswerTurns ==
    ASSUME FInv, NEW t \in Task, task[t] # Free, NEW a, a # "free", Answer(t, a)
    PROVE  \E q : /\ Turns(t, q)
                  /\ IF task[t].live THEN SameAt(q, task[t], a) ELSE q = Free
<1>1. CASE task[t].live
  <2>1. Step(t, a)
    BY <1>1 DEF Answer, Step
  <2>2. QED
    BY <1>1, <2>1, StepTurns
<1>2. CASE ~task[t].live
  <2>1. task' = [task EXCEPT ![t] = Free]
    BY <1>2 DEF Answer
  <2>2. QED
    BY <1>2, <2>1 DEF Turns
<1>3. QED
  BY <1>1, <1>2

\* What the step of one request leaves the other requests of its call and the
\* call itself.
LEMMA OthersAsked ==
    ASSUME FInv, NEW t, NEW q, Turns(t, q), NEW c, c = task[t].call, CallInv(c),
           call'[c] = call[c], unsure \subseteq unsure',
           session'[c].sha = session[c].sha \/ Initing(task[t]),
           \/ (row'[c] = Absent <=> row[c] = Absent) /\ row'[c].sha = row[c].sha
           \/ Completing(task[t])
    PROVE  /\ \A u \in Under(c)' : u # t => RequestOK(c, u)'
           /\ Knows(c)' /\ Told(c)'
<1>1. /\ c \in Call /\ t \in Under(c) /\ IsRequest(task[t])
      /\ task'[t] = q /\ \A u \in Task : u # t => task'[u] = task[u]
      /\ Under(c)' \subseteq Under(c)
  BY TurnFacts
<1>2. RequestOK(c, t)
  BY <1>1 DEF CallInv, Asked
<1>3. ASSUME NEW u \in Under(c)', u # t PROVE RequestOK(c, u)'
  <2>1. RequestOK(c, u) /\ task'[u] = task[u] /\ u \in Task /\ task[u].call = c /\ task[u] # Free
    BY <1>1, <1>3 DEF CallInv, Asked, Under
  <2>2. ~Initing(task[u]) /\ ~Initing(task[t])
    BY <1>1, <1>2, <1>3, <2>1 DEF RequestOK
  <2>3. session'[c].sha = session[c].sha
    BY <2>2
  <2>4. CASE Completing(task[t])
    <3>1. row[c] = Absent /\ call[c].at = IF task[t].live THEN "complete" ELSE "failed"
      BY <1>1, <2>4 DEF FInv, Merging, OneCompletion, Under
    <3>2. task[t].live => ~task[u].live
      BY <1>1, <1>3, <2>1 DEF FInv, OneLive, Live, Under
    <3>3. ~(task[u].live /\ call[c].at = "complete")
      BY <3>1, <3>2
    <3>4. QED
      BY <2>1, <2>2, <2>3, <3>3 DEF RequestOK
  <2>5. CASE ~Completing(task[t])
    BY <2>1, <2>2, <2>3, <2>5 DEF RequestOK
  <2>6. QED
    BY <2>4, <2>5
<1>4. Knows(c)'
  BY <1>1, <1>2 DEF CallInv, Knows, RequestOK
<1>5. Told(c)'
  <2>1. CASE Completing(task[t])
    BY <1>1, <1>2, <2>1 DEF CallInv, Told, RequestOK, Ending
  <2>2. CASE ~Completing(task[t])
    BY <2>2 DEF CallInv, Told
  <2>3. QED
    BY <2>1, <2>2
<1>6. QED
  BY <1>3, <1>4, <1>5

LEMMA OthersEntry ==
    ASSUME Typed, FInv, NEW t, NEW q, Turns(t, q), NEW c, c = task[t].call, Tidy(c),
           call'[c] = call[c], c \in dir => c \in dir',
           \A i \in Index : chunk[c][i] # Absent => chunk'[c][i] # Absent
    PROVE  \A u \in Under(c)' : u # t => Entry(c, u)'
<1> SUFFICES ASSUME NEW u \in Under(c)', u # t PROVE Entry(c, u)'
  OBVIOUS
<1>1. /\ t \in Under(c) /\ u \in Under(c) /\ task'[u] = task[u]
  BY TurnFacts DEF Under
<1>2. Entry(c, u) /\ task[u].at # "rmdir"
  BY <1>1 DEF Tidy, Entry
<1>3. task[u].at = "row" => task[u].ix \in Index
  BY <1>1 DEF Under, Typed, TaskOK, Chunking
<1>4. QED
  BY <1>1, <1>2, <1>3 DEF Entry, Ending

\* A step that matters to its own request only, which does not leave a place
\* that others count on.
LEMMA QuietInv ==
    ASSUME Typed, FInv, NEW t, NEW q, Turns(t, q), NEW c, c = task[t].call, CallInv(c),
           call'[c] = call[c], History, Kept(c), Cleaner(c),
           (HasFile(c)' => HasFile(c)) \/ (q # Free /\ q.at = "merge"),
           q # Free => RequestOK(c, t)' /\ (c \notin cut => Entry(c, t)'),
           task[t].at \notin {"session", "rmdir"},
           task[t].at = "merge" => c \in cut' \/ (q # Free /\ q.at = "merge")
    PROVE  CallInv(c)'
<1>1. /\ t \in Under(c) /\ task'[t] = q /\ \A u \in Task : u # t => task'[u] = task[u]
      /\ Under(c)' = IF q = Free THEN Under(c) \ {t} ELSE Under(c)
  BY TurnFacts
<1>2. /\ \A u \in Under(c)' : u # t => RequestOK(c, u)'
      /\ Knows(c)' /\ Told(c)'
  BY OthersAsked DEF Kept, History
<1>3. Asked(c)'
  BY <1>1, <1>2 DEF Asked
<1>4. Picked(c)'
  BY DEF CallInv, Picked, Kept, Cleaner
<1>5. ASSUME c \notin cut' PROVE Tidy(c)'
  <2>1. Tidy(c) /\ c \notin cut
    BY <1>5 DEF CallInv, History
  <2>2. \A u \in Under(c)' : Entry(c, u)'
    BY <1>1, <2>1, OthersEntry DEF Kept
  <2>3. c \in dir' => session'[c].status = "pending" \/ \E u \in Under(c)' : task'[u].at \in {"session", "rmdir"}
    BY <1>1, <2>1 DEF Tidy, Kept, Under
  <2>4. HasFile(c)' => row'[c] # Absent \/ \E u \in Under(c)' : task'[u].at = "merge"
    <3>1. CASE task[t].at = "merge" \/ (q # Free /\ q.at = "merge")
      BY <1>1, <1>5, <3>1
    <3>2. CASE task[t].at # "merge" /\ ~(q # Free /\ q.at = "merge")
      BY <1>1, <2>1, <3>2 DEF Tidy, Kept, Under
    <3>3. QED
      BY <3>1, <3>2
  <2>5. /\ chunkRow'[c] # {} => session'[c].status = "pending"
        /\ Cleaning(c)' => c \notin dir' /\ (cleaner'.at = "status" => chunkRow'[c] = {})
    BY <2>1 DEF Tidy, Kept, Cleaner
  <2>6. c \in dir' => \A i \in chunkRow'[c] : chunk'[c][i] # Absent
    BY <1>1, <2>1, TurnFacts DEF Tidy, Kept, Typed, Tables
  <2>7. QED
    BY <2>2, <2>3, <2>4, <2>5, <2>6 DEF Tidy
<1>6. QED
  BY <1>2, <1>3, <1>4, <1>5 DEF CallInv

\* The step of one request leaves every other call as it is.
LEMMA OneCallInv ==
    ASSUME Typed, FInv, \A e \in Call : CallInv(e), NEW t, NEW q, Turns(t, q),
           NEW c, c = task[t].call, History,
           \A e \in Call : e # c => Data(e) /\ Cleaner(e) /\ call'[e] = call[e],
           CallInv(c)'
    PROVE  \A e \in Call : CallInv(e)'
  BY TurnFacts, ApartInv

-----------------------------------------------------------------------------
(* The requests' steps, for the calls.                                     *)

\* All but what the client knows of its own files.
JInv == Typed /\ FInv /\ \A e \in Call : CallInv(e)

LEMMA Unchanging ==
    ASSUME UNCHANGED <<session, chunkRow, row, dir, blob, landing, cleaner>>, NEW e,
           \A i \in Index : chunk[e][i] # Absent => chunk'[e][i] # Absent
    PROVE  Data(e) /\ Cleaner(e)
  BY DEF Data, Kept, Cleaner, HasFile, Cleaning

\* One request goes on, and the tables and the disk stay.
LEMMA QuietTurn ==
    ASSUME JInv, UNCHANGED <<tables, disk, cleaner, call, unsure>>, cut \subseteq cut',
           NEW t, NEW q, Turns(t, q), NEW c, c = task[t].call,
           q # Free => RequestOK(c, t)' /\ (c \notin cut => Entry(c, t)'),
           task[t].at \notin {"session", "rmdir"},
           task[t].at = "merge" => c \in cut' \/ (q # Free /\ q.at = "merge")
    PROVE  \A e \in Call : CallInv(e)'
<1>1. c \in Call
  BY TurnFacts DEF JInv
<1>2. History /\ \A e \in Call : Data(e) /\ Cleaner(e) /\ call'[e] = call[e]
  BY Unchanging DEF tables, disk, History
<1>3. CallInv(c)'
  BY <1>1, <1>2, QuietInv DEF JInv, Data
<1>4. QED
  BY <1>2, <1>3, OneCallInv DEF JInv

\* What the invariants say of a request that is at work.
LEMMA TaskFacts ==
    ASSUME JInv, NEW t \in Task, task[t] # Free, NEW c, c = task[t].call
    PROVE  /\ c \in Call /\ t \in Under(c) /\ IsRequest(task[t]) /\ TaskOK(task[t])
           /\ CallInv(c) /\ RequestOK(c, t) /\ (c \notin cut => Tidy(c) /\ Entry(c, t))
           /\ Completing(task[t]) => row[c] = Absent
<1>1. c \in Call /\ t \in Under(c) /\ IsRequest(task[t]) /\ TaskOK(task[t])
  BY DEF JInv, FInv, Shapes, Under, IsRequest, Typed
<1>2. Completing(task[t]) => row[c] = Absent
  BY DEF JInv, FInv, Merging
<1>3. QED
  BY <1>1, <1>2 DEF JInv, CallInv, Asked, Tidy

\* Where a request may be while its call is at pc.
LEMMA PhaseFacts ==
    /\ Phase("init") = {"init", "mkdir", "session", "ok"} \cup Failure
    /\ Phase("chunk") = {"chunk", "write", "row", "ok"} \cup Failure
    /\ Phase("complete") = {"complete", "count", "merge", "rmdir", "ok"} \cup Failure
    /\ Phase("get") = {"download", "stream"} \cup Failure
    /\ \A pc : pc \notin {"init", "chunk", "complete", "get"} => Phase(pc) = {}
  BY DEF Phase

\* A request goes on with what it has.
GoesOn(c, r, q) ==
    /\ q.live => q.at \in Phase(call[c].at)
    /\ Initing(q) => Initing(r)
    /\ Ending(q) => Ending(r)
    /\ q.live /\ q.at = "ok" /\ call[c].at = "init" => session[c].sha = call[c].book
    /\ q.live /\ q.at \in {"rmdir", "ok"} /\ call[c].at = "complete" =>
          row[c] # Absent /\ row[c].sha = call[c].book
    /\ q.live /\ q.at \in Failure /\ call[c].at = "complete" => row[c] = Absent \/ c \in unsure

LEMMA AskedOn ==
    ASSUME FInv, NEW t, NEW q, Turns(t, q), NEW c, c = task[t].call, RequestOK(c, t),
           q # Free, q.data = task[t].data, GoesOn(c, task[t], q),
           call'[c] = call[c], unsure' = unsure, session'[c] = session[c],
           chunkRow'[c] = chunkRow[c], row'[c] = row[c]
    PROVE  RequestOK(c, t)'
<1>1. task'[t] = q /\ q.live = task[t].live /\ Under(c)' = Under(c)
  BY TurnFacts DEF Turns
<1>2. QED
  BY <1>1 DEF RequestOK, GoesOn

Enters(c, q) ==
    /\ q.at # "rmdir"
    /\ q.at = "row" => c \in dir' /\ chunk'[c][q.ix] # Absent
    /\ Ending(q) \/ (q.live /\ q.at = "ok" /\ call[c].at = "chunk") => c \in dir'
    /\ q.at = "merge" => \A i \in Index : chunk'[c][i] # Absent

LEMMA EntryOn ==
    ASSUME FInv, NEW t, NEW q, Turns(t, q), NEW c, c = task[t].call, Enters(c, q), call'[c] = call[c]
    PROVE  Entry(c, t)'
  BY TurnFacts DEF Entry, Enters

LEMMA QuietStep ==
    ASSUME JInv, UNCHANGED <<tables, disk, cleaner, call, unsure>>, cut \subseteq cut',
           NEW t, NEW q, Turns(t, q), NEW c, c = task[t].call,
           q # Free => /\ q.data = task[t].data /\ GoesOn(c, task[t], q)
                       /\ c \notin cut => Enters(c, q),
           task[t].at \notin {"session", "rmdir"},
           task[t].at = "merge" => c \in cut \/ (q # Free /\ q.at = "merge")
    PROVE  \A e \in Call : CallInv(e)'
<1>1. c \in Call /\ RequestOK(c, t) /\ FInv
  BY TaskFacts DEF Turns, JInv
<1>2. q # Free => RequestOK(c, t)'
  BY <1>1, AskedOn DEF tables
<1>3. q # Free /\ c \notin cut => Entry(c, t)'
  BY <1>1, EntryOn
<1>4. QED
  BY <1>2, <1>3, QuietTurn

\* An answer, if somebody waits for it.
LEMMA QuietAnswers ==
    ASSUME JInv, UNCHANGED <<tables, disk, cleaner, call, unsure>>, cut \subseteq cut',
           NEW t \in Task, NEW a \in Failure, Answer(t, a), NEW c, c = task[t].call,
           task[t] # Free, task[t].at \in Working \ {"session", "rmdir"},
           task[t].at = "merge" => c \in cut
    PROVE  \A e \in Call : CallInv(e)'
<1>1. PICK q : Turns(t, q) /\ IF task[t].live THEN SameAt(q, task[t], a) ELSE q = Free
  BY AnswerTurns DEF JInv, Failure
<1>2. RequestOK(c, t) /\ (Completing(task[t]) => row[c] = Absent)
  BY TaskFacts
<1>3. ASSUME q # Free PROVE GoesOn(c, task[t], q) /\ Enters(c, q) /\ q.data = task[t].data
  <2>1. task[t].live /\ q.live /\ q.at = a /\ q.data = task[t].data /\ task[t].at \in Phase(call[c].at)
    BY <1>1, <1>2, <1>3 DEF SameAt, RequestOK
  <2>2. a \in Phase(call[c].at)
    BY <2>1, PhaseFacts
  <2>3. call[c].at = "complete" => Completing(task[t])
    BY <2>1, PhaseFacts DEF Working, Completing, Failure
  <2>4. QED
    BY <1>2, <2>1, <2>2, <2>3 DEF GoesOn, Enters, Initing, Ending, Completing, Failure
<1>4. QED
  BY <1>1, <1>3, QuietStep DEF Working

\* A step that only moves the request.
LEMMA QuietMoves ==
    ASSUME JInv, UNCHANGED <<tables, disk, cleaner, call, unsure>>, cut \subseteq cut',
           NEW t \in Task, NEW pc, Step(t, pc), NEW c, c = task[t].call,
           <<task[t].at, pc>> \in {<<"init", "mkdir">>, <<"chunk", "write">>, <<"complete", "count">>,
                                   <<"download", "stream">>}
    PROVE  \A e \in Call : CallInv(e)'
<1>1. task[t] # Free /\ task[t].at \in {"init", "chunk", "complete", "download"}
  BY DEF Free
<1>2. PICK q : Turns(t, q) /\ SameAt(q, task[t], pc)
  BY <1>1, StepTurns DEF JInv
<1>3. RequestOK(c, t) /\ (c \notin cut => Entry(c, t))
  BY <1>1, TaskFacts
<1>4. GoesOn(c, task[t], q)
  <2>1. q.live => q.at \in Phase(call[c].at)
    <3>1. q.live => task[t].at \in Phase(call[c].at)
      BY <1>2, <1>3 DEF SameAt, RequestOK
    <3>2. QED
      BY <1>1, <1>2, <3>1, PhaseFacts DEF SameAt, Failure
  <2>2. QED
    BY <1>2, <2>1 DEF GoesOn, Initing, Ending, Completing, SameAt, Failure
<1>5. c \notin cut => Enters(c, q)
  BY <1>1, <1>2, <1>3 DEF Enters, Entry, Ending, Completing, SameAt, disk
<1>6. QED
  BY <1>1, <1>2, <1>4, <1>5, QuietStep DEF SameAt

LEMMA ChecksCalls ==
    ASSUME JInv, UNCHANGED <<call, unsure>>, cut \subseteq cut', NEW t \in Task,
           InitCheck(t) \/ ChunkCheck(t) \/ CompleteCheck(t) \/ DownloadOpen(t)
    PROVE  \A e \in Call : CallInv(e)'
<1>1. UNCHANGED <<tables, disk, cleaner>>
  BY DEF InitCheck, ChunkCheck, CompleteCheck, DownloadOpen
<1>2. task[t].at \in {"init", "chunk", "complete", "download"} /\ task[t] # Free
  <2>1. task[t].at \in {"init", "chunk", "complete", "download"}
    BY DEF InitCheck, ChunkCheck, CompleteCheck, DownloadOpen, At
  <2>2. QED
    BY <2>1 DEF Free
<1>3. \/ \E a \in {"conflict", "not found"} : Answer(t, a)
      \/ \E pc : Step(t, pc) /\ <<task[t].at, pc>> \in {<<"init", "mkdir">>, <<"chunk", "write">>,
                                                        <<"complete", "count">>, <<"download", "stream">>}
  BY DEF InitCheck, ChunkCheck, CompleteCheck, DownloadOpen, At
<1>4. ASSUME NEW a \in {"conflict", "not found"}, Answer(t, a) PROVE \A e \in Call : CallInv(e)'
  BY <1>1, <1>2, <1>4, QuietAnswers DEF Failure, Working
<1>5. QED
  BY <1>1, <1>2, <1>3, <1>4, QuietMoves

LEMMA InitDirCalls ==
    ASSUME JInv, UNCHANGED <<call, unsure>>, cut \subseteq cut', NEW t \in Task, InitDir(t),
           NEW c, c = task[t].call
    PROVE  \A e \in Call : CallInv(e)'
<1>1. task[t].at = "mkdir" /\ task[t] # Free
  BY DEF InitDir, At, Free
<1>2. /\ FInv /\ Typed /\ \A e \in Call : CallInv(e)
      /\ c \in Call /\ t \in Under(c) /\ CallInv(c) /\ RequestOK(c, t) /\ (c \notin cut => Tidy(c))
  BY <1>1, TaskFacts DEF JInv
<1>3. PICK q : Turns(t, q) /\ SameAt(q, task[t], "session")
  BY <1>1, <1>2, StepTurns DEF InitDir
<1>4. /\ UNCHANGED <<session, chunkRow, row, chunk, blob, landing, cleaner>> /\ History
      /\ dir' = dir \cup {c}
  BY DEF InitDir, tables, History
<1>5. \A e \in Call : e # c => Data(e) /\ Cleaner(e) /\ call'[e] = call[e]
  BY <1>4 DEF Data, Kept, Cleaner, HasFile, Cleaning
<1>6. /\ task'[t] = q /\ Under(c)' = {t} /\ Under(c) = {t}
      /\ session[c].status = "none" /\ chunkRow[c] = {} /\ row[c] = Absent
      /\ call[c].at = IF task[t].live THEN "init" ELSE "failed"
  BY <1>1, <1>2, <1>3, TurnFacts DEF RequestOK, Initing, SameAt
<1>7. Asked(c)'
  <2>1. GoesOn(c, task[t], q) /\ q.data = task[t].data
    BY <1>1, <1>3, <1>6, PhaseFacts DEF GoesOn, Initing, Ending, Completing, SameAt, Failure
  <2>2. RequestOK(c, t)'
    BY <1>2, <1>3, <1>4, <2>1, AskedOn DEF SameAt
  <2>3. QED
    BY <1>6, <2>2 DEF Asked
<1>8. Knows(c)' /\ Told(c)'
  BY <1>2, <1>3, <1>4, OthersAsked DEF History
<1>9. Picked(c)'
  BY <1>2, <1>4 DEF CallInv, Picked, Cleaning
<1>10. ASSUME c \notin cut PROVE Tidy(c)'
  <2>1. Entry(c, t)'
    BY <1>2, <1>3, <1>6 DEF Entry, Ending, Completing, SameAt
  <2>2. task[t].at # "merge" /\ ~Cleaning(c) /\ q.at = "session"
    BY <1>1, <1>2, <1>3, <1>6 DEF CallInv, Picked, SameAt
  <2>3. QED
    BY <1>2, <1>4, <1>6, <1>10, <2>1, <2>2 DEF Tidy, HasFile, Cleaning
<1>11. CallInv(c)'
  BY <1>4, <1>7, <1>8, <1>9, <1>10 DEF CallInv, History
<1>12. QED
  BY <1>2, <1>3, <1>4, <1>5, <1>11, OneCallInv

LEMMA InitSessionCalls ==
    ASSUME JInv, UNCHANGED <<call, unsure>>, cut \subseteq cut', NEW t \in Task, InitSession(t),
           NEW c, c = task[t].call
    PROVE  \A e \in Call : CallInv(e)'
<1>1. task[t].at = "session" /\ task[t] # Free
  BY DEF InitSession, At, Free
<1>2. /\ FInv /\ Typed /\ \A e \in Call : CallInv(e)
      /\ c \in Call /\ t \in Under(c) /\ CallInv(c) /\ RequestOK(c, t) /\ (c \notin cut => Tidy(c))
  BY <1>1, TaskFacts DEF JInv
<1>3. PICK q : Turns(t, q) /\ IF task[t].live THEN SameAt(q, task[t], "ok") ELSE q = Free
  BY <1>1, <1>2, AnswerTurns DEF InitSession
<1>4. /\ UNCHANGED <<chunkRow, row, dir, chunk, blob, landing, cleaner>> /\ History
      /\ session'[c] = [status |-> "pending", sha |-> task[t].data]
      /\ \A e \in Call : e # c => session'[e] = session[e]
  BY <1>2 DEF InitSession, disk, History, Typed, Tables
<1>5. \A e \in Call : e # c => Data(e) /\ Cleaner(e) /\ call'[e] = call[e]
  BY <1>4 DEF Data, Kept, Cleaner, HasFile, Cleaning
<1>6. /\ task'[t] = q /\ Under(c)' = (IF q = Free THEN {} ELSE {t}) /\ Under(c) = {t}
      /\ session[c].status = "none" /\ chunkRow[c] = {} /\ row[c] = Absent
      /\ task[t].data = call[c].book
      /\ call[c].at = IF task[t].live THEN "init" ELSE "failed"
  <2>1. Initing(task[t])
    BY <1>1 DEF Initing
  <2>2. /\ Under(c) = {t} /\ session[c].status = "none" /\ chunkRow[c] = {} /\ row[c] = Absent
        /\ task[t].data = call[c].book
        /\ call[c].at = IF task[t].live THEN "init" ELSE "failed"
    BY <1>2, <2>1 DEF RequestOK
  <2>3. task'[t] = q /\ Under(c)' = IF q = Free THEN Under(c) \ {t} ELSE Under(c)
    BY <1>2, <1>3, TurnFacts
  <2>4. QED
    BY <2>2, <2>3
<1>7. session'[c].status = "pending" /\ session'[c].sha = call[c].book
  BY <1>4, <1>6
<1>8. Asked(c)'
  <2>1. ASSUME q # Free PROVE RequestOK(c, t)'
    <3>1. task[t].live /\ q.live /\ q.at = "ok" /\ call[c].at = "init"
      BY <1>3, <1>6, <2>1 DEF SameAt
    <3>2. QED
      BY <1>6, <1>7, <3>1, PhaseFacts DEF RequestOK, Initing, Ending, Completing, Failure
  <2>2. QED
    BY <1>6, <2>1 DEF Asked
<1>9. Knows(c)' /\ Told(c)'
  BY <1>1, <1>2, <1>3, <1>4, OthersAsked DEF History, Initing
<1>10. Picked(c)'
  BY <1>7 DEF Picked
<1>11. ASSUME c \notin cut PROVE Tidy(c)'
  <2>1. q # Free => Entry(c, t)'
    <3>1. SUFFICES ASSUME q # Free PROVE Entry(c, t)'
      OBVIOUS
    <3>2. q.at = "ok" /\ call[c].at = "init"
      BY <1>3, <1>6, <3>1 DEF SameAt
    <3>3. QED
      BY <1>6, <3>2 DEF Entry, Ending, Completing
  <2>2. task[t].at # "merge" /\ ~Cleaning(c)
    BY <1>1, <1>2, <1>6 DEF CallInv, Picked
  <2>3. QED
    BY <1>2, <1>4, <1>6, <1>7, <1>11, <2>1, <2>2 DEF Tidy, HasFile, Cleaning
<1>12. CallInv(c)'
  BY <1>4, <1>8, <1>9, <1>10, <1>11 DEF CallInv, History
<1>13. QED
  BY <1>2, <1>3, <1>4, <1>5, <1>12, OneCallInv

LEMMA ChunkWriteCalls ==
    ASSUME JInv, UNCHANGED <<call, unsure>>, cut \subseteq cut', NEW t \in Task, ChunkWrite(t),
           NEW c, c = task[t].call
    PROVE  \A e \in Call : CallInv(e)'
<1>1. task[t].at = "write" /\ task[t] # Free
  BY DEF ChunkWrite, At, Free
<1>2. /\ FInv /\ Typed /\ \A e \in Call : CallInv(e)
      /\ c \in Call /\ CallInv(c) /\ RequestOK(c, t) /\ TaskOK(task[t])
  BY <1>1, TaskFacts DEF JInv
<1>3. CASE c \notin dir
  <2>1. Answer(t, "error") /\ UNCHANGED <<tables, disk, cleaner>>
    BY <1>3 DEF ChunkWrite, disk
  <2>2. QED
    BY <1>1, <2>1, QuietAnswers DEF Failure, Working
<1>4. CASE c \in dir
  <2> DEFINE i == task[t].ix
             w == [call |-> c, ix |-> i, data |-> task[t].data]
  <2>1. PICK q : Turns(t, q) /\ SameAt(q, task[t], "row")
    BY <1>1, <1>2, <1>4, StepTurns DEF ChunkWrite
  <2>2. /\ UNCHANGED <<session, chunkRow, row, dir, blob, cleaner>> /\ History
        /\ chunk' = [chunk EXCEPT ![c][i] = Partial] /\ landing' = landing \cup {w}
    BY <1>4 DEF ChunkWrite, tables, History
  <2>3. i \in Index /\ i # 0
    BY <1>1, <1>2, FileServerAssumption DEF TaskOK, Chunking, Index
  <2>4. \A e \in Call : \A j \in Index : chunk[e][j] # Absent => chunk'[e][j] # Absent
    BY <1>2, <2>2, <2>3, FileServerAssumption DEF Typed, Tables, Partial
  <2>5. chunk'[c][i] # Absent
    BY <1>2, <2>2, <2>3, FileServerAssumption DEF Typed, Tables, Partial
  <2>6. \A e : HasFile(e)' => HasFile(e)
    BY <2>2, <2>3 DEF HasFile, FileWrite
  <2>7. \A e \in Call : Data(e) /\ Cleaner(e) /\ call'[e] = call[e]
    BY <2>2, <2>4, <2>6 DEF Data, Kept, Cleaner, Cleaning
  <2>8. GoesOn(c, task[t], q)
    <3>1. q.live => q.at \in Phase(call[c].at)
      <4>1. q.live => task[t].at \in Phase(call[c].at)
        BY <1>2, <2>1 DEF SameAt, RequestOK
      <4>2. QED
        BY <1>1, <2>1, <4>1, PhaseFacts DEF SameAt, Failure
    <3>2. QED
      BY <1>1, <2>1, <3>1 DEF GoesOn, Initing, Ending, Completing, SameAt, Failure
  <2>9. RequestOK(c, t)'
    BY <1>2, <2>1, <2>2, <2>8, AskedOn DEF SameAt
  <2>10. Entry(c, t)'
    <3>1. Enters(c, q)
      BY <1>4, <2>1, <2>2, <2>5 DEF Enters, Ending, Completing, SameAt
    <3>2. QED
      BY <1>2, <2>1, <3>1, EntryOn
  <2>11. CallInv(c)'
    BY <1>1, <1>2, <2>1, <2>2, <2>7, <2>9, <2>10, QuietInv DEF Data
  <2>12. QED
    BY <1>2, <2>1, <2>2, <2>7, <2>11, OneCallInv
<1>5. QED
  BY <1>3, <1>4

LEMMA ChunkRowCalls ==
    ASSUME JInv, UNCHANGED <<call, unsure>>, cut \subseteq cut', NEW t \in Task, ChunkRow(t),
           NEW c, c = task[t].call
    PROVE  \A e \in Call : CallInv(e)'
<1>1. task[t].at = "row" /\ task[t] # Free
  BY DEF ChunkRow, At, Free
<1>2. /\ FInv /\ Typed /\ \A e \in Call : CallInv(e)
      /\ c \in Call /\ t \in Under(c) /\ CallInv(c) /\ RequestOK(c, t) /\ TaskOK(task[t])
      /\ c \notin cut => Tidy(c) /\ Entry(c, t)
  BY <1>1, TaskFacts DEF JInv
<1>3. PICK q : Turns(t, q) /\ IF task[t].live THEN SameAt(q, task[t], "ok") ELSE q = Free
  BY <1>1, <1>2, AnswerTurns DEF ChunkRow
<1>4. /\ UNCHANGED <<session, row, dir, chunk, blob, landing, cleaner>> /\ History
      /\ chunkRow'[c] = chunkRow[c] \cup {task[t].ix}
      /\ \A e \in Call : e # c => chunkRow'[e] = chunkRow[e]
  BY <1>2 DEF ChunkRow, disk, History, Typed, Tables
<1>5. \A e \in Call : e # c => Data(e) /\ Cleaner(e) /\ call'[e] = call[e]
  BY <1>4 DEF Data, Kept, Cleaner, HasFile, Cleaning
<1>6. /\ task'[t] = q /\ \A u \in Task : u # t => task'[u] = task[u]
      /\ Under(c)' = IF q = Free THEN Under(c) \ {t} ELSE Under(c)
  BY <1>2, <1>3, TurnFacts
<1>7. \A u \in Under(c) : ~Initing(task[u])
  BY <1>1, <1>2 DEF CallInv, Asked, RequestOK, Initing
<1>8. ASSUME q # Free PROVE RequestOK(c, t)'
  <2>1. q.live /\ q.at = "ok" /\ task[t].at \in Phase(call[c].at)
    BY <1>2, <1>3, <1>8 DEF SameAt, RequestOK
  <2>2. call[c].at = "chunk"
    BY <1>1, <2>1, PhaseFacts DEF Failure
  <2>3. QED
    BY <1>6, <2>1, <2>2, PhaseFacts DEF RequestOK, Initing, Ending, Completing, Failure
<1>9. \A u \in Under(c)' : u # t => RequestOK(c, u)'
  BY <1>2, <1>3, <1>4, OthersAsked DEF History
<1>10. Knows(c)' /\ Told(c)'
  BY <1>2, <1>3, <1>4, OthersAsked DEF History
<1>11. Asked(c)'
  BY <1>6, <1>8, <1>9 DEF Asked
<1>12. Picked(c)'
  BY <1>2, <1>4 DEF CallInv, Picked, Cleaning
<1>13. ASSUME c \notin cut PROVE Tidy(c)'
  <2>1. c \in dir /\ chunk[c][task[t].ix] # Absent /\ ~Cleaning(c)
    BY <1>1, <1>2, <1>13 DEF Entry, Tidy
  <2>2. \A u \in Under(c) : task[u].at \notin {"session", "rmdir"}
    BY <1>1, <1>2, <1>7, <1>13 DEF Tidy, Entry, Initing
  <2>3. session[c].status = "pending"
    BY <1>2, <1>13, <2>1, <2>2 DEF Tidy
  <2>4. \A u \in Under(c)' : Entry(c, u)'
    <3>1. \A u \in Under(c)' : u # t => Entry(c, u)'
      BY <1>2, <1>3, <1>4, <1>13, OthersEntry
    <3>2. ASSUME q # Free PROVE Entry(c, t)'
      <4>1. q.at = "ok"
        BY <1>3, <3>2 DEF SameAt
      <4>2. QED
        BY <1>4, <1>6, <2>1, <4>1 DEF Entry, Ending, Completing
    <3>3. QED
      BY <1>6, <3>1, <3>2
  <2>5. HasFile(c)' => row'[c] # Absent \/ \E u \in Under(c)' : task'[u].at = "merge"
    BY <1>1, <1>2, <1>4, <1>6, <1>13 DEF Tidy, HasFile, Under
  <2>6. \A i \in chunkRow'[c] : chunk'[c][i] # Absent
    BY <1>2, <1>4, <1>13, <2>1 DEF Tidy
  <2>7. QED
    BY <1>4, <2>1, <2>3, <2>4, <2>5, <2>6 DEF Tidy, Cleaning
<1>14. CallInv(c)'
  BY <1>4, <1>10, <1>11, <1>12, <1>13 DEF CallInv, History
<1>15. QED
  BY <1>2, <1>3, <1>4, <1>5, <1>14, OneCallInv

\* As many rows as chunks: all of them.
LEMMA AllRows ==
    ASSUME Typed, NEW c \in Call, Cardinality(chunkRow[c]) = Chunks
    PROVE  chunkRow[c] = Index
<1>1. IsFiniteSet(Index) /\ Cardinality(Index) = Chunks
  BY FS_Interval, FileServerAssumption DEF Index
<1>2. chunkRow[c] \in SUBSET Index
  BY DEF Typed, Tables
<1>3. QED
  BY <1>1, <1>2, FS_Subset

LEMMA CompleteCountCalls ==
    ASSUME JInv, UNCHANGED <<call, unsure>>, cut \subseteq cut', NEW t \in Task, CompleteCount(t),
           NEW c, c = task[t].call
    PROVE  \A e \in Call : CallInv(e)'
<1>1. task[t].at = "count" /\ task[t] # Free
  <2>1. task[t].at = "count"
    BY DEF CompleteCount, At
  <2>2. QED
    BY <2>1 DEF Free
<1>2. /\ FInv /\ Typed /\ \A e \in Call : CallInv(e)
      /\ c \in Call /\ CallInv(c) /\ RequestOK(c, t)
      /\ c \notin cut => Tidy(c) /\ Entry(c, t)
  BY <1>1, TaskFacts DEF JInv
<1>3. CASE Cardinality(chunkRow[c]) # Chunks
  <2>1. Answer(t, "bad request") /\ UNCHANGED <<tables, disk, cleaner>>
    BY <1>3 DEF CompleteCount, disk
  <2>2. QED
    BY <1>1, <2>1, QuietAnswers DEF Failure, Working
<1>4. CASE Cardinality(chunkRow[c]) = Chunks
  <2>1. PICK q : Turns(t, q) /\ SameAt(q, task[t], "merge")
    BY <1>1, <1>2, <1>4, StepTurns DEF CompleteCount
  <2>2. /\ UNCHANGED <<session, chunkRow, row, dir, chunk, landing, cleaner>> /\ History
        /\ blob' = [blob EXCEPT ![c] = << >>]
    BY <1>4 DEF CompleteCount, tables, History
  <2>3. \A e \in Call : e # c => blob'[e] = blob[e]
    BY <1>2, <2>2 DEF FInv, Shapes, FileId
  <2>4. \A e \in Call : Kept(e) /\ Cleaner(e) /\ call'[e] = call[e]
    BY <2>2 DEF Kept, Cleaner, Cleaning
  <2>5. \A e \in Call : e # c => Data(e)
    BY <2>2, <2>3, <2>4 DEF Data, HasFile
  <2>6. GoesOn(c, task[t], q)
    <3>1. q.live => q.at \in Phase(call[c].at)
      <4>1. call[c].at = IF q.live THEN "complete" ELSE "failed"
        BY <1>1, <1>2, <2>1 DEF SameAt, RequestOK, Ending, Completing
      <4>2. QED
        BY <2>1, <4>1, PhaseFacts DEF SameAt
    <3>2. QED
      BY <1>1, <2>1, <3>1 DEF GoesOn, Initing, Ending, Completing, SameAt, Failure
  <2>7. RequestOK(c, t)'
    BY <1>2, <2>1, <2>2, <2>6, AskedOn DEF SameAt
  <2>8. ASSUME c \notin cut PROVE Entry(c, t)'
    <3>1. c \in dir
      BY <1>1, <1>2, <2>8 DEF Entry, Ending, Completing
    <3>2. \A i \in Index : chunk[c][i] # Absent
      BY <1>2, <1>4, <2>8, <3>1, AllRows DEF Tidy
    <3>3. Enters(c, q)
      BY <2>1, <2>2, <3>1, <3>2 DEF Enters, SameAt
    <3>4. QED
      BY <1>2, <2>1, <3>3, EntryOn
  <2>9. CallInv(c)'
    BY <1>1, <1>2, <2>1, <2>2, <2>4, <2>7, <2>8, QuietInv DEF SameAt
  <2>10. QED
    BY <1>2, <2>1, <2>2, <2>4, <2>5, <2>9, OneCallInv
<1>5. QED
  BY <1>3, <1>4

LEMMA CompleteMergeCalls ==
    ASSUME JInv, UNCHANGED <<call, unsure>>, cut \subseteq cut', NEW t \in Task, CompleteMerge(t),
           NEW c, c = task[t].call
    PROVE  \A e \in Call : CallInv(e)'
<1> DEFINE n == Len(task[t].got) + 1
<1>1. task[t].at = "merge" /\ task[t] # Free
  BY DEF CompleteMerge, At, Free
<1>2. /\ FInv /\ Typed /\ \A e \in Call : CallInv(e)
      /\ c \in Call /\ CallInv(c) /\ RequestOK(c, t) /\ IsRequest(task[t]) /\ TaskOK(task[t])
      /\ c \notin cut => Tidy(c) /\ Entry(c, t)
  BY <1>1, TaskFacts DEF JInv
<1>3. n \in Index
  <2>1. task[t].got \in Seq(Piece) /\ n <= Chunks
    BY <1>1, <1>2 DEF TaskOK, CompleteMerge
  <2>2. Len(task[t].got) \in Nat
    BY <2>1
  <2>3. QED
    BY <2>1, <2>2, FileServerAssumption DEF Index
<1>4. CASE chunk[c][n] = Absent
  <2>1. Answer(t, "error") /\ UNCHANGED <<tables, disk, cleaner>>
    BY <1>4 DEF CompleteMerge, disk
  <2>2. c \in cut
    BY <1>1, <1>2, <1>3, <1>4 DEF Entry
  <2>3. QED
    BY <1>1, <2>1, <2>2, QuietAnswers DEF Failure, Working
<1>5. CASE chunk[c][n] # Absent
  <2> DEFINE p == [task[t] EXCEPT !.got = Append(task[t].got, chunk[c][n])]
  <2>0. PICK q : q = p
    OBVIOUS
  <2>1. /\ IsRequest(q) /\ q.at = "merge" /\ q.call = c /\ q.live = task[t].live
        /\ q.data = task[t].data /\ q # Free
    <3>1. /\ IsRequest(q) /\ q.at = "merge" /\ q.call = c /\ q.live = task[t].live
          /\ q.data = task[t].data
      BY <1>1, <1>2, <2>0 DEF IsRequest
    <3>2. QED
      BY <3>1, FreeFacts
  <2>2. /\ UNCHANGED <<session, chunkRow, row, dir, chunk, cleaner>> /\ History
        /\ task' = [task EXCEPT ![t] = q]
        /\ blob' = [blob EXCEPT ![c] = Append(@, chunk[c][n])]
        /\ landing' = landing \cup {FileWrite(c)}
    BY <1>5, <2>0 DEF CompleteMerge, tables, History
  <2>3. Turns(t, q)
    BY <1>1, <2>1, <2>2 DEF Turns
  <2>4. \A e \in Call : e # c => blob'[e] = blob[e] /\ FileWrite(e) # FileWrite(c)
    BY <1>2, <2>2 DEF FInv, Shapes, FileId, FileWrite
  <2>5. \A e \in Call : Kept(e) /\ Cleaner(e) /\ call'[e] = call[e]
    BY <2>2 DEF Kept, Cleaner, Cleaning
  <2>6. \A e \in Call : e # c => Data(e)
    BY <2>2, <2>4, <2>5 DEF Data, HasFile
  <2>7. GoesOn(c, task[t], q)
    <3>1. q.live => q.at \in Phase(call[c].at)
      BY <1>1, <1>2, <2>1 DEF RequestOK
    <3>2. QED
      BY <1>1, <2>1, <3>1 DEF GoesOn, Initing, Ending, Completing, Failure
  <2>8. RequestOK(c, t)'
    BY <1>2, <2>1, <2>2, <2>3, <2>7, AskedOn
  <2>9. ASSUME c \notin cut PROVE Entry(c, t)'
    <3>1. Enters(c, q)
      BY <1>1, <1>2, <2>1, <2>2, <2>9 DEF Enters, Entry, Ending, Completing
    <3>2. QED
      BY <1>2, <2>2, <2>3, <3>1, EntryOn
  <2>10. CallInv(c)'
    BY <1>1, <1>2, <2>1, <2>2, <2>3, <2>5, <2>8, <2>9, QuietInv
  <2>11. QED
    BY <1>2, <2>2, <2>3, <2>5, <2>6, <2>10, OneCallInv
<1>6. QED
  BY <1>4, <1>5

\* The final file is removed, and the request ends.
LEMMA RemoveFileCalls ==
    ASSUME JInv, UNCHANGED <<call, unsure>>, cut \subseteq cut', NEW t \in Task, task[t].at = "merge",
           NEW c, c = task[t].call, RemoveFile(c), NEW a \in Failure, Answer(t, a),
           UNCHANGED <<tables, dir, chunk, cleaner>>
    PROVE  \A e \in Call : CallInv(e)'
<1>1. task[t] # Free
  BY DEF Free
<1>2. /\ FInv /\ Typed /\ \A e \in Call : CallInv(e)
      /\ c \in Call /\ t \in Under(c) /\ CallInv(c) /\ RequestOK(c, t)
      /\ (c \notin cut => Tidy(c) /\ Entry(c, t)) /\ row[c] = Absent
  BY <1>1, TaskFacts DEF JInv, Completing
<1>3. PICK q : Turns(t, q) /\ IF task[t].live THEN SameAt(q, task[t], a) ELSE q = Free
  BY <1>1, <1>2, AnswerTurns DEF Failure
<1>4. /\ UNCHANGED <<session, chunkRow, row, dir, chunk, cleaner>> /\ History
      /\ blob' = [blob EXCEPT ![c] = Absent] /\ landing' = landing \ {FileWrite(c)}
  BY DEF RemoveFile, tables, History
<1>5. \A e \in Call : Kept(e) /\ Cleaner(e) /\ call'[e] = call[e]
  BY <1>4 DEF Kept, Cleaner, Cleaning
<1>6. blob'[c] = Absent /\ \A e \in Call : e # c => blob'[e] = blob[e]
  BY <1>2, <1>4 DEF FInv, Shapes, FileId
<1>7. \A e \in Call : e # c => Data(e)
  BY <1>4, <1>5, <1>6 DEF Data, HasFile
<1>8. ~HasFile(c)'
  BY <1>4, <1>6 DEF HasFile
<1>9. /\ task'[t] = q /\ \A u \in Task : u # t => task'[u] = task[u]
      /\ Under(c)' = IF q = Free THEN Under(c) \ {t} ELSE Under(c)
  BY <1>2, <1>3, TurnFacts
<1>10. /\ \A u \in Under(c)' : u # t => RequestOK(c, u)'
       /\ Knows(c)' /\ Told(c)'
  BY <1>2, <1>3, <1>4, OthersAsked DEF History
<1>11. q # Free => /\ q.at = a /\ q.live /\ call[c].at = "complete"
                   /\ q.data = task[t].data
  BY <1>2, <1>3 DEF SameAt, RequestOK, Ending, Completing
<1>12. ASSUME q # Free PROVE RequestOK(c, t)'
  <2>1. GoesOn(c, task[t], q)
    BY <1>2, <1>11, <1>12, PhaseFacts DEF GoesOn, Initing, Ending, Completing, Failure
  <2>2. QED
    BY <1>2, <1>3, <1>4, <1>11, <1>12, <2>1, AskedOn
<1>13. Asked(c)'
  BY <1>9, <1>10, <1>12 DEF Asked
<1>14. Picked(c)'
  BY <1>2, <1>4 DEF CallInv, Picked, Cleaning
<1>15. ASSUME c \notin cut PROVE Tidy(c)'
  <2>1. ASSUME q # Free PROVE Entry(c, t)'
    <3>1. Enters(c, q)
      BY <1>11, <2>1 DEF Enters, Ending, Completing, Failure
    <3>2. QED
      BY <1>2, <1>3, <3>1, EntryOn
  <2>2. \A u \in Under(c)' : Entry(c, u)'
    BY <1>2, <1>3, <1>4, <1>9, <1>15, <2>1, OthersEntry
  <2>3. c \in dir' => session'[c].status = "pending" \/ \E u \in Under(c)' : task'[u].at \in {"session", "rmdir"}
    BY <1>2, <1>4, <1>9, <1>15 DEF Tidy, Under
  <2>4. QED
    BY <1>2, <1>4, <1>8, <1>15, <2>2, <2>3 DEF Tidy, Cleaning
<1>16. CallInv(c)'
  BY <1>4, <1>10, <1>13, <1>14, <1>15 DEF CallInv, History
<1>17. QED
  BY <1>2, <1>3, <1>4, <1>5, <1>7, <1>16, OneCallInv

\* The file gets its row and the session ends, in which nothing else was
\* under way unless the call is cut from now on.
LEMMA RecordCalls ==
    ASSUME JInv, UNCHANGED <<call, unsure>>, cut \subseteq cut', NEW t \in Task, task[t].at = "merge",
           NEW c, c = task[t].call, Record(c), Step(t, "rmdir"),
           UNCHANGED <<dir, chunk, blob, landing, cleaner>>,
           Ends(c) /\ Cardinality(Under(c)) > 1 => c \in cut'
    PROVE  \A e \in Call : CallInv(e)'
<1> DEFINE new == [sha |-> session[c].sha, deleted |-> FALSE]
<1>1. task[t] # Free
  BY DEF Free
<1>2. /\ FInv /\ Typed /\ \A e \in Call : CallInv(e)
      /\ c \in Call /\ t \in Under(c) /\ CallInv(c) /\ RequestOK(c, t)
      /\ (c \notin cut => Tidy(c) /\ Entry(c, t)) /\ row[c] = Absent
  BY <1>1, TaskFacts DEF JInv, Completing
<1>3. PICK q : Turns(t, q) /\ SameAt(q, task[t], "rmdir")
  BY <1>1, <1>2, StepTurns
<1>4. /\ History
      /\ row'[c] = new /\ \A e \in Call : e # c => row'[e] = row[e]
      /\ chunkRow'[c] = {} /\ \A e \in Call : e # c => chunkRow'[e] = chunkRow[e]
  BY <1>2 DEF Record, History, FInv, Shapes, FileId, Typed, Tables
<1>5. /\ session'[c].status = "completed" /\ session'[c].sha = session[c].sha
      /\ \A e \in Call : e # c => session'[e] = session[e]
  BY <1>2 DEF Record, Typed, Tables
<1>6. /\ call[c].at = IF task[t].live THEN "complete" ELSE "failed"
      /\ task[t].live \/ c \in unsure
      /\ session[c].sha \in Book
  BY <1>2 DEF RequestOK, Ending, Completing
<1>7. row'[c] # Absent /\ row'[c].sha = session[c].sha
  <2>1. new \in [sha : Book, deleted : BOOLEAN] /\ new.sha = session[c].sha
    BY <1>6
  <2>2. QED
    BY <1>4, <2>1, FileServerAssumption
<1>8. \A e \in Call : e # c => Data(e) /\ Cleaner(e) /\ call'[e] = call[e]
  BY <1>4, <1>5 DEF Data, Kept, Cleaner, HasFile, Cleaning
<1>9. /\ task'[t] = q /\ \A u \in Task : u # t => task'[u] = task[u]
      /\ Under(c)' = Under(c) /\ q.at = "rmdir" /\ q.live = task[t].live /\ q # Free
  BY <1>2, <1>3, TurnFacts DEF SameAt
<1>10. /\ \A u \in Under(c)' : u # t => RequestOK(c, u)'
       /\ Knows(c)' /\ Told(c)'
  BY <1>2, <1>3, <1>4, <1>5, OthersAsked DEF History, Completing
<1>11. RequestOK(c, t)'
  <2>1. q.live => session[c].sha = call[c].book
    BY <1>2, <1>6, <1>9 DEF CallInv, Knows
  <2>2. c \in unsure => c \in unsure'
    OBVIOUS
  <2>3. q.live => q.at \in Phase(call[c].at)
    BY <1>6, <1>9, PhaseFacts
  <2>4. QED
    BY <1>5, <1>6, <1>7, <1>9, <2>1, <2>2, <2>3 DEF RequestOK, Initing, Ending, Completing, Failure
<1>12. Asked(c)'
  BY <1>9, <1>10, <1>11 DEF Asked
<1>13. Picked(c)'
  BY <1>5 DEF Picked
<1>14. ASSUME c \notin cut' PROVE Tidy(c)'
  <2>1. Tidy(c) /\ c \in dir /\ c \notin cut
    BY <1>2, <1>4, <1>14 DEF History, Entry, Ending, Completing
  <2>2. \A u \in Under(c) : task[u].at \notin {"session", "rmdir"}
    <3>1. ASSUME NEW u \in Under(c), task[u].at \in {"session", "rmdir"} PROVE Under(c) = {u}
      BY <1>2, <2>1, <3>1 DEF CallInv, Asked, RequestOK, Tidy, Entry, Initing
    <3>2. QED
      BY <1>2, <3>1
  <2>3. session[c].status = "pending"
    BY <2>1, <2>2 DEF Tidy
  <2>4. Under(c) = {t}
    <3>1. ~(Cardinality(Under(c)) > 1)
      BY <1>5, <1>14, <2>3 DEF Ends
    <3>2. IsFiniteSet(Under(c)) /\ Cardinality(Under(c)) \in Nat
      BY FS_Subset, FS_CardinalityType, FileServerAssumption DEF Under
    <3>3. Cardinality(Under(c)) = 0 \/ Cardinality(Under(c)) = 1
      BY <3>1, <3>2
    <3>4. QED
      BY <1>2, <3>2, <3>3, FS_EmptySet, FS_Singleton
  <2>5. Under(c)' = {t}
    BY <1>9, <2>4
  <2>6. Entry(c, t)'
    BY <1>4, <1>5, <1>9, <2>1, <2>5 DEF Entry, Ending, Completing
  <2>7. ~Cleaning(c)'
    BY <2>1 DEF Tidy, Cleaning
  <2>8. QED
    BY <1>4, <1>7, <1>9, <2>5, <2>6, <2>7 DEF Tidy
<1>15. CallInv(c)'
  BY <1>4, <1>10, <1>12, <1>13, <1>14 DEF CallInv, History
<1>16. QED
  BY <1>2, <1>3, <1>4, <1>8, <1>15, OneCallInv

LEMMA CompleteRecordCalls ==
    ASSUME JInv, UNCHANGED <<call, unsure>>, cut \subseteq cut', NEW t \in Task, CompleteRecord(t),
           NEW c, c = task[t].call,
           Ends(c) /\ Cardinality(Under(c)) > 1 => c \in cut'
    PROVE  \A e \in Call : CallInv(e)'
<1>1. task[t].at = "merge" /\ UNCHANGED <<dir, chunk, cleaner>>
  BY DEF CompleteRecord, At
<1>2. \/ \E a \in {"bad request", "conflict"} : RemoveFile(c) /\ Answer(t, a) /\ UNCHANGED tables
      \/ Record(c) /\ Step(t, "rmdir") /\ UNCHANGED <<blob, landing>>
  BY DEF CompleteRecord
<1>3. ASSUME NEW a \in {"bad request", "conflict"}, RemoveFile(c), Answer(t, a), UNCHANGED tables
      PROVE  \A e \in Call : CallInv(e)'
  BY <1>1, <1>3, RemoveFileCalls DEF Failure
<1>4. CASE Record(c) /\ Step(t, "rmdir") /\ UNCHANGED <<blob, landing>>
  BY <1>1, <1>4, RecordCalls
<1>5. QED
  BY <1>2, <1>3, <1>4

LEMMA CompleteDoneCalls ==
    ASSUME JInv, UNCHANGED <<call, unsure>>, cut \subseteq cut', NEW t \in Task, CompleteDone(t),
           NEW c, c = task[t].call
    PROVE  \A e \in Call : CallInv(e)'
<1>1. task[t].at = "rmdir" /\ task[t] # Free
  BY DEF CompleteDone, At, Free
<1>2. /\ FInv /\ Typed /\ \A e \in Call : CallInv(e)
      /\ c \in Call /\ t \in Under(c) /\ CallInv(c) /\ RequestOK(c, t)
      /\ c \notin cut => Tidy(c) /\ Entry(c, t)
  BY <1>1, TaskFacts DEF JInv
<1>3. PICK q : Turns(t, q) /\ IF task[t].live THEN SameAt(q, task[t], "ok") ELSE q = Free
  BY <1>1, <1>2, AnswerTurns DEF CompleteDone
<1>4. /\ UNCHANGED <<session, chunkRow, row, blob, landing, cleaner>> /\ History
      /\ dir' = dir \ {c} /\ \A e \in Call : e # c => chunk'[e] = chunk[e]
  BY <1>2 DEF CompleteDone, RemoveDir, tables, History, Typed, Tables
<1>5. \A e \in Call : e # c => Data(e) /\ Cleaner(e) /\ call'[e] = call[e]
  BY <1>4 DEF Data, Kept, Cleaner, HasFile, Cleaning
<1>6. /\ task'[t] = q
      /\ Under(c)' = IF q = Free THEN Under(c) \ {t} ELSE Under(c)
  BY <1>2, <1>3, TurnFacts
<1>7. /\ \A u \in Under(c)' : u # t => RequestOK(c, u)'
      /\ Knows(c)' /\ Told(c)'
  BY <1>2, <1>3, <1>4, OthersAsked DEF History
<1>8. q # Free => q.at = "ok" /\ q.live /\ task[t].live /\ call[c].at = "complete" /\ q.data = task[t].data
  BY <1>1, <1>2, <1>3 DEF SameAt, RequestOK, Ending
<1>9. ASSUME q # Free PROVE RequestOK(c, t)'
  <2>1. row[c] # Absent /\ row[c].sha = call[c].book
    BY <1>1, <1>2, <1>8, <1>9 DEF RequestOK
  <2>2. GoesOn(c, task[t], q)
    BY <1>8, <1>9, <2>1, PhaseFacts DEF GoesOn, Initing, Ending, Completing, Failure
  <2>3. QED
    BY <1>2, <1>3, <1>4, <1>8, <1>9, <2>2, AskedOn
<1>10. Asked(c)'
  BY <1>6, <1>7, <1>9 DEF Asked
<1>11. Picked(c)'
  BY <1>2, <1>4 DEF CallInv, Picked, Cleaning
<1>12. ASSUME c \notin cut PROVE Tidy(c)'
  <2>1. /\ Tidy(c) /\ Under(c) = {t} /\ chunkRow[c] = {}
        /\ HasFile(c) => row[c] # Absent
    BY <1>1, <1>2, <1>12 DEF Entry, Tidy
  <2>2. ASSUME q # Free PROVE Entry(c, t)'
    BY <1>6, <1>8, <2>2 DEF Entry, Ending, Completing
  <2>3. \A u \in Under(c)' : Entry(c, u)'
    BY <1>6, <2>1, <2>2
  <2>4. QED
    BY <1>4, <2>1, <2>3 DEF Tidy, HasFile, Cleaning
<1>13. CallInv(c)'
  BY <1>4, <1>7, <1>10, <1>11, <1>12 DEF CallInv, History
<1>14. QED
  BY <1>2, <1>3, <1>4, <1>5, <1>13, OneCallInv

\* A step that no request takes.
LEMMA NobodysStep ==
    ASSUME JInv, UNCHANGED <<task, call, unsure>>, cut \subseteq cut', NEW e \in Call, Data(e), Cleaner(e)
    PROVE  CallInv(e)'
<1>1. Requests(e)
  BY DEF Requests
<1>2. QED
  BY <1>1, ApartInv DEF JInv, History

LEMMA LandCalls ==
    ASSUME JInv, UNCHANGED <<call, unsure>>, cut \subseteq cut', NEW w \in landing, Land(w)
    PROVE  \A e \in Call : CallInv(e)'
<1> SUFFICES ASSUME NEW e \in Call PROVE CallInv(e)'
  OBVIOUS
<1>1. /\ UNCHANGED <<session, chunkRow, row, dir, blob, task, cleaner>>
      /\ landing' = landing \ {w}
      /\ chunk' = IF w.ix # 0 /\ w.call \in dir THEN [chunk EXCEPT ![w.call][w.ix] = w.data] ELSE chunk
  BY DEF Land, tables
<1>2. w.ix # 0 => w \in [call : Call, ix : Index, data : Book]
  BY DEF JInv, Typed, Tables, Written, FileWrite
<1>3. ASSUME NEW i \in Index, chunk[e][i] # Absent PROVE chunk'[e][i] # Absent
  <2>1. CASE w.ix # 0 /\ w.call \in dir
    <3>1. w.data # Absent
      BY <1>2, <2>1, FileServerAssumption
    <3>2. QED
      BY <1>1, <1>2, <1>3, <2>1, <3>1 DEF JInv, Typed, Tables
  <2>2. CASE ~(w.ix # 0 /\ w.call \in dir)
    BY <1>1, <1>3, <2>2
  <2>3. QED
    BY <2>1, <2>2
<1>4. Data(e) /\ Cleaner(e)
  BY <1>1, <1>3 DEF Data, Kept, Cleaner, HasFile, Cleaning
<1>5. QED
  BY <1>1, <1>4, NobodysStep

LEMMA DeleteFileCalls ==
    ASSUME JInv, UNCHANGED <<call, unsure>>, cut \subseteq cut', NEW f \in FileId, DeleteFile(f)
    PROVE  \A e \in Call : CallInv(e)'
<1> SUFFICES ASSUME NEW e \in Call PROVE CallInv(e)'
  OBVIOUS
<1>1. /\ UNCHANGED <<session, chunkRow, dir, chunk, blob, landing, task, cleaner>>
      /\ row' = [row EXCEPT ![f].deleted = TRUE] /\ row[f] # Absent
  BY DEF DeleteFile, disk, Active
<1>2. /\ row[f] \in [sha : Book, deleted : BOOLEAN] /\ DOMAIN row = FileId
  BY <1>1 DEF JInv, FInv, Shapes, Typed, Tables, Listed
<1>3. row'[f] = [row[f] EXCEPT !.deleted = TRUE] /\ \A g \in FileId : g # f => row'[g] = row[g]
  BY <1>1, <1>2
<1>4. row'[f] \in [sha : Book, deleted : BOOLEAN] /\ row'[f].sha = row[f].sha
  BY <1>2, <1>3
<1>5. row'[f] # Absent
  BY <1>4, FileServerAssumption
<1>6. (row'[e] = Absent <=> row[e] = Absent) /\ row'[e].sha = row[e].sha
  BY <1>1, <1>3, <1>4, <1>5 DEF FileId
<1>7. Data(e) /\ Cleaner(e)
  BY <1>1, <1>6 DEF Data, Kept, Cleaner, HasFile, Cleaning
<1>8. QED
  BY <1>1, <1>7, NobodysStep

-----------------------------------------------------------------------------
(* The clean-up's steps, for the calls.                                    *)

LEMMA CleanSelectCalls ==
    ASSUME JInv, UNCHANGED <<call, unsure>>, cut \subseteq cut', CleanSelect \/ CleanFails
    PROVE  \A e \in Call : CallInv(e)'
<1> SUFFICES ASSUME NEW e \in Call PROVE CallInv(e)'
  OBVIOUS
<1>1. /\ UNCHANGED <<session, chunkRow, row, dir, chunk, blob, landing, task>>
      /\ cleaner'.at \notin {"rows", "status"}
      /\ \A c \in cleaner'.todo : session[c].status # "none"
  BY DEF CleanSelect, CleanFails, tables, disk
<1>2. /\ Typed /\ CallInv(e) /\ ~Cleaning(e)'
  BY <1>1 DEF JInv, Cleaning
<1>3. Under(e)' = Under(e)
  BY <1>1 DEF Under
<1>4. Asked(e)' /\ Knows(e)' /\ Told(e)'
  BY <1>1, <1>2, <1>3 DEF CallInv, Asked, RequestOK, Knows, Told
<1>5. Picked(e)'
  BY <1>1, <1>2 DEF Picked
<1>6. Tidy(e) => Tidy(e)'
  BY <1>1, <1>2, <1>3 DEF Tidy, Entry, HasFile
<1>7. QED
  BY <1>2, <1>4, <1>5, <1>6 DEF CallInv

LEMMA CleanDirCalls ==
    ASSUME JInv, UNCHANGED <<call, unsure>>, cut \subseteq cut', NEW c \in Call, CleanDir(c),
           Cleans(c) /\ Under(c) # {} => c \in cut'
    PROVE  \A e \in Call : CallInv(e)'
<1>1. /\ UNCHANGED <<session, chunkRow, row, blob, landing, task>>
      /\ dir' = dir \ {c} /\ \A e \in Call : e # c => chunk'[e] = chunk[e]
      /\ c \in cleaner.todo /\ cleaner' = [at |-> "rows", todo |-> cleaner.todo, cur |-> c]
  BY DEF CleanDir, RemoveDir, tables, JInv, Typed, Tables
<1>2. cleaner'.at = "rows" /\ cleaner'.todo = cleaner.todo /\ cleaner'.cur = c
  BY <1>1
<1>3. ASSUME NEW e \in Call, e # c PROVE CallInv(e)'
  <2>1. Data(e) /\ Cleaner(e)
    BY <1>1, <1>2, <1>3 DEF Data, Kept, Cleaner, HasFile, Cleaning
  <2>2. QED
    BY <1>1, <2>1, NobodysStep
<1>4. CallInv(c) /\ Under(c)' = Under(c) /\ session[c].status # "none"
  BY <1>1 DEF JInv, CallInv, Picked, Under
<1>5. Asked(c)' /\ Knows(c)' /\ Told(c)' /\ Picked(c)'
  BY <1>1, <1>4 DEF CallInv, Asked, RequestOK, Knows, Told, Picked
<1>6. ASSUME c \notin cut' PROVE Tidy(c)'
  <2>1. Under(c) = {} /\ Tidy(c)
    BY <1>2, <1>4, <1>6 DEF Cleans, CallInv
  <2>2. QED
    BY <1>1, <1>2, <1>4, <2>1 DEF Tidy, HasFile
<1>7. QED
  BY <1>3, <1>5, <1>6 DEF CallInv

LEMMA CleanRowsCalls ==
    ASSUME JInv, UNCHANGED <<call, unsure>>, cut \subseteq cut', CleanRows
    PROVE  \A e \in Call : CallInv(e)'
<1>1. PICK c \in Call : c = cleaner.cur
  BY DEF JInv, Typed, CleanerOK, CleanRows
<1>2. /\ UNCHANGED <<session, row, dir, chunk, blob, landing, task>>
      /\ chunkRow'[c] = {} /\ \A e \in Call : e # c => chunkRow'[e] = chunkRow[e]
      /\ cleaner.at = "rows" /\ cleaner' = [cleaner EXCEPT !.at = "status"]
  BY <1>1 DEF CleanRows, disk, JInv, Typed, Tables
<1>3. cleaner'.at = "status" /\ cleaner'.todo = cleaner.todo /\ cleaner'.cur = c
  BY <1>1, <1>2 DEF JInv, Typed, CleanerOK
<1>4. ASSUME NEW e \in Call, e # c PROVE CallInv(e)'
  <2>1. Data(e) /\ Cleaner(e)
    BY <1>1, <1>2, <1>3, <1>4 DEF Data, Kept, Cleaner, HasFile, Cleaning
  <2>2. QED
    BY <1>2, <2>1, NobodysStep
<1>5. CallInv(c) /\ Under(c)' = Under(c) /\ Cleaning(c)
  BY <1>1, <1>2 DEF JInv, Under, Cleaning
<1>6. Asked(c)' /\ Knows(c)' /\ Told(c)' /\ Picked(c)'
  BY <1>2, <1>3, <1>5 DEF CallInv, Asked, RequestOK, Knows, Told, Picked
<1>7. Tidy(c) => Tidy(c)'
  BY <1>2, <1>3, <1>5 DEF Tidy, Entry, HasFile
<1>8. QED
  BY <1>4, <1>5, <1>6, <1>7 DEF CallInv

LEMMA CleanStatusCalls ==
    ASSUME JInv, UNCHANGED <<call, unsure>>, cut \subseteq cut', CleanStatus
    PROVE  \A e \in Call : CallInv(e)'
<1>1. PICK c \in Call : c = cleaner.cur
  BY DEF JInv, Typed, CleanerOK, CleanStatus
<1>2. /\ UNCHANGED <<chunkRow, row, dir, chunk, blob, landing, task>>
      /\ session'[c].status = "expired" /\ session'[c].sha = session[c].sha
      /\ \A e \in Call : e # c => session'[e] = session[e]
      /\ cleaner.at = "status"
  BY <1>1 DEF CleanStatus, disk, JInv, Typed, Tables
<1>3. cleaner'.at \in {"idle", "dir"} /\ cleaner'.todo = cleaner.todo \ {c}
  BY <1>1 DEF CleanStatus
<1>4. ASSUME NEW e \in Call, e # c PROVE CallInv(e)'
  <2>1. Data(e) /\ Cleaner(e)
    BY <1>2, <1>3, <1>4 DEF Data, Kept, Cleaner, HasFile, Cleaning
  <2>2. QED
    BY <1>2, <2>1, NobodysStep
<1>5. CallInv(c) /\ Under(c)' = Under(c) /\ Cleaning(c) /\ session[c].status # "none"
  BY <1>1, <1>2 DEF JInv, CallInv, Picked, Under, Cleaning
<1>6. Asked(c)' /\ Knows(c)' /\ Told(c)' /\ Picked(c)'
  BY <1>2, <1>5 DEF CallInv, Asked, RequestOK, Knows, Told, Picked
<1>7. ASSUME Tidy(c) PROVE Tidy(c)'
  <2>1. c \notin dir /\ chunkRow[c] = {} /\ ~Cleaning(c)'
    BY <1>2, <1>3, <1>5, <1>7 DEF Tidy, Cleaning
  <2>2. \A u \in Under(c) : Entry(c, u)'
    BY <1>2, <1>7, <2>1 DEF Tidy, Entry, Ending
  <2>3. QED
    BY <1>2, <1>5, <1>7, <2>1, <2>2 DEF Tidy, HasFile
<1>8. QED
  BY <1>4, <1>5, <1>6, <1>7 DEF CallInv

LEMMA ServeCalls ==
    ASSUME JInv, Serve
    PROVE  \A e \in Call : CallInv(e)'
<1>1. UNCHANGED <<call, unsure>> /\ cut \subseteq cut'
  BY DEF Serve, client
<1>2. \A c \in Call : /\ Cleans(c) /\ Under(c) # {} => c \in cut'
                      /\ Ends(c) /\ Cardinality(Under(c)) > 1 => c \in cut'
  BY DEF Serve
<1>3. ASSUME NEW t \in Task, TaskStep(t) PROVE \A e \in Call : CallInv(e)'
  <2>1. CASE InitCheck(t) \/ ChunkCheck(t) \/ CompleteCheck(t) \/ DownloadOpen(t)
    BY <1>1, <2>1, ChecksCalls
  <2>2. CASE InitDir(t) \/ InitSession(t)
    BY <1>1, <2>2, InitDirCalls, InitSessionCalls
  <2>3. CASE ChunkWrite(t) \/ ChunkRow(t)
    BY <1>1, <2>3, ChunkWriteCalls, ChunkRowCalls
  <2>4. CASE CompleteCount(t) \/ CompleteMerge(t) \/ CompleteDone(t)
    BY <1>1, <2>4, CompleteCountCalls, CompleteMergeCalls, CompleteDoneCalls
  <2>5. CASE CompleteRecord(t)
    <3>1. task[t] # Free
      <4>1. task[t].at = "merge"
        BY <2>5 DEF CompleteRecord, At
      <4>2. QED
        BY <4>1 DEF Free
    <3>2. PICK c \in Call : c = task[t].call
      BY <3>1, TaskFacts
    <3>3. QED
      BY <1>1, <1>2, <2>5, <3>2, CompleteRecordCalls
  <2>6. QED
    BY <1>3, <2>1, <2>2, <2>3, <2>4, <2>5 DEF TaskStep
<1>4. ASSUME NEW w \in landing, Land(w) PROVE \A e \in Call : CallInv(e)'
  BY <1>1, <1>4, LandCalls
<1>5. ASSUME NEW f \in FileId, DeleteFile(f) PROVE \A e \in Call : CallInv(e)'
  BY <1>1, <1>5, DeleteFileCalls
<1>6. CASE CleanerStep
  BY <1>1, <1>2, <1>6, CleanSelectCalls, CleanDirCalls, CleanRowsCalls, CleanStatusCalls DEF CleanerStep
<1>7. QED
  BY <1>3, <1>4, <1>5, <1>6 DEF Serve

-----------------------------------------------------------------------------
(* The faults of the server, for the calls.                                *)

\* A call of which a request was cut short: only what it is told matters.
LEMMA FailsCalls ==
    ASSUME JInv, UNCHANGED <<call, unsure>>, cut \subseteq cut', NEW t \in Task, Fails(t),
           NEW c, c = task[t].call, c \in cut'
    PROVE  \A e \in Call : CallInv(e)'
<1> DEFINE a == IF At(t, "rmdir") THEN "ok" ELSE "error"
<1>1. task[t].at \in Working
  BY DEF Fails
<1>2. task[t] # Free
  BY <1>1 DEF Working, Free
<1>3. /\ FInv /\ Typed /\ \A e \in Call : CallInv(e)
      /\ c \in Call /\ t \in Under(c) /\ CallInv(c) /\ RequestOK(c, t) /\ TaskOK(task[t])
      /\ Completing(task[t]) => row[c] = Absent
  BY <1>2, TaskFacts DEF JInv
<1>4. PICK q : Turns(t, q) /\ IF task[t].live THEN SameAt(q, task[t], a) ELSE q = Free
  BY <1>2, <1>3, AnswerTurns DEF Fails
<1>5. /\ UNCHANGED <<session, chunkRow, row, dir, cleaner>> /\ History
      /\ \A e \in Call : e # c => chunk'[e] = chunk[e]
  BY <1>3 DEF Fails, tables, History, Typed, Tables
<1>6. \A e \in Call : e # c => (HasFile(e)' => HasFile(e))
  BY <1>3 DEF Fails, RemoveFile, HasFile, FInv, Shapes, FileId
<1>7. \A e \in Call : e # c => Data(e) /\ Cleaner(e) /\ call'[e] = call[e]
  BY <1>5, <1>6 DEF Data, Kept, Cleaner, Cleaning
<1>8. /\ task'[t] = q
      /\ Under(c)' = IF q = Free THEN Under(c) \ {t} ELSE Under(c)
  BY <1>3, <1>4, TurnFacts
<1>9. /\ \A u \in Under(c)' : u # t => RequestOK(c, u)'
      /\ Knows(c)' /\ Told(c)'
  BY <1>3, <1>4, <1>5, OthersAsked DEF History
<1>10. ASSUME q # Free PROVE RequestOK(c, t)'
  <2>1. q.at = a /\ q.live /\ task[t].live /\ q.data = task[t].data
    BY <1>4, <1>10 DEF SameAt
  <2>2. task[t].at \in Phase(call[c].at)
    BY <1>3, <2>1 DEF RequestOK
  <2>3. CASE task[t].at = "rmdir"
    <3>1. a = "ok" /\ call[c].at = "complete" /\ row[c] # Absent /\ row[c].sha = call[c].book
      BY <1>3, <2>1, <2>3 DEF At, RequestOK, Ending
    <3>2. GoesOn(c, task[t], q)
      BY <2>1, <3>1, PhaseFacts DEF GoesOn, Initing, Ending, Completing, Failure
    <3>3. QED
      BY <1>3, <1>4, <1>5, <1>10, <2>1, <3>2, AskedOn
  <2>4. CASE task[t].at # "rmdir"
    <3>1. a = "error" /\ (call[c].at = "complete" => Completing(task[t]))
      BY <1>1, <2>2, <2>4, PhaseFacts DEF At, Working, Completing, Failure
    <3>2. a \in Phase(call[c].at)
      BY <2>2, <3>1, PhaseFacts DEF Failure
    <3>3. GoesOn(c, task[t], q)
      BY <1>3, <2>1, <3>1, <3>2 DEF GoesOn, Initing, Ending, Completing, Failure
    <3>4. QED
      BY <1>3, <1>4, <1>5, <1>10, <2>1, <3>3, AskedOn
  <2>5. QED
    BY <2>3, <2>4
<1>11. Asked(c)'
  BY <1>8, <1>9, <1>10 DEF Asked
<1>12. Picked(c)'
  BY <1>3, <1>5 DEF CallInv, Picked, Cleaning
<1>13. CallInv(c)'
  BY <1>9, <1>11, <1>12 DEF CallInv
<1>14. QED
  BY <1>3, <1>4, <1>5, <1>7, <1>13, OneCallInv

LEMMA DropCalls ==
    ASSUME JInv, UNCHANGED <<call, unsure>>, cut \subseteq cut', NEW t \in Task, Drop(t),
           NEW c, c = task[t].call, c \in cut'
    PROVE  \A e \in Call : CallInv(e)'
<1>1. /\ task[t] # Free /\ Turns(t, Free)
      /\ UNCHANGED <<session, chunkRow, row, dir, chunk, blob, landing, cleaner>> /\ History
  BY DEF Drop, Turns, tables, disk, History
<1>2. /\ FInv /\ Typed /\ \A e \in Call : CallInv(e)
      /\ c \in Call /\ CallInv(c)
  BY <1>1, TaskFacts DEF JInv
<1>3. \A e \in Call : e # c => Data(e) /\ Cleaner(e) /\ call'[e] = call[e]
  BY <1>1 DEF Data, Kept, Cleaner, HasFile, Cleaning
<1>4. Under(c)' = Under(c) \ {t}
  BY <1>1, <1>2, TurnFacts
<1>5. /\ \A u \in Under(c)' : u # t => RequestOK(c, u)'
      /\ Knows(c)' /\ Told(c)'
  BY <1>1, <1>2, OthersAsked DEF History
<1>6. Asked(c)' /\ Picked(c)'
  BY <1>1, <1>2, <1>4, <1>5 DEF Asked, CallInv, Picked, Cleaning
<1>7. CallInv(c)'
  BY <1>5, <1>6 DEF CallInv
<1>8. QED
  BY <1>1, <1>2, <1>3, <1>7, OneCallInv

LEMMA CrashCalls ==
    ASSUME JInv, ServerDies
    PROVE  \A e \in Call : CallInv(e)'
<1> SUFFICES ASSUME NEW e \in Call PROVE CallInv(e)'
  OBVIOUS
<1>1. /\ UNCHANGED <<session, chunkRow, row, dir, chunk, call>>
      /\ task' = [t \in Task |-> IF task[t] # Free /\ task[t].live
                                 THEN [task[t] EXCEPT !.at = "error"] ELSE Free]
      /\ blob' = [f \in FileId |-> IF FileWrite(f) \in landing
                                   THEN SubSeq(blob[f], 1, Extent(f)) ELSE blob[f]]
      /\ landing' = {} /\ cleaner' = [at |-> "idle", todo |-> {}]
  BY DEF ServerDies, Crash, tables, client
<1>2. unsure \subseteq unsure' /\ cut \subseteq cut'
  BY DEF ServerDies
<1>3. Under(e) # {} => e \in unsure' /\ e \in cut'
  BY DEF ServerDies
<1>4. CallInv(e) /\ Typed /\ Shapes
  BY DEF JInv, FInv
<1>5. ASSUME NEW t \in Task, task'[t] # Free
      PROVE  /\ task[t] # Free /\ task[t].live
             /\ IsRequest(task'[t]) /\ task'[t].at = "error"
             /\ task'[t].call = task[t].call /\ task'[t].live = task[t].live
  <2>1. task'[t] = [task[t] EXCEPT !.at = "error"] /\ task[t] # Free /\ task[t].live
    BY <1>1, <1>5
  <2>2. IsRequest(task[t])
    BY <1>4, <2>1 DEF Shapes
  <2>3. QED
    BY <2>1, <2>2 DEF IsRequest
<1>6. Under(e)' \subseteq Under(e)
  BY <1>5 DEF Under
<1>7. ASSUME NEW t \in Under(e)' PROVE RequestOK(e, t)'
  <2>1. t \in Task /\ task'[t] # Free /\ t \in Under(e)
    BY <1>6, <1>7 DEF Under
  <2>2. task[t].live /\ task'[t].at = "error" /\ task'[t].live
    BY <1>5, <2>1
  <2>3. RequestOK(e, t) /\ e \in unsure'
    BY <1>3, <1>4, <2>1 DEF CallInv, Asked
  <2>4. "error" \in Phase(call[e].at)
    <3>1. task[t].at \in Phase(call[e].at)
      BY <2>2, <2>3 DEF RequestOK
    <3>2. QED
      BY <3>1, PhaseFacts DEF Failure
  <2>5. QED
    BY <1>1, <2>2, <2>3, <2>4 DEF RequestOK, Initing, Ending, Completing
<1>8. Asked(e)'
  BY <1>7 DEF Asked
<1>9. Knows(e)' /\ Told(e)'
  BY <1>1, <1>2, <1>4, <1>6 DEF CallInv, Knows, Told
<1>10. ~Cleaning(e)' /\ Picked(e)'
  BY <1>1 DEF Cleaning, Picked
<1>11. ASSUME e \notin cut' PROVE Tidy(e)'
  <2>1. Under(e) = {} /\ Under(e)' = {} /\ Tidy(e)
    BY <1>2, <1>3, <1>4, <1>6, <1>11 DEF CallInv
  <2>2. HasFile(e)' => HasFile(e)
    BY <1>1 DEF HasFile, FileId
  <2>3. QED
    BY <1>1, <1>10, <2>1, <2>2 DEF Tidy
<1>12. QED
  BY <1>8, <1>9, <1>10, <1>11 DEF CallInv

-----------------------------------------------------------------------------
(* The clients' steps: what a call becomes.                                *)

CallGoesTo(c, x) ==
    /\ call'[c] = x /\ \A e \in Call : e # c => call'[e] = call[e]
    /\ x \in CallRecord

Same(x, r) == x.book = r.book /\ x.file = r.file
SameChunk(x, r) == Same(x, r) /\ x.ix = r.ix /\ x.data = r.data

LEMMA CallType ==
    ASSUME JInv, NEW c \in Call
    PROVE  call[c] \in CallRecord /\ DOMAIN call = Call /\ 0 \in Inode \cup {0}
  BY DEF JInv, Typed, Clients, CallOK, FInv, Shapes

LEMMA GotoFacts ==
    ASSUME JInv, NEW c \in Call, NEW pc \in CallAt, Goto(c, pc)
    PROVE  \E x : CallGoesTo(c, x) /\ SameChunk(x, call[c]) /\ x.at = pc /\ x.fd = call[c].fd
<1> DEFINE x == [call[c] EXCEPT !.at = pc]
<1>1. x \in CallRecord
  BY CallType DEF CallRecord
<1>2. SameChunk(x, call[c]) /\ x.at = pc /\ x.fd = call[c].fd
  BY CallType DEF CallRecord, SameChunk, Same
<1>3. call'[c] = x /\ \A e \in Call : e # c => call'[e] = call[e]
  BY CallType DEF Goto
<1> HIDE DEF x
<1>4. QED
  BY <1>1, <1>2, <1>3 DEF CallGoesTo

LEMMA FailFacts ==
    ASSUME JInv, NEW c \in Call, Fail(c)
    PROVE  \E x : CallGoesTo(c, x) /\ SameChunk(x, call[c]) /\ x.at = "failed" /\ x.fd = 0
<1> DEFINE y == [call[c] EXCEPT !.at = "failed"]
           x == [y EXCEPT !.fd = 0]
<1>1. y \in CallRecord
  BY CallType DEF CallRecord, CallAt
<1>2. SameChunk(y, call[c]) /\ y.at = "failed"
  BY CallType DEF CallRecord, SameChunk, Same
<1>3. call' = [call EXCEPT ![c] = x]
  BY DEF Fail
<1> HIDE DEF y
<1>4. x \in CallRecord /\ x.fd = 0 /\ x.at = y.at /\ SameChunk(x, y)
  BY <1>1, CallType DEF CallRecord, SameChunk, Same
<1>5. call'[c] = x /\ \A e \in Call : e # c => call'[e] = call[e]
  BY <1>3, CallType
<1> HIDE DEF x
<1>6. QED
  BY <1>2, <1>4, <1>5 DEF CallGoesTo, SameChunk, Same

LEMMA RetryFacts ==
    ASSUME JInv, NEW c \in Call, Retry(c), call[c].fd = 0
    PROVE  \E x : /\ CallGoesTo(c, x) /\ SameChunk(x, call[c])
                  /\ x.at \in {"again", "failed"} /\ x.fd = 0
<1>1. CASE call[c].tries < MaxTries
  <2> DEFINE y == [call[c] EXCEPT !.at = "again"]
             x == [y EXCEPT !.tries = call[c].tries + 1]
  <2>1. y \in CallRecord
    BY CallType DEF CallRecord, CallAt
  <2>2. SameChunk(y, call[c]) /\ y.at = "again" /\ y.fd = call[c].fd /\ y.tries = call[c].tries
    BY CallType DEF CallRecord, SameChunk, Same
  <2>3. call' = [call EXCEPT ![c] = x]
    BY <1>1, <2>2, CallType DEF Retry
  <2> HIDE DEF y
  <2>4. call[c].tries + 1 \in Nat
    BY CallType DEF CallRecord
  <2>5. x \in CallRecord /\ x.fd = y.fd /\ x.at = y.at /\ SameChunk(x, y)
    BY <2>1, <2>4 DEF CallRecord, SameChunk, Same
  <2>6. call'[c] = x /\ \A e \in Call : e # c => call'[e] = call[e]
    BY <2>3, CallType
  <2> HIDE DEF x
  <2>7. QED
    BY <2>2, <2>5, <2>6 DEF CallGoesTo, SameChunk, Same
<1>2. CASE ~(call[c].tries < MaxTries)
  BY <1>2, FailFacts DEF Retry
<1>3. QED
  BY <1>1, <1>2

LEMMA GetAgainFacts ==
    ASSUME JInv, NEW c \in Call, GetAgain(c)
    PROVE  \E x : /\ CallGoesTo(c, x) /\ SameChunk(x, call[c])
                  /\ x.at \in {"create", "failed"} /\ x.fd = 0
<1>1. CASE call[c].tries < MaxTries
  <2> DEFINE y == [call[c] EXCEPT !.at = "create"]
             z == [y EXCEPT !.tries = call[c].tries + 1]
             x == [z EXCEPT !.fd = 0]
  <2>1. y \in CallRecord
    BY CallType DEF CallRecord, CallAt
  <2>2. SameChunk(y, call[c]) /\ y.at = "create"
    BY CallType DEF CallRecord, SameChunk, Same
  <2>3. call' = [call EXCEPT ![c] = x]
    BY <1>1 DEF GetAgain
  <2> HIDE DEF y
  <2>4. call[c].tries + 1 \in Nat
    BY CallType DEF CallRecord
  <2>5. z \in CallRecord /\ z.at = y.at /\ SameChunk(z, y)
    BY <2>1, <2>4 DEF CallRecord, SameChunk, Same
  <2> HIDE DEF z
  <2>6. x \in CallRecord /\ x.fd = 0 /\ x.at = z.at /\ SameChunk(x, z)
    BY <2>5, CallType DEF CallRecord, SameChunk, Same
  <2>7. call'[c] = x /\ \A e \in Call : e # c => call'[e] = call[e]
    BY <2>3, CallType
  <2> HIDE DEF x
  <2>8. QED
    BY <2>2, <2>5, <2>6, <2>7 DEF CallGoesTo, SameChunk, Same
<1>2. CASE ~(call[c].tries < MaxTries)
  <2>1. Fail(c)
    BY <1>2 DEF GetAgain, Fail
  <2>2. QED
    BY <2>1, FailFacts
<1>3. QED
  BY <1>1, <1>2

-----------------------------------------------------------------------------
(* The clients' steps: what holds of the call that takes one.              *)

\* Requests of c other than t neither open nor complete an upload, and nobody
\* waits for them.
Past(c, t) == \A u \in Under(c) : u # t => ~task[u].live /\ ~Initing(task[u]) /\ ~Ending(task[u])

LEMMA OthersPast ==
    ASSUME JInv, NEW c \in Call, call[c].at # "failed", NEW t,
           (t \in Under(c) /\ task[t].live) \/ call[c].at \notin Hearing
    PROVE  Past(c, t)
<1> SUFFICES ASSUME NEW u \in Under(c), u # t
             PROVE  ~task[u].live /\ ~Initing(task[u]) /\ ~Ending(task[u])
  BY DEF Past
<1>1. u \in Task /\ task[u] # Free /\ task[u].call = c /\ RequestOK(c, u)
  BY DEF JInv, CallInv, Asked, Under
<1>2. ~task[u].live
  BY <1>1 DEF JInv, FInv, OneLive, Live, Under
<1>3. QED
  BY <1>1, <1>2 DEF RequestOK

\* Request t of call c, or a task that is free, becomes q.
Replaces(c, t, q) ==
    /\ t \in Task /\ task'[t] = q /\ \A u \in Task : u # t => task'[u] = task[u]
    /\ q = Free \/ q.call = c
    /\ task[t] = Free \/ task[t].call = c

ServerKept == UNCHANGED <<tables, disk, cleaner>>

LEMMA ReplacesUnder ==
    ASSUME NEW c \in Call, NEW t, NEW q, Replaces(c, t, q)
    PROVE  /\ \A e \in Call : e # c => Requests(e)
           /\ Under(c)' = IF q = Free THEN Under(c) \ {t} ELSE Under(c) \cup {t}
<1>1. \A e \in Call : e # c => Requests(e)
  BY DEF Replaces, Requests, Under
<1>2. Under(c)' = IF q = Free THEN Under(c) \ {t} ELSE Under(c) \cup {t}
  BY DEF Replaces, Under
<1>3. QED
  BY <1>1, <1>2

LEMMA ClientCalls ==
    ASSUME JInv, ServerKept, History, NEW c \in Call, NEW x, CallGoesTo(c, x),
           \A e \in Call : e # c => Requests(e), CallInv(c)'
    PROVE  \A e \in Call : CallInv(e)'
<1> SUFFICES ASSUME NEW e \in Call, e # c PROVE CallInv(e)'
  OBVIOUS
<1>1. Data(e) /\ Cleaner(e)
  BY Unchanging DEF ServerKept, tables, disk
<1>2. QED
  BY <1>1, ApartInv DEF JInv, CallGoesTo

\* A request is asked, answered or given up.
LEMMA ReplacesCalls ==
    ASSUME JInv, ServerKept, History, NEW c \in Call, NEW x, CallGoesTo(c, x),
           NEW t, NEW q, Replaces(c, t, q), Past(c, t),
           q # Free => RequestOK(c, t)' /\ (c \notin cut => Entry(c, t)'),
           Knows(c)', Told(c)',
           task[t].at \in {"session", "rmdir", "merge"} => q # Free /\ q.at = task[t].at
    PROVE  \A e \in Call : CallInv(e)'
<1>1. /\ \A e \in Call : e # c => Requests(e)
      /\ Under(c)' = IF q = Free THEN Under(c) \ {t} ELSE Under(c) \cup {t}
  BY ReplacesUnder
<1>2. ASSUME NEW u \in Under(c)', u # t
      PROVE  /\ task'[u] = task[u] /\ u \in Under(c)
             /\ ~task[u].live /\ ~Initing(task[u]) /\ ~Ending(task[u])
  BY <1>1, <1>2 DEF Replaces, Past, Under
<1>3. UNCHANGED <<session, chunkRow, row, dir, chunk, blob, landing, cleaner>>
  BY DEF ServerKept, tables, disk
<1>4. Asked(c)'
  <2>1. \A u \in Under(c)' : u # t => RequestOK(c, u)'
    BY <1>2 DEF RequestOK
  <2>2. QED
    BY <1>1, <2>1 DEF Asked
<1>5. Picked(c)'
  BY <1>3 DEF JInv, CallInv, Picked, Cleaning
<1>6. ASSUME c \notin cut' PROVE Tidy(c)'
  <2>1. Tidy(c) /\ c \notin cut
    BY <1>6 DEF JInv, CallInv, History
  <2>2. \A u \in Under(c)' : Entry(c, u)'
    <3>1. ASSUME NEW u \in Under(c)', u # t PROVE Entry(c, u)'
      <4>1. Entry(c, u)
        BY <1>2, <2>1, <3>1 DEF Tidy
      <4>2. QED
        BY <1>2, <1>3, <3>1, <4>1 DEF Entry, Ending, Completing
    <3>2. QED
      BY <1>1, <2>1, <3>1
  <2>3. c \in dir' => session'[c].status = "pending" \/ \E u \in Under(c)' : task'[u].at \in {"session", "rmdir"}
    BY <1>1, <1>3, <2>1 DEF Tidy, Replaces, Under
  <2>4. HasFile(c)' => row'[c] # Absent \/ \E u \in Under(c)' : task'[u].at = "merge"
    BY <1>1, <1>3, <2>1 DEF Tidy, HasFile, Replaces, Under
  <2>5. QED
    BY <1>3, <2>1, <2>2, <2>3, <2>4 DEF Tidy, Cleaning
<1>7. CallInv(c)'
  BY <1>4, <1>5, <1>6 DEF CallInv
<1>8. QED
  BY <1>1, <1>7, ClientCalls

\* The call goes on alone.
LEMMA AloneCalls ==
    ASSUME JInv, ServerKept, History, task' = task, NEW c \in Call, NEW x, CallGoesTo(c, x),
           call[c].at \notin Hearing \cup Finishing, x.at \notin {"idle", "chunk", "again", "complete"},
           x.at = "ok" => x.file # Absent
    PROVE  \A e \in Call : CallInv(e)'
<1>1. \A e \in Call : Requests(e)
  BY DEF Requests
<1>2. UNCHANGED <<session, chunkRow, row, dir, chunk, blob, landing, cleaner>>
  BY DEF ServerKept, tables, disk
<1>3. CallInv(c) /\ call'[c] = x /\ Under(c)' = Under(c)
  BY DEF JInv, CallGoesTo, Under
<1>4. \A u \in Under(c) : ~task[u].live /\ ~Initing(task[u]) /\ ~Ending(task[u])
  <2>1. ASSUME NEW u \in Under(c)
        PROVE  ~task[u].live /\ ~Initing(task[u]) /\ ~Ending(task[u])
    <3>1. RequestOK(c, u) /\ u \in Task /\ task[u].call = c /\ task[u] # Free
      BY <1>3 DEF CallInv, Asked, Under
    <3>2. ~task[u].live
      BY <3>1 DEF JInv, FInv, OneLive, Live
    <3>3. QED
      BY <3>1, <3>2 DEF RequestOK, Finishing
  <2>2. QED
    BY <2>1
<1>5. Asked(c)' /\ Knows(c)'
  BY <1>3, <1>4 DEF Asked, RequestOK, Knows
<1>6. Told(c)'
  BY <1>2, <1>3 DEF Told, JInv, FInv, Recorded
<1>7. Picked(c)' /\ (Tidy(c) => Tidy(c)')
  <2>1. \A u \in Under(c) : Entry(c, u) => Entry(c, u)'
    BY <1>2, <1>4 DEF Entry, Ending, Completing
  <2>2. QED
    BY <1>2, <1>3, <2>1 DEF CallInv, Picked, Tidy, HasFile, Cleaning
<1>8. CallInv(c)'
  BY <1>3, <1>5, <1>6, <1>7 DEF CallInv, History
<1>9. QED
  BY <1>1, <1>8, ClientCalls

-----------------------------------------------------------------------------
(* The clients' steps: types, and the files of the client.                 *)

Counting == UNCHANGED <<slow, torn>> /\ (faults' = faults \/ \E kind \in FaultKind : Fault(kind))

LEMMA CountsKept ==
    ASSUME Counts, Counting
    PROVE  Counts'
<1>1. faults \in 0 .. MaxFaults[slow] /\ MaxFaults[slow] \in Nat
  BY FileSyncAssumption DEF Counts
<1>2. faults' \in 0 .. MaxFaults[slow]
  BY <1>1 DEF Counting, Fault
<1>3. QED
  BY <1>2 DEF Counts, Counting

\* What a call becomes, as far as types go.
Becoming(x) == CallOK(x) /\ (x.at \in Downloading => row[x.file] # Absent)

LEMMA ClientsKept ==
    ASSUME JInv, row' = row, NEW c \in Call, NEW x, CallGoesTo(c, x), Becoming(x),
           inode' \in [Inode -> [Index -> Book \cup {Absent}]],
           part' \in Inode \cup {0}, dest' \in Inode \cup {0}
    PROVE  Clients'
<1>1. \A e \in Call : CallOK(call'[e])
  BY DEF JInv, Typed, Clients, CallGoesTo, Becoming
<1>2. \A e \in Call : call'[e].at \in Downloading => row'[call'[e].file] # Absent
  BY DEF JInv, Typed, Clients, CallGoesTo, Becoming
<1>3. QED
  BY <1>1, <1>2 DEF Clients

\* Nothing but a download touches the files.
Aside(c, x) ==
    /\ UNCHANGED <<inode, dest, clash>> /\ part' \in {part, 0}
    /\ call[c].at # "ok"
    /\ x.at \in Downloading \/ part' # part => call[c].at \in Downloading
    /\ ~clash => /\ x.fd # 0 => x.fd = part'
                 /\ x.at = "rename" => part' # 0 /\ inode[part'] = Content(x.book)

LEMMA DestKept ==
    ASSUME JInv, DestInv, NEW c \in Call, NEW x, CallGoesTo(c, x), Aside(c, x)
    PROVE  DestInv'
<1> SUFFICES ASSUME ~clash PROVE DestInv'
  BY DEF DestInv, Aside
<1>1. OneDownload /\ (\A e \in Call : Verified(e)) /\ (part # 0 => part # dest) /\ DestIsWhole
  BY DEF DestInv
<1>2. OneDownload'
  BY <1>1 DEF OneDownload, CallGoesTo, Aside
<1>3. ASSUME NEW e \in Call PROVE Verified(e)'
  <2>1. CASE e = c
    BY <2>1 DEF Verified, CallGoesTo, Aside
  <2>2. CASE e # c
    <3>1. call'[e] = call[e] /\ Verified(e)
      BY <1>1, <2>2 DEF CallGoesTo
    <3>2. CASE part' = part
      BY <3>1, <3>2 DEF Verified, Aside
    <3>3. CASE part' # part
      <4>1. call[e].at \notin Downloading /\ CallOK(call[e])
        BY <1>1, <2>2, <3>3 DEF OneDownload, Aside, JInv, Typed, Clients
      <4>2. call[e].fd = 0 /\ call[e].at # "rename"
        BY <4>1 DEF CallOK, Downloading
      <4>3. QED
        BY <3>1, <4>2 DEF Verified
    <3>4. QED
      BY <3>2, <3>3
  <2>3. QED
    BY <2>1, <2>2
<1>4. DestIsWhole'
  BY <1>1 DEF DestIsWhole, CallGoesTo, Aside
<1>5. QED
  BY <1>1, <1>2, <1>3, <1>4 DEF DestInv, Aside

\* Types, when a call becomes x and the tasks are well typed.
LEMMA TypedKept ==
    ASSUME JInv, ServerKept, Counting, Clients',
           \A t \in Task : task'[t] # Free => TaskOK(task'[t])
    PROVE  Typed'
<1>1. Tables'
  BY DEF JInv, Typed, Tables, Listed, ServerKept, tables, disk
<1>2. CleanerOK'
  BY DEF JInv, Typed, CleanerOK, ServerKept
<1>3. Counts'
  BY CountsKept DEF JInv, Typed
<1>4. QED
  BY <1>1, <1>2, <1>3 DEF Typed

LEMMA AsideStep ==
    ASSUME JInv, DestInv, ServerKept, Counting, NEW c \in Call, NEW x, CallGoesTo(c, x),
           Becoming(x), Aside(c, x),
           \A t \in Task : task'[t] # Free => TaskOK(task'[t]),
           \A e \in Call : CallInv(e)'
    PROVE  GInv'
<1>1. /\ inode' \in [Inode -> [Index -> Book \cup {Absent}]]
      /\ part' \in Inode \cup {0} /\ dest' \in Inode \cup {0}
  BY DEF JInv, Typed, Clients, Aside
<1>2. row' = row
  BY DEF ServerKept, tables
<1>3. Clients'
  BY <1>1, <1>2, ClientsKept
<1>4. Typed'
  BY <1>3, TypedKept
<1>5. DestInv'
  BY DestKept
<1>6. QED
  BY <1>4, <1>5 DEF GInv

\* Request t of call c becomes q, and the call x.
LEMMA ReplacesStep ==
    ASSUME JInv, DestInv, ServerKept, Counting, History, NEW c \in Call, NEW x, CallGoesTo(c, x),
           Becoming(x), Aside(c, x), NEW t, NEW q, Replaces(c, t, q), Past(c, t),
           q # Free => TaskOK(q) /\ RequestOK(c, t)' /\ (c \notin cut => Entry(c, t)'),
           Knows(c)', Told(c)',
           task[t].at \in {"session", "rmdir", "merge"} => q # Free /\ q.at = task[t].at
    PROVE  GInv'
<1>1. \A e \in Call : CallInv(e)'
  BY ReplacesCalls
<1>2. \A u \in Task : task'[u] # Free => TaskOK(task'[u])
  BY DEF Replaces, JInv, Typed
<1>3. QED
  BY <1>1, <1>2, AsideStep

-----------------------------------------------------------------------------
(* Uploads.                                                                *)

LEMMA AskFacts ==
    ASSUME JInv, NEW c \in Call, NEW t \in Task, task[t] = Free \/ task[t].call = c,
           NEW kind, kind # "free", NEW i, NEW b, Ask(t, Request(kind, c, i, b))
    PROVE  \E q : /\ Replaces(c, t, q) /\ q # Free /\ q.call = c /\ q.at = kind /\ q.live
                  /\ q.ix = i /\ q.data = b /\ q.got = << >>
<1> DEFINE q == Request(kind, c, i, b)
<1>1. task'[t] = q /\ \A u \in Task : u # t => task'[u] = task[u]
  BY DEF Ask, JInv, FInv, Shapes
<1>2. q.call = c /\ q.at = kind /\ q.live /\ q.ix = i /\ q.data = b /\ q.got = << >>
  BY DEF Request
<1> HIDE DEF q
<1>3. q # Free
  BY <1>2 DEF Free
<1>4. QED
  BY <1>1, <1>2, <1>3 DEF Replaces

LEMMA DoneFacts ==
    ASSUME JInv, NEW c \in Call, NEW t \in Task, task[t].call = c, Done(t)
    PROVE  Replaces(c, t, Free)
  BY DEF Done, Ask, Replaces, JInv, FInv, Shapes

\* The answer that a call waits for.
LEMMA WaitsFacts ==
    ASSUME JInv, NEW c \in Call, NEW t \in Task, NEW kind \in Hearing, Waits(c, t, kind)
    PROVE  /\ task[t].call = c /\ t \in Under(c) /\ task[t].live /\ call[c].at = kind
           /\ CallOK(call[c]) /\ CallInv(c) /\ RequestOK(c, t)
           /\ (c \notin cut => Entry(c, t)) /\ Past(c, t)
           /\ kind # "complete" => row[c] = Absent
<1>1. task[t].call = c /\ t \in Under(c) /\ task[t].live /\ call[c].at = kind /\ task[t] # Free
  BY DEF Waits, Under
<1>2. CallOK(call[c]) /\ CallInv(c) /\ RequestOK(c, t) /\ (c \notin cut => Entry(c, t))
  BY <1>1, TaskFacts DEF JInv, Typed, Clients
<1>3. Past(c, t)
  BY <1>1, OthersPast DEF Hearing
<1>4. kind # "complete" => row[c] = Absent
  BY <1>1 DEF JInv, FInv, Recorded, Finishing, Hearing
<1>5. QED
  BY <1>1, <1>2, <1>3, <1>4

\* The call gives up, and so does its request.
LEMMA FailDone ==
    ASSUME JInv, DestInv, ServerKept, Counting, History, UNCHANGED <<inode, part, dest, clash>>,
           NEW c \in Call, NEW t \in Task, NEW kind \in {"init", "chunk", "complete"}, Waits(c, t, kind),
           task[t].at \in Failure \cup {"ok"}, kind = "complete" => row[c] = Absent \/ c \in unsure,
           Fail(c), Done(t)
    PROVE  GInv'
<1>1. /\ task[t].call = c /\ call[c].at = kind /\ Past(c, t)
      /\ kind # "complete" => row[c] = Absent
  BY WaitsFacts DEF Hearing
<1>2. PICK x : CallGoesTo(c, x) /\ x.at = "failed" /\ x.fd = 0
  BY FailFacts
<1>3. Replaces(c, t, Free)
  BY <1>1, DoneFacts
<1>4. Becoming(x) /\ Aside(c, x)
  BY <1>1, <1>2 DEF Becoming, CallOK, Aside, CallGoesTo, Downloading
<1>5. Knows(c)' /\ Told(c)'
  BY <1>1, <1>2 DEF Knows, Told, CallGoesTo, ServerKept, tables, History
<1>6. QED
  BY <1>1, <1>2, <1>3, <1>4, <1>5, ReplacesStep DEF Failure

LEMMA SendChunkStep ==
    ASSUME JInv, DestInv, ServerKept, UNCHANGED <<slow, torn>>, History,
           UNCHANGED <<inode, part, dest, clash>>,
           NEW c \in Call, NEW t \in Task, NEW kind \in {"init", "chunk"}, Waits(c, t, kind),
           At(t, "ok"), NEW i \in Index, SendChunk(c, t, i)
    PROVE  GInv'
<1>1. /\ task[t].call = c /\ call[c].at = kind /\ Past(c, t) /\ CallOK(call[c])
      /\ CallInv(c) /\ RequestOK(c, t) /\ task[t].live /\ task[t].at = "ok"
  BY WaitsFacts DEF Hearing, At
<1>2. ASSUME NEW d \in Book, ReadChunk(c, d), Ask(t, Request("chunk", c, i, d)),
             call' = [call EXCEPT ![c] = [@ EXCEPT !.at = "chunk", !.ix = i,
                                                   !.data = d, !.tries = 0]]
      PROVE  GInv'
  <2> DEFINE y == [call[c] EXCEPT !.at = "chunk"]
             z == [y EXCEPT !.ix = i]
             v == [z EXCEPT !.data = d]
             w == [v EXCEPT !.tries = 0]
  <2>1. call' = [call EXCEPT ![c] = w]
    BY <1>2
  <2>2. y \in CallRecord /\ y.at = "chunk" /\ Same(y, call[c]) /\ y.fd = call[c].fd
    BY CallType DEF CallRecord, CallAt, Same
  <2> HIDE DEF y
  <2>3. z \in CallRecord /\ z.at = y.at /\ Same(z, y) /\ z.fd = y.fd /\ z.ix = i
    BY <2>2, FileServerAssumption DEF CallRecord, Same, Index
  <2> HIDE DEF z
  <2>4. v \in CallRecord /\ v.at = z.at /\ Same(v, z) /\ v.fd = z.fd /\ v.ix = z.ix /\ v.data = d
    BY <2>3 DEF CallRecord, Same
  <2> HIDE DEF v
  <2>5. w \in CallRecord /\ w.at = v.at /\ Same(w, v) /\ w.fd = v.fd /\ w.ix = v.ix /\ w.data = v.data
    BY <2>4 DEF CallRecord, Same
  <2> HIDE DEF w
  <2>6. PICK x : x = w
    OBVIOUS
  <2>7. x \in CallRecord /\ x.at = "chunk" /\ Same(x, call[c]) /\ x.fd = call[c].fd /\ x.ix = i /\ x.data = d
    BY <2>2, <2>3, <2>4, <2>5, <2>6 DEF Same
  <2>8. CallGoesTo(c, x)
    BY <2>1, <2>6, <2>7, CallType DEF CallGoesTo
  <2>9. PICK q : /\ Replaces(c, t, q) /\ q # Free /\ q.call = c /\ q.at = "chunk" /\ q.live
                 /\ q.ix = i /\ q.data = d /\ q.got = << >>
    BY <1>1, <1>2, AskFacts
  <2>10. Becoming(x) /\ Aside(c, x)
    BY <1>1, <2>7 DEF Becoming, CallOK, Aside, Downloading, Same
  <2>11. Counting
    BY <1>2 DEF ReadChunk, Counting, FaultKind
  <2>12. session[c].sha = call[c].book
    BY <1>1 DEF RequestOK, CallInv, Knows
  <2>13. Knows(c)' /\ Told(c)'
    BY <2>7, <2>8, <2>12 DEF Knows, Told, CallGoesTo, ServerKept, tables, Same
  <2>14. TaskOK(q)
    BY <2>9 DEF TaskOK, Initing, Chunking, Working
  <2>15. RequestOK(c, t)'
    <3>1. task'[t] = q /\ call'[c].at = "chunk"
      BY <2>7, <2>8, <2>9 DEF Replaces, CallGoesTo
    <3>2. QED
      BY <2>9, <3>1, PhaseFacts DEF RequestOK, Initing, Ending, Completing, Failure
  <2>16. Entry(c, t)'
    BY <2>9 DEF Replaces, Entry, Ending, Completing
  <2>17. QED
    BY <1>1, <2>8, <2>9, <2>10, <2>11, <2>13, <2>14, <2>15, <2>16, ReplacesStep
<1>3. CASE Fault("local") /\ Fail(c) /\ Done(t)
  <2>1. Counting
    BY <1>3 DEF Counting, FaultKind
  <2>2. QED
    BY <1>1, <1>3, <2>1, FailDone
<1>4. QED
  BY <1>2, <1>3 DEF SendChunk

LEMMA StartUploadStep ==
    ASSUME JInv, DestInv, NEW c \in Call, StartUpload(c)
    PROVE  GInv'
<1>1. PICK b \in Book, t \in Task :
          /\ task[t] = Free
          /\ Ask(t, Request("init", c, 0, b))
          /\ call' = [call EXCEPT ![c] = [Idle EXCEPT !.at = "init", !.book = b]]
  BY DEF StartUpload
<1>2. /\ call[c].at = "idle" /\ ServerKept /\ Counting /\ History
      /\ UNCHANGED <<inode, part, dest, clash, unsure>>
  BY DEF StartUpload, MayStart, ServerKept, Counting, History, history
<1>3. PICK x : x = [Idle EXCEPT !.at = "init", !.book = b]
  OBVIOUS
<1>4. /\ x \in CallRecord /\ x.at = "init" /\ x.book = b /\ x.fd = 0
  <2>1. x = [at |-> "init", book |-> b, file |-> Absent, ix |-> 0,
             data |-> Absent, tries |-> 0, fd |-> 0]
    BY <1>3 DEF Idle
  <2>2. 0 \in 0 .. Chunks
    BY FileServerAssumption
  <2>3. QED
    BY <2>1, <2>2 DEF CallRecord, CallAt
<1>5. CallGoesTo(c, x)
  BY <1>1, <1>3, <1>4, CallType DEF CallGoesTo
<1>6. PICK q : /\ Replaces(c, t, q) /\ q # Free /\ q.call = c /\ q.at = "init" /\ q.live
               /\ q.ix = 0 /\ q.data = b /\ q.got = << >>
  BY <1>1, AskFacts
<1>7. CallInv(c) /\ row[c] = Absent
  BY <1>2 DEF JInv, FInv, Recorded, Finishing
<1>8. Under(c) = {} /\ session[c].status = "none" /\ chunkRow[c] = {}
  BY <1>2, <1>7 DEF CallInv, Knows
<1>9. Past(c, t)
  BY <1>8 DEF Past
<1>10. Becoming(x) /\ Aside(c, x)
  BY <1>2, <1>4 DEF Becoming, CallOK, Aside, Downloading
<1>11. Knows(c)' /\ Told(c)'
  BY <1>4, <1>5 DEF Knows, Told, CallGoesTo
<1>12. TaskOK(q)
  BY <1>6 DEF TaskOK, Initing, Chunking, Working
<1>13. RequestOK(c, t)'
  <2>1. Under(c)' = {t}
    BY <1>6, <1>8, ReplacesUnder
  <2>2. task'[t] = q /\ call'[c] = x
    BY <1>5, <1>6 DEF Replaces, CallGoesTo
  <2>3. UNCHANGED <<session, chunkRow, row>>
    BY <1>2 DEF ServerKept, tables
  <2>4. QED
    BY <1>4, <1>6, <1>7, <1>8, <2>1, <2>2, <2>3, PhaseFacts
       DEF RequestOK, Initing, Ending, Completing, Failure
<1>14. Entry(c, t)'
  BY <1>6 DEF Replaces, Entry, Ending, Completing
<1>15. task[t].at \notin {"session", "rmdir", "merge"}
  BY <1>1 DEF Free
<1>16. QED
  BY <1>2, <1>5, <1>6, <1>9, <1>10, <1>11, <1>12, <1>13, <1>14, <1>15, ReplacesStep

LEMMA InitAnsweredStep ==
    ASSUME JInv, DestInv, NEW c \in Call, NEW t \in Task, InitAnswered(c, t)
    PROVE  GInv'
<1>1. /\ ServerKept /\ History /\ UNCHANGED <<inode, part, dest, clash, slow, torn>>
      /\ Waits(c, t, "init")
  BY DEF InitAnswered, ServerKept, History, history
<1>2. CASE At(t, "ok") /\ SendChunk(c, t, 1)
  BY <1>1, <1>2, SendChunkStep, FileServerAssumption DEF Index
<1>3. CASE task[t].at \in Failure /\ Fail(c) /\ Done(t) /\ UNCHANGED faults
  BY <1>1, <1>3, FailDone DEF Counting
<1>4. QED
  BY <1>2, <1>3 DEF InitAnswered

\* The chunk is sent again later, or the upload fails.
LEMMA RetryDone ==
    ASSUME JInv, DestInv, ServerKept, Counting, History, UNCHANGED <<inode, part, dest, clash>>,
           NEW c \in Call, NEW t \in Task, Waits(c, t, "chunk"), Retry(c),
           NEW q, Replaces(c, t, q),
           q # Free => TaskOK(q) /\ RequestOK(c, t)' /\ (c \notin cut => Entry(c, t)')
    PROVE  GInv'
<1>1. /\ task[t].call = c /\ call[c].at = "chunk" /\ Past(c, t) /\ CallOK(call[c])
      /\ CallInv(c) /\ RequestOK(c, t) /\ task[t].live /\ row[c] = Absent
  BY WaitsFacts DEF Hearing
<1>2. call[c].fd = 0
  BY <1>1 DEF CallOK
<1>3. PICK x : CallGoesTo(c, x) /\ SameChunk(x, call[c]) /\ x.at \in {"again", "failed"} /\ x.fd = 0
  BY <1>2, RetryFacts
<1>4. Becoming(x) /\ Aside(c, x)
  BY <1>1, <1>3 DEF Becoming, CallOK, Aside, CallGoesTo, Downloading, SameChunk, Same
<1>5. session[c].sha = call[c].book
  BY <1>1 DEF CallInv, Knows
<1>6. Knows(c)' /\ Told(c)'
  BY <1>1, <1>3, <1>5 DEF Knows, Told, CallGoesTo, ServerKept, tables, SameChunk, Same
<1>7. task[t].at \notin {"session", "rmdir", "merge"}
  <2>1. task[t].at \in Phase("chunk")
    BY <1>1 DEF RequestOK
  <2>2. QED
    BY <2>1, PhaseFacts DEF Failure
<1>8. QED
  BY <1>1, <1>3, <1>4, <1>6, <1>7, ReplacesStep

LEMMA AskComplete ==
    ASSUME JInv, DestInv, ServerKept, Counting, History, UNCHANGED <<inode, part, dest, clash>>,
           NEW c \in Call, NEW t \in Task, Waits(c, t, "chunk"), At(t, "ok"),
           Ask(t, Request("complete", c, 0, Absent)), Goto(c, "complete")
    PROVE  GInv'
<1>1. /\ task[t].call = c /\ call[c].at = "chunk" /\ Past(c, t) /\ CallOK(call[c])
      /\ CallInv(c) /\ task[t].live /\ task[t].at = "ok" /\ row[c] = Absent
      /\ (c \notin cut => Entry(c, t))
  BY WaitsFacts DEF Hearing, At
<1>2. PICK x : CallGoesTo(c, x) /\ SameChunk(x, call[c]) /\ x.at = "complete" /\ x.fd = call[c].fd
  BY GotoFacts DEF CallAt
<1>3. PICK q : /\ Replaces(c, t, q) /\ q # Free /\ q.call = c /\ q.at = "complete" /\ q.live
               /\ q.got = << >>
  BY <1>1, AskFacts
<1>4. Becoming(x) /\ Aside(c, x)
  BY <1>1, <1>2 DEF Becoming, CallOK, Aside, CallGoesTo, Downloading, SameChunk, Same
<1>5. session[c].sha = call[c].book /\ call[c].book \in Book
  BY <1>1 DEF CallInv, Knows, CallOK
<1>6. Knows(c)' /\ Told(c)'
  BY <1>1, <1>2, <1>5 DEF Knows, Told, CallGoesTo, ServerKept, tables, SameChunk, Same
<1>7. TaskOK(q)
  BY <1>3, FileServerAssumption DEF TaskOK, Initing, Chunking, Working
<1>8. task'[t] = q /\ call'[c] = x /\ session' = session /\ dir' = dir
  BY <1>2, <1>3 DEF Replaces, CallGoesTo, ServerKept, tables, disk
<1>9. RequestOK(c, t)'
  BY <1>2, <1>3, <1>5, <1>8, PhaseFacts DEF RequestOK, Initing, Ending, Completing, Failure
<1>10. ASSUME c \notin cut PROVE Entry(c, t)'
  BY <1>1, <1>3, <1>8, <1>10 DEF Entry
<1>11. QED
  BY <1>1, <1>2, <1>3, <1>4, <1>6, <1>7, <1>9, <1>10, ReplacesStep

LEMMA ChunkAnsweredStep ==
    ASSUME JInv, DestInv, NEW c \in Call, NEW t \in Task, ChunkAnswered(c, t)
    PROVE  GInv'
<1>1. /\ ServerKept /\ History /\ UNCHANGED <<inode, part, dest, clash, slow, torn>>
      /\ Waits(c, t, "chunk")
  BY DEF ChunkAnswered, ServerKept, History, history
<1>2. task[t].call = c /\ CallOK(call[c]) /\ call[c].at = "chunk"
  BY <1>1, WaitsFacts DEF Hearing
<1>3. CASE At(t, "ok") /\ call[c].ix < Chunks /\ SendChunk(c, t, call[c].ix + 1)
  <2>1. call[c].ix + 1 \in Index
    BY <1>2, <1>3, FileServerAssumption DEF CallOK, Index
  <2>2. QED
    BY <1>1, <1>3, <2>1, SendChunkStep
<1>4. CASE /\ At(t, "ok") /\ call[c].ix = Chunks
           /\ Ask(t, Request("complete", c, 0, Absent))
           /\ Goto(c, "complete") /\ UNCHANGED faults
  BY <1>1, <1>4, AskComplete DEF Counting
<1>5. CASE task[t].at \in Failure /\ Retry(c) /\ Done(t) /\ UNCHANGED faults
  BY <1>1, <1>2, <1>5, DoneFacts, RetryDone DEF Counting
<1>6. QED
  BY <1>3, <1>4, <1>5 DEF ChunkAnswered

LEMMA ResendChunkStep ==
    ASSUME JInv, DestInv, NEW c \in Call, ResendChunk(c)
    PROVE  GInv'
<1>1. /\ call[c].at = "again" /\ Goto(c, "chunk") /\ ServerKept /\ Counting /\ History
      /\ UNCHANGED <<inode, part, dest, clash>>
  BY DEF ResendChunk, ServerKept, Counting, History, history
<1>2. PICK t \in Task : task[t] = Free /\ Ask(t, Request("chunk", c, call[c].ix, call[c].data))
  BY DEF ResendChunk
<1>3. CallInv(c) /\ CallOK(call[c])
  BY DEF JInv, Typed, Clients
<1>4. PICK x : CallGoesTo(c, x) /\ SameChunk(x, call[c]) /\ x.at = "chunk" /\ x.fd = call[c].fd
  BY <1>1, GotoFacts DEF CallAt
<1>5. PICK q : /\ Replaces(c, t, q) /\ q # Free /\ q.call = c /\ q.at = "chunk" /\ q.live
               /\ q.ix = call[c].ix /\ q.data = call[c].data
  BY <1>2, AskFacts
<1>6. Past(c, t)
  BY <1>1, OthersPast DEF Hearing
<1>7. Becoming(x) /\ Aside(c, x)
  BY <1>1, <1>3, <1>4 DEF Becoming, CallOK, Aside, CallGoesTo, Downloading, SameChunk, Same
<1>8. Knows(c)' /\ Told(c)'
  BY <1>1, <1>3, <1>4 DEF CallInv, Knows, Told, CallGoesTo, ServerKept, tables, SameChunk, Same
<1>9. TaskOK(q)
  BY <1>1, <1>3, <1>5 DEF TaskOK, Initing, Chunking, Working, CallOK
<1>10. task'[t] = q /\ call'[c].at = "chunk"
  BY <1>4, <1>5 DEF Replaces, CallGoesTo
<1>11. RequestOK(c, t)'
  BY <1>5, <1>10, PhaseFacts DEF RequestOK, Initing, Ending, Completing, Failure
<1>12. Entry(c, t)'
  BY <1>5, <1>10 DEF Entry, Ending, Completing
<1>13. task[t].at \notin {"session", "rmdir", "merge"}
  BY <1>2 DEF Free
<1>14. QED
  BY <1>1, <1>4, <1>5, <1>6, <1>7, <1>8, <1>9, <1>11, <1>12, <1>13, ReplacesStep

LEMMA CompleteAnsweredStep ==
    ASSUME JInv, DestInv, NEW c \in Call, NEW t \in Task, CompleteAnswered(c, t)
    PROVE  GInv'
<1>1. /\ ServerKept /\ History /\ Counting /\ UNCHANGED <<inode, part, dest, clash>>
      /\ Waits(c, t, "complete") /\ Done(t)
  BY DEF CompleteAnswered, ServerKept, Counting, History, history
<1>2. /\ task[t].call = c /\ CallOK(call[c]) /\ call[c].at = "complete" /\ task[t].live
      /\ RequestOK(c, t) /\ Past(c, t)
  BY <1>1, WaitsFacts DEF Hearing
<1>3. CASE At(t, "ok") /\ Goto(c, "ok")
  <2>1. PICK x : CallGoesTo(c, x) /\ SameChunk(x, call[c]) /\ x.at = "ok" /\ x.fd = call[c].fd
    BY <1>3, GotoFacts DEF CallAt
  <2>2. Replaces(c, t, Free)
    BY <1>1, <1>2, DoneFacts
  <2>3. Becoming(x) /\ Aside(c, x)
    BY <1>1, <1>2, <2>1 DEF Becoming, CallOK, Aside, CallGoesTo, Downloading
  <2>4. row[c] # Absent /\ row[c].sha = call[c].book
    BY <1>2, <1>3 DEF RequestOK, At
  <2>5. Knows(c)' /\ Told(c)'
    BY <1>1, <2>1, <2>4 DEF Knows, Told, CallGoesTo, ServerKept, tables, SameChunk, Same
  <2>6. task[t].at = "ok"
    BY <1>3 DEF At
  <2>7. QED
    BY <1>1, <1>2, <2>1, <2>2, <2>3, <2>5, <2>6, ReplacesStep
<1>4. CASE task[t].at \in Failure /\ Fail(c)
  <2>1. row[c] = Absent \/ c \in unsure
    BY <1>2, <1>4 DEF RequestOK
  <2>2. QED
    BY <1>1, <1>4, <2>1, FailDone
<1>5. QED
  BY <1>3, <1>4 DEF CompleteAnswered

-----------------------------------------------------------------------------
(* Downloads.                                                              *)

LEMMA StartDownloadStep ==
    ASSUME JInv, DestInv, NEW c \in Call, StartDownload(c)
    PROVE  GInv'
<1>1. PICK f \in Active :
          call' = [call EXCEPT ![c] = [Idle EXCEPT !.at = "create", !.book = row[f].sha, !.file = f]]
  BY DEF StartDownload
<1>2. /\ call[c].at = "idle" /\ ServerKept /\ Counting /\ History /\ task' = task
      /\ UNCHANGED <<inode, part, dest, unsure>>
      /\ clash' = (clash \/ \E e \in Call : call[e].at \in Downloading)
  BY DEF StartDownload, MayStart, ServerKept, Counting, History, server, tables, disk
<1>3. f \in FileId /\ f # Absent /\ row[f] # Absent /\ row[f].sha \in Book
  BY FileServerAssumption DEF Active, FileId, JInv, Typed, Tables, Listed
<1>4. PICK x : x = [Idle EXCEPT !.at = "create", !.book = row[f].sha, !.file = f]
  OBVIOUS
<1>5. x \in CallRecord /\ x.at = "create" /\ x.book = row[f].sha /\ x.file = f /\ x.fd = 0
  <2>1. x = [at |-> "create", book |-> row[f].sha, file |-> f, ix |-> 0,
             data |-> Absent, tries |-> 0, fd |-> 0]
    BY <1>4 DEF Idle
  <2>2. 0 \in 0 .. Chunks
    BY FileServerAssumption
  <2>3. QED
    BY <1>3, <2>1, <2>2 DEF CallRecord, CallAt
<1>6. CallGoesTo(c, x)
  BY <1>1, <1>4, <1>5, CallType DEF CallGoesTo
<1>7. \A e \in Call : CallInv(e)'
  BY <1>2, <1>5, <1>6, AloneCalls DEF Hearing, Finishing
<1>8. Clients'
  <2>1. Becoming(x)
    BY <1>3, <1>5 DEF Becoming, CallOK
  <2>2. QED
    BY <1>2, <1>6, <2>1, ClientsKept DEF ServerKept, tables, JInv, Typed, Clients
<1>9. Typed'
  BY <1>2, <1>8, TypedKept DEF JInv, Typed
<1>10. DestInv'
  <2>1. SUFFICES ASSUME ~clash, \A e \in Call : call[e].at \notin Downloading PROVE DestInv'
    BY <1>2 DEF DestInv
  <2>2. (\A e \in Call : Verified(e)) /\ (part # 0 => part # dest) /\ DestIsWhole
    BY <2>1 DEF DestInv
  <2>3. OneDownload'
    BY <1>6, <2>1 DEF OneDownload, CallGoesTo
  <2>4. \A e \in Call : Verified(e)'
    BY <1>2, <1>5, <1>6, <2>2 DEF Verified, CallGoesTo
  <2>5. DestIsWhole'
    BY <1>2, <1>6, <2>1, <2>2 DEF DestIsWhole, CallGoesTo
  <2>6. QED
    BY <1>2, <2>2, <2>3, <2>4, <2>5 DEF DestInv
<1>11. QED
  BY <1>7, <1>9, <1>10 DEF GInv

\* A call that has no file open finds a free one.
LEMMA Fresh ==
    ASSUME JInv, NEW c \in Call, call[c].fd = 0, part = 0
    PROVE  FreshInode \in Inode /\ FreshInode \notin InUse
<1> DEFINE used == [e \in Call |-> IF e = c THEN dest ELSE call[e].fd]
           T == {used[e] : e \in Call}
<1>1. IsFiniteSet(T) /\ Cardinality(T) <= Cardinality(Call)
  <2>1. used \in Surjection(Call, T)
    BY DEF Surjection
  <2>2. QED
    BY <2>1, FS_Surjection, FileServerAssumption
<1>2. Cardinality(Call) \in Nat /\ Cardinality(T) \in Nat
  BY <1>1, FS_CardinalityType, FileServerAssumption
<1>3. Cardinality(Inode) = Cardinality(Call) + 1
  BY <1>2, FS_Interval DEF Inode
<1>4. ~(Inode \subseteq T)
  <2>1. SUFFICES ASSUME Inode \subseteq T PROVE FALSE
    OBVIOUS
  <2>2. Cardinality(Inode) <= Cardinality(T)
    BY <1>1, <2>1, FS_Subset
  <2>3. QED
    BY <1>1, <1>2, <1>3, <2>2
<1>5. InUse \subseteq T \cup {0}
  <2>1. dest = used[c] /\ \A e \in Call : e # c => call[e].fd = used[e]
    OBVIOUS
  <2>2. QED
    BY <2>1 DEF InUse
<1>6. Inode \ InUse # {}
  BY <1>2, <1>4, <1>5 DEF Inode
<1>7. QED
  BY <1>6 DEF FreshInode

LEMMA CreatePartStep ==
    ASSUME JInv, DestInv, NEW c \in Call, CreatePart(c)
    PROVE  GInv'
<1>1. PICK n : n = IF part # 0 THEN part ELSE FreshInode
  OBVIOUS
<1>2. /\ call[c].at = "create" /\ ServerKept /\ Counting /\ History
      /\ UNCHANGED <<dest, clash, unsure>>
      /\ inode' = [inode EXCEPT ![n] = Hole] /\ part' = n
      /\ call' = [call EXCEPT ![c] = [@ EXCEPT !.at = "get", !.ix = 0, !.fd = n]]
  BY <1>1 DEF CreatePart, ServerKept, Counting, History, history
<1>3. PICK t \in Task : task[t] = Free /\ Ask(t, Request("download", c, 0, call[c].file))
  BY DEF CreatePart
<1>4. /\ CallInv(c) /\ CallOK(call[c]) /\ row[call[c].file] # Absent
      /\ part \in Inode \cup {0} /\ dest \in Inode \cup {0}
      /\ inode \in [Inode -> [Index -> Book \cup {Absent}]]
      /\ row[c] = Absent
  BY <1>2 DEF JInv, Typed, Clients, Downloading, FInv, Recorded, Finishing
<1>5. call[c].fd = 0
  BY <1>2, <1>4 DEF CallOK
<1>6. n \in Inode /\ n # 0 /\ (part = 0 => n \notin InUse)
  BY <1>1, <1>4, <1>5, Fresh DEF Inode
<1>7. \E x : /\ CallGoesTo(c, x) /\ Same(x, call[c]) /\ x.at = "get" /\ x.ix = 0 /\ x.fd = n
  <2> DEFINE y == [call[c] EXCEPT !.at = "get"]
             z == [y EXCEPT !.ix = 0]
             w == [z EXCEPT !.fd = n]
  <2>1. call' = [call EXCEPT ![c] = w]
    BY <1>2
  <2>2. y \in CallRecord /\ y.at = "get" /\ Same(y, call[c])
    BY CallType DEF CallRecord, CallAt, Same
  <2> HIDE DEF y
  <2>3. 0 \in 0 .. Chunks
    BY FileServerAssumption
  <2>4. z \in CallRecord /\ z.at = y.at /\ Same(z, y) /\ z.ix = 0
    BY <2>2, <2>3 DEF CallRecord, Same
  <2> HIDE DEF z
  <2>5. w \in CallRecord /\ w.at = z.at /\ Same(w, z) /\ w.ix = z.ix /\ w.fd = n
    BY <1>6, <2>4 DEF CallRecord, Same
  <2> HIDE DEF w
  <2>6. CallGoesTo(c, w)
    BY <2>1, <2>5, CallType DEF CallGoesTo
  <2>7. QED
    BY <2>2, <2>4, <2>5, <2>6 DEF Same
<1>8. PICK x : /\ CallGoesTo(c, x) /\ Same(x, call[c]) /\ x.at = "get" /\ x.ix = 0 /\ x.fd = n
  BY <1>7
<1>9. PICK q : /\ Replaces(c, t, q) /\ q # Free /\ q.call = c /\ q.at = "download" /\ q.live
  BY <1>3, AskFacts
<1>10. TaskOK(q)
  BY <1>9 DEF TaskOK, Initing, Chunking, Working
<1>11. \A e \in Call : CallInv(e)'
  <2>1. Past(c, t)
    BY <1>2, OthersPast DEF Hearing
  <2>2. task'[t] = q /\ call'[c] = x
    BY <1>8, <1>9 DEF Replaces, CallGoesTo
  <2>3. RequestOK(c, t)' /\ Entry(c, t)'
    BY <1>8, <1>9, <2>2, PhaseFacts DEF RequestOK, Entry, Initing, Ending, Completing, Failure
  <2>4. Knows(c)' /\ Told(c)'
    BY <1>8, <2>2 DEF Knows, Told
  <2>5. task[t].at \notin {"session", "rmdir", "merge"}
    BY <1>3 DEF Free
  <2>6. QED
    BY <1>2, <1>8, <1>9, <2>1, <2>3, <2>4, <2>5, ReplacesCalls
<1>12. Typed'
  <2>1. Becoming(x)
    BY <1>2, <1>4, <1>6, <1>8 DEF Becoming, CallOK, CallGoesTo, Downloading, Same
  <2>2. inode' \in [Inode -> [Index -> Book \cup {Absent}]]
    BY <1>2, <1>4 DEF Hole
  <2>3. row' = row
    BY <1>2 DEF ServerKept, tables
  <2>4. Clients'
    BY <1>2, <1>4, <1>6, <1>8, <2>1, <2>2, <2>3, ClientsKept
  <2>5. \A u \in Task : task'[u] # Free => TaskOK(task'[u])
    BY <1>9, <1>10 DEF Replaces, JInv, Typed
  <2>6. QED
    BY <1>2, <2>4, <2>5, TypedKept
<1>13. DestInv'
  <2>1. SUFFICES ASSUME ~clash PROVE DestInv'
    BY <1>2 DEF DestInv
  <2>2. OneDownload /\ (\A e \in Call : Verified(e)) /\ (part # 0 => part # dest) /\ DestIsWhole
    BY <2>1 DEF DestInv
  <2>3. n # dest /\ n # 0
    BY <1>1, <1>6, <2>2 DEF InUse
  <2>4. OneDownload'
    BY <1>2, <1>8, <2>2 DEF OneDownload, CallGoesTo, Downloading
  <2>5. ASSUME NEW e \in Call PROVE Verified(e)'
    <3>1. CASE e = c
      BY <1>2, <1>8, <3>1 DEF Verified, CallGoesTo
    <3>2. CASE e # c
      <4>1. call'[e] = call[e] /\ CallOK(call[e]) /\ call[e].at \notin Downloading
        BY <1>2, <1>8, <2>2, <3>2 DEF OneDownload, CallGoesTo, Downloading, JInv, Typed, Clients
      <4>2. call[e].fd = 0 /\ call[e].at # "rename"
        BY <4>1 DEF CallOK, Downloading
      <4>3. QED
        BY <4>1, <4>2 DEF Verified
    <3>3. QED
      BY <3>1, <3>2
  <2>6. DestIsWhole'
    <3>1. dest # 0 => inode'[dest] = inode[dest]
      BY <1>2, <1>4, <2>3
    <3>2. QED
      BY <1>2, <1>8, <2>2, <3>1 DEF DestIsWhole, CallGoesTo
  <2>7. QED
    BY <1>2, <2>3, <2>4, <2>5, <2>6 DEF DestInv
<1>14. QED
  BY <1>11, <1>12, <1>13 DEF GInv

\* A call that stays where it is.
LEMMA StillCalls ==
    ASSUME JInv, ServerKept, History, task' = task, NEW c \in Call, NEW x, CallGoesTo(c, x),
           x.at = call[c].at, Same(x, call[c])
    PROVE  \A e \in Call : CallInv(e)'
<1>1. \A e \in Call : Requests(e)
  BY DEF Requests
<1>2. UNCHANGED <<session, chunkRow, row, dir, chunk, blob, landing, cleaner>>
  BY DEF ServerKept, tables, disk
<1>3. /\ CallInv(c) /\ Under(c)' = Under(c)
      /\ call'[c].at = call[c].at /\ call'[c].book = call[c].book /\ call'[c].file = call[c].file
  BY DEF JInv, CallGoesTo, Under, Same
<1>4. Asked(c)' /\ Knows(c)' /\ Told(c)' /\ Picked(c)'
  BY <1>2, <1>3 DEF CallInv, Asked, RequestOK, Knows, Told, Picked, Cleaning, History
<1>5. Tidy(c) => Tidy(c)'
  BY <1>2, <1>3 DEF Tidy, Entry, HasFile, Cleaning
<1>6. CallInv(c)'
  BY <1>3, <1>4, <1>5 DEF CallInv, History
<1>7. QED
  BY <1>1, <1>6, ClientCalls

LEMMA ReceiveStep ==
    ASSUME JInv, DestInv, NEW c \in Call, NEW t \in Task, Receive(c, t)
    PROVE  GInv'
<1> DEFINE f == call[c].file
           i == call[c].ix + 1
           n == call[c].fd
<1>1. /\ ServerKept /\ Counting /\ History /\ UNCHANGED <<part, dest, clash, unsure>>
      /\ Waits(c, t, "get") /\ task[t].at = "stream" /\ i <= Chunks
  BY DEF Receive, ServerKept, Counting, History, history, At
<1>2. /\ task[t].call = c /\ t \in Under(c) /\ task[t].live /\ call[c].at = "get" /\ Past(c, t)
      /\ CallOK(call[c]) /\ row[c] = Absent /\ task[t] # Free
  BY <1>1, WaitsFacts DEF Hearing, Waits
<1>3. /\ f \in FileId /\ row[f] # Absent /\ n \in Inode /\ n # 0
  BY <1>2 DEF CallOK, CallRecord, Downloading, JInv, Typed, Clients, Inode
<1>4. CASE i <= Extent(f)
  <2>1. /\ inode' = [inode EXCEPT ![n][i] = blob[f][i]] /\ call' = [call EXCEPT ![c].ix = i]
        /\ task' = task
    BY <1>4 DEF Receive
  <2>2. i \in Index /\ i \in 0 .. Chunks
    <3>1. call[c].ix \in 0 .. Chunks
      BY <1>2 DEF CallOK, CallRecord
    <3>2. QED
      BY <1>1, <3>1, FileServerAssumption DEF Index
  <2>3. blob[f][i] \in Book
    <3>1. blob[f] \in Seq(Book) /\ Len(blob[f]) \in Nat
      BY <1>3 DEF JInv, Typed, Tables, Listed
    <3>2. i \in 1 .. Len(blob[f])
      BY <1>4, <2>2, <3>1 DEF Extent, Index
    <3>3. QED
      BY <3>1, <3>2
  <2>4. \E x : CallGoesTo(c, x) /\ Same(x, call[c]) /\ x.at = "get" /\ x.fd = n
    <3> DEFINE x == [call[c] EXCEPT !.ix = i]
    <3>1. x \in CallRecord /\ Same(x, call[c]) /\ x.at = call[c].at /\ x.fd = n
      BY <2>2, CallType DEF CallRecord, Same
    <3>2. call'[c] = x /\ \A e \in Call : e # c => call'[e] = call[e]
      BY <2>1, CallType
    <3> HIDE DEF x
    <3>3. QED
      BY <1>2, <3>1, <3>2 DEF CallGoesTo
  <2>5. PICK x : CallGoesTo(c, x) /\ Same(x, call[c]) /\ x.at = "get" /\ x.fd = n
    BY <2>4
  <2>6. \A e \in Call : CallInv(e)'
    BY <1>1, <1>2, <2>1, <2>5, StillCalls
  <2>7. Typed'
    <3>1. Becoming(x)
      BY <1>2, <1>3, <2>5 DEF Becoming, CallOK, CallGoesTo, Same
    <3>2. inode' \in [Inode -> [Index -> Book \cup {Absent}]]
      BY <1>3, <2>1, <2>2, <2>3 DEF JInv, Typed, Clients
    <3>3. Clients'
      BY <1>1, <2>5, <3>1, <3>2, ClientsKept DEF ServerKept, tables, JInv, Typed, Clients
    <3>4. QED
      BY <1>1, <2>1, <3>3, TypedKept DEF JInv, Typed
  <2>8. DestInv'
    <3>1. SUFFICES ASSUME ~clash PROVE DestInv'
      BY <1>1 DEF DestInv
    <3>2. OneDownload /\ (\A e \in Call : Verified(e)) /\ (part # 0 => part # dest) /\ DestIsWhole
      BY <3>1 DEF DestInv
    <3>3. n = part /\ n # dest
      BY <1>3, <3>2 DEF Verified
    <3>4. OneDownload'
      BY <1>2, <2>5, <3>2 DEF OneDownload, CallGoesTo
    <3>5. ASSUME NEW e \in Call PROVE Verified(e)'
      <4>1. CASE e = c
        BY <1>1, <2>5, <3>3, <4>1 DEF Verified, CallGoesTo
      <4>2. CASE e # c
        <5>1. call'[e] = call[e] /\ call[e].at # "rename" /\ Verified(e)
          BY <1>2, <2>5, <3>2, <4>2 DEF OneDownload, CallGoesTo, Downloading
        <5>2. QED
          BY <1>1, <5>1 DEF Verified
      <4>3. QED
        BY <4>1, <4>2
    <3>6. DestIsWhole'
      <4>1. dest # 0 => inode'[dest] = inode[dest]
        BY <2>1, <3>3 DEF JInv, Typed, Clients
      <4>2. QED
        BY <1>1, <1>2, <2>5, <3>2, <4>1 DEF DestIsWhole, CallGoesTo
    <3>7. QED
      BY <1>1, <3>2, <3>4, <3>5, <3>6 DEF DestInv
  <2>9. QED
    BY <2>6, <2>7, <2>8 DEF GInv
<1>5. CASE ~(i <= Extent(f))
  <2>1. Step(t, "error") /\ UNCHANGED <<inode, call>>
    BY <1>5 DEF Receive
  <2>2. PICK q : Turns(t, q) /\ SameAt(q, task[t], "error")
    BY <1>2, <2>1, StepTurns DEF JInv
  <2>3. Replaces(c, t, q)
    BY <1>2, <2>2, TurnFacts DEF Replaces, Turns, JInv
  <2>4. PICK x : x = call[c]
    OBVIOUS
  <2>5. CallGoesTo(c, x)
    BY <2>1, <2>4, CallType DEF CallGoesTo
  <2>6. Becoming(x) /\ Aside(c, x)
    <3>1. ~clash => call[c].fd = part
      BY <1>3 DEF DestInv, Verified
    <3>2. QED
      BY <1>1, <1>2, <1>3, <2>1, <2>4, <3>1 DEF Becoming, Aside, Downloading
  <2>7. q.at = "error" /\ task'[t] = q /\ call'[c].at = "get" /\ q.live
    BY <1>2, <2>1, <2>2, <2>3 DEF Replaces, SameAt
  <2>8. TaskOK(q)
    BY <2>7 DEF TaskOK, Initing, Chunking, Failure
  <2>9. RequestOK(c, t)' /\ Entry(c, t)'
    BY <2>7, PhaseFacts DEF RequestOK, Entry, Initing, Ending, Completing, Failure
  <2>10. Knows(c)' /\ Told(c)'
    BY <2>7 DEF Knows, Told
  <2>11. QED
    BY <1>1, <1>2, <2>3, <2>5, <2>6, <2>8, <2>9, <2>10, ReplacesStep
<1>6. QED
  BY <1>4, <1>5

LEMMA ReceivedStep ==
    ASSUME JInv, DestInv, NEW c \in Call, NEW t \in Task, Received(c, t)
    PROVE  GInv'
<1>1. /\ ServerKept /\ Counting /\ History /\ UNCHANGED <<inode, part, dest, clash, unsure>>
      /\ Waits(c, t, "get") /\ task[t].at = "stream" /\ Done(t)
      /\ call' = [call EXCEPT ![c] = [@ EXCEPT !.at = "verify", !.fd = 0]]
  BY DEF Received, ServerKept, Counting, History, history, At
<1>2. /\ task[t].call = c /\ call[c].at = "get" /\ Past(c, t) /\ CallOK(call[c]) /\ row[c] = Absent
  BY <1>1, WaitsFacts DEF Hearing
<1>3. row[call[c].file] # Absent
  BY <1>2 DEF Downloading, JInv, Typed, Clients
<1>4. \E x : CallGoesTo(c, x) /\ Same(x, call[c]) /\ x.at = "verify" /\ x.fd = 0
  <2> DEFINE y == [call[c] EXCEPT !.at = "verify"]
             x == [y EXCEPT !.fd = 0]
  <2>1. y \in CallRecord /\ Same(y, call[c]) /\ y.at = "verify"
    BY CallType DEF CallRecord, CallAt, Same
  <2>2. call' = [call EXCEPT ![c] = x]
    BY <1>1
  <2> HIDE DEF y
  <2>3. x \in CallRecord /\ x.fd = 0 /\ x.at = y.at /\ Same(x, y)
    BY <2>1, CallType DEF CallRecord, Same
  <2>4. call'[c] = x /\ \A e \in Call : e # c => call'[e] = call[e]
    BY <2>2, CallType
  <2> HIDE DEF x
  <2>5. QED
    BY <2>1, <2>3, <2>4 DEF CallGoesTo, Same
<1>5. PICK x : CallGoesTo(c, x) /\ Same(x, call[c]) /\ x.at = "verify" /\ x.fd = 0
  BY <1>4
<1>6. Replaces(c, t, Free)
  BY <1>1, <1>2, DoneFacts
<1>7. Becoming(x) /\ Aside(c, x)
  BY <1>1, <1>2, <1>3, <1>5 DEF Becoming, CallOK, Aside, CallGoesTo, Downloading, Same
<1>8. Knows(c)' /\ Told(c)'
  BY <1>5 DEF Knows, Told, CallGoesTo
<1>9. QED
  BY <1>1, <1>2, <1>5, <1>6, <1>7, <1>8, ReplacesStep

\* The download starts over, or fails.
LEMMA GetAgainStep ==
    ASSUME JInv, DestInv, ServerKept, Counting, History, UNCHANGED <<inode, dest, clash>>,
           NEW c \in Call, NEW t \in Task, Waits(c, t, "get"), GetAgain(c),
           NEW q, Replaces(c, t, q),
           q # Free => TaskOK(q) /\ RequestOK(c, t)' /\ (c \notin cut => Entry(c, t)')
    PROVE  GInv'
<1>1. /\ task[t].call = c /\ call[c].at = "get" /\ Past(c, t) /\ CallOK(call[c])
      /\ RequestOK(c, t) /\ task[t].live /\ row[c] = Absent
  BY WaitsFacts DEF Hearing
<1>2. row[call[c].file] # Absent
  BY <1>1 DEF Downloading, JInv, Typed, Clients
<1>3. PICK x : CallGoesTo(c, x) /\ SameChunk(x, call[c]) /\ x.at \in {"create", "failed"} /\ x.fd = 0
  BY GetAgainFacts
<1>4. Becoming(x)
  BY <1>1, <1>2, <1>3 DEF Becoming, CallOK, CallGoesTo, Downloading, SameChunk, Same
<1>5. Aside(c, x)
  BY <1>1, <1>3 DEF Aside, Downloading, GetAgain
<1>6. Knows(c)' /\ Told(c)'
  BY <1>1, <1>3 DEF Knows, Told, CallGoesTo, ServerKept, tables
<1>7. task[t].at \notin {"session", "rmdir", "merge"}
  <2>1. task[t].at \in Phase("get")
    BY <1>1 DEF RequestOK
  <2>2. QED
    BY <2>1, PhaseFacts DEF Failure
<1>8. QED
  BY <1>1, <1>3, <1>4, <1>5, <1>6, <1>7, ReplacesStep

LEMMA GetFailedStep ==
    ASSUME JInv, DestInv, NEW c \in Call, NEW t \in Task, GetFailed(c, t)
    PROVE  GInv'
<1>1. /\ ServerKept /\ Counting /\ History /\ UNCHANGED <<inode, dest, clash>>
      /\ Waits(c, t, "get") /\ GetAgain(c) /\ Done(t)
  BY DEF GetFailed, ServerKept, Counting, History, history
<1>2. Replaces(c, t, Free)
  BY <1>1, WaitsFacts, DoneFacts DEF Hearing
<1>3. QED
  BY <1>1, <1>2, GetAgainStep

\* A step of a download that no request takes part in.
LEMMA AloneStep ==
    ASSUME JInv, DestInv, ServerKept, Counting, History, task' = task, NEW c \in Call, NEW x,
           CallGoesTo(c, x), call[c].at \notin Hearing \cup Finishing,
           x.at \in {"rename", "failed"}, SameChunk(x, call[c]), x.fd = 0,
           x.at = "rename" => call[c].at \in Downloading, Aside(c, x)
    PROVE  GInv'
<1>1. \A e \in Call : CallInv(e)'
  BY AloneCalls
<1>2. Becoming(x)
  BY DEF Becoming, CallOK, CallGoesTo, Downloading, SameChunk, Same, JInv, Typed, Clients
<1>3. \A u \in Task : task'[u] # Free => TaskOK(task'[u])
  BY DEF JInv, Typed
<1>4. QED
  BY <1>1, <1>2, <1>3, AsideStep

LEMMA VerifyStep ==
    ASSUME JInv, DestInv, NEW c \in Call, Verify(c) \/ LocalFails(c)
    PROVE  GInv'
<1>1. /\ ServerKept /\ Counting /\ History /\ task' = task /\ UNCHANGED <<inode, dest, clash>>
      /\ call[c].at \in {"create", "verify", "rename"}
  BY DEF Verify, LocalFails, ServerKept, Counting, History, history, server, tables, disk, FaultKind
<1>2. call[c].at \notin Hearing \cup Finishing /\ call[c].at \in Downloading /\ CallOK(call[c])
  BY <1>1 DEF Hearing, Finishing, Downloading, JInv, Typed, Clients
<1>3. CASE Fail(c) /\ part' \in {part, 0}
  <2>1. PICK x : CallGoesTo(c, x) /\ SameChunk(x, call[c]) /\ x.at = "failed" /\ x.fd = 0
    BY <1>3, FailFacts
  <2>2. Aside(c, x)
    BY <1>1, <1>2, <1>3, <2>1 DEF Aside, Downloading
  <2>3. QED
    BY <1>1, <1>2, <2>1, <2>2, AloneStep
<1>4. CASE /\ part # 0 /\ inode[part] = Content(call[c].book) /\ call[c].at = "verify"
           /\ Goto(c, "rename") /\ part' = part
  <2>1. PICK x : CallGoesTo(c, x) /\ SameChunk(x, call[c]) /\ x.at = "rename" /\ x.fd = call[c].fd
    BY <1>4, GotoFacts DEF CallAt
  <2>2. x.fd = 0
    BY <1>2, <1>4, <2>1 DEF CallOK
  <2>3. Aside(c, x)
    BY <1>1, <1>2, <1>4, <2>1, <2>2 DEF Aside, Downloading, SameChunk, Same
  <2>4. QED
    BY <1>1, <1>2, <2>1, <2>2, <2>3, AloneStep
<1>5. QED
  BY <1>3, <1>4 DEF Verify, LocalFails

LEMMA RenameStep ==
    ASSUME JInv, DestInv, NEW c \in Call, Rename(c)
    PROVE  GInv'
<1>1. /\ ServerKept /\ Counting /\ History /\ task' = task /\ UNCHANGED <<inode, clash>>
      /\ call[c].at = "rename"
  BY DEF Rename, ServerKept, Counting, History, history, server, tables, disk
<1>2. /\ call[c].at \notin Hearing \cup Finishing /\ call[c].at \in Downloading /\ CallOK(call[c])
      /\ row[call[c].file] # Absent /\ part \in Inode \cup {0}
  BY <1>1 DEF Hearing, Finishing, Downloading, JInv, Typed, Clients
<1>3. CASE part = 0
  <2>1. Fail(c) /\ UNCHANGED <<part, dest>>
    BY <1>3 DEF Rename
  <2>2. PICK x : CallGoesTo(c, x) /\ SameChunk(x, call[c]) /\ x.at = "failed" /\ x.fd = 0
    BY <2>1, FailFacts
  <2>3. Aside(c, x)
    BY <1>1, <1>2, <2>1, <2>2 DEF Aside, Downloading
  <2>4. QED
    BY <1>1, <1>2, <2>1, <2>2, <2>3, AloneStep
<1>4. CASE part # 0
  <2>1. Goto(c, "ok") /\ dest' = part /\ part' = 0
    BY <1>4 DEF Rename
  <2>2. PICK x : CallGoesTo(c, x) /\ SameChunk(x, call[c]) /\ x.at = "ok" /\ x.fd = call[c].fd
    BY <2>1, GotoFacts DEF CallAt
  <2>3. x.fd = 0 /\ x.file # Absent /\ Becoming(x)
    BY <1>1, <1>2, <2>2 DEF Becoming, CallOK, CallGoesTo, Downloading, SameChunk, Same
  <2>4. \A e \in Call : CallInv(e)'
    BY <1>1, <1>2, <2>2, <2>3, AloneCalls
  <2>5. Typed'
    <3>1. Clients'
      BY <1>1, <1>2, <2>1, <2>2, <2>3, ClientsKept DEF ServerKept, tables, JInv, Typed, Clients
    <3>2. QED
      BY <1>1, <3>1, TypedKept DEF JInv, Typed
  <2>6. DestInv'
    <3>1. SUFFICES ASSUME ~clash PROVE DestInv'
      BY <1>1 DEF DestInv
    <3>2. OneDownload /\ (\A e \in Call : Verified(e)) /\ (part # 0 => part # dest)
      BY <3>1 DEF DestInv
    <3>3. inode[part] = Content(call[c].book)
      BY <1>1, <3>2 DEF Verified
    <3>4. OneDownload'
      BY <2>2, <3>2 DEF OneDownload, CallGoesTo, Downloading
    <3>5. ASSUME NEW e \in Call PROVE Verified(e)'
      <4>1. CASE e = c
        BY <2>2, <2>3, <4>1 DEF Verified, CallGoesTo
      <4>2. CASE e # c
        <5>1. call'[e] = call[e] /\ CallOK(call[e]) /\ call[e].at \notin Downloading
          BY <1>2, <2>2, <3>2, <4>2 DEF OneDownload, CallGoesTo, JInv, Typed, Clients
        <5>2. call[e].fd = 0 /\ call[e].at # "rename"
          BY <5>1 DEF CallOK, Downloading
        <5>3. QED
          BY <5>1, <5>2 DEF Verified
      <4>3. QED
        BY <4>1, <4>2
    <3>6. DestIsWhole'
      BY <1>1, <2>1, <2>2, <2>3, <3>3 DEF DestIsWhole, CallGoesTo, SameChunk, Same
    <3>7. QED
      BY <2>1, <3>4, <3>5, <3>6 DEF DestInv
  <2>7. QED
    BY <2>4, <2>5, <2>6 DEF GInv
<1>5. QED
  BY <1>3, <1>4

-----------------------------------------------------------------------------
(* A client that waits no longer, and one that dies.                       *)

\* A request that nobody waits for any more goes on where it is.
LEMMA GivenUp ==
    ASSUME JInv, NEW t \in Task, task[t] # Free, task[t].at \in Working, NEW q, q = [task[t] EXCEPT !.live = FALSE]
    PROVE  /\ TaskOK(q) /\ q # Free /\ q.at = task[t].at /\ q.call = task[t].call /\ ~q.live
           /\ q.data = task[t].data /\ q.ix = task[t].ix
<1>1. IsRequest(task[t]) /\ TaskOK(task[t])
  BY DEF JInv, FInv, Shapes, Typed
<1>2. /\ q.at = task[t].at /\ q.call = task[t].call /\ ~q.live
      /\ q.data = task[t].data /\ q.ix = task[t].ix /\ q.got = task[t].got
  BY <1>1 DEF IsRequest
<1>3. TaskOK(q)
  BY <1>1, <1>2 DEF TaskOK, Initing, Chunking
<1>4. q # Free
  BY <1>2 DEF Working, Free
<1>5. QED
  BY <1>2, <1>3, <1>4

LEMMA TimeoutStep ==
    ASSUME JInv, DestInv, NEW c \in Call, NEW t \in Task, Timeout(c, t)
    PROVE  GInv'
<1>1. /\ ServerKept /\ Counting /\ History /\ UNCHANGED <<inode, dest, clash>>
      /\ task[t] # Free /\ task[t].live /\ task[t].call = c /\ c \in unsure'
  BY DEF Timeout, ServerKept, Counting, History, FaultKind
<1>2. PICK q : q = IF task[t].at \in Working THEN [task[t] EXCEPT !.live = FALSE] ELSE Free
  OBVIOUS
<1>3. task'[t] = q /\ \A u \in Task : u # t => task'[u] = task[u]
  BY <1>2 DEF Timeout, JInv, FInv, Shapes
<1>4. ASSUME q # Free
      PROVE  /\ task[t].at \in Working /\ TaskOK(q) /\ q.at = task[t].at /\ q.call = c /\ ~q.live
             /\ q.data = task[t].data /\ q.ix = task[t].ix
  BY <1>1, <1>2, <1>4, GivenUp
<1>5. Replaces(c, t, q)
  BY <1>1, <1>3, <1>4 DEF Replaces
<1>6. call[c].at \in Hearing /\ Waits(c, t, call[c].at)
  BY <1>1 DEF Timeout, Hearing, Waits
<1>7. /\ t \in Under(c) /\ CallOK(call[c]) /\ CallInv(c) /\ RequestOK(c, t)
      /\ (c \notin cut => Entry(c, t)) /\ Past(c, t)
      /\ call[c].at # "complete" => row[c] = Absent
  BY <1>6, WaitsFacts
<1>8. q # Free => Under(c)' = Under(c)
  BY <1>5, <1>7, ReplacesUnder
<1>9. task[t].at \in Phase(call[c].at)
  BY <1>1, <1>7 DEF RequestOK
<1>10. ASSUME q # Free, c \notin cut PROVE Entry(c, t)'
  BY <1>3, <1>4, <1>7, <1>8, <1>10, <1>1 DEF Entry, Ending, Completing, ServerKept, tables, disk
<1>11. CASE call[c].at = "chunk" /\ Retry(c) /\ part' = part
  <2>1. ASSUME q # Free PROVE RequestOK(c, t)'
    <3>1. ~Initing(task[t]) /\ ~Ending(task[t])
      BY <1>9, <1>11, PhaseFacts DEF Initing, Ending, Completing, Failure
    <3>2. QED
      BY <1>3, <1>4, <2>1, <3>1 DEF RequestOK, Initing, Ending, Completing
  <2>2. QED
    BY <1>1, <1>4, <1>5, <1>6, <1>10, <1>11, <2>1, RetryDone
<1>12. CASE call[c].at = "get" /\ GetAgain(c)
  <2>1. ASSUME q # Free PROVE RequestOK(c, t)'
    <3>1. ~Initing(task[t]) /\ ~Ending(task[t])
      BY <1>9, <1>12, PhaseFacts DEF Initing, Ending, Completing, Failure
    <3>2. QED
      BY <1>3, <1>4, <2>1, <3>1 DEF RequestOK, Initing, Ending, Completing
  <2>2. QED
    BY <1>1, <1>4, <1>5, <1>6, <1>10, <1>12, <2>1, GetAgainStep
<1>13. CASE call[c].at \in {"init", "complete"} /\ Fail(c) /\ part' = part
  <2>1. PICK x : CallGoesTo(c, x) /\ SameChunk(x, call[c]) /\ x.at = "failed" /\ x.fd = 0
    BY <1>13, FailFacts
  <2>2. Becoming(x) /\ Aside(c, x)
    BY <1>1, <1>13, <2>1 DEF Becoming, CallOK, Aside, CallGoesTo, Downloading
  <2>3. Knows(c)' /\ Told(c)'
    BY <1>1, <2>1 DEF Knows, Told, CallGoesTo
  <2>4. ASSUME q # Free PROVE RequestOK(c, t)'
    <3>1. call'[c].at = "failed" /\ call'[c].book = call[c].book /\ UNCHANGED <<session, chunkRow, row>>
      BY <1>1, <2>1 DEF CallGoesTo, SameChunk, Same, ServerKept, tables
    <3>2. QED
      BY <1>1, <1>3, <1>4, <1>7, <1>8, <2>4, <3>1 DEF RequestOK, Initing, Ending, Completing
  <2>5. task[t].at \in {"session", "rmdir", "merge"} => q # Free /\ q.at = task[t].at
    BY <1>2, <1>1, GivenUp DEF Working
  <2>6. QED
    BY <1>1, <1>4, <1>5, <1>7, <1>10, <2>1, <2>2, <2>3, <2>4, <2>5, ReplacesStep
<1>14. QED
  BY <1>11, <1>12, <1>13 DEF Timeout

LEMMA ClientDiesStep ==
    ASSUME JInv, DestInv, ClientDies
    PROVE  GInv'
<1> DEFINE dead == {c \in Call : call[c].at \notin {"idle", "ok", "failed"}}
<1>1. /\ ServerKept /\ Counting /\ History /\ UNCHANGED <<inode, part, dest, clash>>
      /\ call' = [c \in Call |-> IF c \in dead THEN [call[c] EXCEPT !.at = "failed", !.fd = 0]
                                 ELSE call[c]]
      /\ task' = [t \in Task |-> IF task[t].at \in Working THEN [task[t] EXCEPT !.live = FALSE]
                                 ELSE Free]
      /\ unsure' = unsure \cup dead
  BY DEF ClientDies, ServerKept, Counting, History, FaultKind
<1>2. ASSUME NEW t \in Task, task'[t] # Free
      PROVE  /\ task[t] # Free /\ task[t].at \in Working /\ TaskOK(task'[t])
             /\ task'[t].at = task[t].at /\ task'[t].call = task[t].call /\ ~task'[t].live
             /\ task'[t].data = task[t].data /\ task'[t].ix = task[t].ix
  <2>1. task[t].at \in Working /\ task'[t] = [task[t] EXCEPT !.live = FALSE]
    BY <1>1, <1>2
  <2>2. task[t] # Free
    BY <2>1 DEF Working, Free
  <2>3. QED
    BY <2>1, <2>2, GivenUp
<1>3. ASSUME NEW e \in Call
      PROVE  /\ call'[e] \in CallRecord /\ Same(call'[e], call[e])
             /\ e \in dead => call'[e].at = "failed" /\ call'[e].fd = 0
             /\ e \notin dead => call'[e] = call[e]
  <2> DEFINE y == [call[e] EXCEPT !.at = "failed"]
             x == [y EXCEPT !.fd = 0]
  <2>1. y \in CallRecord /\ Same(y, call[e]) /\ y.at = "failed"
    BY CallType DEF CallRecord, CallAt, Same
  <2>2. call'[e] = IF e \in dead THEN x ELSE call[e]
    BY <1>1
  <2> HIDE DEF y
  <2>3. x \in CallRecord /\ x.fd = 0 /\ x.at = y.at /\ Same(x, y)
    BY <2>1, CallType DEF CallRecord, Same
  <2> HIDE DEF x, dead
  <2>4. CASE e \in dead
    BY <2>1, <2>2, <2>3, <2>4 DEF Same
  <2>5. CASE e \notin dead
    BY <2>2, <2>5, CallType DEF Same
  <2>6. QED
    BY <2>4, <2>5
<1>4. UNCHANGED <<session, chunkRow, row, dir, chunk, blob, landing, cleaner>>
  BY <1>1 DEF ServerKept, tables, disk
<1>5. ASSUME NEW e \in Call PROVE CallInv(e)'
  <2>1. CallInv(e) /\ (call[e].at \notin Finishing => row[e] = Absent)
    BY DEF JInv, FInv, Recorded
  <2>2. Under(e)' \subseteq Under(e)
    BY <1>2 DEF Under
  <2>3. ASSUME NEW u \in Under(e), task[u].at \in Working PROVE u \in Under(e)'
    <3>1. task[u] # Free /\ u \in Task /\ task'[u] = [task[u] EXCEPT !.live = FALSE] /\ task[u].call = e
      BY <1>1, <2>3 DEF Under
    <3>2. task'[u] # Free /\ task'[u].call = e
      BY <2>3, <3>1, GivenUp
    <3>3. QED
      BY <3>1, <3>2 DEF Under
  <2>4. ASSUME NEW u \in Under(e)'
        PROVE  /\ u \in Under(e) /\ RequestOK(e, u) /\ task'[u].at = task[u].at /\ ~task'[u].live
               /\ task'[u].ix = task[u].ix /\ task'[u].data = task[u].data
    BY <1>2, <2>1, <2>2 DEF CallInv, Asked, Under
  <2>5. ASSUME NEW u \in Under(e)' PROVE RequestOK(e, u)'
    <3>1. u \in Under(e) /\ RequestOK(e, u) /\ task'[u].at = task[u].at /\ ~task'[u].live
          /\ task'[u].data = task[u].data
      BY <2>4
    <3>2. ASSUME Initing(task[u])
          PROVE  /\ call'[e].at = "failed" /\ Under(e)' = {u} /\ task'[u].data = call'[e].book
                 /\ session'[e].status = "none" /\ chunkRow'[e] = {} /\ row'[e] = Absent
      BY <1>3, <1>4, <2>2, <3>1, <3>2 DEF RequestOK, Same
    <3>3. ASSUME Ending(task[u])
          PROVE  call'[e].at = "failed" /\ e \in unsure' /\ session'[e].sha \in Book
      BY <1>1, <1>3, <1>4, <3>1, <3>3 DEF RequestOK
    <3>4. QED
      BY <3>1, <3>2, <3>3 DEF RequestOK, Initing, Ending, Completing
  <2>6. Asked(e)'
    BY <2>5 DEF Asked
  <2>7. Knows(e)'
    BY <1>3, <1>4, <2>1, <2>2 DEF CallInv, Knows
  <2>8. Told(e)'
    BY <1>1, <1>3, <1>4, <2>1 DEF CallInv, Told, Same
  <2>9. Picked(e)'
    BY <1>4, <2>1 DEF CallInv, Picked, Cleaning
  <2>10. ASSUME Tidy(e) PROVE Tidy(e)'
    <3>1. \A u \in Under(e)' : Entry(e, u)'
      <4>1. ASSUME NEW u \in Under(e)' PROVE Entry(e, u)'
        <5>1. /\ u \in Under(e) /\ Entry(e, u) /\ task'[u].at = task[u].at /\ ~task'[u].live
              /\ task'[u].ix = task[u].ix
          BY <2>4, <2>10, <4>1 DEF Tidy
        <5>2. QED
          BY <1>4, <2>2, <4>1, <5>1 DEF Entry, Ending, Completing
      <4>2. QED
        BY <4>1
    <3>2. \A u \in Under(e) : task[u].at \in {"session", "rmdir", "merge"} =>
              u \in Under(e)' /\ task'[u].at = task[u].at
      BY <2>3, <2>4 DEF Working
    <3>3. e \in dir' => session'[e].status = "pending" \/ \E u \in Under(e)' : task'[u].at \in {"session", "rmdir"}
      BY <1>4, <2>10, <3>2 DEF Tidy
    <3>4. HasFile(e)' => row'[e] # Absent \/ \E u \in Under(e)' : task'[u].at = "merge"
      BY <1>4, <2>10, <3>2 DEF Tidy, HasFile
    <3>5. QED
      BY <1>4, <2>10, <3>1, <3>3, <3>4 DEF Tidy, Cleaning
  <2>11. QED
    BY <1>1, <2>1, <2>6, <2>7, <2>8, <2>9, <2>10 DEF CallInv, History
<1>6. Typed'
  <2>1. \A e \in Call : CallOK(call'[e]) /\ (call'[e].at \in Downloading => call'[e] = call[e])
    <3>1. ASSUME NEW e \in Call
          PROVE  CallOK(call'[e]) /\ (call'[e].at \in Downloading => call'[e] = call[e])
      <4>1. CASE e \in dead
        BY <1>3, <4>1 DEF CallOK, Downloading
      <4>2. CASE e \notin dead
        BY <1>3, <4>2 DEF JInv, Typed, Clients
      <4>3. QED
        BY <4>1, <4>2
    <3>2. QED
      BY <3>1
  <2>2. Clients'
    BY <1>1, <1>4, <2>1 DEF JInv, Typed, Clients
  <2>3. QED
    BY <1>1, <1>2, <2>2, TypedKept
<1>7. DestInv'
  <2>1. SUFFICES ASSUME ~clash PROVE DestInv'
    BY <1>1 DEF DestInv
  <2>2. OneDownload /\ (\A e \in Call : Verified(e)) /\ (part # 0 => part # dest) /\ DestIsWhole
    BY <2>1 DEF DestInv
  <2>3. \A e \in Call : call'[e] = call[e] \/ (call'[e].at = "failed" /\ call'[e].fd = 0)
    BY <1>3
  <2>4. OneDownload' /\ \A e \in Call : Verified(e)'
    BY <1>1, <2>2, <2>3 DEF OneDownload, Verified, Downloading
  <2>5. \A e \in Call : call[e].at = "ok" => call'[e] = call[e]
    BY <1>3
  <2>6. DestIsWhole'
    BY <1>1, <2>2, <2>5 DEF DestIsWhole
  <2>7. QED
    BY <1>1, <2>2, <2>4, <2>6 DEF DestInv
<1>8. QED
  BY <1>5, <1>6, <1>7 DEF GInv

-----------------------------------------------------------------------------
(* The server's steps, for the types.                                      *)

LEMMA ContentSeq ==
    ASSUME NEW b \in Book
    PROVE  Content(b) \in Seq(Book) /\ Len(Content(b)) = Chunks
  BY FileServerAssumption DEF Content, Index

\* Where a request may go on to with what it has.
LEMMA StepTypes ==
    ASSUME NEW r, TaskOK(r), NEW q, NEW pc, SameAt(q, r, pc),
           \/ pc \in Failure \cup {"ok"} /\ r.live
           \/ <<r.at, pc>> \in {<<"init", "mkdir">>, <<"mkdir", "session">>, <<"chunk", "write">>,
                                <<"write", "row">>, <<"complete", "count">>, <<"count", "merge">>,
                                <<"merge", "rmdir">>, <<"download", "stream">>}
    PROVE  TaskOK(q)
<1>1. CASE pc \in Failure \cup {"ok"} /\ r.live
  BY <1>1 DEF SameAt, TaskOK, Initing, Chunking, Failure
<1>2. CASE <<r.at, pc>> \in {<<"init", "mkdir">>, <<"mkdir", "session">>, <<"chunk", "write">>,
                             <<"write", "row">>, <<"complete", "count">>, <<"count", "merge">>,
                             <<"merge", "rmdir">>, <<"download", "stream">>}
  BY <1>2 DEF SameAt, TaskOK, Initing, Chunking, Working
<1>3. QED
  BY <1>1, <1>2

\* The tasks stay well typed when one takes a turn.
Tasks == \A t \in Task : task[t] # Free => TaskOK(task[t])

LEMMA TasksKept ==
    ASSUME JInv, NEW t, NEW q, Turns(t, q), q # Free => TaskOK(q)
    PROVE  Tasks'
<1>1. task'[t] = q /\ \A u \in Task : u # t => task'[u] = task[u]
  BY TurnFacts DEF JInv
<1>2. QED
  BY <1>1 DEF Tasks, JInv, Typed

LEMMA AnswerTypes ==
    ASSUME JInv, NEW t \in Task, task[t] # Free, NEW a \in Failure \cup {"ok"}, Answer(t, a)
    PROVE  Tasks'
<1>1. PICK q : Turns(t, q) /\ IF task[t].live THEN SameAt(q, task[t], a) ELSE q = Free
  BY AnswerTurns DEF JInv, Failure
<1>2. TaskOK(task[t])
  BY DEF JInv, Typed
<1>3. q # Free => TaskOK(q)
  BY <1>1, <1>2, StepTypes
<1>4. QED
  BY <1>1, <1>3, TasksKept

LEMMA MoveTypes ==
    ASSUME JInv, NEW t \in Task, NEW pc, Step(t, pc),
           <<task[t].at, pc>> \in {<<"init", "mkdir">>, <<"mkdir", "session">>, <<"chunk", "write">>,
                                   <<"write", "row">>, <<"complete", "count">>, <<"count", "merge">>,
                                   <<"merge", "rmdir">>, <<"download", "stream">>}
    PROVE  Tasks'
<1>1. task[t].at \in {"init", "mkdir", "chunk", "write", "complete", "count", "merge", "download"}
      /\ pc # "free"
  OBVIOUS
<1>2. task[t] # Free
  BY <1>1 DEF Free
<1>3. PICK q : Turns(t, q) /\ SameAt(q, task[t], pc)
  BY <1>1, <1>2, StepTurns DEF JInv
<1>4. TaskOK(task[t])
  BY <1>2 DEF JInv, Typed
<1>5. TaskOK(q)
  BY <1>3, <1>4, StepTypes
<1>6. QED
  BY <1>3, <1>5, TasksKept

\* The server's step, put together: the clients are where they were.
LEMMA ServerTypes ==
    ASSUME JInv, UNCHANGED <<call, inode, part, dest>>, Counts',
           \A f \in FileId : row[f] # Absent => row'[f] # Absent,
           Tables', CleanerOK', Tasks'
    PROVE  Typed'
<1>2. Clients'
  <2>1. \A c \in Call : call'[c].at \in Downloading => row'[call'[c].file] # Absent
    <3>1. \A c \in Call : call[c].at \in Downloading => call[c].file \in FileId
      BY DEF JInv, Typed, Clients, CallOK, CallRecord
    <3>2. QED
      BY <3>1 DEF JInv, Typed, Clients
  <2>2. QED
    BY <2>1 DEF JInv, Typed, Clients
<1>3. QED
  BY <1>2 DEF Typed, Tasks

\* A file that is listed is left alone.
RowsKept == \A f \in FileId : row'[f] # Absent => row'[f] = row[f] /\ blob'[f] = blob[f]

LEMMA ListedKept ==
    ASSUME JInv, RowsKept
    PROVE  \A f \in FileId : Listed(f)'
<1>1. \A f \in FileId : Listed(f)
  BY DEF JInv, Typed, Tables
<1>2. QED
  BY <1>1 DEF RowsKept, Listed

LEMMA ChecksTypes ==
    ASSUME JInv, NEW t \in Task, InitCheck(t) \/ ChunkCheck(t) \/ CompleteCheck(t) \/ DownloadOpen(t)
    PROVE  Tables' /\ CleanerOK' /\ Tasks' /\ row' = row
<1>1. UNCHANGED <<session, chunkRow, row, dir, chunk, blob, landing, cleaner>>
  BY DEF InitCheck, ChunkCheck, CompleteCheck, DownloadOpen, tables, disk
<1>2. Tables' /\ CleanerOK'
  BY <1>1 DEF JInv, Typed, Tables, Listed, CleanerOK
<1>3. task[t].at \in {"init", "chunk", "complete", "download"}
  BY DEF InitCheck, ChunkCheck, CompleteCheck, DownloadOpen, At
<1>4. task[t] # Free
  BY <1>3 DEF Free
<1>5. CASE \E a \in Failure \cup {"ok"} : Answer(t, a)
  <2>1. PICK a \in Failure \cup {"ok"} : Answer(t, a)
    BY <1>5
  <2>2. Tasks'
    BY <1>4, <2>1, AnswerTypes
  <2>3. QED
    BY <1>1, <1>2, <2>2
<1>6. CASE ~\E a \in Failure \cup {"ok"} : Answer(t, a)
  <2>1. \/ task[t].at = "init" /\ Step(t, "mkdir")
        \/ task[t].at = "chunk" /\ Step(t, "write")
        \/ task[t].at = "complete" /\ Step(t, "count")
        \/ task[t].at = "download" /\ Step(t, "stream")
    BY <1>6 DEF InitCheck, ChunkCheck, CompleteCheck, DownloadOpen, At, Failure
  <2>2. ASSUME task[t].at = "init", Step(t, "mkdir") PROVE Tasks'
    BY <2>2, MoveTypes
  <2>3. ASSUME task[t].at = "chunk", Step(t, "write") PROVE Tasks'
    BY <2>3, MoveTypes
  <2>4. ASSUME task[t].at = "complete", Step(t, "count") PROVE Tasks'
    BY <2>4, MoveTypes
  <2>5. ASSUME task[t].at = "download", Step(t, "stream") PROVE Tasks'
    BY <2>5, MoveTypes
  <2>6. Tasks'
    BY <2>1, <2>2, <2>3, <2>4, <2>5
  <2>7. QED
    BY <1>1, <1>2, <2>6
<1>7. QED
  BY <1>1, <1>2, <1>5, <1>6

LEMMA InitTypes ==
    ASSUME JInv, NEW t \in Task, InitDir(t) \/ InitSession(t)
    PROVE  Tables' /\ CleanerOK' /\ Tasks' /\ row' = row
<1>1. UNCHANGED <<chunkRow, row, chunk, blob, landing, cleaner>>
  BY DEF InitDir, InitSession, tables, disk
<1>2. task[t].at \in {"mkdir", "session"}
  BY DEF InitDir, InitSession, At
<1>3. task[t] # Free
  BY <1>2 DEF Free
<1>4. task[t].call \in Call /\ task[t].data \in Book
  BY <1>2, <1>3 DEF JInv, FInv, Shapes, IsRequest, Typed, TaskOK, Initing
<1>5. CleanerOK'
  BY <1>1 DEF JInv, Typed, CleanerOK
<1>6. \A f \in FileId : Listed(f)'
  BY <1>1, ListedKept DEF RowsKept
<1>7. dir' \subseteq Call /\ session' \in [Call -> [status : Status, sha : Book \cup {Absent}]]
  <2>1. dir \subseteq Call /\ session \in [Call -> [status : Status, sha : Book \cup {Absent}]]
    BY DEF JInv, Typed, Tables
  <2>2. CASE InitDir(t)
    BY <1>4, <2>1, <2>2 DEF InitDir, tables
  <2>3. CASE InitSession(t)
    <3>1. [status |-> "pending", sha |-> task[t].data] \in [status : Status, sha : Book \cup {Absent}]
      BY <1>4 DEF Status
    <3>2. QED
      BY <1>4, <2>1, <2>3, <3>1 DEF InitSession, disk
  <2>4. QED
    BY <2>2, <2>3
<1>8. Tables'
  BY <1>1, <1>6, <1>7 DEF JInv, Typed, Tables
<1>9. Tasks'
  BY <1>3, MoveTypes, AnswerTypes DEF InitDir, InitSession, At
<1>10. QED
  BY <1>1, <1>5, <1>8, <1>9

LEMMA ChunkTypes ==
    ASSUME JInv, NEW t \in Task, ChunkWrite(t) \/ ChunkRow(t)
    PROVE  Tables' /\ CleanerOK' /\ Tasks' /\ row' = row
<1>1. UNCHANGED <<session, row, dir, blob, cleaner>>
  BY DEF ChunkWrite, ChunkRow, tables, disk
<1>2. task[t].at \in {"write", "row"}
  BY DEF ChunkWrite, ChunkRow, At
<1>3. task[t] # Free
  BY <1>2 DEF Free
<1>4. task[t].call \in Call /\ task[t].data \in Book /\ task[t].ix \in Index
  BY <1>2, <1>3 DEF JInv, FInv, Shapes, IsRequest, Typed, TaskOK, Chunking
<1>5. CleanerOK'
  BY <1>1 DEF JInv, Typed, CleanerOK
<1>6. \A f \in FileId : Listed(f)'
  BY <1>1, ListedKept DEF RowsKept
<1>7. /\ chunkRow \in [Call -> SUBSET Index] /\ chunk \in [Call -> [Index -> Piece]]
      /\ landing \subseteq Written
  BY DEF JInv, Typed, Tables
<1>8. /\ chunkRow' \in [Call -> SUBSET Index] /\ chunk' \in [Call -> [Index -> Piece]]
      /\ landing' \subseteq Written
  <2>1. CASE ChunkWrite(t)
    <3>1. Partial \in Piece
      BY DEF Piece
    <3>2. [call |-> task[t].call, ix |-> task[t].ix, data |-> task[t].data] \in Written
      BY <1>4 DEF Written
    <3>3. chunk' \in [Call -> [Index -> Piece]]
      BY <1>4, <1>7, <2>1, <3>1 DEF ChunkWrite
    <3>4. QED
      BY <1>7, <2>1, <3>2, <3>3 DEF ChunkWrite, tables
  <2>2. CASE ChunkRow(t)
    BY <1>4, <1>7, <2>2 DEF ChunkRow, disk
  <2>3. QED
    BY <2>1, <2>2
<1>9. Tables'
  BY <1>1, <1>6, <1>8 DEF JInv, Typed, Tables
<1>10. Tasks'
  <2>1. CASE ChunkWrite(t)
    BY <1>3, <2>1, MoveTypes, AnswerTypes DEF ChunkWrite, At, Failure
  <2>2. CASE ChunkRow(t)
    BY <1>3, <2>2, AnswerTypes DEF ChunkRow
  <2>3. QED
    BY <2>1, <2>2
<1>11. QED
  BY <1>1, <1>5, <1>9, <1>10

LEMMA CompleteTypes ==
    ASSUME JInv, NEW t \in Task, CompleteCount(t) \/ CompleteMerge(t)
    PROVE  Tables' /\ CleanerOK' /\ Tasks' /\ row' = row
<1>1. UNCHANGED <<session, chunkRow, row, dir, chunk, cleaner>>
  BY DEF CompleteCount, CompleteMerge, tables
<1>2. task[t].at \in {"count", "merge"}
  BY DEF CompleteCount, CompleteMerge, At
<1>3. task[t] # Free
  BY <1>2 DEF Free
<1>4. PICK c \in Call : c = task[t].call
  BY <1>3, TaskFacts
<1>5. /\ row[c] = Absent /\ TaskOK(task[t])
      /\ \A f \in FileId : f # c => blob'[f] = blob[f]
  BY <1>2, <1>3, <1>4, TaskFacts DEF Completing, CompleteCount, CompleteMerge, JInv, FInv, Shapes, FileId
<1>6. CleanerOK'
  BY <1>1 DEF JInv, Typed, CleanerOK
<1>7. \A f \in FileId : Listed(f)'
  BY <1>1, <1>5, ListedKept DEF RowsKept
<1>8. landing' \subseteq Written
  <2>1. landing \subseteq Written /\ FileWrite(c) \in Written
    BY DEF JInv, Typed, Tables, Written, FileId
  <2>2. QED
    BY <1>4, <2>1 DEF CompleteCount, CompleteMerge
<1>9. Tables'
  BY <1>1, <1>7, <1>8 DEF JInv, Typed, Tables
<1>10. Tasks'
  <2>1. CASE CompleteCount(t)
    BY <1>3, <2>1, MoveTypes, AnswerTypes DEF CompleteCount, At, Failure
  <2>2. CASE CompleteMerge(t)
    <3>1. CASE Answer(t, "error")
      BY <1>3, <3>1, AnswerTypes DEF Failure
    <3>2. CASE ~Answer(t, "error")
      <4> DEFINE n == Len(task[t].got) + 1
      <4>1. PICK g : g = Append(task[t].got, chunk[c][n])
        OBVIOUS
      <4>2. /\ task[t].at = "merge" /\ n <= Chunks /\ IsRequest(task[t])
            /\ task' = [task EXCEPT ![t] = [task[t] EXCEPT !.got = g]]
        BY <1>3, <1>4, <2>2, <3>2, <4>1, TaskFacts DEF CompleteMerge, At, JInv, FInv, Shapes
      <4>3. task[t].got \in Seq(Piece)
        BY <1>5, <4>2 DEF TaskOK
      <4>4. n \in Index /\ chunk[c][n] \in Piece
        BY <4>2, <4>3, FileServerAssumption DEF Index, JInv, Typed, Tables
      <4>5. g \in Seq(Piece) /\ Len(g) = n
        BY <4>1, <4>3, <4>4
      <4>6. PICK q : q = [task[t] EXCEPT !.got = g]
        OBVIOUS
      <4>7. /\ IsRequest(q) /\ q.at = "merge" /\ q.live = task[t].live /\ q.call = task[t].call
            /\ q.got = g
        BY <4>2, <4>6 DEF IsRequest
      <4>8. TaskOK(q)
        BY <4>2, <4>5, <4>7 DEF TaskOK, Working, Initing, Chunking
      <4>9. Turns(t, q)
        BY <1>3, <4>2, <4>6, <4>7 DEF Turns
      <4>10. QED
        BY <4>8, <4>9, TasksKept
    <3>3. QED
      BY <3>1, <3>2
  <2>3. QED
    BY <2>1, <2>2
<1>11. QED
  BY <1>1, <1>6, <1>9, <1>10

\* The final file of a call that has no row is removed.
LEMMA RemoveTypes ==
    ASSUME JInv, NEW c \in Call, row[c] = Absent, RemoveFile(c),
           UNCHANGED <<session, chunkRow, row, dir, cleaner>>, chunk' \in [Call -> [Index -> Piece]]
    PROVE  Tables' /\ CleanerOK'
<1>1. CleanerOK'
  BY DEF JInv, Typed, CleanerOK
<1>2. \A f \in FileId : f # c => blob'[f] = blob[f]
  BY DEF RemoveFile, JInv, FInv, Shapes, FileId
<1>3. \A f \in FileId : Listed(f)'
  BY <1>2, ListedKept DEF RowsKept
<1>4. landing' \subseteq Written
  BY DEF RemoveFile, JInv, Typed, Tables
<1>5. QED
  BY <1>1, <1>3, <1>4 DEF JInv, Typed, Tables

LEMMA RecordTypes ==
    ASSUME JInv, NEW t \in Task, CompleteRecord(t)
    PROVE  Tables' /\ CleanerOK' /\ Tasks' /\ \A f \in FileId : row[f] # Absent => row'[f] # Absent
<1>1. task[t].at = "merge" /\ UNCHANGED <<dir, chunk, cleaner>>
  BY DEF CompleteRecord, At
<1>2. task[t] # Free
  BY <1>1 DEF Free
<1>3. PICK c \in Call : c = task[t].call
  BY <1>2, TaskFacts
<1>4. row[c] = Absent /\ session[c].sha \in Book /\ task[t].got = blob[c]
  BY <1>1, <1>2, <1>3, TaskFacts DEF Completing, RequestOK, Ending, JInv, FInv, Merging
<1>5. chunk' \in [Call -> [Index -> Piece]]
  BY <1>1 DEF JInv, Typed, Tables
<1>6. CASE RemoveFile(c) /\ UNCHANGED tables /\ (Answer(t, "bad request") \/ Answer(t, "conflict"))
  <2>1. UNCHANGED <<session, chunkRow, row>> /\ RemoveFile(c)
    BY <1>6 DEF tables
  <2>2. Tables' /\ CleanerOK'
    BY <1>1, <1>4, <1>5, <2>1, RemoveTypes
  <2>3. Tasks'
    BY <1>2, <1>6, AnswerTypes DEF Failure
  <2>4. QED
    BY <2>1, <2>2, <2>3
<1>7. CASE ~(RemoveFile(c) /\ UNCHANGED tables /\ (Answer(t, "bad request") \/ Answer(t, "conflict")))
  <2>1. /\ Record(c) /\ Step(t, "rmdir") /\ UNCHANGED <<blob, landing>>
        /\ task[t].got = Content(session[c].sha)
    BY <1>3, <1>7 DEF CompleteRecord
  <2>2. PICK x : x = [sha |-> session[c].sha, deleted |-> FALSE]
    OBVIOUS
  <2>3. x \in [sha : Book, deleted : BOOLEAN] /\ x # Absent
    <3>1. x \in [sha : Book, deleted : BOOLEAN]
      BY <1>4, <2>2
    <3>2. QED
      BY <3>1, FileServerAssumption
  <2>4. row'[c] = x /\ \A f \in FileId : f # c => row'[f] = row[f]
    BY <2>1, <2>2 DEF Record, JInv, FInv, Shapes, FileId
  <2>5. blob[c] \in Seq(Book) /\ Len(blob[c]) <= Chunks
    <3>1. blob[c] = Content(session[c].sha)
      BY <1>4, <2>1
    <3>2. QED
      BY <1>4, <3>1, ContentSeq, FileServerAssumption
  <2>6. \A f \in FileId : Listed(f)'
    <3>1. Listed(c)'
      BY <2>1, <2>3, <2>4, <2>5 DEF Listed
    <3>2. \A f \in FileId : f # c => Listed(f)'
      BY <2>1, <2>4 DEF Listed, JInv, Typed, Tables
    <3>3. QED
      BY <3>1, <3>2
  <2>7. /\ session' \in [Call -> [status : Status, sha : Book \cup {Absent}]]
        /\ chunkRow' \in [Call -> SUBSET Index]
    <3>1. /\ session \in [Call -> [status : Status, sha : Book \cup {Absent}]]
          /\ chunkRow \in [Call -> SUBSET Index]
      BY DEF JInv, Typed, Tables
    <3>2. "completed" \in Status
      BY DEF Status
    <3>3. QED
      BY <2>1, <3>1, <3>2 DEF Record
  <2>8. Tables'
    BY <1>1, <2>1, <2>6, <2>7 DEF JInv, Typed, Tables
  <2>9. CleanerOK'
    BY <1>1 DEF JInv, Typed, CleanerOK
  <2>10. Tasks'
    BY <1>1, <2>1, MoveTypes
  <2>11. \A f \in FileId : row[f] # Absent => row'[f] # Absent
    BY <2>3, <2>4
  <2>12. QED
    BY <2>8, <2>9, <2>10, <2>11
<1>8. QED
  BY <1>6, <1>7

LEMMA DoneTypes ==
    ASSUME JInv, NEW t \in Task, CompleteDone(t)
    PROVE  Tables' /\ CleanerOK' /\ Tasks' /\ row' = row
<1>1. /\ task[t].at = "rmdir" /\ UNCHANGED <<session, chunkRow, row, blob, landing, cleaner>>
      /\ RemoveDir(task[t].call) /\ Answer(t, "ok")
  BY DEF CompleteDone, At, tables
<1>2. task[t] # Free
  BY <1>1 DEF Free
<1>3. \A f \in FileId : Listed(f)'
  BY <1>1, ListedKept DEF RowsKept
<1>4. dir' \subseteq Call /\ chunk' \in [Call -> [Index -> Piece]]
  <2>1. dir \subseteq Call /\ chunk \in [Call -> [Index -> Piece]]
    BY DEF JInv, Typed, Tables
  <2>2. [i \in Index |-> Absent] \in [Index -> Piece]
    BY DEF Piece
  <2>3. QED
    BY <1>1, <2>1, <2>2 DEF RemoveDir
<1>5. Tables' /\ CleanerOK'
  BY <1>1, <1>3, <1>4 DEF JInv, Typed, Tables, CleanerOK
<1>6. Tasks'
  BY <1>1, <1>2, AnswerTypes
<1>7. QED
  BY <1>1, <1>5, <1>6

LEMMA LandTypes ==
    ASSUME JInv, NEW w \in landing, Land(w)
    PROVE  Tables' /\ CleanerOK' /\ Tasks' /\ row' = row
<1>1. UNCHANGED <<session, chunkRow, row, dir, blob, task, cleaner>> /\ landing' \subseteq landing
  BY DEF Land, tables
<1>2. \A f \in FileId : Listed(f)'
  BY <1>1, ListedKept DEF RowsKept
<1>3. w \in Written /\ chunk \in [Call -> [Index -> Piece]]
  BY DEF JInv, Typed, Tables
<1>4. chunk' \in [Call -> [Index -> Piece]]
  <2>1. CASE \E f \in FileId : w = FileWrite(f)
    <3>1. w.ix = 0
      BY <2>1 DEF FileWrite
    <3>2. QED
      BY <1>3, <3>1 DEF Land
  <2>2. CASE w \in [call : Call, ix : Index, data : Book]
    BY <1>3, <2>2 DEF Land, Piece
  <2>3. QED
    BY <1>3, <2>1, <2>2 DEF Written
<1>5. Tables' /\ CleanerOK' /\ Tasks'
  BY <1>1, <1>2, <1>4 DEF JInv, Typed, Tables, CleanerOK, Tasks
<1>6. QED
  BY <1>1, <1>5

LEMMA DeleteTypes ==
    ASSUME JInv, NEW f \in FileId, DeleteFile(f)
    PROVE  Tables' /\ CleanerOK' /\ Tasks' /\ \A g \in FileId : row[g] # Absent => row'[g] # Absent
<1>1. /\ UNCHANGED <<session, chunkRow, dir, chunk, blob, landing, task, cleaner>>
      /\ row' = [row EXCEPT ![f].deleted = TRUE] /\ row[f] # Absent
  BY DEF DeleteFile, disk, Active
<1>2. row[f] \in [sha : Book, deleted : BOOLEAN] /\ DOMAIN row = FileId
  BY <1>1 DEF JInv, FInv, Shapes, Typed, Tables, Listed
<1>3. row'[f] = [row[f] EXCEPT !.deleted = TRUE] /\ \A g \in FileId : g # f => row'[g] = row[g]
  BY <1>1, <1>2
<1>4. row'[f] \in [sha : Book, deleted : BOOLEAN]
  BY <1>2, <1>3
<1>5. row'[f] # Absent
  BY <1>4, FileServerAssumption
<1>6. \A g \in FileId : Listed(g)'
  <2>1. \A g \in FileId : Listed(g)
    BY DEF JInv, Typed, Tables
  <2>2. QED
    BY <1>1, <1>3, <1>4, <2>1 DEF Listed
<1>7. Tables' /\ CleanerOK' /\ Tasks'
  BY <1>1, <1>6 DEF JInv, Typed, Tables, CleanerOK, Tasks
<1>8. QED
  BY <1>3, <1>5, <1>7

LEMMA CleanTypes ==
    ASSUME JInv, CleanerStep \/ CleanFails
    PROVE  Tables' /\ CleanerOK' /\ Tasks' /\ row' = row
<1>1. UNCHANGED <<row, blob, landing, task>>
  BY DEF CleanerStep, CleanFails, CleanSelect, CleanRows, CleanStatus, CleanDir, tables, disk
<1>2. \A f \in FileId : Listed(f)'
  BY <1>1, ListedKept DEF RowsKept
<1>3. Tasks'
  BY <1>1 DEF JInv, Typed, Tasks
<1>4. /\ session \in [Call -> [status : Status, sha : Book \cup {Absent}]]
      /\ chunkRow \in [Call -> SUBSET Index] /\ dir \subseteq Call
      /\ chunk \in [Call -> [Index -> Piece]] /\ CleanerOK /\ landing \subseteq Written
  BY DEF JInv, Typed, Tables
<1>5. CASE CleanSelect \/ CleanFails
  <2>1. UNCHANGED <<session, chunkRow, dir, chunk>>
    BY <1>5 DEF CleanSelect, CleanFails, tables, disk
  <2>2. CleanerOK'
    BY <1>5 DEF CleanSelect, CleanFails, CleanerOK
  <2>3. QED
    BY <1>1, <1>2, <1>3, <1>4, <2>1, <2>2 DEF Tables
<1>6. ASSUME NEW c \in Call, CleanDir(c) PROVE Tables' /\ CleanerOK'
  <2>1. UNCHANGED <<session, chunkRow>>
    BY <1>6 DEF CleanDir, tables
  <2>2. [i \in Index |-> Absent] \in [Index -> Piece]
    BY DEF Piece
  <2>3. dir' \subseteq Call /\ chunk' \in [Call -> [Index -> Piece]]
    BY <1>4, <1>6, <2>2 DEF CleanDir, RemoveDir
  <2>4. CleanerOK'
    BY <1>4, <1>6 DEF CleanDir, CleanerOK
  <2>5. QED
    BY <1>1, <1>2, <1>4, <2>1, <2>3, <2>4 DEF Tables
<1>7. CASE CleanRows
  <2>1. UNCHANGED <<session, dir, chunk>>
    BY <1>7 DEF CleanRows, disk
  <2>2. chunkRow' \in [Call -> SUBSET Index]
    BY <1>4, <1>7 DEF CleanRows
  <2>3. CleanerOK'
    <3>1. /\ cleaner = [at |-> cleaner.at, todo |-> cleaner.todo, cur |-> cleaner.cur]
          /\ cleaner.cur \in Call /\ cleaner.todo \subseteq Call
          /\ cleaner' = [cleaner EXCEPT !.at = "status"]
      BY <1>4, <1>7 DEF CleanRows, CleanerOK
    <3>2. cleaner' = [at |-> "status", todo |-> cleaner.todo, cur |-> cleaner.cur]
      BY <3>1
    <3>3. QED
      BY <3>1, <3>2 DEF CleanerOK
  <2>4. QED
    BY <1>1, <1>2, <1>3, <1>4, <2>1, <2>2, <2>3 DEF Tables
<1>8. CASE CleanStatus
  <2>1. UNCHANGED <<chunkRow, dir, chunk>>
    BY <1>8 DEF CleanStatus, disk
  <2>2. session' \in [Call -> [status : Status, sha : Book \cup {Absent}]]
    <3>1. "expired" \in Status
      BY DEF Status
    <3>2. QED
      BY <1>4, <1>8, <3>1 DEF CleanStatus
  <2>3. CleanerOK'
    BY <1>4, <1>8 DEF CleanStatus, CleanerOK
  <2>4. QED
    BY <1>1, <1>2, <1>3, <1>4, <2>1, <2>2, <2>3 DEF Tables
<1>9. QED
  BY <1>1, <1>3, <1>5, <1>6, <1>7, <1>8 DEF CleanerStep

LEMMA FailsTypes ==
    ASSUME JInv, NEW t \in Task, Fails(t)
    PROVE  Tables' /\ CleanerOK' /\ Tasks' /\ row' = row
<1>1. task[t].at \in Working /\ UNCHANGED <<session, chunkRow, row, dir, cleaner>>
  BY DEF Fails, tables
<1>2. task[t] # Free
  BY <1>1 DEF Working, Free
<1>3. PICK c \in Call : c = task[t].call
  BY <1>2, TaskFacts
<1>4. Tasks'
  <2>1. "ok" \in Failure \cup {"ok"} /\ "error" \in Failure \cup {"ok"}
    BY DEF Failure
  <2>2. CASE Answer(t, "ok")
    BY <1>2, <2>1, <2>2, AnswerTypes
  <2>3. CASE Answer(t, "error")
    BY <1>2, <2>1, <2>3, AnswerTypes
  <2>4. QED
    BY <2>2, <2>3 DEF Fails
<1>5. chunk \in [Call -> [Index -> Piece]]
  BY DEF JInv, Typed, Tables
<1>6. CASE At(t, "merge") /\ RemoveFile(c) /\ UNCHANGED chunk
  <2>1. row[c] = Absent
    BY <1>2, <1>3, <1>6, TaskFacts DEF Completing, At
  <2>2. Tables' /\ CleanerOK'
    BY <1>1, <1>5, <1>6, <2>1, RemoveTypes
  <2>3. QED
    BY <1>1, <1>4, <2>2
<1>7. CASE /\ At(t, "write") /\ chunk' = [chunk EXCEPT ![c][task[t].ix] = Partial]
           /\ UNCHANGED <<blob, landing>>
  <2>1. task[t].ix \in Index
    BY <1>2, <1>7 DEF At, JInv, Typed, TaskOK, Chunking
  <2>2. Partial \in Piece
    BY DEF Piece
  <2>3. chunk' \in [Call -> [Index -> Piece]]
    BY <1>5, <1>7, <2>1, <2>2
  <2>4. \A f \in FileId : Listed(f)'
    BY <1>1, <1>7, ListedKept DEF RowsKept
  <2>5. QED
    BY <1>1, <1>4, <1>7, <2>3, <2>4 DEF JInv, Typed, Tables, CleanerOK
<1>8. CASE UNCHANGED <<chunk, blob, landing>>
  <2>1. \A f \in FileId : Listed(f)'
    BY <1>1, <1>8, ListedKept DEF RowsKept
  <2>2. QED
    BY <1>1, <1>4, <1>8, <2>1 DEF JInv, Typed, Tables, CleanerOK
<1>9. QED
  BY <1>3, <1>6, <1>7, <1>8 DEF Fails

LEMMA DropTypes ==
    ASSUME JInv, NEW t \in Task, Drop(t)
    PROVE  Tables' /\ CleanerOK' /\ Tasks' /\ row' = row
<1>1. UNCHANGED <<session, chunkRow, row, dir, chunk, blob, landing, cleaner>> /\ Turns(t, Free)
  BY DEF Drop, Turns, tables, disk
<1>2. Tables' /\ CleanerOK'
  BY <1>1 DEF JInv, Typed, Tables, Listed, CleanerOK
<1>3. QED
  BY <1>1, <1>2, TasksKept

LEMMA CrashTypes ==
    ASSUME JInv, Crash
    PROVE  Tables' /\ CleanerOK' /\ Tasks' /\ row' = row
<1>1. /\ UNCHANGED <<session, chunkRow, row, dir, chunk>>
      /\ task' = [t \in Task |-> IF task[t] # Free /\ task[t].live
                                 THEN [task[t] EXCEPT !.at = "error"] ELSE Free]
      /\ blob' = [f \in FileId |-> IF FileWrite(f) \in landing
                                   THEN SubSeq(blob[f], 1, Extent(f)) ELSE blob[f]]
      /\ landing' = {} /\ cleaner' = [at |-> "idle", todo |-> {}]
  BY DEF Crash, tables
<1>2. ASSUME NEW f \in FileId, row[f] # Absent PROVE Listed(f)'
  <2>1. /\ row[f] \in [sha : Book, deleted : BOOLEAN]
        /\ blob[f] \in Seq(Book) /\ Len(blob[f]) <= Chunks
    BY <1>2 DEF JInv, Typed, Tables, Listed
  <2>2. CASE FileWrite(f) \in landing
    <3>1. blob'[f] = SubSeq(blob[f], 1, Len(blob[f]) - 1)
      BY <1>1, <2>2 DEF Extent
    <3>2. Len(blob[f]) - 1 \in Int /\ Len(blob[f]) - 1 <= Len(blob[f]) /\ Len(blob[f]) - 1 >= -1
      BY <2>1
    <3>3. blob'[f] \in Seq(Book) /\ Len(blob'[f]) <= Len(blob[f])
      <4>1. CASE Len(blob[f]) = 0
        BY <2>1, <3>1, <4>1, SubSeqProperties
      <4>2. CASE Len(blob[f]) # 0
        BY <2>1, <3>1, <4>2, SubSeqProperties
      <4>3. QED
        BY <4>1, <4>2
    <3>4. QED
      BY <1>1, <2>1, <3>3, FileServerAssumption DEF Listed
  <2>3. CASE FileWrite(f) \notin landing
    BY <1>1, <2>1, <2>3 DEF Listed
  <2>4. QED
    BY <2>2, <2>3
<1>3. \A f \in FileId : Listed(f)'
  BY <1>1, <1>2 DEF Listed
<1>4. Tables' /\ CleanerOK'
  BY <1>1, <1>3 DEF JInv, Typed, Tables, CleanerOK
<1>5. ASSUME NEW t \in Task, task'[t] # Free PROVE TaskOK(task'[t])
  <2>1. task[t] # Free /\ task[t].live /\ task'[t] = [task[t] EXCEPT !.at = "error"]
    BY <1>1, <1>5
  <2>2. IsRequest(task[t]) /\ TaskOK(task[t])
    BY <2>1 DEF JInv, Typed, FInv, Shapes
  <2>3. task'[t].at = "error" /\ task'[t].live
    BY <2>1, <2>2 DEF IsRequest
  <2>4. QED
    BY <2>3 DEF TaskOK, Failure, Initing, Chunking
<1>6. QED
  BY <1>1, <1>4, <1>5 DEF Tasks

-----------------------------------------------------------------------------
(* The server's steps and faults, put together.                            *)

LEMMA ServerGInv ==
    ASSUME JInv, DestInv, UNCHANGED <<call, inode, part, dest, clash>>, Counts',
           \A f \in FileId : row[f] # Absent => row'[f] # Absent,
           Tables', CleanerOK', Tasks', \A e \in Call : CallInv(e)'
    PROVE  GInv'
<1>1. Typed'
  BY ServerTypes
<1>2. DestInv'
  BY DEF DestInv, OneDownload, Verified, DestIsWhole
<1>3. QED
  BY <1>1, <1>2 DEF GInv

LEMMA ServeStep ==
    ASSUME JInv, DestInv, Serve
    PROVE  GInv'
<1>1. UNCHANGED <<call, inode, part, dest, clash>>
  BY DEF Serve, client
<1>2. Counts'
  BY DEF Serve, JInv, Typed, Counts
<1>3. \A e \in Call : CallInv(e)'
  BY ServeCalls
<1>4. /\ Tables' /\ CleanerOK' /\ Tasks'
      /\ \A f \in FileId : row[f] # Absent => row'[f] # Absent
  <2>1. ASSUME NEW t \in Task, TaskStep(t)
        PROVE  /\ Tables' /\ CleanerOK' /\ Tasks'
               /\ \A f \in FileId : row[f] # Absent => row'[f] # Absent
    BY <2>1, ChecksTypes, InitTypes, ChunkTypes, CompleteTypes, RecordTypes, DoneTypes DEF TaskStep
  <2>2. ASSUME NEW w \in landing, Land(w) PROVE Tables' /\ CleanerOK' /\ Tasks' /\ row' = row
    BY <2>2, LandTypes
  <2>3. ASSUME NEW f \in FileId, DeleteFile(f)
        PROVE  /\ Tables' /\ CleanerOK' /\ Tasks'
               /\ \A g \in FileId : row[g] # Absent => row'[g] # Absent
    BY <2>3, DeleteTypes
  <2>4. CASE CleanerStep
    BY <2>4, CleanTypes
  <2>5. QED
    BY <2>1, <2>2, <2>3, <2>4 DEF Serve
<1>5. QED
  BY <1>1, <1>2, <1>3, <1>4, ServerGInv

LEMMA ServerFaultStep ==
    ASSUME JInv, DestInv, OperationFails \/ ServerDies \/ \E t \in Task : TaskDropped(t)
    PROVE  GInv'
<1>1. UNCHANGED <<call, inode, part, dest, clash>>
  BY DEF OperationFails, ServerDies, TaskDropped, client
<1>2. Counts'
  <2>1. faults \in 0 .. MaxFaults[slow] /\ MaxFaults[slow] \in Nat
    BY FileSyncAssumption DEF JInv, Typed, Counts
  <2>2. slow' = slow /\ faults' \in 0 .. MaxFaults[slow]
    BY <2>1 DEF OperationFails, ServerDies, TaskDropped, Fault
  <2>3. torn' \subseteq FileId
    BY DEF OperationFails, ServerDies, TaskDropped, JInv, Typed, Counts
  <2>4. QED
    BY <2>2, <2>3 DEF JInv, Typed, Counts
<1>3. CASE OperationFails
  <2>1. UNCHANGED <<call, unsure>>
    BY <1>3 DEF OperationFails, client
  <2>2. CASE CleanFails /\ UNCHANGED cut
    <3>1. \A e \in Call : CallInv(e)'
      BY <2>1, <2>2, CleanSelectCalls
    <3>2. QED
      BY <1>1, <1>2, <2>2, <3>1, CleanTypes, ServerGInv
  <2>3. ASSUME NEW t \in Task, Fails(t), cut' = cut \cup {task[t].call} PROVE GInv'
    <3>1. \A e \in Call : CallInv(e)'
      BY <2>1, <2>3, FailsCalls
    <3>2. QED
      BY <1>1, <1>2, <2>3, <3>1, FailsTypes, ServerGInv
  <2>4. QED
    BY <1>3, <2>2, <2>3 DEF OperationFails
<1>4. CASE ServerDies
  <2>1. \A e \in Call : CallInv(e)'
    BY <1>4, CrashCalls
  <2>2. QED
    BY <1>1, <1>2, <1>4, <2>1, CrashTypes, ServerGInv DEF ServerDies
<1>5. ASSUME NEW t \in Task, TaskDropped(t) PROVE GInv'
  <2>1. UNCHANGED <<call, unsure>> /\ Drop(t) /\ cut' = cut \cup {task[t].call}
    BY <1>5 DEF TaskDropped, client
  <2>2. \A e \in Call : CallInv(e)'
    BY <2>1, DropCalls
  <2>3. QED
    BY <1>1, <1>2, <2>1, <2>2, DropTypes, ServerGInv
<1>6. QED
  BY <1>3, <1>4, <1>5

LEMMA GInit == Init => GInv
<1> SUFFICES ASSUME Init PROVE GInv
  OBVIOUS
<1>1. /\ session = [c \in Call |-> NoSession] /\ chunkRow = [c \in Call |-> {}]
      /\ dir = {} /\ chunk = [c \in Call |-> [i \in Index |-> Absent]] /\ landing = {}
      /\ task = [t \in Task |-> Free] /\ cleaner = [at |-> "idle", todo |-> {}]
      /\ call = [c \in Call |-> Idle] /\ inode = [n \in Inode |-> Hole]
      /\ part = 0 /\ dest = 0 /\ faults = 0 /\ slow \in BOOLEAN /\ torn = {}
  BY DEF Init, ServerInit
<1>2. ASSUME NEW f \in FileId PROVE Listed(f) /\ (f \in Call => row[f] = Absent /\ blob[f] = Absent)
  <2>1. CASE f \in Call
    BY <2>1 DEF Init, ServerInit, Listed
  <2>2. CASE f \notin Call
    <3>1. Stored[f] \in Book /\ f \notin Call
      BY <2>2, FileServerAssumption DEF FileId
    <3>2. row[f] = [sha |-> Stored[f], deleted |-> FALSE] /\ blob[f] = Content(Stored[f])
      BY <3>1 DEF Init, ServerInit, Content
    <3>3. blob[f] \in Seq(Book) /\ Len(blob[f]) <= Chunks
      BY <3>1, <3>2, ContentSeq, FileServerAssumption
    <3>4. QED
      BY <3>1, <3>2, <3>3 DEF Listed
  <2>3. QED
    BY <2>1, <2>2
<1>3. Tables
  <2>1. NoSession \in [status : Status, sha : Book \cup {Absent}]
    BY DEF NoSession, Status
  <2>2. [i \in Index |-> Absent] \in [Index -> Piece]
    BY DEF Piece
  <2>3. QED
    BY <1>1, <1>2, <2>1, <2>2 DEF Tables
<1>4. CleanerOK
  BY <1>1 DEF CleanerOK
<1>5. Clients
  <2>1. Idle \in CallRecord
    BY FileServerAssumption DEF Idle, CallRecord, CallAt
  <2>2. \A c \in Call : call[c] = Idle /\ CallOK(call[c]) /\ call[c].at \notin Downloading
    BY <1>1, <2>1 DEF CallOK, Idle, Downloading
  <2>3. Hole \in [Index -> Book \cup {Absent}]
    BY DEF Hole
  <2>4. QED
    BY <1>1, <2>2, <2>3 DEF Clients
<1>6. Counts
  <2>1. MaxFaults[slow] \in Nat
    BY <1>1, FileSyncAssumption
  <2>2. QED
    BY <1>1, <2>1 DEF Counts
<1>7. ASSUME NEW c \in Call PROVE CallInv(c)
  <2>1. call[c] = Idle /\ Under(c) = {} /\ session[c].status = "none" /\ chunkRow[c] = {}
    BY <1>1 DEF Under, NoSession
  <2>2. Asked(c) /\ Knows(c) /\ Told(c)
    BY <2>1 DEF Asked, Knows, Told, Idle
  <2>3. ~Cleaning(c) /\ Picked(c)
    BY <1>1 DEF Picked, Cleaning
  <2>4. ~HasFile(c) /\ c \notin dir
    BY <1>1, <1>2 DEF HasFile, FileId
  <2>5. QED
    BY <2>1, <2>2, <2>3, <2>4 DEF CallInv, Tidy
<1>8. DestInv
  <2>1. \A c \in Call : call[c].at = "idle" /\ call[c].fd = 0
    BY <1>1 DEF Idle
  <2>2. QED
    BY <1>1, <2>1 DEF DestInv, OneDownload, Verified, DestIsWhole, Downloading
<1>9. QED
  BY <1>1, <1>3, <1>4, <1>5, <1>6, <1>7, <1>8 DEF GInv, Typed

LEMMA GStill ==
    ASSUME GInv, UNCHANGED vars
    PROVE  GInv'
<1>1. Typed'
  BY DEF GInv, Typed, Tables, Listed, CleanerOK, Clients, Counts, vars
<1>2. ASSUME NEW c \in Call PROVE CallInv(c)'
  <2>1. CallInv(c) /\ Under(c)' = Under(c)
    BY DEF GInv, Under, vars
  <2>2. Asked(c)' /\ Knows(c)' /\ Told(c)' /\ Picked(c)'
    BY <2>1 DEF CallInv, Asked, RequestOK, Knows, Told, Picked, Cleaning, vars
  <2>3. Tidy(c) => Tidy(c)'
    BY <2>1 DEF Tidy, Entry, HasFile, Cleaning, vars
  <2>4. QED
    BY <2>1, <2>2, <2>3 DEF CallInv, vars
<1>3. DestInv'
  BY DEF GInv, DestInv, OneDownload, Verified, DestIsWhole, vars
<1>4. QED
  BY <1>1, <1>2, <1>3 DEF GInv

LEMMA GNext == FInv /\ GInv /\ [Next]_vars => GInv'
<1> SUFFICES ASSUME FInv, GInv, [Next]_vars PROVE GInv'
  OBVIOUS
<1>1. JInv /\ DestInv
  BY DEF JInv, GInv
<1>2. CASE UNCHANGED vars
  BY <1>2, GStill
<1>3. ASSUME NEW c \in Call, UploadStep(c) PROVE GInv'
  BY <1>1, <1>3, StartUploadStep, InitAnsweredStep, ChunkAnsweredStep, ResendChunkStep,
     CompleteAnsweredStep DEF UploadStep
<1>4. ASSUME NEW c \in Call, DownloadStep(c) PROVE GInv'
  BY <1>1, <1>4, StartDownloadStep, CreatePartStep, ReceiveStep, ReceivedStep, GetFailedStep,
     VerifyStep, RenameStep DEF DownloadStep
<1>5. ASSUME NEW c \in Call, LocalFails(c) PROVE GInv'
  BY <1>1, <1>5, VerifyStep
<1>6. ASSUME NEW c \in Call, NEW t \in Task, Timeout(c, t) PROVE GInv'
  BY <1>1, <1>6, TimeoutStep
<1>7. CASE ClientDies
  BY <1>1, <1>7, ClientDiesStep
<1>8. CASE Serve
  BY <1>1, <1>8, ServeStep
<1>9. CASE OperationFails \/ ServerDies \/ \E t \in Task : TaskDropped(t)
  BY <1>1, <1>9, ServerFaultStep
<1>10. CASE Rest
  BY <1>2, <1>10 DEF Rest
<1>11. QED
  BY <1>2, <1>3, <1>4, <1>5, <1>6, <1>7, <1>8, <1>9, <1>10 DEF Next

-----------------------------------------------------------------------------
(* The theorems.                                                           *)

\* The two invariants together: the second one needs of the first that a call
\* has one completion, which alone writes its final file.
THEOREM FilesInvariance == Spec => [](FInv /\ GInv)
<1>1. Init => FInv /\ GInv
  BY FileInit, GInit
<1>2. FInv /\ GInv /\ [Next]_vars => (FInv /\ GInv)'
  BY FileNext, GNext
<1>3. QED
  BY <1>1, <1>2, PTL DEF Spec

\* Tables, directories, requests and the client's files are what the handlers
\* take them for, whatever runs at once and whatever fails.
THEOREM FilesTyped == Spec => []TypeOK
<1>1. FInv /\ GInv => TypeOK
  BY DEF FInv, Shapes, GInv, Typed, Tables, Clients, Counts, TypeOK, Piece
<1>2. QED
  BY <1>1, FilesInvariance, PTL

\* upload_file tells the truth.  Ok: the server has recorded the file under the
\* hash the client computed; an error: it has not, then and ever after, unless
\* the call missed an answer.
THEOREM AnswersAreTrue == Spec => []AnswerIsTrue
<1>1. GInv => AnswerIsTrue
  BY DEF GInv, CallInv, Told, AnswerIsTrue
<1>2. QED
  BY <1>1, FilesInvariance, PTL

\* An upload of which no request was cut short leaves neither a directory nor
\* chunk rows behind a session that is over, and no file without a row,
\* whatever order its requests, those of others and the clean-up ran in.
THEOREM NothingIsLeft == Spec => []NoLeftovers
<1>1. GInv => NoLeftovers
  <2> SUFFICES ASSUME GInv, NEW c \in Call \ cut, Under(c) = {}, ~Cleaning(c)
               PROVE  /\ c \in dir \/ chunkRow[c] # {} => session[c].status = "pending"
                      /\ blob[c] # Absent => row[c] # Absent
    BY DEF NoLeftovers, Cleaning
  <2>1. Tidy(c)
    BY DEF GInv, CallInv
  <2>2. QED
    BY <2>1 DEF Tidy, HasFile
<1>2. QED
  BY <1>1, FilesInvariance, PTL

\* The destination holds, complete, a book that a download verified, as long as
\* downloads of it do not overlap: the file called dest.part is never the one
\* called dest, and is what the one call at work has hashed.
THEOREM DestinationIsWhole == Spec => []DestIsWhole
<1>1. GInv => DestIsWhole
  BY DEF GInv, DestInv, DestIsWhole
<1>2. QED
  BY <1>1, FilesInvariance, PTL
=============================================================================
