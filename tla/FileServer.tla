----------------------------- MODULE FileServer -----------------------------
(***************************************************************************)
(* The files API of the backend for one account                            *)
(* (crates/backend/src/handlers/files.rs) with the hourly clean-up of      *)
(* uploads that were given up (main.rs): upload sessions and their rows in *)
(* SQLite, chunk files and finished files on disk.                         *)
(*                                                                         *)
(* A request is a task of the runtime.  Each of its steps ends at an await *)
(* that gives the other tasks a turn; a task whose client has gone away    *)
(* may be dropped at any of them.  A file is written through               *)
(* tokio::fs::File, whose last write goes on in the background after       *)
(* write_all has returned, and also after the File was dropped: such       *)
(* writes are `landing'.                                                   *)
(*                                                                         *)
(* A book stands for its content, and so for its SHA-256: chunk i of book  *)
(* b is written b, the position tells the rest.  The session that a call   *)
(* of a client opens, and the file that its completion creates, are named  *)
(* after the call.                                                         *)
(***************************************************************************)
EXTENDS Naturals, Sequences, FiniteSets

CONSTANTS
    Call,      \* calls of the clients, each with one upload session at most
    Book,      \* contents
    Chunks,    \* total_chunks of every book
    Stored,    \* files on the server from the start: [file id -> Book]
    Task,      \* requests that the server can handle at a time
    MaxDeletes,\* bound: files deleted
    Absent     \* no file there; no row

ASSUME FileServerAssumption ==
    /\ Chunks \in Nat \ {0}
    /\ Stored \in [DOMAIN Stored -> Book] /\ DOMAIN Stored \cap Call = {}
    /\ MaxDeletes \in Nat
    /\ Absent \notin Book \cup Call \cup DOMAIN Stored \cup {<<Absent>>}
    /\ Absent \notin [sha : Book, deleted : BOOLEAN]
    /\ IsFiniteSet(Call) /\ IsFiniteSet(Task)

Partial == <<Absent>>    \* content that was truncated or is not all there yet
Index == 1 .. Chunks
FileId == Call \cup DOMAIN Stored

VARIABLES
    session,   \* upload_sessions: status and sha256
    chunkRow,  \* file_chunks: the indexes received
    dir,       \* the directories under uploads/
    chunk,     \* the chunk files
    row,       \* user_files
    blob,      \* the files under files/: what was merged into them
    landing,   \* writes under way in the background
    task,      \* requests
    cleaner    \* cleanup_stale_uploads

tables == <<session, chunkRow, row>>
disk == <<dir, chunk, blob, landing>>
server == <<session, chunkRow, dir, chunk, row, blob, landing, task, cleaner>>

NoSession == [status |-> "none", sha |-> Absent]
Status == {"none", "pending", "completed", "expired"}
Failure == {"conflict", "not found", "bad request", "error"}
Working == {"init", "mkdir", "session", "chunk", "write", "row", "complete",
            "count", "merge", "rmdir", "download"}
Free == [at |-> "free"]

ServerInit ==
    /\ session = [c \in Call |-> NoSession]
    /\ chunkRow = [c \in Call |-> {}]
    /\ dir = {}
    /\ chunk = [c \in Call |-> [i \in Index |-> Absent]]
    /\ row = [f \in FileId |-> IF f \in Call THEN Absent
                               ELSE [sha |-> Stored[f], deleted |-> FALSE]]
    /\ blob = [f \in FileId |-> IF f \in Call THEN Absent
                                ELSE [i \in Index |-> Stored[f]]]
    /\ landing = {}
    /\ task = [t \in Task |-> Free]
    /\ cleaner = [at |-> "idle", todo |-> {}]

\* SELECT ... WHERE deleted_at IS NULL
Active == {f \in FileId : row[f] # Absent /\ ~row[f].deleted}
HashTaken(b) == \E f \in Active : row[f].sha = b

Content(b) == [i \in Index |-> b]
FileWrite(f) == [call |-> f, ix |-> 0, data |-> Absent]
\* How much of a file is on disk: not what is still landing.
Extent(f) == IF FileWrite(f) \in landing THEN Len(blob[f]) - 1 ELSE Len(blob[f])

\* A request of call c; its client waits for the answer while it is live.
Request(kind, c, i, b) ==
    [at |-> kind, call |-> c, ix |-> i, data |-> b, got |-> << >>, live |-> TRUE]

Step(t, pc) == task' = [task EXCEPT ![t].at = pc]

\* The answer waits for the client; nobody waits for that of a task given up.
Answer(t, a) == task' = [task EXCEPT ![t] = IF @.live THEN [@ EXCEPT !.at = a] ELSE Free]

At(t, pc) == task[t].at = pc

-----------------------------------------------------------------------------
(* upload_init *)

InitCheck(t) ==
    /\ At(t, "init")
    /\ IF HashTaken(task[t].data) THEN Answer(t, "conflict") ELSE Step(t, "mkdir")
    /\ UNCHANGED <<tables, disk, cleaner>>

InitDir(t) ==
    /\ At(t, "mkdir")
    /\ dir' = dir \cup {task[t].call}
    /\ Step(t, "session")
    /\ UNCHANGED <<tables, chunk, blob, landing, cleaner>>

InitSession(t) ==
    /\ At(t, "session")
    /\ session' = [session EXCEPT ![task[t].call] = [status |-> "pending", sha |-> task[t].data]]
    /\ Answer(t, "ok")
    /\ UNCHANGED <<chunkRow, row, disk, cleaner>>

(* upload_chunk *)

ChunkCheck(t) ==
    /\ At(t, "chunk")
    /\ IF session[task[t].call].status = "pending"
          THEN Step(t, "write") ELSE Answer(t, "not found")
    /\ UNCHANGED <<tables, disk, cleaner>>

\* File::create truncates what is there, and the data follow in the background.
ChunkWrite(t) ==
    LET c == task[t].call  i == task[t].ix
    IN /\ At(t, "write")
       /\ IF c \in dir
             THEN /\ chunk' = [chunk EXCEPT ![c][i] = Partial]
                  /\ landing' = landing \cup {[call |-> c, ix |-> i, data |-> task[t].data]}
                  /\ Step(t, "row")
             ELSE /\ Answer(t, "error")
                  /\ UNCHANGED <<chunk, landing>>
       /\ UNCHANGED <<tables, dir, blob, cleaner>>

ChunkRow(t) ==
    /\ At(t, "row")
    /\ chunkRow' = [chunkRow EXCEPT ![task[t].call] = @ \cup {task[t].ix}]
    /\ Answer(t, "ok")
    /\ UNCHANGED <<session, row, disk, cleaner>>

\* A write is done.  A file that was removed meanwhile keeps nothing of it.
Land(w) ==
    /\ w \in landing
    /\ landing' = landing \ {w}
    /\ chunk' = IF w.ix # 0 /\ w.call \in dir
                THEN [chunk EXCEPT ![w.call][w.ix] = w.data] ELSE chunk
    /\ UNCHANGED <<tables, dir, blob, task, cleaner>>

(* upload_complete *)

CompleteCheck(t) ==
    /\ At(t, "complete")
    /\ IF session[task[t].call].status = "pending"
          THEN Step(t, "count") ELSE Answer(t, "not found")
    /\ UNCHANGED <<tables, disk, cleaner>>

\* SELECT COUNT(*), then the final file is created.
CompleteCount(t) ==
    LET c == task[t].call
    IN /\ At(t, "count")
       /\ IF Cardinality(chunkRow[c]) = Chunks
             THEN blob' = [blob EXCEPT ![c] = << >>] /\ Step(t, "merge")
             ELSE Answer(t, "bad request") /\ UNCHANGED blob
       /\ UNCHANGED <<tables, dir, chunk, landing, cleaner>>

\* One chunk file is read, hashed and appended.  When it cannot be opened the
\* handler returns at once and leaves the final file where it is.
CompleteMerge(t) ==
    LET c == task[t].call  n == Len(task[t].got) + 1
    IN /\ At(t, "merge") /\ n <= Chunks
       /\ IF chunk[c][n] = Absent
             THEN Answer(t, "error") /\ UNCHANGED <<blob, landing>>
             ELSE /\ task' = [task EXCEPT ![t].got = Append(@, chunk[c][n])]
                  /\ blob' = [blob EXCEPT ![c] = Append(@, chunk[c][n])]
                  /\ landing' = landing \cup {FileWrite(c)}
       /\ UNCHANGED <<tables, dir, chunk, cleaner>>

\* Mutant of RemoveFile: the file stays.
KeepFile(f) == landing' = landing \ {FileWrite(f)} /\ UNCHANGED blob

RemoveFile(f) ==
    /\ blob' = [blob EXCEPT ![f] = Absent]
    /\ landing' = landing \ {FileWrite(f)}

\* The row, the end of the session and of its chunk rows: one transaction.
Record(c) ==
    /\ row' = [row EXCEPT ![c] = [sha |-> session[c].sha, deleted |-> FALSE]]
    /\ session' = [session EXCEPT ![c].status = "completed"]
    /\ chunkRow' = [chunkRow EXCEPT ![c] = {}]

\* Mutant of CompleteRecord: the hash is not compared.
RecordUnverified(t) ==
    LET c == task[t].call
    IN /\ At(t, "merge") /\ Len(task[t].got) = Chunks
       /\ IF HashTaken(session[c].sha)
             THEN RemoveFile(c) /\ Answer(t, "conflict") /\ UNCHANGED tables
             ELSE Record(c) /\ Step(t, "rmdir") /\ UNCHANGED <<blob, landing>>
       /\ UNCHANGED <<dir, chunk, cleaner>>

\* Hash and size have to agree, and the unique index on (user_id, sha256) of
\* active files may refuse the row.  Every way to fail removes the final file.
CompleteRecord(t) ==
    LET c == task[t].call
    IN /\ At(t, "merge") /\ Len(task[t].got) = Chunks
       /\ IF task[t].got # Content(session[c].sha)
             THEN RemoveFile(c) /\ Answer(t, "bad request") /\ UNCHANGED tables
          ELSE IF HashTaken(session[c].sha)
             THEN RemoveFile(c) /\ Answer(t, "conflict") /\ UNCHANGED tables
          ELSE Record(c) /\ Step(t, "rmdir") /\ UNCHANGED <<blob, landing>>
       /\ UNCHANGED <<dir, chunk, cleaner>>

RemoveDir(c) ==
    /\ dir' = dir \ {c}
    /\ chunk' = [chunk EXCEPT ![c] = [i \in Index |-> Absent]]

\* Mutant of CompleteDone: when the directory cannot be removed the request fails.
DoneOrError(t) ==
    /\ At(t, "rmdir")
    /\ \/ RemoveDir(task[t].call) /\ Answer(t, "ok")
       \/ Answer(t, "error") /\ UNCHANGED <<dir, chunk>>
    /\ UNCHANGED <<tables, blob, landing, cleaner>>

CompleteDone(t) ==
    /\ At(t, "rmdir")
    /\ RemoveDir(task[t].call)
    /\ Answer(t, "ok")
    /\ UNCHANGED <<tables, blob, landing, cleaner>>

(* download and delete_file *)

\* The row is looked up; the body is a stream over the open file.
DownloadOpen(t) ==
    /\ At(t, "download")
    /\ IF task[t].data \in Active THEN Step(t, "stream") ELSE Answer(t, "not found")
    /\ UNCHANGED <<tables, disk, cleaner>>

DeleteFile(f) ==
    /\ f \in Active
    /\ Cardinality({g \in FileId : row[g] # Absent /\ row[g].deleted}) < MaxDeletes
    /\ row' = [row EXCEPT ![f].deleted = TRUE]
    /\ UNCHANGED <<session, chunkRow, disk, task, cleaner>>

-----------------------------------------------------------------------------
(* cleanup_stale_uploads.  A pending session may be older than six hours     *)
(* while its client is at work, whose machine may have slept.                *)

CleanSelect ==
    /\ cleaner.at = "idle"
    /\ \E stale \in SUBSET {c \in Call : session[c].status = "pending"} \ {{}} :
          cleaner' = [at |-> "dir", todo |-> stale]
    /\ UNCHANGED <<tables, disk, task>>

CleanDir(c) ==
    /\ cleaner.at = "dir" /\ c \in cleaner.todo
    /\ RemoveDir(c)
    /\ cleaner' = [at |-> "rows", todo |-> cleaner.todo, cur |-> c]
    /\ UNCHANGED <<tables, blob, landing, task>>

CleanRows ==
    /\ cleaner.at = "rows"
    /\ chunkRow' = [chunkRow EXCEPT ![cleaner.cur] = {}]
    /\ cleaner' = [cleaner EXCEPT !.at = "status"]
    /\ UNCHANGED <<session, row, disk, task>>

\* The status is set whatever it is by now.
CleanStatus ==
    /\ cleaner.at = "status"
    /\ session' = [session EXCEPT ![cleaner.cur].status = "expired"]
    /\ LET rest == cleaner.todo \ {cleaner.cur}
       IN cleaner' = [at |-> IF rest = {} THEN "idle" ELSE "dir", todo |-> rest]
    /\ UNCHANGED <<chunkRow, row, disk, task>>

-----------------------------------------------------------------------------
(* What may go wrong *)

\* The connection of a client that gave up is closed and the task dropped.
Drop(t) ==
    /\ task[t] # Free /\ ~task[t].live
    /\ task' = [task EXCEPT ![t] = Free]
    /\ UNCHANGED <<tables, disk, cleaner>>

\* A statement or a file operation fails and the handler returns an error.  The
\* final file is removed when its transaction failed, not when none could begin; a
\* chunk may be left truncated; a failure of the last removal is ignored.
Fails(t) ==
    LET c == task[t].call
    IN /\ task[t].at \in Working
       /\ \/ /\ At(t, "merge") /\ Len(task[t].got) = Chunks
             /\ RemoveFile(c) /\ UNCHANGED chunk
          \/ /\ At(t, "write") /\ c \in dir
             /\ chunk' = [chunk EXCEPT ![c][task[t].ix] = Partial]
             /\ UNCHANGED <<blob, landing>>
          \/ UNCHANGED <<chunk, blob, landing>>
       /\ Answer(t, IF At(t, "rmdir") THEN "ok" ELSE "error")
       /\ UNCHANGED <<tables, dir, cleaner>>

\* The same in the clean-up, which tries again an hour later.
CleanFails ==
    /\ cleaner.at \in {"rows", "status"}
    /\ cleaner' = [at |-> "idle", todo |-> {}]
    /\ UNCHANGED <<tables, disk, task>>

\* The process dies with every task and every write that has not landed; the
\* clients' connections break.
Crash ==
    /\ task' = [t \in Task |-> IF task[t] # Free /\ task[t].live
                               THEN [task[t] EXCEPT !.at = "error"] ELSE Free]
    /\ blob' = [f \in FileId |-> IF FileWrite(f) \in landing
                                 THEN SubSeq(blob[f], 1, Extent(f)) ELSE blob[f]]
    /\ landing' = {}
    /\ cleaner' = [at |-> "idle", todo |-> {}]
    /\ UNCHANGED <<tables, dir, chunk>>

TaskStep(t) ==
    \/ InitCheck(t) \/ InitDir(t) \/ InitSession(t)
    \/ ChunkCheck(t) \/ ChunkWrite(t) \/ ChunkRow(t)
    \/ CompleteCheck(t) \/ CompleteCount(t) \/ CompleteMerge(t)
    \/ CompleteRecord(t) \/ CompleteDone(t) \/ DownloadOpen(t)

CleanerStep == CleanSelect \/ CleanRows \/ CleanStatus \/ \E c \in Call : CleanDir(c)
=============================================================================
