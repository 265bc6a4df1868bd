------------------------------ MODULE FileSync ------------------------------
(***************************************************************************)
(* Uploads and downloads of books: calls of FileSyncEngine::upload_file    *)
(* and download_file (crates/core_sync/src/file_sync.rs) on the files API  *)
(* (FileServer), over a transport that gives up after 30 seconds           *)
(* (crates/core_network).  The engine is called through &self and keeps no *)
(* record of its calls, so that they may overlap; all downloads here have  *)
(* the same destination.                                                   *)
(***************************************************************************)
EXTENDS FileServer

CONSTANTS
    MaxTries,    \* max_retries
    Faults,      \* out of FaultKind
    MaxFaults    \* bound: faults, where machines sleep and where not

FaultKind == {"network", "crash", "server", "local"}

ASSUME FileSyncAssumption ==
    /\ MaxTries \in Nat /\ MaxFaults \in [BOOLEAN -> Nat] /\ Faults \subseteq FaultKind

VARIABLES
    slow,      \* machines sleep: an upload may be older than six hours
    call,      \* where each call is
    inode,     \* contents of the client's files at and next to the destination
    part,      \* the file called dest.part, 0: none
    dest,      \* the file called dest, 0: none
    faults,    \* faults so far
    unsure,    \* history: calls that missed an answer
    cut,       \* history: calls of which a request did not run to its end, or
               \* was still under way when the session was cleaned or completed
    torn,      \* history: files that had not landed when the server died
    clash      \* history: two downloads overlapped

client == <<call, inode, part, dest>>
history == <<slow, unsure, cut, torn, clash>>
vars == <<slow, session, chunkRow, dir, chunk, row, blob, landing, task, cleaner,
          call, inode, part, dest, faults, unsure, cut, torn, clash>>

Inode == 1 .. Cardinality(Call) + 1
Hole == [i \in Index |-> Absent]
Idle == [at |-> "idle", book |-> Absent, file |-> Absent, ix |-> 0,
         data |-> Absent, tries |-> 0, fd |-> 0]
Downloading == {"create", "get", "verify", "rename"}

Init ==
    /\ ServerInit
    /\ call = [c \in Call |-> Idle]
    /\ inode = [n \in Inode |-> Hole] /\ part = 0 /\ dest = 0
    /\ faults = 0
    /\ slow \in BOOLEAN
    /\ unsure = {} /\ cut = {} /\ torn = {} /\ clash = FALSE

Fault(kind) ==
    /\ kind \in Faults /\ faults < MaxFaults[slow]
    /\ faults' = faults + 1

Goto(c, pc) == call' = [call EXCEPT ![c].at = pc]
Fail(c) == call' = [call EXCEPT ![c] = [@ EXCEPT !.at = "failed", !.fd = 0]]

\* Task t has the answer that call c waits for.
Waits(c, t, kind) == task[t] # Free /\ task[t].call = c /\ task[t].live /\ call[c].at = kind
\* Bound: where machines sleep there is one call.
MayStart(c) ==
    /\ call[c].at = "idle"
    /\ slow => \A e \in Call : call[e] = Idle

Ask(t, r) == task' = [task EXCEPT ![t] = r]
Done(t) == Ask(t, Free)

-----------------------------------------------------------------------------
(* upload_file *)

\* The file is hashed; its content is book b.
StartUpload(c) ==
    /\ MayStart(c)
    /\ \E b \in Book, t \in Task :
          /\ task[t] = Free
          /\ Ask(t, Request("init", c, 0, b))
          /\ call' = [call EXCEPT ![c] = [Idle EXCEPT !.at = "init", !.book = b]]
    /\ UNCHANGED <<tables, disk, cleaner, inode, part, dest, faults, history>>

\* The file is read again, chunk by chunk; it may have been edited meanwhile, or
\* be gone.
ReadChunk(c, d) ==
    \/ d = call[c].book /\ UNCHANGED faults
    \/ d # call[c].book /\ Fault("local")

SendChunk(c, t, i) ==
    \/ \E d \in Book :
          /\ ReadChunk(c, d)
          /\ Ask(t, Request("chunk", c, i, d))
          /\ call' = [call EXCEPT ![c] = [@ EXCEPT !.at = "chunk", !.ix = i,
                                                   !.data = d, !.tries = 0]]
    \/ Fault("local") /\ Fail(c) /\ Done(t)

InitAnswered(c, t) ==
    /\ Waits(c, t, "init")
    /\ \/ At(t, "ok") /\ SendChunk(c, t, 1)
       \/ task[t].at \in Failure /\ Fail(c) /\ Done(t) /\ UNCHANGED faults
    /\ UNCHANGED <<tables, disk, cleaner, inode, part, dest, history>>

\* A chunk is sent again after a pause, three times at most.
Retry(c) == IF call[c].tries < MaxTries
            THEN call' = [call EXCEPT ![c].at = "again", ![c].tries = @ + 1]
            ELSE Fail(c)

\* Mutant of ChunkAnswered: one chunk too many.
OneMoreChunk(c, t) ==
    /\ Waits(c, t, "chunk")
    /\ \/ At(t, "ok") /\ call[c].ix <= Chunks /\ SendChunk(c, t, call[c].ix + 1)
       \/ /\ At(t, "ok") /\ call[c].ix > Chunks
          /\ Ask(t, Request("complete", c, 0, Absent))
          /\ Goto(c, "complete") /\ UNCHANGED faults
       \/ task[t].at \in Failure /\ Retry(c) /\ Done(t) /\ UNCHANGED faults
    /\ UNCHANGED <<tables, disk, cleaner, inode, part, dest, history>>

ChunkAnswered(c, t) ==
    /\ Waits(c, t, "chunk")
    /\ \/ At(t, "ok") /\ call[c].ix < Chunks /\ SendChunk(c, t, call[c].ix + 1)
       \/ /\ At(t, "ok") /\ call[c].ix = Chunks
          /\ Ask(t, Request("complete", c, 0, Absent))
          /\ Goto(c, "complete") /\ UNCHANGED faults
       \/ task[t].at \in Failure /\ Retry(c) /\ Done(t) /\ UNCHANGED faults
    /\ UNCHANGED <<tables, disk, cleaner, inode, part, dest, history>>

ResendChunk(c) ==
    /\ call[c].at = "again"
    /\ \E t \in Task :
          /\ task[t] = Free
          /\ Ask(t, Request("chunk", c, call[c].ix, call[c].data))
    /\ Goto(c, "chunk")
    /\ UNCHANGED <<tables, disk, cleaner, inode, part, dest, faults, history>>

CompleteAnswered(c, t) ==
    /\ Waits(c, t, "complete")
    /\ \/ At(t, "ok") /\ Goto(c, "ok")
       \/ task[t].at \in Failure /\ Fail(c)
    /\ Done(t)
    /\ UNCHANGED <<tables, disk, cleaner, inode, part, dest, faults, history>>

-----------------------------------------------------------------------------
(* download_file *)

\* The caller knows the id and the hash of a file from list_remote_files.
StartDownload(c) ==
    /\ MayStart(c)
    /\ \E f \in Active :
          call' = [call EXCEPT ![c] = [Idle EXCEPT !.at = "create", !.book = row[f].sha,
                                                   !.file = f]]
    /\ clash' = (clash \/ \E e \in Call : call[e].at \in Downloading)
    /\ UNCHANGED <<server, inode, part, dest, faults, slow, unsure, cut, torn>>

InUse == {part, dest} \cup {call[c].fd : c \in Call}
FreshInode == CHOOSE n \in Inode : n \notin InUse

\* Mutant of CreatePart: an existing destination is written in place.
CreateInPlace(c) ==
    /\ call[c].at = "create"
    /\ LET n == IF dest # 0 THEN dest ELSE IF part # 0 THEN part ELSE FreshInode
       IN /\ inode' = [inode EXCEPT ![n] = Hole]
          /\ part' = n
          /\ call' = [call EXCEPT ![c] = [@ EXCEPT !.at = "get", !.ix = 0, !.fd = n]]
    /\ \E t \in Task :
          /\ task[t] = Free
          /\ Ask(t, Request("download", c, 0, call[c].file))
    /\ UNCHANGED <<tables, disk, cleaner, dest, faults, history>>

\* File::create: the file called dest.part is truncated if there is one.
CreatePart(c) ==
    /\ call[c].at = "create"
    /\ LET n == IF part # 0 THEN part ELSE FreshInode
       IN /\ inode' = [inode EXCEPT ![n] = Hole]
          /\ part' = n
          /\ call' = [call EXCEPT ![c] = [@ EXCEPT !.at = "get", !.ix = 0, !.fd = n]]
    /\ \E t \in Task :
          /\ task[t] = Free
          /\ Ask(t, Request("download", c, 0, call[c].file))
    /\ UNCHANGED <<tables, disk, cleaner, dest, faults, history>>

\* What was received goes to the file that the call has open, wherever that is.
\* The body ends early when the last of the stored file is not on disk.
Receive(c, t) ==
    LET f == call[c].file  i == call[c].ix + 1
    IN /\ Waits(c, t, "get") /\ At(t, "stream") /\ i <= Chunks
       /\ IF i <= Extent(f)
             THEN /\ inode' = [inode EXCEPT ![call[c].fd][i] = blob[f][i]]
                  /\ call' = [call EXCEPT ![c].ix = i]
                  /\ UNCHANGED task
             ELSE Step(t, "error") /\ UNCHANGED <<inode, call>>
       /\ UNCHANGED <<tables, disk, cleaner, part, dest, faults, history>>

Received(c, t) ==
    /\ Waits(c, t, "get") /\ At(t, "stream") /\ call[c].ix = Chunks
    /\ call' = [call EXCEPT ![c] = [@ EXCEPT !.at = "verify", !.fd = 0]]
    /\ Done(t)
    /\ UNCHANGED <<tables, disk, cleaner, inode, part, dest, faults, history>>

\* Whatever is called dest.part now is removed; the next try creates it again.
GetAgain(c) ==
    /\ part' = 0
    /\ call' = [call EXCEPT ![c] =
           IF @.tries < MaxTries
           THEN [@ EXCEPT !.at = "create", !.tries = call[c].tries + 1, !.fd = 0]
           ELSE [@ EXCEPT !.at = "failed", !.fd = 0]]

GetFailed(c, t) ==
    /\ Waits(c, t, "get") /\ task[t].at \in Failure
    /\ GetAgain(c) /\ Done(t)
    /\ UNCHANGED <<tables, disk, cleaner, inode, dest, faults, history>>

\* dest.part is opened again and hashed.
Verify(c) ==
    /\ call[c].at = "verify"
    /\ IF part # 0 /\ inode[part] = Content(call[c].book)
          THEN Goto(c, "rename") /\ UNCHANGED part
          ELSE Fail(c) /\ part' = 0
    /\ UNCHANGED <<server, inode, dest, faults, history>>

Rename(c) ==
    /\ call[c].at = "rename"
    /\ IF part = 0 THEN Fail(c) /\ UNCHANGED <<part, dest>>
                   ELSE Goto(c, "ok") /\ dest' = part /\ part' = 0
    /\ UNCHANGED <<server, inode, faults, history>>

-----------------------------------------------------------------------------
(* The server's steps, and faults *)

Under(c) == {t \in Task : task[t] # Free /\ task[t].call = c}
Cleans(c) == cleaner'.at = "rows" /\ cleaner'.cur = c
Ends(c) == session[c].status = "pending" /\ session'[c].status # "pending"

Serve ==
    /\ \/ \E t \in Task : TaskStep(t)
       \/ \E w \in landing : Land(w)
       \/ \E f \in FileId : DeleteFile(f)
       \/ slow /\ CleanerStep
    /\ cut' = cut \cup {c \in Call : (Cleans(c) /\ Under(c) # {})
                                    \/ (Ends(c) /\ Cardinality(Under(c)) > 1)}
    /\ UNCHANGED <<client, faults, slow, unsure, torn, clash>>

\* The client waits no longer: the request or its answer was lost, or took more
\* than 30 seconds.  The task goes on unless it is dropped.
Timeout(c, t) ==
    /\ Fault("network")
    /\ task[t] # Free /\ task[t].live /\ task[t].call = c
    /\ task' = [task EXCEPT ![t] = IF @.at \in Working THEN [@ EXCEPT !.live = FALSE] ELSE Free]
    /\ \/ call[c].at = "chunk" /\ Retry(c) /\ UNCHANGED part
       \/ call[c].at = "get" /\ GetAgain(c)
       \/ call[c].at \in {"init", "complete"} /\ Fail(c) /\ UNCHANGED part
    /\ unsure' = unsure \cup {c}
    /\ UNCHANGED <<tables, disk, cleaner, inode, dest, slow, cut, torn, clash>>

\* The client cannot create, read or rename its files.
LocalFails(c) ==
    /\ Fault("local")
    /\ call[c].at \in {"create", "verify", "rename"}
    /\ Fail(c)
    /\ UNCHANGED <<server, inode, part, dest, history>>

\* The client's process dies; the server goes on with its requests.
ClientDies ==
    LET dead == {c \in Call : call[c].at \notin {"idle", "ok", "failed"}}
    IN /\ Fault("crash")
       /\ call' = [c \in Call |-> IF c \in dead THEN [call[c] EXCEPT !.at = "failed", !.fd = 0]
                                  ELSE call[c]]
       /\ task' = [t \in Task |-> IF task[t].at \in Working THEN [task[t] EXCEPT !.live = FALSE]
                                  ELSE Free]
       /\ unsure' = unsure \cup dead
       /\ UNCHANGED <<tables, disk, cleaner, inode, part, dest, slow, cut, torn, clash>>

TaskDropped(t) ==
    /\ Drop(t)
    /\ cut' = cut \cup {task[t].call}
    /\ UNCHANGED <<client, faults, slow, unsure, torn, clash>>

OperationFails ==
    /\ Fault("server")
    /\ \/ \E t \in Task : Fails(t) /\ cut' = cut \cup {task[t].call}
       \/ CleanFails /\ UNCHANGED cut
    /\ UNCHANGED <<client, slow, unsure, torn, clash>>

ServerDies ==
    /\ Fault("crash")
    /\ Crash
    /\ torn' = torn \cup {f \in FileId : FileWrite(f) \in landing}
    /\ LET under == {c \in Call : Under(c) # {}}
       IN unsure' = unsure \cup under /\ cut' = cut \cup under
    /\ UNCHANGED <<client, slow, clash>>

UploadStep(c) ==
    \/ StartUpload(c) \/ ResendChunk(c)
    \/ \E t \in Task : InitAnswered(c, t) \/ ChunkAnswered(c, t) \/ CompleteAnswered(c, t)

DownloadStep(c) ==
    \/ StartDownload(c) \/ CreatePart(c) \/ Verify(c) \/ Rename(c)
    \/ \E t \in Task : Receive(c, t) \/ Received(c, t) \/ GetFailed(c, t)

\* No call is at work and the server has nothing to do.
Rest ==
    /\ \A c \in Call : call[c].at \in {"idle", "ok", "failed"}
    /\ \A t \in Task : task[t] = Free
    /\ UNCHANGED vars

Next ==
    \/ \E c \in Call : UploadStep(c) \/ DownloadStep(c)
    \/ Serve
    \/ \E c \in Call, t \in Task : Timeout(c, t)
    \/ \E c \in Call : LocalFails(c)
    \/ ClientDies
    \/ \E t \in Task : TaskDropped(t)
    \/ OperationFails
    \/ ServerDies
    \/ Rest

Spec == Init /\ [][Next]_vars

-----------------------------------------------------------------------------
(* Properties *)

TypeOK ==
    /\ session \in [Call -> [status : Status, sha : Book \cup {Absent}]]
    /\ chunkRow \in [Call -> SUBSET Index]
    /\ dir \subseteq Call
    /\ chunk \in [Call -> [Index -> Book \cup {Absent, Partial}]]
    /\ DOMAIN row = FileId /\ DOMAIN blob = FileId
    /\ part \in Inode \cup {0} /\ dest \in Inode \cup {0}
    /\ inode \in [Inode -> [Index -> Book \cup {Absent}]]
    /\ torn \subseteq FileId /\ faults \in 0 .. MaxFaults[slow]

\* A file that is listed has the content that its hash names - whatever chunks
\* came twice, late, half written or under a clean-up.  Only the death of the
\* server before its last write has landed leaves a listed file short.
WholeFiles ==
    \A f \in Active \ torn : blob[f] = Content(row[f].sha)

\* upload_file tells the truth: Ok means that the server has the file under the
\* hash that was computed, and an error means it has not, unless the call
\* missed an answer.
AnswerIsTrue ==
    \A c \in Call :
       /\ call[c].at = "ok" /\ call[c].file = Absent =>
             row[c] # Absent /\ row[c].sha = call[c].book
       /\ call[c].at = "failed" /\ c \notin unsure => row[c] = Absent

\* Nothing is left over: when no request of a session is under way, its
\* directory and its chunk rows are there only while it is pending, and its
\* file only with a row - unless one of its requests was cut short, or was
\* still running when the session was cleaned up or completed.
NoLeftovers ==
    \A c \in Call \ cut :
       Under(c) = {} /\ (cleaner.at \in {"rows", "status"} => cleaner.cur # c) =>
          /\ c \in dir \/ chunkRow[c] # {} => session[c].status = "pending"
          /\ blob[c] # Absent => row[c] # Absent

\* The destination holds a book that a download verified, complete, as long as
\* downloads of it do not overlap.
DestIsWhole ==
    dest # 0 /\ ~clash =>
       \E c \in Call : /\ call[c].at = "ok" /\ call[c].file # Absent
                       /\ inode[dest] = Content(call[c].book)
=============================================================================
