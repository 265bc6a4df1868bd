# SubReader: models and proofs

TLA+ modules for the parts of SubReader whose correctness depends on order,
failure and time: the synchronisation of reading data between devices, its
clock and its scheduler; authentication; uploads and downloads of books; the
one engine behind the C interface, and the Apple reader on top of it; and for
the parsers, whose difficulty is in their inputs. TLC checks them on small
instances, TLAPS proves the main safety properties for every value of the
constants. Paths below are relative to `src/crates/` unless they start with
`src/`.

## 1. Inventory

| Component | State it keeps | Operations | Talks to |
|---|---|---|---|
| Local store (`core_storage/src/db.rs`) | SQLite: books, reading_progress, bookmarks, annotations, preferences, op_log, sync_meta | upserts and deletes, `write_op_log`, `get_unsynced_ops`, `mark_ops_synced`, `get/set_sync_meta`, `apply_remote_op` | called under one mutex by the state manager and the sync engine |
| State manager (`core_state/src/lib.rs`) | the database handle, a device id | register_book, update_progress, add/delete bookmark and annotation, set_preference: row first, then op_log | local store |
| Sync engine (`core_sync/src/engine.rs`) | HLC, transport, storage | `push_pending`, `pull_remote`, `sync`, `tick` | local store (one lock per call), sync API |
| Hybrid logical clock (`core_sync/src/lib.rs`) | wall time, u16 counter, node id behind a mutex | `tick`, `merge`, `to_u64`, `from_u64` | sync engine |
| Sync scheduler (`core_sync/src/scheduler.rs`) | command channel, task handle, SyncState, push debounce | `start`, `stop`, `trigger_now`, `trigger_push`, 30 s poll | sync engine, token provider |
| Sync API (`backend/src/handlers/sync.rs`) | sync_operations, numbered by server_seq | `push` (skip known op_ids, append), `pull` (page after a cursor), each one transaction | engine, over HTTP |
| Client authentication (`core_auth/src/lib.rs`, `token_store.rs`) | state, current token, token file | login, refresh, get_valid_token, logout | auth API, scheduler (token) |
| Auth API (`backend/src/handlers/auth.rs`, `jwt.rs`, `middleware.rs`) | users, devices, refresh_tokens, cut-off times | login, refresh (rotation, reuse detection), logout, change_password, remove_device, delete_account | client authentication |
| File sync (`core_sync/src/file_sync.rs`) | an upload session, a `.part` file, the destination | `upload_file` (hash, chunks with retries, complete), `download_file` (`.part`, hash, rename) | files API |
| Files API (`backend/src/handlers/files.rs`, clean-up in `main.rs`) | upload_sessions, file_chunks, user_files; chunk files and finished files on disk | init, chunk, complete, download, delete; the hourly clean-up | file sync |
| C FFI (`ffi_c/src/lib.rs`) | ENGINE (with current_book), AUTH_MANAGER, BASE_URL, SYNC_SCHEDULER, callbacks, each behind its mutex | about 60 entry points | all of the above, the Apple application |
| Transport (`core_network/`) | HTTP client | post/get, upload and download with timeouts | backend |
| Parsers (`core_parser/src/epub.rs`, `txt.rs`) | the archive and the parsed package of a book | package, tables of contents, spine, chapters, resources; paragraphs and chapters of a text | FFI |
| Apple application (`src/apple_app/`) | library, the reader's view state and request ids, chapter cache | import, remove, open, turn pages, change the appearance, close; all FFI calls go through one serial queue (`RustCore.swift:17`) | FFI |
| WASM bindings, shared types | a parsed book | data types, wrappers | parsers |
| Backend shell (`backend/src/main.rs`, `config.rs`, `error.rs`) | configuration | routing, the hourly clean-up | handlers |

What is hard here:

* **Interleaving.** A session of the sync engine holds the store's lock for one
  call at a time; user writes and other sessions (a manual sync next to the
  scheduler's) come in between, so that what was read (unsynced rows, cursor)
  may be stale when it is used. The handlers of the files API give other
  requests a turn at every await. Init, destroy and calls from other threads
  share the globals of the FFI, and imports and the reader share its open book.
* **Failure.** A request may be lost before the server commits or a reply
  after; a process may die inside a page, between a row and its log entry, or
  before a file has landed; one operation of a page may fail; a handler whose
  client went away is dropped where it stands.
* **Order.** Operations are pushed by stamp, applied by stamp or by arrival, and
  stamps come from clocks that jump, overflow and are not saved. What the reader
  runs in the background ends in any order.
* **Time.** A poll, a debounce that every request restarts, a stop that has to
  wait for a busy task through a bounded channel, a clean-up of what is six hours
  old, a client that gives up after thirty seconds.

What makes each component correct:

* *Local store, engine, sync API*: an operation is marked synced only when the
  server has it; the saved cursor never passes an operation the store was not
  given; an operation enters the server's log once and in order; when all is
  exchanged the devices agree; what is logged arrives everywhere.
* *Clock*: stamps of an engine's life only grow, also in their encoded order,
  and dominate everything merged; the encoding is faithful.
* *Scheduler*: what is logged is pushed in the end, also at a stop; a stop
  returns; a stopped scheduler shows Dormant.
* *Authentication*: a device has one session; a client whose calls neither
  overlap nor fail is never taken for a replay; an access token that was refused
  stays refused; file, memory and state of a device agree; a logged-out client
  stays logged out.
* *Files*: a file that is listed has the content its hash names; a call returns
  the truth; nothing is left over; the destination of a download is a verified
  book.
* *C FFI*: engine, manager and URL come and go together; the callback tells the
  state; an operation is marked in the database it was read from; the mutexes
  cannot block everyone.
* *Reader*: what is shown is the chapter where the reader says it is; the cache
  is true to its keys; a book in the library has the cover and the text of one file,
  and keeps them until another import takes its copy over; the reader does not wait
  for nothing.
* *Parsers*: nothing of a document is lost, doubled or moved, but for what section 3
  names under Findings.

## 2. Modules

| Module | What it is | Code |
|---|---|---|
| `LocalStore` | the database of one device as a record and its operations as operators | `core_storage/src/db.rs` |
| `SyncEngine` | devices, sessions and the server's log; extends `LocalStore` | `core_state`, `engine.rs`, `handlers/sync.rs`, wiring in `ffi_c` |
| `OpDelivery` | what synchronisation promises: exactly-once, in-order delivery | abstract; `SyncEngine` refines it |
| `SyncProofs`, `SyncConverge` | theorems about `SyncEngine`: its safety, that devices agree and keep what nobody deleted, that it implements `OpDelivery` | |
| `Hlc` | the clock's functions, pure | `core_sync/src/lib.rs` |
| `HlcClock` | engines' clocks: tick, merge, re-creation, poisoning | `engine.rs:102-127, 206-217` |
| `HlcProofs` | theorems about `Hlc` and `HlcClock` | |
| `SyncScheduler` | the background task and its callers | `scheduler.rs` |
| `SchedulerProofs` | theorems about `SyncScheduler` | |
| `AuthServer` | one account on the backend as a record, its handlers' transactions as operators | `handlers/auth.rs`, `middleware.rs`, `jwt.rs` |
| `AuthSession` | the devices' auth managers and the requests under way; extends `AuthServer` | `core_auth`, `ffi_c/src/lib.rs:176-196` |
| `AuthProofs` | theorems about `AuthServer` and `AuthSession` | |
| `FileServer` | the files API of one account, await by await, and the clean-up | `handlers/files.rs`, `main.rs:63-78, 140-180` |
| `FileSync` | uploads and downloads, and everything that may go wrong; extends `FileServer` | `file_sync.rs`, `core_network` |
| `FileProofs` | theorems about `FileSync` | |
| `EngineHandle` | the globals of the FFI and the threads that call it | `ffi_c/src/lib.rs` |
| `HandleProofs` | theorems about `EngineHandle` | |
| `BookReader` | imports and the reader on the one open book | `src/apple_app` (`AppState`, `ReaderView`, `DIContainer`), `ffi_c/src/lib.rs:258-660` |
| `ReaderProofs` | theorems about `BookReader` | |
| `EpubParser` | the loops over the XML tokens of a package, an NCX, a NAV and a chapter | `core_parser/src/epub.rs` |
| `EpubPaths` | where links, pictures, the table of contents and the cover are found | `core_parser/src/epub.rs` |
| `TxtParser` | paragraphs, chapters, cuts by size, decoding in chunks | `core_parser/src/txt.rs` |
| `MCSync`, `MCAuth`, `MCFiles`, `MCHandle`, `MCReader`, `MCParsers` | instances for TLC | |

### LocalStore and SyncEngine

`db[d]` is a device's database: `books`, `rows` (one per object that progress,
bookmarks, annotations and preferences refer to; a row is its stamp and which
operation wrote it), `oplog` (row number, kind, object, stamp, synced) and
`cursor` (sync_meta). `log` is the account's part of `sync_operations`: the
entry `<<d, i>>` stands for the operation that device `d` logged as its row `i`,
its position for `server_seq`. `Register` objects (progress, preferences) are
last-writer-wins; the others (bookmarks, annotations) are inserted and deleted
under an id that is used once.

Every call that the engine makes on the store or the server is an action,
because the code awaits, or releases the store's mutex, exactly between them.

| Action | Code |
|---|---|
| `Put`, `Delete`, `RegisterBook` | `core_state/src/lib.rs:58-214`; row and log entry in one step, the lock is held for both |
| `ReadUnsynced` | `engine.rs:129-139`, ordered by stamp, then `SendChunk` takes `BatchSize` |
| `ServerPush`, `MarkSynced` | `handlers/sync.rs:67-134`; `engine.rs:156-173` |
| `ReadCursor`, `ServerPull` | `engine.rs:179-193`; `handlers/sync.rs:136-189` |
| `ApplyOp` | `engine.rs:195-239` with `db.rs:475-597` (`ApplyRemoteOp`) |
| `SavePage`, `SaveFailed` | `engine.rs:241-261` |
| `Lose` | a request lost before the server acts or a reply after, in any phase that waits for one |
| `Crash`, `TornWrite` | the process dies; `TornWrite` between a row and its log entry (`core_state/src/lib.rs:90-101`) |

`handled` and `unlogged` are history variables: no action reads them.

Three constants say how the engine is wired, because the engine's own contract
and the FFI's use of it differ:

* `StableOpIds`: `SyncStorage::get_unsynced_ops` returns an op_id per operation,
  and the server skips op_ids it has. The FFI's adapter mints a new one on every
  read (`ffi_c/src/lib.rs:1755`): FALSE.
* `OwnDeviceKnown`: `pull_remote` skips the operations of its own device. The
  FFI names the engine "ffi" (`ffi_c/src/lib.rs:1114`) while the server logs the
  device of the token: FALSE, nothing is skipped.
* `OrderedClocks`: callers pass the stamp of an operation. TRUE: stamps are
  unique and larger than all the device has seen, which `HlcClock` shows of
  HLC stamps within an engine's life, up to the node id that the encoding leaves
  out. FALSE: any stamp.

`Quiescent` in the convergence properties means: all is pushed, every cursor is
at the end of the log, no session runs. `unlogged` excludes objects that changed
outside the log (a torn write; the rows that `INSERT OR REPLACE INTO books`
deletes by cascade); that such changes exist is a hazard the model exhibits, not
one it hides: `sync_wiring` runs with them.

### Hlc and HlcClock

`Hlc` keeps the widths: `Base` is the size of the counter (2^16), `Word` of the
encoding (2^64), and `ToU64` drops what is shifted out. A `checked_add` that does
not fit is a panic; in `HlcClock` it poisons the mutex and every later use of
that engine's clock is disabled. The assumption that the physical clock stays
below `Word / Base` milliseconds is the 48-bit limit that the source asserts.
`tick` has no caller outside the tests (the application stamps its operations
itself); it is modelled as the engine offers it.

### SyncScheduler

One task (`spawned`, `init`, `loop`, in an engine call, `done`, `dead`), the
channel `queue`, the `debounce` deadline, the `state` on display and the caller
of `stop`. The code runs a handler to its end before it enters `select!` again,
so that `sync_mutex` is never contended and needs no variable. An engine call
reads what is logged when it begins (`read`) and has marked it when it returns
(`synced`); what happens in between is `SyncEngine`'s. `start` and `stop` take
`&mut self`: while a stop waits nothing else is called, but operations are still
logged.

### AuthServer and AuthSession

`acc` is one account: the pairs of access and refresh token that were issued, the
device rows, the cut-off times. `mem`, `file` and `state` are what a device's
`AuthManager` and token store hold; `call` says where each call of a manager is.

A refresh is one transaction and reads the clock inside it. The other handlers
pass the middleware and read the clock first (`Admit`) and have the database
later (`CommitLogin`, `CommitLogout`, ...): their transactions begin without a
lock, so that others may commit in between. The branch of `refresh` for a token
that another transaction consumed meanwhile (`auth.rs:397`) cannot be reached
where SQLite makes the second writer fail; that failure is a lost reply
(`Lose`). `refresh` does not look at `users.deleted_at`; neither does the model.

A call ends in three steps (`StoreFile`, `StoreToken`, `StoreState`), because the
file, the token and the state are changed one after the other and no lock is
held over them. Calls of one device may overlap: the application's own calls are
serial, but `reader_engine_init` refreshes in a thread of its own, and the FFI
takes no lock. `astray` and `unsure` are history: a device whose calls
overlapped or whose file could not be written, and whether an outcome was
missed. `alarm` records that the server took a refresh for a reuse.

The server's clock is "ordered" (each reading later than those before) or "any"
(it stands still or goes back). A request that the client gave up on is not
handled later.

### FileServer and FileSync

`session`, `chunkRow` and `row` are the tables upload_sessions, file_chunks and
user_files, `dir`, `chunk` and `blob` what lies on the disk. A request is a
`task` that stands at one of the awaits of its handler; between two awaits no
other task of the server comes in. `landing` are writes that `tokio::fs::File`
still does in the background when `write_all` has returned: it flushes nothing,
so that `upload_complete` may count a chunk, and even commit a file, whose last
bytes are not there yet. `cleaner` is the hourly clean-up; it goes through the
uploads that were pending and old when it selected them.

| Action | Code |
|---|---|
| `InitCheck`, `InitDir`, `InitSession` | `files.rs:82-161` |
| `ChunkCheck`, `ChunkWrite`, `ChunkRow`, `Land` | `files.rs:164-243` |
| `CompleteCheck` ... `CompleteDone` | `files.rs:246-408`: count, merge into the final file, hash, transaction, removal of the directory |
| `DownloadOpen`, `DeleteFile` | `files.rs:411-449, 517-540` |
| `CleanSelect`, `CleanDir`, `CleanRows`, `CleanStatus` | `main.rs:65-78, 140-180` |
| `StartUpload` ... `CompleteAnswered` | `file_sync.rs:126-255` |
| `StartDownload` ... `Rename` | `file_sync.rs:262-363`; inodes, because two handles may be open on one `.part` |
| `Timeout`, `LocalFails`, `ClientDies`, `TaskDropped`, `OperationFails`, `ServerDies` | a request given up while the server goes on, a full disk, the death of either process, a connection that closes, a statement or a file operation that fails |

A book stands for its content and so for its hash. `slow` lets an upload grow
older than six hours, which takes a machine that sleeps: only there does the
clean-up meet requests that are still under way. `unsure`, `cut`, `torn` and
`clash` are history and name the exceptions of the properties. Nothing outside
the tests calls `FileSyncEngine` so far; the model takes its contract as it is.

### EngineHandle

`glob` holds what the globals hold (the scheduler only as none, made or behind
a poisoned mutex), `lock` who keeps ENGINE and SYNC_SCHEDULER over several
steps, `thread` where each call is. Thread `g` is the background refresh of the
`AuthManager` with that number. An auth call is a `Plan`: what it asks of the
manager, whether it tells the callback when that succeeds and when it fails,
and whether its answer needs ENGINE again for the return buffer. A manual sync
takes ENGINE for each read and each mark, so that the engine may have gone, or be
another, in between. `reader_sync_start_scheduler` panics in every run, since the
thread that calls it is outside the runtime; after it every call that locks
SYNC_SCHEDULER reports an error, and `reader_engine_destroy` returns before it
has taken the engine. The two set_callback functions and `stop_scheduler` change
nothing that the model keeps.

### BookReader

`opened` is the engine's current_book, `job` what runs on the global dispatch
queues. Blocks on the main queue and calls of the engine are one step each. A
job of the view is `current` until the view draws a new request id for its
kind; jobs that are not go on and may still open a book, read a chapter, or write
to the cache. `onDisappear` closes the book once more, when the view's transition
has ended (`leaving`): it may come after the next reader has opened its book.

The properties are about a reader, or an import, that has the open book to itself,
which is what the code takes for granted: `mixed` records that two users of it
overlapped, and from there on almost nothing can be said (an import under way
while a book is open closes that book). `Undisturbed` in `reader.cfg` therefore
stops exploring where nothing is left to check. `late`, `replaced` and `skewed`
name what goes wrong without such an overlap: a pre-loaded chapter that was
rendered while the book was closed lacks its pictures, a copy changes hands (below),
and a change of the appearance during a chapter load caches the nodes of the old
chapter under the new one.

A file, the identifier in its metadata and the name of its copy are three things.
`IdOf` gives the identifier of a file, and several files may have one: the library,
the cache and the view go by it. `NameOf` is `sanitizedStorageName`, under which the
copy of a book is kept; "a:1" and "a/1" both become "a_1". `ImportStore` replaces
what is under the name, or fails (`persistImportedBookData` returns nil), and
`ImportDone` adds an entry unless the identifier has one. An entry has a cover, the
file it came from, and what is read: the copy, or after a failed write the data in
memory (`bookData`), which `ReturnToLibrary` releases (`exitReader`), and from then on
the original file. `removeBook` removes the copy, and never an original.

So an import can replace the copy that another entry reads, with no overlap at all: a
second file with the same identifier, or one whose identifier has the same name. The
entry then has the title and cover of the first file over the text of the second.
And removing a book takes away a copy that is shared, or that an import has just
written. `replaced` is the set of identifiers whose copy changed hands in this way;
`ImportIsTrue` promises that cover and entry are of one file with the identifier,
that what is read is this file for all books that are not in `replaced`, and for
those that it is at most a file of that name. In the same way `ShownIsCurrent` and
`CacheIsTrue` speak of the file that is open, which is filed like the book in view
(`Filed`), not of the file of the entry.

### EpubParser, EpubPaths and TxtParser

A document is a sequence of XML tokens that grows one at a time, and the action
for a token is one iteration of the parser's loop. What a title, a text or a
target says is its position in the document, so that each can be told from the
others and from what is lost. `Prev`, `MayStart` and the like are what the formats
allow. The properties say with the tokens alone what the parser must have: which
text is within which element, how deep a point lies, what comes after what.

`ContentsIsDocument` does not say that a table of contents is listed as the document
has it, since the code does not do that. It says: one entry for each point or link,
in order; levels as in the document, but in a navigation document after an inner
list ended, where a level is never too high; title and target as in the document, but
for an NCX point with points within it, which has both from one of these. A plain link
leads to the chapter it means, wherever that is in the spine; one with `.` or `..` is
not resolved, and leads nowhere. The inputs of the run have all of these cases.

`TxtParser` works on bytes of six kinds: newline, return, other white space, the
beginning of a heading, a plain character, and the two bytes of one that has
two. `ChunkSize` and `LookBack` stand for 5000 and 200. `EpubPaths` has the
paths as sequences of segments and the manifest as a function, of which any item
may come first where the code iterates over a `HashMap`.

## 3. Runs

| Run | Shows | Bounds |
|---|---|---|
| `sync_contract` | with stable op_ids, own operations skipped and ordered stamps, whatever request or reply is lost: `PushedOnce`, `RegistersConverge`, `BookmarksConverge`, and `SyncEngine` implements `OpDelivery` | 2 devices, 1 session each, a register and a bookmark, 2 operations per device, 3 stamps, batch 1, page 2, 1 lost message |
| `sync_wiring` | the FFI's wiring with crashes, torn writes, lost messages, any stamps, a device without the book and books registered again: `TypeOK`, `SyncedIsOnServer`, `CursorCovers` | operations on the first device only, 2 stamps, 1 fault |
| `sync_live` | under repeated syncs `EventuallyDelivered` | 1 operation per device, 1 lost message or crash, page 1 |
| `sync_repull` (violation) | a crash inside a page lets a deleted bookmark come back for good | |
| `hlc` | `TypeOK`, `ClockDominates`, `RoundTrips`, `ClockGrows` | 2 nodes, counters 0..2, wall time 0..1, 2 engines per node |
| `scheduler` | `TypeOK`, `StopFlushes`, `EndedIsDormant`, `EventuallyPushed`, `StopReturns` | channel of 2, 2 operations, 2 troubles (logout, network, auth, storage, panic) |
| `auth` | `TypeOK`, `OneSession`, `AlarmHasCause`, `DeviceAgrees`, `NoRevival` | 2 devices signed in, 2 calls at a time on one of them, 3 requests (2 with a clock that jumps between two readings), 1 fault or expiry |
| `auth_logout` (violation) | a refresh that finishes after a logout shows Authenticated again | |
| `files` | `TypeOK`, `WholeFiles`, `AnswerIsTrue`, `NoLeftovers`, `DestIsWhole` | 2 calls (uploads or downloads) of 2 books in 2 chunks, one of them stored from the start, 2 requests at a time, 1 retry, 1 deletion, 1 fault of four kinds; 1 call and 2 faults where machines sleep |
| `handle` | `TypeOK`, `OneEngine`, `ToldIsState`, `SyncedWasSent`, `SomeCallMoves` | 2 threads and a background refresh per engine, 2 databases, 2 inits, 2 other calls, 2 operations per database |
| `reader` | `TypeOK`, `ShownIsCurrent`, `CacheIsTrue`, `ImportIsTrue`, `LoadingHasCause` | 3 files of 2 chapters, two with one identifier and the third with another that has the same storage name, 3 jobs at a time, 4 things the user does, 1 change of the appearance |
| `parsers` | `ContentsIsDocument`, `ChapterIsDocument`, `TextIsKept` | packages of 9 tokens, NCX of 18, NAV of 12, chapters of 8; texts of 7 bytes cut at 3 with a look back of 2; 2 items, 6 links, all archives of 4 paths |

Why the bounds are enough to be worth something: two operations per device with
a batch or a page of one or two make pushes of several chunks and pulls of
several pages happen, each with a fault at any point; the two kinds of object
take all branches of `apply_remote_op`. Two sessions of one device at a time, two
faults of one kind in one behaviour and more than two devices are left to the
proofs, which are for all of them. Counters of three values overflow, tie and
carry within a run; a channel of two fills up while the task is busy. In `auth`
three requests are what it takes for a login that read the clock early to commit
after a session that came and went; the second device makes no calls because the
server handles what it could ask for just as well when the other call of the
first device asks. In `files` two chunks are what it takes for one to be missing
or late while the other is there, and two calls for a duplicate, a deletion or a
second download in between. In `handle` two threads are what it takes for every
pair of calls to overlap, with the background refresh as a third. In `reader` three
files are what it takes for a copy to be replaced by a file of the same identifier
and by one of another; three jobs let a request, a rendering and a job in the
background overlap, and four calls of the user an import, a second one or a removal,
and a reader, or a reader that moves, changes its appearance and is closed. Eighteen tokens hold an
NCX of three points in every nesting. The symmetry sets exchange calls, tasks,
threads, databases, slots or the two files of one identifier that nothing tells apart, and no liveness is
checked with them.

`NoRevival` is about two requests at a time, and says so. With three
(two that read the clock before the third issues its token, one of which signs
the device out and the other in again) that token is accepted once more: TLC
finds the behaviour when `Call` has three members and the conjunct on its
cardinality is dropped. `RefusedStaysRefused` (section 4) proves it for any number of
calls of which two at a time have a request at the server. The readings have to fall within the time that a
transaction waits for the database.

The deadlock check is off in four configurations: with both clocks poisoned and
no life left nothing can happen (`hlc.cfg`), nor when a document has its size
(`parsers.cfg`) or the user has done what the bounds allow and the jobs have ended
(`reader.cfg`); in `handle.cfg` all calls may have been made, and
`SomeCallMoves` says what a deadlock would be. All other runs check for deadlock;
the sync models cannot stop since a sync may always start, and `Rest` in `FileSync`
is the only step of a server and clients that have nothing to do.

### Fairness

* `SyncEngine`: weak fairness for a running session (the tokio task goes on);
  strong fairness for starting a sync in each session: something must call
  `sync` over and over, which is what the scheduler does every 30 seconds
  whatever else goes on. This is fairness of the scheduler as its tests run it,
  inside a tokio runtime, or of an application that syncs repeatedly. In the
  current FFI the scheduler does not get that far: `reader_sync_start_scheduler`
  calls `tokio::spawn` outside the runtime and its token provider blocks on the
  runtime from within it (`ffi_c/src/lib.rs:1838`), and either panics. The
  number of faults is bounded, so that the network works in the end.
* `SyncScheduler`: weak fairness for the steps of a running task and for a join;
  strong fairness for the poll, the receive and a sender waiting for room,
  since `select!` picks a ready branch at random and the channel's semaphore is
  fair; weak fairness for a login after a logout. None for `Elapse`: requests may
  restart the two seconds for ever, and `EventuallyPushed` holds by the poll.
* The other models have no liveness properties. Where something must not wait for
  ever they say that a step is possible (`SomeCallMoves`) or that a job is there
  whose end will bring it (`LoadingHasCause`).

### Findings

Two disagreements of the code with what it says of itself have a run of their own:

1. `sync_repull`: `engine.rs:199-201` says a page that is applied again after a
   crash is safe; it undoes a local delete made in between, and the delete's own
   operation is skipped on the way back. As the FFI wires the engine it is not
   skipped, and all devices agree (`WiredShelvesConverge`, section 4).
2. `auth_logout`: `core_auth/src/lib.rs:271-273` stores the outcome of a refresh
   without a look at what happened meanwhile, against what
   `test_auth_manager_logout` asserts of a logout. It takes an overlap, for
   example with the refresh that `reader_engine_init` starts in the background.

The models exhibit more, which the properties name as exceptions or which the
constants of the runs keep out:

* *Sync.* The FFI mints an op_id on every read (`ffi_c/src/lib.rs:1755`), so that
  after a lost reply the server logs the operation twice (`StableOpIds = FALSE`
  violates `PushedOnce`), against `backend/openapi.yaml:761`; last-writer-wins
  hides it for progress. `db.rs:533-536` takes a foreign-key failure for a
  duplicate: a bookmark of an unknown book is dropped while the cursor moves on.
  Progress for an unregistered book fails on every pull (`engine.rs:228`) and
  blocks all that follows; `sync_live` therefore gives both devices the book. And
  no code outside the tests registers a book, while `PRAGMA foreign_keys=ON` makes
  every progress and bookmark of an unregistered one fail.
* *Authentication.* `get_valid_token` (`core_auth/src/lib.rs:308`) hands out an
  access token that has expired as long as the state is Authenticated, against its
  comment "auto-refreshing if needed". After a refresh whose reply was lost, the
  retry presents a token that the server has rotated, and all devices are signed
  out; `AlarmHasCause` shows that nothing else does this.
* *Scheduler.* A task that dies of a panic leaves its last state on display after
  a stop (`scheduler.rs:188` ignores the error of the join).
* *Files.* A server that dies between the commit and the landing of the last write
  leaves a listed file short (`torn`). Two downloads to one destination write one
  `.part`, and one may truncate what the other renames (`clash`). A chunk row may be
  inserted for a session that was cleaned up or completed, and a merge that fails
  half-way leaves its file (`cut`). `upload_complete` may refuse an upload whose last
  chunk has not landed; nothing is lost, but the client does not ask again.
* *C FFI.* After `reader_sync_start_scheduler` neither destroy nor stop works, since
  the mutex of the scheduler is poisoned. The callback may be left with a state
  that has passed when two calls overlap (`history.why`).
* *Reader.* See `BookReader` above. A second import with an identifier that the library
  has, or with one that gives the same storage name, overwrites the stored text while
  the library keeps the first entry with its title and cover
  (`AppState.swift:224-243, 351`); removing one of two books that share a copy removes
  the other's text. Returning before a load has finished saves page
  0 of chapter 0 over the reading progress (`ReaderView.swift:730`).
* *Parsers.* A point of an NCX that has inner points gets the title and the target of
  its last inner point (`epub.rs:396`). The level of NAV entries stays that of an inner
  list after it has ended (`epub.rs:452, 471`). The nodes at the top of a chapter all
  have the anchor "/2", which is also that of a first child (`epub.rs:855`). A text with
  an entity that XML does not define is left out as a whole (`epub.rs:721`). A text with
  no newline near a cut panics if the cut falls inside a character (`txt.rs:379`); the FFI
  reports an error. A heading with nothing behind it takes the next line for its title
  (`txt.rs:20`). Every line of a text with "\r\n" is a paragraph (`txt.rs:255`).
  `resolve_toc_href` does not normalise "..", which its comment says (`epub.rs:620`), and
  falls back to a chapter of the same name: a link "../x" leads nowhere, also
  where the chapter is in the spine. `parse_chunked` replaces a character that the
  end of a chunk cuts (`txt.rs:97`); only tests call it.

The Apple application's calls are serial, so overlapping sessions and calls concern
users of the crates, C clients with several threads, the background refresh, and
the scheduler next to manual calls.

## 4. Proofs

All proofs are for arbitrary sets and numbers: any devices, sessions, objects,
stamps, bounds, batch and page sizes, faults, and any value of the wiring
constants unless stated. The assumptions are the `ASSUME`s of the modules.

`SyncProofs`

* `TypeCorrect`: `Spec => []TypeOK`.
* `SyncedOpsAreOnServer`: `Spec => []SyncedIsOnServer`.
* `CursorIsCovered`: `Spec => []CursorCovers`.
* `OpsArePushedOnce`: with `StableOpIds`, `Spec => []PushedOnce`.

The four follow from `Invariance: Spec => []IInv`. None of the properties is
inductive: what `MarkSynced` marks was read several steps earlier, and the cursor
that `SavePage` saves was read before other sessions moved it. `IInv` adds what
holds of the state in between:

* `StoreFacts`: synced rows are in the server's log, the saved cursor is covered;
* `SessionFacts`: a session sends only rows that exist; in `reply` all it sent is
  in the log; its own cursor is covered, and so is every entry up to it in a
  page, whose end is no further than the log;
* `LogFacts`: the log has only operations that some device logged (so that
  `Op(log[k])` is defined), and `handled` only positions of the log;
* `Functional` with `StableOpIds`: no entry twice, by way of the distinctness of
  the rows of one request.

Rows are never removed from an oplog, the log only grows and `handled` only
grows. `GrowingStep`, `DeviceStep` and `SessionStep` state once that a step of
this kind preserves what it does not touch, so that the proof for each action
is left with the session or the device that moved.

`SyncConverge`

* `LastWriterWins`: with `OrderedClocks`, `Spec => []RegistersConverge`. Nothing else
  is assumed: sessions of one device may overlap, requests and replies be lost,
  processes die, a session apply a page again or save an old cursor, op_ids change
  on every read, and a device's own operations come back to it.
* `EngineDelivers`: with `StableOpIds`, `OrderedClocks` and `SerialSessions` (one
  session at a time on each device), `Spec => ImplementsDelivery`: every step of
  `SyncEngine` appends a device's next operation to the log, moves a device's
  cursor forward over it, logs an operation, or changes nothing that `OpDelivery`
  sees. Each assumption is needed: without the first an operation enters twice,
  without the second operations overtake one another, without the third a slow
  session sets the cursor back.
* `ShelvesConverge`: with the same three, `OwnDeviceKnown`, `NoDeaths` (only the network
  fails) and `BooksEverywhere` (a book that a device could still register is
  registered on all from the start), `Spec => []BookmarksConverge`. The last two are
  needed as well: after a crash a page is pulled twice and brings a deleted bookmark
  back (run `sync_repull`), and a bookmark that arrives before its book is dropped
  for good (hazard at `db.rs:536`).
* `WiredShelvesConverge`: the same property of the engine as the FFI wires it, where a
  device is given its own operations again (`~OwnDeviceKnown`): with `SerialSessions`
  and `BooksEverywhere` only, `Spec => []BookmarksConverge`, whatever is lost, whatever
  dies, for any clocks and op_ids. Own operations that come back are what makes it so:
  every device applies the whole log, so a page that is pulled twice may bring a deleted
  bookmark back, but brings it back everywhere. Two sessions of one device that overlap
  do break it (the slow one applies an old page after the other has gone on).
* `UndeletedIsEverywhere`: with `BooksEverywhere` alone, what nobody deleted is, when all
  is exchanged, on every device that has its book. Sessions may overlap, processes die,
  clocks and op_ids do what they like, with either wiring.

`RegistersConverge` speaks of quiescent states only. What holds in all of them is
`CInv`: stamps are positive and name one operation (`Stamped`); a device has only
dealt with what the server has (`HandledIsLogged`); and the row of a register is
the newest of all that its device has logged or dealt with, and comes from some
device's operation (`NewestWins`). At rest every device has dealt with the whole
log (its cursor is at the end and `CursorCovers` holds) and the log has every
operation (all are marked and `SyncedIsOnServer` holds); so of two rows each is at
least as new as the other, their stamps are equal, and by `Stamped` they are one
row. `QuietDevice` and its like state once which steps leave the rows alone.

On top of `IInv`, `EngineDelivers` takes `DInv`: stamps grow along an oplog (`StampsGrow`); the
log has no operation of a device without all those before it (`Gapless`); a
session holds, together with the log, everything before what it sends or waits to
send, and its cursor is not behind the saved one (`SessionOrder`). The refinement
of a push of several operations at once enumerates the new ones in order.

`ShelvesConverge` stands on all of these, on `PushedOnce`, and on two more. `Swept`:
a device has dealt with exactly the log up to where its session is, so that nothing
is applied twice. `BInv`, for each bookmark or annotation: its id is minted once
(`OnePut`); in the log its put precedes its deletions (`PutFirst`), since a device
deletes only what it put before or was given (`Caused`); and the row on a device is
the put that it has seen, until it has seen a deletion (`RowIsSeen`). At rest all
devices have seen the same. The step that needs most of this is the put that
arrives: `NotDeletedYet` shows that no deletion of it was seen before. TLC checked
both on `sync_contract` before they were proved.

`WiredShelvesConverge` needs none of this, since deliveries are neither exactly once
nor in order. Its invariant has three parts. `Kept`: books stay where they are, and
`handled` is of the log. `Forward`: a session pulls from the saved cursor, and while it
applies a page its own cursor is not behind that. `LastWrites`, for each device and each
bookmark: if the device has reached the last entry of the log about it, and not begun
again before it, and its own operations on it are all in the log, then it has the row
which that entry leaves (`RowIsLast`); and where there is a row there is an operation
(`RowHasOp`). At rest every device has reached the last entry; `GreatestOf` says that
there is one. `UndeletedIsEverywhere` takes `Kept` and `Held`: a device that can hold a
bookmark which nobody deleted holds it from the moment it put it or was given it.

`HlcProofs`

* `EncodingOrder`, `DecodeEncoded`, `TickGreater`, `MergeGreater`: the encoding is
  exact and monotone below the 48-bit limit, and tick and merge exceed their
  arguments.
* `ClockNeverBehind`, `ClockMovesUp`, `StampsRoundTrip`: `ClockDominates`,
  `ClockGrows` and `RoundTrips` for any widths; `ClockTyped`: `TypeOK`. The invariant `ClockInv` bounds
  the wall time of every clock and of every stamp in transit by `MaxWall`, without
  which the encoding would not be exact.

`SchedulerProofs`

* `SchedulerTyped`, `FinalPushFlushes`, `StoppedIsDormant`: `TypeOK`, `StopFlushes` and
  `EndedIsDormant`, for any capacity of the channel and any number of operations
  and troubles.

The invariant adds that a command to stop is in the channel only while a stop waits
for the task, or when the task has ended (`OneStop`), which of the task, its caller and the channel may stand where
(`Orderly`), and what an undisturbed stop still owes: everything that was logged
when it was called is pushed or will be read by the last push (`Owing`).

`AuthProofs`

* `AuthTyped`, `OneSessionPerDevice`: `TypeOK` and `OneSession`, for any devices, calls
  that overlap as they like, and a clock that may jump.
* `DeviceAgreesWithItself`, `NoFalseAlarm`: `DeviceAgrees` and `AlarmHasCause`.
* `RefusedStaysRefused`: `Spec /\ []TwoAtOnce` implies that no step makes a pair
  authorized that was not, while the clock is ordered. `TwoAtOnce` says that at most two
  requests are at the server or on their way; the number of calls is free.
* `TwoReviveNone`: `NoRevival`, for a finite `Call`, from the same invariant: two calls
  are never three requests.

`OneSession` is proved transaction by transaction: `Sound` says of an account that
every live token has an active device and no second live token beside it, and a
lemma per operator of `AuthServer` preserves it (`IssueSound` needs that the device
is `SignedOut`, which is why a login ends tokens before it issues one, and why the
rotation in a refresh comes first). `DeviceAgrees` speaks of idle devices only; `Tidy`
says how far the one call of a device that is not astray has got: file, memory and
state change in three steps, and a failed refresh shows `NeedsRefresh` only if there
is a token. `AlarmHasCause` takes `Current`: as long as nothing overlapped, failed to be
written or was missed, the token in memory and the one that a reply brings are the
device's own and were not exchanged, so that a refresh never presents one that was.

Only a login can make a token acceptable that was not, because it activates its
device, at a time that it read before its transaction began. `RInv` says why it does
not: no time that the server keeps is to come (`InPast`); while two requests are
admitted, no token is as late as both (`NoneLater`), since the later reading was later
than every token there was, and with `TwoAtOnce` none is issued before one of them
commits; so a token of a signed out device that passes the cut-off times is older than
the login that waits to activate it (`Outdated`), which then raises the cut-off beyond
it. `Ages` is what each transaction does to these times (`LoginAges`, `RefreshAges` and
so on); `TransactionAges` and `QuietAges` keep the invariant for the steps that commit
and those that do not. TLC checked `RInv` with two calls before it was proved.

`FileProofs`

* `ListedFilesAreWhole`: `Spec => []WholeFiles`, for any number of calls, requests,
  chunks, retries and faults.
* `AnswersAreTrue`, `NothingIsLeft`, `DestinationIsWhole`, `FilesTyped`: `AnswerIsTrue`,
  `NoLeftovers`, `DestIsWhole` and `TypeOK`, for the same.

`WholeFiles` is not inductive, since a file is listed by a request that merged and
hashed it several awaits earlier, and other requests write files meanwhile. The
first invariant, `FInv`, adds that a client waits for one request at a time
(`OneLive`), that an upload has one completion, which its client waits for unless it
has given up (`OneCompletion`), that a final file is what its completion has read as
long as it has no row (`Merging`), and who may have a row at all (`Recorded`).

The second one, `GInv`, stands on the first (`FilesInvariance` proves both). `CallInv(c)`
says what call `c`, its requests and its session know of each other, which no request
of another call can disturb (`ApartInv`): where the request it waits for may be, and
what its answer is worth (`Asked`, from which `AnswerIsTrue`); that a session that has
begun has the client's hash (`Knows`); and, as long as no request of `c` was cut
short, which request still answers for a directory, a chunk row or a final file that
is there (`Tidy`, from which `NoLeftovers`). `DestInv` says whose the client's files are
while downloads do not overlap: the one call at work has `dest.part` open and nobody
has `dest`; what is renamed was hashed. Each action has one lemma for the calls and
one for the types; `QuietInv`, `ReplacesCalls` and their like state once what a step of
one request, or of one call, leaves alone. The proof uses of `FreshInode` only that
it is a file nobody uses.

`HandleProofs`

* `MarkedWasSent`, `EngineIsWhole`, `CallbackKnows`, `HandleTyped`: `SyncedWasSent`,
  `OneEngine`, `ToldIsState` and `TypeOK`, for any threads, databases, inits and calls.
* `NoDeadlock`: as long as a call is under way, one thread that is in one does not
  wait for a lock: what `SomeCallMoves` says with ENABLED, without it.

The inductive invariant `HInv` names what a call that is half way still stands for. A
sync at the mark was answered, and an engine other than the one it read from was
recorded when it appeared (`SyncInv`); the one init or destroy that nothing overlapped
has got as far as its place says (`Undisturbed`, a `Stage` per place); whoever is at
`state` or `tell` still owes the application the manager's state (`ToldInv`); and the
holder of `ENGINE` is in an init, that of `SYNC_SCHEDULER` at the stop (`LockInv`).

`ReaderProofs`

* `ReaderShowsCurrent`, `CachedIsTrue`, `ImportsAreTrue`, `ReaderIsServed`, `ReaderTyped`:
  `ShownIsCurrent`, `CacheIsTrue`, `ImportIsTrue`, `LoadingHasCause` and `TypeOK`, for
  any files, identifiers and storage names (however many files share one), chapters and
  jobs (finitely many at a time), changes of the appearance and calls of the user.

None of the four is inductive: between the moment a chapter is read and the moment it
is shown or cached, the view moves on, the book is closed and other jobs end. `RInv`
(`ReaderInvariance`) has three parts. `Typed` says which place goes with which kind of
job, and what it carries there (`Carries`). `Order` is about the requests that are
still wanted: a current job belongs to the book in view, a load comes before the spine
and all others after it, a chapter is the one where the view is (`Belongs`), there is
one of a kind (`Single`), and a view that loads has one (`Caused`). Both hold whatever
happens; `LoadingHasCause` follows from the second. `Truth` holds as long as nobody
overlapped in the use of the open book (`~Crowded`, used through the lemma `Sole`):
what an import has read is of its own file, and what a load or a job that reads ahead
has got so far is of a file that is filed like its book, and of its chapter, where its
place says so (`JobTrue`); a wanted rendering is of the nodes that
the view has, and these are of the chapter where it is, unless a load or a chapter is
still to come (`Right`); a copy is under the name that its identifier gives, and is
that of its entry, or of the import that is ending, unless it changed hands (`Shelf`:
the import must be in it, since the entry comes a step after the copy); and the same
for the cache (`CacheTrue`). The steps come in families with a lemma each: one job goes on and
nobody else sees it (`QuietJob`), it opens or closes the book (`OpenJob`), it writes
(`WritingJob`), a request replaces those of its kind (`RequestStep`, `RenderBegins`),
or jobs are started and dropped that do not change what is shown (`Aside`).

Only model-checked: `SomeCallMoves` (ENABLED; see `NoDeadlock`), the parsers, whose
operators are recursive, and the liveness properties (`EventuallyDelivered`, `EventuallyPushed`,
`StopReturns`), which are out of the prover's reach together with fairness and
ENABLED. With own operations skipped, `BookmarksConverge` is violated by a
crash, and in either wiring by books that a device lacks.

## 5. Not modelled

* `delete_book` and reading_stats: nothing calls the one or uses the other.
* Read-only queries, statistics, formatting, logging.
* Gaps in `server_seq` from other accounts, and rows the server refuses: the
  server validates nothing in an operation that the client could get wrong.
* The effect of pulled stamps on the engine's clock is in `HlcClock`, not in
  `SyncEngine`, where stamps are inputs.
* A scheduler dropped without a stop; the intermediate Idle that the last push
  shows right before Dormant.
* Registration, `list_devices`; a request of the auth API that the server handles
  after the client timed out and went on (requests of the files API do).
* Quotas, sizes and names of files, and requests that `file_sync.rs` never sends.
* Pointers, lengths and buffers of the C interface; JSON.
* A book with an empty identifier, whose copy gets a random name.
* The eviction of chapters from the reader's cache (five stay): it only takes
  away; the layout of pages; plain-text books in the application; progress,
  bookmarks and annotations of the reader, which are calls of the state manager.
* The ZIP archive, encodings, attributes, fragments of links, authors, language
  and date; the mapping of tags to node types.
* WASM bindings: they keep a parsed book and have no step that another could come
  between.

## 6. Plan

Done, in this order: `LocalStore`, `SyncEngine`, `OpDelivery`, `SyncProofs`, `Hlc`,
`HlcClock`, `HlcProofs`, `SyncScheduler`, `AuthServer`, `AuthSession`,
`FileServer`, `FileSync`, `EngineHandle`, `BookReader`, `EpubParser`, `TxtParser`,
`EpubPaths`, `SyncConverge`, `SchedulerProofs`, `AuthProofs`, `FileProofs`,
`HandleProofs`, `ReaderProofs`.

Next, most important first:

1. The reader of plain-text books (`TxtReaderView.swift`), whose requests are like
   those of `BookReader`, on the chapters of `TxtParser`.
2. `NoRevival` for three requests at once, under an assumption about how long a
   transaction may wait after it has read the clock.
