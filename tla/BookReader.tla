----------------------------- MODULE BookReader -----------------------------
(***************************************************************************)
(* The Apple application's reader and its imports of EPUB files, which     *)
(* share the one book that the engine has open (current_book of            *)
(* crates/ffi_c/src/lib.rs).                                               *)
(*                                                                         *)
(* Blocks on the main queue, and calls of the engine, which the bridge     *)
(* puts on a serial queue, are one step each; what runs on the global      *)
(* queues is a job, and goes from one of these to the next.  A job of the  *)
(* reader carries the request id of its kind: it is `current' until the    *)
(* view draws another id for that kind.                                    *)
(*                                                                         *)
(* The library goes by the identifier in a book's metadata, which several  *)
(* files may have, and keeps its copy of a book under a name made from the *)
(* identifier, which several identifiers may come to.  A file does not     *)
(* change, though it may become unreadable, and chapter i has the same     *)
(* path in every file.  Text and pictures are known by the file and the    *)
(* chapter they are of; pages, and the reading position that the store     *)
(* keeps (LocalStore), are left out.                                       *)
(***************************************************************************)
EXTENDS Naturals, FiniteSets

CONSTANTS
    Book,       \* EPUB files
    Identifier, \* what the metadata name a book by
    IdOf,       \* the identifier in each file
    NameOf,     \* the name that each identifier gives a copy
    Chapters,   \* length of every spine
    Slot,       \* bound: jobs at a time
    MaxThemes,  \* bound: changes of the appearance
    MaxCalls,   \* bound: what the user does
    Absent

ASSUME BookReaderAssumption ==
    /\ Chapters \in Nat \ {0} /\ IsFiniteSet(Slot) /\ Slot # {}
    /\ MaxThemes \in Nat /\ MaxCalls \in Nat
    /\ IdOf \in [Book -> Identifier] /\ DOMAIN NameOf = Identifier
    /\ Absent \notin Book \cup Identifier

Chapter == 1 .. Chapters
Theme == 0 .. MaxThemes
Text == Book \X Chapter
Key == Identifier \X Chapter \X Theme  \* ChapterCacheKey
Name == {NameOf[i] : i \in Identifier}  \* sanitizedStorageName: it has no inverse

VARIABLES
    opened,    \* current_book
    file,      \* the application's copies of the books
    library,   \* libraryBooks: of each, whose cover it has, which file it came
               \* from, and what is read: the copy, data in memory, or that file
    view,      \* the reader's state
    leaving,   \* a reader was closed and its onDisappear is still to come
    cache,     \* ChapterCache
    theme,     \* themeHash
    job,       \* what runs on the global queues
    calls,     \* what the user did so far
    mixed,     \* history: two users of the open book overlapped
    late,      \* history: keys whose chapter was cached after its job was called off
    replaced,  \* history: identifiers whose copy was overwritten or removed for
               \* the sake of another file or another identifier
    skewed     \* history: the appearance changed while the chapter shown was
               \* not the one that had been asked for

vars == <<opened, file, library, view, leaving, cache, theme, job, calls, mixed, late, replaced, skewed>>

NoView == [book |-> Absent, spine |-> Absent, at |-> 1, nodes |-> Absent,
           shown |-> Absent, laid |-> TRUE, loading |-> FALSE, error |-> FALSE]

Requests == {"load", "chapter", "render", "pagination", "preload"}
Free == [kind |-> "free", at |-> "free", current |-> FALSE, book |-> Absent,
         from |-> 1, ix |-> 1, theme |-> 0, data |-> Absent, cover |-> Absent]

Job(kind, at, b) == [Free EXCEPT !.kind = kind, !.at = at, !.current = TRUE, !.book = b,
                                 !.theme = theme]

Init ==
    /\ opened = Absent
    /\ file = [n \in Name |-> Absent] /\ library = [i \in Identifier |-> Absent]
    /\ view = NoView /\ leaving = FALSE
    /\ cache = [k \in Key |-> Absent]
    /\ theme = 0
    /\ job = [s \in Slot |-> Free]
    /\ calls = 0
    /\ mixed = FALSE /\ late = {} /\ replaced = {} /\ skewed = FALSE

Is(s, kind, at) == job[s].kind = kind /\ job[s].at = at
Goto(s, at) == job' = [job EXCEPT ![s].at = at]
End(s) == job' = [job EXCEPT ![s] = Free]

FreeSlots(jobs) == {s \in Slot : jobs[s] = Free}
FreeSlot(jobs) == CHOOSE s \in Slot : jobs[s] = Free

\* The view draws new request ids: the jobs of these kinds are not current any more.
Renew(kinds, jobs) ==
    [s \in Slot |-> IF jobs[s].kind \in kinds THEN [jobs[s] EXCEPT !.current = FALSE]
                    ELSE jobs[s]]

Invalidate(i) == cache' = [k \in Key |-> IF k[1] = i THEN Absent ELSE cache[k]]

\* get_chapter_content: what the engine has open.  A chapter may be broken.
Content(i) == {Absent} \cup (IF opened = Absent THEN {} ELSE {<<opened, i>>})

\* DomRenderer: the text, with the pictures of the book that is open.
Rendered(text) == [text |-> text, pictures |-> opened]

UserMay == calls < MaxCalls /\ calls' = calls + 1

-----------------------------------------------------------------------------
(* importEpubBook *)

StartImport(b) ==
    /\ UserMay /\ FreeSlots(job) # {}
    /\ job' = [job EXCEPT ![FreeSlot(job)] = Job("import", "open", b)]
    /\ UNCHANGED <<opened, file, library, view, leaving, cache, theme, late, replaced, skewed>>

ImportOpen(s) ==
    /\ Is(s, "import", "open")
    /\ \/ opened' = job[s].book /\ Goto(s, "metadata")
       \/ End(s) /\ UNCHANGED opened
    /\ UNCHANGED <<file, library, view, leaving, cache, theme, calls, late, replaced, skewed>>

ImportMetadata(s) ==
    /\ Is(s, "import", "metadata")
    /\ job' = [job EXCEPT ![s].data = opened,
                          ![s].at = IF opened = Absent THEN "close" ELSE "cover"]
    /\ UNCHANGED <<opened, file, library, view, leaving, cache, theme, calls, late, replaced, skewed>>

ImportCover(s) ==
    /\ Is(s, "import", "cover")
    /\ job' = [job EXCEPT ![s].cover = opened, ![s].at = "close"]
    /\ UNCHANGED <<opened, file, library, view, leaving, cache, theme, calls, late, replaced, skewed>>

ImportClose(s) ==
    /\ Is(s, "import", "close")
    /\ opened' = Absent
    /\ IF job[s].data = Absent THEN End(s) ELSE Goto(s, "store")
    /\ UNCHANGED <<file, library, view, leaving, cache, theme, calls, late, replaced, skewed>>

\* What the copy under a name serves: books in the library, and imports that end.
Sharing(books, n) ==
    {i \in Identifier : /\ NameOf[i] = n
                        /\ \/ books[i] # Absent /\ books[i].read = "copy"
                           \/ \E s \in Slot : Is(s, "import", "stored") /\ IdOf[job[s].data] = i}

\* Mutant of ImportStore: nobody looks whether the copy was written.
StoreUnchecked(s) ==
    LET n == NameOf[IdOf[job[s].data]]
    IN /\ Is(s, "import", "store")
       /\ \/ /\ file' = [file EXCEPT ![n] = job[s].book] /\ Goto(s, "stored")
             /\ replaced' = IF file[n] = job[s].book THEN replaced
                            ELSE replaced \cup Sharing(library, n)
          \/ Goto(s, "stored") /\ UNCHANGED <<file, replaced>>
       /\ UNCHANGED <<opened, library, view, leaving, cache, theme, calls, late, skewed>>

\* persistImportedBookData replaces the copy under this name, or fails and leaves it.
ImportStore(s) ==
    LET n == NameOf[IdOf[job[s].data]]
    IN /\ Is(s, "import", "store")
       /\ \/ /\ file' = [file EXCEPT ![n] = job[s].book] /\ Goto(s, "stored")
             /\ replaced' = IF file[n] = job[s].book THEN replaced
                            ELSE replaced \cup Sharing(library, n)
          \/ Goto(s, "unstored") /\ UNCHANGED <<file, replaced>>
       /\ UNCHANGED <<opened, library, view, leaving, cache, theme, calls, late, skewed>>

\* A book that is there already stays as it is.
ImportDone(s) ==
    /\ job[s].kind = "import" /\ job[s].at \in {"stored", "unstored"}
    /\ library' = [library EXCEPT ![IdOf[job[s].data]] =
          IF @ # Absent THEN @
          ELSE [cover |-> job[s].cover, from |-> job[s].book,
                read |-> IF job[s].at = "stored" THEN "copy" ELSE "memory"]]
    /\ End(s)
    /\ UNCHANGED <<opened, file, view, leaving, cache, theme, calls, late, replaced, skewed>>

\* removeManagedBookCopy does not touch a file outside the application's directory.
RemoveBook(i) ==
    /\ UserMay /\ view.book = Absent /\ library[i] # Absent
    /\ library' = [library EXCEPT ![i] = Absent]
    /\ IF library[i].read = "copy"
          THEN /\ file' = [file EXCEPT ![NameOf[i]] = Absent]
               /\ replaced' = (replaced \ {i}) \cup Sharing(library', NameOf[i])
          ELSE UNCHANGED <<file, replaced>>
    /\ Invalidate(i)
    /\ UNCHANGED <<opened, view, leaving, theme, job, late, skewed>>

-----------------------------------------------------------------------------
(* ReaderView: rendering, pre-loading and pagination *)

\* What preloadCandidateChapterIndices may come to, on some page of the chapter:
\* the next chapter is left out only near the beginning.
Candidates(i) == {ixs \in SUBSET ({i - 1, i + 1} \cap Chapter) :
                     i + 1 \in Chapter => ixs # {}}

\* preloadAdjacentChapters, for the candidates that are not cached.  A job that
\* gets no slot is one that the background queue does not come to.
PreloadOf(ixs, jobs, v, cached) ==
    LET renewed == IF ixs = {} THEN jobs ELSE Renew({"preload"}, jobs)
        wanted == {i \in ixs : cached[<<v.book, i, theme'>>] = Absent}
    IN IF wanted = {} \/ FreeSlots(renewed) = {} THEN {renewed}
       ELSE {[renewed EXCEPT ![FreeSlot(renewed)] =
                 [Job("preload", "ask", v.book) EXCEPT !.from = v.at, !.ix = i,
                                                       !.theme = theme']] : i \in wanted}
Preload(jobs, v, cached) == UNION {PreloadOf(ixs, jobs, v, cached) : ixs \in Candidates(v.at)}

\* Mutant of RenderIn: renderings that are under way stay wanted.
RenderKeeping(s, jobs, v) ==
    [jobs EXCEPT ![s] =
        [Job("render", "render", v.book) EXCEPT !.ix = v.at, !.data = v.nodes, !.theme = theme']]

\* renderContent, for what the view has by now.
RenderIn(s, jobs, v) ==
    [Renew({"render"}, jobs) EXCEPT ![s] =
        [Job("render", "render", v.book) EXCEPT !.ix = v.at, !.data = v.nodes, !.theme = theme']]

Render(s) ==
    /\ Is(s, "render", "render")
    /\ job' = [job EXCEPT ![s].data = Rendered(@), ![s].at = "done"]
    /\ UNCHANGED <<opened, file, library, view, leaving, cache, theme, calls, late, replaced, skewed>>

RenderDone(s) ==
    /\ Is(s, "render", "done")
    /\ IF job[s].current
          THEN /\ view' = [view EXCEPT !.shown = job[s].data, !.loading = FALSE, !.laid = FALSE]
               /\ cache' = [cache EXCEPT ![<<job[s].book, job[s].ix, job[s].theme>>] = job[s].data]
          ELSE UNCHANGED <<view, cache>>
    /\ End(s)
    /\ UNCHANGED <<opened, file, library, leaving, theme, calls, late, replaced, skewed>>

\* handlePagesUpdated: the pages of what is shown are laid out, and the other
\* chapters are counted in the background.
PagesUpdated ==
    /\ view.book # Absent /\ ~view.laid /\ ~view.loading /\ ~view.error
    /\ view' = [view EXCEPT !.laid = TRUE]
    /\ LET jobs == Renew({"pagination"}, job)
       IN IF FreeSlots(jobs) = {} THEN job' = jobs
          ELSE \E i \in Chapter \ {view.at} :
                  job' = [jobs EXCEPT ![FreeSlot(jobs)] =
                             [Job("pagination", "ask", view.book) EXCEPT !.from = view.at, !.ix = i]]
    /\ UNCHANGED <<opened, file, library, leaving, cache, theme, calls, late, replaced, skewed>>

\* Does the view still want this job?
Wanted(j) ==
    /\ j.current /\ j.from = view.at /\ j.theme = theme
    /\ j.kind = "preload" => ~view.loading

\* The questions that a job asks on the main queue between its calls.
Then == [ask |-> "read", again |-> "render", last |-> "set"]
Ask(s) ==
    LET j == job[s]
        counted == j.kind = "pagination" /\ j.at = "ask" /\ cache[<<j.book, j.ix, j.theme>>] # Absent
    IN /\ j.kind \in {"preload", "pagination"} /\ j.at \in DOMAIN Then
       /\ IF Wanted(j) /\ ~counted THEN Goto(s, Then[j.at]) ELSE End(s)
       /\ UNCHANGED <<opened, file, library, view, leaving, cache, theme, calls, late, replaced, skewed>>

ReadAhead(s) ==
    /\ job[s].kind \in {"preload", "pagination"} /\ job[s].at = "read"
    /\ \E text \in Content(job[s].ix) :
          job' = [job EXCEPT ![s] = IF text = Absent THEN Free
                                    ELSE [@ EXCEPT !.data = text, !.at = "again"]]
    /\ UNCHANGED <<opened, file, library, view, leaving, cache, theme, calls, late, replaced, skewed>>

RenderAhead(s) ==
    /\ job[s].kind \in {"preload", "pagination"} /\ job[s].at = "render"
    /\ job' = [job EXCEPT ![s].data = Rendered(@),
                          ![s].at = IF job[s].kind = "preload" THEN "last" ELSE "set"]
    /\ UNCHANGED <<opened, file, library, view, leaving, cache, theme, calls, late, replaced, skewed>>

\* Mutant of CacheAhead: the entry is filed under the chapter shown.
CacheUnderShown(s) ==
    LET key == <<job[s].book, view.at, job[s].theme>>
    IN /\ job[s].at = "set"
       /\ cache' = [cache EXCEPT ![key] = job[s].data]
       /\ late' = IF job[s].current THEN late ELSE late \cup {key}
       /\ End(s)
       /\ UNCHANGED <<opened, file, library, view, leaving, theme, calls, replaced, skewed>>

CacheAhead(s) ==
    LET key == <<job[s].book, job[s].ix, job[s].theme>>
    IN /\ job[s].at = "set"
       /\ cache' = [cache EXCEPT ![key] = job[s].data]
       /\ late' = IF job[s].current THEN late ELSE late \cup {key}
       /\ End(s)
       /\ UNCHANGED <<opened, file, library, view, leaving, theme, calls, replaced, skewed>>

-----------------------------------------------------------------------------
(* ReaderView: loading *)

\* The load has the library's entry as it is now: the file to open, unless it is the copy.
LoadIn(jobs, i) ==
    LET renewed == Renew({"load", "chapter", "pagination", "preload"}, jobs)
        file0 == IF library[i].read = "copy" THEN Absent ELSE library[i].from
    IN [renewed EXCEPT ![FreeSlot(renewed)] = [Job("load", "open", i) EXCEPT !.cover = file0]]

\* openBook and the new view's onAppear.
OpenReader(i) ==
    /\ UserMay /\ view.book = Absent /\ library[i] # Absent /\ FreeSlots(job) # {}
    /\ view' = [NoView EXCEPT !.book = i, !.loading = TRUE]
    /\ job' = LoadIn(job, i)
    /\ UNCHANGED <<opened, file, library, leaving, cache, theme, late, replaced, skewed>>

\* retryCurrentLoad while nothing has been loaded
Retry ==
    /\ UserMay /\ view.error /\ ~view.loading /\ view.spine = Absent /\ FreeSlots(job) # {}
    /\ view' = [view EXCEPT !.loading = TRUE, !.error = FALSE]
    /\ job' = LoadIn(job, view.book)
    /\ UNCHANGED <<opened, file, library, leaving, cache, theme, late, replaced, skewed>>

\* reopenEpubForReading: the data, or the copy or the original, which may not be readable.
LoadOpen(s) ==
    LET source == IF job[s].cover # Absent THEN job[s].cover ELSE file[NameOf[job[s].book]]
    IN /\ Is(s, "load", "open")
       /\ \/ source # Absent /\ opened' = source /\ Goto(s, "metadata")
          \/ Goto(s, "failed") /\ UNCHANGED opened
       /\ UNCHANGED <<file, library, view, leaving, cache, theme, calls, late, replaced, skewed>>

LoadMetadata(s) ==
    /\ Is(s, "load", "metadata")
    /\ Goto(s, IF opened = Absent THEN "failed" ELSE "spine")
    /\ UNCHANGED <<opened, file, library, view, leaving, cache, theme, calls, late, replaced, skewed>>

\* No spine is an empty one.
LoadSpine(s) ==
    /\ Is(s, "load", "spine")
    /\ job' = [job EXCEPT ![s].cover = opened,
                          ![s].at = IF opened = Absent THEN "done" ELSE "chapter"]
    /\ UNCHANGED <<opened, file, library, view, leaving, cache, theme, calls, late, replaced, skewed>>

\* The chapter of the position that was saved, or the first.
LoadChapter(s) ==
    /\ Is(s, "load", "chapter")
    /\ \E i \in Chapter : \E text \in Content(i) :
          job' = [job EXCEPT ![s].ix = i, ![s].data = text, ![s].at = "done"]
    /\ UNCHANGED <<opened, file, library, view, leaving, cache, theme, calls, late, replaced, skewed>>

\* What comes is rendered, and the neighbours are fetched; or it is an error.
Arrive(s, jobs, v, text) ==
    IF text = Absent
    THEN view' = [v EXCEPT !.error = TRUE, !.loading = FALSE] /\ job' = [jobs EXCEPT ![s] = Free]
    ELSE /\ view' = [v EXCEPT !.nodes = text, !.loading = TRUE]
         /\ job' \in Preload(RenderIn(s, jobs, view'), view', cache)

\* The load's request becomes that of the chapter, too.
LoadDone(s) ==
    /\ Is(s, "load", "done")
    /\ UNCHANGED <<opened, file, library, leaving, cache, theme, calls, late, replaced, skewed>>
    /\ IF job[s].current
          THEN Arrive(s, Renew({"chapter"}, job),
                      [view EXCEPT !.spine = job[s].cover, !.at = job[s].ix], job[s].data)
          ELSE End(s) /\ UNCHANGED view

LoadFailed(s) ==
    /\ Is(s, "load", "failed")
    /\ view' = IF job[s].current THEN [view EXCEPT !.error = TRUE, !.loading = FALSE] ELSE view
    /\ End(s)
    /\ UNCHANGED <<opened, file, library, leaving, cache, theme, calls, late, replaced, skewed>>

\* Mutant of Navigate: an index taken as a number.
NavigatePast(i) ==
    /\ UserMay /\ view.spine # Absent /\ FreeSlots(job) # {}
    /\ view' = [view EXCEPT !.at = i + 1, !.loading = TRUE, !.error = FALSE]
    /\ LET jobs == Renew({"chapter", "pagination", "preload"}, job)
       IN job' = [jobs EXCEPT ![FreeSlot(jobs)] =
                     [Job("chapter", "read", view.book) EXCEPT !.ix = i + 1]]
    /\ UNCHANGED <<opened, file, library, leaving, cache, theme, late, replaced, skewed>>

\* navigateToChapter: pages, contents, bookmarks and annotations lead here.
Navigate(i) ==
    /\ UserMay /\ view.spine # Absent /\ FreeSlots(job) # {}
    /\ view' = [view EXCEPT !.at = i, !.loading = TRUE, !.error = FALSE]
    /\ LET jobs == Renew({"chapter", "pagination", "preload"}, job)
       IN job' = [jobs EXCEPT ![FreeSlot(jobs)] =
                     [Job("chapter", "read", view.book) EXCEPT !.ix = i]]
    /\ UNCHANGED <<opened, file, library, leaving, cache, theme, late, replaced, skewed>>

ChapterRead(s) ==
    /\ Is(s, "chapter", "read")
    /\ \E text \in Content(job[s].ix) : job' = [job EXCEPT ![s].data = text, ![s].at = "done"]
    /\ UNCHANGED <<opened, file, library, view, leaving, cache, theme, calls, late, replaced, skewed>>

\* Mutant of ChapterDone: a failure goes unnoticed.
ChapterLost(s) ==
    /\ Is(s, "chapter", "done")
    /\ UNCHANGED <<opened, file, library, leaving, cache, theme, calls, late, replaced, skewed>>
    /\ IF job[s].current /\ job[s].data # Absent THEN Arrive(s, job, view, job[s].data)
       ELSE End(s) /\ UNCHANGED view

ChapterDone(s) ==
    /\ Is(s, "chapter", "done")
    /\ UNCHANGED <<opened, file, library, leaving, cache, theme, calls, late, replaced, skewed>>
    /\ IF job[s].current THEN Arrive(s, job, view, job[s].data) ELSE End(s) /\ UNCHANGED view

\* handleAppearanceChange
ChangeAppearance ==
    /\ UserMay /\ theme < MaxThemes /\ theme' = theme + 1
    /\ IF view.nodes = Absent THEN UNCHANGED <<view, job, cache, skewed>>
       ELSE /\ FreeSlots(job) # {}
            /\ Invalidate(view.book)
            /\ view' = [view EXCEPT !.loading = TRUE]
            /\ job' \in Preload(RenderIn(FreeSlot(job), job, view), view, cache')
            /\ skewed' = (skewed \/ view.nodes[2] # view.at)
    /\ UNCHANGED <<opened, file, library, leaving, late, replaced>>

\* moveToPage, near an end of the chapter
TurnPage ==
    /\ UserMay /\ view.shown # Absent
    /\ UNCHANGED <<opened, file, library, view, leaving, cache, theme, late, replaced, skewed>>
    /\ job' \in Preload(job, view, cache)

-----------------------------------------------------------------------------
(* Closing.  saveProgressAndClose runs when the user returns, and once more  *)
(* in onDisappear, at the end of the view's transition.  exitReader releases *)
(* the data in memory, since there always is an URL, if only the original's. *)

ReturnToLibrary ==
    /\ UserMay /\ view.book # Absent /\ ~leaving
    /\ job' = Renew(Requests, job)
    /\ opened' = Absent
    /\ Invalidate(view.book)
    /\ view' = NoView /\ leaving' = TRUE
    /\ library' = [library EXCEPT ![view.book].read = IF @ = "memory" THEN "original" ELSE @]
    /\ UNCHANGED <<file, theme, late, replaced, skewed>>

Disappear ==
    /\ leaving /\ leaving' = FALSE
    /\ opened' = Absent
    /\ UNCHANGED <<file, library, view, cache, theme, job, calls, late, replaced, skewed>>

-----------------------------------------------------------------------------
User ==
    \/ \E b \in Book : StartImport(b)
    \/ \E i \in Identifier : RemoveBook(i) \/ OpenReader(i)
    \/ Retry \/ TurnPage \/ ChangeAppearance \/ ReturnToLibrary
    \/ \E i \in Chapter : Navigate(i)

ImportStep(s) ==
    \/ ImportOpen(s) \/ ImportMetadata(s) \/ ImportCover(s) \/ ImportClose(s)
    \/ ImportStore(s) \/ ImportDone(s)

ReaderStep(s) ==
    \/ LoadOpen(s) \/ LoadMetadata(s) \/ LoadSpine(s) \/ LoadChapter(s)
    \/ LoadDone(s) \/ LoadFailed(s) \/ ChapterRead(s) \/ ChapterDone(s)
    \/ Render(s) \/ RenderDone(s)
    \/ Ask(s) \/ ReadAhead(s) \/ RenderAhead(s) \/ CacheAhead(s)

\* Who uses the open book: imports, the reader, and what is left of an earlier one.
Imports(jobs) == {s \in Slot : jobs[s].kind = "import" /\ jobs[s].at \in {"open", "metadata", "cover", "close"}}
Left(jobs, gone) == gone \/ \E s \in Slot : jobs[s].kind = "load" /\ ~jobs[s].current
Crowded(jobs, v, gone) ==
    LET readers == (IF v.book = Absent THEN 0 ELSE 1) + (IF Left(jobs, gone) THEN 1 ELSE 0)
    IN Cardinality(Imports(jobs)) + readers > 1

Next ==
    /\ \/ User
       \/ \E s \in Slot : ImportStep(s) \/ ReaderStep(s)
       \/ PagesUpdated
       \/ Disappear
    /\ mixed' = (mixed \/ Crowded(job', view', leaving'))

Spec == Init /\ [][Next]_vars

-----------------------------------------------------------------------------
(* Properties *)

Entry == [cover : Book \cup {Absent}, from : Book, read : {"copy", "memory", "original"}]

TypeOK ==
    LET rendered == [text : Text, pictures : Book \cup {Absent}]
    IN /\ opened \in Book \cup {Absent}
       /\ file \in [Name -> Book \cup {Absent}]
       /\ library \in [Identifier -> Entry \cup {Absent}]
       /\ view.book \in Identifier \cup {Absent} /\ view.at \in Chapter
       /\ view.nodes \in Text \cup {Absent} /\ view.shown \in rendered \cup {Absent}
       /\ view.book = Absent => view = NoView
       /\ cache \in [Key -> rendered \cup {Absent}]
       /\ \A s \in Slot : job[s].kind = "free" => job[s] = Free

\* No current request is going to change what the reader shows.
Settled ==
    \A s \in Slot : job[s].current => job[s].kind \notin {"load", "chapter", "render"}

True(text) == [text |-> text, pictures |-> text[1]]

\* The file's identifier is this one, or one that gives copies the same name.
Filed(b, i) == NameOf[IdOf[b]] = NameOf[i]

\* However loads, page turns, renderings and changes of the appearance overtake
\* each other, the reader ends up showing the chapter where it says it is, with
\* its pictures, of the file it has opened - as long as nobody else used the open
\* book.  That file need not be the one in the library's entry, but is filed like it.
ShownIsCurrent ==
    view.book # Absent /\ Settled /\ ~view.loading /\ ~view.error /\ ~mixed =>
       view.shown = True(<<opened, view.at>>) /\ Filed(opened, view.book)

\* What the cache has is for the book in view, and is the chapter that the key
\* names, with its pictures, of the file that is open.  What was cached by a job
\* that had been called off may be of another file filed like it, and have other
\* pictures.  It may be otherwise if somebody else used the open book, or the
\* appearance changed between a page turn and the arrival of the chapter.
CacheIsTrue ==
    ~mixed /\ ~skewed =>
       \A k \in Key : cache[k] # Absent =>
          IF k \in late THEN cache[k].text[2] = k[2] /\ Filed(cache[k].text[1], k[1])
          ELSE k[1] = view.book /\ cache[k] = True(<<opened, k[2]>>)

\* What would be read for a book in the library.
Held(i) == IF library[i].read = "copy" THEN file[NameOf[i]] ELSE library[i].from

\* A book in the library has the cover and the text of one file, and that file has
\* its identifier - also when the copy could not be written, and whatever was
\* imported or removed since.  It is otherwise if the import overlapped with another
\* use of the open book; and where another import replaced the copy, by a file with
\* the same identifier or with one that gives the same name, or the copy was removed
\* for another book or under its import, the text may only be that of some file with
\* such an identifier, or gone: the library keeps the first file's cover and title.
ImportIsTrue ==
    ~mixed => \A i \in Identifier : library[i] # Absent =>
                 /\ library[i].cover = library[i].from /\ IdOf[library[i].from] = i
                 /\ IF i \notin replaced THEN Held(i) = library[i].from
                    ELSE Held(i) # Absent => Filed(Held(i), i)

\* The reader does not wait for something that will not come.
LoadingHasCause == view.loading => ~Settled
=============================================================================
