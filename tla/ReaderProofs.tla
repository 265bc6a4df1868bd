---------------------------- MODULE ReaderProofs ----------------------------
(***************************************************************************)
(* Theorems about BookReader: its types, LoadingHasCause, ImportIsTrue,    *)
(* CacheIsTrue and ShownIsCurrent, for any books, chapters, jobs, changes  *)
(* of the appearance and calls of the user.                                *)
(***************************************************************************)
EXTENDS BookReader, TLAPS, FiniteSetTheorems

-----------------------------------------------------------------------------
(* What a job is, wherever it has got.                                     *)

IsJob(j) == j = [kind |-> j.kind, at |-> j.at, current |-> j.current, book |-> j.book,
                 from |-> j.from, ix |-> j.ix, theme |-> j.theme, data |-> j.data,
                 cover |-> j.cover]

Shown == [text : Text, pictures : Book \cup {Absent}]

Ahead == {"preload", "pagination"}

Places(kind) == CASE kind = "import" -> {"open", "metadata", "cover", "close", "store", "stored", "unstored"}
                  [] kind = "load" -> {"open", "metadata", "failed", "spine", "chapter", "done"}
                  [] kind = "chapter" -> {"read", "done"}
                  [] kind = "render" -> {"render", "done"}
                  [] OTHER -> {"ask", "read", "again", "render", "last", "set"}

\* What it carries there.
Carries(j) ==
    /\ j.kind = "import" /\ j.at \in {"cover", "close"} => j.data \in Book \cup {Absent}
    /\ j.kind = "import" /\ j.at \in {"store", "stored", "unstored"} => j.data \in Book
    /\ j.kind \in {"load", "chapter"} => j.data \in Text \cup {Absent}
    /\ j.kind = "load" => IF j.at = "done" THEN j.data # Absent => j.cover # Absent
                          ELSE j.data = Absent /\ (j.at = "chapter" => j.cover # Absent)
    /\ j.kind = "render" => j.data \in IF j.at = "done" THEN Shown ELSE Text
    /\ j.kind \in Ahead /\ j.at \in {"again", "render"} => j.data \in Text
    /\ j.kind \in Ahead /\ j.at \in {"last", "set"} => j.data \in Shown

JobOK(j) ==
    /\ IsJob(j) /\ j.kind \in Requests \cup {"import", "free"}
    /\ j.current \in BOOLEAN /\ j.ix \in Chapter /\ j.theme \in Theme
    /\ j.cover \in Book \cup {Absent}
    /\ j.kind = "free" => j = Free
    /\ j.kind # "free" => j.at \in Places(j.kind) /\ Carries(j)
    /\ j.kind = "import" => j.book \in Book
    /\ j.kind \in Requests => j.book \in Identifier

ViewOK(v) ==
    /\ v \in [book : Identifier \cup {Absent}, spine : Book \cup {Absent}, at : Chapter,
              nodes : Text \cup {Absent}, shown : Shown \cup {Absent},
              laid : BOOLEAN, loading : BOOLEAN, error : BOOLEAN]
    /\ v.book = Absent => v = NoView
    /\ ~v.laid \/ v.nodes # Absent \/ v.shown # Absent => v.spine # Absent

Typed ==
    /\ opened \in Book \cup {Absent} /\ theme \in Theme
    /\ file \in [Name -> Book \cup {Absent}]
    /\ library \in [Identifier -> Entry \cup {Absent}]
    /\ ViewOK(view) /\ (view.book # Absent => library[view.book] # Absent)
    /\ cache \in [Key -> Shown \cup {Absent}]
    /\ DOMAIN job = Slot /\ \A s \in Slot : JobOK(job[s])

-----------------------------------------------------------------------------
(* The jobs that the view still wants.                                     *)

Changing == {"load", "chapter", "render"}

\* A current job is for the book in view, and belongs where the view is.
Belongs(j, v) == j.current =>
    /\ j.kind \in Requests => v.book # Absent /\ j.book = v.book
    /\ j.kind = "load" => v.spine = Absent
    /\ j.kind \in {"chapter", "render"} \cup Ahead => v.spine # Absent
    /\ j.kind = "chapter" => j.ix = v.at

\* There is one of a kind.
Single(jobs) == \A s, u \in Slot :
    jobs[s].current /\ jobs[u].current /\ jobs[s].kind = jobs[u].kind /\ jobs[s].kind \in Changing => s = u

Caused(jobs, v) == v.loading => \E s \in Slot : jobs[s].current /\ jobs[s].kind \in Changing

Order == /\ \A s \in Slot : Belongs(job[s], view)
         /\ Single(job) /\ Caused(job, view)

-----------------------------------------------------------------------------
(* What is true as long as nobody else used the open book.                 *)

\* A file that is filed like the book of a job or of the view.
Open(o, i) == o \in Book /\ Filed(o, i)

\* What an import has read; o is what is open.
ImportTrue(j, o) == j.kind = "import" =>
    /\ j.at \in {"metadata", "cover"} => o = j.book
    /\ j.at \in {"cover", "close", "store", "stored", "unstored"} => j.data = j.book
    /\ j.at \in {"close", "store", "stored", "unstored"} => j.cover = j.book

LoadTrue(j, o) == j.kind = "load" /\ j.current =>
    /\ j.at = "open" /\ j.cover # Absent => Filed(j.cover, j.book)
    /\ j.at \in {"metadata", "spine", "chapter", "done"} => Open(o, j.book)
    /\ j.at \in {"chapter", "done"} => j.cover = o
    /\ j.at = "done" => j.data \in {Absent, <<o, j.ix>>}

ChapterTrue(j, o) == j.kind = "chapter" /\ j.current /\ j.at = "done" => j.data \in {Absent, <<o, j.ix>>}

\* The text that a rendering is of.
Source(j) == IF j.at = "done" THEN j.data.text ELSE j.data

RenderTrue(j, o, skew) == j.kind = "render" /\ j.current =>
    /\ j.at = "done" => j.data = True(Source(j))
    /\ Source(j)[1] = o
    /\ ~skew => Source(j) = <<o, j.ix>>

\* The chapter that the job is for, of a file that is filed like its book.
Of(text, j) == text[2] = j.ix /\ Filed(text[1], j.book)

\* A job that reads ahead asks before it uses what it has read, and before it
\* caches what it has rendered - the counting of pages does not.
AheadTrue(j, o) == j.kind \in Ahead =>
    /\ j.at \in {"again", "render"} /\ j.current => j.data = <<o, j.ix>>
    /\ j.at = "render" => Of(j.data, j)
    /\ j.at \in {"last", "set"} /\ j.current => j.data = True(<<o, j.ix>>)
    /\ j.at \in {"last", "set"} => Of(j.data.text, j)

JobTrue(j, o, skew) ==
    ImportTrue(j, o) /\ LoadTrue(j, o) /\ ChapterTrue(j, o) /\ RenderTrue(j, o, skew) /\ AheadTrue(j, o)

\* The reader has a file of its book open, and will show the chapter where it is.
ViewTrue(v, o) ==
    /\ v.spine # Absent => Open(o, v.book)
    /\ v.nodes # Absent => v.nodes[1] = o

Right(jobs, v, o) ==
    v.book # Absent /\ ~v.error
    /\ ~(\E s \in Slot : jobs[s].current /\ jobs[s].kind \in {"load", "chapter"}) =>
        /\ v.spine # Absent /\ v.nodes = <<o, v.at>>
        /\ \A s \in Slot : jobs[s].kind = "render" /\ jobs[s].current => Source(jobs[s]) = v.nodes
        /\ v.shown = True(v.nodes) \/ \E s \in Slot : jobs[s].kind = "render" /\ jobs[s].current

\* A copy is filed where its identifier says; an entry is of one file; and a copy is
\* of the file that its entry is of, or that its import is ending with.
Shelf ==
    /\ \A n \in Name : file[n] # Absent => NameOf[IdOf[file[n]]] = n
    /\ \A i \in Identifier : library[i] # Absent =>
          /\ library[i].cover = library[i].from /\ IdOf[library[i].from] = i
          /\ (library[i].read = "copy" /\ i \notin replaced => file[NameOf[i]] = library[i].from)
    /\ \A s \in Slot : Is(s, "import", "stored") /\ IdOf[job[s].data] \notin replaced =>
          file[NameOf[IdOf[job[s].data]]] = job[s].data

CacheTrue == ~skewed =>
    \A k \in Key : cache[k] # Absent =>
        IF k \in late THEN cache[k].text[2] = k[2] /\ Filed(cache[k].text[1], k[1])
        ELSE view.spine # Absent /\ k[1] = view.book /\ cache[k] = True(<<opened, k[2]>>)

Truth == ~mixed =>
    /\ ~Crowded(job, view, leaving)
    /\ \A s \in Slot : JobTrue(job[s], opened, skewed)
    /\ ViewTrue(view, opened) /\ Right(job, view, opened) /\ Shelf /\ CacheTrue

RInv == Typed /\ Order /\ Truth

-----------------------------------------------------------------------------
(* Jobs: new ones, those that go on, and those that are not wanted now.    *)

LEMMA FreeOK == JobOK(Free) /\ (\A v : Belongs(Free, v)) /\ \A o, skew : JobTrue(Free, o, skew)
<1>1. IsJob(Free)
  BY DEF IsJob, Free
<1>2. 1 \in Chapter /\ 0 \in Theme
  BY BookReaderAssumption DEF Chapter, Theme
<1>3. JobOK(Free)
  BY <1>1, <1>2 DEF JobOK, Free, Requests
<1>4. QED
  BY <1>3 DEF Free, Belongs, JobTrue, ImportTrue, LoadTrue, ChapterTrue, RenderTrue, AheadTrue, Ahead

\* A job that is not wanted any more.
LEMMA Dropped ==
    ASSUME NEW j, JobOK(j), j.kind # "free", NEW q, q = [j EXCEPT !.current = FALSE]
    PROVE  /\ JobOK(q) /\ ~q.current
           /\ q.kind = j.kind /\ q.at = j.at /\ q.book = j.book /\ q.ix = j.ix
           /\ q.data = j.data /\ q.cover = j.cover /\ q.theme = j.theme
           /\ \A v : Belongs(q, v)
           /\ \A o, skew : JobTrue(j, o, skew) => JobTrue(q, o, skew)
<1>1. /\ IsJob(q) /\ ~q.current /\ q.current \in BOOLEAN
      /\ q.kind = j.kind /\ q.at = j.at /\ q.book = j.book /\ q.ix = j.ix
      /\ q.data = j.data /\ q.cover = j.cover /\ q.theme = j.theme
  <2>1. j = [kind |-> j.kind, at |-> j.at, current |-> j.current, book |-> j.book,
             from |-> j.from, ix |-> j.ix, theme |-> j.theme, data |-> j.data,
             cover |-> j.cover]
    BY DEF JobOK, IsJob
  <2>2. q = [kind |-> j.kind, at |-> j.at, current |-> FALSE, book |-> j.book,
             from |-> j.from, ix |-> j.ix, theme |-> j.theme, data |-> j.data,
             cover |-> j.cover]
    BY <2>1
  <2>3. QED
    BY <2>2 DEF IsJob
<1>2. JobOK(q)
  BY <1>1 DEF JobOK, Carries
<1>3. \A v : Belongs(q, v)
  BY <1>1 DEF Belongs
<1>4. ASSUME NEW o, NEW skew, JobTrue(j, o, skew) PROVE JobTrue(q, o, skew)
  BY <1>1, <1>4 DEF JobTrue, ImportTrue, LoadTrue, ChapterTrue, RenderTrue, AheadTrue, Source, Of
<1>5. QED
  BY <1>1, <1>2, <1>3, <1>4

\* A job as it starts.
Starts(q, kind, at, b, i) ==
    /\ IsJob(q) /\ q.kind = kind /\ q.at = at /\ q.current /\ q.book = b /\ q.ix = i
    /\ q.theme \in Theme /\ q.data = Absent /\ q.cover \in Book \cup {Absent}

LEMMA JobStarts ==
    ASSUME theme \in Theme, NEW kind, NEW at, NEW b
    PROVE  Starts(Job(kind, at, b), kind, at, b, 1)
<1>1. PICK q : q = Job(kind, at, b)
  OBVIOUS
<1>2. q = [kind |-> kind, at |-> at, current |-> TRUE, book |-> b, from |-> 1, ix |-> 1,
           theme |-> theme, data |-> Absent, cover |-> Absent]
  BY <1>1 DEF Job, Free
<1>3. Starts(q, kind, at, b, 1)
  BY <1>2 DEF Starts, IsJob
<1>4. QED
  BY <1>1, <1>3

\* Only a load knows a file already.
LEMMA StartsOK ==
    ASSUME NEW q, NEW b, NEW i \in Chapter,
           \/ b \in Book /\ Starts(q, "import", "open", b, i)
           \/ /\ b \in Identifier
              /\ \/ Starts(q, "load", "open", b, i) \/ Starts(q, "chapter", "read", b, i)
                 \/ Starts(q, "preload", "ask", b, i) \/ Starts(q, "pagination", "ask", b, i)
    PROVE  /\ JobOK(q) /\ q.current /\ q.book = b
           /\ (q.kind = "load" /\ q.cover # Absent => Filed(q.cover, b)) =>
                 \A o, skew : JobTrue(q, o, skew)
<1>1. JobOK(q)
  BY DEF Starts, JobOK, Carries, Places, Requests, Ahead
<1>2. (q.kind = "load" /\ q.cover # Absent => Filed(q.cover, b)) => \A o, skew : JobTrue(q, o, skew)
  BY DEF Starts, JobTrue, ImportTrue, LoadTrue, ChapterTrue, RenderTrue, AheadTrue, Ahead
<1>3. QED
  BY <1>1, <1>2 DEF Starts

-----------------------------------------------------------------------------
(* The table of jobs.                                                      *)

Jobs(jobs) == DOMAIN jobs = Slot /\ \A s \in Slot : JobOK(jobs[s])

\* Every job is as it was, or not wanted any more and of one of these kinds.
Kept(jobs, next, kinds) ==
    \A s \in Slot :
        \/ next[s] = jobs[s] /\ jobs[s].kind \notin kinds
        \/ jobs[s].kind \in kinds /\ next[s] = [jobs[s] EXCEPT !.current = FALSE]

LEMMA RenewKept ==
    ASSUME NEW kinds, NEW jobs, "free" \notin kinds, Jobs(jobs)
    PROVE  /\ Jobs(Renew(kinds, jobs)) /\ Kept(jobs, Renew(kinds, jobs), kinds)
           /\ FreeSlots(Renew(kinds, jobs)) = FreeSlots(jobs)
<1> DEFINE next == Renew(kinds, jobs)
<1>1. /\ DOMAIN next = Slot
      /\ \A s \in Slot : next[s] = IF jobs[s].kind \in kinds THEN [jobs[s] EXCEPT !.current = FALSE]
                                   ELSE jobs[s]
  BY DEF Renew
<1> HIDE DEF next
<1>2. Kept(jobs, next, kinds)
  BY <1>1 DEF Kept
<1>3. ASSUME NEW s \in Slot PROVE JobOK(next[s]) /\ (next[s] = Free <=> jobs[s] = Free)
  <2>1. CASE jobs[s].kind \in kinds
    <3>1. next[s] = [jobs[s] EXCEPT !.current = FALSE] /\ jobs[s].kind # "free" /\ JobOK(jobs[s])
      BY <1>1, <2>1 DEF Jobs
    <3>2. JobOK(next[s]) /\ next[s].kind # "free"
      BY <3>1, Dropped
    <3>3. QED
      BY <3>1, <3>2 DEF Free
  <2>2. CASE jobs[s].kind \notin kinds
    BY <1>1, <2>2 DEF Jobs
  <2>3. QED
    BY <2>1, <2>2
<1>4. QED
  BY <1>1, <1>2, <1>3 DEF Jobs, FreeSlots, next

LEMMA FreeSlotIsFree ==
    ASSUME NEW jobs, FreeSlots(jobs) # {}
    PROVE  FreeSlot(jobs) \in Slot /\ jobs[FreeSlot(jobs)] = Free
  BY DEF FreeSlots, FreeSlot

\* What preloading does to the jobs: older preloads are not wanted, and there may be
\* a new one where nothing ran.
Preloaded(jobs, next, b) ==
    /\ Jobs(next)
    /\ \A s \in Slot :
        \/ next[s] = jobs[s]
        \/ jobs[s].kind = "preload" /\ next[s] = [jobs[s] EXCEPT !.current = FALSE]
        \/ jobs[s] = Free /\ \E i \in Chapter : Starts(next[s], "preload", "ask", b, i)

LEMMA PreloadFacts ==
    ASSUME NEW jobs, Jobs(jobs), NEW v, v.book \in Identifier, v.at \in Chapter, NEW cached,
           theme \in Theme, theme' \in Theme, NEW next \in Preload(jobs, v, cached)
    PROVE  Preloaded(jobs, next, v.book)
<1>1. PICK ixs \in Candidates(v.at) : next \in PreloadOf(ixs, jobs, v, cached)
  BY DEF Preload
<1>2. ixs \subseteq Chapter
  BY <1>1 DEF Candidates
<1>3. PICK renewed : renewed = IF ixs = {} THEN jobs ELSE Renew({"preload"}, jobs)
  OBVIOUS
<1>4. /\ Jobs(renewed)
      /\ \A s \in Slot : \/ renewed[s] = jobs[s]
                         \/ jobs[s].kind = "preload" /\ renewed[s] = [jobs[s] EXCEPT !.current = FALSE]
      /\ FreeSlots(renewed) = FreeSlots(jobs)
  BY <1>3, RenewKept DEF Kept
<1>5. CASE next = renewed
  BY <1>4, <1>5 DEF Preloaded
<1>6. CASE next # renewed
  <2>1. FreeSlots(renewed) # {}
    BY <1>1, <1>3, <1>6 DEF PreloadOf
  <2>2. PICK i \in ixs : next = [renewed EXCEPT ![FreeSlot(renewed)] =
                 [Job("preload", "ask", v.book) EXCEPT !.from = v.at, !.ix = i, !.theme = theme']]
    BY <1>1, <1>3, <1>6 DEF PreloadOf
  <2>3. PICK u \in Slot : u = FreeSlot(renewed) /\ renewed[u] = Free /\ jobs[u] = Free
    <3>1. FreeSlot(renewed) \in Slot /\ renewed[FreeSlot(renewed)] = Free
      BY <2>1, FreeSlotIsFree
    <3>2. FreeSlot(renewed) \in FreeSlots(jobs)
      BY <1>4, <3>1 DEF FreeSlots
    <3>3. QED
      BY <3>1, <3>2 DEF FreeSlots
  <2>4. PICK q : q = [Job("preload", "ask", v.book) EXCEPT !.from = v.at, !.ix = i, !.theme = theme']
    OBVIOUS
  <2>5. Starts(q, "preload", "ask", v.book, i)
    BY <2>4 DEF Starts, IsJob, Job, Free
  <2>6. next = [renewed EXCEPT ![u] = q]
    BY <2>2, <2>3, <2>4
  <2>7. next[u] = q /\ DOMAIN next = Slot /\ \A s \in Slot : s # u => next[s] = renewed[s]
    BY <1>4, <2>6 DEF Jobs
  <2>8. JobOK(q)
    BY <1>2, <2>5, StartsOK
  <2>9. Jobs(next)
    BY <1>4, <2>7, <2>8 DEF Jobs
  <2>10. QED
    BY <1>2, <1>4, <2>3, <2>5, <2>7, <2>9 DEF Preloaded
<1>7. QED
  BY <1>5, <1>6

-----------------------------------------------------------------------------
(* Who has the open book.                                                  *)

LEMMA AtMostOne ==
    ASSUME NEW S, IsFiniteSet(S), Cardinality(S) <= 1, NEW x \in S, NEW y \in S
    PROVE  x = y
<1> SUFFICES ASSUME x # y PROVE FALSE
  OBVIOUS
<1>1. IsFiniteSet(S \ {x}) /\ Cardinality(S \ {x}) = Cardinality(S) - 1
  BY FS_RemoveElement
<1>2. Cardinality(S \ {x}) \in Nat /\ Cardinality(S) \in Nat
  BY <1>1, FS_CardinalityType
<1>3. Cardinality(S \ {x}) = 0
  BY <1>1, <1>2
<1>4. S \ {x} = {}
  BY <1>1, <1>3, FS_EmptySet
<1>5. QED
  BY <1>4

\* One import, or one reader, or what is left of one.
LEMMA Sole ==
    ASSUME NEW jobs, NEW v, NEW gone, ~Crowded(jobs, v, gone)
    PROVE  /\ v.book # Absent \/ Left(jobs, gone) => Imports(jobs) = {}
           /\ ~(v.book # Absent /\ Left(jobs, gone))
           /\ \A s, u \in Imports(jobs) : s = u
<1>1. IsFiniteSet(Imports(jobs))
  BY BookReaderAssumption, FS_Subset DEF Imports
<1>2. Cardinality(Imports(jobs)) \in Nat /\ (Cardinality(Imports(jobs)) = 0 <=> Imports(jobs) = {})
  BY <1>1, FS_CardinalityType, FS_EmptySet
<1>3. Cardinality(Imports(jobs)) <= 1
  BY <1>2 DEF Crowded
<1>4. QED
  BY <1>1, <1>2, <1>3, AtMostOne DEF Crowded

-----------------------------------------------------------------------------
(* The step of one job that leaves all else alone.                         *)

Marks == mixed' = (mixed \/ Crowded(job', view', leaving'))

\* It goes on, or ends, without being missed.
GoesOn(j, q) ==
    \/ q = Free /\ ~(j.current /\ j.kind \in Changing)
    \/ /\ q.kind = j.kind /\ q.current = j.current /\ q.book = j.book
       /\ q.kind = "chapter" => q.ix = j.ix
       /\ q.kind = "render" => Source(q) = Source(j)

LEMMA OneJob ==
    ASSUME Typed, NEW s \in Slot, NEW q, job' = [job EXCEPT ![s] = q]
    PROVE  DOMAIN job' = Slot /\ job'[s] = q /\ \A u \in Slot : u # s => job'[u] = job[u]
  BY DEF Typed

LEMMA OneJobOrder ==
    ASSUME Typed, Order, NEW s \in Slot, NEW q, job' = [job EXCEPT ![s] = q], view' = view,
           GoesOn(job[s], q)
    PROVE  Order' /\ \A o : Right(job, view, o) => Right(job', view', o)
<1>1. job'[s] = q /\ \A u \in Slot : u # s => job'[u] = job[u]
  BY OneJob
<1>2. \A u \in Slot : Belongs(job'[u], view')
  <2>1. Belongs(q, view)
    <3>1. CASE q = Free
      BY <3>1, FreeOK
    <3>2. CASE q # Free
      BY <3>2 DEF GoesOn, Order, Belongs, Requests, Ahead
    <3>3. QED
      BY <3>1, <3>2
  <2>2. QED
    BY <1>1, <2>1 DEF Order
<1>3. /\ ~Free.current /\ \A u \in Slot : job'[u].current => job[u].current /\ job'[u].kind = job[u].kind
      /\ \A u \in Slot : job[u].current /\ job[u].kind \in Changing =>
            job'[u].current /\ job'[u].kind = job[u].kind /\ (job[u].kind = "render" => Source(job'[u]) = Source(job[u]))
  BY <1>1 DEF GoesOn, Free
<1>4. Single(job')
  BY <1>3 DEF Order, Single
<1>5. Caused(job', view')
  BY <1>3 DEF Order, Caused
<1>6. \A o : Right(job, view, o) => Right(job', view', o)
  BY <1>3 DEF Right, Changing
<1>7. QED
  BY <1>2, <1>4, <1>5, <1>6 DEF Order

LEMMA QuietJob ==
    ASSUME RInv, Marks, NEW s \in Slot, NEW q, job' = [job EXCEPT ![s] = q],
           UNCHANGED <<opened, file, library, view, leaving, cache, theme, late, replaced, skewed>>,
           GoesOn(job[s], q), JobOK(q), ~mixed => JobTrue(q, opened, skewed),
           q.kind = "import" => q.at # "stored"
    PROVE  RInv'
<1>1. job'[s] = q /\ DOMAIN job' = Slot /\ \A u \in Slot : u # s => job'[u] = job[u]
  BY OneJob DEF RInv
<1>2. Typed'
  BY <1>1 DEF RInv, Typed
<1>3. Order' /\ \A o : Right(job, view, o) => Right(job', view', o)
  BY OneJobOrder DEF RInv
<1>4. ASSUME ~mixed' PROVE /\ ~Crowded(job', view', leaving')
                           /\ \A u \in Slot : JobTrue(job'[u], opened', skewed')
                           /\ ViewTrue(view', opened') /\ Right(job', view', opened') /\ Shelf' /\ CacheTrue'
  <2>1. ~mixed /\ ~Crowded(job', view', leaving') /\ Shelf /\ CacheTrue /\ ViewTrue(view, opened)
        /\ Right(job, view, opened) /\ \A u \in Slot : JobTrue(job[u], opened, skewed)
    BY <1>4 DEF Marks, RInv, Truth
  <2>2. Shelf'
    BY <1>1, <2>1 DEF Shelf, Is
  <2>3. CacheTrue'
    BY <2>1 DEF CacheTrue
  <2>4. QED
    BY <1>1, <1>3, <2>1, <2>2, <2>3
<1>5. QED
  BY <1>2, <1>3, <1>4 DEF RInv, Truth

-----------------------------------------------------------------------------
(* Steps of one job.                                                       *)

Same(q, j) ==
    /\ IsJob(q) /\ q.kind = j.kind /\ q.current = j.current /\ q.book = j.book /\ q.theme = j.theme

\* A job gets another place, and perhaps another index, data or cover.
LEMMA Updates ==
    ASSUME NEW j, IsJob(j), NEW at, NEW ix, NEW data, NEW cover, NEW q,
           q = [kind |-> j.kind, at |-> at, current |-> j.current, book |-> j.book,
                from |-> j.from, ix |-> ix, theme |-> j.theme, data |-> data, cover |-> cover]
    PROVE  Same(q, j) /\ q.at = at /\ q.ix = ix /\ q.data = data /\ q.cover = cover
  BY DEF Same, IsJob

LEMMA GotoUpdates ==
    ASSUME Typed, NEW s \in Slot, NEW pc, Goto(s, pc)
    PROVE  \E q : /\ job' = [job EXCEPT ![s] = q] /\ Same(q, job[s]) /\ q.at = pc /\ q.ix = job[s].ix
                  /\ q.data = job[s].data /\ q.cover = job[s].cover
<1>1. PICK j : j = job[s] /\ IsJob(j)
  BY DEF Typed, JobOK
<1>2. PICK q : q = [j EXCEPT !.at = pc]
  OBVIOUS
<1>3. q = [kind |-> j.kind, at |-> pc, current |-> j.current, book |-> j.book,
           from |-> j.from, ix |-> j.ix, theme |-> j.theme, data |-> j.data, cover |-> j.cover]
  BY <1>1, <1>2 DEF IsJob
<1>4. Same(q, j) /\ q.at = pc /\ q.ix = j.ix /\ q.data = j.data /\ q.cover = j.cover
  BY <1>1, <1>3, Updates
<1>5. job' = [job EXCEPT ![s] = q]
  BY <1>1, <1>2 DEF Goto
<1>6. QED
  BY <1>1, <1>4, <1>5

LEMMA SameGoesOn ==
    ASSUME NEW j, NEW q, Same(q, j), q.kind = "chapter" => q.ix = j.ix,
           q.kind = "render" => Source(q) = Source(j)
    PROVE  GoesOn(j, q)
  BY DEF Same, GoesOn

LEMMA ImportMetadataStep ==
    ASSUME RInv, Marks, NEW s \in Slot, ImportMetadata(s)
    PROVE  RInv'
<1>1. PICK j : j = job[s] /\ JobOK(j) /\ IsJob(j)
  BY DEF RInv, Typed, JobOK
<1>2. j.kind = "import" /\ j.at = "metadata"
  BY <1>1 DEF ImportMetadata, Is
<1>3. PICK q : /\ job' = [job EXCEPT ![s] = q]
               /\ q = [kind |-> j.kind, at |-> IF opened = Absent THEN "close" ELSE "cover",
                       current |-> j.current, book |-> j.book, from |-> j.from, ix |-> j.ix,
                       theme |-> j.theme, data |-> opened, cover |-> j.cover]
  <2>1. PICK q : q = [[j EXCEPT !.data = opened] EXCEPT !.at = IF opened = Absent THEN "close" ELSE "cover"]
    OBVIOUS
  <2>2. q = [kind |-> j.kind, at |-> IF opened = Absent THEN "close" ELSE "cover",
                  current |-> j.current, book |-> j.book, from |-> j.from, ix |-> j.ix,
                  theme |-> j.theme, data |-> opened, cover |-> j.cover]
    BY <1>1, <2>1 DEF IsJob
  <2>3. job' = [job EXCEPT ![s] = q]
    BY <1>1, <2>1 DEF ImportMetadata
  <2>4. QED
    BY <2>2, <2>3
<1>5. /\ Same(q, j) /\ q.at = IF opened = Absent THEN "close" ELSE "cover"
      /\ q.ix = j.ix /\ q.data = opened /\ q.cover = j.cover
  BY <1>1, <1>3, Updates
<1>6. GoesOn(j, q)
  BY <1>2, <1>5, SameGoesOn DEF Same
<1>7. JobOK(q)
  BY <1>1, <1>2, <1>5 DEF Same, JobOK, Carries, Places, RInv, Typed, Ahead
<1>8. ASSUME ~mixed PROVE JobTrue(q, opened, skewed)
  <2>1. opened = j.book /\ j.book \in Book
    BY <1>1, <1>2, <1>8 DEF RInv, Truth, JobTrue, ImportTrue, JobOK
  <2>2. q.at = "cover"
    BY <1>5, <2>1, BookReaderAssumption
  <2>3. QED
    BY <1>2, <1>5, <2>1, <2>2 DEF Same, JobTrue, ImportTrue, LoadTrue, ChapterTrue, RenderTrue, AheadTrue, Ahead
<1>9. QED
  BY <1>1, <1>3, <1>5, <1>6, <1>7, <1>8, QuietJob DEF ImportMetadata

LEMMA ImportCoverStep ==
    ASSUME RInv, Marks, NEW s \in Slot, ImportCover(s)
    PROVE  RInv'
<1>1. PICK j : j = job[s] /\ JobOK(j) /\ IsJob(j)
  BY DEF RInv, Typed, JobOK
<1>2. j.kind = "import" /\ j.at = "cover"
  BY <1>1 DEF ImportCover, Is
<1>3. PICK q : /\ job' = [job EXCEPT ![s] = q]
               /\ q = [kind |-> j.kind, at |-> "close", current |-> j.current, book |-> j.book,
                       from |-> j.from, ix |-> j.ix, theme |-> j.theme, data |-> j.data, cover |-> opened]
  <2>1. PICK q : q = [[j EXCEPT !.cover = opened] EXCEPT !.at = "close"]
    OBVIOUS
  <2>2. q = [kind |-> j.kind, at |-> "close", current |-> j.current, book |-> j.book,
                  from |-> j.from, ix |-> j.ix, theme |-> j.theme, data |-> j.data, cover |-> opened]
    BY <1>1, <2>1 DEF IsJob
  <2>3. job' = [job EXCEPT ![s] = q]
    BY <1>1, <2>1 DEF ImportCover
  <2>4. QED
    BY <2>2, <2>3
<1>5. Same(q, j) /\ q.at = "close" /\ q.ix = j.ix /\ q.data = j.data /\ q.cover = opened
  BY <1>1, <1>3, Updates
<1>6. GoesOn(j, q)
  BY <1>2, <1>5, SameGoesOn DEF Same
<1>7. JobOK(q)
  BY <1>1, <1>2, <1>5 DEF Same, JobOK, Carries, Places, RInv, Typed, Ahead
<1>8. ASSUME ~mixed PROVE JobTrue(q, opened, skewed)
  <2>1. opened = j.book /\ j.data = j.book
    BY <1>1, <1>2, <1>8 DEF RInv, Truth, JobTrue, ImportTrue
  <2>2. QED
    BY <1>2, <1>5, <2>1 DEF Same, JobTrue, ImportTrue, LoadTrue, ChapterTrue, RenderTrue, AheadTrue, Ahead
<1>9. QED
  BY <1>1, <1>3, <1>5, <1>6, <1>7, <1>8, QuietJob DEF ImportCover

LEMMA LoadMetadataStep ==
    ASSUME RInv, Marks, NEW s \in Slot, LoadMetadata(s)
    PROVE  RInv'
<1>1. PICK j : j = job[s] /\ JobOK(j) /\ IsJob(j)
  BY DEF RInv, Typed, JobOK
<1>2. j.kind = "load" /\ j.at = "metadata"
  BY <1>1 DEF LoadMetadata, Is
<1>3. PICK pc : pc = IF opened = Absent THEN "failed" ELSE "spine"
  OBVIOUS
<1>4. PICK q : /\ job' = [job EXCEPT ![s] = q] /\ Same(q, j) /\ q.at = pc /\ q.ix = j.ix
               /\ q.data = j.data /\ q.cover = j.cover
  BY <1>1, <1>3, GotoUpdates DEF LoadMetadata, RInv
<1>5. GoesOn(j, q)
  BY <1>2, <1>4, SameGoesOn DEF Same
<1>6. JobOK(q)
  BY <1>1, <1>2, <1>3, <1>4 DEF Same, JobOK, Carries, Places, Ahead
<1>7. ASSUME ~mixed PROVE JobTrue(q, opened, skewed)
  <2>1. JobTrue(j, opened, skewed)
    BY <1>1, <1>7 DEF RInv, Truth
  <2>2. QED
    BY <1>2, <1>3, <1>4, <2>1 DEF Same, JobTrue, ImportTrue, LoadTrue, ChapterTrue, RenderTrue, AheadTrue, Ahead
<1>8. QED
  BY <1>1, <1>2, <1>4, <1>5, <1>6, <1>7, QuietJob DEF LoadMetadata, Same

LEMMA LoadSpineStep ==
    ASSUME RInv, Marks, NEW s \in Slot, LoadSpine(s)
    PROVE  RInv'
<1>1. PICK j : j = job[s] /\ JobOK(j) /\ IsJob(j)
  BY DEF RInv, Typed, JobOK
<1>2. j.kind = "load" /\ j.at = "spine"
  BY <1>1 DEF LoadSpine, Is
<1>3. PICK q : /\ job' = [job EXCEPT ![s] = q]
               /\ q = [kind |-> j.kind, at |-> IF opened = Absent THEN "done" ELSE "chapter",
                       current |-> j.current, book |-> j.book, from |-> j.from, ix |-> j.ix,
                       theme |-> j.theme, data |-> j.data, cover |-> opened]
  <2>1. PICK q : q = [[j EXCEPT !.cover = opened] EXCEPT !.at = IF opened = Absent THEN "done" ELSE "chapter"]
    OBVIOUS
  <2>2. q = [kind |-> j.kind, at |-> IF opened = Absent THEN "done" ELSE "chapter",
                  current |-> j.current, book |-> j.book, from |-> j.from, ix |-> j.ix,
                  theme |-> j.theme, data |-> j.data, cover |-> opened]
    BY <1>1, <2>1 DEF IsJob
  <2>3. job' = [job EXCEPT ![s] = q]
    BY <1>1, <2>1 DEF LoadSpine
  <2>4. QED
    BY <2>2, <2>3
<1>5. /\ Same(q, j) /\ q.at = IF opened = Absent THEN "done" ELSE "chapter"
      /\ q.ix = j.ix /\ q.data = j.data /\ q.cover = opened
  BY <1>1, <1>3, Updates
<1>6. GoesOn(j, q)
  BY <1>2, <1>5, SameGoesOn DEF Same
<1>7. JobOK(q)
  BY <1>1, <1>2, <1>5 DEF Same, JobOK, Carries, Places, RInv, Typed, Ahead
<1>8. ASSUME ~mixed PROVE JobTrue(q, opened, skewed)
  <2>1. j.current => Open(opened, j.book) /\ opened \in Book
    BY <1>1, <1>2, <1>8 DEF RInv, Truth, JobTrue, LoadTrue, Open
  <2>2. j.current => q.at = "chapter"
    BY <1>5, <2>1, BookReaderAssumption
  <2>3. QED
    BY <1>2, <1>5, <2>1, <2>2 DEF Same, JobTrue, ImportTrue, LoadTrue, ChapterTrue, RenderTrue, AheadTrue, Ahead
<1>9. QED
  BY <1>1, <1>2, <1>3, <1>5, <1>6, <1>7, <1>8, QuietJob DEF LoadSpine, Same

LEMMA ContentFacts ==
    ASSUME Typed, NEW i \in Chapter, NEW text \in Content(i)
    PROVE  text \in Text \cup {Absent} /\ (text # Absent => text = <<opened, i>> /\ opened \in Book)
  BY DEF Typed, Content, Text

\* A current job of the reader has its book open.
LEMMA HasItsBook ==
    ASSUME RInv, ~mixed, NEW s \in Slot, job[s].current,
           job[s].kind \in {"chapter", "render"} \cup Ahead
    PROVE  Open(opened, job[s].book)
  BY DEF RInv, Order, Belongs, Truth, ViewTrue, Requests, Ahead

LEMMA LoadChapterStep ==
    ASSUME RInv, Marks, NEW s \in Slot, LoadChapter(s)
    PROVE  RInv'
<1>1. PICK j : j = job[s] /\ JobOK(j) /\ IsJob(j)
  BY DEF RInv, Typed, JobOK
<1>2. j.kind = "load" /\ j.at = "chapter"
  BY <1>1 DEF LoadChapter, Is
<1>3. PICK i \in Chapter : \E text \in Content(i) :
          job' = [job EXCEPT ![s].ix = i, ![s].data = text, ![s].at = "done"]
  BY DEF LoadChapter
<1>13. PICK text \in Content(i) :
          job' = [job EXCEPT ![s].ix = i, ![s].data = text, ![s].at = "done"]
  BY <1>3
<1>4. PICK q : q = [[[j EXCEPT !.ix = i] EXCEPT !.data = text] EXCEPT !.at = "done"]
  OBVIOUS
<1>5. q = [kind |-> j.kind, at |-> "done", current |-> j.current, book |-> j.book,
           from |-> j.from, ix |-> i, theme |-> j.theme, data |-> text, cover |-> j.cover]
  BY <1>1, <1>4 DEF IsJob
<1>6. Same(q, j) /\ q.at = "done" /\ q.ix = i /\ q.data = text /\ q.cover = j.cover
  BY <1>1, <1>5, Updates
<1>7. job' = [job EXCEPT ![s] = q]
  BY <1>1, <1>13, <1>4
<1>8. text \in Text \cup {Absent} /\ (text # Absent => text = <<opened, i>>)
  BY ContentFacts DEF RInv
<1>9. GoesOn(j, q)
  BY <1>2, <1>6, SameGoesOn DEF Same
<1>10. JobOK(q)
  BY <1>1, <1>2, <1>6, <1>8 DEF Same, JobOK, Carries, Places, Ahead
<1>11. ASSUME ~mixed PROVE JobTrue(q, opened, skewed)
  <2>1. j.current => Open(opened, j.book) /\ j.cover = opened
    BY <1>1, <1>2, <1>11 DEF RInv, Truth, JobTrue, LoadTrue
  <2>2. QED
    BY <1>2, <1>6, <1>8, <2>1
       DEF Same, JobTrue, ImportTrue, LoadTrue, ChapterTrue, RenderTrue, AheadTrue, Ahead
<1>12. QED
  BY <1>1, <1>2, <1>6, <1>7, <1>9, <1>10, <1>11, QuietJob DEF LoadChapter, Same

LEMMA ChapterReadStep ==
    ASSUME RInv, Marks, NEW s \in Slot, ChapterRead(s)
    PROVE  RInv'
<1>1. PICK j : j = job[s] /\ JobOK(j) /\ IsJob(j)
  BY DEF RInv, Typed, JobOK
<1>2. j.kind = "chapter" /\ j.at = "read"
  BY <1>1 DEF ChapterRead, Is
<1>3. PICK text \in Content(j.ix) : job' = [job EXCEPT ![s].data = text, ![s].at = "done"]
  BY <1>1 DEF ChapterRead
<1>4. PICK q : q = [[j EXCEPT !.data = text] EXCEPT !.at = "done"]
  OBVIOUS
<1>5. Same(q, j) /\ q.at = "done" /\ q.ix = j.ix /\ q.data = text /\ q.cover = j.cover
  <2>1. q = [kind |-> j.kind, at |-> "done", current |-> j.current, book |-> j.book,
             from |-> j.from, ix |-> j.ix, theme |-> j.theme, data |-> text, cover |-> j.cover]
    BY <1>1, <1>4 DEF IsJob
  <2>2. QED
    BY <1>1, <2>1, Updates
<1>6. job' = [job EXCEPT ![s] = q]
  BY <1>1, <1>3, <1>4
<1>7. text \in Text \cup {Absent} /\ (text # Absent => text = <<opened, j.ix>>)
  BY <1>1, ContentFacts DEF RInv, JobOK
<1>8. GoesOn(j, q)
  BY <1>2, <1>5, SameGoesOn DEF Same
<1>9. JobOK(q)
  BY <1>1, <1>2, <1>5, <1>7 DEF Same, JobOK, Carries, Places, Ahead
<1>10. ASSUME ~mixed PROVE JobTrue(q, opened, skewed)
  <2>1. QED
    BY <1>2, <1>5, <1>7
       DEF Same, JobTrue, ImportTrue, LoadTrue, ChapterTrue, RenderTrue, AheadTrue, Ahead
<1>11. QED
  BY <1>1, <1>2, <1>5, <1>6, <1>8, <1>9, <1>10, QuietJob DEF ChapterRead, Same

LEMMA RenderedFacts ==
    ASSUME Typed, NEW text \in Text
    PROVE  Rendered(text) \in Shown /\ Rendered(text).text = text /\ Rendered(text).pictures = opened
           /\ (opened = text[1] => Rendered(text) = True(text))
  BY DEF Rendered, Shown, True, Typed

LEMMA RenderStep ==
    ASSUME RInv, Marks, NEW s \in Slot, Render(s)
    PROVE  RInv'
<1>1. PICK j : j = job[s] /\ JobOK(j) /\ IsJob(j)
  BY DEF RInv, Typed, JobOK
<1>2. j.kind = "render" /\ j.at = "render" /\ j.data \in Text
  BY <1>1 DEF Render, Is, JobOK, Carries
<1>3. PICK d : d = Rendered(j.data)
  OBVIOUS
<1>4. PICK q : q = [[j EXCEPT !.data = d] EXCEPT !.at = "done"]
  OBVIOUS
<1>5. Same(q, j) /\ q.at = "done" /\ q.ix = j.ix /\ q.data = d /\ q.cover = j.cover
  <2>1. q = [kind |-> j.kind, at |-> "done", current |-> j.current, book |-> j.book,
             from |-> j.from, ix |-> j.ix, theme |-> j.theme, data |-> d, cover |-> j.cover]
    BY <1>1, <1>4 DEF IsJob
  <2>2. QED
    BY <1>1, <2>1, Updates
<1>6. job' = [job EXCEPT ![s] = q]
  BY <1>1, <1>3, <1>4 DEF Render
<1>7. d \in Shown /\ d.text = j.data /\ (opened = j.data[1] => d = True(j.data))
  BY <1>2, <1>3, RenderedFacts DEF RInv
<1>8. Source(q) = j.data /\ Source(j) = j.data
  BY <1>2, <1>5, <1>7 DEF Source
<1>9. GoesOn(j, q)
  BY <1>2, <1>5, <1>8, SameGoesOn DEF Same
<1>10. JobOK(q)
  BY <1>1, <1>2, <1>5, <1>7 DEF Same, JobOK, Carries, Places, Ahead
<1>11. ASSUME ~mixed PROVE JobTrue(q, opened, skewed)
  <2>1. j.current => j.data[1] = opened /\ (~skewed => j.data = <<opened, j.ix>>)
    BY <1>1, <1>2, <1>8, <1>11 DEF RInv, Truth, JobTrue, RenderTrue
  <2>2. QED
    BY <1>2, <1>5, <1>7, <1>8, <2>1
       DEF Same, JobTrue, ImportTrue, LoadTrue, ChapterTrue, RenderTrue, AheadTrue, Ahead
<1>12. QED
  BY <1>1, <1>2, <1>5, <1>6, <1>9, <1>10, <1>11, QuietJob DEF Render, Same

\* A job ends and nobody misses it.
LEMMA EndsQuietly ==
    ASSUME RInv, Marks, NEW s \in Slot, End(s),
           UNCHANGED <<opened, file, library, view, leaving, cache, theme, late, replaced, skewed>>,
           ~(job[s].current /\ job[s].kind \in Changing)
    PROVE  RInv'
<1>1. job' = [job EXCEPT ![s] = Free] /\ GoesOn(job[s], Free) /\ Free.kind # "import"
  BY DEF End, GoesOn, Free
<1>2. QED
  BY <1>1, FreeOK, QuietJob

LEMMA AskStep ==
    ASSUME RInv, Marks, NEW s \in Slot, Ask(s)
    PROVE  RInv'
<1>1. PICK j : j = job[s] /\ JobOK(j) /\ IsJob(j)
  BY DEF RInv, Typed, JobOK
<1>2. j.kind \in Ahead /\ j.at \in {"ask", "again", "last"} /\ j.kind \notin Changing
  BY <1>1 DEF Ask, Ahead, Changing, Then
<1>3. CASE End(s)
  BY <1>1, <1>2, <1>3, EndsQuietly DEF Ask
<1>4. CASE ~End(s)
  <2>1. PICK pc : pc = Then[j.at]
    OBVIOUS
  <2>2. /\ j.current /\ Goto(s, pc)
        /\ pc = CASE j.at = "ask" -> "read" [] j.at = "again" -> "render" [] OTHER -> "set"
    BY <1>1, <1>2, <1>4, <2>1 DEF Ask, Wanted, Then
  <2>3. PICK q : /\ job' = [job EXCEPT ![s] = q] /\ Same(q, j) /\ q.at = pc /\ q.ix = j.ix
                 /\ q.data = j.data /\ q.cover = j.cover
    BY <1>1, <2>2, GotoUpdates DEF RInv
  <2>4. GoesOn(j, q)
    BY <1>2, <2>3, SameGoesOn DEF Same, Ahead
  <2>5. JobOK(q)
    BY <1>1, <1>2, <2>2, <2>3 DEF Same, JobOK, Carries, Places, Ahead
  <2>6. ASSUME ~mixed PROVE JobTrue(q, opened, skewed)
    <3>1. AheadTrue(j, opened) /\ Filed(opened, j.book)
      BY <1>1, <1>2, <2>2, <2>6, HasItsBook DEF RInv, Truth, JobTrue, Open
    <3>2. AheadTrue(q, opened)
      BY <1>2, <2>2, <2>3, <3>1 DEF Same, AheadTrue, Of
    <3>3. QED
      BY <1>2, <2>3, <3>2 DEF Same, JobTrue, ImportTrue, LoadTrue, ChapterTrue, RenderTrue, Ahead
  <2>7. QED
    BY <1>1, <1>2, <2>3, <2>4, <2>5, <2>6, QuietJob DEF Ask, Same, Ahead
<1>5. QED
  BY <1>3, <1>4

LEMMA ReadAheadStep ==
    ASSUME RInv, Marks, NEW s \in Slot, ReadAhead(s)
    PROVE  RInv'
<1>1. PICK j : j = job[s] /\ JobOK(j) /\ IsJob(j)
  BY DEF RInv, Typed, JobOK
<1>2. j.kind \in Ahead /\ j.at = "read" /\ j.kind \notin Changing
  BY <1>1 DEF ReadAhead, Ahead, Changing
<1>3. PICK text \in Content(j.ix) :
          job' = [job EXCEPT ![s] = IF text = Absent THEN Free ELSE [@ EXCEPT !.data = text, !.at = "again"]]
  BY <1>1 DEF ReadAhead
<1>4. text \in Text \cup {Absent} /\ (text # Absent => text = <<opened, j.ix>>)
  BY <1>1, ContentFacts DEF RInv, JobOK
<1>5. CASE text = Absent
  BY <1>1, <1>2, <1>3, <1>5, EndsQuietly DEF ReadAhead, End
<1>6. CASE text # Absent
  <2>1. PICK q : q = [[j EXCEPT !.data = text] EXCEPT !.at = "again"]
    OBVIOUS
  <2>2. Same(q, j) /\ q.at = "again" /\ q.ix = j.ix /\ q.data = text /\ q.cover = j.cover
    <3>1. q = [kind |-> j.kind, at |-> "again", current |-> j.current, book |-> j.book,
               from |-> j.from, ix |-> j.ix, theme |-> j.theme, data |-> text, cover |-> j.cover]
      BY <1>1, <2>1 DEF IsJob
    <3>2. QED
      BY <1>1, <3>1, Updates
  <2>3. job' = [job EXCEPT ![s] = q]
    BY <1>1, <1>3, <1>6, <2>1
  <2>4. GoesOn(j, q)
    BY <1>2, <2>2, SameGoesOn DEF Same, Ahead
  <2>5. JobOK(q)
    BY <1>1, <1>2, <1>4, <1>6, <2>2 DEF Same, JobOK, Carries, Places, Ahead
  <2>6. ASSUME ~mixed PROVE JobTrue(q, opened, skewed)
    <3>1. AheadTrue(q, opened)
      BY <1>2, <1>4, <1>6, <2>2 DEF Same, AheadTrue
    <3>2. QED
      BY <1>2, <2>2, <3>1 DEF Same, JobTrue, ImportTrue, LoadTrue, ChapterTrue, RenderTrue, Ahead
  <2>7. QED
    BY <1>1, <1>2, <2>2, <2>3, <2>4, <2>5, <2>6, QuietJob DEF ReadAhead, Same, Ahead
<1>7. QED
  BY <1>5, <1>6

LEMMA RenderAheadStep ==
    ASSUME RInv, Marks, NEW s \in Slot, RenderAhead(s)
    PROVE  RInv'
<1>1. PICK j : j = job[s] /\ JobOK(j) /\ IsJob(j)
  BY DEF RInv, Typed, JobOK
<1>2. j.kind \in Ahead /\ j.at = "render" /\ j.data \in Text
  BY <1>1 DEF RenderAhead, Ahead, JobOK, Carries
<1>3. PICK d : d = Rendered(j.data)
  OBVIOUS
<1>4. PICK pc : pc = IF j.kind = "preload" THEN "last" ELSE "set"
  OBVIOUS
<1>5. PICK q : q = [[j EXCEPT !.data = d] EXCEPT !.at = pc]
  OBVIOUS
<1>6. Same(q, j) /\ q.at = pc /\ q.ix = j.ix /\ q.data = d /\ q.cover = j.cover
  <2>1. q = [kind |-> j.kind, at |-> pc, current |-> j.current, book |-> j.book,
             from |-> j.from, ix |-> j.ix, theme |-> j.theme, data |-> d, cover |-> j.cover]
    BY <1>1, <1>5 DEF IsJob
  <2>2. QED
    BY <1>1, <2>1, Updates
<1>7. job' = [job EXCEPT ![s] = q]
  BY <1>1, <1>3, <1>4, <1>5 DEF RenderAhead
<1>8. d \in Shown /\ d.text = j.data /\ (opened = j.data[1] => d = True(j.data))
  BY <1>2, <1>3, RenderedFacts DEF RInv
<1>9. GoesOn(j, q)
  BY <1>2, <1>6, SameGoesOn DEF Same, Ahead
<1>10. JobOK(q)
  BY <1>1, <1>2, <1>4, <1>6, <1>8 DEF Same, JobOK, Carries, Places, Ahead
<1>11. ASSUME ~mixed PROVE JobTrue(q, opened, skewed)
  <2>1. AheadTrue(j, opened)
    BY <1>1, <1>11 DEF RInv, Truth, JobTrue
  <2>2. Of(d.text, q) /\ (j.current => d = True(<<opened, j.ix>>))
    BY <1>2, <1>6, <1>8, <2>1 DEF Same, AheadTrue, Of
  <2>3. AheadTrue(q, opened)
    BY <1>2, <1>4, <1>6, <2>2 DEF Same, AheadTrue
  <2>4. QED
    BY <1>2, <1>6, <2>3 DEF Same, JobTrue, ImportTrue, LoadTrue, ChapterTrue, RenderTrue, Ahead
<1>12. QED
  BY <1>1, <1>2, <1>6, <1>7, <1>9, <1>10, <1>11, QuietJob DEF RenderAhead, Same, Ahead

-----------------------------------------------------------------------------
(* Steps that open and close a book.                                       *)

LEMMA OpenJob ==
    ASSUME RInv, Marks, NEW s \in Slot, NEW q, job' = [job EXCEPT ![s] = q],
           UNCHANGED <<file, library, view, leaving, cache, theme, late, replaced, skewed>>,
           opened' \in Book \cup {Absent},
           GoesOn(job[s], q), JobOK(q), q.kind = "import" => q.at # "stored",
           ~mixed => /\ view.spine = Absent /\ (view.book = Absent \/ (q.current /\ q.kind = "load"))
                     /\ JobTrue(q, opened', skewed)
                     /\ \A u \in Slot : u # s => JobTrue(job[u], opened', skewed)
    PROVE  RInv'
<1>1. job'[s] = q /\ DOMAIN job' = Slot /\ \A u \in Slot : u # s => job'[u] = job[u]
  BY OneJob DEF RInv
<1>2. Typed'
  BY <1>1 DEF RInv, Typed
<1>3. Order'
  BY OneJobOrder DEF RInv
<1>4. ASSUME ~mixed' PROVE /\ ~Crowded(job', view', leaving')
                           /\ \A u \in Slot : JobTrue(job'[u], opened', skewed')
                           /\ ViewTrue(view', opened') /\ Right(job', view', opened') /\ Shelf' /\ CacheTrue'
  <2>1. ~mixed /\ ~Crowded(job', view', leaving') /\ Shelf /\ CacheTrue /\ view.spine = Absent
    BY <1>4 DEF Marks, RInv, Truth
  <2>2. Shelf'
    BY <1>1, <2>1 DEF Shelf, Is
  <2>3. CacheTrue'
    BY <2>1 DEF CacheTrue
  <2>4. ViewTrue(view', opened') /\ Right(job', view', opened')
    BY <1>1, <1>4, <2>1 DEF ViewTrue, Right, RInv, Typed, ViewOK
  <2>5. QED
    BY <1>1, <2>1, <2>2, <2>3, <2>4
<1>5. QED
  BY <1>2, <1>3, <1>4 DEF RInv, Truth

\* A job that does not look at the open book.
LEMMA Elsewhere ==
    ASSUME NEW j, NEW o, NEW p, NEW skew, JobTrue(j, o, skew),
           ~(j.kind = "import" /\ j.at \in {"metadata", "cover"}), ~(j.current /\ j.kind \in Requests)
    PROVE  JobTrue(j, p, skew)
  BY DEF JobTrue, ImportTrue, LoadTrue, ChapterTrue, RenderTrue, AheadTrue, Ahead, Requests

\* What an import does to the open book concerns nobody else.
LEMMA ImportAlone ==
    ASSUME RInv, ~mixed, NEW s \in Imports(job), NEW o
    PROVE  /\ view.book = Absent /\ view.spine = Absent
           /\ \A u \in Slot : u # s => JobTrue(job[u], o, skewed)
<1>1. view.book = Absent /\ \A u \in Imports(job) : u = s
  BY Sole DEF RInv, Truth
<1>2. view.spine = Absent
  BY <1>1 DEF RInv, Typed, ViewOK, NoView
<1>3. ASSUME NEW u \in Slot, u # s PROVE JobTrue(job[u], o, skewed)
  <2>1. ~(job[u].kind = "import" /\ job[u].at \in {"metadata", "cover"})
    BY <1>1, <1>3 DEF Imports
  <2>2. ~(job[u].current /\ job[u].kind \in Requests)
    BY <1>1 DEF RInv, Order, Belongs
  <2>3. QED
    BY <2>1, <2>2, Elsewhere DEF RInv, Truth
<1>4. QED
  BY <1>1, <1>2, <1>3

LEMMA ImportOpenStep ==
    ASSUME RInv, Marks, NEW s \in Slot, ImportOpen(s)
    PROVE  RInv'
<1>1. PICK j : j = job[s] /\ JobOK(j) /\ IsJob(j)
  BY DEF RInv, Typed, JobOK
<1>2. j.kind = "import" /\ j.at = "open" /\ j.book \in Book /\ s \in Imports(job)
  BY <1>1 DEF ImportOpen, Is, JobOK, Imports
<1>3. CASE End(s) /\ UNCHANGED opened
  BY <1>1, <1>2, <1>3, EndsQuietly DEF ImportOpen, Changing
<1>4. CASE opened' = j.book /\ Goto(s, "metadata")
  <2>1. PICK q : /\ job' = [job EXCEPT ![s] = q] /\ Same(q, j) /\ q.at = "metadata" /\ q.ix = j.ix
                 /\ q.data = j.data /\ q.cover = j.cover
    BY <1>1, <1>4, GotoUpdates DEF RInv
  <2>2. GoesOn(j, q)
    BY <1>2, <2>1, SameGoesOn DEF Same
  <2>3. JobOK(q)
    BY <1>1, <1>2, <2>1 DEF Same, JobOK, Carries, Places, Ahead
  <2>4. JobTrue(q, opened', skewed)
    BY <1>2, <1>4, <2>1 DEF Same, JobTrue, ImportTrue, LoadTrue, ChapterTrue, RenderTrue, AheadTrue, Ahead
  <2>5. ~mixed => view.book = Absent /\ view.spine = Absent /\ \A u \in Slot : u # s => JobTrue(job[u], opened', skewed)
    BY <1>2, ImportAlone
  <2>6. QED
    BY <1>1, <1>2, <1>4, <2>1, <2>2, <2>3, <2>4, <2>5, OpenJob DEF ImportOpen
<1>5. QED
  BY <1>1, <1>3, <1>4 DEF ImportOpen

LEMMA ImportCloseStep ==
    ASSUME RInv, Marks, NEW s \in Slot, ImportClose(s)
    PROVE  RInv'
<1>1. PICK j : j = job[s] /\ JobOK(j) /\ IsJob(j)
  BY DEF RInv, Typed, JobOK
<1>2. j.kind = "import" /\ j.at = "close" /\ s \in Imports(job) /\ j.data \in Book \cup {Absent}
  BY <1>1 DEF ImportClose, Is, JobOK, Imports, Carries
<1>3. opened' = Absent
  BY DEF ImportClose
<1>4. ~mixed => view.book = Absent /\ view.spine = Absent /\ \A u \in Slot : u # s => JobTrue(job[u], opened', skewed)
  BY <1>2, ImportAlone
<1>5. CASE j.data = Absent
  <2>1. job' = [job EXCEPT ![s] = Free]
    BY <1>1, <1>5 DEF ImportClose, End
  <2>2. GoesOn(j, Free) /\ Free.kind # "import"
    BY <1>2 DEF GoesOn, Changing, Free
  <2>3. QED
    BY <1>1, <1>3, <1>4, <2>1, <2>2, FreeOK, OpenJob DEF ImportClose
<1>6. CASE j.data # Absent
  <2>1. PICK q : /\ job' = [job EXCEPT ![s] = q] /\ Same(q, j) /\ q.at = "store" /\ q.ix = j.ix
                 /\ q.data = j.data /\ q.cover = j.cover
    BY <1>1, <1>6, GotoUpdates DEF RInv, ImportClose
  <2>2. GoesOn(j, q)
    BY <1>2, <2>1, SameGoesOn DEF Same
  <2>3. JobOK(q)
    BY <1>1, <1>2, <1>6, <2>1 DEF Same, JobOK, Carries, Places, Ahead
  <2>4. ASSUME ~mixed PROVE JobTrue(q, opened', skewed)
    <3>1. ImportTrue(j, opened)
      BY <1>1, <2>4 DEF RInv, Truth, JobTrue
    <3>2. QED
      BY <1>2, <2>1, <3>1 DEF Same, JobTrue, ImportTrue, LoadTrue, ChapterTrue, RenderTrue, AheadTrue, Ahead
  <2>5. QED
    BY <1>1, <1>2, <1>3, <1>4, <2>1, <2>2, <2>3, <2>4, OpenJob DEF ImportClose
<1>7. QED
  BY <1>5, <1>6

LEMMA LoadOpenStep ==
    ASSUME RInv, Marks, NEW s \in Slot, LoadOpen(s)
    PROVE  RInv'
<1>1. PICK j : j = job[s] /\ JobOK(j) /\ IsJob(j)
  BY DEF RInv, Typed, JobOK
<1>2. /\ j.kind = "load" /\ j.at = "open" /\ j.book \in Identifier /\ j.cover \in Book \cup {Absent}
      /\ NameOf[j.book] \in Name
  BY <1>1 DEF LoadOpen, Is, JobOK, Requests, Name
<1>3. PICK source : source = IF j.cover # Absent THEN j.cover ELSE file[NameOf[j.book]]
  OBVIOUS
<1>4. PICK pc : Goto(s, pc) /\ pc \in {"metadata", "failed"}
                /\ IF pc = "metadata" THEN source # Absent /\ opened' = source ELSE opened' = opened
  BY <1>1, <1>3 DEF LoadOpen
<1>5. PICK q : /\ job' = [job EXCEPT ![s] = q] /\ Same(q, j) /\ q.at = pc /\ q.ix = j.ix
               /\ q.data = j.data /\ q.cover = j.cover
  BY <1>1, <1>4, GotoUpdates DEF RInv
<1>6. GoesOn(j, q)
  BY <1>2, <1>5, SameGoesOn DEF Same
<1>7. JobOK(q)
  BY <1>1, <1>2, <1>4, <1>5 DEF Same, JobOK, Carries, Places, Ahead, Requests
<1>8. source \in Book \cup {Absent} /\ opened' \in Book \cup {Absent}
  BY <1>2, <1>3, <1>4 DEF RInv, Typed
<1>9. ASSUME ~mixed
      PROVE  /\ view.spine = Absent /\ (view.book = Absent \/ (q.current /\ q.kind = "load"))
             /\ JobTrue(q, opened', skewed)
             /\ \A u \in Slot : u # s => JobTrue(job[u], opened', skewed)
  <2>1. /\ Shelf /\ ~Crowded(job, view, leaving)
        /\ \A u \in Slot : JobTrue(job[u], opened, skewed)
    BY <1>9 DEF RInv, Truth
  <2>2. j.current /\ source # Absent => Open(source, j.book)
    <3>1. LoadTrue(j, opened)
      BY <1>1, <2>1 DEF JobTrue
    <3>2. j.cover = Absent /\ source # Absent => Filed(source, j.book)
      BY <1>2, <1>3, <2>1 DEF Shelf, Filed
    <3>3. QED
      BY <1>2, <1>3, <1>8, <3>1, <3>2 DEF LoadTrue, Open
  <2>3. JobTrue(q, opened', skewed)
    BY <1>2, <1>4, <1>5, <2>2 DEF Same, JobTrue, ImportTrue, LoadTrue, ChapterTrue, RenderTrue, AheadTrue, Ahead
  <2>4. view.book # Absent \/ Left(job, leaving)
    BY <1>1, <1>2 DEF RInv, Order, Belongs, Requests, Left
  <2>5. Imports(job) = {} /\ (j.current => view.book # Absent /\ view.spine = Absent)
        /\ (~j.current => view.book = Absent)
    BY <1>1, <1>2, <2>1, <2>4, Sole DEF RInv, Order, Belongs, Requests, Left
  <2>6. view.spine = Absent
    BY <2>5 DEF RInv, Typed, ViewOK, NoView
  <2>7. ASSUME NEW u \in Slot, u # s PROVE JobTrue(job[u], opened', skewed)
    <3>1. ~(job[u].kind = "import" /\ job[u].at \in {"metadata", "cover"})
      BY <2>5 DEF Imports
    <3>2. ~(job[u].current /\ job[u].kind \in Requests)
      <4>1. CASE j.current
        BY <1>1, <1>2, <2>6, <2>7, <4>1 DEF RInv, Order, Belongs, Single, Changing, Requests, Ahead
      <4>2. CASE ~j.current
        BY <2>5, <4>2 DEF RInv, Order, Belongs
      <4>3. QED
        BY <4>1, <4>2
    <3>3. QED
      BY <2>1, <3>1, <3>2, Elsewhere
  <2>8. QED
    BY <1>2, <1>5, <2>3, <2>5, <2>6, <2>7 DEF Same
<1>10. QED
  BY <1>1, <1>2, <1>5, <1>6, <1>7, <1>8, <1>9, OpenJob DEF LoadOpen, Same

LEMMA DisappearStep ==
    ASSUME RInv, Marks, Disappear
    PROVE  RInv'
<1>1. /\ leaving /\ opened' = Absent
      /\ UNCHANGED <<file, library, view, cache, theme, job, late, replaced, skewed>>
  BY DEF Disappear
<1>2. Typed' /\ Order'
  BY <1>1 DEF RInv, Typed, Order, Single, Caused
<1>3. ASSUME ~mixed' PROVE /\ ~Crowded(job', view', leaving')
                           /\ \A u \in Slot : JobTrue(job'[u], opened', skewed')
                           /\ ViewTrue(view', opened') /\ Right(job', view', opened') /\ Shelf' /\ CacheTrue'
  <2>1. /\ ~mixed /\ ~Crowded(job', view', leaving') /\ ~Crowded(job, view, leaving)
        /\ Shelf /\ CacheTrue /\ Right(job, view, opened) /\ \A u \in Slot : JobTrue(job[u], opened, skewed)
    BY <1>3 DEF Marks, RInv, Truth
  <2>2. Imports(job) = {} /\ view.book = Absent
    BY <1>1, <2>1, Sole DEF Left
  <2>3. view.spine = Absent
    BY <2>2 DEF RInv, Typed, ViewOK, NoView
  <2>4. ViewTrue(view', opened')
    BY <1>1, <2>2, <2>3 DEF RInv, Typed, ViewOK, NoView, ViewTrue
  <2>5. ASSUME NEW u \in Slot PROVE JobTrue(job'[u], opened', skewed')
    <3>1. ~(job[u].kind = "import" /\ job[u].at \in {"metadata", "cover"})
      BY <2>2 DEF Imports
    <3>2. ~(job[u].current /\ job[u].kind \in Requests)
      BY <2>2 DEF RInv, Order, Belongs
    <3>3. QED
      BY <1>1, <2>1, <3>1, <3>2, Elsewhere
  <2>6. Shelf' /\ CacheTrue' /\ Right(job', view', opened')
    BY <1>1, <2>1, <2>2, <2>3 DEF Shelf, Is, CacheTrue, Right
  <2>7. QED
    BY <2>1, <2>4, <2>5, <2>6
<1>4. QED
  BY <1>2, <1>3 DEF RInv, Truth

-----------------------------------------------------------------------------
(* Steps that write files, the library and the cache.                      *)

LEMMA WritingJob ==
    ASSUME RInv, Marks, NEW s \in Slot, NEW q, job' = [job EXCEPT ![s] = q],
           UNCHANGED <<opened, view, leaving, theme, skewed>>,
           file' \in [Name -> Book \cup {Absent}],
           library' \in [Identifier -> Entry \cup {Absent}],
           view.book # Absent => library'[view.book] # Absent,
           cache' \in [Key -> Shown \cup {Absent}],
           GoesOn(job[s], q), JobOK(q), ~mixed => JobTrue(q, opened, skewed) /\ Shelf' /\ CacheTrue'
    PROVE  RInv'
<1>1. job'[s] = q /\ DOMAIN job' = Slot /\ \A u \in Slot : u # s => job'[u] = job[u]
  BY OneJob DEF RInv
<1>2. Typed'
  BY <1>1 DEF RInv, Typed
<1>3. Order' /\ \A o : Right(job, view, o) => Right(job', view', o)
  BY OneJobOrder DEF RInv
<1>4. ASSUME ~mixed' PROVE /\ ~Crowded(job', view', leaving')
                           /\ \A u \in Slot : JobTrue(job'[u], opened', skewed')
                           /\ ViewTrue(view', opened') /\ Right(job', view', opened') /\ Shelf' /\ CacheTrue'
  <2>1. ~mixed /\ ~Crowded(job', view', leaving') /\ ViewTrue(view, opened)
        /\ Right(job, view, opened) /\ \A u \in Slot : JobTrue(job[u], opened, skewed)
    BY <1>4 DEF Marks, RInv, Truth
  <2>2. QED
    BY <1>1, <1>3, <2>1
<1>5. QED
  BY <1>2, <1>3, <1>4 DEF RInv, Truth

\* The name under which an import's copy goes.
NameFor(j) == NameOf[IdOf[j.data]]

LEMMA NameForFacts ==
    ASSUME NEW b \in Book
    PROVE  IdOf[b] \in Identifier /\ NameOf[IdOf[b]] \in Name
  BY BookReaderAssumption DEF Name

\* The copy is written: whoever relied on another one has been noted.
LEMMA Stored ==
    ASSUME RInv, ~mixed, NEW s \in Slot, Is(s, "import", "store"),
           file' = [file EXCEPT ![NameFor(job[s])] = job[s].book],
           replaced' = IF file[NameFor(job[s])] = job[s].book THEN replaced
                       ELSE replaced \cup Sharing(library, NameFor(job[s])),
           library' = library, NEW q, job' = [job EXCEPT ![s] = q],
           q.kind = "import", q.data = job[s].data
    PROVE  Shelf'
<1>1. PICK b, n : b = job[s].book /\ n = NameFor(job[s])
  OBVIOUS
<1>2. b \in Book /\ job[s].data = b /\ n = NameOf[IdOf[b]] /\ n \in Name /\ IdOf[b] \in Identifier
  <2>1. job[s].kind = "import" /\ job[s].at = "store" /\ job[s].data \in Book
    BY DEF Is, RInv, Typed, JobOK, Carries
  <2>2. job[s].data = job[s].book
    BY <2>1 DEF RInv, Truth, JobTrue, ImportTrue
  <2>3. QED
    BY <1>1, <2>1, <2>2, NameForFacts DEF NameFor
<1>3. /\ Shelf /\ file'[n] = b /\ \A m \in Name : m # n => file'[m] = file[m]
  BY <1>1, <1>2 DEF RInv, Truth, Typed
<1>4. \A u \in Slot : u # s => job'[u] = job[u]
  BY OneJob DEF RInv
<1>5. job'[s].data = b
  BY <1>1, <1>2, OneJob DEF RInv
\* What held the copy's name before either is of this file or is noted.
<1>6. file[n] = b \/ Sharing(library, n) \subseteq replaced'
  BY <1>1
<1>7. replaced \subseteq replaced'
  BY <1>1
<1>8. \A m \in Name : file'[m] # Absent => NameOf[IdOf[file'[m]]] = m
  BY <1>2, <1>3 DEF Shelf
<1>9. ASSUME NEW i \in Identifier, library'[i] # Absent
      PROVE  /\ library'[i].cover = library'[i].from /\ IdOf[library'[i].from] = i
             /\ (library'[i].read = "copy" /\ i \notin replaced' => file'[NameOf[i]] = library'[i].from)
  <2>1. /\ library[i].cover = library[i].from /\ IdOf[library[i].from] = i
        /\ (library[i].read = "copy" /\ i \notin replaced => file[NameOf[i]] = library[i].from)
    BY <1>3, <1>9 DEF Shelf
  <2>2. ASSUME library[i].read = "copy", i \notin replaced' PROVE file'[NameOf[i]] = library[i].from
    <3>1. NameOf[i] \in Name
      BY DEF Name
    <3>2. CASE NameOf[i] # n
      BY <1>3, <1>7, <2>1, <2>2, <3>1, <3>2
    <3>3. CASE NameOf[i] = n
      <4>1. i \in Sharing(library, n)
        BY <1>9, <2>2, <3>3 DEF Sharing
      <4>2. QED
        BY <1>3, <1>6, <1>7, <2>1, <2>2, <3>3, <4>1
    <3>4. QED
      BY <3>2, <3>3
  <2>3. QED
    BY <2>1, <2>2
<1>10. ASSUME NEW u \in Slot, Is(u, "import", "stored")', IdOf[job'[u].data] \notin replaced'
       PROVE  file'[NameOf[IdOf[job'[u].data]]] = job'[u].data
  <2>1. CASE u = s
    BY <1>2, <1>3, <1>5, <2>1
  <2>2. CASE u # s
    <3>1. Is(u, "import", "stored") /\ job'[u] = job[u] /\ job[u].data \in Book
      BY <1>4, <1>10, <2>2 DEF Is, RInv, Typed, JobOK, Carries
    <3>2. PICK i \in Identifier : i = IdOf[job[u].data] /\ NameOf[i] \in Name
      BY <3>1, NameForFacts
    <3>3. file[NameOf[i]] = job[u].data
      BY <1>3, <1>7, <1>10, <3>1, <3>2 DEF Shelf
    <3>4. CASE NameOf[i] # n
      BY <1>3, <3>1, <3>2, <3>3, <3>4
    <3>5. CASE NameOf[i] = n
      <4>1. i \in Sharing(library, n)
        BY <3>1, <3>2, <3>5 DEF Sharing
      <4>2. QED
        BY <1>3, <1>6, <1>10, <3>1, <3>2, <3>3, <3>5, <4>1
    <3>6. QED
      BY <3>4, <3>5
  <2>3. QED
    BY <2>1, <2>2
<1>11. QED
  BY <1>8, <1>9, <1>10 DEF Shelf

LEMMA ImportStoreStep ==
    ASSUME RInv, Marks, NEW s \in Slot, ImportStore(s)
    PROVE  RInv'
<1>1. PICK j : j = job[s] /\ JobOK(j) /\ IsJob(j)
  BY DEF RInv, Typed, JobOK
<1>2. j.kind = "import" /\ j.at = "store" /\ j.book \in Book /\ j.data \in Book
  BY <1>1 DEF ImportStore, Is, JobOK, Carries
<1>3. PICK pc : /\ Goto(s, pc) /\ pc \in {"stored", "unstored"}
                /\ pc = "stored" =>
                     /\ file' = [file EXCEPT ![NameFor(j)] = j.book]
                     /\ replaced' = IF file[NameFor(j)] = j.book THEN replaced
                                    ELSE replaced \cup Sharing(library, NameFor(j))
                /\ pc = "unstored" => UNCHANGED <<file, replaced>>
  BY <1>1 DEF ImportStore, NameFor
<1>4. PICK q : /\ job' = [job EXCEPT ![s] = q] /\ Same(q, j) /\ q.at = pc /\ q.ix = j.ix
               /\ q.data = j.data /\ q.cover = j.cover
  BY <1>1, <1>3, GotoUpdates DEF RInv
<1>5. GoesOn(j, q)
  BY <1>2, <1>4, SameGoesOn DEF Same
<1>6. JobOK(q)
  BY <1>1, <1>2, <1>3, <1>4 DEF Same, JobOK, Carries, Places, Ahead, Requests
<1>7. UNCHANGED <<opened, library, view, leaving, cache, theme, late, skewed>>
  BY DEF ImportStore
<1>8. file' \in [Name -> Book \cup {Absent}]
  BY <1>2, <1>3 DEF RInv, Typed
<1>9. ASSUME ~mixed PROVE JobTrue(q, opened, skewed) /\ Shelf' /\ CacheTrue'
  <2>1. ImportTrue(j, opened) /\ Shelf /\ CacheTrue
    BY <1>1, <1>9 DEF RInv, Truth, JobTrue
  <2>2. JobTrue(q, opened, skewed)
    BY <1>2, <1>3, <1>4, <2>1 DEF Same, JobTrue, ImportTrue, LoadTrue, ChapterTrue, RenderTrue, AheadTrue, Ahead
  <2>3. CASE pc = "stored"
    <3>1. Is(s, "import", "store") /\ q.kind = "import"
      BY <1>1, <1>2, <1>4 DEF Is, Same
    <3>2. Shelf'
      BY <1>1, <1>3, <1>4, <1>7, <1>9, <2>3, <3>1, Stored
    <3>3. QED
      BY <1>7, <2>1, <2>2, <3>2 DEF CacheTrue
  <2>4. CASE pc = "unstored"
    <3>1. \A u \in Slot : Is(u, "import", "stored")' => Is(u, "import", "stored") /\ job'[u] = job[u]
      BY <1>4, <2>4, OneJob DEF RInv, Is
    <3>2. Shelf'
      BY <1>3, <1>7, <2>1, <2>4, <3>1 DEF Shelf
    <3>3. QED
      BY <1>7, <2>1, <2>2, <3>2 DEF CacheTrue
  <2>5. QED
    BY <1>3, <2>3, <2>4
<1>10. QED
  BY <1>1, <1>4, <1>5, <1>6, <1>7, <1>8, <1>9, WritingJob DEF RInv, Typed

LEMMA ImportDoneStep ==
    ASSUME RInv, Marks, NEW s \in Slot, ImportDone(s)
    PROVE  RInv'
<1>1. PICK j : j = job[s] /\ JobOK(j) /\ IsJob(j)
  BY DEF RInv, Typed, JobOK
<1>2. /\ j.kind = "import" /\ j.at \in {"stored", "unstored"} /\ j.data \in Book /\ j.book \in Book
      /\ j.cover \in Book \cup {Absent} /\ IdOf[j.data] \in Identifier
  BY <1>1, NameForFacts DEF ImportDone, JobOK, Carries
<1>3. PICK e : e = [cover |-> j.cover, from |-> j.book,
                    read |-> IF j.at = "stored" THEN "copy" ELSE "memory"]
  OBVIOUS
<1>4. /\ UNCHANGED <<opened, file, view, leaving, cache, theme, late, replaced, skewed>>
      /\ job' = [job EXCEPT ![s] = Free]
      /\ library \in [Identifier -> Entry \cup {Absent}] /\ e \in Entry
      /\ library' = [library EXCEPT ![IdOf[j.data]] = IF @ # Absent THEN @ ELSE e]
  BY <1>1, <1>2, <1>3 DEF ImportDone, End, RInv, Typed, Entry
<1>5. /\ library' \in [Identifier -> Entry \cup {Absent}]
      /\ \A i \in Identifier : \/ library'[i] = library[i]
                               \/ library[i] = Absent /\ i = IdOf[j.data] /\ library'[i] = e
  BY <1>2, <1>4
<1>6. view.book # Absent => library'[view.book] # Absent
  BY <1>5 DEF RInv, Typed, ViewOK
<1>7. GoesOn(j, Free)
  BY <1>2 DEF GoesOn, Changing
<1>8. ASSUME ~mixed PROVE Shelf' /\ CacheTrue'
  <2>1. ImportTrue(j, opened) /\ Shelf /\ CacheTrue
    BY <1>1, <1>8 DEF RInv, Truth, JobTrue
  <2>2. /\ j.data = j.book /\ j.cover = j.book
        /\ (j.at = "stored" /\ IdOf[j.data] \notin replaced => file[NameOf[IdOf[j.data]]] = j.data)
    BY <1>1, <1>2, <2>1 DEF ImportTrue, Shelf, Is
  <2>3. ASSUME NEW i \in Identifier, library'[i] # Absent
        PROVE  /\ library'[i].cover = library'[i].from /\ IdOf[library'[i].from] = i
               /\ (library'[i].read = "copy" /\ i \notin replaced => file[NameOf[i]] = library'[i].from)
    <3>1. CASE library'[i] = library[i]
      BY <2>1, <2>3, <3>1 DEF Shelf
    <3>2. CASE i = IdOf[j.data] /\ library'[i] = e
      BY <1>3, <2>2, <3>2
    <3>3. QED
      BY <1>5, <3>1, <3>2
  <2>4. \A u \in Slot : Is(u, "import", "stored")' => Is(u, "import", "stored") /\ job'[u] = job[u]
    BY <1>4, OneJob DEF RInv, Is, Free
  <2>5. ASSUME NEW u \in Slot, Is(u, "import", "stored")', IdOf[job'[u].data] \notin replaced'
        PROVE  file'[NameOf[IdOf[job'[u].data]]] = job'[u].data
    <3>1. Is(u, "import", "stored") /\ job'[u] = job[u] /\ file' = file /\ replaced' = replaced
      BY <1>4, <2>4, <2>5
    <3>2. QED
      BY <2>1, <2>5, <3>1 DEF Shelf
  <2>6. \A n \in Name : file'[n] # Absent => NameOf[IdOf[file'[n]]] = n
    BY <1>4, <2>1 DEF Shelf
  <2>7. Shelf'
    BY <1>4, <2>3, <2>5, <2>6 DEF Shelf
  <2>8. CacheTrue'
    BY <1>4, <2>1 DEF CacheTrue
  <2>9. QED
    BY <2>7, <2>8
<1>9. QED
  BY <1>1, <1>4, <1>5, <1>6, <1>7, <1>8, FreeOK, WritingJob DEF RInv, Typed

LEMMA InvalidateFacts ==
    ASSUME Typed, NEW i, Invalidate(i)
    PROVE  /\ cache' \in [Key -> Shown \cup {Absent}] /\ \A k \in Key : cache'[k] \in {Absent, cache[k]}
           /\ \A k \in Key : k[1] = i => cache'[k] = Absent
  BY DEF Invalidate, Typed

LEMMA RemoveBookStep ==
    ASSUME RInv, Marks, NEW i \in Identifier, RemoveBook(i)
    PROVE  RInv'
<1>1. PICK n : n = NameOf[i] /\ n \in Name
  BY DEF Name
<1>2. /\ view.book = Absent /\ library' = [library EXCEPT ![i] = Absent]
      /\ IF library[i].read = "copy"
            THEN /\ file' = [file EXCEPT ![n] = Absent]
                 /\ replaced' = (replaced \ {i}) \cup Sharing(library', n)
            ELSE UNCHANGED <<file, replaced>>
      /\ UNCHANGED <<opened, view, leaving, theme, job, late, skewed>> /\ Invalidate(i)
  BY <1>1 DEF RemoveBook
<1>3. cache' \in [Key -> Shown \cup {Absent}] /\ \A k \in Key : cache'[k] \in {Absent, cache[k]}
  BY <1>2, InvalidateFacts DEF RInv
<1>4. /\ library' \in [Identifier -> Entry \cup {Absent}] /\ library'[i] = Absent
      /\ file' \in [Name -> Book \cup {Absent}]
      /\ \A c \in Identifier : c # i => library'[c] = library[c]
      /\ \A m \in Name : file'[m] \in {Absent, file[m]} /\ (m # n => file'[m] = file[m])
  BY <1>1, <1>2 DEF RInv, Typed
<1>5. Typed' /\ Order'
  BY <1>2, <1>3, <1>4 DEF RInv, Typed, Order, Single, Caused
\* Who relied on the copy that goes has been noted.
<1>6. /\ file'[n] = file[n] \/ Sharing(library', n) \subseteq replaced'
      /\ \A c \in Identifier : c \in replaced /\ c # i => c \in replaced'
      /\ i \in replaced => i \in replaced' \/ Sharing(library', n) \subseteq replaced'
  BY <1>2
<1>7. ASSUME ~mixed' PROVE /\ ~Crowded(job', view', leaving')
                           /\ \A u \in Slot : JobTrue(job'[u], opened', skewed')
                           /\ ViewTrue(view', opened') /\ Right(job', view', opened') /\ Shelf' /\ CacheTrue'
  <2>1. /\ ~mixed /\ ~Crowded(job', view', leaving') /\ ViewTrue(view, opened)
        /\ Shelf /\ CacheTrue /\ Right(job, view, opened) /\ \A u \in Slot : JobTrue(job[u], opened, skewed)
    BY <1>7 DEF Marks, RInv, Truth
  <2>2. \A m \in Name : file'[m] # Absent => NameOf[IdOf[file'[m]]] = m
    BY <1>4, <2>1 DEF Shelf
  <2>3. ASSUME NEW c \in Identifier, library'[c] # Absent
        PROVE  /\ library'[c].cover = library'[c].from /\ IdOf[library'[c].from] = c
               /\ (library'[c].read = "copy" /\ c \notin replaced' => file'[NameOf[c]] = library'[c].from)
    <3>1. c # i /\ library'[c] = library[c] /\ NameOf[c] \in Name
      BY <1>4, <2>3 DEF Name
    <3>2. /\ library[c].cover = library[c].from /\ IdOf[library[c].from] = c
          /\ (library[c].read = "copy" /\ c \notin replaced => file[NameOf[c]] = library[c].from)
      BY <2>1, <2>3, <3>1 DEF Shelf
    <3>3. ASSUME library[c].read = "copy", c \notin replaced' PROVE file'[NameOf[c]] = library[c].from
      <4>1. file[NameOf[c]] = library[c].from
        BY <1>6, <3>1, <3>2, <3>3
      <4>2. NameOf[c] = n => c \in Sharing(library', n)
        BY <2>3, <3>1, <3>3 DEF Sharing
      <4>3. QED
        BY <1>4, <1>6, <3>1, <3>3, <4>1, <4>2
    <3>4. QED
      BY <3>1, <3>2, <3>3
  <2>4. ASSUME NEW u \in Slot, Is(u, "import", "stored"), IdOf[job[u].data] \notin replaced'
        PROVE  file'[NameOf[IdOf[job[u].data]]] = job[u].data
    <3>1. job[u].data \in Book
      BY <2>4 DEF Is, RInv, Typed, JobOK, Carries
    <3>2. PICK c \in Identifier : c = IdOf[job[u].data] /\ NameOf[c] \in Name
      BY <3>1, NameForFacts
    <3>3. NameOf[c] = n => c \in Sharing(library', n)
      BY <2>4, <3>2 DEF Sharing
    <3>4. c \notin replaced
      BY <1>1, <1>6, <2>4, <3>2, <3>3
    <3>5. file[NameOf[c]] = job[u].data
      BY <2>1, <2>4, <3>2, <3>4 DEF Shelf
    <3>6. QED
      BY <1>4, <1>6, <2>4, <3>2, <3>3, <3>5
  <2>5. Shelf'
    BY <1>2, <2>2, <2>3, <2>4 DEF Shelf, Is
  <2>6. CacheTrue'
    BY <1>2, <1>3, <2>1 DEF CacheTrue
  <2>7. QED
    BY <1>2, <2>1, <2>5, <2>6 DEF Right
<1>8. QED
  BY <1>5, <1>7 DEF RInv, Truth

LEMMA CacheAheadStep ==
    ASSUME RInv, Marks, NEW s \in Slot, CacheAhead(s)
    PROVE  RInv'
<1>1. PICK j : j = job[s] /\ JobOK(j) /\ IsJob(j)
  BY DEF RInv, Typed, JobOK
<1>2. j.at = "set" /\ j # Free
  BY <1>1 DEF CacheAhead, Free
<1>3. j.kind \in Ahead /\ j.book \in Identifier /\ j.ix \in Chapter /\ j.theme \in Theme /\ j.data \in Shown
  <2>1. j.at \in Places(j.kind) /\ j.ix \in Chapter /\ j.theme \in Theme /\ Carries(j)
        /\ j.kind \in Requests \cup {"import"} /\ (j.kind \in Requests => j.book \in Identifier)
    BY <1>1, <1>2 DEF JobOK
  <2>2. j.kind \in Ahead
    BY <1>2, <2>1 DEF Places, Requests, Ahead
  <2>3. QED
    BY <1>2, <2>1, <2>2 DEF Carries, Requests, Ahead
<1>4. PICK key : key = <<j.book, j.ix, j.theme>>
  OBVIOUS
<1>5. key \in Key /\ key[1] = j.book /\ key[2] = j.ix
  BY <1>3, <1>4 DEF Key
<1>6. /\ UNCHANGED <<opened, file, library, view, leaving, theme, replaced, skewed>>
      /\ cache' = [cache EXCEPT ![key] = j.data] /\ job' = [job EXCEPT ![s] = Free]
      /\ late' = IF j.current THEN late ELSE late \cup {key}
      /\ cache \in [Key -> Shown \cup {Absent}]
  BY <1>1, <1>4 DEF CacheAhead, End, RInv, Typed
<1>7. /\ cache' \in [Key -> Shown \cup {Absent}] /\ cache'[key] = j.data
      /\ \A k \in Key : k # key => cache'[k] = cache[k]
  BY <1>3, <1>5, <1>6
<1>8. GoesOn(j, Free)
  BY <1>3 DEF GoesOn, Changing, Ahead
<1>9. ASSUME ~mixed PROVE Shelf' /\ CacheTrue'
  <2>1. AheadTrue(j, opened) /\ Shelf /\ CacheTrue
    BY <1>1, <1>9 DEF RInv, Truth, JobTrue
  <2>2. IF key \in late' THEN j.data.text[2] = key[2] /\ Filed(j.data.text[1], key[1])
        ELSE view.spine # Absent /\ key[1] = view.book /\ j.data = True(<<opened, key[2]>>)
    <3>1. j.data.text[2] = j.ix /\ Filed(j.data.text[1], j.book)
      BY <1>2, <1>3, <2>1 DEF AheadTrue, Of
    <3>2. j.current => j.data = True(<<opened, j.ix>>)
      BY <1>2, <1>3, <2>1 DEF AheadTrue
    <3>3. j.current => view.spine # Absent /\ j.book = view.book
      BY <1>1, <1>3 DEF RInv, Order, Belongs, Ahead, Requests
    <3>4. QED
      BY <1>5, <1>6, <3>1, <3>2, <3>3
  <2>3. late \subseteq late' /\ \A k \in Key : k # key => (k \in late' <=> k \in late)
    BY <1>6
  <2>4. CacheTrue'
    BY <1>6, <1>7, <2>1, <2>2, <2>3 DEF CacheTrue
  <2>5. \A u \in Slot : Is(u, "import", "stored")' => Is(u, "import", "stored") /\ job'[u] = job[u]
    BY <1>6, OneJob DEF RInv, Is, Free
  <2>6. ASSUME NEW u \in Slot, Is(u, "import", "stored")', IdOf[job'[u].data] \notin replaced'
        PROVE  file'[NameOf[IdOf[job'[u].data]]] = job'[u].data
    <3>1. Is(u, "import", "stored") /\ job'[u] = job[u] /\ file' = file /\ replaced' = replaced
      BY <1>6, <2>5, <2>6
    <3>2. QED
      BY <2>1, <2>6, <3>1 DEF Shelf
  <2>7. Shelf'
    BY <1>6, <2>1, <2>6 DEF Shelf
  <2>8. QED
    BY <2>4, <2>7
<1>10. QED
  BY <1>1, <1>6, <1>7, <1>8, <1>9, FreeOK, WritingJob DEF RInv, Typed

-----------------------------------------------------------------------------
(* Steps of the view: some jobs are not wanted any more, and others start. *)

\* What the step does to a job that it is not about.
Fell(j, q, kinds) ==
    \/ q = j /\ j.kind \notin kinds
    \/ j.kind \in kinds \cup Ahead /\ j.kind # "free" /\ q = [j EXCEPT !.current = FALSE]

Begins(q, v) ==
    \/ \E i \in Chapter, kind \in Ahead : v.spine # Absent /\ Starts(q, kind, "ask", v.book, i)
    \/ \E c \in Book : Starts(q, "import", "open", c, 1)

Turned(j, q, kinds, v) == Fell(j, q, kinds) \/ (j = Free /\ Begins(q, v))

LEMMA FellFacts ==
    ASSUME NEW j, JobOK(j), NEW q, NEW kinds, Fell(j, q, kinds)
    PROVE  /\ JobOK(q) /\ (\A o, skew : JobTrue(j, o, skew) => JobTrue(q, o, skew))
           /\ q.kind = j.kind /\ q.at = j.at /\ q.data = j.data
           /\ (q.current => q = j /\ j.kind \notin kinds)
           /\ (j.kind \in Changing \ kinds => q = j)
<1>1. CASE q = j /\ j.kind \notin kinds
  BY <1>1
<1>2. CASE j.kind \in kinds \cup Ahead /\ j.kind # "free" /\ q = [j EXCEPT !.current = FALSE]
  BY <1>2, Dropped DEF Changing, Ahead
<1>3. QED
  BY <1>1, <1>2 DEF Fell

LEMMA BeginsFacts ==
    ASSUME NEW q, NEW v, ViewOK(v), Begins(q, v)
    PROVE  /\ JobOK(q) /\ (\A o, skew : JobTrue(q, o, skew))
           /\ q.kind \in Ahead \cup {"import"} /\ q.at \in {"ask", "open"}
           /\ (q.kind \in Ahead => v.spine # Absent /\ v.book # Absent /\ q.book = v.book)
<1>1. ASSUME NEW i \in Chapter, NEW kind \in Ahead, v.spine # Absent, Starts(q, kind, "ask", v.book, i)
      PROVE  /\ JobOK(q) /\ (\A o, skew : JobTrue(q, o, skew))
             /\ q.kind \in Ahead /\ q.at = "ask" /\ q.book = v.book /\ v.book # Absent
  <2>1. v.book # Absent /\ v.book \in Identifier
    BY <1>1 DEF ViewOK, NoView
  <2>2. QED
    BY <1>1, <2>1, StartsOK DEF Ahead, Starts
<1>2. ASSUME NEW c \in Book, Starts(q, "import", "open", c, 1)
      PROVE  /\ JobOK(q) /\ (\A o, skew : JobTrue(q, o, skew)) /\ q.kind = "import" /\ q.at = "open"
  <2>1. 1 \in Chapter
    BY FreeOK DEF JobOK, Free
  <2>2. QED
    BY <1>2, <2>1, StartsOK DEF Starts
<1>3. QED
  BY <1>1, <1>2 DEF Begins, Ahead

LEMMA TurnedFacts ==
    ASSUME NEW j, JobOK(j), NEW q, NEW kinds, NEW v, ViewOK(v), Turned(j, q, kinds, v)
    PROVE  /\ JobOK(q) /\ (\A o, skew : JobTrue(j, o, skew) => JobTrue(q, o, skew))
           /\ (q.current /\ q.kind \notin Ahead \cup {"import"} => q = j /\ j.kind \notin kinds)
           /\ (q.current /\ q.kind \in Ahead =>
                 (q = j /\ j.kind \notin kinds) \/ (v.spine # Absent /\ v.book # Absent /\ q.book = v.book))
           /\ (q.kind = "import" /\ q.at = "stored" => j.kind = "import" /\ j.at = "stored" /\ q.data = j.data)
           /\ (j.kind \in Changing \ kinds => q = j)
<1>1. CASE Fell(j, q, kinds)
  BY <1>1, FellFacts
<1>2. CASE j = Free /\ Begins(q, v)
  BY <1>2, BeginsFacts DEF Free, Changing, Ahead
<1>3. QED
  BY <1>1, <1>2 DEF Turned

\* W is where the step's own job is, if it has one.
LEMMA TurnTruth ==
    ASSUME RInv, Marks, NEW kinds, NEW W \in SUBSET Slot, DOMAIN job' = Slot, ViewOK(view'),
           \A u \in Slot \ W : Turned(job[u], job'[u], kinds, view'),
           \A w \in W : JobOK(job'[w]) /\ job'[w].kind # "import",
           UNCHANGED <<opened, file, library, replaced>>, theme' \in Theme,
           view'.book # Absent => library[view'.book] # Absent,
           cache' \in [Key -> Shown \cup {Absent}], ~skewed' => ~skewed,
           Order',
           ~mixed => /\ \A w \in W : JobTrue(job'[w], opened, skewed')
                     /\ ViewTrue(view', opened) /\ Right(job', view', opened') /\ CacheTrue'
    PROVE  RInv'
<1>1. \A u \in Slot : JobOK(job[u])
  BY DEF RInv, Typed
<1>2. \A u \in Slot : JobOK(job'[u])
  BY <1>1, TurnedFacts
<1>3. Typed'
  BY <1>2 DEF RInv, Typed
<1>4. ASSUME ~mixed' PROVE /\ ~Crowded(job', view', leaving')
                           /\ \A u \in Slot : JobTrue(job'[u], opened', skewed')
                           /\ ViewTrue(view', opened') /\ Right(job', view', opened') /\ Shelf' /\ CacheTrue'
  <2>1. /\ ~mixed /\ ~Crowded(job', view', leaving') /\ Shelf
        /\ \A u \in Slot : JobTrue(job[u], opened, skewed)
    BY <1>4 DEF Marks, RInv, Truth
  <2>2. ASSUME NEW u \in Slot PROVE JobTrue(job'[u], opened, skewed')
    <3>1. CASE u \in W
      BY <2>1, <3>1
    <3>2. CASE u \notin W
      <4>1. JobTrue(job'[u], opened, skewed)
        BY <1>1, <2>1, <3>2, TurnedFacts
      <4>2. QED
        BY <4>1 DEF JobTrue, RenderTrue
    <3>3. QED
      BY <3>1, <3>2
  <2>3. \A u \in Slot : Is(u, "import", "stored")' => Is(u, "import", "stored") /\ job'[u].data = job[u].data
    BY <1>1, TurnedFacts DEF Is
  <2>4. Shelf'
    BY <2>1, <2>3 DEF Shelf
  <2>5. QED
    BY <2>1, <2>2, <2>4
<1>5. QED
  BY <1>3, <1>4, Order' DEF RInv, Truth

LEMMA TurnOne ==
    ASSUME RInv, Marks, NEW kinds, NEW s \in Slot, DOMAIN job' = Slot, ViewOK(view'),
           \A u \in Slot : u # s => Turned(job[u], job'[u], kinds, view'),
           JobOK(job'[s]), job'[s].kind # "import",
           UNCHANGED <<opened, file, library, replaced>>, theme' \in Theme,
           view'.book # Absent => library[view'.book] # Absent,
           cache' \in [Key -> Shown \cup {Absent}], ~skewed' => ~skewed,
           Order',
           ~mixed => /\ JobTrue(job'[s], opened, skewed')
                     /\ ViewTrue(view', opened) /\ Right(job', view', opened') /\ CacheTrue'
    PROVE  RInv'
<1>1. PICK W \in SUBSET Slot : W = {s}
  OBVIOUS
<1>2. /\ \A u \in Slot \ W : Turned(job[u], job'[u], kinds, view')
      /\ \A w \in W : JobOK(job'[w]) /\ job'[w].kind # "import"
  BY <1>1
<1>3. ~mixed => \A w \in W : JobTrue(job'[w], opened, skewed')
  BY <1>1
<1>4. QED
  BY <1>2, <1>3, TurnTruth

\* A request takes the place of those of its kind.
LEMMA TurnOrder ==
    ASSUME Typed, Order, ViewOK(view'), NEW kinds, NEW s \in Slot,
           \A u \in Slot : u # s => Turned(job[u], job'[u], kinds, view'),
           Belongs(job'[s], view'),
           \A u \in Slot : u # s /\ job[u].current /\ job[u].kind \notin kinds => Belongs(job[u], view'),
           job'[s].current => job'[s].kind \in Changing \cap kinds,
           view'.loading => job'[s].current
    PROVE  Order'
<1>1. \A u \in Slot : JobOK(job[u])
  BY DEF Typed
<1>2. ASSUME NEW u \in Slot PROVE Belongs(job'[u], view')
  <2>1. CASE u = s
    BY <2>1
  <2>2. CASE u # s /\ job'[u].current
    <3>1. Turned(job[u], job'[u], kinds, view') /\ JobOK(job[u])
      BY <1>1, <2>2
    <3>2. \/ job'[u] = job[u] /\ job[u].kind \notin kinds
          \/ job'[u].kind = "import"
          \/ job'[u].kind \in Ahead /\ view'.spine # Absent /\ view'.book # Absent /\ job'[u].book = view'.book
      BY <2>2, <3>1, TurnedFacts
    <3>3. QED
      BY <2>2, <3>2 DEF Belongs, Ahead, Requests
  <2>3. CASE ~job'[u].current
    BY <2>3 DEF Belongs
  <2>4. QED
    BY <2>1, <2>2, <2>3
<1>3. \A u \in Slot : u # s /\ job'[u].current /\ job'[u].kind \in Changing =>
                         job'[u] = job[u] /\ job[u].kind \notin kinds
  BY <1>1, TurnedFacts DEF Changing, Ahead
<1>4. Single(job')
  BY <1>3 DEF Order, Single
<1>5. Caused(job', view')
  BY DEF Caused
<1>6. QED
  BY <1>2, <1>4, <1>5 DEF Order

\* A step that is not about the requests that change what is shown.
LEMMA Aside ==
    ASSUME RInv, Marks, NEW kinds, kinds \cap Changing = {}, DOMAIN job' = Slot, ViewOK(view'),
           \A u \in Slot : Turned(job[u], job'[u], kinds, view'),
           UNCHANGED <<opened, file, library, cache, theme, late, replaced, skewed>>,
           view'.book = view.book, view'.spine = view.spine, view'.at = view.at,
           view'.nodes = view.nodes, view'.shown = view.shown,
           view'.loading = view.loading, view'.error = view.error
    PROVE  RInv'
<1>1. \A u \in Slot : JobOK(job[u]) /\ Belongs(job[u], view) /\ Belongs(job[u], view')
  BY DEF RInv, Typed, Order, Belongs
<1>2. ASSUME NEW u \in Slot PROVE Belongs(job'[u], view')
  <2>1. CASE job'[u].current
    <3>1. \/ job'[u] = job[u]
          \/ job'[u].kind = "import"
          \/ job'[u].kind \in Ahead /\ view'.spine # Absent /\ view'.book # Absent /\ job'[u].book = view'.book
      BY <1>1, <2>1, TurnedFacts
    <3>2. QED
      BY <1>1, <2>1, <3>1 DEF Belongs, Ahead, Requests
  <2>2. CASE ~job'[u].current
    BY <2>2 DEF Belongs
  <2>3. QED
    BY <2>1, <2>2
<1>3. \A u \in Slot : /\ job'[u].current /\ job'[u].kind \in Changing => job'[u] = job[u]
                      /\ job[u].kind \in Changing => job'[u] = job[u]
  BY <1>1, TurnedFacts DEF Changing, Ahead
<1>4. Order'
  BY <1>2, <1>3 DEF RInv, Order, Single, Caused
<1>5. ASSUME ~mixed PROVE ViewTrue(view', opened) /\ Right(job', view', opened') /\ CacheTrue'
  <2>1. ViewTrue(view, opened) /\ Right(job, view, opened) /\ CacheTrue
    BY <1>5 DEF RInv, Truth
  <2>2. Right(job', view', opened')
    BY <1>3, <2>1 DEF Right, Changing
  <2>3. QED
    BY <2>1, <2>2 DEF ViewTrue, CacheTrue
<1>6. /\ theme' \in Theme /\ cache' \in [Key -> Shown \cup {Absent}]
      /\ view'.book # Absent => library[view'.book] # Absent
  BY DEF RInv, Typed
<1>7. QED
  BY <1>4, <1>5, <1>6, TurnTruth

LEMMA NoJob ==
    /\ JobOK(Free) /\ ~Free.current /\ Free.kind = "free" /\ Free.kind # "import"
    /\ (\A v : Belongs(Free, v)) /\ \A o, skew : JobTrue(Free, o, skew)
<1>1. ~Free.current /\ Free.kind = "free"
  BY DEF Free
<1>2. QED
  BY <1>1, FreeOK

LEMMA KeptFell ==
    ASSUME NEW jobs, Jobs(jobs), NEW next, NEW kinds, "free" \notin kinds, Kept(jobs, next, kinds)
    PROVE  \A u \in Slot : Fell(jobs[u], next[u], kinds)
  BY DEF Kept, Fell, Jobs

LEMMA StartImportStep ==
    ASSUME RInv, Marks, NEW b \in Book, StartImport(b)
    PROVE  RInv'
<1>1. PICK s \in Slot : s = FreeSlot(job) /\ job[s] = Free
  BY FreeSlotIsFree DEF StartImport
<1>2. PICK q : q = Job("import", "open", b) /\ Starts(q, "import", "open", b, 1)
  BY JobStarts DEF RInv, Typed
<1>3. job' = [job EXCEPT ![s] = q]
  BY <1>1, <1>2 DEF StartImport
<1>4. job'[s] = q /\ DOMAIN job' = Slot /\ \A u \in Slot : u # s => job'[u] = job[u]
  BY <1>3, OneJob DEF RInv
<1>5. \A u \in Slot : Turned(job[u], job'[u], {}, view')
  BY <1>1, <1>2, <1>4 DEF Turned, Begins, Fell
<1>6. ViewOK(view')
  BY DEF StartImport, RInv, Typed
<1>7. QED
  BY <1>4, <1>5, <1>6, Aside DEF StartImport

LEMMA TurnPageStep ==
    ASSUME RInv, Marks, TurnPage
    PROVE  RInv'
<1>1. view.book \in Identifier /\ view.spine # Absent /\ view.at \in Chapter /\ view' = view /\ theme' = theme
  BY DEF TurnPage, RInv, Typed, ViewOK, NoView
<1>2. Jobs(job) /\ theme \in Theme /\ theme' \in Theme
  BY <1>1 DEF Jobs, RInv, Typed
<1>3. Preloaded(job, job', view.book)
  BY <1>1, <1>2, PreloadFacts DEF TurnPage
<1>4. ASSUME NEW u \in Slot PROVE Turned(job[u], job'[u], {}, view')
  BY <1>1, <1>3 DEF Preloaded, Turned, Fell, Begins, Ahead
<1>5. DOMAIN job' = Slot /\ ViewOK(view')
  BY <1>1, <1>3 DEF Preloaded, Jobs, RInv, Typed
<1>6. QED
  BY <1>1, <1>4, <1>5, Aside DEF TurnPage

LEMMA PagesUpdatedStep ==
    ASSUME RInv, Marks, PagesUpdated
    PROVE  RInv'
<1>1. /\ view.book \in Identifier /\ view.book # Absent /\ view.spine # Absent
      /\ view' = [view EXCEPT !.laid = TRUE]
      /\ UNCHANGED <<opened, file, library, cache, theme, late, replaced, skewed>>
  BY DEF PagesUpdated, RInv, Typed, ViewOK
<1>2. /\ ViewOK(view') /\ view'.book = view.book /\ view'.spine = view.spine /\ view'.at = view.at
      /\ view'.nodes = view.nodes /\ view'.shown = view.shown
      /\ view'.loading = view.loading /\ view'.error = view.error
  BY <1>1 DEF RInv, Typed, ViewOK
<1>3. PICK jobs : jobs = Renew({"pagination"}, job)
  OBVIOUS
<1>4. Jobs(job) /\ Jobs(jobs) /\ Kept(job, jobs, {"pagination"}) /\ FreeSlots(jobs) = FreeSlots(job)
  BY <1>3, RenewKept DEF Jobs, RInv, Typed
<1>5. \A u \in Slot : Fell(job[u], jobs[u], {"pagination"})
  BY <1>4, KeptFell
<1>6. CASE job' = jobs
  BY <1>1, <1>2, <1>4, <1>5, <1>6, Aside DEF Turned, Jobs, Changing
<1>7. CASE job' # jobs
  <2>1. FreeSlots(jobs) # {}
    BY <1>3, <1>7 DEF PagesUpdated
  <2>2. PICK i \in Chapter : job' = [jobs EXCEPT ![FreeSlot(jobs)] =
                   [Job("pagination", "ask", view.book) EXCEPT !.from = view.at, !.ix = i]]
    BY <1>3, <1>7 DEF PagesUpdated
  <2>3. PICK s \in Slot : s = FreeSlot(jobs) /\ jobs[s] = Free /\ job[s] = Free
    BY <1>4, <2>1, FreeSlotIsFree DEF FreeSlots
  <2>4. PICK q : q = [Job("pagination", "ask", view.book) EXCEPT !.from = view.at, !.ix = i]
    OBVIOUS
  <2>5. theme \in Theme
    BY DEF RInv, Typed
  <2>6. Starts(q, "pagination", "ask", view.book, i)
    BY <2>4, <2>5 DEF Starts, IsJob, Job, Free
  <2>7. job' = [jobs EXCEPT ![s] = q]
    BY <2>2, <2>3, <2>4
  <2>8. job'[s] = q /\ DOMAIN job' = Slot /\ \A u \in Slot : u # s => job'[u] = jobs[u]
    BY <1>4, <2>7 DEF Jobs
  <2>9. Begins(q, view')
    BY <1>1, <1>2, <2>6 DEF Begins, Ahead
  <2>10. \A u \in Slot : Turned(job[u], job'[u], {"pagination"}, view')
    BY <1>5, <2>3, <2>8, <2>9 DEF Turned
  <2>11. QED
    BY <1>1, <1>2, <2>8, <2>10, Aside DEF Changing
<1>8. QED
  BY <1>6, <1>7

LEMMA LoadFailedStep ==
    ASSUME RInv, Marks, NEW s \in Slot, LoadFailed(s)
    PROVE  RInv'
<1>1. CASE ~job[s].current
  BY <1>1, EndsQuietly DEF LoadFailed
<1>2. CASE job[s].current
  <2>1. /\ job' = [job EXCEPT ![s] = Free] /\ job[s].kind = "load"
        /\ view' = [view EXCEPT !.error = TRUE, !.loading = FALSE]
        /\ UNCHANGED <<opened, file, library, leaving, cache, theme, late, replaced, skewed>>
    BY <1>2 DEF LoadFailed, End, Is
  <2>2. view.book # Absent
    BY <1>2, <2>1 DEF RInv, Order, Belongs, Requests
  <2>3. /\ ViewOK(view') /\ view'.book = view.book /\ view'.spine = view.spine /\ view'.at = view.at
        /\ view'.nodes = view.nodes /\ view'.error /\ ~view'.loading
        /\ (view'.book # Absent => library[view'.book] # Absent)
    BY <2>1, <2>2 DEF RInv, Typed, ViewOK
  <2>4. job'[s] = Free /\ DOMAIN job' = Slot /\ \A u \in Slot : u # s => job'[u] = job[u]
    BY <2>1, OneJob DEF RInv
  <2>5. \A u \in Slot : u # s => Turned(job[u], job'[u], {}, view')
    BY <2>4 DEF Turned, Fell
  <2>6. \A u \in Slot : Belongs(job[u], view')
    BY <2>3 DEF RInv, Order, Belongs
  <2>7. Order'
    <3>1. Belongs(job'[s], view') /\ ~job'[s].current
      BY <2>4, NoJob
    <3>2. QED
      BY <2>3, <2>5, <2>6, <3>1, TurnOrder DEF RInv
  <2>8. ~mixed => ViewTrue(view', opened) /\ Right(job', view', opened') /\ CacheTrue'
    BY <2>1, <2>3 DEF RInv, Truth, ViewTrue, Right, CacheTrue
  <2>9. JobOK(job'[s]) /\ job'[s].kind # "import" /\ \A o, skew : JobTrue(job'[s], o, skew)
    BY <2>4, NoJob
  <2>10. theme' \in Theme /\ cache' \in [Key -> Shown \cup {Absent}]
    BY <2>1 DEF RInv, Typed
  <2>11. QED
    BY <2>1, <2>3, <2>4, <2>5, <2>7, <2>8, <2>9, <2>10, TurnOne
<1>3. QED
  BY <1>1, <1>2

LEMMA RenderDoneStep ==
    ASSUME RInv, Marks, NEW s \in Slot, RenderDone(s)
    PROVE  RInv'
<1>1. PICK j : j = job[s] /\ JobOK(j) /\ j.kind = "render" /\ j.at = "done"
  BY DEF RenderDone, Is, RInv, Typed
<1>2. CASE ~j.current
  BY <1>1, <1>2, EndsQuietly DEF RenderDone
<1>3. CASE j.current
  <2>1. /\ job' = [job EXCEPT ![s] = Free]
        /\ view' = [view EXCEPT !.shown = j.data, !.loading = FALSE, !.laid = FALSE]
        /\ UNCHANGED <<opened, file, library, leaving, theme, late, replaced, skewed>>
    BY <1>1, <1>3 DEF RenderDone, End
  <2>2. PICK key : key = <<j.book, j.ix, j.theme>> /\ cache' = [cache EXCEPT ![key] = j.data]
    BY <1>1, <1>3 DEF RenderDone
  <2>3. view.book # Absent /\ j.book = view.book /\ view.spine # Absent
    BY <1>1, <1>3 DEF RInv, Order, Belongs, Requests
  <2>4. j.book \in Identifier /\ j.data \in Shown /\ key \in Key /\ key[1] = j.book /\ key[2] = j.ix
    BY <1>1, <2>2 DEF JobOK, Carries, Key, Requests
  <2>5. /\ ViewOK(view') /\ view'.book = view.book /\ view'.spine = view.spine /\ view'.at = view.at
        /\ view'.nodes = view.nodes /\ view'.shown = j.data /\ view'.error = view.error /\ ~view'.loading
        /\ (view'.book # Absent => library[view'.book] # Absent)
    BY <2>1, <2>3, <2>4 DEF RInv, Typed, ViewOK
  <2>6. /\ cache' \in [Key -> Shown \cup {Absent}] /\ cache'[key] = j.data
        /\ \A k \in Key : k # key => cache'[k] = cache[k]
    BY <2>2, <2>4 DEF RInv, Typed
  <2>7. job'[s] = Free /\ DOMAIN job' = Slot /\ \A u \in Slot : u # s => job'[u] = job[u]
    BY <2>1, OneJob DEF RInv
  <2>8. \A u \in Slot : u # s => Turned(job[u], job'[u], {}, view')
    BY <2>7 DEF Turned, Fell
  <2>9. Order'
    <3>1. Belongs(job'[s], view') /\ ~job'[s].current
      BY <2>7, NoJob
    <3>2. \A u \in Slot : Belongs(job[u], view')
      BY <2>5 DEF RInv, Order, Belongs
    <3>3. QED
      BY <2>5, <2>8, <3>1, <3>2, TurnOrder DEF RInv
  <2>10. JobOK(job'[s]) /\ job'[s].kind # "import" /\ \A o, skew : JobTrue(job'[s], o, skew)
    BY <2>7, NoJob
  <2>11. ASSUME ~mixed PROVE ViewTrue(view', opened) /\ Right(job', view', opened') /\ CacheTrue'
    <3>1. ViewTrue(view, opened) /\ Right(job, view, opened) /\ CacheTrue /\ RenderTrue(j, opened, skewed)
      BY <1>1, <2>11 DEF RInv, Truth, JobTrue
    <3>2. j.data = True(Source(j)) /\ (~skewed => Source(j) = <<opened, j.ix>>)
      BY <1>1, <1>3, <3>1 DEF RenderTrue
    <3>3. ViewTrue(view', opened)
      BY <2>5, <3>1 DEF ViewTrue
    <3>4. ASSUME view'.book # Absent, ~view'.error,
                 ~(\E u \in Slot : job'[u].current /\ job'[u].kind \in {"load", "chapter"})
          PROVE  /\ view'.spine # Absent /\ view'.nodes = <<opened, view'.at>>
                 /\ view'.shown = True(view'.nodes)
                 /\ ~(\E u \in Slot : job'[u].kind = "render" /\ job'[u].current)
      <4>1. ~(\E u \in Slot : job[u].current /\ job[u].kind \in {"load", "chapter"})
        BY <1>1, <2>7, <3>4
      <4>2. view.nodes = <<opened, view.at>> /\ Source(j) = view.nodes
        BY <1>1, <1>3, <2>5, <3>1, <3>4, <4>1 DEF Right
      <4>3. ~(\E u \in Slot : job'[u].kind = "render" /\ job'[u].current)
        BY <1>1, <1>3, <2>7, NoJob DEF RInv, Order, Single, Changing
      <4>4. QED
        BY <2>3, <2>5, <3>2, <4>2, <4>3
    <3>5. Right(job', view', opened')
      BY <2>1, <3>4 DEF Right
    <3>6. CacheTrue'
      <4>1. ~skewed => j.data = True(<<opened, key[2]>>)
        BY <2>4, <3>2
      <4>2. key[1] = view.book /\ Filed(opened, key[1])
        BY <2>3, <2>4, <3>1 DEF ViewTrue, Open
      <4>3. ~skewed => j.data.text[2] = key[2] /\ j.data.text[1] = opened
        BY <4>1 DEF True
      <4>4. QED
        BY <2>1, <2>3, <2>5, <2>6, <3>1, <4>1, <4>2, <4>3 DEF CacheTrue
    <3>7. QED
      BY <3>3, <3>5, <3>6
  <2>12. theme' \in Theme
    BY <2>1 DEF RInv, Typed
  <2>13. QED
    BY <2>1, <2>5, <2>6, <2>7, <2>8, <2>9, <2>10, <2>11, <2>12, TurnOne
<1>4. QED
  BY <1>2, <1>3

\* A request is made: those of its kind, and some others, are not wanted any more.
LEMMA RequestStep ==
    ASSUME RInv, Marks, NEW kinds, "free" \notin kinds, NEW kind \in {"load", "chapter"}, kind \in kinds,
           NEW q, NEW i \in Chapter, NEW at, Starts(q, kind, at, view'.book, i),
           at = IF kind = "load" THEN "open" ELSE "read",
           FreeSlots(job) # {}, job' = [Renew(kinds, job) EXCEPT ![FreeSlot(Renew(kinds, job))] = q],
           ViewOK(view'), view'.book # Absent, kind = "load" => view'.spine = Absent,
           kind = "chapter" => view'.spine # Absent /\ view'.at = i,
           \A u \in Slot : job[u].current /\ job[u].kind \notin kinds => Belongs(job[u], view'),
           UNCHANGED <<opened, file, library, leaving, cache, theme, late, replaced, skewed>>,
           library[view'.book] # Absent,
           ~mixed => /\ ViewTrue(view', opened) /\ CacheTrue'
                     /\ (kind = "load" /\ q.cover # Absent => Filed(q.cover, view'.book))
    PROVE  RInv'
<1>1. PICK jobs : jobs = Renew(kinds, job)
  OBVIOUS
<1>2. Jobs(job) /\ Jobs(jobs) /\ Kept(job, jobs, kinds) /\ FreeSlots(jobs) = FreeSlots(job)
  BY <1>1, RenewKept DEF Jobs, RInv, Typed
<1>3. PICK s \in Slot : s = FreeSlot(jobs) /\ jobs[s] = Free /\ job[s] = Free
  BY <1>2, FreeSlotIsFree DEF FreeSlots
<1>4. job' = [jobs EXCEPT ![s] = q]
  BY <1>1, <1>3
<1>5. job'[s] = q /\ DOMAIN job' = Slot /\ \A u \in Slot : u # s => job'[u] = jobs[u]
  BY <1>2, <1>4 DEF Jobs
<1>6. \A u \in Slot : u # s => Turned(job[u], job'[u], kinds, view')
  BY <1>2, <1>5, KeptFell DEF Turned
<1>7. view'.book \in Identifier
  BY DEF ViewOK
<1>8. q.kind = kind /\ q.current /\ q.book = view'.book /\ q.ix = i /\ q.kind # "import"
  BY DEF Starts
<1>9. JobOK(q) /\ (~mixed => \A o, skew : JobTrue(q, o, skew))
  BY <1>7, <1>8, StartsOK
<1>10. Belongs(q, view')
  BY <1>7, <1>8 DEF Belongs, Ahead
<1>11. Order'
  BY <1>5, <1>6, <1>8, <1>10, TurnOrder DEF RInv, Changing
<1>12. Right(job', view', opened')
  BY <1>5, <1>8 DEF Right
<1>13. theme' \in Theme /\ cache' \in [Key -> Shown \cup {Absent}]
  BY DEF RInv, Typed
<1>14. JobOK(job'[s]) /\ job'[s].kind # "import" /\ (~mixed => JobTrue(job'[s], opened, skewed'))
  BY <1>5, <1>8, <1>9
<1>15. QED
  BY <1>5, <1>6, <1>11, <1>12, <1>13, <1>14, TurnOne

\* Loading begins: nothing of another book is wanted.
LEMMA LoadBegins ==
    ASSUME RInv, Marks, NEW b \in Identifier, job' = LoadIn(job, b), FreeSlots(job) # {},
           ViewOK(view'), view'.book = b, view'.spine = Absent, view'.nodes = Absent,
           view.spine = Absent, library[b] # Absent,
           UNCHANGED <<opened, file, library, leaving, cache, theme, late, replaced, skewed>>
    PROVE  RInv'
<1>1. PICK kinds : kinds = {"load", "chapter", "pagination", "preload"}
  OBVIOUS
<1>2. PICK source : source = IF library[b].read = "copy" THEN Absent ELSE library[b].from
  OBVIOUS
<1>3. source \in Book \cup {Absent} /\ (~mixed /\ source # Absent => Filed(source, b))
  <2>1. library[b] \in Entry
    BY DEF RInv, Typed
  <2>2. ~mixed => IdOf[library[b].from] = b
    BY DEF RInv, Truth, Shelf
  <2>3. QED
    BY <1>2, <2>1, <2>2 DEF Entry, Filed
<1>4. PICK q : q = [Job("load", "open", b) EXCEPT !.cover = source]
  OBVIOUS
<1>5. Starts(q, "load", "open", b, 1) /\ q.cover = source
  <2>1. q = [kind |-> "load", at |-> "open", current |-> TRUE, book |-> b, from |-> 1, ix |-> 1,
             theme |-> theme, data |-> Absent, cover |-> source]
    BY <1>4 DEF Job, Free
  <2>2. theme \in Theme
    BY DEF RInv, Typed
  <2>3. QED
    BY <1>3, <2>1, <2>2 DEF Starts, IsJob
<1>6. job' = [Renew(kinds, job) EXCEPT ![FreeSlot(Renew(kinds, job))] = q]
  BY <1>1, <1>2, <1>4 DEF LoadIn
<1>7. \A u \in Slot : job[u].current /\ job[u].kind \notin kinds => Belongs(job[u], view')
  BY <1>1 DEF RInv, Order, Belongs, Requests, Ahead
<1>8. ViewTrue(view', opened) /\ b # Absent /\ 1 \in Chapter
  BY BookReaderAssumption DEF ViewTrue, Chapter
<1>9. ~mixed => CacheTrue'
  BY DEF RInv, Truth, CacheTrue
<1>10. "free" \notin kinds /\ "load" \in kinds
  BY <1>1
<1>11. QED
  BY <1>3, <1>5, <1>6, <1>7, <1>8, <1>9, <1>10, RequestStep

LEMMA OpenReaderStep ==
    ASSUME RInv, Marks, NEW b \in Identifier, OpenReader(b)
    PROVE  RInv'
<1>1. /\ view' = [NoView EXCEPT !.book = b, !.loading = TRUE] /\ view.book = Absent
      /\ job' = LoadIn(job, b) /\ FreeSlots(job) # {} /\ library[b] # Absent
      /\ UNCHANGED <<opened, file, library, leaving, cache, theme, late, replaced, skewed>>
  BY DEF OpenReader
<1>2. view' = [book |-> b, spine |-> Absent, at |-> 1, nodes |-> Absent,
               shown |-> Absent, laid |-> TRUE, loading |-> TRUE, error |-> FALSE]
  BY <1>1 DEF NoView
<1>3. ViewOK(view') /\ view'.book = b /\ view'.spine = Absent /\ view'.nodes = Absent
  BY <1>2, BookReaderAssumption DEF ViewOK, Chapter
<1>4. view.spine = Absent
  BY <1>1 DEF RInv, Typed, ViewOK, NoView
<1>5. QED
  BY <1>1, <1>3, <1>4, LoadBegins

LEMMA RetryStep ==
    ASSUME RInv, Marks, Retry
    PROVE  RInv'
<1>1. /\ view' = [view EXCEPT !.loading = TRUE, !.error = FALSE]
      /\ job' = LoadIn(job, view.book) /\ FreeSlots(job) # {}
      /\ view.spine = Absent /\ view.error
      /\ UNCHANGED <<opened, file, library, leaving, cache, theme, late, replaced, skewed>>
  BY DEF Retry
<1>2. view.book \in Identifier /\ view.book # Absent /\ view.nodes = Absent /\ library[view.book] # Absent
  BY <1>1 DEF RInv, Typed, ViewOK, NoView
<1>3. ViewOK(view') /\ view'.book = view.book /\ view'.spine = Absent /\ view'.nodes = Absent
  BY <1>1, <1>2 DEF RInv, Typed, ViewOK
<1>4. QED
  BY <1>1, <1>2, <1>3, LoadBegins

LEMMA NavigateStep ==
    ASSUME RInv, Marks, NEW i \in Chapter, Navigate(i)
    PROVE  RInv'
<1>1. PICK kinds : kinds = {"chapter", "pagination", "preload"}
  OBVIOUS
<1>2. /\ view' = [view EXCEPT !.at = i, !.loading = TRUE, !.error = FALSE]
      /\ view.spine # Absent /\ FreeSlots(job) # {}
      /\ UNCHANGED <<opened, file, library, leaving, cache, theme, late, replaced, skewed>>
  BY DEF Navigate
<1>3. view.book \in Identifier /\ view.book # Absent /\ library[view.book] # Absent
  BY <1>2 DEF RInv, Typed, ViewOK, NoView
<1>4. /\ ViewOK(view') /\ view'.book = view.book /\ view'.spine = view.spine
      /\ view'.nodes = view.nodes /\ view'.at = i
  BY <1>2, <1>3 DEF RInv, Typed, ViewOK
<1>5. PICK q : q = [Job("chapter", "read", view.book) EXCEPT !.ix = i]
  OBVIOUS
<1>6. theme \in Theme
  BY DEF RInv, Typed
<1>7. Starts(q, "chapter", "read", view'.book, i)
  BY <1>4, <1>5, <1>6 DEF Starts, IsJob, Job, Free
<1>8. job' = [Renew(kinds, job) EXCEPT ![FreeSlot(Renew(kinds, job))] = q]
  BY <1>1, <1>5 DEF Navigate
<1>9. \A u \in Slot : job[u].current /\ job[u].kind \notin kinds => Belongs(job[u], view')
  BY <1>1, <1>2, <1>4 DEF RInv, Order, Belongs
<1>10. ~mixed => ViewTrue(view', opened) /\ CacheTrue'
  BY <1>2, <1>4 DEF RInv, Truth, ViewTrue, CacheTrue
<1>11. "free" \notin kinds /\ "chapter" \in kinds
  BY <1>1
<1>12. QED
  BY <1>2, <1>3, <1>4, <1>7, <1>8, <1>9, <1>10, <1>11, RequestStep

\* A rendering begins, and perhaps the reading of a neighbour.
Renders(next, s, v, kinds) ==
    /\ DOMAIN next = Slot /\ JobOK(next[s]) /\ next[s].kind = "render" /\ next[s].at = "render"
    /\ next[s].current /\ next[s].book = v.book /\ next[s].ix = v.at /\ next[s].data = v.nodes
    /\ \A u \in Slot : u # s => Turned(job[u], next[u], kinds \cup {"render"}, v)

LEMMA Rendering ==
    ASSUME Typed, theme' \in Theme, NEW jobs, Jobs(jobs), NEW kinds \in SUBSET {"chapter"},
           Kept(job, jobs, kinds), NEW s \in Slot,
           NEW v, ViewOK(v), v.nodes # Absent, NEW cached,
           NEW rendering, rendering = RenderIn(s, jobs, v), NEW next \in Preload(rendering, v, cached)
    PROVE  Renders(next, s, v, kinds)
<1>1. /\ v.spine # Absent /\ v.book # Absent /\ v.book \in Identifier /\ v.at \in Chapter
      /\ v.nodes \in Text /\ theme \in Theme /\ Jobs(job)
  BY DEF ViewOK, NoView, Jobs, Typed
<1>2. PICK renewed : renewed = Renew({"render"}, jobs)
  OBVIOUS
<1>3. Jobs(renewed) /\ Kept(jobs, renewed, {"render"})
  BY <1>2, RenewKept
<1>4. PICK q : q = [Job("render", "render", v.book) EXCEPT !.ix = v.at, !.data = v.nodes, !.theme = theme']
  OBVIOUS
<1>5. q = [kind |-> "render", at |-> "render", current |-> TRUE, book |-> v.book, from |-> 1,
           ix |-> v.at, theme |-> theme', data |-> v.nodes, cover |-> Absent]
  BY <1>4 DEF Job, Free
<1>6. /\ JobOK(q) /\ q.kind = "render" /\ q.at = "render" /\ q.current
      /\ q.book = v.book /\ q.ix = v.at /\ q.data = v.nodes /\ q # Free
  BY <1>1, <1>5 DEF JobOK, IsJob, Carries, Places, Requests, Ahead, Free
<1>7. rendering = [renewed EXCEPT ![s] = q]
  BY <1>2, <1>4 DEF RenderIn
<1>8. rendering[s] = q /\ Jobs(rendering) /\ \A u \in Slot : u # s => rendering[u] = renewed[u]
  BY <1>3, <1>6, <1>7 DEF Jobs
<1>9. Preloaded(rendering, next, v.book)
  BY <1>1, <1>7, <1>8, PreloadFacts
<1>10. DOMAIN next = Slot /\ next[s] = q
  BY <1>6, <1>8, <1>9 DEF Preloaded, Jobs
<1>11. ASSUME NEW u \in Slot, u # s PROVE Turned(job[u], next[u], kinds \cup {"render"}, v)
  <2>1. PICK j : j = job[u] /\ JobOK(j)
    BY DEF Typed
  <2>2. /\ Fell(j, jobs[u], kinds) /\ Fell(jobs[u], renewed[u], {"render"})
        /\ rendering[u] = renewed[u] /\ JobOK(jobs[u]) /\ JobOK(renewed[u])
    BY <1>1, <1>3, <1>8, <1>11, <2>1, KeptFell DEF Jobs
  <2>3. jobs[u].kind = j.kind /\ renewed[u].kind = j.kind
    BY <2>1, <2>2, FellFacts
  <2>4. Fell(j, renewed[u], kinds \cup {"render"}) /\ (j.kind \in Ahead => renewed[u] = j)
    <3>1. CASE j.kind = "chapter" /\ "chapter" \in kinds
      BY <1>1, <1>3, <1>11, <2>1, <2>3, <3>1 DEF Kept, Fell, Ahead
    <3>2. CASE j.kind = "render"
      BY <1>1, <1>3, <1>11, <2>1, <2>3, <3>2 DEF Kept, Fell, Ahead
    <3>3. CASE j.kind \notin kinds \cup {"render"}
      BY <1>1, <1>3, <1>11, <2>1, <2>3, <3>3 DEF Kept, Fell, Ahead
    <3>4. QED
      BY <3>1, <3>2, <3>3
  <2>5. CASE next[u] = renewed[u]
    BY <2>1, <2>4, <2>5 DEF Turned
  <2>6. CASE renewed[u].kind = "preload" /\ next[u] = [renewed[u] EXCEPT !.current = FALSE]
    BY <2>1, <2>3, <2>4, <2>6 DEF Turned, Fell, Ahead
  <2>7. CASE renewed[u] = Free /\ \E i \in Chapter : Starts(next[u], "preload", "ask", v.book, i)
    <3>1. j = Free
      BY <2>1, <2>3, <2>7, NoJob DEF JobOK
    <3>2. QED
      BY <1>1, <2>1, <2>7, <3>1 DEF Turned, Begins, Ahead
  <2>8. QED
    BY <1>9, <2>2, <2>5, <2>6, <2>7 DEF Preloaded
<1>12. QED
  BY <1>6, <1>10, <1>11 DEF Renders

\* The text that was asked for has come, or has to be rendered again.
LEMMA RenderBegins ==
    ASSUME RInv, Marks, NEW s \in Slot, NEW kinds \in SUBSET {"chapter"},
           NEW jobs, Jobs(jobs), Kept(job, jobs, kinds), NEW cached, theme' \in Theme,
           job' \in Preload(RenderIn(s, jobs, view'), view', cached),
           ViewOK(view'), view'.nodes # Absent,
           \A u \in Slot : u # s /\ job[u].current /\ job[u].kind \notin kinds \cup {"render"} => Belongs(job[u], view'),
           UNCHANGED <<opened, file, library, replaced>>, view'.book = view.book,
           cache' \in [Key -> Shown \cup {Absent}], ~skewed' => ~skewed,
           ~mixed => /\ ViewTrue(view', opened) /\ CacheTrue'
                     /\ (~skewed' => view'.nodes = <<opened, view'.at>>)
                     /\ (view'.error \/ view'.nodes = <<opened, view'.at>>
                         \/ \E u \in Slot : u # s /\ job[u].current /\ job[u].kind \in {"load", "chapter"} \ kinds)
    PROVE  RInv'
<1>1. PICK v : v = view'
  OBVIOUS
<1>2. PICK q : q = job'[s]
  OBVIOUS
<1>3. /\ DOMAIN job' = Slot /\ JobOK(q) /\ q.kind = "render" /\ q.at = "render"
      /\ q.current /\ q.book = v.book /\ q.ix = v.at /\ q.data = v.nodes
      /\ \A u \in Slot : u # s => Turned(job[u], job'[u], kinds \cup {"render"}, v)
  <2>1. PICK rendering, next : /\ rendering = RenderIn(s, jobs, v) /\ next = job'
                               /\ next \in Preload(rendering, v, cached)
    BY <1>1
  <2>2. ViewOK(v) /\ v.nodes # Absent /\ Typed
    BY <1>1 DEF RInv
  <2>3. Renders(next, s, v, kinds)
    BY <2>1, <2>2, Rendering
  <2>4. QED
    BY <1>2, <2>1, <2>3 DEF Renders
<1>4. v.spine # Absent /\ v.book # Absent
  BY <1>1 DEF ViewOK, NoView
<1>5. Belongs(q, view')
  BY <1>1, <1>3, <1>4 DEF Belongs, Requests
<1>6. Order'
  BY <1>1, <1>2, <1>3, <1>5, TurnOrder DEF RInv, Changing
<1>7. Source(q) = v.nodes
  BY <1>3 DEF Source
<1>8. ASSUME ~mixed PROVE JobTrue(q, opened, skewed') /\ Right(job', view', opened')
  <2>1. JobTrue(q, opened, skewed')
    BY <1>1, <1>3, <1>7, <1>8 DEF JobTrue, ImportTrue, LoadTrue, ChapterTrue, RenderTrue, AheadTrue, Ahead, ViewTrue
  <2>2. ASSUME ~view'.error, ~(\E u \in Slot : job'[u].current /\ job'[u].kind \in {"load", "chapter"})
        PROVE  view'.nodes = <<opened, view'.at>>
    <3>1. \A u \in Slot : u # s /\ job[u].kind \in {"load", "chapter"} \ kinds => job'[u] = job[u]
      BY <1>1, <1>3, TurnedFacts DEF RInv, Typed, Changing
    <3>2. QED
      BY <1>8, <2>2, <3>1
  <2>3. \A u \in Slot : job'[u].kind = "render" /\ job'[u].current => u = s
    BY <1>2, <1>3, <1>6 DEF Order, Single, Changing
  <2>4. Right(job', view', opened')
    BY <1>1, <1>2, <1>3, <1>4, <1>7, <2>2, <2>3 DEF Right
  <2>5. QED
    BY <2>1, <2>4
<1>9. view'.book # Absent => library[view'.book] # Absent
  BY DEF RInv, Typed
<1>10. QED
  BY <1>1, <1>2, <1>3, <1>6, <1>8, <1>9, TurnOne

\* What was asked for has not come.
LEMMA ArrivesBroken ==
    ASSUME RInv, Marks, NEW s \in Slot, NEW kinds \in SUBSET {"chapter"},
           NEW jobs, Jobs(jobs), Kept(job, jobs, kinds), job' = [jobs EXCEPT ![s] = Free],
           ViewOK(view'), view'.error, ~view'.loading,
           \A u \in Slot : u # s /\ job[u].current /\ job[u].kind \notin kinds => Belongs(job[u], view'),
           UNCHANGED <<opened, file, library, leaving, cache, theme, late, replaced, skewed>>,
           view'.book = view.book, ~mixed => ViewTrue(view', opened) /\ CacheTrue'
    PROVE  RInv'
<1>1. job'[s] = Free /\ DOMAIN job' = Slot /\ \A u \in Slot : u # s => job'[u] = jobs[u]
  BY DEF Jobs
<1>2. Jobs(job)
  BY DEF Jobs, RInv, Typed
<1>3. \A u \in Slot : u # s => Turned(job[u], job'[u], kinds, view')
  BY <1>1, <1>2, KeptFell DEF Turned
<1>4. Belongs(job'[s], view') /\ ~job'[s].current
  BY <1>1, NoJob
<1>5. Order'
  BY <1>3, <1>4, TurnOrder DEF RInv
<1>6. JobOK(job'[s]) /\ job'[s].kind # "import" /\ \A o, skew : JobTrue(job'[s], o, skew)
  BY <1>1, NoJob
<1>7. Right(job', view', opened')
  BY DEF Right
<1>8. /\ theme' \in Theme /\ cache' \in [Key -> Shown \cup {Absent}]
      /\ view'.book # Absent => library[view'.book] # Absent
  BY DEF RInv, Typed
<1>9. QED
  BY <1>1, <1>3, <1>5, <1>6, <1>7, <1>8, TurnOne

LEMMA LoadDoneStep ==
    ASSUME RInv, Marks, NEW s \in Slot, LoadDone(s)
    PROVE  RInv'
<1>1. PICK j : j = job[s] /\ JobOK(j) /\ j.kind = "load" /\ j.at = "done"
  BY DEF LoadDone, Is, RInv, Typed
<1>2. CASE ~j.current
  BY <1>1, <1>2, EndsQuietly DEF LoadDone
<1>3. CASE j.current
  <2>1. PICK v : v = [view EXCEPT !.spine = j.cover, !.at = j.ix]
    OBVIOUS
  <2>2. PICK jobs : jobs = Renew({"chapter"}, job)
    OBVIOUS
  <2>3. Arrive(s, jobs, v, j.data) /\ UNCHANGED <<opened, file, library, leaving, cache, theme, late, replaced, skewed>>
    BY <1>1, <1>3, <2>1, <2>2 DEF LoadDone
  <2>4. Jobs(jobs) /\ Kept(job, jobs, {"chapter"})
    BY <2>2, RenewKept DEF Jobs, RInv, Typed
  <2>5. view.spine = Absent /\ view.book # Absent /\ j.book = view.book /\ view.nodes = Absent
    BY <1>1, <1>3 DEF RInv, Order, Belongs, Requests, Typed, ViewOK
  <2>6. /\ j.cover \in Book \cup {Absent} /\ j.ix \in Chapter /\ j.book \in Identifier
        /\ j.data \in Text \cup {Absent} /\ (j.data # Absent => j.cover # Absent)
    BY <1>1 DEF JobOK, Carries, Requests
  <2>7. /\ ViewOK(v) /\ v.book = j.book /\ v.spine = j.cover /\ v.at = j.ix /\ v.nodes = Absent /\ v.error = view.error
    BY <2>1, <2>5, <2>6 DEF RInv, Typed, ViewOK
  <2>8. ~mixed => Open(opened, j.book) /\ j.cover = opened /\ j.data \in {Absent, <<opened, j.ix>>}
    <3>1. ~mixed => LoadTrue(j, opened)
      BY <1>1 DEF RInv, Truth, JobTrue
    <3>2. QED
      BY <1>1, <1>3, <3>1 DEF LoadTrue
  <2>9. \A u \in Slot : u # s /\ job[u].current => job[u].kind \notin Requests
    BY <1>1, <1>3, <2>5 DEF RInv, Order, Belongs, Single, Changing, Requests, Ahead
  <2>10. \A u \in Slot : u # s /\ job[u].current => Belongs(job[u], view')
    BY <2>9 DEF Belongs, Requests, Ahead
  <2>11. CASE j.data = Absent
    <3>1. view' = [v EXCEPT !.error = TRUE, !.loading = FALSE] /\ job' = [jobs EXCEPT ![s] = Free]
      BY <2>3, <2>11 DEF Arrive
    <3>2. /\ ViewOK(view') /\ view'.error /\ ~view'.loading /\ view'.book = v.book
          /\ view'.spine = v.spine /\ view'.nodes = v.nodes
      BY <2>5, <2>7, <3>1 DEF ViewOK
    <3>3. ~mixed => ViewTrue(view', opened) /\ CacheTrue'
      BY <2>3, <2>5, <2>7, <2>8, <3>2 DEF ViewTrue, RInv, Truth, CacheTrue
    <3>4. QED
      BY <2>3, <2>4, <2>5, <2>7, <2>10, <3>1, <3>2, <3>3, ArrivesBroken
  <2>12. CASE j.data # Absent
    <3>1. view' = [v EXCEPT !.nodes = j.data, !.loading = TRUE] /\ job' \in Preload(RenderIn(s, jobs, view'), view', cache)
      BY <2>3, <2>12 DEF Arrive
    <3>2. /\ ViewOK(view') /\ view'.book = v.book
          /\ view'.spine = v.spine /\ view'.nodes = j.data /\ view'.at = v.at
      BY <2>5, <2>6, <2>7, <2>12, <3>1 DEF ViewOK
    <3>3. ~mixed => ViewTrue(view', opened) /\ view'.nodes = <<opened, view'.at>> /\ CacheTrue'
      BY <2>3, <2>5, <2>7, <2>8, <2>12, <3>2 DEF ViewTrue, RInv, Truth, CacheTrue
    <3>4. theme' \in Theme /\ cache' \in [Key -> Shown \cup {Absent}]
      BY <2>3 DEF RInv, Typed
    <3>5. QED
      BY <2>3, <2>4, <2>5, <2>6, <2>7, <2>10, <2>12, <3>1, <3>2, <3>3, <3>4, RenderBegins
  <2>13. QED
    BY <2>11, <2>12
<1>4. QED
  BY <1>2, <1>3

LEMMA ChapterDoneStep ==
    ASSUME RInv, Marks, NEW s \in Slot, ChapterDone(s)
    PROVE  RInv'
<1>1. PICK j : j = job[s] /\ JobOK(j) /\ j.kind = "chapter" /\ j.at = "done"
  BY DEF ChapterDone, Is, RInv, Typed
<1>2. CASE ~j.current
  BY <1>1, <1>2, EndsQuietly DEF ChapterDone
<1>3. CASE j.current
  <2>1. Arrive(s, job, view, j.data) /\ UNCHANGED <<opened, file, library, leaving, cache, theme, late, replaced, skewed>>
    BY <1>1, <1>3 DEF ChapterDone
  <2>2. Jobs(job) /\ Kept(job, job, {})
    BY DEF Jobs, Kept, RInv, Typed
  <2>3. view.spine # Absent /\ view.book # Absent /\ j.book = view.book /\ j.ix = view.at /\ ViewOK(view)
    BY <1>1, <1>3 DEF RInv, Order, Belongs, Requests, Typed
  <2>4. j.data \in Text \cup {Absent}
    BY <1>1 DEF JobOK, Carries
  <2>5. ~mixed => ViewTrue(view, opened) /\ CacheTrue /\ j.data \in {Absent, <<opened, j.ix>>}
    BY <1>1, <1>3 DEF RInv, Truth, JobTrue, ChapterTrue
  <2>6. CASE j.data = Absent
    <3>1. view' = [view EXCEPT !.error = TRUE, !.loading = FALSE] /\ job' = [job EXCEPT ![s] = Free]
      BY <2>1, <2>6 DEF Arrive
    <3>2. /\ ViewOK(view') /\ view'.error /\ ~view'.loading /\ view'.book = view.book
          /\ view'.spine = view.spine /\ view'.nodes = view.nodes /\ view'.at = view.at
      BY <2>3, <3>1 DEF ViewOK
    <3>3. \A u \in Slot : Belongs(job[u], view')
      BY <3>2 DEF RInv, Order, Belongs
    <3>4. ~mixed => ViewTrue(view', opened) /\ CacheTrue'
      BY <2>1, <2>5, <3>2 DEF ViewTrue, CacheTrue
    <3>5. QED
      BY <2>1, <2>2, <3>1, <3>2, <3>3, <3>4, ArrivesBroken
  <2>7. CASE j.data # Absent
    <3>1. view' = [view EXCEPT !.nodes = j.data, !.loading = TRUE] /\ job' \in Preload(RenderIn(s, job, view'), view', cache)
      BY <2>1, <2>7 DEF Arrive
    <3>2. /\ ViewOK(view') /\ view'.book = view.book
          /\ view'.spine = view.spine /\ view'.nodes = j.data /\ view'.at = view.at
      BY <2>3, <2>4, <2>7, <3>1 DEF ViewOK
    <3>3. \A u \in Slot : Belongs(job[u], view')
      BY <3>2 DEF RInv, Order, Belongs
    <3>4. ~mixed => ViewTrue(view', opened) /\ view'.nodes = <<opened, view'.at>> /\ CacheTrue'
      BY <2>1, <2>3, <2>5, <2>7, <3>2 DEF ViewTrue, CacheTrue
    <3>5. theme' \in Theme /\ cache' \in [Key -> Shown \cup {Absent}]
      BY <2>1 DEF RInv, Typed
    <3>6. QED
      BY <2>1, <2>2, <2>7, <3>1, <3>2, <3>3, <3>4, <3>5, RenderBegins
  <2>8. QED
    BY <2>6, <2>7
<1>4. QED
  BY <1>2, <1>3

LEMMA ChangeAppearanceStep ==
    ASSUME RInv, Marks, ChangeAppearance
    PROVE  RInv'
<1>1. theme' \in Theme /\ UNCHANGED <<opened, file, library, leaving, late, replaced>>
  <2>1. theme \in 0 .. MaxThemes /\ theme < MaxThemes /\ theme' = theme + 1 /\ MaxThemes \in Nat
    BY BookReaderAssumption DEF ChangeAppearance, RInv, Typed, Theme
  <2>2. theme' \in 0 .. MaxThemes
    BY <2>1
  <2>3. QED
    BY <2>2 DEF ChangeAppearance, Theme
<1>2. CASE view.nodes = Absent
  <2>1. UNCHANGED <<view, job, cache, skewed>>
    BY <1>2 DEF ChangeAppearance
  <2>2. Typed' /\ Order'
    BY <1>1, <2>1 DEF RInv, Typed, Order, Single, Caused
  <2>3. Truth'
    BY <1>1, <2>1 DEF Marks, RInv, Truth, Right, Shelf, Is, CacheTrue
  <2>4. QED
    BY <2>2, <2>3 DEF RInv
<1>3. CASE view.nodes # Absent
  <2>1. /\ FreeSlots(job) # {} /\ Invalidate(view.book) /\ view' = [view EXCEPT !.loading = TRUE]
        /\ job' \in Preload(RenderIn(FreeSlot(job), job, view), view, cache')
        /\ skewed' = (skewed \/ view.nodes[2] # view.at)
    BY <1>3 DEF ChangeAppearance
  <2>2. PICK s \in Slot : s = FreeSlot(job) /\ job[s] = Free
    BY <2>1, FreeSlotIsFree
  <2>3. ViewOK(view) /\ view.book # Absent /\ view.nodes \in Text /\ Jobs(job) /\ Kept(job, job, {})
    BY <1>3 DEF RInv, Typed, ViewOK, NoView, Jobs, Kept
  <2>4. /\ ViewOK(view') /\ view'.book = view.book /\ view'.spine = view.spine /\ view'.at = view.at
        /\ view'.nodes = view.nodes /\ view'.error = view.error
    BY <2>1, <2>3 DEF ViewOK
  <2>5. cache' \in [Key -> Shown \cup {Absent}] /\ \A k \in Key : cache'[k] \in {Absent, cache[k]}
    BY <2>1, InvalidateFacts DEF RInv
  <2>6. \A u \in Slot : Belongs(job[u], view')
    BY <2>4 DEF RInv, Order, Belongs
  <2>7. Preload(RenderIn(s, job, view), view, cache') = Preload(RenderIn(s, job, view'), view', cache')
    BY <2>4 DEF RenderIn, Preload, PreloadOf
  <2>8. (~skewed' => view.nodes[2] = view.at /\ ~skewed) /\ view.nodes = <<view.nodes[1], view.nodes[2]>>
    <3>1. ~skewed' => view.nodes[2] = view.at /\ ~skewed
      BY <2>1, Zenon
    <3>2. view.nodes = <<view.nodes[1], view.nodes[2]>>
      BY <2>3 DEF Text
    <3>3. QED
      BY <3>1, <3>2
  <2>9. ASSUME ~mixed
        PROVE  /\ ViewTrue(view', opened) /\ CacheTrue'
               /\ (~skewed' => view'.nodes = <<opened, view'.at>>)
               /\ (view'.error \/ view'.nodes = <<opened, view'.at>>
                   \/ \E u \in Slot : u # s /\ job[u].current /\ job[u].kind \in {"load", "chapter"} \ {})
    <3>1. ViewTrue(view, opened) /\ CacheTrue /\ Right(job, view, opened)
      BY <2>9 DEF RInv, Truth
    <3>2. ViewTrue(view', opened) /\ view.nodes[1] = opened
      BY <1>3, <2>4, <3>1 DEF ViewTrue
    <3>3. CacheTrue'
      BY <1>1, <2>4, <2>5, <2>8, <3>1 DEF CacheTrue
    <3>4. \A u \in Slot : job[u].current => u # s
      BY <2>2, NoJob
    <3>5. view.error \/ view.nodes = <<opened, view.at>>
          \/ \E u \in Slot : u # s /\ job[u].current /\ job[u].kind \in {"load", "chapter"}
      BY <2>3, <3>1, <3>4 DEF Right
    <3>6. QED
      BY <2>4, <2>8, <3>2, <3>3, <3>5
  <2>10. job' \in Preload(RenderIn(s, job, view'), view', cache')
    BY <2>1, <2>2, <2>7
  <2>11. PICK cached : cached = cache'
    OBVIOUS
  <2>12. QED
    BY <1>1, <1>3, <2>3, <2>4, <2>5, <2>6, <2>8, <2>9, <2>10, <2>11, RenderBegins
<1>4. QED
  BY <1>2, <1>3

LEMMA ReturnToLibraryStep ==
    ASSUME RInv, Marks, ReturnToLibrary
    PROVE  RInv'
<1>1. /\ view.book # Absent /\ job' = Renew(Requests, job) /\ opened' = Absent /\ view' = NoView
      /\ library' = [library EXCEPT ![view.book].read = IF @ = "memory" THEN "original" ELSE @]
      /\ Invalidate(view.book) /\ UNCHANGED <<file, theme, late, replaced, skewed>>
  BY DEF ReturnToLibrary
<1>2. Jobs(job) /\ Jobs(job') /\ Kept(job, job', Requests)
  BY <1>1, RenewKept DEF Jobs, RInv, Typed, Requests
<1>3. \A u \in Slot : Fell(job[u], job'[u], Requests)
  BY <1>2, KeptFell DEF Requests
<1>4. /\ cache' \in [Key -> Shown \cup {Absent}] /\ \A k \in Key : cache'[k] \in {Absent, cache[k]}
      /\ \A k \in Key : k[1] = view.book => cache'[k] = Absent
  BY <1>1, InvalidateFacts DEF RInv
\* Data in memory are given up; that is all that changes in the library.
<1>11. /\ library' \in [Identifier -> Entry \cup {Absent}]
       /\ \A i \in Identifier : \/ library'[i] = library[i]
                                \/ /\ library[i] # Absent /\ library'[i].cover = library[i].cover
                                   /\ library'[i].from = library[i].from
                                   /\ (library'[i].read = "copy" => library[i].read = "copy")
  <2>1. view.book \in Identifier /\ library[view.book] \in Entry /\ library[view.book] # Absent
    BY <1>1 DEF RInv, Typed, ViewOK
  <2>2. PICK e : e = [library[view.book] EXCEPT !.read = IF @ = "memory" THEN "original" ELSE @]
    OBVIOUS
  <2>3. /\ e \in Entry /\ e.cover = library[view.book].cover /\ e.from = library[view.book].from
        /\ (e.read = "copy" => library[view.book].read = "copy")
    BY <2>1, <2>2 DEF Entry
  <2>4. library' = [library EXCEPT ![view.book] = e] /\ library \in [Identifier -> Entry \cup {Absent}]
    BY <1>1, <2>2 DEF RInv, Typed
  <2>5. QED
    BY <2>1, <2>3, <2>4
<1>5. ViewOK(view') /\ view'.book = Absent /\ view'.spine = Absent /\ view'.nodes = Absent /\ ~view'.loading
  BY <1>1, BookReaderAssumption DEF ViewOK, NoView, Chapter
<1>6. \A u \in Slot : job'[u].current => job'[u].kind \notin Requests
  BY <1>2, <1>3, FellFacts DEF Jobs
<1>7. Typed'
  BY <1>1, <1>2, <1>4, <1>5, <1>11 DEF RInv, Typed, Jobs
<1>8. Order'
  BY <1>5, <1>6 DEF Order, Belongs, Single, Caused, Requests, Changing, Ahead
<1>9. ASSUME ~mixed' PROVE /\ ~Crowded(job', view', leaving')
                           /\ \A u \in Slot : JobTrue(job'[u], opened', skewed')
                           /\ ViewTrue(view', opened') /\ Right(job', view', opened') /\ Shelf' /\ CacheTrue'
  <2>1. /\ ~mixed /\ ~Crowded(job', view', leaving') /\ ~Crowded(job, view, leaving)
        /\ Shelf /\ CacheTrue /\ \A u \in Slot : JobTrue(job[u], opened, skewed)
    BY <1>9 DEF Marks, RInv, Truth
  <2>2. Imports(job) = {}
    BY <1>1, <2>1, Sole
  <2>3. ASSUME NEW u \in Slot PROVE JobTrue(job'[u], opened', skewed')
    <3>1. JobTrue(job'[u], opened, skewed) /\ job'[u].kind = job[u].kind /\ job'[u].at = job[u].at
      BY <1>2, <1>3, <2>1, FellFacts DEF Jobs
    <3>2. ~(job'[u].kind = "import" /\ job'[u].at \in {"metadata", "cover"})
      BY <2>2, <3>1 DEF Imports
    <3>3. ~(job'[u].current /\ job'[u].kind \in Requests)
      BY <1>6
    <3>4. QED
      BY <1>1, <3>1, <3>2, <3>3, Elsewhere
  <2>4. \A u \in Slot : Is(u, "import", "stored")' => Is(u, "import", "stored") /\ job'[u].data = job[u].data
    BY <1>2, <1>3, FellFacts DEF Is, Jobs
  <2>5. Shelf'
    BY <1>1, <1>11, <2>1, <2>4 DEF Shelf
  <2>6. CacheTrue'
    BY <1>1, <1>4, <2>1 DEF CacheTrue
  <2>7. QED
    BY <1>5, <2>1, <2>3, <2>5, <2>6 DEF ViewTrue, Right
<1>10. QED
  BY <1>7, <1>8, <1>9 DEF RInv, Truth

-----------------------------------------------------------------------------
(* The invariant, and what follows from it.                                *)

LEMMA RInit == Init => RInv
<1> SUFFICES ASSUME Init PROVE RInv
  OBVIOUS
<1>1. ViewOK(view) /\ view.book = Absent /\ view.spine = Absent /\ view.nodes = Absent /\ ~view.loading
  BY BookReaderAssumption DEF Init, ViewOK, NoView, Chapter
<1>2. DOMAIN job = Slot /\ \A s \in Slot : job[s] = Free
  BY DEF Init
<1>3. Typed
  BY <1>1, <1>2, FreeOK, BookReaderAssumption DEF Init, Typed, Theme
<1>4. \A s \in Slot : ~job[s].current /\ job[s].kind = "free"
  BY <1>2, NoJob
<1>5. Order
  BY <1>1, <1>4 DEF Order, Belongs, Single, Caused
<1>6. ~Crowded(job, view, leaving)
  <2>1. Imports(job) = {}
    BY <1>4 DEF Imports
  <2>2. Cardinality(Imports(job)) = 0
    BY <2>1, FS_EmptySet
  <2>3. ~Left(job, leaving)
    BY <1>4 DEF Left, Init
  <2>4. QED
    BY <1>1, <2>2, <2>3 DEF Crowded
<1>7. \A s \in Slot : JobTrue(job[s], opened, skewed)
  BY <1>2, NoJob
<1>8. Shelf /\ CacheTrue
  BY <1>4 DEF Init, Shelf, CacheTrue, Is
<1>9. ViewTrue(view, opened) /\ Right(job, view, opened)
  BY <1>1 DEF ViewTrue, Right
<1>10. QED
  BY <1>3, <1>5, <1>6, <1>7, <1>8, <1>9 DEF RInv, Truth

LEMMA RNext == RInv /\ [Next]_vars => RInv'
<1> SUFFICES ASSUME RInv, [Next]_vars PROVE RInv'
  OBVIOUS
<1>1. CASE UNCHANGED vars
  <2>1. Typed' /\ Order'
    BY <1>1 DEF vars, RInv, Typed, Order, Single, Caused
  <2>2. Truth'
    BY <1>1 DEF vars, RInv, Truth, Right, Shelf, Is, CacheTrue
  <2>3. QED
    BY <2>1, <2>2 DEF RInv
<1>2. CASE Next
  <2>1. Marks
    BY <1>2 DEF Next, Marks
  <2>2. CASE User
    <3>1. ASSUME NEW b \in Book, StartImport(b) PROVE RInv'
      BY <2>1, <3>1, StartImportStep
    <3>2. ASSUME NEW i \in Identifier, RemoveBook(i) \/ OpenReader(i) PROVE RInv'
      BY <2>1, <3>2, RemoveBookStep, OpenReaderStep
    <3>3. ASSUME NEW i \in Chapter, Navigate(i) PROVE RInv'
      BY <2>1, <3>3, NavigateStep
    <3>4. QED
      BY <2>1, <2>2, <3>1, <3>2, <3>3, RetryStep, TurnPageStep, ChangeAppearanceStep, ReturnToLibraryStep DEF User
  <2>3. ASSUME NEW s \in Slot, ImportStep(s) PROVE RInv'
    BY <2>1, <2>3, ImportOpenStep, ImportMetadataStep, ImportCoverStep, ImportCloseStep,
       ImportStoreStep, ImportDoneStep DEF ImportStep
  <2>4. ASSUME NEW s \in Slot, ReaderStep(s) PROVE RInv'
    <3>1. CASE LoadOpen(s) \/ LoadMetadata(s) \/ LoadSpine(s) \/ LoadChapter(s) \/ LoadDone(s) \/ LoadFailed(s)
      BY <2>1, <3>1, LoadOpenStep, LoadMetadataStep, LoadSpineStep, LoadChapterStep, LoadDoneStep, LoadFailedStep
    <3>2. CASE ChapterRead(s) \/ ChapterDone(s) \/ Render(s) \/ RenderDone(s)
      BY <2>1, <3>2, ChapterReadStep, ChapterDoneStep, RenderStep, RenderDoneStep
    <3>3. CASE Ask(s) \/ ReadAhead(s) \/ RenderAhead(s) \/ CacheAhead(s)
      BY <2>1, <3>3, AskStep, ReadAheadStep, RenderAheadStep, CacheAheadStep
    <3>4. QED
      BY <2>4, <3>1, <3>2, <3>3 DEF ReaderStep
  <2>5. QED
    BY <1>2, <2>1, <2>2, <2>3, <2>4, PagesUpdatedStep, DisappearStep DEF Next
<1>3. QED
  BY <1>1, <1>2

\* However imports, loads, page turns, renderings, readings ahead and closings of the
\* application interleave, jobs carry what their place says, a current one belongs
\* where the view is and there is one of a kind; and as long as the open book has one
\* user at a time, what each has read is of the book and the chapter it is for.
THEOREM ReaderInvariance == Spec => []RInv
  BY RInit, RNext, PTL DEF Spec

\* The variables of the reader have their types.
THEOREM ReaderTyped == Spec => []TypeOK
<1>1. RInv => TypeOK
  BY DEF RInv, Typed, ViewOK, JobOK, Shown, TypeOK
<1>2. QED
  BY <1>1, ReaderInvariance, PTL

\* While the reader is loading, a request is under way that will end it.
THEOREM ReaderIsServed == Spec => []LoadingHasCause
<1>1. RInv => LoadingHasCause
  BY DEF RInv, Order, Caused, Changing, Settled, LoadingHasCause
<1>2. QED
  BY <1>1, ReaderInvariance, PTL

\* Whatever files are imported (importEpubBook), removed and read, a book in the
\* library has the cover and the text of one file that has its identifier, whether its
\* copy could be written or not - unless the import overlapped with another use of the
\* open book.  If another import replaced the copy, by a file with this identifier or
\* with one that gives the same name, or the copy was removed for another book or under
\* its import, the cover is still true, and the text is of a file filed under that name.
THEOREM ImportsAreTrue == Spec => []ImportIsTrue
<1>1. RInv => ImportIsTrue
  <2>1. ASSUME Typed, Shelf, NEW i \in Identifier, library[i] # Absent
        PROVE  /\ library[i].cover = library[i].from /\ IdOf[library[i].from] = i
               /\ IF i \notin replaced THEN Held(i) = library[i].from
                  ELSE Held(i) # Absent => Filed(Held(i), i)
    <3>1. NameOf[i] \in Name
      BY DEF Name
    <3>2. QED
      BY <2>1, <3>1 DEF Shelf, Held, Filed
  <2>2. QED
    BY <2>1 DEF RInv, Truth, ImportIsTrue
<1>2. QED
  BY <1>1, ReaderInvariance, PTL

\* The cache of chapters has for the book in view the chapters that its keys name, with
\* their pictures, of the file that is open; with the exceptions that CacheIsTrue names.
THEOREM CachedIsTrue == Spec => []CacheIsTrue
<1>1. RInv => CacheIsTrue
  BY DEF RInv, Truth, CacheTrue, CacheIsTrue
<1>2. QED
  BY <1>1, ReaderInvariance, PTL

\* Once no request is going to change it, what the reader shows is the chapter where
\* it says it is, with its pictures, of the file that is open, which is filed like the
\* book in view - if nobody else used the open book.
THEOREM ReaderShowsCurrent == Spec => []ShownIsCurrent
<1>1. ASSUME RInv, view.book # Absent, Settled, ~view.error, ~mixed
      PROVE  view.shown = True(<<opened, view.at>>) /\ Filed(opened, view.book)
  <2>1. Right(job, view, opened) /\ ViewTrue(view, opened)
    BY <1>1 DEF RInv, Truth
  <2>2. \A s \in Slot : ~(job[s].current /\ job[s].kind \in {"load", "chapter", "render"})
    BY <1>1 DEF Settled
  <2>3. view.spine # Absent /\ view.shown = True(<<opened, view.at>>)
    BY <1>1, <2>1, <2>2 DEF Right
  <2>4. QED
    BY <2>1, <2>3 DEF ViewTrue, Open
<1>2. RInv => ShownIsCurrent
  BY <1>1 DEF ShownIsCurrent
<1>3. QED
  BY <1>2, ReaderInvariance, PTL
=============================================================================
