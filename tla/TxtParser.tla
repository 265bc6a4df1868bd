----------------------------- MODULE TxtParser -----------------------------
(***************************************************************************)
(* Plain-text books (crates/core_parser/src/txt.rs): decoding in chunks,   *)
(* paragraphs, chapters by their headings and chapters by size.            *)
(*                                                                         *)
(* A text is a sequence of bytes: "n" and "r" are the newline and the      *)
(* carriage return, "s" is any other white space, "h" stands for what      *)
(* begins a heading (the word and the number of a chapter), "L" followed   *)
(* by "c" is one character of two bytes, and "a" is any other character.   *)
(* Which encoding a file has is left out.                                  *)
(***************************************************************************)
EXTENDS SequencesExt

CONSTANTS
    ChunkSize,  \* bytes of a chapter that is cut by size (5000 in the code)
    LookBack    \* bytes before the cut in which a line may end (200 in the code)

ASSUME TxtParserAssumption == LookBack \in Nat /\ ChunkSize \in Nat /\ LookBack < ChunkSize

LineEnd == {"n", "r"}
White == LineEnd \cup {"s"}
Characters == {<<c>> : c \in White \cup {"h", "a"}} \cup {<<"L", "c">>}

Visible(t) == SelectSeq(t, LAMBDA c : c \notin White)

\* str::trim
Trim(t) ==
    LET V == {i \in DOMAIN t : t[i] \notin White}
    IN IF V = {} THEN << >> ELSE SubSeq(t, Min(V), Max(V))

From(t, i) == SubSeq(t, i, Len(t))

\* The first position from i on, of a byte outside S; one past the end if there is none.
After(t, i, S) == Min({j \in i .. Len(t) : t[j] \notin S} \cup {Len(t) + 1})

\* What a slice &text[..i] does inside a character: it panics.
CutsCharacter(t, i) == i < Len(t) /\ t[i + 1] = "c"

-----------------------------------------------------------------------------
(* split_into_paragraphs and split_paragraphs *)

RECURSIVE Segments(_)
Segments(t) ==
    LET breaks == {i \in 2 .. Len(t) : {t[i - 1], t[i]} \subseteq LineEnd}
    IN IF breaks = {} THEN <<t>>
       ELSE LET i == Min(breaks)
            IN <<SubSeq(t, 1, i - 1)>> \o Segments(From(t, After(t, i, LineEnd)))

Paragraphs(t) ==
    LET trimmed == [k \in DOMAIN Segments(t) |-> Trim(Segments(t)[k])]
    IN SelectSeq(trimmed, LAMBDA p : p # << >>)

-----------------------------------------------------------------------------
(* split_by_size *)

\* Mutant of Cut: the newline after the cut is skipped.
CutPast(t, start) ==
    LET end == start + ChunkSize
        lines == {j \in end - LookBack + 1 .. end : t[j] = "n"}
    IN IF end >= Len(t) THEN Len(t) ELSE IF lines = {} THEN end + 1 ELSE Max(lines)

\* Where the piece that begins after start ends: at the last empty line of the
\* LookBack bytes before ChunkSize, or else the last line, or else right there.
Cut(t, start) ==
    LET end == start + ChunkSize
        lines == {j \in (IF end > LookBack THEN end - LookBack ELSE start) + 1 .. end : t[j] = "n"}
        empty == {j \in lines : \/ j >= 2 /\ t[j - 1] = "n"
                                \/ j >= 4 /\ SubSeq(t, j - 3, j - 1) = <<"r", "n", "r">>}
    IN IF end >= Len(t) THEN Len(t)
       ELSE Max(IF empty # {} THEN empty ELSE IF lines # {} THEN lines ELSE {end})

\* The ends of the pieces of a trimmed text, from start on.
RECURSIVE Cuts(_, _)
Cuts(t, start) ==
    IF start >= Len(t) THEN << >> ELSE <<Cut(t, start)>> \o Cuts(t, Cut(t, start))

Panics(t) == \E k \in DOMAIN Cuts(t, 0) : CutsCharacter(t, Cuts(t, 0)[k])

Pieces(t) ==
    LET ends == <<0>> \o Cuts(t, 0)
        piece == [k \in 1 .. Len(ends) - 1 |-> Trim(SubSeq(t, ends[k] + 1, ends[k + 1]))]
    IN SelectSeq(piece, LAMBDA p : p # << >>)

\* A title of no bytes is one that the parser makes up.
Untitled(content) == [title |-> << >>, content |-> content]

SplitBySize(t) ==
    [k \in DOMAIN Pieces(Trim(t)) |-> Untitled(Pieces(Trim(t))[k])]

-----------------------------------------------------------------------------
(* split_into_chapters *)

\* CHAPTER_RE: a heading begins a line, but for white space.  What follows belongs
\* to the match as well: white space, line ends included, and then the rest of a line.
BeginsLine(t, i) ==
    \A j \in 1 .. i - 1 : t[j] \notin White => "n" \in Range(SubSeq(t, j, i - 1))

RECURSIVE Headings(_, _)
Headings(t, from) ==
    LET starts == {i \in from .. Len(t) : t[i] = "h" /\ BeginsLine(t, i)}
    IN IF starts = {} THEN << >>
       ELSE LET at == Min(starts)
                line == After(t, at + 1, White)
                end == Min({j \in line .. Len(t) : t[j] = "n"} \cup {Len(t) + 1})
            IN <<[at |-> at, end |-> end]>> \o Headings(t, end)

SplitIntoChapters(t) ==
    LET M == Headings(t, 1)
        pre == Trim(SubSeq(t, 1, M[1].at - 1))
        chapter == [k \in DOMAIN M |->
                       [title |-> Trim(SubSeq(t, M[k].at, M[k].end - 1)),
                        content |-> Trim(SubSeq(t, M[k].end, IF k < Len(M) THEN M[k + 1].at - 1
                                                             ELSE Len(t)))]]
    IN IF Len(M) < 2 THEN SplitBySize(t)
       ELSE (IF pre = << >> THEN << >> ELSE <<Untitled(pre)>>) \o chapter

-----------------------------------------------------------------------------
(* parse_chunked *)

\* Each chunk of n bytes is decoded on its own: what is left of a character that
\* the end of a chunk cuts is replaced.
DecodeChunked(t, n) ==
    [i \in DOMAIN t |->
        IF \/ t[i] = "L" /\ i % n = 0
           \/ t[i] = "c" /\ (i - 1) % n = 0 THEN "?" ELSE t[i]]

-----------------------------------------------------------------------------
(* What these promise of a text. *)

\* Paragraphs lose no character and keep the order, and where lines end in "\n"
\* there are as many as empty lines separate.
ParagraphsAreText(t) ==
    LET seen == {i \in DOMAIN t : t[i] \notin White}
        first == {i \in seen : \A j \in seen : j < i =>
                     \E k \in j .. i - 1 : t[k] = "n" /\ t[k + 1] = "n"}
    IN /\ Visible(FlattenSeq(Paragraphs(t))) = Visible(t)
       /\ "r" \notin Range(t) => Len(Paragraphs(t)) = Cardinality(first)

\* Chapters lose no character and keep the order; those that are cut by size keep
\* to it, and a character is cut only where lines are longer than LookBack.
ChaptersAreText(t) ==
    LET C == SplitIntoChapters(t)
        bySize == Len(Headings(t, 1)) < 2
        short == \A i \in LookBack .. Len(Trim(t)) :
                    "n" \in Range(SubSeq(Trim(t), i - LookBack + 1, i))
    IN IF bySize /\ Panics(Trim(t)) THEN ~short
       ELSE /\ Visible(FlattenSeq([k \in DOMAIN C |-> C[k].title \o C[k].content])) = Visible(t)
            /\ bySize => \A k \in DOMAIN C : Len(C[k].content) <= ChunkSize

\* Decoding in chunks is decoding, unless the end of a chunk cuts a character.
ChunksAreText(t, n) ==
    DecodeChunked(t, n) = t \/ \E i \in DOMAIN t : i % n = 0 /\ CutsCharacter(t, i)
=============================================================================
