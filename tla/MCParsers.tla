----------------------------- MODULE MCParsers -----------------------------
(***************************************************************************)
(* The parsers, each on its own inputs: the documents of an EPUB, a plain  *)
(* text, and a package with a link and the files of the archive.           *)
(***************************************************************************)
EXTENDS EpubParser, TxtParser, EpubPaths

CONSTANTS MaxBytes   \* bound: bytes of a text

VARIABLES text, package, href, files

inputs == <<text, package, href, files>>
vars == <<kind, doc, open, p, text, package, href, files>>

MCTokens == [package |-> 9, ncx |-> 18, nav |-> 12, chapter |-> 8]

Item(path, is) == [href |-> path, nav |-> is = "nav", ncx |-> is = "ncx", cover |-> is = "cover"]
Paths == {<<"x">>, <<"y">>, <<"t", "x">>}
Marks == {"plain", "nav", "ncx", "cover"}
Links == Paths \cup {<<"..", "x">>, <<"t", "..", "x">>, <<"t", ".", "x">>}
Packages == [base : {<< >>, <<"o">>}, manifest : [{"a", "b"} -> {Item(path, is) : path \in Paths, is \in Marks}],
             spine : {<<"a">>, <<"b", "a">>, <<"a", "c", "b">>}, toc : {"a"}]
NoPackage == [base |-> << >>, manifest |-> << >>, spine |-> << >>, toc |-> "a"]
Archives == SUBSET {<<"x">>, <<"t", "x">>, <<"o", "x">>, <<"o", "t", "x">>}

Init ==
    \/ /\ EpubInit
       /\ text = << >> /\ package = NoPackage /\ href = << >> /\ files = {}
    \/ /\ kind \in {"text", "link"} /\ doc = << >> /\ open = << >> /\ p = << >> /\ text = << >>
       /\ IF kind = "link" THEN package \in Packages /\ href \in Links /\ files \in Archives
          ELSE package = NoPackage /\ href = << >> /\ files = {}

\* A text, character by character.
Grow ==
    /\ kind = "text"
    /\ \E c \in Characters : Len(text) + Len(c) <= MaxBytes /\ text' = text \o c
    /\ UNCHANGED <<kind, doc, open, p, package, href, files>>

Next == Grow \/ (kind \in Kinds /\ EpubNext /\ UNCHANGED inputs)

Spec == Init /\ [][Next]_vars

-----------------------------------------------------------------------------
\* The package is read as it says, and the table of contents is listed point by point;
\* links and pictures lead to files of their names, and the plain ones to the files they
\* mean; and the same files are chosen on every reading.  Not promised, since the code
\* does otherwise: the title and the target of an NCX point that has points within it,
\* the level of a link after an inner list of a navigation document, the chapter that a
\* link with `.' or `..' means, and files that several items of the package claim to be
\* (NcxIsDocument, NavIsDocument, LinksLead, PicturesLead and FoundAgain say how far).
ContentsIsDocument ==
    /\ ListedIsDocument
    /\ kind = "link" => /\ LinksLead(package, href)
                        /\ PicturesLead(files, package, href)
                        /\ FoundAgain(package, "a")

\* A text comes out of the parser with every character, in order, and cut into
\* chapters and paragraphs where it says.
TextIsKept ==
    ParagraphsAreText(text) /\ ChaptersAreText(text) /\ \A n \in 1 .. 3 : ChunksAreText(text, n)
=============================================================================
