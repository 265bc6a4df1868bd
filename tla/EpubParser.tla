----------------------------- MODULE EpubParser -----------------------------
(***************************************************************************)
(* EPUB books (crates/core_parser/src/epub.rs).  A document of the archive *)
(* is a sequence of XML tokens, and a parser a loop over them with local   *)
(* variables; what a tag, a text or a target says is its position in the   *)
(* document, 0 for the empty string.  The documents are well formed: the   *)
(* XML reader refuses others.                                              *)
(*                                                                         *)
(*   package  the OPF file: identifier, manifest and spine                 *)
(*   ncx, nav the two forms of a table of contents                         *)
(*   chapter  a content document, which becomes a DOM tree                 *)
(***************************************************************************)
EXTENDS SequencesExt

CONSTANTS
    Kinds,      \* kinds of documents
    MaxTokens   \* bound: tokens of a document, by its kind

VARIABLES
    kind,  \* the kind of the document
    doc,   \* the tokens read so far
    open,  \* the elements of doc that are not closed
    p      \* the variables of the parser's loop

epubVars == <<kind, doc, open, p>>

Token == [type : {"start", "empty", "text", "end"}, name : STRING]
Is(i, type, name) == doc[i].type = type /\ doc[i].name = name
Prev(type, name) == doc # << >> /\ Is(Len(doc), type, name)
Inner == IF open = << >> THEN "" ELSE Last(open)

\* The variables before the loop.
Fresh == [
    package |-> [identifier |-> 0, title |-> 0, manifest |-> << >>, idrefs |-> << >>, tag |-> "",
                 inMetadata |-> FALSE, inManifest |-> FALSE, inSpine |-> FALSE],
    ncx     |-> [stack |-> << << >> >>, title |-> 0, href |-> 0, inText |-> FALSE, depth |-> 0],
    nav     |-> [entries |-> << >>, title |-> << >>, href |-> 0, inA |-> FALSE,
                 inNavToc |-> FALSE, depth |-> 0, olDepth |-> 0],
    chapter |-> [roots |-> << >>, stack |-> << >>, counters |-> <<0>>, inBody |-> FALSE]]

Minus1(n) == IF n = 0 THEN 0 ELSE n - 1   \* saturating_sub

-----------------------------------------------------------------------------
(* ensure_opf_cache.  Items and references have the id of their name. *)

PackageStart(q, name) ==
    LET r == [q EXCEPT !.inMetadata = @ \/ name = "metadata",
                       !.inManifest = @ \/ name = "manifest",
                       !.inSpine = @ \/ name = "spine"]
    IN IF r.inMetadata THEN [r EXCEPT !.tag = name] ELSE r

PackageText(q, i) ==
    IF ~q.inMetadata THEN q
    ELSE CASE q.tag = "title" -> [q EXCEPT !.title = i]
           [] q.tag = "identifier" /\ q.identifier = 0 -> [q EXCEPT !.identifier = i]
           [] OTHER -> q

Items == {"item a", "item b"}
References == {"itemref a", "itemref b"}
IdOf == [name \in Items \cup References |-> IF name \in {"item a", "itemref a"} THEN "a" ELSE "b"]

PackageEmpty(q, name, i) ==
    CASE q.inManifest /\ name \in Items ->
             [q EXCEPT !.manifest = (IdOf[name] :> i) @@ @]
      [] q.inSpine /\ name \in References -> [q EXCEPT !.idrefs = Append(@, IdOf[name])]
      [] OTHER -> q

PackageEnd(q, name) ==
    [q EXCEPT !.inMetadata = @ /\ name # "metadata", !.inManifest = @ /\ name # "manifest",
              !.inSpine = @ /\ name # "spine", !.tag = ""]

\* get_spine: an idref that no item has is passed over.
GetSpine(q) ==
    LET known == SelectSeq(q.idrefs, LAMBDA id : id \in DOMAIN q.manifest)
    IN [k \in DOMAIN known |-> q.manifest[known[k]]]

-----------------------------------------------------------------------------
(* parse_ncx_toc *)

NcxStart(q, name) ==
    CASE name = "navPoint" -> [q EXCEPT !.depth = @ + 1, !.stack = Append(@, << >>),
                                        !.title = 0, !.href = 0]
      [] name = "text" -> [q EXCEPT !.inText = TRUE]
      [] OTHER -> q

NcxText(q, i) == IF q.inText THEN [q EXCEPT !.title = i] ELSE q
NcxEmpty(q, name, i) == IF name = "content" THEN [q EXCEPT !.href = i] ELSE q

\* Mutant of NcxEnd: the level is taken before it is left.
NcxEndLate(q, name) ==
    CASE name = "text" -> [q EXCEPT !.inText = FALSE]
      [] name = "navPoint" ->
             LET entry == [title |-> q.title, href |-> q.href, level |-> q.depth,
                           children |-> Last(q.stack)]
                 stack == Front(q.stack)
             IN [q EXCEPT !.depth = Minus1(@),
                          !.stack = [stack EXCEPT ![Len(stack)] = Append(@, entry)]]
      [] OTHER -> q

NcxEnd(q, name) ==
    CASE name = "text" -> [q EXCEPT !.inText = FALSE]
      [] name = "navPoint" ->
             LET entry == [title |-> q.title, href |-> q.href, level |-> Minus1(q.depth),
                           children |-> Last(q.stack)]
                 stack == Front(q.stack)
             IN [q EXCEPT !.depth = Minus1(@),
                          !.stack = [stack EXCEPT ![Len(stack)] = Append(@, entry)]]
      [] OTHER -> q

-----------------------------------------------------------------------------
(* parse_nav_toc *)

NavStart(q, name, i) ==
    CASE name = "nav toc" -> [q EXCEPT !.inNavToc = TRUE]
      [] q.inNavToc /\ name = "ol" -> [q EXCEPT !.olDepth = @ + 1, !.depth = q.olDepth]
      [] q.inNavToc /\ name = "a" -> [q EXCEPT !.inA = TRUE, !.title = << >>, !.href = i]
      [] OTHER -> q

NavText(q, i) == IF q.inA THEN [q EXCEPT !.title = Append(@, i)] ELSE q

NavEnd(q, name) ==
    CASE name \in {"nav toc", "nav"} -> [q EXCEPT !.inNavToc = FALSE]
      [] name = "ol" /\ q.inNavToc -> [q EXCEPT !.olDepth = Minus1(@)]
      [] name = "a" /\ q.inA ->
             [q EXCEPT !.inA = FALSE,
                       !.entries = Append(@, [title |-> q.title, href |-> q.href,
                                              level |-> q.depth, children |-> << >>])]
      [] OTHER -> q

-----------------------------------------------------------------------------
(* parse_xhtml_to_dom *)

\* build_cfi: steps are even, and the root level has none.
BuildCfi(counters) ==
    IF Len(counters) <= 1 THEN <<2>> ELSE [k \in 1 .. Len(counters) - 1 |-> 2 * counters[k + 1]]

Count(counters) ==
    IF counters = << >> THEN counters ELSE [counters EXCEPT ![Len(counters)] = @ + 1]

Node(q, i) == [what |-> i, cfi |-> BuildCfi(q.counters), children |-> << >>]

\* The node goes to the element that is being read, or to the roots.
Adopt(q, node) ==
    IF q.stack = << >> THEN [q EXCEPT !.roots = Append(@, node)]
    ELSE [q EXCEPT !.stack[Len(q.stack)].children = Append(@, node)]

ChapterStart(q, name, i) ==
    LET r == [q EXCEPT !.counters = Count(@)]
    IN CASE name = "body" -> [q EXCEPT !.inBody = TRUE]
         [] name # "body" /\ q.inBody -> [r EXCEPT !.stack = Append(@, Node(r, i)),
                                                   !.counters = Append(@, 0)]
         [] OTHER -> q

\* Mutant of ChapterLeaf: texts and empty elements do not count.
ChapterLeafUncounted(q, i) == IF q.inBody THEN Adopt(q, Node(q, i)) ELSE q

ChapterLeaf(q, i) ==
    LET r == [q EXCEPT !.counters = Count(@)]
    IN IF q.inBody THEN Adopt(r, Node(r, i)) ELSE q

\* A text that is blank, or that has an entity XML does not define, is passed over.
ChapterText(q, text, i) == IF text = "text" THEN ChapterLeaf(q, i) ELSE q

ChapterEnd(q, name) ==
    CASE name = "body" -> [q EXCEPT !.inBody = FALSE]
      [] name # "body" /\ q.inBody ->
             Adopt([q EXCEPT !.counters = Front(@), !.stack = Front(@)], Last(q.stack))
      [] OTHER -> q

-----------------------------------------------------------------------------
(* The document, token by token.  What the formats allow: *)

MayStart(name) ==
    CASE kind = "package" ->
             \/ open = << >> /\ name \in {"metadata", "manifest", "spine"}
             \/ Inner = "metadata" /\ name \in {"identifier", "title"}
      [] kind = "ncx" ->
             \/ name = "text" /\ (doc = << >> \/ Prev("start", "navPoint"))
             \/ name = "navPoint" /\ \/ open = << >>
                                     \/ Prev("empty", "content") \/ Prev("end", "navPoint")
      [] kind = "nav" ->
             \/ name \in {"nav toc", "nav"} /\ open = << >>
             \/ name = "ol" /\ \/ Prev("start", "nav toc") \/ Prev("start", "nav")
                               \/ Prev("start", "ol") \/ Prev("end", "a")
             \/ name = "a" /\ Inner = "ol"
      [] kind = "chapter" ->
             \/ name = "body" /\ open = << >> /\ \A i \in DOMAIN doc : ~Is(i, "start", "body")
             \/ name = "p"

MayBeEmpty(name) ==
    CASE kind = "package" -> \/ Inner = "manifest" /\ name \in Items
                             \/ Inner = "spine" /\ name \in References
      [] kind = "ncx" -> name = "content" /\ Inner = "navPoint" /\ Prev("end", "text")
      [] kind = "nav" -> FALSE
      [] kind = "chapter" -> name = "img"

Texts == {"text", "blank", "entity"}
MayBeText(text) ==
    CASE kind = "package" -> text = "text" /\ Inner \in {"identifier", "title"} /\ Prev("start", Inner)
      [] kind = "ncx" -> text = "text" /\ Prev("start", "text")
      [] kind = "nav" -> text = "text" /\ Inner # "ol"
      [] kind = "chapter" -> \A t \in Texts : ~Prev("text", t)

MayEnd ==
    CASE kind = "ncx" -> Prev("text", "text") \/ Prev("empty", "content") \/ Prev("end", "navPoint")
      [] kind # "ncx" -> TRUE

ElementNames == {"metadata", "manifest", "spine", "identifier", "title", "navPoint", "text",
                 "nav toc", "nav", "ol", "a", "body", "p"}

Read(type, name) ==
    /\ Len(doc) < MaxTokens[kind]
    /\ doc' = Append(doc, [type |-> type, name |-> name])
    /\ UNCHANGED kind

StartElement(name) ==
    /\ MayStart(name) /\ Read("start", name)
    /\ open' = Append(open, name)
    /\ p' = CASE kind = "package" -> PackageStart(p, name)
              [] kind = "ncx" -> NcxStart(p, name)
              [] kind = "nav" -> NavStart(p, name, Len(doc'))
              [] kind = "chapter" -> ChapterStart(p, name, Len(doc'))

EmptyElement(name) ==
    /\ MayBeEmpty(name) /\ Read("empty", name)
    /\ p' = CASE kind = "package" -> PackageEmpty(p, name, Len(doc'))
              [] kind = "ncx" -> NcxEmpty(p, name, Len(doc'))
              [] kind = "chapter" -> ChapterLeaf(p, Len(doc'))
    /\ UNCHANGED open

Text(text) ==
    /\ MayBeText(text) /\ Read("text", text)
    /\ p' = CASE kind = "package" -> PackageText(p, Len(doc'))
              [] kind = "ncx" -> NcxText(p, Len(doc'))
              [] kind = "nav" -> NavText(p, Len(doc'))
              [] kind = "chapter" -> ChapterText(p, text, Len(doc'))
    /\ UNCHANGED open

EndElement ==
    /\ open # << >> /\ MayEnd /\ Read("end", Inner)
    /\ open' = Front(open)
    /\ p' = CASE kind = "package" -> PackageEnd(p, Inner)
              [] kind = "ncx" -> NcxEnd(p, Inner)
              [] kind = "nav" -> NavEnd(p, Inner)
              [] kind = "chapter" -> ChapterEnd(p, Inner)

EpubInit == kind \in Kinds /\ doc = << >> /\ open = << >> /\ p = Fresh[kind]

EpubNext ==
    \/ \E name \in ElementNames : StartElement(name)
    \/ \E name \in Items \cup References \cup {"content", "img"} : EmptyElement(name)
    \/ \E text \in Texts : Text(text)
    \/ EndElement

-----------------------------------------------------------------------------
(* What the tokens say, to compare the parsers with. *)

Depth(k) == Cardinality({i \in 1 .. k : doc[i].type = "start"})
              - Cardinality({i \in 1 .. k : doc[i].type = "end"})

\* Element j is open at token i.
Encloses(j, i) == j < i /\ doc[j].type = "start" /\ \A k \in j .. i - 1 : Depth(k) >= Depth(j)

Tokens(type, name) == {i \in DOMAIN doc : Is(i, type, name)}
InOrder(S) == SetToSortSeq(S, <)
Within(i, name) == \E j \in Tokens("start", name) : Encloses(j, i)

RECURSIVE FlattenToc(_)
FlattenToc(entries) ==
    IF entries = << >> THEN << >>
    ELSE <<Head(entries)>> \o FlattenToc(Head(entries).children) \o FlattenToc(Tail(entries))

\* The book is the first identifier of the metadata, and its spine the references
\* that an item defines, in their order, each with the last item of its id.
PackageIsDocument ==
    LET ids == {i \in Tokens("text", "text") : Within(i, "identifier")}
        items(id) == {i \in DOMAIN doc : doc[i].name \in Items /\ IdOf[doc[i].name] = id}
        references == {i \in DOMAIN doc : /\ doc[i].name \in References
                                          /\ items(IdOf[doc[i].name]) # {}}
        wanted == InOrder(references)
    IN /\ p.identifier = (IF ids = {} THEN 0 ELSE Min(ids))
       /\ GetSpine(p) = [k \in DOMAIN wanted |-> Max(items(IdOf[doc[wanted[k]].name]))]

\* The entries of an NCX, in the order the reader lists them, are its points, at their
\* levels.  The title and the target of an entry are those of one point: its own if it
\* has none within it, or else one of those.  An entry that has entries below it is
\* NOT promised its own title and target: the code shows those of the last of them
\* (an end tag takes the variables as that one left them).
NcxIsDocument ==
    LET listed == FlattenToc(p.stack[1])
        points == InOrder(Tokens("start", "navPoint"))
        within(q, S) == {i \in S : Encloses(q, i)}
        inner(q) == within(q, Tokens("start", "navPoint"))
        leaves(q) == {n \in {q} \cup inner(q) : inner(n) = {}}
    IN /\ Len(listed) = Len(points)
       /\ \A k \in DOMAIN points :
             /\ listed[k].level = Depth(points[k]) - 1
             /\ \E q \in leaves(points[k]) :
                   /\ {listed[k].title} = within(q, Tokens("text", "text"))
                   /\ {listed[k].href} = within(q, Tokens("empty", "content"))

\* The entries of a navigation document are the links of its table of contents, with
\* all of their text.  The level of each is that of its list, but once a list within a
\* list has ended it is NOT promised: the code goes on with the level of the inner
\* list, so that a link may be too deep, and never is too high.
NavIsDocument ==
    LET links == InOrder({i \in Tokens("start", "a") : Within(i, "nav toc")})
        lists(i) == {j \in Tokens("start", "ol") : Encloses(j, i)}
        innerEnded(i) == \E k \in Tokens("end", "ol") : k < i /\ Within(k, "ol")
    IN /\ Len(p.entries) = Len(links)
       /\ \A k \in DOMAIN links :
             LET e == p.entries[k]
             IN /\ e.href = links[k]
                /\ e.title = InOrder({i \in Tokens("text", "text") : Encloses(links[k], i)})
                /\ LET level == Cardinality(lists(links[k])) - 1
                   IN IF innerEnded(links[k]) THEN e.level >= level ELSE e.level = level

\* What the reader has of a package is what it says, and what it lists of a table of
\* contents are the points or links of it, in their order, with the titles, targets and
\* levels that NcxIsDocument and NavIsDocument name, not with all that the document says.
ListedIsDocument ==
    open = << >> =>
       /\ kind = "package" => PackageIsDocument
       /\ kind = "ncx" => NcxIsDocument
       /\ kind = "nav" => NavIsDocument

RECURSIVE Edges(_, _)
Edges(nodes, parent) ==
    UNION {{<<parent, nodes[k].what>>} \cup Edges(nodes[k].children, nodes[k].what) : k \in DOMAIN nodes}

RECURSIVE Below(_)
Below(node) == UNION {{node.children[k]} \cup Below(node.children[k]) : k \in DOMAIN node.children}

RECURSIVE Ordered(_)
Ordered(nodes) ==
    /\ \A j, k \in DOMAIN nodes : j < k => nodes[j].what < nodes[k].what
    /\ \A k \in DOMAIN nodes : Ordered(nodes[k].children)

\* The DOM of a chapter is its body: every element, and every text that is neither
\* blank nor has an entity XML does not define, under its element and in order.  Below
\* one element of the body, no two nodes have the same anchor.
ChapterIsDocument ==
    kind = "chapter" /\ open \in {<< >>, <<"body">>} =>
       LET elements == {i \in Tokens("start", "p") : Within(i, "body")}
           leaves == {i \in Tokens("empty", "img") \cup Tokens("text", "text") : Within(i, "body")}
           parent(i) == Max({0} \cup {j \in elements : Encloses(j, i)})
       IN /\ Edges(p.roots, 0) = {<<parent(i), i>> : i \in elements \cup leaves}
          /\ Ordered(p.roots)
          /\ \A k \in DOMAIN p.roots : \A m, n \in Below(p.roots[k]) : m.cfi = n.cfi => m = n
=============================================================================
