----------------------------- MODULE EpubPaths -----------------------------
(***************************************************************************)
(* How the paths of an EPUB are put together and followed                  *)
(* (crates/core_parser/src/epub.rs): the chapter that a link of the table  *)
(* of contents leads to, the file of a picture, the table of contents and  *)
(* the cover.                                                              *)
(*                                                                         *)
(* A path is the sequence of its segments, and the last is the name of a   *)
(* file; fragments (#...) and absolute paths are left out.  A package is   *)
(* what the OPF file says: its own directory (opf_base), the items of its  *)
(* manifest by their ids, and its spine.                                   *)
(***************************************************************************)
EXTENDS SequencesExt

NotFound == <<"not found">>

Hrefs(package) == {package.manifest[id].href : id \in DOMAIN package.manifest}

\* get_spine
Spine(package) ==
    LET known == SelectSeq(package.spine, LAMBDA id : id \in DOMAIN package.manifest)
    IN [k \in DOMAIN known |-> package.base \o package.manifest[known[k]].href]

\* normalize_path: no segment is empty here.
NormalizePath(path) ==
    FoldLeft(LAMBDA parts, segment :
                CASE segment = "." -> parts
                  [] segment = ".." -> IF parts = << >> THEN parts ELSE Front(parts)
                  [] OTHER -> Append(parts, segment),
             << >>, path)

\* resolve_toc_href: the first chapter of that path, or the first of that name; -1
\* if there is none.  Nothing normalises the link, though its comment says so.
ResolveTocHref(package, href) ==
    LET spine == Spine(package)
        exact == {k \in DOMAIN spine : spine[k] = package.base \o href}
        named == {k \in DOMAIN spine : href = <<Last(spine[k])>>}
    IN IF exact # {} THEN Min(exact) - 1 ELSE IF named # {} THEN Min(named) - 1 ELSE -1

\* find_toc_path_from_cache: the manifest is a hash map, and any item may come first.
TocPaths(package) ==
    LET M == package.manifest
        nav == {id \in DOMAIN M : M[id].nav}
        ncx == {id \in DOMAIN M : M[id].ncx}
        chosen == IF nav # {} THEN nav
                  ELSE IF package.toc \in DOMAIN M THEN {package.toc} ELSE ncx
    IN {package.base \o M[id].href : id \in chosen}

\* get_cover_image: the item that the metadata name, or one that says it is a cover.
CoverPaths(package, cover) ==
    {package.base \o package.manifest[id].href :
        id \in {i \in DOMAIN package.manifest : i = cover \/ package.manifest[i].cover}}

\* get_resource: the path as it is, then below the OPF's directory, then normalised,
\* then any item of that name.
Resources(files, package, href) ==
    LET based == package.base \o href
        items == {package.base \o h : h \in {h \in Hrefs(package) : Last(h) = Last(href)}} \cap files
    IN IF href \in files THEN {href}
       ELSE IF based \in files THEN {based}
       ELSE IF NormalizePath(based) \in files THEN {NormalizePath(based)}
       ELSE IF items # {} THEN items ELSE {NotFound}

-----------------------------------------------------------------------------
\* A link that has no `.' or `..', of a table of contents beside the OPF file, leads to
\* the chapter that it means if that is in the spine; if it is not, it leads nowhere,
\* or to a chapter of the name that the link is.  What a link with `.' or `..' means is
\* NOT found: it leads nowhere, even if the chapter is there.  No link leads to a
\* chapter of another name, or to a later place of the spine than the chapter's first.
LinksLead(package, href) ==
    LET k == ResolveTocHref(package, href)
        spine == Spine(package)
        plain == \A i \in DOMAIN href : href[i] \notin {".", ".."}
        meant == NormalizePath(package.base \o href)
    IN IF k = -1 THEN plain => meant \notin ToSet(spine)
       ELSE /\ plain /\ k + 1 \in DOMAIN spine
            /\ meant \in ToSet(spine) => spine[k + 1] = meant
            /\ Last(spine[k + 1]) = Last(href)
            /\ \A j \in 1 .. k : spine[j] # spine[k + 1]

\* The table of contents and the cover are the same files on every reading of the
\* package, if no two items claim to be one or the other.
FoundAgain(package, cover) ==
    LET M == package.manifest
        claims(S) == Cardinality(S) > 1
    IN /\ \/ Cardinality(TocPaths(package)) <= 1
          \/ claims({id \in DOMAIN M : M[id].nav}) \/ claims({id \in DOMAIN M : M[id].ncx})
       /\ \/ Cardinality(CoverPaths(package, cover)) <= 1
          \/ claims({id \in DOMAIN M : id = cover \/ M[id].cover})

\* A picture has the name that the chapter gives it, and it is the one the chapter
\* means if the chapter lies beside the OPF file and no other file of the archive has
\* the path that the chapter gives.
PicturesLead(files, package, href) ==
    LET meant == NormalizePath(package.base \o href)
    IN \A f \in Resources(files, package, href) \ {NotFound} :
          /\ Last(f) = Last(href)
          /\ meant \in files /\ href \notin files => NormalizePath(f) = meant
=============================================================================
