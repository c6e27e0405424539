--------------------------- MODULE GeneratedSections ---------------------------
(***************************************************************************)
(* Generated sections: internal/archetype/gensection and the directives    *)
(* catalog (MDS019), include (MDS021) and toc (MDS038), as the fixer runs  *)
(* them over the files of a project.                                        *)
(*                                                                         *)
(* A file is a sequence of lines: text, a heading, a link, the start and    *)
(* the end marker of a directive, a catalog's row, a toc's item, and a line *)
(* of a code block, which holds the line it shows.  A relative path is the  *)
(* file it was written for and the directory it is relative to.             *)
(***************************************************************************)
EXTENDS Integers, Sequences, FiniteSets, SequencesExt

CONSTANTS
    File,             \* the files; a file stands for its name as well
    DirOf,            \* [file -> the names of the directories that lead to it]
    Up,               \* the name ".."
    FrontMatter,      \* [file -> its summary, or NoFM]
    NoFM,
    Rank,             \* [name or summary -> its place in alphabetical order]
    Number,           \* [summary that is an integer -> its value]
    Injecting,        \* the summaries that would break out of a row
    GitIgnored,       \* the files a .gitignore names
    NoDir,            \* a directive without source-dir
    Lost,             \* what a path leads to that was rebased twice
    MaxIncludeDepth,  \* maxIncludeDepth
    MaxPasses,        \* maxPasses
    MaxRuns           \* bound: runs of the fixer after an edit

Root == <<>>

Text(what)           == [kind |-> "text", what |-> what]
Heading(what, level) == [kind |-> "heading", what |-> what, level |-> level]
Link(to, from)       == [kind |-> "link", to |-> to, from |-> from]
Row(to, from, shows) == [kind |-> "row", to |-> to, from |-> from, shows |-> shows]
Item(what, depth)    == [kind |-> "item", what |-> what, depth |-> depth]
Code(line)           == [kind |-> "code", line |-> line]
Close(name)          == [kind |-> "close", name |-> name]
Include(file, wrap, absolute) ==
    [kind |-> "open", name |-> "include", file |-> file, wrap |-> wrap, absolute |-> absolute, dir |-> NoDir]
ByPath     == [key |-> "path", down |-> FALSE, numeric |-> FALSE]
Everything == Range(FrontMatter)
Catalog(globs) ==
    [kind |-> "open", name |-> "catalog", globs |-> globs, dir |-> NoDir, sort |-> ByPath,
     where |-> Everything, row |-> "summary", gitignore |-> TRUE]
Toc                  == [kind |-> "open", name |-> "toc"]

Opens(line, name)  == line.kind = "open" /\ line.name = name
Closes(line, name) == line.kind = "close" /\ line.name = name

(***************************************************************************)
(* Marker pairs of one directive.  A start marker inside a section of the   *)
(* same name is skipped up to its end marker.                               *)
(***************************************************************************)
\* The first end marker ends the section.
FindMarkerPairs_Flat(body, name) ==
    LET Step(s, i) ==
            IF Opens(body[i], name) /\ s.start = 0 THEN [s EXCEPT !.start = i]
            ELSE IF Closes(body[i], name) /\ s.start # 0
                 THEN [start |-> 0, pairs |-> Append(s.pairs, [start |-> s.start, end |-> i])] ELSE s
    IN [pairs |-> FoldLeft(Step, [start |-> 0, pairs |-> <<>>], [i \in DOMAIN body |-> i]).pairs,
        malformed |-> {}]

\* A start marker without its end is malformed as well.
Paired(s) == [pairs |-> s.pairs, malformed |-> s.malformed \cup ({s.start} \ {0})]

FindMarkerPairs(body, name) ==
    LET Step(s, i) ==
            CASE Opens(body[i], name) /\ s.start = 0   -> [s EXCEPT !.start = i]
              [] Opens(body[i], name) /\ s.start # 0   -> [s EXCEPT !.depth = @ + 1]
              [] Closes(body[i], name) /\ s.start = 0  -> [s EXCEPT !.malformed = @ \cup {i}]
              [] Closes(body[i], name) /\ s.start # 0 /\ s.depth > 0 -> [s EXCEPT !.depth = @ - 1]
              [] Closes(body[i], name) /\ s.start # 0 /\ s.depth = 0 ->
                    [s EXCEPT !.start = 0, !.pairs = Append(@, [start |-> s.start, end |-> i])]
              [] OTHER -> s
    IN Paired(FoldLeft(Step, [start |-> 0, depth |-> 0, malformed |-> {}, pairs |-> <<>>],
                       [i \in DOMAIN body |-> i]))

ExtractContent(body, p) == SubSeq(body, p.start + 1, p.end - 1)
ReplaceContent(body, p, content) ==
    SubSeq(body, 1, p.start) \o content \o SubSeq(body, p.end, Len(body))

Failed == [ok |-> FALSE, lines |-> <<>>]
Done(lines) == [ok |-> TRUE, lines |-> lines]
Filled(body, p, new) == IF new.ok THEN Done(ReplaceContent(body, p, new.lines)) ELSE Failed

(***************************************************************************)
(* What an include makes of the file it names.                              *)
(***************************************************************************)
clampLevel(n) == IF n > 6 THEN 6 ELSE n

\* The level of the last heading before a line; front is what came before the body.
findParentHeadingLevel(body, line, front) ==
    FoldLeft(LAMBDA level, l : IF l.kind = "heading" THEN l.level ELSE level,
             front, SubSeq(body, 1, line - 1))

adjustHeadings(lines, parent) ==
    LET levels == {lines[i].level : i \in {i \in DOMAIN lines : lines[i].kind = "heading"}}
        shift  == parent + 1 - (CHOOSE m \in levels : \A n \in levels : m <= n)
    IN IF parent = 0 \/ levels = {} \/ shift <= 0 THEN lines
       ELSE [i \in DOMAIN lines |->
                IF lines[i].kind = "heading" THEN [lines[i] EXCEPT !.level = clampLevel(@ + shift)]
                ELSE lines[i]]

\* A relative path of the included file, made relative to the including one.
relPath(line, included, including) ==
    [line EXCEPT !.from = including, !.to = IF line.from = included THEN @ ELSE Lost]
adjustLinks(lines, included, including) ==
    IF included = including THEN lines
    ELSE [i \in DOMAIN lines |->
            IF lines[i].kind \in {"link", "row"} THEN relPath(lines[i], included, including) ELSE lines[i]]

\* Globs of directives that come along are still those of the included file's directory.
injectSourceDir(lines, dir) ==
    [i \in DOMAIN lines |->
        IF lines[i].kind = "open" /\ lines[i].name # "toc" /\ lines[i].dir = NoDir
        THEN [lines[i] EXCEPT !.dir = dir] ELSE lines[i]]

Sourced(lines, d, host) ==
    IF ~d.wrap /\ DirOf[d.file] # DirOf[host] THEN injectSourceDir(lines, DirOf[d.file]) ELSE lines
Leveled(lines, d, parent) == IF d.absolute THEN adjustHeadings(lines, parent) ELSE lines
Fenced(lines, d) == IF d.wrap THEN [i \in DOMAIN lines |-> Code(lines[i])] ELSE lines

processIncludedContent(lines, d, host, parent) ==
    Fenced(Leveled(Sourced(adjustLinks(lines, DirOf[d.file], DirOf[host]), d, host), d, parent), d)

(***************************************************************************)
(* An include reads the file and expands the includes in it, before its own *)
(* run has reached it.  The file is parsed with its front matter, which     *)
(* Markdown reads as a heading of level 2.                                  *)
(***************************************************************************)
checkCycleOrDepth_OffByOne(chain, file) == Len(chain) >= MaxIncludeDepth \/ file \in Range(chain)
checkCycleOrDepth(chain, file) == Len(chain) > MaxIncludeDepth \/ file \in Range(chain)
FrontLevel(file) == IF FrontMatter[file] = NoFM THEN 0 ELSE 2

RECURSIVE generateIncludeContent(_, _, _, _)
expandNestedIncludes(disk, file, chain) ==
    LET Expand(s, p) ==
            IF ~s.ok THEN Failed
            ELSE Filled(s.lines, p,
                    generateIncludeContent(disk,
                        [host |-> file, body |-> disk[file], line |-> p.start, front |-> FrontLevel(file)],
                        disk[file][p.start], chain))
    IN FoldLeft(Expand, Done(disk[file]), Reverse(FindMarkerPairs(disk[file], "include").pairs))

Processed(expanded, d, host, parent) ==
    IF expanded.ok THEN Done(processIncludedContent(expanded.lines, d, host, parent)) ELSE Failed

\* at: the including file, its lines as parsed, the line of the marker, the level before its body.
generateIncludeContent(disk, at, d, chain) ==
    IF d.file \notin File \/ checkCycleOrDepth(chain, d.file) THEN Failed
    ELSE Processed(expandNestedIncludes(disk, d.file, Append(chain, d.file)), d, at.host,
                   findParentHeadingLevel(at.body, at.line, at.front))

(***************************************************************************)
(* A catalog lists the files of a directory by their front matter.  It is   *)
(* refused when one of them includes the file that holds the catalog.       *)
(***************************************************************************)
includeTargetsOf(body) ==
    {body[p.start].file : p \in Range(FindMarkerPairs(body, "include").pairs)}

\* A file system that starts at a directory opens the files under it.
Readable(file, frame) == file \in File /\ IsPrefix(frame, DirOf[file])

RECURSIVE scanIncludesForTarget(_, _, _, _, _, _)
scanIncludesForTarget(disk, frame, file, target, visited, depth) ==
    LET targets == IF Readable(file, frame) THEN includeTargetsOf(disk[file]) ELSE {}
    IN /\ depth <= MaxIncludeDepth
       /\ \/ target \in targets
          \/ \E f \in targets \ visited :
                scanIncludesForTarget(disk, frame, f, target, visited \cup {f}, depth + 1)

(***************************************************************************)
(* The files a catalog lists: the patterns of its globs, what they are      *)
(* relative to, and the filters.  A pattern is the directories it names,    *)
(* then ** (deep) or not, then the file names its last part matches; good   *)
(* says that it is well-formed, relative, and without ".." in braces.       *)
(***************************************************************************)
Glob(path, names) == [neg |-> FALSE, path |-> path, deep |-> FALSE, names |-> names, good |-> TRUE]
Deep(path, names) == [Glob(path, names) EXCEPT !.deep = TRUE]
Not(pattern)      == [pattern EXCEPT !.neg = TRUE]

validateGlob(globs) == (\A p \in Range(globs) : p.good) /\ \E p \in Range(globs) : ~p.neg
validateSort(sort)  == sort.key \in {"path", "filename", "summary"}
validateCatalogDirective(d) == validateGlob(d.globs) /\ validateSort(d.sort) /\ d.row # "blank"

\* A path without the ".." that undo a name before them; what is left of them leads out.
Clean(path) ==
    FoldLeft(LAMBDA s, name : IF name = Up /\ s # <<>> /\ Last(s) # Up THEN Front(s) ELSE Append(s, name),
             <<>>, path)
Escapes(path) == path # <<>> /\ Head(path) = Up

dotDotInPatterns(d) == \E p \in Range(d.globs) : Up \in Range(p.path)
\* A source-dir that leads out of the project is ignored.
resolveBaseRel(d, host) == IF d.dir = NoDir \/ Escapes(Clean(d.dir)) THEN DirOf[host] ELSE Clean(d.dir)
\* Otherwise the patterns are tried on the host's directory alone.
RootRelative(d) == dotDotInPatterns(d) \/ ~(d.dir = NoDir \/ Escapes(Clean(d.dir)))
scanFrameFor(d, host) == IF RootRelative(d) THEN Root ELSE DirOf[host]
resolvePatterns(d, host) ==
    {[p EXCEPT !.path = Clean(resolveBaseRel(d, host) \o @)] : p \in Range(d.globs)}
EscapesRoot(d, host) == RootRelative(d) /\ \E p \in resolvePatterns(d, host) : Escapes(p.path)

Matches(p, f) == f \in p.names /\ (IF p.deep THEN IsPrefix(p.path, DirOf[f]) ELSE p.path = DirOf[f])
isGitignored(d, f) == d.gitignore /\ f \in GitIgnored
resolveGlobMatchesFrom(d, host) ==
    LET patterns == resolvePatterns(d, host)
        isExcluded(f) == \E p \in patterns : p.neg /\ Matches(p, f)
    IN {f \in File : /\ \E p \in patterns : ~p.neg /\ Matches(p, f)
                     /\ ~isExcluded(f) /\ ~isGitignored(d, f)}

(***************************************************************************)
(* Their order.  Texts are compared as sequences of ranks, paths name by    *)
(* name.                                                                    *)
(***************************************************************************)
Before(v, w) ==
    \/ IsStrictPrefix(v, w)
    \/ \E i \in DOMAIN v \cap DOMAIN w : v[i] < w[i] /\ \A j \in 1 .. i - 1 : v[j] = w[j]

\* The path from the catalog's directory to a file.
displayPath(f, host) ==
    LET from == DirOf[host]  to == DirOf[f]
        common == Cardinality({n \in DOMAIN from \cap DOMAIN to : SubSeq(from, 1, n) = SubSeq(to, 1, n)})
    IN [i \in 1 .. Len(from) - common |-> Up] \o SubSeq(to, common + 1, Len(to)) \o <<f>>

Ranks(names) == [i \in DOMAIN names |-> Rank[names[i]]]
sortValue(f, key, host) ==
    CASE key = "path"     -> Ranks(displayPath(f, host))
      [] key = "filename" -> <<Rank[f]>>
      [] key = "summary"  -> IF FrontMatter[f] = NoFM THEN <<>> ELSE <<Rank[FrontMatter[f]]>>

allParseAsInt(files, key) == key = "summary" /\ \A f \in files : FrontMatter[f] \in DOMAIN Number

sortEntries(files, sort, host) ==
    LET useInts == sort.numeric /\ allParseAsInt(files, sort.key)
        Value(f) == IF useInts THEN <<Number[FrontMatter[f]]>> ELSE sortValue(f, sort.key, host)
        keyed == {[file |-> f, value |-> Value(f), path |-> sortValue(f, "path", host)] : f \in files}
        Less(e, g) == CASE e.value = g.value -> Before(e.path, g.path)
                        [] e.value # g.value /\ sort.down -> Before(g.value, e.value)
                        [] OTHER -> Before(e.value, g.value)
        Nth(k) == CHOOSE e \in keyed : Cardinality({g \in keyed : Less(g, e)}) = k - 1
    IN [k \in 1 .. Cardinality(files) |-> Nth(k).file]

buildCatalogEntries(d, host) ==
    sortEntries({f \in resolveGlobMatchesFrom(d, host) : FrontMatter[f] \in d.where}, d.sort, host)

checkCatalogIncludeCycle(disk, entries, d, host) ==
    \E f \in Range(entries) : scanIncludesForTarget(disk, scanFrameFor(d, host), f, host, {f}, 0)

(***************************************************************************)
(* Hints, which do not keep a catalog from being generated.                 *)
(***************************************************************************)
\* Front matter is read when the row, the filter or the order needs it.
needFM(d) == d.row # "none" \/ d.where # Everything \/ d.sort.key = "summary"
checkInjection(d, entries) == needFM(d) /\ \E f \in Range(entries) : FrontMatter[f] \in Injecting
\* The row "Summary" names the field in another case than the files do.
checkCaseMismatches(d, entries) == d.row = "Summary" /\ \E f \in Range(entries) : FrontMatter[f] # NoFM
Hinted(d, host) ==
    LET entries == IF EscapesRoot(d, host) THEN <<>> ELSE buildCatalogEntries(d, host)
    IN validateCatalogDirective(d) /\ (checkInjection(d, entries) \/ checkCaseMismatches(d, entries))

\* A row without a template names the file.
renderTemplate(d, f) == IF d.row = "summary" THEN FrontMatter[f] ELSE d.row
renderCatalogContent(entries, d, host) ==
    [k \in DOMAIN entries |-> Row(entries[k], DirOf[host], renderTemplate(d, entries[k]))]

generateCatalog(disk, host, d) ==
    LET entries == buildCatalogEntries(d, host)
    IN IF ~validateCatalogDirective(d) \/ EscapesRoot(d, host) THEN Failed
       ELSE IF checkCatalogIncludeCycle(disk, entries, d, host) THEN Failed
       ELSE Done(renderCatalogContent(entries, d, host))

(***************************************************************************)
(* A toc lists the headings of the whole file from level 2, each as deep as *)
(* it has shallower headings above it.                                      *)
(***************************************************************************)
generateToc(body) ==
    LET Step(s, l) ==
            LET above == SelectSeq(s.stack, LAMBDA level : level < l.level)
            IN IF l.kind # "heading" THEN s
               ELSE IF l.level < 2 THEN s
               ELSE [stack |-> Append(above, l.level),
                     items |-> Append(s.items, Item(l.what, Len(above)))]
    IN FoldLeft(Step, [stack |-> <<>>, items |-> <<>>], body).items

Generate(disk, host, body, p) ==
    LET d == body[p.start]
    IN CASE d.name = "include" ->
                generateIncludeContent(disk, [host |-> host, body |-> body, line |-> p.start, front |-> 0],
                                       d, <<host>>)
         [] d.name = "catalog" -> generateCatalog(disk, host, d)
         [] d.name = "toc"     -> Done(generateToc(body))

(***************************************************************************)
(* The engine of the three rules.                                           *)
(***************************************************************************)
\* A section that cannot be generated is passed over.
Outdated_Silent(new, actual) == new.ok /\ new.lines # actual
Outdated(new, actual) == ~new.ok \/ new.lines # actual

\* The lines at which a rule reports.
checkPairs(disk, host, body, found) ==
    found.malformed \cup
    {p.start : p \in {p \in Range(found.pairs) :
                        \/ Outdated(Generate(disk, host, body, p), ExtractContent(body, p))
                        \/ Opens(body[p.start], "catalog") /\ Hinted(body[p.start], host)}}
Check(disk, host, body, name) == checkPairs(disk, host, body, FindMarkerPairs(body, name))

Replaced(lines, p, new) == IF new.ok THEN ReplaceContent(lines, p, new.lines) ELSE lines
Fix(disk, host, body, name) ==
    FoldLeft(LAMBDA lines, p : Replaced(lines, p, Generate(disk, host, body, p)),
             body, Reverse(FindMarkerPairs(body, name).pairs))

Rules == <<"catalog", "include", "toc">>

Pass(disk, host, body) ==
    FoldLeft(LAMBDA b, name : IF Check(disk, host, b, name) = {} THEN b ELSE Fix(disk, host, b, name),
             body, Rules)

RECURSIVE applyFixPasses(_, _, _, _)
applyFixPasses(disk, host, body, n) ==
    LET new == Pass(disk, host, body)
    IN IF n = 0 \/ new = body THEN body ELSE applyFixPasses(disk, host, new, n - 1)

Inside(found) ==
    IF found.malformed # {} THEN {} ELSE UNION {p.start + 1 .. p.end - 1 : p \in Range(found.pairs)}
FindAllGeneratedRanges(body) ==
    UNION {Inside(FindMarkerPairs(body, name)) : name \in {"include", "catalog"}}

CheckRules(disk, host, body) ==
    UNION {Check(disk, host, body, name) : name \in Range(Rules)} \ FindAllGeneratedRanges(body)

-------------------------------------------------------------------------------
VARIABLES
    written,   \* [file -> what its author wrote: the lines outside the sections]
    disk,      \* [file -> its lines]
    left,      \* the files the run has still to fix
    reported,  \* [file -> the last run reported something in it]
    runs,      \* runs begun since the last edit
    edits      \* edits still to come

vars == <<written, disk, left, reported, runs, edits>>

InitAs(project, n) ==
    /\ written = project
    /\ disk = project
    /\ left = {}
    /\ reported = [f \in File |-> FALSE]
    /\ runs = 0
    /\ edits = n

StartRun ==
    /\ left = {}
    /\ runs < MaxRuns
    /\ left' = File
    /\ runs' = runs + 1
    /\ UNCHANGED <<written, disk, reported, edits>>

\* Files are fixed in the order of the command line.
fixFile(f) ==
    /\ f \in left
    /\ left' = left \ {f}
    /\ \E body \in {applyFixPasses(disk, f, disk[f], MaxPasses)} :
        /\ disk' = [disk EXCEPT ![f] = body]
        /\ reported' = [reported EXCEPT ![f] = CheckRules([disk EXCEPT ![f] = body], f, body) # {}]
    /\ UNCHANGED <<written, runs, edits>>

\* An author replaces a file; what the files that include it hold is then old.
Edit(f, body) ==
    /\ left = {} /\ runs > 0 /\ edits > 0
    /\ written' = [written EXCEPT ![f] = body]
    /\ disk' = [disk EXCEPT ![f] = body]
    /\ runs' = 0
    /\ edits' = edits - 1
    /\ UNCHANGED <<left, reported>>

-------------------------------------------------------------------------------
(***************************************************************************)
(* What the files should show, from what was written alone.                 *)
(***************************************************************************)
\* Authors write sections empty: an end marker follows each start marker.
Balanced(f) ==
    LET body == written[f]
    IN \A i \in DOMAIN body :
        /\ body[i].kind = "open"  => i + 1 \in DOMAIN body /\ body[i + 1] = Close(body[i].name)
        /\ body[i].kind = "close" => i - 1 \in DOMAIN body /\ Opens(body[i - 1], body[i].name)

Includes(f) == {written[f][i] : i \in {i \in DOMAIN written[f] : Opens(written[f][i], "include")}}

\* No include from f on is missing, part of a cycle, or deeper than n.
RECURSIVE Expandable(_, _)
Expandable(f, n) == \A d \in Includes(f) : d.file \in File /\ n > 0 /\ Expandable(d.file, n - 1)

RECURSIVE Reaches(_, _, _)
\* The files within n includes of f.
Reaches(f, g, n) ==
    f = g \/ (n > 0 /\ \E d \in Includes(f) : d.file \in File /\ Reaches(d.file, g, n - 1))
Needed(f) == {g \in File : Reaches(f, g, Cardinality(File))}

RECURSIVE TocTravels(_, _)
TocTravels(f, n) ==
    \E d \in Includes(f) :
        d.file \in File /\ ~d.wrap /\ (Toc \in Range(written[d.file]) \/ (n > 0 /\ TocTravels(d.file, n - 1)))

\* Front matter that an expansion would take for a heading.
LevelMisread(g) == FrontMatter[g] # NoFM /\ \E d \in Includes(g) : d.absolute

ListsItsIncluder(f) ==
    \E d \in Range(written[f]) :
        Opens(d, "catalog") /\ \E g \in Range(buildCatalogEntries(d, f)) : \E i \in Includes(g) :
            i.file \in File /\ f \in Needed(i.file)

\* The catalogs its author wrote can be generated, and without a hint.
Listable(f) ==
    \A d \in Range(written[f]) :
        Opens(d, "catalog") => validateCatalogDirective(d) /\ ~EscapesRoot(d, f) /\ ~Hinted(d, f)

Rehomed(lines, dir) ==
    [i \in DOMAIN lines |-> IF lines[i].kind \in {"link", "row"} THEN [lines[i] EXCEPT !.from = dir] ELSE lines[i]]

RECURSIVE Shown(_)
Shown(f) ==
    LET Part(d, above) ==
            Fenced(Leveled(Sourced(Rehomed(Shown(d.file), DirOf[f]), d, f), d,
                           findParentHeadingLevel(above, Len(above) + 1, 0)), d)
        Contents(l, above, items) ==
            CASE Opens(l, "include") -> Part(l, above)
              [] Opens(l, "catalog") -> renderCatalogContent(buildCatalogEntries(l, f), l, f)
              [] Opens(l, "toc")     -> items
              [] OTHER -> <<>>
        Fill(items) ==
            FoldLeft(LAMBDA out, l : Append(out, l) \o Contents(l, Append(out, l), items), <<>>, written[f])
    IN Fill(generateToc(Fill(<<>>)))

Authored(body) ==
    LET Step(s, l) ==
            CASE l.kind = "open" -> [depth |-> s.depth + 1, out |-> IF s.depth = 0 THEN Append(s.out, l) ELSE s.out]
              [] l.kind = "close" -> [depth |-> s.depth - 1, out |-> IF s.depth = 1 THEN Append(s.out, l) ELSE s.out]
              [] OTHER -> IF s.depth = 0 THEN [s EXCEPT !.out = Append(@, l)] ELSE s
    IN FoldLeft(Step, [depth |-> 0, out |-> <<>>], body).out

AtRest == left = {} /\ runs = MaxRuns
WellMarked(f) == \A g \in Needed(f) : Balanced(g)

(***************************************************************************)
(* Properties                                                               *)
(***************************************************************************)
\* Whatever the sections of a file pull in, markers of the same and of other
\* directives included, the fixer never touches a line its author wrote.
AuthoredIsKept == \A f \in File : WellMarked(f) => Authored(disk[f]) = written[f]

\* Once the runs have settled, a file in which nothing is reported, nor in any file
\* it includes, shows what was written everywhere in it: every include expanded to
\* what the included file shows, with links that lead where they led there, headings
\* at their level and catalogs of the right directory; and a file that includes a
\* missing file, a cycle or too deep a chain is never silent.
CleanIsFlattened ==
    AtRest => \A f \in File :
        /\ WellMarked(f)
        /\ \A g \in Needed(f) : ~reported[g] /\ (g # f => ~LevelMisread(g))
        => Expandable(f, MaxIncludeDepth) /\ disk[f] = Shown(f)

\* Nothing is reported in a file whose sections can all be generated: the three rules,
\* which rewrite each other's sections, come to rest, at any nesting and in any order
\* of the files.  (A toc that another file includes is the exception.)
WellFormedIsClean ==
    AtRest => \A f \in File :
        /\ WellMarked(f)
        /\ Expandable(f, MaxIncludeDepth)
        /\ ~TocTravels(f, MaxIncludeDepth)
        /\ Listable(f)
        /\ ~ListsItsIncluder(f)
        => ~reported[f]
=============================================================================
