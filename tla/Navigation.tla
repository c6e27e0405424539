------------------------------ MODULE Navigation ------------------------------
(***************************************************************************)
(* What the language server answers about a workspace: the token under the *)
(* cursor (internal/index/locate.go), the symbols of a file                *)
(* (internal/index/build.go), definition, implementation, references, the  *)
(* call hierarchy, the outline and the symbol search                       *)
(* (internal/lsp/symbols.go), completion, where a rename is offered; and   *)
(* mdsmith deps and mdsmith list backlinks.                                 *)
(*                                                                         *)
(* A cursor is a line and an item of it, 1 in a heading's text or on a     *)
(* directive's file, and 0 at the first column, on a front-matter key or   *)
(* on the directive's opener; a location is a file and a line.              *)
(***************************************************************************)
EXTENDS WorkspaceLinks, FiniteSets

CONSTANTS
    DeclaredKinds,  \* the kinds of the configuration
    AssignedKinds,  \* the kinds its kind-assignment gives a file
    ConfigFile

FrontMatterKeys == {"kind", "kinds", "title"}
Has(doc, i, kinds) == \E j \in DOMAIN doc[i].items : doc[i].items[j].kind \in kinds
FrontMatter(doc, keys) ==
    {At(doc, p).label : p \in {q \in Places(doc) : At(doc, q).kind \in keys}}
fmOffset(doc) == Cardinality({i \in DOMAIN doc : Has(doc, i, FrontMatterKeys)})

\* The first line of the body.
FileTop(doc) == <<fmOffset(doc) + 1, 0>>

(***************************************************************************)
(* The symbols of a file.                                                   *)
(***************************************************************************)
headingEndLine_Sibling(doc, k) ==
    LET h    == HeadingLines(doc)
        next == {j \in k + 1 .. Len(h) : doc[h[j]].level = doc[h[k]].level}
    IN IF next = {} THEN Len(doc) ELSE h[CHOOSE j \in next : \A i \in next : j <= i] - 1

\* A section ends before the next heading that is not below it.
headingEndLine(doc, k) ==
    LET h    == HeadingLines(doc)
        next == {j \in k + 1 .. Len(h) : doc[h[j]].level <= doc[h[k]].level}
    IN IF next = {} THEN Len(doc) ELSE h[CHOOSE j \in next : \A i \in next : j <= i] - 1

collectHeadings(doc) ==
    [k \in DOMAIN HeadingLines(doc) |->
        [line |-> HeadingLines(doc)[k], anchor |-> Slugs(doc)[k], end |-> headingEndLine(doc, k)]]

\* The labels that the parser defined, each at the first line that looks like
\* a definition of it, in a code block too.
DefShaped(doc, label) ==
    {i \in DOMAIN doc : \E j \in DOMAIN doc[i].items :
        doc[i].items[j].kind \in {"def", "sample"} /\ doc[i].items[j].label = label}
collectLinkRefDefs(doc) ==
    [l \in {doc[i].items[1].label : i \in Defs(doc)} |->
        CHOOSE i \in DefShaped(doc, l) : \A d \in DefShaped(doc, l) : i <= d]

collectDirectives(doc) == {i \in DOMAIN doc : Has(doc, i, Directives)}

\* Both forms of the front matter's kinds, and the configuration's.
effectiveKindsFor(file, doc) == FrontMatter(doc, {"kind", "kinds"}) \cup AssignedKinds[file]

buildFileEntry(file, doc) ==
    [headings |-> collectHeadings(doc), refs |-> collectLinkRefDefs(doc),
     directives |-> collectDirectives(doc), outgoing |-> Edges(file, doc),
     titles |-> FrontMatter(doc, {"title"}), kinds |-> FrontMatter(doc, {"kinds"})]

UpdateWithKinds(file, doc) ==
    [buildFileEntry(file, doc) EXCEPT !.kinds = effectiveKindsFor(file, doc)]

\* An empty file has no entry.
EntriesOf(disk, files) ==
    [f \in {g \in files : disk[g] # <<>>} |-> UpdateWithKinds(f, disk[f])]

Incoming(idx, file, anchor) == IncomingEdges([f \in DOMAIN idx |-> idx[f].outgoing], file, anchor)

(***************************************************************************)
(* The token under the cursor.                                              *)
(***************************************************************************)
Token(tag, file, anchor, label) ==
    [tag |-> tag, file |-> file, anchor |-> anchor, label |-> label, key |-> NoFrag]

\* A link's range begins at its first text and ends at the first destination
\* after it: around an image that is the image.
LinkAt(doc, p) ==
    {q \in Places(doc) :
        /\ At(doc, q).kind \in {"link", "picture"} \/ Resolved(doc, At(doc, q))
        /\ At(doc, q).kind # "figure"
        /\ linkPosition(doc, q) = p}

linkToLocate(file, item) ==
    CASE item.kind = "use" -> Token("RefUse", file, <<>>, item.label)
      [] item.kind # "use" /\ item.to = Self -> Token("AnchorLink", file, FragSlug(item), NoFrag)
      [] OTHER -> Token("FileLink", item.to, FragSlug(item), NoFrag)

headingInfo(doc, line) == Slugs(doc)[CHOOSE k \in DOMAIN HeadingLines(doc) : HeadingLines(doc)[k] = line]

\* An item of a list is a value in any column.
locateInFrontMatter(item, col) ==
    [Token(IF col = 0 /\ item.kind # "kinds" THEN "FrontMatterKey" ELSE "FrontMatterValue",
           NoFrag, <<>>, item.label) EXCEPT !.key = item.kind]

\* The file of an include or the source of a build, under the cursor.
piToLocate(item, col) ==
    Token("DirectiveArg", IF col = 1 /\ item.kind # "catalog" THEN item.to ELSE NoFrag, <<>>, NoFrag)

locateInBody(file, doc, p) ==
    LET items == doc[p[1]].items IN
    CASE LinkAt(doc, p) # {} -> linkToLocate(file, At(doc, CHOOSE q \in LinkAt(doc, p) : TRUE))
      [] Has(doc, p[1], Directives) -> piToLocate(items[1], p[2])
      [] doc[p[1]].text # NoFrag -> Token("Heading", file, headingInfo(doc, p[1]), NoFrag)
      [] Has(doc, p[1], {"def", "sample"}) -> Token("RefDef", file, <<>>, items[1].label)
      [] OTHER -> Token("None", file, <<>>, NoFrag)

Locate(file, doc, p) ==
    CASE p[1] <= fmOffset(doc) -> locateInFrontMatter(doc[p[1]].items[1], p[2])
      [] p = FileTop(doc) -> Token("FileTop", file, <<>>, NoFrag)
      [] OTHER -> locateInBody(file, doc, p)

Cursors(doc) == Places(doc) \cup {<<i, 0>> : i \in DOMAIN doc} \cup {<<i, 1>> : i \in Range(HeadingLines(doc))}

(***************************************************************************)
(* Definition.                                                              *)
(***************************************************************************)
SymbolLines(idx, file, anchor) ==
    IF file \in DOMAIN idx
    THEN {idx[file].headings[k].line : k \in {h \in DOMAIN idx[file].headings :
                                                idx[file].headings[h].anchor = anchor}}
    ELSE {}

\* No anchor, no entry or no such heading: the file's first line.
locationsForFileLink(idx, to, anchor) ==
    IF anchor = <<>> \/ SymbolLines(idx, to, anchor) = {} THEN {<<to, 1>>}
    ELSE {<<to, l>> : l \in SymbolLines(idx, to, anchor)}

locationsForAnchor(idx, file, anchor) ==
    IF anchor = <<>> THEN {} ELSE {<<file, l>> : l \in SymbolLines(idx, file, anchor)}

locationForRefDef(idx, file, label) ==
    IF file \in DOMAIN idx /\ label \in DOMAIN idx[file].refs
    THEN {<<file, idx[file].refs[label]>>} ELSE {}

(***************************************************************************)
(* References, without the declaration, and all that definition and        *)
(* implementation find.                                                     *)
(***************************************************************************)
Origins(edges) == {<<e.source, <<e.line, e.col>>>> : e \in edges}

locationsForRefsToHeading(idx, file, anchor) ==
    IF anchor = <<>> THEN {} ELSE Origins(Incoming(idx, file, anchor))
locationsForFileTop(idx, file) ==
    Origins({e \in Incoming(idx, file, <<>>) : e.kind = "file" /\ e.anchor = <<>>})
locationsForFileReferences(idx, file) ==
    Origins({e \in Incoming(idx, file, <<>>) :
                \/ e.kind = "file" /\ e.anchor = <<>>
                \/ e.kind \in Directives})
FilesByKind(idx, kind) == {f \in DOMAIN idx : kind \in idx[f].kinds}
locationsForFilesByKind(idx, kind) == {<<f, <<1, 0>>>> : f \in FilesByKind(idx, kind)}
locationsForRefUses(idx, file, label) ==
    IF file \in DOMAIN idx
    THEN Origins({e \in idx[file].outgoing : e.kind = "ref" /\ e.label = label}) ELSE {}

References(idx, disk, file, p) ==
    LET res == Locate(file, disk[file], p) IN
    CASE res.tag = "Heading" -> locationsForRefsToHeading(idx, file, res.anchor)
      [] res.tag = "RefDef" -> locationsForRefUses(idx, file, res.label)
      [] res.tag = "FileTop" -> locationsForFileTop(idx, file)
      [] res.tag = "FrontMatterValue" /\ res.key # "title" -> locationsForFilesByKind(idx, res.label)
      [] res.tag = "DirectiveArg" /\ res.file # NoFrag -> locationsForFileReferences(idx, res.file)
      [] OTHER -> {}

Lines(origins) == {<<o[1], o[2][1]>> : o \in origins}

headingTargets(idx, file, line, anchor, wantAll) ==
    {<<file, line>>}
    \cup (IF wantAll THEN Lines(locationsForRefsToHeading(idx, file, anchor)) ELSE {})

directiveArgLocations(file) == IF file = NoFrag THEN {} ELSE {<<file, 1>>}

locationsForKindDefinition(kind) == IF kind \in DeclaredKinds THEN {<<ConfigFile, 1>>} ELSE {}

frontMatterValueTargets(idx, key, kind, wantAll) ==
    IF key = "title" THEN {}
    ELSE locationsForKindDefinition(kind)
         \cup (IF wantAll THEN Lines(locationsForFilesByKind(idx, kind)) ELSE {})

resolveByTag(idx, file, p, res, wantAll) ==
    CASE res.tag = "AnchorLink" -> locationsForAnchor(idx, file, res.anchor)
      [] res.tag = "FileLink" -> locationsForFileLink(idx, res.file, res.anchor)
      [] res.tag \in {"RefUse", "RefDef"} -> locationForRefDef(idx, file, res.label)
      [] res.tag = "DirectiveArg" -> directiveArgLocations(res.file)
      [] res.tag = "Heading" -> headingTargets(idx, file, p[1], res.anchor, wantAll)
      [] res.tag = "FileTop" -> {<<file, 1>>}
      [] res.tag = "FrontMatterValue" ->
            frontMatterValueTargets(idx, res.key, res.label, wantAll)
      [] OTHER -> {}

resolveTargets(idx, disk, file, p, wantAll) ==
    resolveByTag(idx, file, p, Locate(file, disk[file], p), wantAll)

(***************************************************************************)
(* The call hierarchy: the links between files, of a file or of a section  *)
(* of it.  An item is a file and an anchor, or no anchor.                    *)
(***************************************************************************)
prepareCallHierarchy(disk, file, p) ==
    LET res == Locate(file, disk[file], p)
    IN CASE res.tag \in {"Heading", "FileTop"} -> {<<file, res.anchor>>}
         [] res.tag = "DirectiveArg" /\ res.file # NoFrag -> {<<res.file, <<>>>>}
         [] OTHER -> {}

BetweenFiles(e) == e.kind \notin {"anchor", "ref"}

IncomingCalls(idx, item) ==
    {e \in Incoming(idx, item[1], item[2]) : BetweenFiles(e) /\ e.source # item[1]}

InScope(idx, item, line) ==
    \A k \in DOMAIN idx[item[1]].headings :
        item[2] # <<>> /\ idx[item[1]].headings[k].anchor = item[2] =>
            line \in idx[item[1]].headings[k].line .. idx[item[1]].headings[k].end

OutgoingCalls(idx, item) ==
    IF item[1] \in DOMAIN idx
    THEN {e \in idx[item[1]].outgoing : BetweenFiles(e) /\ InScope(idx, item, e.line)} ELSE {}

(***************************************************************************)
(* The outline: a heading's parents are left on the stack when it is        *)
(* pushed; a directive or a definition goes under the headings whose lines *)
(* it is among, from the outermost down.                                     *)
(***************************************************************************)
buildHeadingTree(doc, lines) ==
    LET Push(stack, i) == Append(SelectSeq(stack, LAMBDA j : doc[j].level < doc[i].level), i)
    IN FoldLeft(Push, <<>>, lines)

\* The headings over a line, the outermost first.
Enclosing(doc, line) == buildHeadingTree(doc, SelectSeq(HeadingLines(doc), LAMBDA i : i <= line))

attachInto(doc, heads, line) ==
    LET Parent(k) == Front(Enclosing(doc, heads[k].line))
        Children(above) == {k \in DOMAIN heads : /\ Parent(k) = above
                                                 /\ line \in heads[k].line .. heads[k].end}
        into[d \in 0 .. Len(heads)] ==
            IF d = 0 THEN <<>>
            ELSE LET here == Children(into[d - 1])
                 IN IF here = {} THEN into[d - 1]
                    ELSE Append(into[d - 1], heads[CHOOSE k \in here : \A j \in here : k <= j].line)
    IN into[Len(heads)]

\* The directives and definitions of the outline, with the headings over them.
buildOutline(file, doc) ==
    LET fe == buildFileEntry(file, doc)
    IN {<<i, attachInto(doc, fe.headings, i)>> : i \in fe.directives \cup Range(fe.refs)}

(***************************************************************************)
(* The symbols that a search finds.                                         *)
(***************************************************************************)
Match(file, line, kind, name) == [file |-> file, line |-> line, kind |-> kind, name |-> name]

matchFileSymbols(idx, f) ==
    {Match(f, idx[f].headings[k].line, "heading", NoFrag) : k \in DOMAIN idx[f].headings}
    \cup {Match(f, idx[f].refs[l], "ref", l) : l \in DOMAIN idx[f].refs}
matchFileTitle(idx, f) == {Match(f, 1, "title", t) : t \in idx[f].titles}
matchFileKinds(idx, f) == {Match(f, 1, "kind", k) : k \in idx[f].kinds}

SearchSymbols(idx) ==
    UNION {matchFileSymbols(idx, f) \cup matchFileTitle(idx, f) \cup matchFileKinds(idx, f) :
            f \in DOMAIN idx}

(***************************************************************************)
(* Completion, with the cursor behind the "#" of a link's fragment, the    *)
(* "[" of a label, a front-matter value or the key of a directive's file.  *)
(***************************************************************************)
Context(tag, file, prefix) == [tag |-> tag, file |-> file, prefix |-> prefix]

completionContextFrontMatter(item) ==
    IF item.kind = "title" THEN Context("None", NoFrag, NoFrag)
    ELSE Context("KindValue", NoFrag, item.label)

\* The key of an include's or build's file, or an item of a catalog's globs.
directiveCompletionContext == Context("DirectivePath", NoFrag, NoFrag)

\* Nothing before an image's, nor for a link around an image, whose text has
\* a bracket.
completionContextLinks(file, item) ==
    CASE item.kind = "link" /\ item.frag # NoFrag ->
            Context("Anchor", IF item.to = Self THEN file ELSE item.to, NoFrag)
      [] item.kind = "use" -> Context("RefLabel", NoFrag, NoFrag)
      [] OTHER -> Context("None", NoFrag, NoFrag)

insideCodeBlock(item) == item.kind = "sample"

CompletionContext(file, item) ==
    CASE item.kind \in FrontMatterKeys -> completionContextFrontMatter(item)
      [] insideCodeBlock(item) -> Context("None", NoFrag, NoFrag)
      [] item.kind \in Directives -> directiveCompletionContext
      [] OTHER -> completionContextLinks(file, item)

anchorItems(idx, file) ==
    IF file \in DOMAIN idx
    THEN {idx[file].headings[k].anchor : k \in DOMAIN idx[file].headings} \ {<<>>} ELSE {}
refLabelItems(idx, file) == IF file \in DOMAIN idx THEN DOMAIN idx[file].refs ELSE {}
kindItems(prefix) == {k \in DeclaredKinds : prefix \in {NoFrag, k}}
directivePathItems(idx, file) == {relFromDir(Front(PathOf[file]), PathOf[g]) : g \in DOMAIN idx}

completionItems(idx, file, ctx) ==
    CASE ctx.tag = "Anchor" -> anchorItems(idx, ctx.file)
      [] ctx.tag = "RefLabel" -> refLabelItems(idx, file)
      [] ctx.tag = "KindValue" -> kindItems(ctx.prefix)
      [] ctx.tag = "DirectivePath" -> directivePathItems(idx, file)
      [] OTHER -> {}

(***************************************************************************)
(* Where a rename is offered: the text of a heading, the label of a         *)
(* definition that the parser takes, the label of a use.                     *)
(***************************************************************************)
headingPrepareRange(line) == {<<line, 0>>}
refDefPrepareRange(doc, line) == IF line \in Defs(doc) THEN {<<line, 1>>} ELSE {}

\* The brackets under the cursor, when they hold the label.
refUsePrepareRange(doc, p, label) == IF At(doc, p).label = label THEN {p} ELSE {}

prepareRenameAt(file, doc, p) ==
    LET res == Locate(file, doc, p) IN
    CASE res.tag = "Heading" -> headingPrepareRange(p[1])
      [] res.tag = "RefDef" -> refDefPrepareRange(doc, p[1])
      [] res.tag = "RefUse" -> refUsePrepareRange(doc, p, res.label)
      [] OTHER -> {}

(***************************************************************************)
(* mdsmith deps, and the links listed for a target by mdsmith list          *)
(* backlinks, which reads the files by itself.                               *)
(***************************************************************************)
Dep(e) == [source |-> e.source, line |-> e.line, kind |-> e.kind, to |-> e.to]

collectDeps(idx, target, incoming) ==
    IF incoming THEN {Dep(e) : e \in Incoming(idx, target, <<>>)}
    ELSE IF target \in DOMAIN idx THEN {Dep(e) : e \in idx[target].outgoing} ELSE {}

collectBacklinks(disk, files, target, anchor) ==
    UNION {{<<f, linkPosition(disk[f], p)>> : p \in {q \in Places(disk[f]) :
                LET item == At(disk[f], q)
                IN /\ item.kind \in {"link", "picture"}
                   /\ item.to = target
                   /\ anchor # <<>> => FragSlug(item) = anchor}} :
            f \in files}

-----------------------------------------------------------------------------
InlineLinks(doc) == {p \in Places(doc) : At(doc, p).kind \in {"link", "picture"}}
Target(file, item) == IF item.to = Self THEN file ELSE item.to

(***************************************************************************)
(* A link with a fragment that MDS027 accepts leads, for definition, to    *)
(* one heading, and is among the references of that heading and of no      *)
(* other; a link that it rejects is among the references of none.           *)
(***************************************************************************)
ReferredBy(idx, disk, f, p) ==
    LET g == Target(f, At(disk[f], p))
    IN {i \in Range(HeadingLines(disk[g])) :
            <<f, linkPosition(disk[f], p)>> \in References(idx, disk, g, <<i, 1>>)}

LinksAreFound(idx, disk) ==
    \A f \in DOMAIN idx : \A p \in InlineLinks(disk[f]) :
        Target(f, At(disk[f], p)) \in DOMAIN idx /\ At(disk[f], p).frag # NoFrag =>
            IF BrokenTarget(disk, f, At(disk[f], p)) THEN ReferredBy(idx, disk, f, p) = {}
            ELSE /\ Cardinality(ReferredBy(idx, disk, f, p)) = 1
                 /\ resolveTargets(idx, disk, f, linkPosition(disk[f], p), FALSE) =
                        {<<Target(f, At(disk[f], p)), i>> : i \in ReferredBy(idx, disk, f, p)}

(***************************************************************************)
(* From the file of an include or build the references are the plain links *)
(* to that file and all directives that name it, this one too; the         *)
(* definition is the file, and the call hierarchy goes on from it.           *)
(***************************************************************************)
Directed(disk, files, g) ==
    UNION {{<<f, <<p[1], 0>>>> : p \in {q \in Places(disk[f]) : /\ At(disk[f], q).kind \in Directives
                                                             /\ At(disk[f], q).to = g}} : f \in files}

\* The references from the top of a file that has a body.
PlainLinks(idx, disk, g) ==
    IF g \in DOMAIN idx /\ fmOffset(disk[g]) < Len(disk[g])
    THEN References(idx, disk, g, <<fmOffset(disk[g]) + 1, 0>>) ELSE locationsForFileTop(idx, g)

DirectivesAreFound(idx, disk) ==
    \A f \in DOMAIN idx : \A i \in collectDirectives(disk[f]) :
        LET g == disk[f][i].items[1].to IN
        IF g = NoFrag THEN resolveTargets(idx, disk, f, <<i, 1>>, TRUE) = {}
        ELSE /\ References(idx, disk, f, <<i, 1>>) =
                    PlainLinks(idx, disk, g) \cup Directed(disk, DOMAIN idx, g)
             /\ resolveTargets(idx, disk, f, <<i, 1>>, FALSE) = {<<g, 1>>}
             /\ f # g => \A item \in prepareCallHierarchy(disk, f, <<i, 1>>) :
                            <<f, <<i, 0>>>> \in Origins(IncomingCalls(idx, item))

(***************************************************************************)
(* A link between two files is an outgoing call of just the sections that  *)
(* the outline has over it, and an incoming call of the file it names;      *)
(* incoming calls and backlinks are the same links, and deps --incoming is *)
(* those and the directives.                                                 *)
(***************************************************************************)
CallsFollowOutline(idx, disk) ==
    \A f \in DOMAIN idx :
        /\ \A e \in idx[f].outgoing : BetweenFiles(e) =>
             {i \in Range(HeadingLines(disk[f])) :
                    headingInfo(disk[f], i) # <<>> /\
                    \A item \in prepareCallHierarchy(disk, f, <<i, 1>>) : e \in OutgoingCalls(idx, item)}
               = {i \in Range(Enclosing(disk[f], e.line)) : headingInfo(disk[f], i) # <<>>}
        /\ \A leaf \in buildOutline(f, disk[f]) : leaf[2] = Enclosing(disk[f], leaf[1])
        /\ \A a \in anchorItems(idx, f) \cup {<<>>} :
             Origins({e \in IncomingCalls(idx, <<f, a>>) : e.kind = "file"}) =
                {b \in collectBacklinks(disk, DOMAIN idx, f, a) : b[1] # f}
        /\ {<<d.source, d.line>> : d \in {r \in collectDeps(idx, f, TRUE) : r.source # f}} =
             Lines({b \in collectBacklinks(disk, DOMAIN idx, f, <<>>) \cup Directed(disk, DOMAIN idx, f) :
                        b[1] # f})

(***************************************************************************)
(* What a search finds, definition finds from there; a kind's files are    *)
(* the same for the search, from the front matter of each of them, and for *)
(* the kind that is declared.                                                *)
(***************************************************************************)
SymbolsAreFound(idx, disk) ==
    /\ \A m \in SearchSymbols(idx) : m.kind \in {"heading", "ref"} =>
            resolveTargets(idx, disk, m.file, <<m.line, 1>>, FALSE) = {<<m.file, m.line>>}
    /\ \A f \in DOMAIN idx : \A p \in Places(disk[f]) : At(disk[f], p).kind \in {"kind", "kinds"} =>
            LET k     == At(disk[f], p).label
                found == {<<m.file, 1>> : m \in {n \in SearchSymbols(idx) : n.kind = "kind" /\ n.name = k}}
            IN /\ <<f, 1>> \in found
               /\ Lines(References(idx, disk, f, p)) = found
               /\ resolveTargets(idx, disk, f, p, TRUE) = found \cup locationsForKindDefinition(k)

(***************************************************************************)
(* What completion offers can be written there: an anchor is one MDS027     *)
(* accepts in that link, a label one the parser resolves, a kind one the   *)
(* configuration declares, and the paths lead from the file to the files   *)
(* of the index; every anchor of the target is offered.                      *)
(***************************************************************************)
Accepted(idx, disk, f, item, offers) ==
    CASE item.kind = "link" ->
            /\ \A a \in offers : ~BrokenTarget(disk, f, [item EXCEPT !.frag = Text(a, 0)])
            /\ Target(f, item) \in DOMAIN idx => offers = CollectAnchors(disk[Target(f, item)])
      [] item.kind = "use" -> \A l \in offers : DefsOf(disk[f], l) # {}
      [] item.kind \in {"kind", "kinds"} -> \A k \in offers : locationsForKindDefinition(k) # {}
      [] item.kind \in Directives ->
            {ResolveRelTarget(PathOf[f], path) : path \in offers} = {PathOf[g] : g \in DOMAIN idx}
      [] OTHER -> offers = {}

OffersResolve(idx, disk) ==
    \A f \in DOMAIN idx : \A p \in Places(disk[f]) :
        LET item == At(disk[f], p)
            ctx  == CompletionContext(f, item)
        IN ctx.tag # "None" => Accepted(idx, disk, f, item, completionItems(idx, f, ctx))
===============================================================================
