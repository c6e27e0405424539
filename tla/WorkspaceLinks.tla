---------------------------- MODULE WorkspaceLinks ----------------------------
(***************************************************************************)
(* Headings, anchors and links of a workspace, as the packages that answer *)
(* "what points where" see them: internal/linkgraph, internal/index and    *)
(* the rule MDS027 (crossfilereferenceintegrity), with the disambiguation  *)
(* of equal slugs from internal/mdtext.                                    *)
(*                                                                         *)
(* A file is a sequence of lines, a line is a heading or a row of items.   *)
(* Items: "link" [t](f.md#s), "image" ![t](f.md#s), "picture", the link     *)
(* around the image before it, "use" [t][l], "figure" ![t][l], "def"       *)
(* [l]: f.md#s alone on its line, and "sample", a line of the shape of a   *)
(* definition that is inside a code block.  A directive, "include", "build" *)
(* or "catalog", stands alone; its file is NoFrag when it leaves the root. *)
(* Front matter is rows at the head of the file: "kind", "title", and one  *)
(* "kinds" for each item of that list.                                      *)
(* A slug is its words and disambiguators in a sequence, a text or a       *)
(* fragment a slug and how it is spelled; the empty slug is <<>>.          *)
(***************************************************************************)
EXTENDS Integers, Sequences, SequencesExt

CONSTANTS
    Self,     \* the target of a link that has a fragment and no path
    NoFrag,   \* a link without a fragment, a line without a heading
    PathOf,   \* the path of a file: its directories and its name
    Up        \* the ".." of a path

Text(slug, form) == [slug |-> slug, form |-> form]
Slugify(t) == t.slug

Item(kind, to, frag, label) == [kind |-> kind, to |-> to, frag |-> frag, label |-> label]
HeadingLine(level, t) == [level |-> level, text |-> t, items |-> <<>>]
Row(items) == [level |-> 0, text |-> NoFrag, items |-> items]

HeadingLines(doc) == SelectSeq([i \in DOMAIN doc |-> i], LAMBDA i : doc[i].text # NoFrag)
Texts(doc) == LET h == HeadingLines(doc) IN [k \in DOMAIN h |-> doc[h[k]].text]

(***************************************************************************)
(* Slugs.  An equal slug gets the first free number after the last one the *)
(* same slug was given.                                                     *)
(***************************************************************************)
assignSlugs(texts) ==
    LET Next(acc, t) ==
            LET base  == Slugify(t)
                count == IF base \in DOMAIN acc.counts THEN acc.counts[base] ELSE 0
                free  == CHOOSE n \in count + 1 .. count + Len(texts) :
                            /\ Append(base, n) \notin acc.used
                            /\ \A m \in count + 1 .. n - 1 : Append(base, m) \in acc.used
            IN CASE base = <<>> -> [acc EXCEPT !.out = Append(@, <<>>)]
                 [] base # <<>> /\ base \notin acc.used ->
                        [acc EXCEPT !.out = Append(@, base), !.used = @ \cup {base}]
                 [] OTHER ->
                        [out |-> Append(acc.out, Append(base, free)),
                         used |-> acc.used \cup {Append(base, free)},
                         counts |-> (base :> free) @@ acc.counts]
    IN FoldLeft(Next, [out |-> <<>>, used |-> {}, counts |-> [s \in {} |-> 0]], texts).out

Slugs(doc) == assignSlugs(Texts(doc))
CollectAnchors(doc) == Range(Slugs(doc)) \ {<<>>}

(***************************************************************************)
(* Reference definitions: the first of a label counts.                      *)
(***************************************************************************)
Defs(doc) == {i \in DOMAIN doc : \E j \in DOMAIN doc[i].items : doc[i].items[j].kind = "def"}
DefsOf(doc, label) == {i \in Defs(doc) : doc[i].items[1].label = label}
Resolved(doc, item) ==
    item.kind \in {"use", "figure"} /\ DefsOf(doc, item.label) # {}
Definition(doc, label) ==
    CHOOSE i \in DefsOf(doc, label) : \A d \in DefsOf(doc, label) : i <= d

\* The destination the parser gives an item: its own, or its definition's.
Destination(doc, item) ==
    IF item.kind \in {"use", "figure"} THEN doc[Definition(doc, item.label)].items[1] ELSE item

Places(doc) == UNION {{<<i, j>> : j \in DOMAIN doc[i].items} : i \in DOMAIN doc}
At(doc, p) == doc[p[1]].items[p[2]]

(***************************************************************************)
(* The index: the edges of a file, and those that come in.                 *)
(***************************************************************************)
Edge(kind, file, p, to, anchor, label) ==
    [kind |-> kind, source |-> file, line |-> p[1], col |-> p[2], to |-> to,
     anchor |-> anchor, label |-> label]

FragSlug(item) == IF item.frag = NoFrag THEN <<>> ELSE Slugify(item.frag)

\* Where the first text of a link is: around an image, in the image.
linkPosition(doc, p) == IF At(doc, p).kind = "picture" THEN <<p[1], p[2] - 1>> ELSE p

collectLinkEdges(file, doc) ==
    {Edge(IF At(doc, p).to = Self THEN "anchor" ELSE "file", file, linkPosition(doc, p),
          IF At(doc, p).to = Self THEN file ELSE At(doc, p).to, FragSlug(At(doc, p)), NoFrag) :
        p \in {q \in Places(doc) : At(doc, q).kind \in {"link", "picture"}}}
    \cup
    {Edge("ref", file, p, file, <<>>, At(doc, p).label) :
        p \in {q \in Places(doc) : At(doc, q).kind = "use" /\ Resolved(doc, At(doc, q))}}

Directives == {"include", "build", "catalog"}

\* A catalog's edge has no file, and comes in nowhere.
collectDirectiveEdges(file, doc) ==
    {Edge(At(doc, p).kind, file, <<p[1], 0>>, At(doc, p).to, <<>>, NoFrag) :
        p \in {q \in Places(doc) : /\ At(doc, q).kind \in Directives
                                   /\ At(doc, q).to = NoFrag => At(doc, q).kind = "catalog"}}

Edges(file, doc) == collectLinkEdges(file, doc) \cup collectDirectiveEdges(file, doc)

Build(disk, files) == [f \in files |-> Edges(f, disk[f])]

IncomingEdges(idx, file, anchor) ==
    {e \in UNION Range(idx) : e.to = file /\ (anchor # <<>> => e.anchor = anchor)}

(***************************************************************************)
(* Paths, from the root of the workspace.                                   *)
(***************************************************************************)
Clean(path) ==
    LET Step(acc, s) == IF s = Up /\ acc # <<>> /\ Last(acc) # Up THEN Front(acc) ELSE Append(acc, s)
    IN FoldLeft(Step, <<>>, path)

\* A link that leaves the root resolves to nothing.
ResolveRelTarget(src, link) ==
    LET cleaned == Clean(Front(src) \o link)
    IN IF cleaned # <<>> /\ Head(cleaned) = Up THEN NoFrag ELSE cleaned

relFromDir(dir, target) ==
    LET common == CHOOSE k \in 0 .. Len(dir) :
                    /\ IsPrefix(SubSeq(dir, 1, k), target)
                    /\ k < Len(dir) => ~IsPrefix(SubSeq(dir, 1, k + 1), target)
    IN [i \in 1 .. Len(dir) - common |-> Up] \o SubSeq(target, common + 1, Len(target))

(***************************************************************************)
(* MDS027: the places of a file it reports, on a disk.                      *)
(***************************************************************************)
anchorsForFile(disk, file) == CollectAnchors(disk[file])

\* The file that a link names, when there is one.
resolveTargetFile(disk, item) == {item.to} \cap DOMAIN disk

BrokenTarget(disk, file, item) ==
    \/ item.to = Self /\ FragSlug(item) \notin CollectAnchors(disk[file])
    \/ /\ item.to # Self
       /\ \A g \in resolveTargetFile(disk, item) :
            item.frag # NoFrag /\ FragSlug(item) \notin anchorsForFile(disk, g)

Checked(doc, item) == item.kind \in {"link", "picture", "image"} \/ Resolved(doc, item)

BrokenLinks(disk, file) ==
    {p \in Places(disk[file]) :
        /\ Checked(disk[file], At(disk[file], p))
        /\ BrokenTarget(disk, file, Destination(disk[file], At(disk[file], p)))}
===============================================================================
