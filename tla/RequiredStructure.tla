------------------------- MODULE RequiredStructure -------------------------
(***************************************************************************)
(* The rule required-structure (MDS020) on one document: its settings are  *)
(* merged and read, the schemas the document's kinds attach to it are made *)
(* into one, the document is checked against it, fixed, checked again, and *)
(* a document that passes is made into the tree `mdsmith extract` projects.*)
(*                                                                         *)
(* A source is [inline |-> TRUE, schema], or one with inline |-> FALSE: a  *)
(* schema file as SchemaSource reads it, self saying that the document is  *)
(* the schema file.  file is what there is beside the document's text:     *)
(*   layers    the layers of the configuration, <<>> where the sources are *)
(*             given, and files, the schema files they name                *)
(*   fm, yaml  the front matter, and whether it parses                     *)
(*   name, paths   the base name, and the path patterns the path matches   *)
(*   stray     a require directive stands in it                            *)
(*   mode      "check", "fix", or "editor": a language server, which lints *)
(*             the buffer each time edits change its front matter          *)
(*   writable  whether the index can be written                            *)
(***************************************************************************)
EXTENDS SchemaInline

CONSTANTS
  Cases,       \* families of records [sources, doc, file, disk] to check
  MaxPasses    \* how often a fix repeats

VARIABLES
  sources, doc, file,
  original,   \* history: the document before it was fixed
  rule,       \* what else the settings say: [patterns, cue]
  schema,     \* what the sources compose to, Empty before
  diags,      \* what the rule reports
  pairs,      \* history: the headings the validator claimed, and for which scope
  visited,    \* the sections the content checks and the scope rules looked at
  tree,       \* the sections the extraction found
  matchers,   \* the headings the process has compiled
  disk,       \* the index next to the document
  passes,     \* how often the document was fixed; MaxPasses once it settled
  pc          \* settings, refused, compose, headings, content, extract or done

vars == <<sources, doc, file, original, rule, schema, diags, pairs, visited, tree, matchers, disk,
          passes, pc>>
given == <<sources, doc, file, original, rule, passes>>

Init ==
  /\ \E i \in DOMAIN Cases : \E c \in Cases[i] :
       /\ sources = c.sources /\ doc = c.doc /\ file = c.file /\ original = c.doc /\ disk = c.disk
       /\ pc = IF c.file.layers = <<>> THEN "compose" ELSE "settings"
  /\ rule = [patterns |-> {}, cue |-> FALSE] /\ passes = 0 /\ matchers = <<>>
  /\ schema = Empty /\ diags = {} /\ pairs = {} /\ visited = {} /\ tree = {}

\* A rule whose settings are refused does not run.
ApplySettings ==
  /\ pc = "settings"
  /\ LET v == Effective(file.layers) IN
     IF GoodSettings(v)
     THEN /\ sources' = SourcesOf(v, file.files)
          /\ rule' = [patterns |-> PathPatternsOf(v),
                      cue |-> "cue-frontmatter" \in StringsAt(v, "placeholders")]
          /\ pc' = "compose"
     ELSE pc' = "refused" /\ UNCHANGED <<sources, rule>>
  /\ UNCHANGED <<doc, file, original, schema, diags, pairs, visited, tree, matchers, disk, passes>>

-----------------------------------------------------------------------------
SingleFile == Len(sources) = 1 /\ ~sources[1].inline
FrontMatter == IF file.yaml THEN file.fm ELSE <<>>
YamlDiags == Report(~file.yaml, "front matter")

\* What is checked whatever the schema: the path, require outside a schema file.
PathDiags == Report(~(rule.patterns \subseteq file.paths), "path")
Misplaced ==
  PathDiags \union
  Report(file.stray /\ \A k \in DOMAIN sources : sources[k].inline \/ ~sources[k].self, "misplaced require")

\* A schema file adds nothing to its own check, and an empty one nothing to others.
Contributes(s) == IF s.inline THEN Len(sources) = 1 \/ ~IsEmpty(s.schema) ELSE ~s.self
Broken(s) == ~s.inline /\ ParseFailed(s)
Parsed ==
  LET used == SelectSeq(sources, LAMBDA s : Contributes(s) /\ ~Broken(s))
  IN [k \in DOMAIN used |-> IF used[k].inline THEN used[k].schema ELSE ParseFile(used[k])]
SomeBroken == \E k \in DOMAIN sources : Contributes(sources[k]) /\ Broken(sources[k])

NoSource ==
  /\ pc = "compose" /\ sources = <<>>
  /\ diags' = Misplaced /\ pc' = "done"
  /\ UNCHANGED <<given, schema, pairs, visited, tree, matchers, disk>>

\* One file on its own: the flat check of its headings.
FieldDiags(fields) == IF rule.cue THEN {} ELSE FrontmatterDiags(fields, FrontMatter)
AloneDiags(src) ==
  LET legacy == ParseLegacy(src)
  IN IF ~Readable(src) THEN {"schema unreadable"}
     ELSE IF legacy.failed THEN {"schema invalid"}
     ELSE IF src.self THEN {}
     ELSE YamlDiags \union FilenameDiags(legacy.require, file.name)
          \union CheckStructure(legacy.heads, Headings(doc)) \union FieldDiags(legacy.fields)
          \union SyncDiags(legacy, src.files[src.path].items, doc, FrontMatter)
CheckSingleFile ==
  /\ pc = "compose" /\ SingleFile
  /\ diags' = Misplaced \union AloneDiags(sources[1])
  /\ pc' = "done"
  /\ UNCHANGED <<given, schema, pairs, visited, tree, matchers, disk>>

\* bodySyncDiagnostics: what composing loses of a schema file is checked apart.
SyncOf(src) ==
  IF src.inline \/ src.self \/ DOMAIN FrontMatter = {} THEN {}
  ELSE IF ~Readable(src) THEN {"schema unreadable"}
  ELSE LET legacy == ParseLegacy(src)
       IN IF legacy.failed THEN {}
          ELSE SyncDiags(legacy, src.files[src.path].items, doc, FrontMatter)

ComposeSources ==
  /\ pc = "compose" /\ sources # <<>> /\ ~SingleFile
  /\ LET parsed == Parsed
         before == Misplaced \union YamlDiags \union Report(SomeBroken, "schema invalid")
                   \union UNION {SyncOf(sources[k]) : k \in DOMAIN sources}
     IN IF parsed = <<>> THEN diags' = before /\ pc' = "done" /\ UNCHANGED schema
        ELSE IF Refused(parsed)
        THEN diags' = before \union {"composing"} /\ pc' = "done" /\ UNCHANGED schema
        ELSE /\ schema' = Compose(parsed) /\ diags' = before
             /\ pc' = IF Len(sources) > 1 /\ IsEmpty(schema') THEN "done" ELSE "headings"
  /\ UNCHANGED <<given, pairs, visited, tree, matchers, disk>>

-----------------------------------------------------------------------------
\* The schema with the headings that quote the front matter as cache has them.
Resolved(cache) ==
  IF Quoted(schema.sections) = {} THEN schema
  ELSE [schema EXCEPT !.sections = ResolveCached(@, FrontMatter, cache)]

CheckHeadings ==
  /\ pc = "headings"
  /\ matchers' = CompileAll(matchers, FrontMatter, Quoted(schema.sections))
  /\ IF IsEmpty(schema) THEN UNCHANGED <<diags, pairs>>
     ELSE LET w == Validate(Resolved(matchers'), Headings(doc)) IN
          /\ diags' = diags \union FilenameDiags(schema.filename, file.name)
                            \union FieldDiags(schema.fields) \union {d[1] : d \in w.diags}
          /\ pairs' = w.pairs
  /\ pc' = "content"
  /\ UNCHANGED <<given, schema, visited, tree, disk>>

\* The content and what follows it: the scope rules, the cross-references, the
\* acronyms and the index.
CheckContent ==
  /\ pc = "content"
  /\ LET s == Resolved(matchers)
         g == ContentWalk(s, doc)
     IN /\ visited' = g.found
        /\ diags' = diags \union g.diags \union RunScopeRules(doc, g.found)
                          \union CrossRefDiags(s.refs, doc) \union AcronymDiags(s, doc)
                          \union IndexDiags(s, doc, disk)
  /\ disk' = AfterCheck(schema, disk)
  /\ pc' = IF diags' = {} THEN "extract" ELSE "done"
  /\ UNCHANGED <<given, schema, pairs, tree, matchers>>

\* extract runs only on a document that conforms.
Extract ==
  /\ pc = "extract"
  /\ tree' = BuildMatchTree(Resolved(matchers), doc)
  /\ pc' = "done"
  /\ UNCHANGED <<given, schema, diags, pairs, visited, matchers, disk>>

-----------------------------------------------------------------------------
Again ==
  /\ pc' = "compose" /\ schema' = Empty
  /\ diags' = {} /\ pairs' = {} /\ visited' = {} /\ tree' = {}

\* Fix: the index is written unless the schemas cannot be read or composed.
FixedIndex ==
  LET parsed == Parsed
  IN IF SomeBroken \/ parsed = <<>> \/ Refused(parsed) THEN disk
     ELSE WriteIndex(Compose(parsed), doc, disk, file.writable)
FixedText ==
  LET src == sources[1]
  IN IF ~SingleFile THEN doc
     ELSE IF src.self \/ ~Readable(src) THEN doc
     ELSE LET legacy == ParseLegacy(src)
          IN IF legacy.failed THEN doc
             ELSE FixBodySync(legacy, src.files[src.path].items, doc, FrontMatter)

\* A pass that changes nothing is the last one; the document is checked again.
FixDocument ==
  /\ pc = "done" /\ file.mode = "fix" /\ diags # {} /\ passes < MaxPasses
  /\ disk' = FixedIndex
  /\ doc' = FixedText
  /\ passes' = IF doc' = doc THEN MaxPasses ELSE passes + 1
  /\ Again
  /\ UNCHANGED <<sources, file, original, rule, matchers>>

\* A code action fixes a copy of the buffer, which may never be applied.
OfferFix ==
  /\ pc = "done" /\ file.mode = "editor" /\ diags # {}
  /\ disk' = FixedIndex
  /\ UNCHANGED <<given, schema, diags, pairs, visited, tree, matchers, pc>>

\* The user changes the front matter, and the buffer is linted again.
Edit ==
  /\ pc = "done" /\ file.mode = "editor" /\ file.edits # <<>>
  /\ file' = [file EXCEPT !.fm = Head(file.edits), !.edits = Tail(@)]
  /\ Again
  /\ UNCHANGED <<sources, doc, original, rule, passes, matchers, disk>>

Next ==
  \/ ApplySettings \/ NoSource \/ CheckSingleFile \/ ComposeSources \/ CheckHeadings
  \/ CheckContent \/ Extract \/ FixDocument \/ OfferFix \/ Edit
Spec == Init /\ [][Next]_vars

-----------------------------------------------------------------------------
(***************************************************************************)
(* What it means to conform, said without an algorithm: some assignment of *)
(* the headings of a level to the scopes listed there keeps their order    *)
(* and their bounds, the same holds below each, and what is assigned to no *)
(* scope stands where an open list or a slot lets it.                      *)
(***************************************************************************)
AtLevel(heads, level) == {k \in DOMAIN heads : heads[k].level = level}
Below(heads, k) ==
  LET end == First({j \in k + 1 .. Len(heads) : heads[j].level <= heads[k].level})
  IN SubSeq(heads, k + 1, IF end = 0 THEN Len(heads) ELSE end - 1)

InBounds(n, sc) == n >= sc.min /\ (sc.max = 0 \/ n <= sc.max)

\* An assignment a of the headings of list l = [scopes, closed, level], 0 for none.
InSlot(l, a, k) ==
  \E s \in DOMAIN l.scopes :
    /\ IsSlot(l.scopes[s])
    /\ \A j \in DOMAIN a : a[j] # 0 => (j < k => a[j] < s) /\ (j > k => s < a[j])
InOrder(a) == \A j, k \in DOMAIN a : j < k /\ a[j] # 0 /\ a[k] # 0 => a[j] <= a[k]
Contiguous(a) ==
  \A j, k, m \in DOMAIN a : j < k /\ k < m /\ a[j] = a[m] /\ a[j] # 0 => a[k] = a[j]
Numbered(l, heads, a) ==
  \A i \in DOMAIN l.scopes : \A j, k \in DOMAIN a :
    l.scopes[i].sequential /\ a[j] = i /\ a[k] = i /\ j < k /\ (\A m \in DOMAIN a : m <= j \/ k <= m)
      => heads[k].digits = heads[j].digits + 1
Counted(l, a) ==
  \A i \in DOMAIN l.scopes :
    \/ l.scopes[i].preamble \/ IsSlot(l.scopes[i])
    \/ InBounds(Cardinality({k \in DOMAIN a : a[k] = i}), l.scopes[i])
ListedIn(l, h) == \E i \in DOMAIN l.scopes : ScopeMatches(l.scopes[i], h)

\* strict: a heading that is assigned to no scope matches none of them either.
RECURSIVE Conforms(_, _, _)
Fits(l, heads, strict, k, i) ==
  LET sc == l.scopes[i] IN
  /\ ScopeMatches(sc, heads[k])
  /\ \/ sc.sections = <<>>
     \/ Conforms([scopes |-> sc.sections, closed |-> sc.closed, level |-> l.level + 1],
                 Below(heads, k), strict)
Conforms(l, heads, strict) ==
  LET K == AtLevel(heads, l.level)
      fit == [k \in K |-> {i \in DOMAIN l.scopes : Fits(l, heads, strict, k, i)}]
  IN \E a \in [K -> 0 .. Len(l.scopes)] :
       /\ \A k \in K : IF a[k] # 0 THEN a[k] \in fit[k]
                       ELSE (l.closed => InSlot(l, a, k)) /\ (strict => ~ListedIn(l, heads[k]))
       /\ InOrder(a) /\ Contiguous(a) /\ Counted(l, a) /\ Numbered(l, heads, a)

\* The schema as this document reads it, whatever the cache holds.
Fresh ==
  IF Quoted(schema.sections) = {} THEN schema
  ELSE [schema EXCEPT !.sections = ResolveFresh(@, FrontMatter)]
Body == SkipBelow(Headings(doc), schema.root)
DocConforms(strict) ==
  Conforms([scopes |-> Fresh.sections, closed |-> schema.closed, level |-> schema.root],
           Body, strict)
\* No heading is written at one level and listed at another, or listed twice,
\* and no slot of a closed list stands behind a scope that may be left out.
RECURSIVE Unambiguous(_, _, _)
Unambiguous(scopes, closed, level) ==
  \A i \in DOMAIN scopes :
    /\ Unambiguous(scopes[i].sections, scopes[i].closed, level + 1)
    /\ closed /\ i > 1 /\ IsSlot(scopes[i]) => Required(scopes[i - 1])
    /\ \A k \in DOMAIN Body : ScopeMatches(scopes[i], Body[k]) =>
         /\ Body[k].level = level
         /\ \A j \in DOMAIN scopes \ {i} : ~ScopeMatches(scopes[j], Body[k])

\* A flat list: its headings stand in the document in their order, each at its
\* level and with what the front matter says, the lines of a template below it,
\* and what lies between two of them stands where the list has a "...".
FlatConforms(flat, items, heads) ==
  LET named == SelectSeq([i \in DOMAIN flat |-> i], LAMBDA i : ~Wildcard(flat[i]))
      n == Len(named)
      At(e, j) == IF j = 0 THEN 0 ELSE IF j > n THEN Len(heads) + 1 ELSE e[j]
      Place(j) == IF j = 0 THEN 0 ELSE IF j > n THEN Len(flat) + 1 ELSE named[j]
      Says(req, k) ==
        req.field \in DOMAIN FrontMatter => heads[k].text = FrontMatter[req.field]
      Below1(k) == heads[k].line + 1 .. (IF k = Len(heads) THEN Len(doc) ELSE heads[k + 1].line - 1)
  IN \E e \in [1 .. n -> DOMAIN heads] :
       /\ \A j \in 1 .. n : /\ FlatMatches(flat[named[j]], heads[e[j]])
                            /\ heads[e[j]].level = flat[named[j]].level
       /\ \A j \in 0 .. n :
            /\ At(e, j) < At(e, j + 1)
            /\ At(e, j) + 1 < At(e, j + 1) =>
                 \E i \in Place(j) + 1 .. Place(j + 1) - 1 : Wildcard(flat[i])
       /\ DOMAIN FrontMatter # {} => \A j \in 1 .. n :
            /\ Says(flat[named[j]], e[j])
            /\ \A l \in ToSet(BodyPoints(flat, items, named[j])) :
                 Said(doc, Below1(e[j]), Fill(items[l].says, FrontMatter))

Clean == pc = "done" /\ diags = {}

\* The front matter says what a set of fields demands; what has but one value
\* that all accept may be left out.
FieldsHold(fields) ==
  \/ rule.cue
  \/ /\ \A f \in fields :
          IF f.name \in DOMAIN FrontMatter THEN FrontMatter[f.name] \in f.values
          ELSE f.optional \/ Cardinality(Allowed(fields, f.name)) = 1
     /\ fields # {} => DOMAIN FrontMatter \subseteq {f.name : f \in fields}
\* An acronym that is not known is expanded where it is used first.
AcronymsHold(a) ==
  a.on /\ a.scope = {} => \A token \in Acronyms \ a.known : \A l \in DOMAIN doc :
    IsLine(doc[l]) => \A p \in DOMAIN doc[l].says :
      \/ doc[l].says[p] # token
      \/ p < Len(doc[l].says) /\ doc[l].says[p + 1] = "()"
      \/ \E q \in 1 .. p - 1 : doc[l].says[q] = token
      \/ \E k \in 1 .. l - 1 : IsLine(doc[k]) /\ token \in Words(doc[k])
RefsHold(refs) ==
  \A ref \in ToSet(refs) : \A item \in ToSet(doc) : \A w \in Words(item) \cap DOMAIN ref.to :
    \/ ~IsLine(item) \/ item.text = "code" \/ Words(item) \cap ref.skip # {}
    \/ \E h \in ToSet(Headings(doc)) : h.text = ref.to[w]
AloneConforms(src) ==
  LET legacy == ParseLegacy(src)
  IN \/ src.self
     \/ /\ FlatConforms(legacy.heads, src.files[src.path].items, Headings(doc))
        /\ FieldsHold(legacy.fields) /\ (legacy.require = {} \/ file.name \in legacy.require)

(* The rule accepts only documents that conform: their headings (Validate,  *)
(* checkStructure) with what they quote of the front matter, the front      *)
(* matter itself, the path, the cross-references, the acronyms, and the     *)
(* index next to the document.                                              *)
CleanIsConforming ==
  Clean =>
    /\ rule.patterns \subseteq file.paths
    /\ IF sources = <<>> THEN TRUE
       ELSE IF SingleFile THEN AloneConforms(sources[1])
       ELSE /\ DocConforms(FALSE)
            /\ FieldsHold(schema.fields) /\ (schema.filename = {} \/ file.name \in schema.filename)
            /\ RefsHold(schema.refs) /\ AcronymsHold(schema.acronyms)
            /\ schema.index.on => disk.there /\ disk.holds = BuildIndex(schema, doc)

(* It accepts every document that conforms, where the schema can be read in *)
(* one way only: nothing is reported of such a document's headings.         *)
HeadingDiags == {"level", "order", "too few", "too many", "exceeds", "sequential", "missing", "unexpected"}
ConformingIsClean ==
  pc = "content" /\ Unambiguous(Fresh.sections, schema.closed, schema.root) =>
    (DocConforms(TRUE) => diags \cap HeadingDiags = {})

(* The content checks and the scope rules, the acronyms and the extraction  *)
(* look at the very headings the validator claimed (ScopeRunIndices against *)
(* matchScope), but where they settle for a heading of another level or out *)
(* of its place; and every required content entry of a document that passed *)
(* is bound to a block of the extraction's tree.                            *)
Sections == {f \in visited : f.line # 0}
InPlace(f) ==
  /\ doc[f.line].level = schema.root + Len(f.path) - 1
  /\ \A g \in Sections : Front(f.path) = Front(g.path) /\ Last(f.path) < Last(g.path)
                          => f.line < g.line
RequiredIsExtracted ==
  \A f \in tree : \A i \in DOMAIN f.scope.content :
    f.scope.content[i].required => i \in {b[1] : b \in f.bound}
WalkersAgree ==
  Clean =>
    /\ RequiredIsExtracted
    /\ ~SingleFile /\ (\A f \in Sections : InPlace(f)) =>
         /\ {<<f.path, f.line>> : f \in Sections} = pairs
         /\ schema.acronyms.on => {<<r.path, r.line>> : r \in Ranges(Fresh, doc)} = pairs

(* What one schema demands is not lost by composing it with another: the    *)
(* sections the validator claimed are within the bounds of every source,    *)
(* and the front matter, the name, the cross-references and the index are   *)
(* as each source wants them.  No layer's source is lost in the merge of    *)
(* the layers (TranslateLayerSettings, deepMergeCfg).                       *)
Claims(path) == Cardinality({p \in pairs : p[1] = path})
Places(scopes, sc) == {i \in DOMAIN scopes : scopes[i].heading = sc.heading}
SectionsKept(s) ==
  \A sc \in ToSet(s.sections) : CanMergeByHeading(sc) =>
    \E i \in Places(schema.sections, sc) :
      /\ InBounds(Claims(<<i>>), sc)
      /\ \A child \in ToSet(sc.sections) : CanMergeByHeading(child) =>
           \E j \in Places(schema.sections[i].sections, child) :
             InBounds(Claims(<<i, j>>), [child EXCEPT !.min = @ * Claims(<<i>>),
                                                      !.max = @ * Claims(<<i>>)])
FieldsKept(s) ==
  \A f \in s.fields : \/ rule.cue
                      \/ f.name \in DOMAIN FrontMatter /\ FrontMatter[f.name] \in f.values
                      \/ f.name \notin DOMAIN FrontMatter
                         /\ (f.optional \/ Cardinality(Allowed(schema.fields, f.name)) = 1)
LayersKept ==
  pc \notin {"settings", "refused"} => \A i \in DOMAIN file.layers : LET v == file.layers[i] IN
    /\ ~HasBoth(v)
    /\ HasText(v, "schema") => \E k \in DOMAIN sources :
         ~sources[k].inline /\ sources[k].path = file.files[v.m["schema"].s].path
    /\ HasMapping(v, "inline-schema") => \E k \in DOMAIN sources :
         sources[k].inline /\ sources[k].schema = SchemaOf(v.m["inline-schema"])
ComposedKeepsObligations ==
  /\ LayersKept
  /\ Clean /\ ~SingleFile => \A s \in ToSet(Parsed) :
       /\ SectionsKept(s) /\ FieldsKept(s) /\ RefsHold(s.refs)
       /\ s.filename = {} \/ file.name \in s.filename
       /\ s.index.on => s.index.output = schema.index.output /\ s.index.include \subseteq schema.index.include

(* Fixing settles: it changes only lines a template of their section stands *)
(* for, and when it is done no such line is stale, unless two templates     *)
(* stand for one line, or there are more stale lines than passes; the index *)
(* is written, and is of the document as it was left.                       *)
Template(src) == ParseLegacy(src).heads
PointsAt(src, text, l) ==
  LET heads == Headings(text)
      of == Pairing(Template(src), heads)
      Under(k) == heads[k].line < l /\ \A j \in DOMAIN heads : heads[j].line < l => j <= k
  IN UNION {ToSet(BodyPoints(Template(src), src.files[src.path].items, i)) :
              i \in {j \in DOMAIN Template(src) : of[j] # 0 /\ Under(of[j])}}
StandsFor(src, text, l) ==
  {p \in PointsAt(src, text, l) : FieldPattern(src.files[src.path].items[p].says, text[l].says)}
Settled == pc = "done" /\ file.mode = "fix" /\ passes > 0
LinesSettle(src) ==
  /\ \A l \in DOMAIN doc : doc[l] # original[l] => StandsFor(src, original, l) # {}
  /\ passes = MaxPasses /\ (\A l \in DOMAIN doc : Cardinality(StandsFor(src, doc, l)) <= 1) =>
       \A l \in DOMAIN doc : \A p \in StandsFor(src, doc, l) :
         LET words == src.files[src.path].items[p].says
         IN \/ ~(FieldsOf(words) \subseteq DOMAIN FrontMatter)
            \/ doc[l].says = Fill(words, FrontMatter)
IndexSettles ==
  schema.index.on /\ file.writable /\ ~Unbuildable(schema) /\ ~SomeBroken =>
    "index" \notin diags /\ disk.holds = BuildIndex(schema, doc)
FixSettles ==
  Settled => IF ~SingleFile THEN IndexSettles
             ELSE LET src == sources[1]
                  IN src.self \/ ~Readable(src) \/ ParseLegacy(src).failed \/ LinesSettle(src)
=============================================================================
