--------------------------- MODULE SchemaDocument ---------------------------
(***************************************************************************)
(* What a schema asks of a document beside its headings and its content:   *)
(* the front matter, the headings that quote it, the rules a section       *)
(* overrides, the cross-references, the acronyms and the index written     *)
(* next to it.                                                             *)
(*                                                                         *)
(* The front matter is a function from keys to values.  A line's words are *)
(* a sequence; "()" is an expansion in parentheses.                        *)
(***************************************************************************)
EXTENDS SchemaCompose

CONSTANTS
  Registry,         \* the rules: for each its name, [configurable, flags], flags giving
                    \* the words it reports for each setting it accepts, "" for none
  MatcherCacheCap   \* how many compiled headings the process keeps

Report(cond, kind) == IF cond THEN {kind} ELSE {}
IsLine(item) == item.level = 0
Words(item) == ToSet(item.says)

-----------------------------------------------------------------------------
(* The front matter. *)

Keys(fields) == {f.name : f \in fields}
Demanded(fields) == {f.name : f \in {g \in fields : ~g.optional}}
Allowed(fields, key) ==
  {v \in UNION {f.values : f \in fields} : \A f \in fields : f.name = key => v \in f.values}

\* validateFrontmatterDiags: what a demanded key's constraint leaves one value
\* for needs not be written.
FrontmatterDiags(fields, fm) ==
  IF fields = {} THEN {}
  ELSE IF \E f \in fields : f.expr = "broken" THEN {"schema expression"}
  ELSE Report(\E key \in Demanded(fields) \ DOMAIN fm : Cardinality(Allowed(fields, key)) # 1,
              "missing field")
       \union Report(\E key \in Keys(fields) \cap DOMAIN fm : fm[key] \notin Allowed(fields, key),
                     "field value")
       \union Report(DOMAIN fm \ Keys(fields) # {}, "extra field")

FilenameDiags(filename, name) == Report(filename # {} /\ name \notin filename, "filename")

-----------------------------------------------------------------------------
(* Headings that quote a field, and the cache of what they are compiled to. *)

Numerals == {"1", "2", "3"}

\* fmvarLookup and the digits helper; a field that is missing matches nothing.
Lookup(fm, field) ==
  IF field = "n" THEN Numerals ELSE IF field \in DOMAIN fm THEN {fm[field]} ELSE {}

\* fmFingerprint
CacheKey(fm, field) ==
  <<field, IF field # "n" /\ field \in DOMAIN fm THEN fm[field] ELSE "">>

\* cachedMatcher: a pattern that cannot be resolved is not kept, and a full
\* cache is dropped.
Compile(cache, fm, field) ==
  LET key == CacheKey(fm, field)
      texts == Lookup(fm, field)
  IN IF texts = {} \/ key \in DOMAIN cache THEN cache
     ELSE (IF Cardinality(DOMAIN cache) >= MatcherCacheCap THEN <<>> ELSE cache)
          @@ (key :> texts)

Compiled(cache, fm, field) ==
  LET key == CacheKey(fm, field) IN IF key \in DOMAIN cache THEN cache[key] ELSE Lookup(fm, field)

RECURSIVE Quoted(_), Resolve(_, _)
Quoted(scopes) == UNION {Quoted(sc.sections) \union ({sc.field} \ {""}) : sc \in ToSet(scopes)}
CompileAll(cache, fm, fields) == FoldSet(LAMBDA field, c : Compile(c, fm, field), cache, fields)

\* The scopes with what texts the fields they quote stand for.
Resolve(scopes, texts) ==
  [i \in DOMAIN scopes |->
     [scopes[i] EXCEPT !.sections = Resolve(@, texts),
                       !.texts = IF scopes[i].field = "" THEN @ ELSE texts[scopes[i].field]]]
ResolveFresh(scopes, fm) == Resolve(scopes, [f \in Quoted(scopes) |-> Lookup(fm, f)])
ResolveCached(scopes, fm, cache) == Resolve(scopes, [f \in Quoted(scopes) |-> Compiled(cache, fm, f)])

-----------------------------------------------------------------------------
(* applyScopeRules: the rules of a section run again, with its settings. *)

RunScopeRule(doc, name, setting, from, to) ==
  LET r == Registry[name] IN
  IF name \notin DOMAIN Registry THEN {"unknown rule"}
  ELSE IF ~r.configurable /\ setting # "" THEN {"no settings"}
  ELSE IF setting \notin DOMAIN r.flags THEN {"invalid override"}
  ELSE Report(\E l \in from .. to - 1 : Words(doc[l]) \cap r.flags[setting] # {}, "scope rule")

RunScopeRules(doc, found) ==
  UNION {UNION {RunScopeRule(doc, name, f.scope.rules[name], f.from, f.to) :
                  name \in DOMAIN f.scope.rules} : f \in found}

-----------------------------------------------------------------------------
(* ValidateCrossReferences.  Code is not searched. *)

HeadingTexts(doc) == {h.text : h \in ToSet(Headings(doc))}
Searched(ref, item) == IsLine(item) /\ item.text # "code" /\ Words(item) \cap ref.skip = {}
Matches(ref, doc) ==
  UNION {Words(item) \cap DOMAIN ref.to : item \in {i \in ToSet(doc) : Searched(ref, i)}}

CrossRefDiags(refs, doc) ==
  UNION {IF ~ref.valid THEN {"cross-reference pattern"}
         ELSE {IF ref.to[w] = "" THEN "cross-reference template" ELSE "cross-reference" :
                 w \in {v \in Matches(ref, doc) : ref.to[v] \notin HeadingTexts(doc)}} :
           ref \in ToSet(refs)}

-----------------------------------------------------------------------------
(* ValidateAcronyms: the first use in a range is followed by an expansion. *)

Acronyms == {"API", "DNS"}

\* walkRanges; claimed is made anew for what lies below a section.
RECURSIVE WalkRanges(_, _, _, _, _)
WalkRanges(scopes, level, heads, from, to) ==
  LET Step(g, i) ==
        LET run == IF scopes[i].preamble \/ IsSlot(scopes[i]) THEN <<>>
                   ELSE ScopeRunIndices(scopes, i, level, heads, from, to, g.claimed)
            Span(k) == [path |-> <<i>>, scope |-> scopes[i], text |-> heads[k].text,
                         line |-> heads[k].line, to |-> ScopeEnd(heads, k, to)]
            Inner(r) == {[q EXCEPT !.path = <<i>> \o @] :
                           q \in WalkRanges(scopes[i].sections, level + 1, heads, r.line, r.to)}
            here == {Span(k) : k \in ToSet(run)}
        IN [claimed |-> g.claimed \union ToSet(run),
            found |-> g.found \union here \union UNION {Inner(r) : r \in here}]
  IN FoldLeftDomain(Step, [claimed |-> {}, found |-> {}], scopes).found

Ranges(schema, doc) ==
  WalkRanges(schema.sections, schema.root, SkipBelow(Headings(doc), schema.root), 1, Len(doc) + 1)

AcronymRanges(schema, doc) ==
  LET scope == schema.acronyms.scope
  IN IF scope = {} THEN {<<1, Len(doc) + 1>>}
     ELSE {<<r.line, r.to>> :
             r \in {q \in Ranges(schema, doc) : q.text \in scope \/ q.scope.heading \in scope}}

Expanded(words, p) == p < Len(words) /\ words[p + 1] = "()"
\* Heading lines are not scanned.
Uses(doc, range, token) ==
  UNION {{<<l, p>> : p \in {q \in DOMAIN doc[l].says : doc[l].says[q] = token}} :
           l \in {k \in range[1] .. range[2] - 1 : IsLine(doc[k])}}
FirstUse(S) == CHOOSE u \in S : \A v \in S : u[1] < v[1] \/ (u[1] = v[1] /\ u[2] <= v[2])

AcronymDiags(schema, doc) ==
  Report(schema.acronyms.on /\
         \E range \in AcronymRanges(schema, doc) : \E token \in Acronyms \ schema.acronyms.known :
           LET uses == Uses(doc, range, token)
           IN uses # {} /\ ~Expanded(doc[FirstUse(uses)[1]].says, FirstUse(uses)[2]),
         "acronym")

-----------------------------------------------------------------------------
(* The index. *)

\* validateOutputPath: one of each form it refuses.
RefusedOutputs == {"", "/index", "a\\b", "../index", ".", "sub/"}

\* The last heading of a text is the one that counts.
LastOf(S) == CHOOSE i \in S : \A j \in S : j <= i
Placed(heads, text) == LastOf({k \in DOMAIN heads : heads[k].text = text})

\* buildStepMap: for each section the sections right below.
ParentOf(heads, k) ==
  LET higher == {j \in 1 .. k - 1 : heads[j].level < heads[k].level}
  IN IF higher = {} THEN 0 ELSE LastOf(higher)
StepMap(doc) ==
  LET heads == Headings(doc)
      ChildrenOf(text) ==
        SelectSeq([k \in DOMAIN heads |-> k],
                  LAMBDA k : ParentOf(heads, k) # 0 /\ heads[ParentOf(heads, k)].text = text)
      parents == {heads[ParentOf(heads, k)].text : k \in {j \in DOMAIN heads : ParentOf(heads, j) # 0}}
  IN {<<t, [c \in DOMAIN ChildrenOf(t) |-> heads[ChildrenOf(t)[c]].text]>> : t \in parents}

\* buildCrossRefGraph: a later pattern decides where a word points to.
CrossRefGraph(refs, doc) ==
  LET Found(w) == {i \in DOMAIN refs : w \in Matches(refs[i], doc) /\ refs[i].to[w] # ""}
      words == {w \in UNION {Matches(r, doc) : r \in ToSet(refs)} : Found(w) # {}}
  IN {<<w, refs[LastOf(Found(w))].to[w]>> : w \in words}

\* buildWordCounts: the words up to the next heading of any level.
WordCounts(doc) ==
  LET heads == Headings(doc)
      EndOf(k) == IF k = Len(heads) THEN Len(doc) ELSE heads[k + 1].line - 1
      Count(k) == Len(FlattenSeq([l \in 1 .. EndOf(k) - heads[k].line |-> doc[heads[k].line + l].says]))
  IN {<<t, Count(Placed(heads, t))>> : t \in HeadingTexts(doc)}

FlatHeadings(doc) == Headings(doc)

\* BuildIndex: what the file holds, by what the schema asks to include.
NoData == [headings |-> <<>>, steps |-> {}, refs |-> {}, words |-> {}]
BuildIndex(schema, doc) ==
  LET include == schema.index.include
  IN [headings |-> IF "headings" \in include THEN FlatHeadings(doc) ELSE <<>>,
      steps |-> IF "step-map" \in include THEN StepMap(doc) ELSE {},
      refs |-> IF "cross-ref-graph" \in include THEN CrossRefGraph(schema.refs, doc) ELSE {},
      words |-> IF "word-counts" \in include THEN WordCounts(doc) ELSE {}]

\* resolveIndexWrite fails before anything is read or written.
Unbuildable(schema) ==
  \/ schema.index.output \in RefusedOutputs
  \/ "cross-ref-graph" \in schema.index.include /\ \E ref \in ToSet(schema.refs) : ~ref.valid

\* disk is [there, readable, holds, failed]; failed is what the process
\* remembers of the last write.
IndexDiags(schema, doc, disk) ==
  IF ~schema.index.on THEN {}
  ELSE IF Unbuildable(schema) THEN {"index"}
  ELSE Report(\/ disk.failed \/ ~disk.there \/ ~disk.readable
              \/ disk.holds # BuildIndex(schema, doc), "index")
\* A schema without an index forgets that a write failed.
AfterCheck(schema, disk) == IF schema.index.on THEN disk ELSE [disk EXCEPT !.failed = FALSE]

\* WriteIndex; writable says whether the directory can be made and the target
\* is inside the root and no link.
WriteIndex(schema, doc, disk, writable) ==
  IF ~schema.index.on THEN disk
  ELSE IF Unbuildable(schema) \/ ~writable THEN [disk EXCEPT !.failed = TRUE]
  ELSE [there |-> TRUE, readable |-> TRUE, holds |-> BuildIndex(schema, doc), failed |-> FALSE]
=============================================================================
