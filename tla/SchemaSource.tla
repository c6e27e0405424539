---------------------------- MODULE SchemaSource ----------------------------
(***************************************************************************)
(* A proto.md file as a schema.  On its own it is a flat list of headings, *)
(* checked by requiredstructure.checkStructure, whose templates are kept   *)
(* in step with the front matter; among several sources it is made a tree  *)
(* of scopes (internal/schema/parse_file.go).                              *)
(*                                                                         *)
(* A file is [items, require, fields]: require is what its filename        *)
(* directive allows, and an item is a record [kind, level, text, field,    *)
(* says, to], kind "heading", "line" or "include".  The heading text "?"   *)
(* stands for any heading and "..." for any number of them; a heading that *)
(* is a field's template has the text "?" and the field's name.  The words *)
(* of a line are [lit, field], one of them empty.                          *)
(***************************************************************************)
EXTENDS SchemaDocument

CONSTANT MaxIncludeDepth   \* how deep a schema file may include others

Wildcard(req) == req.text = "..."
FlatMatches(req, h) == req.text = "?" \/ req.text = h.text

\* A heading that belongs further down the list, and is not claimed yet.
NextUnclaimed(flat, h, claimed, from) ==
  First({i \in from .. Len(flat) :
           flat[i].text \notin {"?", "..."} /\ flat[i].text = h.text /\ i \notin claimed})

FlatFlag(w, cond, kind) == IF cond THEN [w EXCEPT !.diags = @ \union {kind}] ELSE w

\* matchRequired: w is [at, diags, claimed, allow].
RECURSIVE MatchRequired(_, _, _, _)
MatchRequired(flat, heads, i, w) ==
  IF w.at > Len(heads) THEN FlatFlag(w, i \notin w.claimed, "missing")
  ELSE LET h == heads[w.at]
           later == NextUnclaimed(flat, h, w.claimed, i + 1)
           on == [w EXCEPT !.at = @ + 1]
       IN IF FlatMatches(flat[i], h)
          THEN [FlatFlag(on, h.level # flat[i].level, "level") EXCEPT
                  !.claimed = @ \union {i}, !.allow = FALSE]
          ELSE MatchRequired(flat, heads, i,
                 IF later # 0
                 THEN [FlatFlag(on, TRUE, "order") EXCEPT !.claimed = @ \union {later}]
                 ELSE FlatFlag(on, ~w.allow, "unexpected"))

WalkRequired(flat, heads, w, i) ==
  IF Wildcard(flat[i]) THEN [w EXCEPT !.allow = TRUE]
  ELSE IF i \in w.claimed THEN w
  ELSE MatchRequired(flat, heads, i, w)

CheckStructure(flat, heads) ==
  LET w == FoldLeftDomain(LAMBDA acc, i : WalkRequired(flat, heads, acc, i),
                          [at |-> 1, diags |-> {}, claimed |-> {}, allow |-> FALSE], flat)
  IN FlatFlag(w, ~w.allow /\ w.at <= Len(heads), "unexpected").diags

-----------------------------------------------------------------------------
(***************************************************************************)
(* Reading the file.  Included files are spliced in; chain holds those     *)
(* being read, so that a file that includes itself is found.               *)
(***************************************************************************)
\* resolveSchemaIncludePath: no path, an absolute one, one that leaves the directory
RefusedPaths == {"", "/abs.md", "../up.md"}

RECURSIVE Expand(_, _, _)
Splice(files, chain, acc, to) ==
  IF \/ to \in RefusedPaths \/ Len(chain) > MaxIncludeDepth
     \/ to \in ToSet(chain) \/ to \notin DOMAIN files
  THEN [acc EXCEPT !.failed = TRUE]
  ELSE LET sub == Expand(files, to, Append(chain, to))
           own == files[to].require
           require == IF own # {} THEN own ELSE sub.require
       IN [heads |-> acc.heads \o sub.heads, failed |-> sub.failed,
           require |-> IF acc.require # {} THEN acc.require ELSE require]

\* extractSchemaHeadings, collectFileHeadings: [heads, require, failed].
ExpandItem(files, chain, acc, item) ==
  IF acc.failed \/ item.kind = "line" THEN acc
  ELSE IF item.kind = "heading" THEN [acc EXCEPT !.heads = Append(@, item)]
  ELSE Splice(files, chain, acc, item.to)
Expand(files, path, chain) ==
  FoldLeft(LAMBDA acc, item : ExpandItem(files, chain, acc, item),
           [heads |-> <<>>, require |-> {}, failed |-> FALSE], files[path].items)

Read(files, path) ==
  LET x == Expand(files, path, <<path>>)
      own == files[path].require
  IN [x EXCEPT !.require = IF own # {} THEN own ELSE @]

\* A source is [path, files, self, atRoot].  readSchemaFile goes through the
\* root; the included files of a lone schema are read from where mdsmith runs.
Readable(src) == src.path \notin RefusedPaths /\ src.path \in DOMAIN src.files
NearBy(src) == IF src.atRoot THEN src.files ELSE [p \in {src.path} |-> src.files[p]]

\* parseSchema: every expression is CUE as it stands; no shortcuts.
BadFields(fields) == \E f \in fields : f.expr # "cue"
ParseLegacy(src) ==
  LET x == Read(NearBy(src), src.path)
      fields == src.files[src.path].fields
  IN [heads |-> x.heads, require |-> x.require, fields |-> fields,
      failed |-> x.failed \/ BadFields(fields)]

-----------------------------------------------------------------------------
\* buildScopeFromHeading
ScopeFromHeading(req) ==
  [heading |-> IF Wildcard(req) THEN "?" ELSE IF req.field # "" THEN "{" \o req.field \o "}" ELSE req.text,
   texts |-> IF req.field = "" THEN {req.text} ELSE {}, field |-> req.field,
   any |-> req.field = "" /\ req.text \in {"?", "..."}, preamble |-> FALSE,
   min |-> IF Wildcard(req) THEN 0 ELSE 1, max |-> IF Wildcard(req) THEN 0 ELSE 1,
   sequential |-> FALSE, closed |-> TRUE, sections |-> <<>>, content |-> <<>>, rules |-> <<>>]

\* headingsToScopes: a heading holds those below it, up to the next as high.
RECURSIVE ScopesOf(_)
ScopesOf(flat) ==
  IF flat = <<>> THEN <<>>
  ELSE LET next == First({k \in 2 .. Len(flat) : flat[k].level <= flat[1].level})
           end == IF next = 0 THEN Len(flat) + 1 ELSE next
       IN <<[ScopeFromHeading(flat[1]) EXCEPT !.sections = ScopesOf(SubSeq(flat, 2, end - 1))]>>
          \o ScopesOf(SubSeq(flat, end, Len(flat)))

RootOf(flat) ==
  IF flat = <<>> THEN 2
  ELSE CHOOSE l \in {h.level : h \in ToSet(flat)} : \A h \in ToSet(flat) : l <= h.level

\* ParseFile: shortcuts are resolved, and a name that is none is refused.
ParseFailed(src) ==
  \/ ~Readable(src)
  \/ Read(src.files, src.path).failed
  \/ \E f \in src.files[src.path].fields : f.expr = "unknown"
ParseFile(src) ==
  LET x == Read(src.files, src.path)
  IN [Empty EXCEPT !.root = RootOf(x.heads), !.sections = ScopesOf(x.heads), !.closed = TRUE,
                   !.filename = x.require, !.fields = src.files[src.path].fields]

-----------------------------------------------------------------------------
(***************************************************************************)
(* checkSync and fixBodySyncIn: the headings and the lines of a template   *)
(* that quote the front matter.                                            *)
(***************************************************************************)
\* advanceToMatch, for one heading of the list after the other: where each is found.
Pairing(flat, heads) ==
  LET Advance(x, i) ==
        LET k == First({j \in x.at .. Len(heads) : FlatMatches(flat[i], heads[j])})
        IN IF Wildcard(flat[i]) THEN x
           ELSE [at |-> IF k = 0 THEN Len(heads) + 1 ELSE k + 1, of |-> [x.of EXCEPT ![i] = k]]
  IN FoldLeftDomain(Advance, [at |-> 1, of |-> [i \in DOMAIN flat |-> 0]], flat).of

FieldsOf(words) == {w.field : w \in ToSet(words)} \ {""}

\* collectBodySyncPoints: a line belongs to the first heading whose text is
\* that of the heading above it in the file.
BodyPoints(flat, items, i) ==
  LET Above(l) == {k \in 1 .. l - 1 : items[k].kind = "heading"}
      Owner(l) == LET h == items[LastOf(Above(l))]
                  IN First({j \in DOMAIN flat : flat[j].text = h.text /\ flat[j].field = h.field})
  IN SelectSeq([l \in DOMAIN items |-> l],
               LAMBDA l : /\ items[l].kind = "line" /\ FieldsOf(items[l].says) # {}
                          /\ Above(l) # {} /\ Owner(l) = i)

Fill(words, fm) ==
  [k \in DOMAIN words |->
     IF words[k].field = "" THEN words[k].lit
     ELSE IF words[k].field \in DOMAIN fm THEN fm[words[k].field] ELSE "?"]

\* The lines below heading k, up to the next heading.
\* Mutant: up to the end of the file.
SectionLines_ToTheEnd(doc, heads, k) == heads[k].line + 1 .. Len(doc)
SectionLines(doc, heads, k) ==
  heads[k].line + 1 .. (IF k = Len(heads) THEN Len(doc) ELSE heads[k + 1].line - 1)

\* checkBodySync: a line says it, or the lines of a paragraph do.
Paragraph(doc, a, b) ==
  /\ \A l \in a .. b : doc[l].says # <<>>
  /\ a - 1 \in DOMAIN doc => doc[a - 1].says = <<>>
  /\ b + 1 \in DOMAIN doc => doc[b + 1].says = <<>>
Said(doc, lines, words) ==
  \/ \E l \in lines : doc[l].says = words
  \/ \E a, b \in lines :
       /\ a < b /\ Paragraph(doc, a, b)
       /\ FlattenSeq([l \in 1 .. b - a + 1 |-> doc[a + l - 1].says]) = words

SyncDiags(legacy, items, doc, fm) ==
  LET flat == legacy.heads
      heads == Headings(doc)
      of == Pairing(flat, heads)
      InHeading(i) ==
        IF flat[i].field = "" THEN {}
        ELSE IF flat[i].field \notin DOMAIN fm THEN {"sync field"}
        ELSE Report(heads[of[i]].text # fm[flat[i].field], "heading sync")
      InBody(i, l) ==
        Report(~(FieldsOf(items[l].says) \subseteq DOMAIN fm), "sync field")
        \union Report(~Said(doc, SectionLines(doc, heads, of[i]), Fill(items[l].says, fm)), "body sync")
  IN IF DOMAIN fm = {} THEN {}
     ELSE UNION {InHeading(i) \union UNION {InBody(i, l) : l \in ToSet(BodyPoints(flat, items, i))} :
                   i \in {j \in DOMAIN flat : of[j] # 0}}

\* buildFieldPattern: a field stands for one word or more.
RECURSIVE FieldPattern(_, _)
FieldPattern(words, says) ==
  IF words = <<>> THEN says = <<>>
  ELSE IF Head(words).field = ""
  THEN says # <<>> /\ Head(says) = Head(words).lit /\ FieldPattern(Tail(words), Tail(says))
  ELSE \E n \in 1 .. Len(says) : FieldPattern(Tail(words), SubSeq(says, n + 1, Len(says)))

\* resolveBodySyncLine: the first line of the section that follows the template
\* and does not say what it should.
Stale(work, lines, words, fm) ==
  First({l \in lines : work[l].says # Fill(words, fm) /\ FieldPattern(words, work[l].says)})
FixPoint(work, lines, words, fm) ==
  LET l == Stale(work, lines, words, fm)
  IN IF l = 0 \/ ~(FieldsOf(words) \subseteq DOMAIN fm) THEN work
     ELSE [work EXCEPT ![l].says = Fill(words, fm)]

FixBodySync(legacy, items, doc, fm) ==
  LET flat == legacy.heads
      heads == Headings(doc)
      of == Pairing(flat, heads)
      FixHeading(work, i) ==
        IF of[i] = 0 THEN work
        ELSE FoldLeft(LAMBDA w, l : FixPoint(w, SectionLines(doc, heads, of[i]), items[l].says, fm),
                      work, BodyPoints(flat, items, i))
  IN IF DOMAIN fm = {} THEN doc ELSE FoldLeftDomain(FixHeading, doc, flat)
=============================================================================
