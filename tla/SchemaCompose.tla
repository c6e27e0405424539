--------------------------- MODULE SchemaCompose ---------------------------
(***************************************************************************)
(* internal/schema/compose.go: the schemas several kinds give one file,    *)
(* made into one.  Bounds that exclude each other make the composition     *)
(* fail; they are left in the scope, and Refused finds them.               *)
(*                                                                         *)
(* Beside its sections a schema has                                        *)
(*   filename  the base names its glob matches, {} for no glob             *)
(*   fields    constraints on the front matter, [name, optional, expr,     *)
(*             values]: a CUE expression is the set of values it allows,   *)
(*             expr being "cue", "shortcut" or "broken"                    *)
(*   refs      cross-reference patterns, [to, skip, valid]: the heading    *)
(*             each word points to ("" where the template cannot be        *)
(*             filled) and the words that exempt a line                    *)
(*   acronyms  [on, known, scope], scope {} for the whole document         *)
(*   index     [on, output, include]                                       *)
(***************************************************************************)
EXTENDS SchemaContent, FiniteSets

IntersectMax(a, b) == IF a = 0 THEN b ELSE IF b = 0 \/ a < b THEN a ELSE b
MaxOf(a, b) == IF a > b THEN a ELSE b

\* A heading that is empty or "?" names no section to merge with.
CanMergeByHeading(sc) == ~sc.preamble /\ sc.heading # "?"

\* mergeMatcher: the tighter bounds, and the first schema's regex.
\* Mutant: the first schema's minimum stands.
MergeBounds_FirstMinimum(a, b) ==
  [a EXCEPT !.max = IntersectMax(@, b.max), !.sequential = @ \/ b.sequential]
MergeBounds(a, b) ==
  [a EXCEPT !.min = MaxOf(@, b.min), !.max = IntersectMax(@, b.max),
            !.sequential = @ \/ b.sequential]

\* Of two overrides of one rule the later stands.
MergeScopeRules(a, b) == b @@ a

RECURSIVE ComposeSectionLists(_)

MergeScopes(a, b) ==
  [MergeBounds(a, b) EXCEPT !.closed = @ \/ b.closed,
                            !.sections = ComposeSectionLists(<<@, b.sections>>),
                            !.content = @ \o b.content,
                            !.rules = MergeScopeRules(@, b.rules)]

AddPreamble(acc, sc) ==
  LET i == First({j \in DOMAIN acc : acc[j].preamble})
  IN IF i # 0 THEN [acc EXCEPT ![i] = MergeScopes(@, sc)] ELSE <<sc>> \o acc

AddNamed(acc, sc) ==
  LET i == First({j \in DOMAIN acc : CanMergeByHeading(acc[j]) /\ acc[j].heading = sc.heading})
  IN IF CanMergeByHeading(sc) /\ i # 0
     THEN [acc EXCEPT ![i] = MergeScopes(@, sc)] ELSE Append(acc, sc)

\* Only the first preamble of a list counts.
AddScope(list, acc, j) ==
  IF ~list[j].preamble THEN AddNamed(acc, list[j])
  ELSE IF \E k \in 1 .. j - 1 : list[k].preamble THEN acc
  ELSE AddPreamble(acc, list[j])

ComposeSectionLists(lists) ==
  FoldLeft(LAMBDA acc, list : FoldLeftDomain(LAMBDA a, j : AddScope(list, a, j), acc, list),
           <<>>, lists)

RECURSIVE Disjoint(_)
Disjoint(list) == \E sc \in ToSet(list) : (sc.max # 0 /\ sc.min > sc.max) \/ Disjoint(sc.sections)

-----------------------------------------------------------------------------
NoAcronyms == [on |-> FALSE, known |-> {}, scope |-> {}]
NoIndex == [on |-> FALSE, output |-> "", include |-> {}]
Empty == [root |-> 2, sections |-> <<>>, closed |-> FALSE, filename |-> {}, fields |-> {},
          refs |-> <<>>, acronyms |-> NoAcronyms, index |-> NoIndex]

\* A schema that constrains nothing.
IsEmpty(s) ==
  /\ s.sections = <<>> /\ s.filename = {} /\ s.fields = {} /\ s.refs = <<>>
  /\ ~s.acronyms.on /\ ~s.index.on

\* composeFrontmatter: the constraints on a key are joined with "&".
SameKey(f, g) == f.name = g.name /\ f.optional = g.optional
ComposeFields(used) ==
  LET all == UNION {s.fields : s \in used}
      Joined(f) == {g \in all : SameKey(f, g)}
  IN {[f EXCEPT !.values = {v \in @ : \A g \in Joined(f) : v \in g.values},
                !.expr = IF \E g \in Joined(f) : g.expr = "broken" THEN "broken" ELSE "cue"] :
        f \in all}

\* composeAcronyms: a check of the whole document is not narrowed.
ComposeAcronyms(used) ==
  LET on == {s.acronyms : s \in {u \in used : u.acronyms.on}}
  IN IF on = {} THEN NoAcronyms
     ELSE [on |-> TRUE, known |-> UNION {a.known : a \in on},
           scope |-> IF \E a \in on : a.scope = {} THEN {} ELSE UNION {a.scope : a \in on}]

Indexed(used) == {s.index : s \in {u \in used : u.index.on}}
ComposeIndex(used) ==
  LET on == Indexed(used)
  IN IF on = {} THEN NoIndex
     ELSE [on |-> TRUE, output |-> (CHOOSE x \in on : TRUE).output,
           include |-> UNION {x.include : x \in on}]

Named(used) == {s.filename : s \in used} \ {{}}

Compose(schemas) ==
  LET used == ToSet(schemas)
  IN IF Len(schemas) = 1 THEN schemas[1]
     ELSE [root |-> schemas[1].root, closed |-> \E s \in used : s.closed,
           sections |-> ComposeSectionLists([k \in DOMAIN schemas |-> schemas[k].sections]),
           filename |-> UNION Named(used), fields |-> ComposeFields(used),
           refs |-> FlattenSeq([k \in DOMAIN schemas |-> schemas[k].refs]),
           acronyms |-> ComposeAcronyms(used), index |-> ComposeIndex(used)]

Refused(schemas) ==
  LET used == ToSet(schemas)
  IN \/ \E a, b \in used : a.root # b.root
     \/ Cardinality(Named(used)) > 1
     \/ Cardinality({x.output : x \in Indexed(used)}) > 1
     \/ Disjoint(Compose(schemas).sections)
=============================================================================
