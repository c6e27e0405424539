----------------------------- MODULE SchemaInline -----------------------------
(***************************************************************************)
(* The settings of the rule, as YAML: which an inline schema is accepted   *)
(* and what it becomes (internal/schema/parse_inline.go, shortcuts.go),    *)
(* how the layers of the configuration are merged into a list of schema    *)
(* sources and what ApplySettings makes of it.                             *)
(*                                                                         *)
(* A YAML value is a node [t, s, n, m, l]: its type, what a scalar says, a *)
(* number, the entries of a mapping and of a list.  An int is a number     *)
(* without fraction, however it is written; "float" is any other.          *)
(***************************************************************************)
EXTENDS SchemaSource

CONSTANTS
  Patterns,     \* what some regular expressions are: [valid, digits, capture, texts,
                \* field, words]; any other matches itself
  Constraints,  \* a constraint on a front-matter value: [bare, broken, values]
  Links         \* <<pattern, template>> of a cross-reference: the heading of each word

ToNode(t) == [t |-> t, s |-> "", n |-> 0, m |-> <<>>, l |-> <<>>]
Str(s) == [ToNode("str") EXCEPT !.s = s]
Num(n) == [ToNode("int") EXCEPT !.n = n]
Bool(b) == [ToNode("bool") EXCEPT !.s = IF b THEN "true" ELSE "false"]
Null == ToNode("null")
Mapping(m) == [ToNode("map") EXCEPT !.m = m]
List(l) == [ToNode("list") EXCEPT !.l = l]

Has(v, key) == key \in DOMAIN v.m
Is(v, key, t) == Has(v, key) => v.m[key].t = t
Only(v, keys) == v.t = "map" /\ DOMAIN v.m \subseteq keys
IsTrue(v, key) == Has(v, key) /\ v.m[key].s = "true"
\* The entries of a list under a key, <<>> when it is not there.
Entries(v, key) == IF Has(v, key) THEN v.m[key].l ELSE <<>>
Each(v, key, Good(_)) == \A x \in ToSet(Entries(v, key)) : Good(x)
TextAt(v, key) == IF Has(v, key) THEN v.m[key].s ELSE ""
NumberAt(v, key) == IF Has(v, key) THEN v.m[key].n ELSE 0
IsStr(v) == v.t = "str"
NonBlank(v) == v.t = "str" /\ v.s # ""
Strings(v, key) == Is(v, key, "list") /\ Each(v, key, IsStr)
StringsAt(v, key) == {x.s : x \in ToSet(Entries(v, key))}

-----------------------------------------------------------------------------
(* frontmatter: names of CUE's own types and shortcuts; no other bare name. *)

Builtins == {"string", "int"}
ShortcutRegistry == {"date", "nonEmpty"}
\* A key that ends in "?" is optional.
FieldName(key) == CASE key = "title?" -> "title" [] key = "id?" -> "id" [] OTHER -> key

GoodExpr(v) ==
  v.t = "str" => /\ v.s # ""
                 /\ Constraints[v.s].bare => v.s \in Builtins \union ShortcutRegistry
\* Anything but a string stands for itself.
FieldOf(key, v) ==
  LET c == IF IsStr(v) THEN Constraints[v.s] ELSE [broken |-> FALSE, values |-> {v.s}]
  IN [name |-> FieldName(key), optional |-> FieldName(key) # key, values |-> c.values,
      expr |-> IF c.broken THEN "broken" ELSE "cue"]

-----------------------------------------------------------------------------
(* heading: *)

Plain(s) == [valid |-> TRUE, digits |-> 0, capture |-> FALSE, texts |-> {s}, field |-> "", words |-> {s}]
PatternOf(s) == IF s \in DOMAIN Patterns THEN Patterns[s] ELSE Plain(s)

GoodBound(v) == v.t = "int" /\ v.n >= 0
GoodRepeat(v) ==
  /\ Only(v, {"min", "max"}) /\ DOMAIN v.m # {}
  /\ \A key \in DOMAIN v.m : GoodBound(v.m[key])
  /\ Has(v, "max") => v.m["max"].n > 0 /\ (Has(v, "min") => v.m["min"].n <= v.m["max"].n)

\* digits counts the \#(digits) helpers of a pattern, capture its own group "n".
GoodMatcher(v) ==
  /\ Only(v, {"regex", "repeat", "sequential"})
  /\ Has(v, "regex") /\ NonBlank(v.m["regex"]) /\ Is(v, "sequential", "bool")
  /\ Has(v, "repeat") => GoodRepeat(v.m["repeat"])
  /\ LET p == PatternOf(v.m["regex"].s) IN
     /\ p.valid /\ p.digits <= 1 /\ ~p.capture
     /\ IsTrue(v, "sequential") => p.digits = 1

GoodHeading(v) ==
  CASE v.t = "null" -> TRUE
    [] v.t = "str" -> v.s \notin {"", "..."}
    [] v.t = "map" -> GoodMatcher(v)
    [] OTHER -> FALSE

\* A string is matched as it stands.  Without repeat: a heading stands once.
HeadingOf(v) ==
  LET p == IF v.t = "map" THEN PatternOf(v.m["regex"].s) ELSE Plain(v.s)
      repeated == v.t = "map" /\ Has(v, "repeat")
  IN [heading |-> IF v.t = "map" THEN v.m["regex"].s ELSE v.s, preamble |-> v.t = "null",
      texts |-> IF v.t = "null" THEN {} ELSE p.texts, field |-> p.field,
      any |-> v.t = "map" /\ v.m["regex"].s = ".+", sequential |-> IsTrue(v, "sequential"),
      min |-> IF repeated THEN NumberAt(v.m["repeat"], "min") ELSE IF v.t = "null" THEN 0 ELSE 1,
      max |-> IF repeated THEN NumberAt(v.m["repeat"], "max") ELSE IF v.t = "null" THEN 0 ELSE 1]

-----------------------------------------------------------------------------
(* content: the keys each kind takes. *)

ShapeKeys ==
  [code |-> {"lang"}, table |-> {"columns"}, list |-> {"ordered", "min-items", "max-items"},
   text |-> {}, unlisted |-> {}]
MaxShape == 3   \* no list of the model is longer
\* A language and a row of column names are numbers here; a list of n items
\* has the shape n, or -n when it is ordered.
LanguageCode == [go |-> 1, sh |-> 2]

GoodEntry(v) ==
  /\ v.t = "map" /\ Has(v, "kind") /\ IsStr(v.m["kind"]) /\ v.m["kind"].s \in DOMAIN ShapeKeys
  /\ Only(v, {"kind", "required"} \union ShapeKeys[v.m["kind"].s])
  /\ Has(v, "required") => v.m["required"].t = "bool" /\ v.m["kind"].s # "unlisted"
  /\ Is(v, "lang", "str") /\ Strings(v, "columns") /\ Is(v, "ordered", "bool")
  /\ \A key \in {"min-items", "max-items"} \cap DOMAIN v.m : GoodBound(v.m[key])
  /\ NumberAt(v, "min-items") > 0 /\ NumberAt(v, "max-items") > 0
       => NumberAt(v, "min-items") <= NumberAt(v, "max-items")

Size(n) == IF n < 0 THEN -n ELSE n
ShapesOf(v) ==
  CASE TextAt(v, "lang") # "" -> {LanguageCode[v.m["lang"].s]}
    [] Entries(v, "columns") # <<>> -> {Len(Entries(v, "columns"))}
    [] v.m["kind"].s = "list" ->
         {n \in -MaxShape .. MaxShape :
            /\ Has(v, "ordered") => (n < 0) = IsTrue(v, "ordered")
            /\ Size(n) >= NumberAt(v, "min-items")
            /\ NumberAt(v, "max-items") > 0 => Size(n) <= NumberAt(v, "max-items")}
    [] OTHER -> {}
EntryOf(v) ==
  [kind |-> v.m["kind"].s, shapes |-> ShapesOf(v),
   required |-> IF Has(v, "required") THEN IsTrue(v, "required") ELSE v.m["kind"].s # "unlisted"]

-----------------------------------------------------------------------------
(* sections: *)

ScopeKeys == {"heading", "closed", "sections", "rules", "content"}
IsMapping(v) == v.t = "map"
IsPreamble(v) == Has(v, "heading") /\ v.m["heading"].t = "null"

RECURSIVE GoodScopes(_), ScopeOf(_)
GoodScope(v) ==
  /\ Only(v, ScopeKeys) /\ Has(v, "heading") /\ GoodHeading(v.m["heading"])
  /\ Is(v, "closed", "bool") /\ Is(v, "sections", "list") /\ Is(v, "content", "list")
  /\ GoodScopes(Entries(v, "sections")) /\ Each(v, "content", GoodEntry)
  /\ Has(v, "rules") => IsMapping(v.m["rules"])
                        /\ \A name \in DOMAIN v.m["rules"].m : IsMapping(v.m["rules"].m[name])
  /\ IsPreamble(v) => ~Has(v, "sections")
  /\ ~IsPreamble(v) /\ IsSlot(HeadingOf(v.m["heading"])) => DOMAIN v.m = {"heading"}
GoodScopes(list) ==
  \A i \in DOMAIN list : GoodScope(list[i]) /\ (IsPreamble(list[i]) => i = 1)

ScopeOf(v) ==
  LET nested == Entries(v, "sections")
      content == Entries(v, "content")
      rules == IF Has(v, "rules") THEN v.m["rules"].m ELSE <<>>
  IN HeadingOf(v.m["heading"]) @@
     [closed |-> IsTrue(v, "closed"),
      sections |-> [i \in DOMAIN nested |-> ScopeOf(nested[i])],
      content |-> [i \in DOMAIN content |-> EntryOf(content[i])],
      rules |-> [name \in DOMAIN rules |-> TextAt(rules[name], "mode")]]

-----------------------------------------------------------------------------
(* cross-references:, acronyms: and index: *)

GoodRef(v) ==
  /\ Only(v, {"pattern", "must-match", "skip-lines-matching"})
  /\ \A key \in DOMAIN v.m : IsStr(v.m[key])
  /\ TextAt(v, "pattern") # "" /\ TextAt(v, "must-match") # ""
\* Whether the patterns are regular expressions is left to the check.
RefOf(v) ==
  LET skip == TextAt(v, "skip-lines-matching")
  IN [to |-> Links[<<TextAt(v, "pattern"), TextAt(v, "must-match")>>],
      skip |-> IF skip = "" THEN {} ELSE PatternOf(skip).words,
      valid |-> PatternOf(TextAt(v, "pattern")).valid /\ PatternOf(skip).valid]

GoodAcronyms(v) ==
  Only(v, {"known-safe", "scope"}) /\ Strings(v, "known-safe") /\ Strings(v, "scope")
AcronymsOf(v) == [on |-> TRUE, known |-> StringsAt(v, "known-safe"), scope |-> StringsAt(v, "scope")]

IndexIncludes == {"step-map", "cross-ref-graph", "word-counts", "headings"}
GoodIndex(v) ==
  /\ Only(v, {"output", "include"}) /\ Is(v, "output", "str") /\ Strings(v, "include")
  /\ TextAt(v, "output") # "" /\ StringsAt(v, "include") \subseteq IndexIncludes \ {""}
  /\ StringsAt(v, "include") # {}
IndexOf(v) == [on |-> TRUE, output |-> TextAt(v, "output"), include |-> StringsAt(v, "include")]

-----------------------------------------------------------------------------
(* ParseInline *)

SchemaKeys == {"frontmatter", "filename", "closed", "sections", "cross-references", "acronyms", "index"}
GoodSchema(v) ==
  /\ Only(v, SchemaKeys)
  /\ Has(v, "frontmatter") => IsMapping(v.m["frontmatter"])
                              /\ \A key \in DOMAIN v.m["frontmatter"].m : GoodExpr(v.m["frontmatter"].m[key])
  /\ Is(v, "filename", "str") /\ Is(v, "closed", "bool")
  /\ Is(v, "sections", "list") /\ GoodScopes(Entries(v, "sections"))
  /\ Is(v, "cross-references", "list") /\ Each(v, "cross-references", GoodRef)
  /\ Has(v, "acronyms") => GoodAcronyms(v.m["acronyms"])
  /\ Has(v, "index") => GoodIndex(v.m["index"])
  /\ Has(v, "closed") => Entries(v, "sections") # <<>>

SchemaOf(v) ==
  LET fields == IF Has(v, "frontmatter") THEN v.m["frontmatter"].m ELSE <<>>
      sections == Entries(v, "sections")
      refs == Entries(v, "cross-references")
  IN [Empty EXCEPT
        !.fields = {FieldOf(key, fields[key]) : key \in DOMAIN fields},
        !.filename = IF TextAt(v, "filename") = "" THEN {} ELSE PatternOf(v.m["filename"].s).texts,
        !.closed = IsTrue(v, "closed"),
        !.sections = [i \in DOMAIN sections |-> ScopeOf(sections[i])],
        !.refs = [i \in DOMAIN refs |-> RefOf(refs[i])],
        !.acronyms = IF Has(v, "acronyms") THEN AcronymsOf(v.m["acronyms"]) ELSE @,
        !.index = IF Has(v, "index") THEN IndexOf(v.m["index"]) ELSE @]

-----------------------------------------------------------------------------
(***************************************************************************)
(* The layers of the configuration.  Each one's schema or inline-schema    *)
(* becomes a list of one source, so that the layers add to each other; a   *)
(* layer with both is left as it is, for ApplySettings to refuse.          *)
(***************************************************************************)
HasText(v, key) == Has(v, key) /\ NonBlank(v.m[key])
HasMapping(v, key) == Has(v, key) /\ IsMapping(v.m[key]) /\ DOMAIN v.m[key].m # {}
HasBoth(v) == HasText(v, "schema") /\ HasMapping(v, "inline-schema")

OwnSource(v) ==
  IF HasText(v, "schema") THEN <<Mapping([file |-> v.m["schema"]])>>
  ELSE IF HasMapping(v, "inline-schema") THEN <<Mapping([inline |-> v.m["inline-schema"]])>> ELSE <<>>

\* translateLayerSettings, TranslateLayerSettings
Translate(v) ==
  LET listed == IF Is(v, "schema-sources", "list") THEN Entries(v, "schema-sources") ELSE <<>>
      kept == [key \in DOMAIN v.m \ {"schema", "inline-schema"} |-> v.m[key]]
  IN IF HasBoth(v) \/ {"schema", "inline-schema"} \cap DOMAIN v.m = {} THEN v
     ELSE IF OwnSource(v) = <<>> THEN Mapping(kept)
     ELSE Mapping(("schema-sources" :> List(listed \o OwnSource(v))) @@ kept)

\* deepMergeCfg with the rule's SettingMergeMode.
Appended == {"placeholders", "path-patterns", "schema-sources"}
MergeLayer(v, w) ==
  LET Joined(key) == IF key \in Appended /\ Has(v, key) /\ v.m[key].t = "list" /\ w.m[key].t = "list"
                     THEN List(v.m[key].l \o w.m[key].l) ELSE w.m[key]
  IN Mapping([key \in DOMAIN w.m |-> Joined(key)] @@ v.m)
Effective(layers) ==
  FoldLeft(LAMBDA v, w : MergeLayer(v, Translate(w)), Mapping(<<>>), layers)

-----------------------------------------------------------------------------
(* ApplySettings *)

SettingKeys == {"schema", "inline-schema", "schema-sources", "placeholders", "path-patterns"}
Tokens == {"var-token", "heading-question", "placeholder-section", "cue-frontmatter"}
BareNames == {"prd"}   \* without a separator and without an extension
GoodPath(s) == s \notin BareNames

GoodSource(v) ==
  /\ v.t = "map" /\ (Has(v, "file") # Has(v, "inline"))
  /\ Has(v, "file") => NonBlank(v.m["file"])
  /\ Has(v, "inline") => HasMapping(v, "inline") /\ GoodSchema(v.m["inline"])
GoodPathPattern(v) == HasText(v, "kind") /\ HasText(v, "pattern") /\ PatternOf(v.m["pattern"].s).valid

GoodSettings(v) ==
  /\ ~HasBoth(v) /\ Only(v, SettingKeys)
  /\ Is(v, "schema", "str") /\ GoodPath(TextAt(v, "schema"))
  /\ Is(v, "inline-schema", "map") /\ (HasMapping(v, "inline-schema") => GoodSchema(v.m["inline-schema"]))
  /\ Is(v, "schema-sources", "list") /\ Each(v, "schema-sources", GoodSource)
  /\ Strings(v, "placeholders") /\ StringsAt(v, "placeholders") \subseteq Tokens
  /\ Is(v, "path-patterns", "list") /\ Each(v, "path-patterns", GoodPathPattern)

\* files are the sources the paths name.
SourceOf(v, files) ==
  IF Has(v, "file") THEN files[v.m["file"].s]
  ELSE [inline |-> TRUE, schema |-> SchemaOf(v.m["inline"])]
SourcesOf(v, files) ==
  LET all == OwnSource(v) \o Entries(v, "schema-sources")
  IN [k \in DOMAIN all |-> SourceOf(all[k], files)]
PathPatternsOf(v) == {p.m["pattern"].s : p \in ToSet(Entries(v, "path-patterns"))}
=============================================================================
