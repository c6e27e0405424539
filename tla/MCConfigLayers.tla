---------------------------- MODULE MCConfigLayers ----------------------------
(***************************************************************************)
(* Small instances of ConfigLayers: the structure rule, whose lists append *)
(* and which a kind's schema and path pattern reach, one opt-in rule with  *)
(* a setting that replaces, markdown-flavor where a convention asks a      *)
(* flavor, and a rule the user misspelt; two kinds, bound by the front     *)
(* matter, by a glob or by a field, and up to two overrides that touch the *)
(* same rules.                                                             *)
(***************************************************************************)
EXTENDS ConfigLayers

Length == "line-length"

MCLists    == (Structure :> {Sources, Patterns, "placeholders"}) @@ (Length :> {}) @@ (Flavor :> {})
              @@ ("misspelt" :> {})
MCCategory == (Structure :> "structural") @@ (Length :> "line") @@ (Flavor :> "structural")

Off == [enabled |-> FALSE, settings |-> NoSettings]
On  == [enabled |-> TRUE, settings |-> NoSettings]
Set(k, v) == [enabled |-> TRUE, settings |-> (k :> v)]

MCDefaults == (Structure :> On) @@ (Length :> Off) @@ (Flavor :> On)

\* What a layer can say of the two rules.
OfStructure == {NoRules, Structure :> Off, Structure :> Set("schema", "a.md"),
                Structure :> Set("placeholders", <<"p">>)}
OfLength == {NoRules, Length :> Off, Length :> Set("max", "80")}
Layers == {s @@ l : s \in OfStructure, l \in OfLength}

Conventions == {[name |-> Unset, preset |-> NoRules],
                [name |-> "plain", preset |-> (Length :> Set("max", "100")) @@ (Flavor :> Set("flavor", "gfm"))]}
Users == {NoRules, Length :> On, Length :> Set("max", "90"), Flavor :> Set("flavor", "any"),
          (Structure :> Set("placeholders", <<"u">>)) @@ (Length :> Off), "misspelt" :> Set("max", "90"),
          Structure :> [enabled |-> TRUE, settings |-> ("schema" :> "b.md") @@ ("inline-schema" :> "i")]}

Kind(schema, pattern, body) ==
  [schema |-> schema, pattern |-> pattern, rules |-> body, categories |-> NoRules]
KindA == {Kind(s, p, r) : s \in {Unset, "s"}, p \in {Unset, "docs/*"}, r \in Layers}
KindB == {Kind(Unset, Unset, Length :> Set("max", "70")),
          [Kind("t", "ref/*", NoRules) EXCEPT !.categories = ("line" :> FALSE)],
          Kind(Unset, "ref/*", Structure :> Set("inline-schema", "i"))}

Entry(g, f, k) == [glob |-> g, fields |-> f, kinds |-> k]
Assignments == {<<>>, <<Entry({"d.md"}, {}, <<"b", "a">>)>>,
                <<Entry({}, {"id"}, <<"a">>), Entry({"d.md"}, {"id"}, <<"b">>)>>,
                <<Entry({"d.md"}, {}, <<"c">>)>>}
Over(g, r) == [glob |-> g, rules |-> r, categories |-> NoRules]
Overrides == {<<>>, <<Over({"d.md"}, (Structure :> Off) @@ (Length :> Set("max", "60"))), [Over({"d.md"}, Structure :> On) EXCEPT !.categories = ("line" :> TRUE)]>>}

MCLoaded ==
  {[rules |-> u, convention |-> v.name, preset |-> v.preset, flavor |-> "gfm",
    categories |-> ("line" :> l) @@ ("structural" :> m), kinds |-> ("a" :> a) @@ ("b" :> b),
    assignment |-> s, overrides |-> o] :
     u \in Users, v \in Conventions, l \in BOOLEAN, m \in BOOLEAN, a \in KindA, b \in KindB,
     s \in Assignments, o \in Overrides}

MCFiles == {[path |-> "d.md", fields |-> {"id"}, kinds |-> <<"a">>],
            [path |-> "d.md", fields |-> {"id"}, kinds |-> <<>>],
            [path |-> "d.md", fields |-> {}, kinds |-> <<"b", "z">>],
            [path |-> "e.md", fields |-> {"id"}, kinds |-> <<"b">>]}
===============================================================================
