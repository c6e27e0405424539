----------------------------- MODULE ConfigLayers -----------------------------
(***************************************************************************)
(* The configuration of one file (internal/config): a loaded configuration *)
(* is validated and merged with the built-in defaults, the file's kinds    *)
(* are resolved, and then the layers are walked in order: defaults, the    *)
(* convention's preset, the user's rules, each kind, each matching         *)
(* override, and last the categories.                                      *)
(*                                                                         *)
(* Two walks over the same layers are modelled side by side, for they are  *)
(* two pieces of code that have to agree: effectiveRules, effectiveExplicit*)
(* and effectiveCats (merge.go), whose result the engine and the fixer     *)
(* run, and ResolveFile (provenance.go), whose result `kinds resolve` and  *)
(* `--explain` show.  A step is one layer of both walks.  The rules of a   *)
(* layer do not depend on each other, so the order the maps are ranged     *)
(* over makes no difference and a layer is merged in one step.             *)
(***************************************************************************)
EXTENDS RuleConfig, FiniteSets, SequencesExt

CONSTANTS Defaults,   \* the built-in rules: [rule |-> configuration]
          Category,   \* [rule |-> its category]
          Loaded,     \* the configuration files that are tried
          Files       \* the files that are resolved

\* What a Go type says of a layer: a rule is on or off, a list that appends is a list.
IsRuleCfg(r, c) ==
  /\ c = [enabled |-> c.enabled, settings |-> c.settings]
  /\ c.enabled \in BOOLEAN
  /\ \A k \in DOMAIN c.settings \cap Lists[r] : c.settings[k] \in Seq(Range(c.settings[k]))

IsLayer(layer) == \A r \in DOMAIN layer : IsRuleCfg(r, layer[r])
IsCategories(cats) == \A k \in DOMAIN cats : cats[k] \in BOOLEAN

\* The layers of a configuration, loaded or merged.
HasTypes(c) ==
  /\ IsLayer(c.rules) /\ IsLayer(c.preset) /\ IsCategories(c.categories)
  /\ \A n \in DOMAIN c.kinds : IsLayer(c.kinds[n].rules) /\ IsCategories(c.kinds[n].categories)
  /\ \A i \in DOMAIN c.overrides : IsLayer(c.overrides[i].rules) /\ IsCategories(c.overrides[i].categories)

ASSUME ConfigTypes == IsLayer(Defaults) /\ \A c \in Loaded : HasTypes(c)

\* A key the user never writes: the two lists the kinds' entries are collected in.
ASSUME WrittenKeys ==
  \A c \in Loaded : \A n \in DOMAIN c.kinds :
    Structure \in DOMAIN c.kinds[n].rules =>
      {Sources, Patterns} \cap DOMAIN c.kinds[n].rules[Structure].settings = {}

VARIABLES cfg,        \* the merged configuration
          file,       \* the file being resolved
          stage,      \* where the walk stands
          kinds,      \* the kinds of the file, in order
          pos,        \* the kind or override the walk is at
          effective,  \* effectiveRules' result so far
          explicit,   \* effectiveExplicit's result so far
          categories, \* effectiveCats' result so far
          chain,      \* explain: [rule |-> the layers that set it, oldest first]
          final,      \* explain: the merged configuration of each rule
          rules       \* what runs, once the categories are applied

vars == <<cfg, file, stage, kinds, pos, effective, explicit, categories, chain, final, rules>>

-----------------------------------------------------------------------------
(* Loading *)

Body(c, n) == c.kinds[n]
OwnStructure(b) == IF Structure \in DOMAIN b.rules THEN b.rules[Structure].settings ELSE NoSettings

validateKindSchemaSources(b) ==
  LET own == OwnStructure(b)
  IN  /\ ~(b.schema # Unset /\ (Names(own, "schema") \/ Names(own, "inline-schema")))
      /\ ~hasDualSchemaSource(own)

ValidateKinds(c) ==
  /\ \A n \in DOMAIN c.kinds : validateKindSchemaSources(Body(c, n))
  /\ \A e \in 1..Len(c.assignment) :
       \A i \in 1..Len(c.assignment[e].kinds) : c.assignment[e].kinds[i] \in DOMAIN c.kinds

\* markdown-flavor set by hand to another flavor than the convention's is refused.
Flavor == "markdown-flavor"
FlavorAgrees(c) ==
  Flavor \in DOMAIN c.rules => ~Names(c.rules[Flavor].settings, "flavor")
                               \/ c.rules[Flavor].settings["flavor"] = c.flavor

applyConvention(c) == c.convention = Unset \/ FlavorAgrees(c)

\* What Load makes of the preset: none unless a convention is selected.
ConventionPreset(c) == IF c.convention = Unset THEN NoRules ELSE c.preset

\* A rule of the loaded file stands for the whole default configuration of it.
Merge(c) ==
  [rules      |-> [r \in DOMAIN Defaults \cup DOMAIN c.rules |->
                     IF r \in DOMAIN c.rules THEN c.rules[r] ELSE Defaults[r]],
   explicit   |-> DOMAIN c.rules,
   preset     |-> ConventionPreset(c),
   categories |-> c.categories,
   kinds      |-> c.kinds,
   assignment |-> c.assignment,
   overrides  |-> c.overrides]

-----------------------------------------------------------------------------
(* The kinds of a file *)

allFieldsPresent(required, fields) == required \subseteq fields

\* No selector at all matches nothing; the selectors that are set must all match.
matchKindAssignmentEntry(e, f, fields) ==
  /\ e.glob # {} \/ e.fields # {}
  /\ e.glob # {} => f.path \in e.glob
  /\ e.fields # {} => allFieldsPresent(e.fields, fields)

\* Only the entries whose glob matches are asked, not those without one.
NeedsFieldsByGlob(c, f) ==
  \E i \in 1..Len(c.assignment) :
    c.assignment[i].fields # {} /\ f.path \in c.assignment[i].glob

NeedsFieldsForFile(c, f) ==
  \E i \in 1..Len(c.assignment) :
    /\ c.assignment[i].fields # {}
    /\ c.assignment[i].glob = {} \/ f.path \in c.assignment[i].glob

Distinct(seq, name) == IF name \in Range(seq) THEN seq ELSE Append(seq, name)

Assigned(c, f, fields) ==
  [i \in 1..Len(c.assignment) |->
     IF matchKindAssignmentEntry(c.assignment[i], f, fields) THEN c.assignment[i].kinds ELSE <<>>]

Once(names) == FoldLeft(Distinct, <<>>, names)

\* The front matter's own kinds, then those of every matching entry, each once.
resolveEffectiveKinds(c, f, fields) == Once(f.kinds \o FlattenSeq(Assigned(c, f, fields)))

\* The fields are parsed only for a file that some selector asks them of.
parseFrontMatterFields(c, f) == IF NeedsFieldsForFile(c, f) THEN f.fields ELSE {}

-----------------------------------------------------------------------------
(* The layers *)

Only(c, names) == [r \in names |-> c.rules[r]]

splitRulesByExplicit(c) ==
  [defaults |-> Only(c, DOMAIN c.rules \ c.explicit), user |-> Only(c, c.explicit)]

\* What a kind gives the engine: its schema, its pattern, then its own rules.
applyKind(result, n, b) ==
  LET schemaed == IF b.schema = Unset THEN result ELSE applyInlineSchemaSource(result, b.schema)
      placed   == IF b.pattern = Unset THEN schemaed ELSE applyPathPattern(schemaed, n, b.pattern)
  IN  MergeLayer(placed, translateLayerRules(b.rules))

Injects(b) == b.schema # Unset \/ b.pattern # Unset

\* A kind whose path pattern never reaches the explanation.
kindLayerRulesNoPattern(n, b) ==
  LET own == translateLayerRules(b.rules)
  IN  IF b.schema = Unset THEN own ELSE applyInlineSchemaSource(own, b.schema)

\* What a kind gives the explanation: one layer, its own rules first.
kindLayerRules(n, b) ==
  LET own      == translateLayerRules(b.rules)
      schemaed == IF b.schema = Unset THEN own ELSE applyInlineSchemaSource(own, b.schema)
  IN  IF b.pattern = Unset THEN schemaed ELSE applyPathPattern(schemaed, n, b.pattern)

\* A kind that names a rule only through its schema or pattern leaves it implicit.
kindExplicitRulesOnly(b) == DOMAIN b.rules

kindExplicit(b) == DOMAIN b.rules \cup (IF Injects(b) THEN {Structure} ELSE {})

mergeCategories(base, over) ==
  [k \in DOMAIN base \cup DOMAIN over |-> IF k \in DOMAIN over THEN over[k] ELSE base[k]]

\* One layer of buildLayers and of every rule's buildRuleResolution.
Explain(source, layer) ==
  /\ final' = MergeLayer(final, layer)
  /\ chain' = [r \in DOMAIN chain \cup DOMAIN layer |->
                 LET before == IF r \in DOMAIN chain THEN chain[r] ELSE <<>>
                 IN  IF r \in DOMAIN layer
                     THEN Append(before, [source |-> source, value |-> layer[r]]) ELSE before]

-----------------------------------------------------------------------------
Init ==
  /\ stage = "start"
  /\ file \in Files
  /\ cfg \in Loaded
  /\ kinds = <<>> /\ pos = 1
  /\ effective = NoRules /\ final = NoRules /\ rules = NoRules /\ chain = NoRules
  /\ explicit = {} /\ categories = NoRules

Load ==
  /\ stage = "start"
  /\ IF ValidateKinds(cfg) /\ applyConvention(cfg)
     THEN cfg' = Merge(cfg) /\ stage' = "kinds"
     ELSE stage' = "refused" /\ UNCHANGED cfg
  /\ UNCHANGED <<file, kinds, pos, effective, explicit, categories, chain, final, rules>>

ValidateFrontMatterKinds == \A i \in 1..Len(file.kinds) : file.kinds[i] \in DOMAIN cfg.kinds

\* The front matter is read, the kinds resolved and the first layer laid down.
ResolveKinds ==
  LET defaults == translateLayerRules(splitRulesByExplicit(cfg).defaults)
  IN  /\ stage = "kinds"
      /\ IF ValidateFrontMatterKinds
         THEN /\ stage' = "convention"
              /\ kinds' = resolveEffectiveKinds(cfg, file, parseFrontMatterFields(cfg, file))
              /\ effective' = defaults
              /\ explicit' = cfg.explicit
              /\ categories' = mergeCategories([k \in {Category[r] : r \in DOMAIN Category} |-> TRUE], cfg.categories)
              /\ Explain([layer |-> "default"], defaults)
         ELSE stage' = "refused" /\ UNCHANGED <<kinds, effective, explicit, categories, chain, final>>
      /\ UNCHANGED <<cfg, file, pos, rules>>

TakeConvention ==
  LET layer == translateLayerRules(cfg.preset)
  IN  /\ stage = "convention" /\ stage' = "user"
      /\ effective' = MergeLayer(effective, layer)
      /\ Explain([layer |-> "convention"], layer)
      /\ UNCHANGED <<cfg, file, kinds, pos, explicit, categories, rules>>

TakeUser ==
  LET layer == translateLayerRules(splitRulesByExplicit(cfg).user)
  IN  /\ stage = "user" /\ stage' = "kind"
      /\ effective' = MergeLayer(effective, layer)
      /\ Explain([layer |-> "user"], layer)
      /\ UNCHANGED <<cfg, file, kinds, pos, explicit, categories, rules>>

\* A kind nobody declared is passed over.
TakeKind ==
  LET n == kinds[pos]
  IN  /\ stage = "kind" /\ pos \in DOMAIN kinds
      /\ pos' = pos + 1
      /\ IF n \in DOMAIN cfg.kinds
         THEN /\ effective' = applyKind(effective, n, Body(cfg, n))
              /\ explicit' = explicit \cup kindExplicit(Body(cfg, n))
              /\ categories' = mergeCategories(categories, Body(cfg, n).categories)
              /\ Explain([layer |-> "kind", name |-> n], kindLayerRules(n, Body(cfg, n)))
         ELSE UNCHANGED <<effective, explicit, categories, chain, final>>
      /\ UNCHANGED <<cfg, file, stage, kinds, rules>>

KindsTaken ==
  /\ stage = "kind" /\ pos \notin DOMAIN kinds
  /\ stage' = "override" /\ pos' = 1
  /\ UNCHANGED <<cfg, file, kinds, effective, explicit, categories, chain, final, rules>>

TakeOverride ==
  LET o     == cfg.overrides[pos]
      layer == translateLayerRules(o.rules)
  IN  /\ stage = "override" /\ pos \in DOMAIN cfg.overrides
      /\ pos' = pos + 1
      /\ IF file.path \in o.glob
         THEN /\ effective' = MergeLayer(effective, layer)
              /\ explicit' = explicit \cup DOMAIN o.rules
              /\ categories' = mergeCategories(categories, o.categories)
              /\ Explain([layer |-> "override", name |-> pos], layer)
         ELSE UNCHANGED <<effective, explicit, categories, chain, final>>
      /\ UNCHANGED <<cfg, file, stage, kinds, rules>>

\* A rule nobody named goes with its category; one that does not exist has none.
ApplyCategories ==
  /\ stage = "override" /\ pos \notin DOMAIN cfg.overrides
  /\ stage' = "done"
  /\ rules' = [r \in DOMAIN effective |->
                 IF r \in DOMAIN Category /\ Category[r] \in DOMAIN categories
                    /\ ~categories[Category[r]] /\ r \notin explicit
                 THEN [effective[r] EXCEPT !.enabled = FALSE] ELSE effective[r]]
  /\ UNCHANGED <<cfg, file, kinds, pos, effective, explicit, categories, chain, final>>

Next == \/ Load \/ ResolveKinds \/ TakeConvention \/ TakeUser \/ TakeKind
        \/ KindsTaken \/ TakeOverride \/ ApplyCategories

Spec == Init /\ [][Next]_vars

-----------------------------------------------------------------------------
(* Properties *)

\* A kind with a schema or a path pattern whose own rules switch required-structure
\* off: the engine obeys the rules, the explanation shows the rule switched on.
Overruled(n) ==
  LET b == Body(cfg, n)
  IN  Injects(b) /\ Structure \in DOMAIN b.rules /\ b.rules[Structure].enabled # TRUE

Overrules == \E i \in DOMAIN kinds : Overruled(kinds[i])

\* The two walks agree at every layer: `kinds resolve` and `--explain` show, for every
\* rule, the settings the engine runs with, and whether it runs at all, unless a kind
\* both gives required-structure something to check and switches it off.
ExplainIsEffect ==
  /\ DOMAIN final = DOMAIN effective
  /\ \A r \in DOMAIN effective :
       /\ final[r].settings = effective[r].settings
       /\ (r = Structure => ~Overrules) => final[r].enabled = effective[r].enabled

\* What each layer adds to a list that appends.
Shares(steps, k) ==
  [i \in 1..Len(steps) |->
     IF k \in DOMAIN steps[i].value.settings THEN steps[i].value.settings[k] ELSE <<>>]

\* The last layer that sets a key.
LastSetter(steps, k, i) ==
  /\ k \in DOMAIN steps[i].value.settings
  /\ \A j \in i + 1..Len(steps) : k \notin DOMAIN steps[j].value.settings

\* What a rule runs with is what the layers the explanation lists for it say: the last
\* one decides whether it runs and the last that sets it every setting that replaces,
\* all of them in order make up a list that appends, and no setting of an earlier layer
\* is lost.
ChainTellsTheValue ==
  \A r \in DOMAIN effective :
    /\ (r = Structure => ~Overrules) => effective[r].enabled = chain[r][Len(chain[r])].value.enabled
    /\ DOMAIN effective[r].settings =
         UNION {DOMAIN chain[r][i].value.settings : i \in 1..Len(chain[r])}
    /\ \A k \in DOMAIN effective[r].settings :
         IF k \in Lists[r]
         THEN effective[r].settings[k] = FlattenSeq(Shares(chain[r], k))
         ELSE \E i \in 1..Len(chain[r]) :
                LastSetter(chain[r], k, i) /\ effective[r].settings[k] = chain[r][i].value.settings[k]

ByUser(e) == e.source.layer \notin {"default", "convention"}

\* A category never switches off a rule that the user's rules, a kind or an override
\* named, and switches off every rule of it that only a default or a convention set:
\* what effectiveExplicit collects is what the explanation's layers show.
CategoriesSpareTheUser ==
  stage = "done" =>
    \A r \in DOMAIN rules :
      rules[r].enabled = /\ effective[r].enabled
                         /\ \/ r \notin DOMAIN Category
                            \/ categories[Category[r]]
                            \/ \E i \in 1..Len(chain[r]) : ByUser(chain[r][i])

\* Leaving the front matter unparsed when no selector asks for it never changes the
\* kinds a file has (NeedsFieldsForFile against matchKindAssignmentEntry).
LazyFieldsMissNothing ==
  stage \notin {"start", "kinds", "refused"} => kinds = resolveEffectiveKinds(cfg, file, file.fields)
===============================================================================
