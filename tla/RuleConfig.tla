------------------------------ MODULE RuleConfig ------------------------------
(***************************************************************************)
(* One rule's configuration and how a later layer is merged onto an        *)
(* earlier one (internal/config/deepmerge.go), with the translation that   *)
(* the required-structure rule makes of its own layer before the merge     *)
(* (TranslateLayerSettings) and the two entries a kind injects into it.    *)
(*                                                                         *)
(* A configuration is a record [enabled, settings]; settings is a function *)
(* from the keys that are set.  A nil and an empty map merge alike and are *)
(* one value here, and a nested map's keys are keys of their own.  A list  *)
(* is a sequence: Lists[r] are the keys of rule r whose lists append       *)
(* (SettingMergeMode); every other value replaces the earlier one.         *)
(***************************************************************************)
EXTENDS Naturals, Sequences

CONSTANTS Lists \* [rule |-> the keys of the rule whose lists append]

Structure == "required-structure"
Sources   == "schema-sources"
Patterns  == "path-patterns"
Unset     == ""

\* The two lists that kinds add to are lists that append.
ASSUME KindListsAppend == {Sources, Patterns} \subseteq Lists[Structure]

NoSettings == [k \in {} |-> Unset]
NoRules    == [r \in {} |-> Unset]

mergeAny(r, k, earlier, later) ==
  IF k \in Lists[r] THEN earlier \o later ELSE later

mergeSettingsMap(r, earlier, later) ==
  [k \in DOMAIN earlier \cup DOMAIN later |->
     IF k \notin DOMAIN later THEN earlier[k]
     ELSE IF k \notin DOMAIN earlier THEN later[k]
     ELSE mergeAny(r, k, earlier[k], later[k])]

\* A layer that only switches the rule on or off erases the settings before it.
mergeRuleCfgLaterOnly(r, earlier, later) == later

mergeRuleCfg(r, earlier, later) ==
  [enabled  |-> later.enabled,
   settings |-> mergeSettingsMap(r, earlier.settings, later.settings)]

\* A key of a layer that names a schema: set, and not to the empty string.
Names(s, k) == k \in DOMAIN s /\ s[k] # Unset

hasDualSchemaSource(s) == Names(s, "schema") /\ Names(s, "inline-schema")

Added(s, k, entry) ==
  [x \in DOMAIN s \cup {k} |->
     IF x # k THEN s[x] ELSE IF k \in DOMAIN s THEN s[k] \o <<entry>> ELSE <<entry>>]

\* `schema:` and `inline-schema:` become an entry of the appended list
\* schema-sources; a layer that sets both keeps them, for ApplySettings to refuse.
TranslateLayerSettings(s) ==
  LET rest == [k \in DOMAIN s \ {"schema", "inline-schema"} |-> s[k]]
  IN  IF hasDualSchemaSource(s) THEN s
      ELSE IF Names(s, "schema") THEN Added(rest, Sources, <<"file", s["schema"]>>)
      ELSE IF Names(s, "inline-schema") THEN Added(rest, Sources, <<"inline", s["inline-schema"]>>)
      ELSE rest

translateLayerSettings(r, c) ==
  IF r = Structure THEN [c EXCEPT !.settings = TranslateLayerSettings(@)] ELSE c

translateLayerRules(rules) == [r \in DOMAIN rules |-> translateLayerSettings(r, rules[r])]

\* A translated layer merged onto the rules resolved so far.
MergeLayer(result, layer) ==
  [r \in DOMAIN result \cup DOMAIN layer |->
     IF r \notin DOMAIN layer THEN result[r]
     ELSE IF r \notin DOMAIN result THEN layer[r]
     ELSE mergeRuleCfg(r, result[r], layer[r])]

\* One entry of a kind forced into required-structure, which it switches on.
Inject(result, k, entry) ==
  LET s == IF Structure \in DOMAIN result THEN result[Structure].settings ELSE NoSettings
      c == [enabled |-> TRUE, settings |-> Added(s, k, entry)]
  IN  [r \in DOMAIN result \cup {Structure} |-> IF r = Structure THEN c ELSE result[r]]

applyInlineSchemaSource(result, schema) == Inject(result, Sources, <<"inline", schema>>)
applyPathPattern(result, kind, pattern) == Inject(result, Patterns, <<kind, pattern>>)
===============================================================================
