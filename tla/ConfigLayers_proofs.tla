------------------------- MODULE ConfigLayers_proofs --------------------------
(***************************************************************************)
(* Four facts of ConfigLayers for every set of rules, every configuration  *)
(* and every number of kinds and overrides: the explanation shows what the *)
(* engine runs, a front matter left unparsed changes no file's kinds, the  *)
(* layers the explanation lists add up to the value, and a category that   *)
(* is off spares the rules the user named.                                 *)
(***************************************************************************)
EXTENDS ConfigLayers, FiniteSetTheorems, WellFoundedInduction, TLAPS

\* What two walks agree on: the rules they know and the settings of each.
SameSettings(e, f) ==
  /\ DOMAIN f = DOMAIN e
  /\ \A r \in DOMAIN e : f[r].settings = e[r].settings

\* The settings a kind adds to required-structure, in the order of the engine ...
Forced(b, n, s) ==
  LET t == IF b.schema = Unset THEN s ELSE Added(s, Sources, <<"inline", b.schema>>)
  IN  IF b.pattern = Unset THEN t ELSE Added(t, Patterns, <<n, b.pattern>>)

\* ... never meet a list the kind's own rules wrote.
Unwritten(b, s) == (b.schema # Unset => Sources \notin DOMAIN s) /\ Patterns \notin DOMAIN s

\* A key added before a merge or to the layer that is merged: the same settings,
\* where the layer does not have the key itself.
LEMMA AddedBeforeOrAfter ==
  ASSUME NEW s, NEW t, NEW k \in Lists[Structure], NEW entry, k \notin DOMAIN t
  PROVE  mergeSettingsMap(Structure, Added(s, k, entry), t)
           = mergeSettingsMap(Structure, s, Added(t, k, entry))
BY DEF mergeSettingsMap, Added, mergeAny

IsFcn(g) == g = [k \in DOMAIN g |-> g[k]]

LEMMA MergeOntoNothing ==
  ASSUME NEW r, NEW t, IsFcn(t)
  PROVE  mergeSettingsMap(r, NoSettings, t) = t
BY DEF mergeSettingsMap, NoSettings, IsFcn

LEMMA MergeNothing ==
  ASSUME NEW r, NEW s, IsFcn(s)
  PROVE  mergeSettingsMap(r, s, NoSettings) = s
BY DEF mergeSettingsMap, NoSettings, IsFcn

\* Both entries of a kind, before the merge or in the layer.
LEMMA ForcedBeforeOrAfter ==
  ASSUME NEW b, NEW n, NEW s, NEW t, Unwritten(b, t)
  PROVE  mergeSettingsMap(Structure, Forced(b, n, s), t)
           = mergeSettingsMap(Structure, s, Forced(b, n, t))
<1> DEFINE x == <<"inline", b.schema>>
           y == <<n, b.pattern>>
<1>1. Sources \in Lists[Structure] /\ Patterns \in Lists[Structure] /\ Sources # Patterns
  BY KindListsAppend DEF Sources, Patterns
<1>2. \A z : b.pattern # Unset =>
        mergeSettingsMap(Structure, Added(z, Patterns, y), t)
          = mergeSettingsMap(Structure, z, Added(t, Patterns, y))
  BY <1>1, AddedBeforeOrAfter DEF Unwritten
<1>3. b.schema # Unset => Sources \notin DOMAIN Added(t, Patterns, y) /\ Sources \notin DOMAIN t
  BY <1>1 DEF Unwritten, Added
<1>4. \A u : b.schema # Unset /\ Sources \notin DOMAIN u =>
        mergeSettingsMap(Structure, Added(s, Sources, x), u)
          = mergeSettingsMap(Structure, s, Added(u, Sources, x))
  BY <1>1, AddedBeforeOrAfter
<1>5. CASE b.schema = Unset
  BY <1>5, <1>2 DEF Forced
<1>6. CASE b.schema # Unset /\ b.pattern = Unset
  BY <1>6, <1>3, <1>4 DEF Forced
<1>7. CASE b.schema # Unset /\ b.pattern # Unset
  <2>1. Added(Added(t, Patterns, y), Sources, x) = Added(Added(t, Sources, x), Patterns, y)
    BY <1>1 DEF Added
  <2> QED  BY <1>7, <1>2, <1>3, <1>4, <2>1 DEF Forced
<1> QED  BY <1>5, <1>6, <1>7

LEMMA ForcedIsFunction ==
  ASSUME NEW b, NEW n, NEW s, Injects(b)
  PROVE  IsFcn(Forced(b, n, s))
<1>1. \A z, k, x : IsFcn(Added(z, k, x))
  BY DEF Added, IsFcn
<1>2. CASE b.pattern # Unset
  BY <1>1, <1>2 DEF Forced
<1>3. CASE b.pattern = Unset
  BY <1>1, <1>3 DEF Forced, Injects
<1> QED  BY <1>2, <1>3

\* The two entries of a kind added to what is resolved, or to its own rules.
WithEntries(e, n, b) ==
  LET t == IF b.schema = Unset THEN e ELSE applyInlineSchemaSource(e, b.schema)
  IN  IF b.pattern = Unset THEN t ELSE applyPathPattern(t, n, b.pattern)

SettingsOf(e) == IF Structure \in DOMAIN e THEN e[Structure].settings ELSE NoSettings

\* The settings and the switch of required-structure after a kind that injects.
LEMMA Injected ==
  ASSUME NEW e, NEW n, NEW b, Injects(b)
  PROVE  /\ DOMAIN WithEntries(e, n, b) = DOMAIN e \cup {Structure}
         /\ WithEntries(e, n, b)[Structure]
              = [enabled |-> TRUE, settings |-> Forced(b, n, SettingsOf(e))]
         /\ \A r \in DOMAIN e \ {Structure} : WithEntries(e, n, b)[r] = e[r]
<1> USE DEF WithEntries, SettingsOf
<1>1. CASE b.schema = Unset
  BY <1>1 DEF Injects, applyPathPattern, Inject, Forced
<1>2. CASE b.schema # Unset /\ b.pattern = Unset
  BY <1>2 DEF applyInlineSchemaSource, Inject, Forced
<1>3. CASE b.schema # Unset /\ b.pattern # Unset
  <2> DEFINE t == applyInlineSchemaSource(e, b.schema)
  <2>1. /\ DOMAIN t = DOMAIN e \cup {Structure}
        /\ t[Structure].settings = Added(IF Structure \in DOMAIN e THEN e[Structure].settings ELSE NoSettings,
                                         Sources, <<"inline", b.schema>>)
        /\ \A r \in DOMAIN e \ {Structure} : t[r] = e[r]
    BY DEF applyInlineSchemaSource, Inject
  <2> HIDE DEF t
  <2>2. DOMAIN applyPathPattern(t, n, b.pattern) = DOMAIN e \cup {Structure}
    BY <2>1 DEF applyPathPattern, Inject
  <2>3. applyPathPattern(t, n, b.pattern)[Structure]
          = [enabled |-> TRUE, settings |-> Added(t[Structure].settings, Patterns, <<n, b.pattern>>)]
    BY <2>1 DEF applyPathPattern, Inject
  <2>4. \A r \in DOMAIN e \ {Structure} : applyPathPattern(t, n, b.pattern)[r] = e[r]
    BY <2>1 DEF applyPathPattern, Inject
  <2> QED  BY <1>3, <2>1, <2>2, <2>3, <2>4 DEF t, Forced
<1> QED  BY <1>1, <1>2, <1>3 DEF Injects

\* A layer both walks take as it is.
LEMMA SameLayer ==
  ASSUME NEW e, NEW f, SameSettings(e, f), NEW layer
  PROVE  /\ SameSettings(MergeLayer(e, layer), MergeLayer(f, layer))
         /\ \A r \in DOMAIN MergeLayer(e, layer) :
              f[r].enabled = e[r].enabled \/ r \in DOMAIN layer =>
                MergeLayer(f, layer)[r].enabled = MergeLayer(e, layer)[r].enabled
BY DEF SameSettings, MergeLayer, mergeRuleCfg

\* What a valid kind wrote for required-structure holds neither list when it injects into it.
Valid(b) ==
  /\ validateKindSchemaSources(b)
  /\ Structure \in DOMAIN b.rules => {Sources, Patterns} \cap DOMAIN b.rules[Structure].settings = {}

LEMMA TranslatedIsUnwritten ==
  ASSUME NEW b, Valid(b), Structure \in DOMAIN b.rules
  PROVE  Unwritten(b, TranslateLayerSettings(b.rules[Structure].settings))
<1> DEFINE s    == b.rules[Structure].settings
           rest == [k \in DOMAIN s \ {"schema", "inline-schema"} |-> s[k]]
<1>1. Sources \notin DOMAIN rest /\ Patterns \notin DOMAIN rest /\ Patterns \notin DOMAIN s
  BY DEF Valid
<1>2. \A x : Patterns \notin DOMAIN Added(rest, Sources, x)
  BY <1>1 DEF Added, Sources, Patterns
<1>3. b.schema # Unset => ~Names(s, "schema") /\ ~Names(s, "inline-schema")
  BY DEF Valid, validateKindSchemaSources, OwnStructure
<1>4. CASE hasDualSchemaSource(s)
  BY <1>1, <1>3, <1>4 DEF Unwritten, TranslateLayerSettings, hasDualSchemaSource
<1>5. CASE ~hasDualSchemaSource(s)
  BY <1>1, <1>2, <1>3, <1>5 DEF Unwritten, TranslateLayerSettings
<1> QED  BY <1>4, <1>5

\* What two walks agree on after a kind: which rules are on, required-structure only
\* where the kind's own rules do not switch it off.
SameSwitch(e, f, b, d, g) ==
  \A r \in DOMAIN d :
    \/ r # Structure /\ (r \in DOMAIN e => f[r].enabled = e[r].enabled)
    \/ r = Structure /\ (Structure \in DOMAIN b.rules => b.rules[Structure].enabled = TRUE)
    => g[r].enabled = d[r].enabled

\* A kind that injects: the engine's two steps and the explanation's one layer agree.
LEMMA InjectingKind ==
  ASSUME NEW e, NEW f, SameSettings(e, f), NEW n, NEW b, Valid(b), Injects(b)
  PROVE  /\ SameSettings(applyKind(e, n, b), MergeLayer(f, kindLayerRules(n, b)))
         /\ SameSwitch(e, f, b, applyKind(e, n, b), MergeLayer(f, kindLayerRules(n, b)))
<1> DEFINE own == translateLayerRules(b.rules)
           s0  == SettingsOf(e)
           t0  == SettingsOf(own)
           u   == WithEntries(e, n, b)
           l   == kindLayerRules(n, b)
           g   == MergeLayer(f, l)
           d   == applyKind(e, n, b)
<1>1. /\ DOMAIN u = DOMAIN e \cup {Structure}
      /\ u[Structure] = [enabled |-> TRUE, settings |-> Forced(b, n, s0)]
      /\ \A r \in DOMAIN e \ {Structure} : u[r] = e[r]
  <2>1. u = WithEntries(e, n, b) /\ s0 = SettingsOf(e)
    OBVIOUS
  <2> HIDE DEF u, s0
  <2> QED  BY <2>1, Injected
<1>2. /\ DOMAIN l = DOMAIN own \cup {Structure}
      /\ l[Structure] = [enabled |-> TRUE, settings |-> Forced(b, n, t0)]
      /\ \A r \in DOMAIN own \ {Structure} : l[r] = own[r]
  <2>1. l = WithEntries(own, n, b)
    BY DEF kindLayerRules, WithEntries
  <2> HIDE DEF own, l
  <2> QED  BY <2>1, Injected
<1>3. d = MergeLayer(u, own)
  BY DEF applyKind, WithEntries
<1>4. /\ DOMAIN own = DOMAIN b.rules
      /\ Structure \in DOMAIN b.rules =>
           /\ own[Structure].enabled = b.rules[Structure].enabled
           /\ own[Structure].settings = TranslateLayerSettings(b.rules[Structure].settings)
  BY DEF translateLayerRules, translateLayerSettings
<1>5. Unwritten(b, t0)
  <2>1. CASE Structure \in DOMAIN own  BY <2>1, <1>4, TranslatedIsUnwritten DEF SettingsOf
  <2>2. CASE Structure \notin DOMAIN own  BY <2>2 DEF Unwritten, NoSettings, SettingsOf
  <2> QED  BY <2>1, <2>2
<1>6. mergeSettingsMap(Structure, Forced(b, n, s0), t0) = mergeSettingsMap(Structure, s0, Forced(b, n, t0))
  BY <1>5, ForcedBeforeOrAfter
<1> HIDE DEF own, u, l, s0, t0
<1>7. IsFcn(Forced(b, n, s0)) /\ IsFcn(Forced(b, n, t0))
  BY ForcedIsFunction
<1>8. d[Structure].settings = mergeSettingsMap(Structure, Forced(b, n, s0), t0)
  <2>1. CASE Structure \in DOMAIN own
    BY <2>1, <1>1, <1>3 DEF MergeLayer, mergeRuleCfg, s0, t0, SettingsOf
  <2>2. CASE Structure \notin DOMAIN own
    <3>1. d[Structure] = u[Structure]  BY <2>2, <1>1, <1>3 DEF MergeLayer
    <3> QED  BY <2>2, <3>1, <1>1, <1>7, MergeNothing DEF t0, SettingsOf
  <2> QED  BY <2>1, <2>2
<1>9. g[Structure].settings = mergeSettingsMap(Structure, s0, Forced(b, n, t0))
  <2>1. CASE Structure \in DOMAIN f
    BY <2>1, <1>2 DEF MergeLayer, mergeRuleCfg, SameSettings, s0, SettingsOf
  <2>2. CASE Structure \notin DOMAIN f
    <3>1. g[Structure] = l[Structure]  BY <2>2, <1>2 DEF MergeLayer
    <3>2. s0 = NoSettings  BY <2>2 DEF SameSettings, s0, SettingsOf
    <3> QED  BY <3>1, <3>2, <1>2, <1>7, MergeOntoNothing
  <2> QED  BY <2>1, <2>2
<1>10. DOMAIN d = DOMAIN e \cup {Structure} \cup DOMAIN own /\ DOMAIN g = DOMAIN d
  BY <1>1, <1>2, <1>3 DEF MergeLayer, SameSettings
<1>11. \A r \in DOMAIN d \ {Structure} : g[r].settings = d[r].settings
  BY <1>1, <1>2, <1>3, <1>10 DEF MergeLayer, mergeRuleCfg, SameSettings
<1>12. \A r \in DOMAIN d \ {Structure} :
         (r \in DOMAIN e => f[r].enabled = e[r].enabled) => g[r].enabled = d[r].enabled
  BY <1>1, <1>2, <1>3, <1>10 DEF MergeLayer, mergeRuleCfg, SameSettings
<1>13. (Structure \in DOMAIN b.rules => b.rules[Structure].enabled = TRUE) =>
         g[Structure].enabled = d[Structure].enabled
  <2>1. g[Structure].enabled = TRUE
    BY <1>2 DEF MergeLayer, mergeRuleCfg
  <2>2. CASE Structure \in DOMAIN own
    <3>1. d[Structure].enabled = own[Structure].enabled
      BY <2>2, <1>1, <1>3 DEF MergeLayer, mergeRuleCfg
    <3> QED  BY <2>1, <2>2, <3>1, <1>4
  <2>3. CASE Structure \notin DOMAIN own
    <3>1. d[Structure] = u[Structure]
      BY <2>3, <1>1, <1>3 DEF MergeLayer
    <3>2. d[Structure].enabled = TRUE
      BY <3>1, <1>1
    <3> QED  BY <2>1, <3>2
  <2> QED  BY <2>2, <2>3
<1>14. SameSettings(d, g)
  BY <1>6, <1>8, <1>9, <1>10, <1>11 DEF SameSettings
<1> HIDE DEF d, g
<1>15. SameSwitch(e, f, b, d, g)
  BY <1>12, <1>13 DEF SameSwitch
<1> QED  BY <1>14, <1>15 DEF d, g, l

-----------------------------------------------------------------------------
(* The explanation shows what the engine runs *)

\* The inductive invariant: the kinds of a merged configuration were validated, the walk
\* is at a kind of the list, and the two walks agree.
Walked == stage \notin {"start", "refused"} => \A n \in DOMAIN cfg.kinds : Valid(Body(cfg, n))

Agreed ==
  /\ SameSettings(effective, final)
  /\ \A r \in DOMAIN effective :
       (r = Structure => ~Overrules) => final[r].enabled = effective[r].enabled

IInv == /\ Walked /\ Agreed /\ pos \in Nat \ {0}
        /\ stage = "start" => cfg \in Loaded
        /\ stage \in {"start", "kinds"} => DOMAIN effective = {}

LEMMA InitHolds == Init => IInv
BY DEF Init, IInv, Walked, Agreed, SameSettings, NoRules

\* A layer that both walks merge as it is keeps their agreement.
LEMMA LayerKeeps ==
  ASSUME Agreed, NEW layer, effective' = MergeLayer(effective, layer),
         final' = MergeLayer(final, layer), UNCHANGED <<cfg, kinds>>
  PROVE  Agreed'
<1>1. SameSettings(effective', final')
  BY SameLayer DEF Agreed
<1>2. \A r \in DOMAIN effective' :
        (r \in DOMAIN effective => final[r].enabled = effective[r].enabled) =>
          final'[r].enabled = effective'[r].enabled
  BY DEF Agreed, SameSettings, MergeLayer, mergeRuleCfg
<1>3. Overrules' = Overrules
  BY DEF Overrules, Overruled, Body
<1>4. ASSUME NEW r \in DOMAIN effective', (r = Structure => ~Overrules)
      PROVE  final'[r].enabled = effective'[r].enabled
  BY <1>2, <1>4 DEF Agreed
<1> QED  BY <1>1, <1>3, <1>4 DEF Agreed

LEMMA KindKeeps ==
  ASSUME IInv, TakeKind
  PROVE  Agreed'
<1> DEFINE n == kinds[pos]
           b == Body(cfg, n)
           l == kindLayerRules(n, b)
<1>1. Overrules' = Overrules
  BY DEF TakeKind, Overrules, Overruled, Body
<1>2. CASE n \notin DOMAIN cfg.kinds
  <2>1. UNCHANGED <<effective, final>>
    BY <1>2 DEF TakeKind
  <2> QED  BY <1>1, <2>1 DEF IInv, Agreed
<1>3. CASE n \in DOMAIN cfg.kinds /\ ~Injects(b)
  <2>1. effective' = MergeLayer(effective, translateLayerRules(b.rules))
    BY <1>3 DEF TakeKind, applyKind, Injects
  <2>2. final' = MergeLayer(final, translateLayerRules(b.rules))
    BY <1>3 DEF TakeKind, kindLayerRules, Injects, Explain
  <2> QED  BY <2>1, <2>2, LayerKeeps DEF IInv, TakeKind
<1>4. CASE n \in DOMAIN cfg.kinds /\ Injects(b)
  <2>1. effective' = applyKind(effective, n, b) /\ final' = MergeLayer(final, l)
    BY <1>4 DEF TakeKind, Explain
  <2>2. Valid(b) /\ SameSettings(effective, final)
    BY <1>4 DEF IInv, Walked, Agreed, TakeKind
  <2> HIDE DEF n, b
  <2>3. SameSettings(applyKind(effective, n, b), MergeLayer(final, l))
    BY <1>4, <2>2, InjectingKind
  <2>4. SameSwitch(effective, final, b, applyKind(effective, n, b), MergeLayer(final, l))
    BY <1>4, <2>2, InjectingKind
  <2>5. ~Overrules => (Structure \in DOMAIN b.rules => b.rules[Structure].enabled = TRUE)
    BY <1>4 DEF Overrules, Overruled, TakeKind, IInv, n, b
  <2>6. ASSUME NEW r \in DOMAIN effective', (r = Structure => ~Overrules)
        PROVE  final'[r].enabled = effective'[r].enabled
    BY <2>1, <2>4, <2>5, <2>6 DEF IInv, Agreed, SameSwitch
  <2> QED  BY <1>1, <2>1, <2>3, <2>6 DEF Agreed
<1> QED  BY <1>2, <1>3, <1>4

LEMMA NextKeeps == IInv /\ [Next]_vars => IInv'
<1> SUFFICES ASSUME IInv, [Next]_vars PROVE IInv'
  OBVIOUS
<1>1. CASE Load
  <2>1. UNCHANGED <<kinds, effective, final, pos>> /\ stage = "start" /\ stage' \in {"kinds", "refused"}
    BY <1>1 DEF Load
  <2>2. Walked'
    <3>1. CASE ValidateKinds(cfg) /\ applyConvention(cfg)
      <4>1. cfg'.kinds = cfg.kinds /\ cfg \in Loaded
        BY <1>1, <3>1, <2>1 DEF Load, Merge, IInv
      <4>2. \A m \in DOMAIN cfg.kinds : Valid(Body(cfg, m))
        BY <3>1, <4>1, WrittenKeys DEF ValidateKinds, Valid, Body
      <4> QED  BY <4>1, <4>2 DEF Walked, Body
    <3>2. CASE ~(ValidateKinds(cfg) /\ applyConvention(cfg))
      BY <1>1, <3>2 DEF Load, Walked
    <3> QED  BY <3>1, <3>2
  <2>3. Agreed'
    BY <2>1 DEF Agreed, SameSettings, IInv
  <2> QED  BY <2>1, <2>2, <2>3 DEF IInv
<1>2. CASE ResolveKinds
  <2> DEFINE d == translateLayerRules(splitRulesByExplicit(cfg).defaults)
  <2>1. CASE ValidateFrontMatterKinds
    <3>1. effective' = d /\ final' = MergeLayer(final, d)
      BY <1>2, <2>1 DEF ResolveKinds, Explain
    <3>2. d = [r \in DOMAIN d |-> d[r]]
      BY DEF translateLayerRules
    <3>3. DOMAIN final = {}
      BY <1>2 DEF IInv, Agreed, SameSettings, ResolveKinds
    <3> HIDE DEF d
    <3>4. final' = effective'
      BY <3>1, <3>2, <3>3 DEF MergeLayer
    <3>5. Agreed'
      BY <3>4 DEF Agreed, SameSettings
    <3>6. Walked' /\ stage' = "convention" /\ pos' = pos
      BY <1>2, <2>1 DEF ResolveKinds, Walked, IInv, Body
    <3> QED  BY <3>5, <3>6 DEF IInv
  <2>2. CASE ~ValidateFrontMatterKinds
    BY <1>2, <2>2 DEF ResolveKinds, IInv, Walked, Agreed, Overrules, Overruled, Body
  <2> QED  BY <2>1, <2>2
<1>3. CASE TakeConvention
  <2> DEFINE layer == translateLayerRules(cfg.preset)
  <2>1. effective' = MergeLayer(effective, layer) /\ final' = MergeLayer(final, layer)
    BY <1>3 DEF TakeConvention, Explain
  <2>2. UNCHANGED <<cfg, kinds, pos>> /\ stage = "convention" /\ stage' = "user"
    BY <1>3 DEF TakeConvention
  <2> HIDE DEF layer
  <2>3. Agreed'
    BY <2>1, <2>2, LayerKeeps DEF IInv
  <2> QED  BY <2>2, <2>3 DEF IInv, Walked, Body
<1>4. CASE TakeUser
  <2> DEFINE layer == translateLayerRules(splitRulesByExplicit(cfg).user)
  <2>1. effective' = MergeLayer(effective, layer) /\ final' = MergeLayer(final, layer)
    BY <1>4 DEF TakeUser, Explain
  <2>2. UNCHANGED <<cfg, kinds, pos>> /\ stage = "user" /\ stage' = "kind"
    BY <1>4 DEF TakeUser
  <2> HIDE DEF layer
  <2>3. Agreed'
    BY <2>1, <2>2, LayerKeeps DEF IInv
  <2> QED  BY <2>2, <2>3 DEF IInv, Walked, Body
<1>5. CASE TakeKind
  <2>1. UNCHANGED <<cfg, stage>> /\ stage = "kind" /\ pos' = pos + 1
    BY <1>5 DEF TakeKind
  <2>2. Agreed'
    BY <1>5, KindKeeps
  <2> QED  BY <2>1, <2>2 DEF IInv, Walked, Body
<1>6. CASE KindsTaken
  <2>1. Agreed'
    BY <1>6 DEF KindsTaken, IInv, Agreed, SameSettings, Overrules, Overruled, Body
  <2>2. pos' = 1 /\ stage = "kind" /\ stage' = "override" /\ UNCHANGED cfg
    BY <1>6 DEF KindsTaken
  <2> QED  BY <2>1, <2>2 DEF IInv, Walked, Body
<1>7. CASE TakeOverride
  <2> DEFINE layer == translateLayerRules(cfg.overrides[pos].rules)
  <2>1. UNCHANGED <<cfg, kinds, stage>> /\ stage = "override" /\ pos' = pos + 1
    BY <1>7 DEF TakeOverride
  <2>2. \/ effective' = MergeLayer(effective, layer) /\ final' = MergeLayer(final, layer)
        \/ UNCHANGED <<effective, final>>
    BY <1>7 DEF TakeOverride, Explain
  <2> HIDE DEF layer
  <2>3. Agreed'
    <3>1. CASE UNCHANGED <<effective, final>>
      BY <2>1, <3>1 DEF IInv, Agreed, Overrules, Overruled, Body
    <3>2. CASE effective' = MergeLayer(effective, layer) /\ final' = MergeLayer(final, layer)
      BY <2>1, <3>2, LayerKeeps DEF IInv
    <3> QED  BY <2>2, <3>1, <3>2
  <2> QED  BY <2>1, <2>3 DEF IInv, Walked, Body
<1>8. CASE ApplyCategories
  BY <1>8 DEF ApplyCategories, IInv, Walked, Agreed, Overrules, Overruled, Body
<1>9. CASE UNCHANGED vars
  BY <1>9 DEF vars, IInv, Walked, Agreed, Overrules, Overruled, Body
<1> QED  BY <1>1, <1>2, <1>3, <1>4, <1>5, <1>6, <1>7, <1>8, <1>9 DEF Next

\* What `kinds resolve` and `--explain` show of a rule is what the engine and the fixer
\* run it with, after every layer: ResolveFile mirrors effectiveRules.
THEOREM ExplanationIsTrue == Spec => []ExplainIsEffect
<1>1. IInv => ExplainIsEffect
  BY DEF IInv, Agreed, SameSettings, ExplainIsEffect
<1> QED  BY <1>1, InitHolds, NextKeeps, PTL DEF Spec

-----------------------------------------------------------------------------
(* Fields are parsed only where a selector asks for them *)

\* The guard before the parse and the match after it agree: a file no selector asks the
\* fields of has the same kinds whether they were parsed or not.
LEMMA UnparsedFieldsDecideNothing ==
  ASSUME NEW c, NEW f
  PROVE  resolveEffectiveKinds(c, f, parseFrontMatterFields(c, f)) = resolveEffectiveKinds(c, f, f.fields)
<1>1. CASE NeedsFieldsForFile(c, f)
  BY <1>1 DEF parseFrontMatterFields
<1>2. CASE ~NeedsFieldsForFile(c, f)
  <2>1. \A i \in 1..Len(c.assignment) :
          matchKindAssignmentEntry(c.assignment[i], f, {}) = matchKindAssignmentEntry(c.assignment[i], f, f.fields)
    BY <1>2 DEF NeedsFieldsForFile, matchKindAssignmentEntry
  <2>2. Assigned(c, f, {}) = Assigned(c, f, f.fields)
    BY <2>1 DEF Assigned
  <2>3. parseFrontMatterFields(c, f) = {}
    BY <1>2 DEF parseFrontMatterFields
  <2> QED  BY <2>2, <2>3 DEF resolveEffectiveKinds
<1> QED  BY <1>1, <1>2

\* No file's kinds depend on whether its front matter was parsed: the lazy parse of the
\* engine, the fixer, `kinds` and the language server misses no field selector.
THEOREM NoFieldIsMissed == Spec => []LazyFieldsMissNothing
<1>1. Init => LazyFieldsMissNothing
  BY DEF Init, LazyFieldsMissNothing
<1>2. LazyFieldsMissNothing /\ [Next]_vars => LazyFieldsMissNothing'
  <2> SUFFICES ASSUME LazyFieldsMissNothing, [Next]_vars PROVE LazyFieldsMissNothing'
    OBVIOUS
  <2>1. CASE Load
    BY <2>1 DEF Load, LazyFieldsMissNothing
  <2>2. CASE ResolveKinds
    <3>1. CASE ValidateFrontMatterKinds
      BY <2>2, <3>1, UnparsedFieldsDecideNothing DEF ResolveKinds, LazyFieldsMissNothing
    <3>2. CASE ~ValidateFrontMatterKinds
      BY <2>2, <3>2 DEF ResolveKinds, LazyFieldsMissNothing
    <3> QED  BY <3>1, <3>2
  <2>3. CASE ~(Load \/ ResolveKinds)
    <3>1. \/ UNCHANGED <<cfg, file, kinds>> /\ stage \notin {"start", "kinds", "refused"}
          \/ UNCHANGED vars
      BY <2>3 DEF Next, TakeConvention, TakeUser, TakeKind, KindsTaken, TakeOverride, ApplyCategories
    <3> QED  BY <3>1 DEF LazyFieldsMissNothing, vars
  <2> QED  BY <2>1, <2>2, <2>3
<1> QED  BY <1>1, <1>2, PTL DEF Spec
-----------------------------------------------------------------------------
(* Induction over the naturals, from the well-founded order on the subsets  *)
(* of an interval, and with it what FlattenSeq makes of one element more.   *)

LEMMA Minimum ==
  ASSUME NEW T \in SUBSET Nat, NEW n \in T
  PROVE  \E x \in T : \A y \in T : x <= y
<1> DEFINE S == 0..n
           U == {0..k : k \in {i \in T : i <= n}}
           R == StrictSubsetOrdering(S)
<1>1. IsFiniteSet(S)
  BY FS_Interval
<1>2. IsWellFoundedOn(R, SUBSET S)
  BY <1>1, FS_StrictSubsetOrderingWellFounded, FS_FiniteSubsetsOfFinite
<1>3. U \subseteq SUBSET S /\ U # {}
  OBVIOUS
<1>4. \E x \in U : \A y \in U : ~(<<y,x>> \in R)
  <2> HIDE DEF S, U, R
  <2> QED BY <1>2, <1>3, WFMin
<1> PICK k \in T : k <= n /\ \A y \in U : ~(<<y,0..k>> \in R)
  BY <1>4
<1>5. ASSUME NEW y \in T, y < k PROVE FALSE
  <2>1. 0..y \in U /\ 0..y \in SUBSET S /\ 0..k \in SUBSET S /\ 0..y \subseteq 0..k 
    BY <1>5
  <2>2. k \notin 0..y /\ k \in 0..k
    BY <1>5
  <2>3. <<0..y, 0..k>> \notin R
    BY <2>1
  <2> HIDE DEF S, U
  <2>4. \A a, b \in SUBSET S : a \subseteq b /\ a # b => <<a, b>> \in R
    BY DEF StrictSubsetOrdering
  <2> QED BY <2>1, <2>2, <2>3, <2>4
<1> QED BY <1>5

\* A set, not an operator, holds of every number.
LEMMA NatInd ==
  ASSUME NEW S, 0 \in S, \A n \in Nat : n \in S => n+1 \in S
  PROVE  Nat \subseteq S
<1> DEFINE T == Nat \ S
<1>1. SUFFICES ASSUME NEW n \in T PROVE FALSE
  OBVIOUS
<1> PICK x \in T : \A y \in T : x <= y
  <2>1. T \in SUBSET Nat OBVIOUS
  <2> HIDE DEF T
  <2> QED BY <2>1, Minimum
<1>2. x # 0 /\ x - 1 \in Nat /\ x - 1 \notin T
  OBVIOUS
<1> QED BY <1>2

\* The value of f at i that FlattenSeq's recursion asks for.
Flat(s, f, n) == f = [i \in 1..n |-> IF i = 1 THEN s[i] ELSE f[i-1] \o s[i]]

\* The recursion has a solution at every length.
LEMMA FlatExists ==
  ASSUME NEW s, NEW n \in Nat
  PROVE  \E f : Flat(s, f, n)
<1> DEFINE S == {m \in Nat : \E f : Flat(s, f, m)}
<1>1. 0 \in S
  <2>1. Flat(s, [i \in 1..0 |-> s], 0)
    BY DEF Flat
  <2> QED BY <2>1
<1>2. ASSUME NEW m \in Nat, m \in S PROVE m + 1 \in S
  <2> PICK f : Flat(s, f, m)
    BY <1>2
  <2> DEFINE g == [i \in 1..m + 1 |->
                     IF i # m + 1 THEN f[i] ELSE IF i = 1 THEN s[i] ELSE f[i-1] \o s[i]]
  <2>1. \A i \in 1..m + 1 : g[i] = IF i = 1 THEN s[i] ELSE g[i-1] \o s[i]
    <3>1. \A i \in 1..m : f[i] = IF i = 1 THEN s[i] ELSE f[i-1] \o s[i]
      BY DEF Flat
    <3>2. \A i \in 1..m : g[i] = f[i]
      OBVIOUS
    <3>3. g[m+1] = IF m + 1 = 1 THEN s[m+1] ELSE f[m] \o s[m+1]
      OBVIOUS
    <3> HIDE DEF g
    <3> QED BY <3>1, <3>2, <3>3
  <2>2. g = [i \in 1..m + 1 |-> g[i]]
    OBVIOUS
  <2> HIDE DEF g
  <2>3. Flat(s, g, m + 1)
    BY <2>1, <2>2 DEF Flat
  <2> QED BY <2>3
<1> HIDE DEF S
<1>3. Nat \subseteq S
  BY <1>1, <1>2, NatInd
<1> QED BY <1>3 DEF S

\* Two sequences that agree on a prefix flatten to the same there.
LEMMA FlatAgrees ==
  ASSUME NEW s, NEW t, NEW n \in Nat, NEW m \in Nat, n <= m,
         NEW f, Flat(s, f, n), NEW g, Flat(t, g, m),
         \A i \in 1..n : s[i] = t[i]
  PROVE  \A i \in 1..n : f[i] = g[i]
<1> DEFINE S == {i \in Nat : i \in 1..n => f[i] = g[i]}
<1>1. 0 \in S
  OBVIOUS
<1>2. ASSUME NEW i \in Nat, i \in S PROVE i + 1 \in S
  <2> SUFFICES ASSUME i + 1 \in 1..n PROVE f[i+1] = g[i+1]
    OBVIOUS
  <2>1. /\ f[i+1] = IF i + 1 = 1 THEN s[i+1] ELSE f[i] \o s[i+1]
        /\ g[i+1] = IF i + 1 = 1 THEN t[i+1] ELSE g[i] \o t[i+1]
    <3>1. (i + 1) - 1 = i /\ i + 1 \in 1..m
      OBVIOUS
    <3> QED BY <3>1 DEF Flat
  <2> QED BY <1>2, <2>1
<1> HIDE DEF S
<1>3. Nat \subseteq S
  BY <1>1, <1>2, NatInd
<1> QED BY <1>3 DEF S

\* FlattenSeq is the last value of a solution.
LEMMA FlattenIs ==
  ASSUME NEW s, Len(s) \in Nat, Len(s) # 0
  PROVE  \E f : Flat(s, f, Len(s)) /\ FlattenSeq(s) = f[Len(s)]
<1> DEFINE F == CHOOSE f : f = [i \in 1..Len(s) |-> IF i = 1 THEN s[i] ELSE f[i-1] \o s[i]]
<1>1. FlattenSeq(s) = F[Len(s)]
  BY DEF FlattenSeq
<1>2. \E f : f = [i \in 1..Len(s) |-> IF i = 1 THEN s[i] ELSE f[i-1] \o s[i]]
  BY FlatExists DEF Flat
<1>3. F = [i \in 1..Len(s) |-> IF i = 1 THEN s[i] ELSE F[i-1] \o s[i]]
  BY <1>2
<1> QED BY <1>1, <1>3 DEF Flat

\* FlattenSeq one element at a time.
LEMMA FlattenOne == ASSUME NEW x PROVE FlattenSeq(<<x>>) = x
<1> DEFINE s == <<x>>
<1>1. Len(s) = 1 /\ s[1] = x
  OBVIOUS
<1> HIDE DEF s
<1> PICK f : Flat(s, f, Len(s)) /\ FlattenSeq(s) = f[Len(s)]
  <2>1. Len(s) \in Nat /\ Len(s) # 0
    BY <1>1
  <2> HIDE DEF s
  <2> QED BY <2>1, FlattenIs
<1>2. FlattenSeq(s) = x
  BY <1>1 DEF Flat
<1> QED BY <1>2 DEF s

LEMMA FlattenAppend ==
  ASSUME NEW T, NEW s \in Seq(T), s # <<>>, NEW x \in T
  PROVE  FlattenSeq(Append(s, x)) = FlattenSeq(s) \o x
<1> DEFINE t == Append(s, x)
           n == Len(s)
<1>1. /\ n \in Nat /\ n # 0 /\ Len(t) = n + 1 /\ t[n + 1] = x
      /\ \A i \in 1..n : t[i] = s[i]
  OBVIOUS
<1> HIDE DEF t, n
<1> PICK f : Flat(s, f, n) /\ FlattenSeq(s) = f[n]
  BY <1>1, FlattenIs DEF n
<1> PICK g : Flat(t, g, n + 1) /\ FlattenSeq(t) = g[n + 1]
  BY <1>1, FlattenIs
<1>2. f[n] = g[n]
  BY <1>1, FlatAgrees
<1>3. g[n + 1] = g[n] \o x
  <2>1. (n + 1) - 1 = n /\ n + 1 # 1 /\ n + 1 \in 1..n + 1
    BY <1>1
  <2> QED BY <1>1, <2>1 DEF Flat
<1> QED BY <1>2, <1>3 DEF t
-----------------------------------------------------------------------------
(* What the explanation lists of a rule adds up to what it runs with *)

IsList(v) == v \in Seq(Range(v))

ListOf(s, k) == IF k \in DOMAIN s THEN s[k] ELSE <<>>

\* The steps of a rule's chain and its merged configuration tell the same.
Tells(r, steps, c) ==
  /\ steps \in Seq(Range(steps)) /\ Len(steps) # 0
  /\ IsRuleCfg(r, c)
  /\ c.enabled = steps[Len(steps)].value.enabled
  /\ DOMAIN c.settings = UNION {DOMAIN steps[i].value.settings : i \in 1..Len(steps)}
  /\ \A k \in Lists[r] : FlattenSeq(Shares(steps, k)) = ListOf(c.settings, k)
  /\ \A k \in DOMAIN c.settings \ Lists[r] :
       \E i \in 1..Len(steps) :
         LastSetter(steps, k, i) /\ c.settings[k] = steps[i].value.settings[k]

LEMMA TypedList ==
  ASSUME NEW r, NEW c, IsRuleCfg(r, c), NEW k \in Lists[r]
  PROVE  IsList(ListOf(c.settings, k))
BY DEF IsRuleCfg, ListOf, IsList, Range

LEMMA OverItsRange ==
  ASSUME NEW T, NEW w \in Seq(T)
  PROVE  w \in Seq(Range(w))
<1>1. Len(w) \in Nat /\ w = [i \in 1..Len(w) |-> w[i]]
  OBVIOUS
<1>2. \A i \in 1..Len(w) : w[i] \in Range(w)
  BY <1>1 DEF Range
<1> QED BY <1>1, <1>2

LEMMA Concatenated ==
  ASSUME NEW u, NEW v, IsList(u), IsList(v)
  PROVE  IsList(u \o v) /\ <<>> \o v = v /\ u \o <<>> = u
<1>1. PICK T : u \in Seq(T) /\ v \in Seq(T)
  <2> DEFINE T == Range(u) \cup Range(v)
  <2>1. u \in Seq(T) /\ v \in Seq(T)
    BY DEF IsList
  <2> QED BY <2>1
<1>2. u \o v \in Seq(T)
  BY <1>1
<1>3. u \o v \in Seq(Range(u \o v))
  BY <1>2, OverItsRange
<1> QED BY <1>1, <1>3 DEF IsList

\* One more layer that sets the rule.
LEMMA TellsMore ==
  ASSUME NEW r, NEW steps, NEW c, Tells(r, steps, c),
         NEW source, NEW v, IsRuleCfg(r, v)
  PROVE  Tells(r, Append(steps, [source |-> source, value |-> v]), mergeRuleCfg(r, c, v))
<1> DEFINE e == [source |-> source, value |-> v]
           t == Append(steps, e)
           d == mergeRuleCfg(r, c, v)
           n == Len(steps)
<1>1. /\ n \in Nat /\ n # 0 /\ Len(t) = n + 1 /\ t[n + 1] = e /\ t[n + 1].value = v
      /\ \A i \in 1..n : t[i] = steps[i]
      /\ t \in Seq(Range(t))
  <2>1. steps \in Seq(Range(steps) \cup {e})
    BY DEF Tells
  <2>2. t \in Seq(Range(steps) \cup {e})
    BY <2>1
  <2>3. t \in Seq(Range(t))
    BY <2>2, OverItsRange
  <2> QED BY <2>1, <2>3 DEF Tells
<1>2. /\ d.enabled = v.enabled
      /\ d.settings = mergeSettingsMap(r, c.settings, v.settings)
      /\ DOMAIN d.settings = DOMAIN c.settings \cup DOMAIN v.settings
      /\ d = [enabled |-> d.enabled, settings |-> d.settings]
  BY DEF mergeRuleCfg, mergeSettingsMap
<1>3. \A k \in Lists[r] : ListOf(d.settings, k) = ListOf(c.settings, k) \o ListOf(v.settings, k)
  <2> SUFFICES ASSUME NEW k \in Lists[r]
               PROVE  ListOf(d.settings, k) = ListOf(c.settings, k) \o ListOf(v.settings, k)
    OBVIOUS
  <2>1. IsList(ListOf(c.settings, k)) /\ IsList(ListOf(v.settings, k))
    BY TypedList DEF Tells
  <2>2. /\ <<>> \o ListOf(v.settings, k) = ListOf(v.settings, k)
        /\ ListOf(c.settings, k) \o <<>> = ListOf(c.settings, k)
    BY <2>1, Concatenated
  <2>3. <<>> \o <<>> = <<>>
    OBVIOUS
  <2> QED BY <1>2, <2>2, <2>3 DEF mergeSettingsMap, mergeAny, ListOf
<1> HIDE DEF d, t, n
<1>4. IsRuleCfg(r, d)
  <2>1. \A k \in DOMAIN d.settings \cap Lists[r] : IsList(d.settings[k])
    <3> SUFFICES ASSUME NEW k \in DOMAIN d.settings \cap Lists[r] PROVE IsList(d.settings[k])
      OBVIOUS
    <3>1. d.settings[k] = ListOf(c.settings, k) \o ListOf(v.settings, k)
      BY <1>3 DEF ListOf
    <3>2. IsList(ListOf(c.settings, k)) /\ IsList(ListOf(v.settings, k))
      BY TypedList DEF Tells
    <3> QED BY <3>1, <3>2, Concatenated
  <2> QED BY <1>2, <2>1 DEF IsRuleCfg, IsList
<1>5. DOMAIN d.settings = UNION {DOMAIN t[i].value.settings : i \in 1..Len(t)}
  <2>1. 1..Len(t) = 1..n \cup {n + 1}
    BY <1>1
  <2>2. DOMAIN c.settings = UNION {DOMAIN steps[i].value.settings : i \in 1..n}
    BY DEF Tells, n
  <2>3. UNION {DOMAIN t[i].value.settings : i \in 1..Len(t)}
          = (UNION {DOMAIN t[i].value.settings : i \in 1..n}) \cup DOMAIN v.settings
    BY <1>1, <2>1
  <2>4. \A i \in 1..n : DOMAIN t[i].value.settings = DOMAIN steps[i].value.settings
    BY <1>1
  <2> QED BY <1>2, <2>2, <2>3, <2>4
<1>6. ASSUME NEW k \in Lists[r]
      PROVE  FlattenSeq(Shares(t, k)) = ListOf(d.settings, k)
  <2> DEFINE s == Shares(steps, k)
             x == ListOf(v.settings, k)
             T == Range(s) \cup {x}
  <2>1. Shares(t, k) = Append(s, x)
    BY <1>1 DEF Shares, ListOf, n
  <2>2. s \in Seq(T) /\ s # <<>> /\ x \in T
    BY <1>1 DEF Shares, Range, n
  <2> HIDE DEF s, x, T
  <2>3. FlattenSeq(Shares(t, k)) = FlattenSeq(s) \o x
    BY <2>1, <2>2, FlattenAppend
  <2>4. FlattenSeq(s) = ListOf(c.settings, k)
    BY DEF Tells, s
  <2> QED BY <1>3, <2>3, <2>4 DEF x
<1>7. ASSUME NEW k \in DOMAIN d.settings \ Lists[r]
      PROVE  \E i \in 1..Len(t) :
               LastSetter(t, k, i) /\ d.settings[k] = t[i].value.settings[k]
  <2>1. CASE k \in DOMAIN v.settings
    <3>1. d.settings[k] = v.settings[k]
      BY <1>2, <1>7, <2>1 DEF mergeSettingsMap, mergeAny
    <3>2. LastSetter(t, k, n + 1)
      BY <1>1, <2>1 DEF LastSetter
    <3> QED BY <1>1, <3>1, <3>2
  <2>2. CASE k \notin DOMAIN v.settings
    <3>1. k \in DOMAIN c.settings /\ d.settings[k] = c.settings[k]
      BY <1>2, <1>7, <2>2 DEF mergeSettingsMap
    <3>2. PICK i \in 1..n : LastSetter(steps, k, i) /\ c.settings[k] = steps[i].value.settings[k]
      BY <1>7, <3>1 DEF Tells, n
    <3>3. LastSetter(t, k, i)
      <4>1. \A j \in i + 1..Len(t) : j = n + 1 \/ j \in i + 1..n
        BY <1>1
      <4> QED BY <1>1, <2>2, <3>2, <4>1 DEF LastSetter, n
    <3> QED BY <1>1, <3>1, <3>2, <3>3
  <2> QED BY <2>1, <2>2
<1>8. d.enabled = t[Len(t)].value.enabled
  BY <1>1, <1>2
<1> QED BY <1>1, <1>4, <1>5, <1>6, <1>7, <1>8 DEF Tells, t, d

\* The first layer that sets the rule.
LEMMA TellsFirst ==
  ASSUME NEW r, NEW source, NEW v, IsRuleCfg(r, v)
  PROVE  Tells(r, <<[source |-> source, value |-> v]>>, v)
<1> DEFINE e == [source |-> source, value |-> v]
           t == <<e>>
<1>1. /\ Len(t) = 1 /\ t[1] = e /\ t[1].value = v /\ t \in Seq(Range(t))
      /\ 1..Len(t) = {1}
  BY DEF Range
<1> HIDE DEF t
<1>2. ASSUME NEW k PROVE Shares(t, k) = <<ListOf(v.settings, k)>>
  BY <1>1 DEF Shares, ListOf
<1>3. \A k \in Lists[r] : FlattenSeq(Shares(t, k)) = ListOf(v.settings, k)
  BY <1>2, FlattenOne
<1>4. \A k \in DOMAIN v.settings : LastSetter(t, k, 1)
  BY <1>1 DEF LastSetter
<1> QED BY <1>1, <1>3, <1>4 DEF Tells, t

\* Every rule's chain tells its configuration in the explanation.
Told ==
  /\ DOMAIN chain = DOMAIN final
  /\ \A r \in DOMAIN final : Tells(r, chain[r], final[r])

\* A layer of the explanation keeps that.
LEMMA ExplainKeeps ==
  ASSUME Told, NEW source, NEW layer, IsLayer(layer), Explain(source, layer)
  PROVE  Told'
<1>1. DOMAIN chain' = DOMAIN final' /\ DOMAIN final' = DOMAIN final \cup DOMAIN layer
  BY DEF Explain, Told, MergeLayer
<1>2. ASSUME NEW r \in DOMAIN final \cup DOMAIN layer
      PROVE  Tells(r, chain'[r], final'[r])
  <2>1. CASE r \notin DOMAIN layer
    <3>1. chain'[r] = chain[r] /\ final'[r] = final[r]
      BY <1>2, <2>1 DEF Explain, Told, MergeLayer
    <3> QED BY <2>1, <3>1 DEF Told
  <2>2. CASE r \in DOMAIN layer /\ r \in DOMAIN final
    <3>1. /\ chain'[r] = Append(chain[r], [source |-> source, value |-> layer[r]])
          /\ final'[r] = mergeRuleCfg(r, final[r], layer[r])
      BY <2>2 DEF Explain, Told, MergeLayer
    <3>2. Tells(r, chain[r], final[r]) /\ IsRuleCfg(r, layer[r])
      BY <2>2 DEF Told, IsLayer
    <3> QED BY <3>1, <3>2, TellsMore
  <2>3. CASE r \in DOMAIN layer /\ r \notin DOMAIN final
    <3>1. /\ chain'[r] = Append(<<>>, [source |-> source, value |-> layer[r]])
          /\ final'[r] = layer[r]
      BY <2>3 DEF Explain, Told, MergeLayer
    <3>2. chain'[r] = <<[source |-> source, value |-> layer[r]]>>
      BY <3>1
    <3>3. IsRuleCfg(r, layer[r])
      BY <2>3 DEF IsLayer
    <3> QED BY <3>1, <3>2, <3>3, TellsFirst
  <2> QED BY <1>2, <2>1, <2>2, <2>3
<1> QED BY <1>1, <1>2 DEF Told

\* The layers of a typed configuration have types.
LEMMA AddedIsTyped ==
  ASSUME NEW s, NEW k \in {Sources, Patterns}, NEW entry,
         \A j \in DOMAIN s \cap Lists[Structure] : IsList(s[j])
  PROVE  \A j \in DOMAIN Added(s, k, entry) \cap Lists[Structure] : IsList(Added(s, k, entry)[j])
<1>1. IsList(<<entry>>)
  <2>1. <<entry>> \in Seq({entry})
    OBVIOUS
  <2> QED BY <2>1, OverItsRange DEF IsList
<1>2. k \in Lists[Structure]
  BY KindListsAppend
<1>3. k \in DOMAIN s => IsList(s[k] \o <<entry>>)
  BY <1>1, <1>2, Concatenated
<1> QED BY <1>1, <1>3 DEF Added

LEMMA TranslatedIsTyped ==
  ASSUME NEW layer, IsLayer(layer)
  PROVE  IsLayer(translateLayerRules(layer)) /\ DOMAIN translateLayerRules(layer) = DOMAIN layer
<1>1. ASSUME NEW r \in DOMAIN layer
      PROVE  IsRuleCfg(r, translateLayerSettings(r, layer[r]))
  <2> DEFINE c == layer[r]
             s == c.settings
             u == TranslateLayerSettings(s)
  <2>1. IsRuleCfg(r, c)
    BY DEF IsLayer
  <2>2. CASE r # Structure
    BY <2>1, <2>2 DEF translateLayerSettings
  <2>3. CASE r = Structure
    <3>1. \A j \in DOMAIN s \cap Lists[Structure] : IsList(s[j])
      BY <2>1, <2>3 DEF IsRuleCfg, IsList
    <3> DEFINE rest == [k \in DOMAIN s \ {"schema", "inline-schema"} |-> s[k]]
    <3>2. \A j \in DOMAIN rest \cap Lists[Structure] : IsList(rest[j])
      BY <3>1
    <3>3. u \in {s, rest} \/ \E x : u = Added(rest, Sources, x)
      BY DEF TranslateLayerSettings
    <3> HIDE DEF rest, s, u
    <3>4. \A j \in DOMAIN u \cap Lists[Structure] : IsList(u[j])
      BY <3>1, <3>2, <3>3, AddedIsTyped
    <3>5. c = [enabled |-> c.enabled, settings |-> s] /\ c.enabled \in BOOLEAN
      BY <2>1 DEF IsRuleCfg, s
    <3>6. translateLayerSettings(r, c) = [enabled |-> c.enabled, settings |-> u]
      BY <2>3, <3>5 DEF translateLayerSettings, u, s
    <3> HIDE DEF c
    <3>7. IsRuleCfg(r, translateLayerSettings(r, c))
      BY <2>3, <3>4, <3>5, <3>6 DEF IsRuleCfg, IsList
    <3> QED BY <3>7 DEF c
  <2> QED BY <2>2, <2>3
<1> QED BY <1>1 DEF translateLayerRules, IsLayer

LEMMA InjectedIsTyped ==
  ASSUME NEW layer, IsLayer(layer), NEW k \in {Sources, Patterns}, NEW entry
  PROVE  IsLayer(Inject(layer, k, entry))
<1> DEFINE s == SettingsOf(layer)
           c == [enabled |-> TRUE, settings |-> Added(s, k, entry)]
<1>1. \A j \in DOMAIN s \cap Lists[Structure] : IsList(s[j])
  BY DEF SettingsOf, NoSettings, IsLayer, IsRuleCfg, IsList
<1>2. \A j \in DOMAIN c.settings \cap Lists[Structure] : IsList(c.settings[j])
  <2> HIDE DEF s
  <2> QED BY <1>1, AddedIsTyped
<1>3. IsRuleCfg(Structure, c)
  <2>1. c.enabled \in BOOLEAN /\ c = [enabled |-> c.enabled, settings |-> c.settings]
    OBVIOUS
  <2> HIDE DEF c
  <2> QED BY <1>2, <2>1 DEF IsRuleCfg, IsList
<1>4. Inject(layer, k, entry)
        = [r \in DOMAIN layer \cup {Structure} |-> IF r = Structure THEN c ELSE layer[r]]
  BY DEF Inject, SettingsOf
<1> HIDE DEF c
<1> QED BY <1>3, <1>4 DEF IsLayer

LEMMA KindIsTyped ==
  ASSUME NEW n, NEW b, IsLayer(b.rules)
  PROVE  IsLayer(kindLayerRules(n, b)) /\ DOMAIN kindLayerRules(n, b) = kindExplicit(b)
<1> DEFINE own == translateLayerRules(b.rules)
           s   == IF b.schema = Unset THEN own ELSE applyInlineSchemaSource(own, b.schema)
<1>1. IsLayer(own) /\ DOMAIN own = DOMAIN b.rules
  BY TranslatedIsTyped
<1> HIDE DEF own
<1>2. IsLayer(s)
  BY <1>1, InjectedIsTyped DEF applyInlineSchemaSource
<1>3. DOMAIN s = DOMAIN own \cup (IF b.schema = Unset THEN {} ELSE {Structure})
  BY DEF applyInlineSchemaSource, Inject
<1>4. kindLayerRules(n, b) = IF b.pattern = Unset THEN s ELSE applyPathPattern(s, n, b.pattern)
  BY DEF kindLayerRules, own
<1> HIDE DEF s
<1>5. IsLayer(kindLayerRules(n, b))
  BY <1>2, <1>4, InjectedIsTyped DEF applyPathPattern
<1>6. DOMAIN kindLayerRules(n, b) = DOMAIN s \cup (IF b.pattern = Unset THEN {} ELSE {Structure})
  BY <1>4 DEF applyPathPattern, Inject
<1> QED BY <1>1, <1>3, <1>5, <1>6 DEF kindExplicit, Injects

\* The configuration the walk reads has types.
Typed ==
  /\ stage = "start" => cfg \in Loaded
  /\ stage # "start" => HasTypes(cfg)
  /\ stage \notin {"start", "refused"} => cfg.explicit \subseteq DOMAIN cfg.rules

LEMMA TypedStep == Typed /\ [Next]_vars => Typed'
<1> SUFFICES ASSUME Typed, [Next]_vars PROVE Typed'
  OBVIOUS
<1>1. CASE Load
  <2>1. cfg \in Loaded /\ HasTypes(cfg) /\ stage' # "start"
    BY <1>1, ConfigTypes DEF Load, Typed
  <2>2. HasTypes(Merge(cfg))
    <3>1. IsLayer(Merge(cfg).rules)
      BY <2>1, ConfigTypes DEF HasTypes, IsLayer, Merge
    <3>2. IsLayer(Merge(cfg).preset)
      BY <2>1 DEF HasTypes, IsLayer, Merge, ConventionPreset, NoRules
    <3>3. /\ Merge(cfg).categories = cfg.categories /\ Merge(cfg).kinds = cfg.kinds
          /\ Merge(cfg).overrides = cfg.overrides
      BY DEF Merge
    <3> QED BY <2>1, <3>1, <3>2, <3>3 DEF HasTypes
  <2>3. Merge(cfg).explicit \subseteq DOMAIN Merge(cfg).rules
    BY DEF Merge
  <2> QED BY <1>1, <2>1, <2>2, <2>3 DEF Load, Typed
<1>2. CASE ~Load
  <2>1. UNCHANGED vars \/ (UNCHANGED cfg /\ stage \notin {"start", "refused"} /\ stage' # "start")
    BY <1>2 DEF Next, ResolveKinds, TakeConvention, TakeUser, TakeKind, KindsTaken, TakeOverride,
                ApplyCategories
  <2> QED BY <2>1 DEF Typed, vars
<1> QED BY <1>1, <1>2

LEMMA ToldStep == Typed /\ Told /\ [Next]_vars => Told'
<1> SUFFICES ASSUME Typed, Told, [Next]_vars PROVE Told'
  OBVIOUS
<1>1. CASE UNCHANGED <<chain, final>>
  BY <1>1 DEF Told
<1>2. CASE ResolveKinds
  <2>1. IsLayer(splitRulesByExplicit(cfg).defaults)
    BY <1>2 DEF ResolveKinds, Typed, HasTypes, IsLayer, splitRulesByExplicit, Only
  <2> QED BY <1>1, <1>2, <2>1, TranslatedIsTyped, ExplainKeeps DEF ResolveKinds
<1>3. CASE TakeConvention
  <2>1. IsLayer(cfg.preset)
    BY <1>3 DEF TakeConvention, Typed, HasTypes
  <2> QED BY <1>3, <2>1, TranslatedIsTyped, ExplainKeeps DEF TakeConvention
<1>4. CASE TakeUser
  <2>1. IsLayer(splitRulesByExplicit(cfg).user)
    BY <1>4 DEF TakeUser, Typed, HasTypes, IsLayer, splitRulesByExplicit, Only
  <2> QED BY <1>4, <2>1, TranslatedIsTyped, ExplainKeeps DEF TakeUser
<1>5. CASE TakeKind
  <2>1. CASE kinds[pos] \in DOMAIN cfg.kinds
    <3>1. IsLayer(Body(cfg, kinds[pos]).rules)
      BY <1>5, <2>1 DEF TakeKind, Typed, HasTypes, Body
    <3>2. Explain([layer |-> "kind", name |-> kinds[pos]],
                  kindLayerRules(kinds[pos], Body(cfg, kinds[pos])))
      BY <1>5, <2>1 DEF TakeKind
    <3> QED BY <3>1, <3>2, KindIsTyped, ExplainKeeps
  <2>2. CASE kinds[pos] \notin DOMAIN cfg.kinds
    BY <1>1, <1>5, <2>2 DEF TakeKind
  <2> QED BY <2>1, <2>2
<1>6. CASE TakeOverride
  <2>1. IsLayer(cfg.overrides[pos].rules)
    BY <1>6 DEF TakeOverride, Typed, HasTypes
  <2>2. \/ UNCHANGED <<chain, final>>
        \/ Explain([layer |-> "override", name |-> pos], translateLayerRules(cfg.overrides[pos].rules))
    BY <1>6 DEF TakeOverride
  <2> QED BY <1>1, <2>1, <2>2, TranslatedIsTyped, ExplainKeeps
<1> QED BY <1>1, <1>2, <1>3, <1>4, <1>5, <1>6
        DEF Next, Load, KindsTaken, ApplyCategories, vars

LEMMA ToldInvariant == Spec => [](Typed /\ Told)
<1>1. Init => Typed /\ Told
  BY DEF Init, Typed, Told, NoRules
<1> QED BY <1>1, TypedStep, ToldStep, PTL DEF Spec

\* `kinds resolve` and `--explain` tell why a rule runs as it does: every setting of it,
\* and whether it is on, follows from the layers they list, in their order.
THEOREM ChainsTellTheValue == Spec => []ChainTellsTheValue
<1>1. IInv /\ Told => ChainTellsTheValue
  <2> SUFFICES ASSUME IInv, Told, NEW r \in DOMAIN effective
               PROVE  /\ (r = Structure => ~Overrules) =>
                           effective[r].enabled = chain[r][Len(chain[r])].value.enabled
                      /\ DOMAIN effective[r].settings =
                           UNION {DOMAIN chain[r][i].value.settings : i \in 1..Len(chain[r])}
                      /\ \A k \in DOMAIN effective[r].settings :
                           IF k \in Lists[r]
                           THEN effective[r].settings[k] = FlattenSeq(Shares(chain[r], k))
                           ELSE \E i \in 1..Len(chain[r]) :
                                  /\ LastSetter(chain[r], k, i)
                                  /\ effective[r].settings[k] = chain[r][i].value.settings[k]
    BY DEF ChainTellsTheValue
  <2>1. /\ Tells(r, chain[r], final[r])
        /\ final[r].settings = effective[r].settings
        /\ (r = Structure => ~Overrules) => final[r].enabled = effective[r].enabled
    BY DEF IInv, Agreed, SameSettings, Told
  <2> QED BY <2>1 DEF Tells, ListOf
<1> QED BY <1>1, InitHolds, NextKeeps, ToldInvariant, PTL DEF Spec

-----------------------------------------------------------------------------
(* Categories *)

\* A rule is on or off.
Switched(rs) ==
  \A r \in DOMAIN rs : rs[r] = [enabled |-> rs[r].enabled, settings |-> rs[r].settings]
                        /\ rs[r].enabled \in BOOLEAN

LEMMA SwitchedStep == Typed /\ Switched(effective) /\ [Next]_vars => Switched(effective')
<1> SUFFICES ASSUME Typed, Switched(effective), [Next]_vars PROVE Switched(effective')
  OBVIOUS
<1>1. ASSUME NEW layer, IsLayer(layer)
      PROVE  Switched(translateLayerRules(layer))
  BY <1>1, TranslatedIsTyped DEF Switched, IsLayer, IsRuleCfg
<1>2. ASSUME NEW e, Switched(e), NEW l, Switched(l)
      PROVE  Switched(MergeLayer(e, l))
  BY <1>2 DEF Switched, MergeLayer, mergeRuleCfg
<1>3. ASSUME NEW e, Switched(e), NEW k, NEW entry
      PROVE  Switched(Inject(e, k, entry))
  BY <1>3 DEF Switched, Inject
<1>4. CASE ResolveKinds
  <2>1. IsLayer(splitRulesByExplicit(cfg).defaults)
    BY <1>4 DEF ResolveKinds, Typed, HasTypes, IsLayer, splitRulesByExplicit, Only
  <2> QED BY <1>1, <1>4, <2>1 DEF ResolveKinds
<1>5. CASE TakeConvention
  <2>1. IsLayer(cfg.preset)
    BY <1>5 DEF TakeConvention, Typed, HasTypes
  <2> QED BY <1>1, <1>2, <1>5, <2>1 DEF TakeConvention
<1>6. CASE TakeUser
  <2>1. IsLayer(splitRulesByExplicit(cfg).user)
    BY <1>6 DEF TakeUser, Typed, HasTypes, IsLayer, splitRulesByExplicit, Only
  <2> QED BY <1>1, <1>2, <1>6, <2>1 DEF TakeUser
<1>7. CASE TakeKind
  <2>1. CASE kinds[pos] \in DOMAIN cfg.kinds
    <3> DEFINE b == Body(cfg, kinds[pos])
               s == IF b.schema = Unset THEN effective
                    ELSE applyInlineSchemaSource(effective, b.schema)
               t == IF b.pattern = Unset THEN s ELSE applyPathPattern(s, kinds[pos], b.pattern)
    <3>1. IsLayer(b.rules)
      BY <1>7, <2>1 DEF TakeKind, Typed, HasTypes, Body
    <3>2. Switched(s)
      BY <1>3 DEF applyInlineSchemaSource
    <3>3. Switched(t)
      <4> HIDE DEF s
      <4> QED BY <1>3, <3>2 DEF applyPathPattern
    <3>4. effective' = MergeLayer(t, translateLayerRules(b.rules))
      BY <1>7, <2>1 DEF TakeKind, applyKind
    <3> HIDE DEF t, b
    <3> QED BY <1>1, <1>2, <3>1, <3>3, <3>4
  <2>2. CASE kinds[pos] \notin DOMAIN cfg.kinds
    BY <1>7, <2>2 DEF TakeKind
  <2> QED BY <2>1, <2>2
<1>8. CASE TakeOverride
  <2>1. IsLayer(cfg.overrides[pos].rules)
    BY <1>8 DEF TakeOverride, Typed, HasTypes
  <2> QED BY <1>1, <1>2, <1>8, <2>1 DEF TakeOverride
<1> QED BY <1>4, <1>5, <1>6, <1>7, <1>8 DEF Next, Load, KindsTaken, ApplyCategories, vars

Named(r) == \E i \in 1..Len(chain[r]) : ByUser(chain[r][i])

\* What effectiveExplicit has collected is what the chains show, once the user's rules
\* are laid down; before that it is what the user's rules will be.
Spared ==
  /\ stage \in {"start", "kinds"} => DOMAIN chain = {}
  /\ stage \in {"convention", "user"} =>
       explicit = cfg.explicit /\ \A r \in DOMAIN chain : ~Named(r)
  /\ stage \in {"kind", "override", "done"} =>
       \A r \in DOMAIN chain : r \in explicit <=> Named(r)
  /\ stage \in {"convention", "user", "kind", "override", "done"} =>
       /\ IsCategories(categories)
       /\ \A r \in DOMAIN Category : Category[r] \in DOMAIN categories
  /\ CategoriesSpareTheUser

\* A layer names the rules it sets, if it is the user's.
LEMMA NamedStep ==
  ASSUME Told, NEW source, NEW layer, Explain(source, layer), NEW r \in DOMAIN chain'
  PROVE  Named(r)' <=> \/ r \in DOMAIN chain /\ Named(r)
                       \/ r \in DOMAIN layer /\ source.layer \notin {"default", "convention"}
<1> DEFINE e == [source |-> source, value |-> layer[r]]
<1>1. CASE r \notin DOMAIN layer
  <2>1. r \in DOMAIN chain /\ chain'[r] = chain[r]
    BY <1>1 DEF Explain
  <2> QED BY <1>1, <2>1 DEF Named
<1>2. CASE r \in DOMAIN layer /\ r \in DOMAIN chain
  <2>1. chain'[r] = Append(chain[r], e)
    BY <1>2 DEF Explain
  <2>2. chain[r] \in Seq(Range(chain[r]) \cup {e})
    BY <1>2 DEF Told, Tells
  <2>3. /\ Len(chain[r]) \in Nat
        /\ 1..Len(chain'[r]) = 1..Len(chain[r]) \cup {Len(chain[r]) + 1}
        /\ \A i \in 1..Len(chain[r]) : chain'[r][i] = chain[r][i]
        /\ chain'[r][Len(chain[r]) + 1] = e
    BY <2>1, <2>2
  <2> QED BY <1>2, <2>3 DEF Named, ByUser
<1>3. CASE r \in DOMAIN layer /\ r \notin DOMAIN chain
  <2>1. chain'[r] = Append(<<>>, e)
    BY <1>3 DEF Explain
  <2>2. 1..Len(chain'[r]) = {1} /\ chain'[r][1] = e
    BY <2>1
  <2> QED BY <1>3, <2>2 DEF Named, ByUser
<1> QED BY <1>1, <1>2, <1>3 DEF Explain

LEMMA CategoriesMerge ==
  ASSUME NEW base, IsCategories(base), NEW over, IsCategories(over)
  PROVE  IsCategories(mergeCategories(base, over)) /\ DOMAIN base \subseteq DOMAIN mergeCategories(base, over)
BY DEF IsCategories, mergeCategories

\* A layer of the user's, once the user's rules are laid down.
LEMMA UserLayer ==
  ASSUME Typed, Told, Spared, stage \in {"kind", "override"}, UNCHANGED <<stage, rules>>,
         NEW source, NEW layer, Explain(source, layer),
         source.layer \notin {"default", "convention"},
         explicit' = explicit \cup DOMAIN layer,
         NEW over, IsCategories(over), categories' = mergeCategories(categories, over)
  PROVE  Spared'
<1>1. \A r \in DOMAIN chain' : r \in explicit' <=> Named(r)'
  <2>1. DOMAIN chain' = DOMAIN chain \cup DOMAIN layer
    BY DEF Explain
  <2> QED BY <2>1, NamedStep DEF Spared
<1>2. /\ IsCategories(categories')
      /\ \A r \in DOMAIN Category : Category[r] \in DOMAIN categories'
  BY CategoriesMerge DEF Spared
<1>3. CategoriesSpareTheUser'
  BY DEF CategoriesSpareTheUser
<1> QED BY <1>1, <1>2, <1>3 DEF Spared

LEMMA SparedStep ==
  Typed /\ Told /\ SameSettings(effective, final) /\ Switched(effective) /\ Spared /\ [Next]_vars => Spared'
<1> SUFFICES ASSUME Typed, Told, SameSettings(effective, final), Switched(effective), Spared,
                    [Next]_vars
             PROVE  Spared'
  OBVIOUS
<1>1. CASE Load
  <2>1. UNCHANGED <<explicit, categories, chain, rules>> /\ stage = "start" /\ stage' \in {"kinds", "refused"}
    BY <1>1 DEF Load
  <2> QED BY <2>1 DEF Spared, CategoriesSpareTheUser
<1>2. CASE ResolveKinds
  <2>1. CASE ValidateFrontMatterKinds
    <3> DEFINE layer == translateLayerRules(splitRulesByExplicit(cfg).defaults)
               first == [k \in {Category[r] : r \in DOMAIN Category} |-> TRUE]
    <3>1. /\ stage = "kinds" /\ stage' = "convention" /\ UNCHANGED cfg
          /\ Explain([layer |-> "default"], layer) /\ explicit' = cfg.explicit
          /\ categories' = mergeCategories(first, cfg.categories)
      BY <1>2, <2>1 DEF ResolveKinds
    <3>2. \A r \in DOMAIN chain' : ~Named(r)'
      <4>1. DOMAIN chain = {}
        BY <3>1 DEF Spared
      <4> HIDE DEF layer
      <4> QED BY <3>1, <4>1, NamedStep
    <3>3. IsCategories(first) /\ IsCategories(cfg.categories)
      BY <3>1 DEF IsCategories, Typed, HasTypes
    <3>4. \A r \in DOMAIN Category : Category[r] \in DOMAIN first
      OBVIOUS
    <3> HIDE DEF first
    <3>5. IsCategories(categories') /\ DOMAIN first \subseteq DOMAIN categories'
      BY <3>1, <3>3, CategoriesMerge
    <3> QED BY <3>1, <3>2, <3>4, <3>5 DEF Spared, CategoriesSpareTheUser
  <2>2. CASE ~ValidateFrontMatterKinds
    BY <1>2, <2>2 DEF ResolveKinds, Spared, CategoriesSpareTheUser
  <2> QED BY <2>1, <2>2
<1>3. CASE TakeConvention
  <2> DEFINE layer == translateLayerRules(cfg.preset)
  <2>1. /\ stage = "convention" /\ stage' = "user" /\ UNCHANGED <<cfg, explicit, categories>>
        /\ Explain([layer |-> "convention"], layer)
    BY <1>3 DEF TakeConvention
  <2> HIDE DEF layer
  <2>2. \A r \in DOMAIN chain' : ~Named(r)'
    BY <2>1, NamedStep DEF Spared
  <2> QED BY <2>1, <2>2 DEF Spared, CategoriesSpareTheUser
<1>4. CASE TakeUser
  <2> DEFINE layer == translateLayerRules(splitRulesByExplicit(cfg).user)
  <2>1. /\ stage = "user" /\ stage' = "kind" /\ UNCHANGED <<cfg, explicit, categories>>
        /\ Explain([layer |-> "user"], layer)
    BY <1>4 DEF TakeUser
  <2>2. DOMAIN layer = cfg.explicit
    BY DEF translateLayerRules, splitRulesByExplicit, Only
  <2> HIDE DEF layer
  <2>3. \A r \in DOMAIN chain' : r \in explicit' <=> Named(r)'
    <3>1. DOMAIN chain' = DOMAIN chain \cup DOMAIN layer
      BY <2>1 DEF Explain
    <3> QED BY <2>1, <2>2, <3>1, NamedStep DEF Spared
  <2> QED BY <2>1, <2>3 DEF Spared, CategoriesSpareTheUser
<1>5. CASE TakeKind
  <2>1. CASE kinds[pos] \in DOMAIN cfg.kinds
    <3> DEFINE b == Body(cfg, kinds[pos])
               layer == kindLayerRules(kinds[pos], b)
    <3>1. /\ stage = "kind" /\ UNCHANGED <<stage, rules>>
          /\ Explain([layer |-> "kind", name |-> kinds[pos]], layer)
          /\ explicit' = explicit \cup kindExplicit(b)
          /\ categories' = mergeCategories(categories, b.categories)
      BY <1>5, <2>1 DEF TakeKind
    <3>2. IsLayer(b.rules) /\ IsCategories(b.categories)
      BY <2>1, <3>1 DEF Typed, HasTypes, Body
    <3> HIDE DEF b
    <3>3. DOMAIN layer = kindExplicit(b)
      BY <3>2, KindIsTyped
    <3> HIDE DEF layer
    <3> QED BY <3>1, <3>2, <3>3, UserLayer
  <2>2. CASE kinds[pos] \notin DOMAIN cfg.kinds
    BY <1>5, <2>2 DEF TakeKind, Spared, Named, CategoriesSpareTheUser
  <2> QED BY <2>1, <2>2
<1>6. CASE KindsTaken
  BY <1>6 DEF KindsTaken, Spared, Named, CategoriesSpareTheUser
<1>7. CASE TakeOverride
  <2> DEFINE o == cfg.overrides[pos]
             layer == translateLayerRules(o.rules)
  <2>1. CASE file.path \in o.glob
    <3>1. /\ stage = "override" /\ UNCHANGED <<stage, rules>>
          /\ Explain([layer |-> "override", name |-> pos], layer)
          /\ explicit' = explicit \cup DOMAIN o.rules
          /\ categories' = mergeCategories(categories, o.categories)
      BY <1>7, <2>1 DEF TakeOverride
    <3>2. IsCategories(o.categories)
      BY <1>7 DEF TakeOverride, Typed, HasTypes
    <3>3. DOMAIN layer = DOMAIN o.rules
      BY DEF translateLayerRules
    <3> HIDE DEF o, layer
    <3> QED BY <3>1, <3>2, <3>3, UserLayer
  <2>2. CASE file.path \notin o.glob
    BY <1>7, <2>2 DEF TakeOverride, Spared, Named, CategoriesSpareTheUser
  <2> QED BY <2>1, <2>2
<1>8. CASE ApplyCategories
  <2>1. /\ stage = "override" /\ stage' = "done"
        /\ UNCHANGED <<effective, explicit, categories, chain>>
        /\ rules' = [r \in DOMAIN effective |->
                       IF r \in DOMAIN Category /\ Category[r] \in DOMAIN categories
                          /\ ~categories[Category[r]] /\ r \notin explicit
                       THEN [effective[r] EXCEPT !.enabled = FALSE] ELSE effective[r]]
    BY <1>8 DEF ApplyCategories
  <2>2. ASSUME NEW r \in DOMAIN rules'
        PROVE  rules'[r].enabled = /\ effective[r].enabled
                                   /\ \/ r \notin DOMAIN Category
                                      \/ categories[Category[r]]
                                      \/ Named(r)
    <3>1. /\ r \in DOMAIN effective /\ r \in DOMAIN chain
          /\ r \in explicit <=> Named(r)
      BY <2>1, <2>2 DEF Told, SameSettings, Spared
    <3>2. /\ effective[r] = [enabled |-> effective[r].enabled, settings |-> effective[r].settings]
          /\ effective[r].enabled \in BOOLEAN
      BY <3>1 DEF Switched
    <3>3. [effective[r] EXCEPT !.enabled = FALSE].enabled = FALSE
      BY <3>2
    <3>4. r \in DOMAIN Category =>
            Category[r] \in DOMAIN categories /\ categories[Category[r]] \in BOOLEAN
      BY <2>1 DEF Spared, IsCategories
    <3>5. CASE r \in DOMAIN Category /\ ~categories[Category[r]] /\ r \notin explicit
      <4>1. rules'[r].enabled = FALSE
        BY <2>1, <3>1, <3>3, <3>4, <3>5
      <4> QED BY <3>1, <3>5, <4>1
    <3>6. CASE ~(r \in DOMAIN Category /\ ~categories[Category[r]] /\ r \notin explicit)
      <4>1. rules'[r] = effective[r]
        BY <2>1, <3>1, <3>6
      <4> QED BY <3>1, <3>2, <3>6, <4>1
    <3> QED BY <3>5, <3>6
  <2>3. CategoriesSpareTheUser'
    <3> SUFFICES ASSUME NEW r \in DOMAIN rules'
                 PROVE  rules'[r].enabled =
                          /\ effective'[r].enabled
                          /\ \/ r \notin DOMAIN Category
                             \/ categories'[Category[r]]
                             \/ \E i \in 1..Len(chain'[r]) : ByUser(chain'[r][i])
      BY DEF CategoriesSpareTheUser
    <3>1. effective' = effective /\ categories' = categories /\ chain' = chain
      BY <2>1
    <3>2. rules'[r].enabled = /\ effective[r].enabled
                              /\ \/ r \notin DOMAIN Category
                                 \/ categories[Category[r]]
                                 \/ Named(r)
      BY <2>2
    <3> QED BY <3>1, <3>2 DEF Named
  <2> QED BY <2>1, <2>3 DEF Spared, Named
<1>9. CASE UNCHANGED vars
  BY <1>9 DEF vars, Spared, Named, CategoriesSpareTheUser
<1> QED BY <1>1, <1>2, <1>3, <1>4, <1>5, <1>6, <1>7, <1>8, <1>9 DEF Next

\* A category that is off spares exactly the rules the user named, in whichever layer: what
\* effectiveExplicit collects beside the walk is what the walk's own layers show.
THEOREM TheUserIsSpared == Spec => []CategoriesSpareTheUser
<1>1. Init => Switched(effective) /\ Spared
  BY DEF Init, Switched, Spared, CategoriesSpareTheUser, NoRules
<1>2. IInv => SameSettings(effective, final)
  BY DEF IInv, Agreed
<1>3. Typed /\ Told /\ IInv /\ Switched(effective) /\ Spared /\ [Next]_vars
        => (Switched(effective) /\ Spared)'
  BY <1>2, SwitchedStep, SparedStep
<1>4. Spared => CategoriesSpareTheUser
  BY DEF Spared
<1> QED BY <1>1, <1>3, <1>4, InitHolds, NextKeeps, ToldInvariant, PTL DEF Spec
===============================================================================
