---------------------------- MODULE SchemaMatch ----------------------------
(***************************************************************************)
(* The heading matcher of internal/schema/validate.go: how a list of       *)
(* scopes is walked against the headings of a document, and the second     *)
(* walk (ScopeRunIndices) the content checks and the extraction use.       *)
(*                                                                         *)
(* A scope is a record                                                     *)
(*   [heading, texts, field, any, preamble, min, max, sequential, closed,  *)
(*    sections, content, rules]                                            *)
(* where texts are the heading texts its regex matches (of a scope that    *)
(* names a field of the front matter: once it is resolved), any says that  *)
(* the regex is ".+", max = 0 is "unbounded", and rules are the settings   *)
(* its section overrides.  A heading is a record [level, text, digits,     *)
(* line]; digits is what {digits} captures in it.                          *)
(***************************************************************************)
EXTENDS Integers, Sequences, SequencesExt

IsBroad(sc) == sc.any /\ ~sc.preamble
IsSlot(sc) == IsBroad(sc) /\ sc.min = 0 /\ sc.max = 0
Required(sc) == sc.min > 0

\* matchHeading, and scopeMatchesHeading, which no slot and no preamble passes
MatchHeading(sc, h) == ~sc.preamble /\ (sc.any \/ h.text \in sc.texts)
ScopeMatches(sc, h) == MatchHeading(sc, h) /\ ~IsSlot(sc)

SkipBelow(heads, root) == SelectSeq(heads, LAMBDA h : h.level >= root)

First(S) == IF S = {} THEN 0 ELSE CHOOSE i \in S : \A j \in S : i <= j

\* The scopes of the list from index i on that claim heading h.
Claimants(scopes, i, h, claimed) ==
  {j \in i .. Len(scopes) : j \notin claimed /\ ScopeMatches(scopes[j], h)}
ClaimsLaterLiteral(scopes, i, h, claimed) ==
  \E j \in Claimants(scopes, i, h, claimed) : ~IsBroad(scopes[j])
\* Mutant: an optional scope does not yield to a broad one behind it.
AnyLaterScopeClaims_LiteralOnly(scopes, i, h, claimed) == ClaimsLaterLiteral(scopes, i, h, claimed)
AnyLaterScopeClaims(scopes, i, h, claimed) ==
  Claimants(scopes, i, h, claimed) # {}
UnclaimedListed(scopes, h, claimed) == First(Claimants(scopes, 1, h, claimed))
FindOutOfOrder(scopes, i, h, claimed) == First(Claimants(scopes, i, h, claimed))
ClaimedMatch(scopes, h, claimed) ==
  First({j \in claimed : ScopeMatches(scopes[j], h)})

Sequential(digits) ==
  \A k \in 1 .. Len(digits) - 1 : digits[k + 1] = digits[k] + 1

-----------------------------------------------------------------------------
(***************************************************************************)
(* validateScopes.  e is what the walk of one list is about: [scopes,      *)
(* closed, level, heads, path].  w is how far it got: [at, diags, claimed, *)
(* counts, allow, pairs]; pairs is a history variable of the in-order      *)
(* claims, <<path of the scope, line of the heading>>.                     *)
(***************************************************************************)
Flag(w, kind, line) == [w EXCEPT !.diags = @ \union {<<kind, line>>}]
FlagIf(w, cond, kind, line) == IF cond THEN Flag(w, kind, line) ELSE w
Skip(w) == [w EXCEPT !.at = @ + 1]
CountClaim(w, i) == [w EXCEPT !.claimed = @ \union {i}, !.counts[i] = @ + 1]

RECURSIVE ValidateScopes(_, _)

\* The children of scope i, walked from w.at on at the next level.
Descend(e, i, w) ==
  IF e.scopes[i].sections = <<>> THEN w
  ELSE LET sc == e.scopes[i]
           sub == ValidateScopes([e EXCEPT !.scopes = sc.sections, !.closed = sc.closed,
                                           !.level = @ + 1, !.path = Append(@, i)], w.at)
       IN [w EXCEPT !.at = sub.at, !.diags = @ \union sub.diags,
                    !.pairs = @ \union sub.pairs]

LevelDiag(e, w, h) == FlagIf(w, h.level # e.level, "level", h.line)

\* Run r of scope i: [w, consumed, digits, done].
ClaimMatch(e, i, r) ==
  LET h == e.heads[r.w.at]
      here == [CountClaim(LevelDiag(e, r.w, h), i) EXCEPT
                 !.pairs = @ \union {<<Append(e.path, i), h.line>>}]
  IN [r EXCEPT !.w = Descend(e, i, Skip(here)), !.consumed = @ + 1,
               !.digits = IF h.digits = 0 THEN @ ELSE Append(@, h.digits)]

\* countMatchingRun: deeper headings are passed over, anything else ends it.
MatchingRun(e, i, at) ==
  LET Ends(k) == \/ e.heads[k].level < e.level
                 \/ e.heads[k].level = e.level /\ ~MatchHeading(e.scopes[i], e.heads[k])
      last == First({k \in at .. Len(e.heads) : Ends(k)})
      stop == IF last = 0 THEN Len(e.heads) ELSE last - 1
  IN Len(SelectSeq(SubSeq(e.heads, at, stop), LAMBDA h : h.level = e.level))

ClaimOutOfOrder(e, i, w) ==
  LET h == e.heads[w.at]
      sc == e.scopes[i]
      flagged == Flag(LevelDiag(e, w, h), "order", h.line)
      counted == FlagIf(flagged, MatchingRun(e, i, w.at) < sc.min, "too few", h.line)
      claimed == CountClaim(FlagIf(counted, sc.sequential, "sequential", h.line), i)
  IN Descend(e, i, Skip(claimed))

ClaimLate(e, i, w) ==
  Descend(e, i, Skip(CountClaim(Flag(w, "order", e.heads[w.at].line), i)))

\* A heading that matches scope j, which is claimed: one more of it, or too many.
Recount(e, j, w) == [w EXCEPT !.counts[j] = @ + 1]
Exceeds(e, j, w) == e.scopes[j].max > 0 /\ w.counts[j] + 1 > e.scopes[j].max
ClaimedAgain(e, j, w) ==
  Skip(Flag(Recount(e, j, w), IF Exceeds(e, j, w) THEN "exceeds" ELSE "order", e.heads[w.at].line))

HandleNonMatch(e, i, w) ==
  LET h == e.heads[w.at]
      later == FindOutOfOrder(e.scopes, i + 1, h, w.claimed)
      again == ClaimedMatch(e.scopes, h, w.claimed)
  IN IF later # 0 THEN ClaimOutOfOrder(e, later, w)
     ELSE IF again # 0
     THEN IF ~Exceeds(e, again, w) /\ again >= i
          THEN Descend(e, again, Skip(Recount(e, again, w)))
          ELSE ClaimedAgain(e, again, w)
     ELSE Skip(FlagIf(w, ~w.allow /\ e.closed, "unexpected", h.line))

Stop(r) == [r EXCEPT !.done = TRUE]
Move(r, w) == [r EXCEPT !.w = w]

RunStep(e, i, r) ==
  LET sc == e.scopes[i]
      h == e.heads[r.w.at]
      matched == MatchHeading(sc, h)
      yields == /\ IsBroad(sc) \/ r.consumed >= sc.min
                /\ ClaimsLaterLiteral(e.scopes, i + 1, h, r.w.claimed)
  IN CASE h.level < e.level ->
            IF matched /\ ~IsBroad(sc) THEN ClaimMatch(e, i, r) ELSE Stop(r)
       [] h.level >= e.level /\ matched ->
            IF yields THEN Stop(r) ELSE ClaimMatch(e, i, r)
       [] h.level > e.level /\ ~matched -> Move(r, Skip(r.w))
       [] h.level = e.level /\ ~matched ->
            IF r.consumed > 0 THEN Stop(r)
            ELSE IF sc.min > 0 THEN Move(r, HandleNonMatch(e, i, r.w))
            ELSE IF AnyLaterScopeClaims(e.scopes, i + 1, h, r.w.claimed) THEN Stop(r)
            ELSE Move(r, Skip(FlagIf(r.w, ~r.w.allow /\ e.closed, "unexpected", h.line)))

RECURSIVE MatchRun(_, _, _)
MatchRun(e, i, r) ==
  IF \/ r.done
     \/ r.w.at > Len(e.heads)
     \/ e.scopes[i].max > 0 /\ r.consumed >= e.scopes[i].max
  THEN r
  ELSE MatchRun(e, i, RunStep(e, i, r))

\* Mutant: the minimum of a run is not checked.
FinishRun_NoMinimum(e, i, r) ==
  FlagIf(r.w, e.scopes[i].sequential /\ ~Sequential(r.digits), "sequential", 1)
FinishRun(e, i, r) ==
  LET sc == e.scopes[i]
      seq == FlagIf(r.w, sc.sequential /\ ~Sequential(r.digits), "sequential", 1)
  IN FlagIf(seq, r.consumed > 0 /\ r.consumed < sc.min, "too few", 1)

RECURSIVE FlagExtras(_, _, _)
FlagExtras(e, i, w) ==
  IF w.at > Len(e.heads) THEN w
  ELSE LET h == e.heads[w.at] IN
       IF h.level > e.level THEN FlagExtras(e, i, Skip(w))
       ELSE IF \/ h.level < e.level
               \/ ~MatchHeading(e.scopes[i], h)
               \/ ClaimsLaterLiteral(e.scopes, i + 1, h, w.claimed)
       THEN w
       ELSE FlagExtras(e, i, Skip(Flag(w, "too many", h.line)))

MatchScope(e, i, w) ==
  LET sc == e.scopes[i]
      r == MatchRun(e, i, [w |-> w, consumed |-> 0, digits |-> <<>>, done |-> FALSE])
      finished == FinishRun(e, i, r)
      full == sc.max > 0 /\ r.consumed >= sc.max
      past == IF full THEN FlagExtras(e, i, finished) ELSE finished
  IN IF r.consumed > 0 THEN [past EXCEPT !.allow = FALSE]
     ELSE FlagIf(past, i \notin past.claimed /\ Required(sc), "missing", 0)

ValidateScope(e, i, w) ==
  LET sc == e.scopes[i] IN
  IF sc.preamble THEN [w EXCEPT !.claimed = @ \union {i}]
  ELSE IF IsSlot(sc) THEN [w EXCEPT !.claimed = @ \union {i}, !.allow = TRUE]
  ELSE IF i \in w.claimed THEN w
  ELSE MatchScope(e, i, w)

RECURSIVE Leftover(_, _)
Leftover(e, w) ==
  IF w.at > Len(e.heads) \/ e.heads[w.at].level < e.level THEN w
  ELSE LET h == e.heads[w.at]
           listed == UnclaimedListed(e.scopes, h, w.claimed)
           again == ClaimedMatch(e.scopes, h, w.claimed)
       IN Leftover(e, IF h.level # e.level THEN Skip(w)
                      ELSE IF listed # 0 THEN ClaimLate(e, listed, w)
                      ELSE IF again # 0 THEN ClaimedAgain(e, again, w)
                      ELSE Skip(FlagIf(w, ~w.allow /\ e.closed, "unexpected", h.line)))

ValidateScopes(e, at) ==
  LET start == [at |-> at, diags |-> {}, claimed |-> {}, allow |-> FALSE, pairs |-> {},
                counts |-> [i \in DOMAIN e.scopes |-> 0]]
  IN Leftover(e, FoldLeftDomain(LAMBDA w, i : ValidateScope(e, i, w), start, e.scopes))

Validate(schema, heads) ==
  ValidateScopes([scopes |-> schema.sections, closed |-> schema.closed, level |-> schema.root,
                  heads |-> SkipBelow(heads, schema.root), path |-> <<>>], 1)
=============================================================================
