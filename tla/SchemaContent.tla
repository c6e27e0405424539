--------------------------- MODULE SchemaContent ---------------------------
(***************************************************************************)
(* What is read out of the sections once the headings are matched: the     *)
(* second walk over the headings (ScopeRunIndices), the check of a         *)
(* section's content: list against its blocks (validate_content.go), and   *)
(* the tree the extraction projects (matchtree.go).                        *)
(*                                                                         *)
(* A document is a sequence of items, an item's place being its line:      *)
(* [level, text, digits, says], level 0 for a block, whose text is its     *)
(* kind, digits its shape (the language of a code block, the columns of a  *)
(* table, the marker and length of a list) and says its words.  A content  *)
(* entry is a record [kind, required, shapes], no shapes for any.          *)
(***************************************************************************)
EXTENDS SchemaMatch

Headings(doc) ==
  SelectSeq([l \in DOMAIN doc |-> [level |-> doc[l].level, text |-> doc[l].text,
                                   digits |-> doc[l].digits, line |-> l]],
            LAMBDA h : h.level > 0)

\* blocksInRange: the blocks from a line on, up to another.  The lines of a
\* paragraph are one block.
Continues(doc, l) == l > 1 /\ doc[l].text = "text" /\ doc[l - 1].level = 0 /\ doc[l - 1].text = "text"
BlocksIn(doc, from, to) ==
  LET lines == SelectSeq([l \in DOMAIN doc |-> l],
                         LAMBDA l : /\ from <= l /\ l < to /\ doc[l].level = 0
                                    /\ doc[l].text # "blank" /\ ~Continues(doc, l))
  IN [k \in DOMAIN lines |-> doc[lines[k]]]

LineOr(heads, S, default) == IF S = {} THEN default ELSE heads[First(S)].line
ScopeEnd(heads, k, to) ==
  LineOr(heads, {j \in k + 1 .. Len(heads) :
                   heads[j].line < to /\ heads[j].level <= heads[k].level}, to)
FirstHeadingLine(heads, level, from, to) ==
  LineOr(heads, {j \in DOMAIN heads :
                   /\ from <= heads[j].line /\ heads[j].line < to
                   /\ heads[j].level = level}, to)

-----------------------------------------------------------------------------
(***************************************************************************)
(* ScopeRunIndices: the headings between two lines that scope i claims,    *)
(* as indices, claimed being those an earlier scope took.                  *)
(***************************************************************************)
LaterScopeMatches(scopes, i, h) ==
  \E j \in i .. Len(scopes) : ScopeMatches(scopes[j], h) /\ ~IsBroad(scopes[j])

\* The headings of the window that are not taken yet.
Window(heads, claimed, from, to) ==
  {k \in DOMAIN heads : k \notin claimed /\ from <= heads[k].line /\ heads[k].line < to}

\* Mutant: the second walk does not yield to a later scope.
ScanStep_NoYield(scopes, i, level, heads, s, k) ==
  LET sc == scopes[i]
      h == heads[k]
  IN IF s.done \/ h.level > level THEN s
     ELSE IF h.level < level \/ ~ScopeMatches(sc, h) THEN [s EXCEPT !.done = s.out # <<>>]
     ELSE [out |-> Append(s.out, k), done |-> sc.max > 0 /\ Len(s.out) + 1 >= sc.max]
ScanStep(scopes, i, level, heads, s, k) ==
  LET sc == scopes[i]
      h == heads[k]
      n == Len(s.out)
  IN IF s.done \/ h.level > level THEN s
     ELSE IF h.level < level \/ ~ScopeMatches(sc, h) THEN [s EXCEPT !.done = n > 0]
     ELSE IF (IsBroad(sc) \/ n >= sc.min) /\ LaterScopeMatches(scopes, i + 1, h)
     THEN [s EXCEPT !.done = TRUE]
     ELSE [out |-> Append(s.out, k), done |-> sc.max > 0 /\ n + 1 >= sc.max]

ScanScopeRun(scopes, i, level, heads, window) ==
  FoldLeft(LAMBDA s, k : ScanStep(scopes, i, level, heads, s, k),
           [out |-> <<>>, done |-> FALSE],
           SelectSeq([k \in DOMAIN heads |-> k], LAMBDA k : k \in window)).out

FirstWrongLevel(sc, level, heads, window) ==
  IF IsBroad(sc) THEN 0
  ELSE First({k \in window : heads[k].level # level /\ ScopeMatches(sc, heads[k])})

ScopeRunIndices(scopes, i, level, heads, from, to, claimed) ==
  LET window == Window(heads, claimed, from, to)
      run == ScanScopeRun(scopes, i, level, heads, window)
      wrong == FirstWrongLevel(scopes[i], level, heads, window)
  IN IF scopes[i].preamble THEN <<>>
     ELSE IF run # <<>> THEN run
     ELSE IF wrong # 0 THEN <<wrong>> ELSE <<>>

-----------------------------------------------------------------------------
(***************************************************************************)
(* The content: list of a section against its blocks.  An entry of kind    *)
(* "unlisted" lets any block stand at its place.                           *)
(***************************************************************************)
Listed(entry) == entry.kind # "unlisted"
LaterEntries(content, i, block) ==
  {j \in i .. Len(content) : Listed(content[j]) /\ content[j].kind = block.text}
\* A block of the right kind that is not what the entry asks for.
ShapeDiags(entry, block) ==
  IF entry.shapes # {} /\ block.digits \notin entry.shapes THEN {"content shape"} ELSE {}

\* matchEntry: x is [at, claimed, allow, diags], blocks are the section's.
RECURSIVE MatchEntry(_, _, _, _)
MatchEntry(sc, blocks, i, x) ==
  LET entry == sc.content[i] IN
  IF x.at > Len(blocks)
  THEN [x EXCEPT !.diags = IF entry.required THEN @ \union {"missing content"} ELSE @]
  ELSE LET block == blocks[x.at]
           later == LaterEntries(sc.content, i + 1, block) \ x.claimed
           on == [x EXCEPT !.at = @ + 1]
       IN IF block.text = entry.kind
          THEN [on EXCEPT !.claimed = @ \union {i}, !.allow = FALSE,
                          !.diags = @ \union ShapeDiags(entry, block)]
          ELSE IF later # {} /\ ~entry.required THEN x
          ELSE IF later # {}
          THEN LET l == First(later)
               IN MatchEntry(sc, blocks, i, [on EXCEPT !.claimed = @ \union {l},
                    !.diags = @ \union {"content order"} \union ShapeDiags(sc.content[l], block)])
          ELSE MatchEntry(sc, blocks, i,
                 [on EXCEPT !.diags = IF ~x.allow /\ sc.closed
                                      THEN @ \union {"unexpected content"} ELSE @])

EntryStep(sc, blocks, x, i) ==
  IF ~Listed(sc.content[i]) THEN [x EXCEPT !.allow = TRUE]
  ELSE IF i \in x.claimed THEN x
  ELSE MatchEntry(sc, blocks, i, x)

FlushTrailing(sc, blocks, x) ==
  IF ~x.allow /\ sc.closed /\ x.at <= Len(blocks)
  THEN x.diags \union {"unexpected content"} ELSE x.diags

ContentDiags(sc, blocks) ==
  IF sc.content = <<>> THEN {}
  ELSE FlushTrailing(sc, blocks,
         FoldLeftDomain(LAMBDA x, i : EntryStep(sc, blocks, x, i),
                        [at |-> 1, claimed |-> {}, allow |-> FALSE, diags |-> {}], sc.content))

\* collectContent: the entries that are bound, and how many blocks were passed.
RECURSIVE CollectEntry(_, _, _)
CollectEntry(content, blocks, s) ==
  IF s.at > Len(blocks) THEN s
  ELSE IF blocks[s.at].text = content[s.entry].kind
  THEN [s EXCEPT !.at = @ + 1, !.out = @ \union {<<s.entry, s.at>>}]
  ELSE IF LaterEntries(content, s.entry + 1, blocks[s.at]) # {} THEN s
  ELSE CollectEntry(content, blocks, [s EXCEPT !.at = @ + 1])

CollectContent(sc, blocks) ==
  FoldLeftDomain(
    LAMBDA s, i : IF Listed(sc.content[i])
                  THEN CollectEntry(sc.content, blocks, [s EXCEPT !.entry = i]) ELSE s,
    [at |-> 1, entry |-> 0, out |-> {}], sc.content).out

-----------------------------------------------------------------------------
(***************************************************************************)
(* The walk both make of the scopes of a level and of what lies below:     *)
(* walkContentScopes and buildScopeMatches.  g is [claimed, diags, found]; *)
(* found holds a record for every section, with its scope, the line of its *)
(* heading (0 for a preamble), the lines it spans and the entries of       *)
(* content: bound to blocks.                                               *)
(* Only the tree passes broad scopes over.                                 *)
(***************************************************************************)
RECURSIVE WalkScopes(_, _, _)

Visit(c, i, g, line, from, to) ==
  LET sc == c.scopes[i]
      blocks == BlocksIn(c.doc, IF line = 0 THEN from ELSE line + 1, to)
  IN [g EXCEPT !.diags = @ \union ContentDiags(sc, blocks),
               !.found = @ \union {[path |-> Append(c.path, i), scope |-> sc, line |-> line,
                                    from |-> from, to |-> to,
                                    bound |-> CollectContent(sc, blocks)]}]

FoundSection(c, i, g, k) ==
  LET sc == c.scopes[i]
      line == c.heads[k].line
      end == ScopeEnd(c.heads, k, c.to)
      here == Visit(c, i, [g EXCEPT !.claimed = @ \union {k}], line, line, end)
  IN IF sc.sections = <<>> THEN here
     ELSE WalkScopes(c, [scopes |-> sc.sections, level |-> c.level + 1,
                         path |-> Append(c.path, i), from |-> line, to |-> end], here)

FoundPreamble(c, i, g) ==
  Visit(c, i, g, 0, c.from, FirstHeadingLine(c.heads, c.level, c.from, c.to))

WalkScope(c, g, i) ==
  LET sc == c.scopes[i] IN
  IF IsSlot(sc) \/ (c.tree /\ IsBroad(sc)) THEN g
  ELSE IF sc.preamble THEN FoundPreamble(c, i, g)
  ELSE FoldLeft(LAMBDA acc, k : FoundSection(c, i, acc, k), g,
                ScopeRunIndices(c.scopes, i, c.level, c.heads, c.from, c.to, g.claimed))

\* where replaces what differs one level down
WalkScopes(c, where, g) ==
  LET d == where @@ c
  IN FoldLeftDomain(LAMBDA acc, i : WalkScope(d, acc, i), g, d.scopes)

Walk(schema, doc, tree) ==
  WalkScopes([doc |-> doc, heads |-> SkipBelow(Headings(doc), schema.root), tree |-> tree],
             [scopes |-> schema.sections, level |-> schema.root, path |-> <<>>,
              from |-> 1, to |-> Len(doc) + 1],
             [claimed |-> {}, diags |-> {}, found |-> {}])

ContentWalk(schema, doc) == Walk(schema, doc, FALSE)
BuildMatchTree(schema, doc) == Walk(schema, doc, TRUE).found
=============================================================================
