------------------------------ MODULE FixRules ------------------------------
(***************************************************************************)
(* The loop of internal/fix/fix.go that applies the fixable rules to one   *)
(* document (applyFixPasses), with the rules on white space, headings,     *)
(* fences, lists and horizontal rules as the rules' own code reads them:   *)
(* MDS002, 006-010, 013-015, 044, 045, 064.  The other fixable rules are   *)
(* left out, as are line endings, front matter in the input and settings   *)
(* beyond the styles.  A rule both reports and rewrites from the parse of  *)
(* the text it is given.                                                   *)
(***************************************************************************)
EXTENDS Naturals, Sequences, SequencesExt, FiniteSets

CONSTANTS Documents,    \* the sources the fixer is given
          Profiles,     \* the rules' settings: [heading, fence, optin]
          MaxPasses     \* maxPasses

VARIABLES original, profile, doc, pass, stable, panicked
vars == <<original, profile, doc, pass, stable, panicked>>

-----------------------------------------------------------------------------
(***************************************************************************)
(* The blocks the Markdown parser (goldmark, outside the repository) finds *)
(* in a document, as far as the rules look at them: paragraphs, headings   *)
(* of both styles, thematic breaks, bullet lists, fenced and indented      *)
(* code.  Quotes, ordered and nested lists, HTML, tables and everything    *)
(* inline are left out.                                                    *)
(*                                                                         *)
(* A document is File.Lines: the source split at every newline, so a       *)
(* source that ends in a newline has an empty last line and the empty      *)
(* source is one empty line.  A line is a record [mark, text, trail]: what *)
(* the line begins with, its words, and whether blanks trail.              *)
(***************************************************************************)
Line(mark, text) == [mark |-> mark, text |-> text, trail |-> FALSE]
Trailing(l) == [l EXCEPT !.trail = TRUE]
Empty == Line("", <<>>)
Atx == {"# ", "## "}
Glued == "#"
Fences == {"backtick", "tilde"}
Bullets == {"- ", "* "}
Indents == {"tab", "spaces"}
Equals == Line("", <<"===">>)
Dashes == Line("---", <<>>)
Stars == Line("***", <<>>)

IsBlank(l) == l.mark = "" /\ l.text = <<>>

\* What a line starts when nothing is open.
Role(l) ==
  CASE IsBlank(l)               -> "blank"
    [] l.mark \in Atx           -> "heading"
    [] l.mark \in Fences        -> "fence"
    [] l.mark \in Bullets       -> "list"
    [] l.mark \in Indents       -> "code"
    [] l.mark \in {"---", "***"} -> "rule"
    [] OTHER                    -> "para"

-----------------------------------------------------------------------------
(***************************************************************************)
(* The parse: s.blocks so far, s.para when a paragraph (of the document or *)
(* of the last list item) can still be continued, s.gap the blank lines    *)
(* since the last line of text.  lines are the lines that hold a block's   *)
(* text, heads those on which a list item begins.                          *)
(***************************************************************************)
LastKind(s) == IF s.blocks = <<>> THEN "none" ELSE Last(s.blocks).kind
OpenFence(s) == LastKind(s) = "fence" /\ Last(s.blocks).close = 0

Block(kind, lines, mark, i) ==
  [kind |-> kind, lines |-> lines, mark |-> mark, heads |-> <<i>>, open |-> i, close |-> 0, level |-> 0]
Begin(s, b) ==
  [blocks |-> Append(s.blocks, b), para |-> b.kind \in {"para", "list"}, gap |-> <<>>]
Amend(s, b) == [s EXCEPT !.blocks[Len(s.blocks)] = b, !.gap = <<>>]
Extend(s, lines) == Amend(s, [Last(s.blocks) EXCEPT !.lines = @ \o lines])

Underlines(s, l) ==
  s.para /\ LastKind(s) = "para" /\ l \in {Equals, Dashes}
HeadingOf(b, l, i) ==
  [b EXCEPT !.kind = "heading", !.level = IF l = Equals THEN 1 ELSE 2, !.close = i]

InFence(d, s, i) ==
  LET b == Last(s.blocks)
  IN  CASE d[i].mark = b.mark -> Amend(s, [b EXCEPT !.close = i])
        [] d[i].mark # b.mark /\ i = Len(d) /\ d[i] = Empty -> s
        [] OTHER -> Extend(s, <<i>>)

Starts(d, s, i) ==
  LET l == d[i]  role == Role(l)
  IN  CASE role = "heading" ->
             Begin(s, [Block("heading", <<i>>, l.mark, i) EXCEPT !.level = IF l.mark = "# " THEN 1 ELSE 2])
        [] role = "fence" -> Begin(s, Block("fence", <<>>, l.mark, i))
        [] role = "list" /\ LastKind(s) = "list" /\ Last(s.blocks).mark = l.mark ->
             LET b == Last(s.blocks)
             IN  [Amend(s, [b EXCEPT !.lines = Append(@, i), !.heads = Append(@, i)]) EXCEPT !.para = TRUE]
        [] OTHER -> Begin(s, Block(role, <<i>>, l.mark, i))

\* An indented line is a further paragraph of an open list item, or code.
Indented(s, i) ==
  CASE LastKind(s) = "list" -> [Extend(s, <<i>>) EXCEPT !.para = TRUE]
    [] LastKind(s) = "code" -> Extend(s, Append(s.gap, i))
    [] OTHER            -> Begin(s, Block("code", <<i>>, "", i))

Parse(d) ==
  LET Read(s, i) ==
        LET l == d[i]  role == Role(l)
        IN  IF OpenFence(s) THEN InFence(d, s, i)
            ELSE IF role = "blank" THEN [s EXCEPT !.para = FALSE, !.gap = Append(@, i)]
            ELSE IF Underlines(s, l) THEN
                   [Amend(s, HeadingOf(Last(s.blocks), l, i)) EXCEPT !.para = FALSE]
            ELSE IF s.para /\ role \in {"para", "code"} THEN Extend(s, <<i>>)
            ELSE IF role = "code" THEN Indented(s, i)
            ELSE Starts(d, s, i)
  IN  FoldLeft(Read, [blocks |-> <<>>, para |-> FALSE, gap |-> <<>>], [i \in DOMAIN d |-> i]).blocks

-----------------------------------------------------------------------------
(***************************************************************************)
(* What a reader sees of the blocks: their kinds and words, whatever       *)
(* markers, indentation and blank lines the source spends on them.         *)
(***************************************************************************)
Words(d, lines) == [k \in DOMAIN lines |-> d[lines[k]].text]
Shape(d) ==
  LET blocks == Parse(d)
      Of(b) ==
        CASE b.kind = "fence" -> <<"fence", [k \in DOMAIN b.lines |-> d[b.lines[k]]]>>
          [] b.kind = "list"  -> <<"list", Len(b.heads), Words(d, b.lines)>>
          [] OTHER -> <<b.kind, b.level, Words(d, b.lines)>>
  IN  [k \in DOMAIN blocks |-> Of(blocks[k])]

-----------------------------------------------------------------------------
(***************************************************************************)
(* Where the rules believe the blocks to be.                               *)
(***************************************************************************)
\* fencepos.OpenLineRange.  A block without content leaves no trace in the
\* tree, so the fence is searched from the end of the sibling before it, and
\* from the top of the file when that sibling has no lines of its own.
SearchStart(blocks, k) ==
  IF k = 1 \/ blocks[k - 1].kind \in {"list", "rule"} \/ blocks[k - 1].lines = <<>> THEN 1
  ELSE Last(blocks[k - 1].lines) + 1
FirstFence(d, start) ==
  LET fences == {i \in start .. Len(d) : d[i].mark \in Fences}
  IN  CHOOSE i \in fences : \A j \in fences : i <= j
OpenLine(d, blocks, k) ==
  IF blocks[k].lines # <<>> THEN blocks[k].lines[1] - 1
  ELSE FirstFence(d, SearchStart(blocks, k))

AtMost(i, n) == IF i < n THEN i ELSE n
CloseLine(d, blocks, k) ==
  AtMost(Len(d), 1 + (IF blocks[k].lines # <<>> THEN Last(blocks[k].lines) ELSE OpenLine(d, blocks, k)))

OfKind(blocks, kind) == {k \in DOMAIN blocks : blocks[k].kind = kind}

\* lint.CollectCodeBlockLines: an empty block without an info string has no line.
FencedLines(d, b) ==
  IF b.lines = <<>> THEN {} ELSE (b.lines[1] - 1 .. Last(b.lines) + 1) \cap DOMAIN d
CodeLines(d, blocks) ==
  UNION {FencedLines(d, blocks[k]) : k \in OfKind(blocks, "fence")}
    \union UNION {ToSet(blocks[k].lines) : k \in OfKind(blocks, "code")}

\* isATXHeading and isSetextHeading look at the first byte of the heading's line.
LooksAtx(d, b) == d[b.lines[1]].mark \in Atx \union {Glued}
HeadingLastLine(d, b) == Last(b.lines) + (IF LooksAtx(d, b) THEN 0 ELSE 1)

Filled(d, i) == i \in DOMAIN d /\ ~IsBlank(d[i])

\* The blank lines a fix puts before and after the lines it chose; once says
\* that a blank line just put after the previous line is enough.
InsertBlanks(d, before, after, once) ==
  FlattenSeq([i \in DOMAIN d |->
    (IF i \in before /\ ~(once /\ i - 1 \in after) THEN <<Empty>> ELSE <<>>)
      \o <<d[i]>> \o (IF i \in after THEN <<Empty>> ELSE <<>>)])

MapLines(d, blocks, Change(_)) ==
  [i \in DOMAIN d |-> IF i \in CodeLines(d, blocks) THEN d[i] ELSE Change(d[i])]

-----------------------------------------------------------------------------
(***************************************************************************)
(* The rules.  Each is what its Fix makes of a document.  The Check of     *)
(* these rules tests, line by line or block by block, the condition under  *)
(* which their Fix rewrites, so a rule reports exactly when its Fix would  *)
(* change the document.                                                    *)
(***************************************************************************)
\* MDS002, heading-style.  A setext heading is rewritten as if it had one line
\* of text; the text is that of every line, run together.
HeadingText(d, b) == FlattenSeq([k \in DOMAIN b.lines |-> d[b.lines[k]].text])
AsAtx(d, b) ==
  <<Line(IF b.level = 1 THEN "# " ELSE "## ", HeadingText(d, b))>>
AsSetext(d, b) ==
  <<Line(IF d[b.lines[1]].mark = Glued THEN Glued ELSE "", HeadingText(d, b)),
    IF b.level = 1 THEN Equals ELSE Dashes>>
HeadingLine(b) == b.lines[1]
HeadingRange(d, b) == HeadingLine(b) .. HeadingLine(b) + (IF LooksAtx(d, b) THEN 0 ELSE 1)
HeadingStyle(d, blocks, p) ==
  LET wrong == {blocks[k] : k \in {j \in OfKind(blocks, "heading") :
                                     LooksAtx(d, blocks[j]) # (p.heading = "atx")}}
      Spell(b) == IF p.heading = "atx" THEN AsAtx(d, b) ELSE AsSetext(d, b)
      At(i) == {Spell(b) : b \in {c \in wrong : HeadingLine(c) = i}}
      Replaced(i) == \E b \in wrong : i \in HeadingRange(d, b)
  IN  FlattenSeq([i \in DOMAIN d |->
        IF At(i) # {} THEN CHOOSE lines \in At(i) : TRUE
        ELSE IF Replaced(i) THEN <<>> ELSE <<d[i]>>])

\* MDS006, no-trailing-spaces, and MDS007, no-hard-tabs.
NoTrailingSpaces(d, blocks, p) ==
  MapLines(d, blocks, LAMBDA l : [l EXCEPT !.trail = FALSE])
NoHardTabs(d, blocks, p) ==
  MapLines(d, blocks, LAMBDA l : IF l.mark = "tab" THEN [l EXCEPT !.mark = "spaces"] ELSE l)

\* MDS008, no-multiple-blanks, with its default of one.
\* Mutant: a max that is not set counts as none.
NoMultipleBlanks_None(d, blocks, p) ==
  FlattenSeq([i \in DOMAIN d |->
    IF i > 1 /\ i < Len(d) /\ i \notin CodeLines(d, blocks) /\ IsBlank(d[i]) THEN <<>> ELSE <<d[i]>>])
NoMultipleBlanks(d, blocks, p) ==
  LET code == CodeLines(d, blocks)
      Dropped(i) == /\ i > 1 /\ i \notin code /\ i - 1 \notin code
                    /\ IsBlank(d[i]) /\ IsBlank(d[i - 1])
  IN  FlattenSeq([i \in DOMAIN d |-> IF Dropped(i) THEN <<>> ELSE <<d[i]>>])

\* MDS009, single-trailing-newline.
TextEnd(d) ==
  LET filled == {i \in DOMAIN d : d[i] # Empty}
  IN  IF filled = {} THEN 0 ELSE CHOOSE i \in filled : \A j \in filled : j <= i
\* Mutant: the newlines at the end are not trimmed before one is added.
SingleTrailingNewline_Untrimmed(d, blocks, p) ==
  IF TextEnd(d) = Len(d) - 1 THEN d ELSE Append(d, Empty)
SingleTrailingNewline(d, blocks, p) ==
  IF TextEnd(d) = 0 THEN <<Empty, Empty>> ELSE Append(SubSeq(d, 1, TextEnd(d)), Empty)

\* MDS010, fenced-code-style.  The last line of a block that the file ends in
\* is no closing fence.  Two blocks whose fences are taken to overlap make the
\* fix slice the source backwards, which panics.
WrongFences(d, blocks, p) ==
  {k \in OfKind(blocks, "fence") : d[OpenLine(d, blocks, k)].mark # p.fence}
\* Mutant: only the opening fence is rewritten.
FenceEdits_OpenOnly(d, blocks, k) == {OpenLine(d, blocks, k)}
FenceEdits(d, blocks, k) ==
  {OpenLine(d, blocks, k)}
    \union {i \in {CloseLine(d, blocks, k)} : i \notin ToSet(blocks[k].lines)}
FencesOverlap(d, blocks, p) ==
  \E j, k \in WrongFences(d, blocks, p) :
    j < k /\ CloseLine(d, blocks, j) >= OpenLine(d, blocks, k)
FencedCodeStyle(d, blocks, p) ==
  LET edits == UNION {FenceEdits(d, blocks, k) : k \in WrongFences(d, blocks, p)}
  IN  [i \in DOMAIN d |->
        IF i \in edits /\ d[i].mark \in Fences THEN [d[i] EXCEPT !.mark = p.fence] ELSE d[i]]

\* MDS013, blank-line-around-headings.
BlankLineAroundHeadings(d, blocks, p) ==
  LET heads == {blocks[k] : k \in {j \in OfKind(blocks, "heading") :
                                    blocks[j].lines[1] \notin CodeLines(d, blocks)}}
  IN  InsertBlanks(d, {b.lines[1] : b \in {c \in heads : Filled(d, c.lines[1] - 1)}},
                      {HeadingLastLine(d, b) : b \in {c \in heads : Filled(d, HeadingLastLine(d, c) + 1)}},
                      TRUE)

\* MDS014, blank-line-around-lists.
LineOfNode(b) == b.lines[1]
LastLineOfNode(b) == Last(b.lines)
ListInsertions(d, lists) ==
  [before |-> {i \in {LineOfNode(b) : b \in lists} : Filled(d, i - 1)},
   after  |-> {i \in {LastLineOfNode(b) : b \in lists} : Filled(d, i + 1)}]
BlankLineAroundLists(d, blocks, p) ==
  LET chosen == ListInsertions(d, {blocks[k] : k \in OfKind(blocks, "list")})
  IN  InsertBlanks(d, chosen.before, chosen.after, FALSE)

\* MDS015, blank-line-around-fenced-code.
BlankLineAroundFencedCode(d, blocks, p) ==
  LET fences == OfKind(blocks, "fence")
  IN  InsertBlanks(d, {OpenLine(d, blocks, k) :
                         k \in {j \in fences : Filled(d, OpenLine(d, blocks, j) - 1)}},
                      {CloseLine(d, blocks, k) :
                         k \in {j \in fences : Filled(d, CloseLine(d, blocks, j) + 1)}},
                      FALSE)

\* MDS044, horizontal-rule-style, with its defaults: three dashes, blank lines.
ThematicBreakLines(blocks) == {blocks[k].open : k \in OfKind(blocks, "rule")}
HorizontalRuleStyle(d, blocks, p) ==
  LET rules == ThematicBreakLines(blocks)
      canonical == [i \in DOMAIN d |-> IF i \in rules THEN Dashes ELSE d[i]]
  IN  InsertBlanks(canonical, {i \in rules : Filled(d, i - 1)}, {i \in rules : Filled(d, i + 1)}, TRUE)

\* MDS045, list-marker-style, with its default of a dash.
ListItemLines(blocks) == UNION {ToSet(blocks[k].heads) : k \in OfKind(blocks, "list")}
ListMarkerStyle(d, blocks, p) ==
  LET items == ListItemLines(blocks)
  IN  [i \in DOMAIN d |-> IF i \in items THEN [d[i] EXCEPT !.mark = "- "] ELSE d[i]]

\* MDS064, atx-heading-whitespace: any line that begins with a hash.
NeedsSpace(l) == l.mark = Glued
NormalizeLine(l) == [l EXCEPT !.mark = "# "]
AtxHeadingWhitespace(d, blocks, p) ==
  MapLines(d, blocks, LAMBDA l : IF NeedsSpace(l) THEN NormalizeLine(l) ELSE l)

Rules == <<"MDS002", "MDS006", "MDS007", "MDS008", "MDS009", "MDS010", "MDS013", "MDS014",
           "MDS015", "MDS044", "MDS045", "MDS064">>
Enabled(rule, p) == rule \in {"MDS044", "MDS045"} => p.optin
Fix(rule, d, blocks, p) ==
  CASE rule = "MDS002" -> HeadingStyle(d, blocks, p)
    [] rule = "MDS006" -> NoTrailingSpaces(d, blocks, p)
    [] rule = "MDS007" -> NoHardTabs(d, blocks, p)
    [] rule = "MDS008" -> NoMultipleBlanks(d, blocks, p)
    [] rule = "MDS009" -> SingleTrailingNewline(d, blocks, p)
    [] rule = "MDS010" -> FencedCodeStyle(d, blocks, p)
    [] rule = "MDS013" -> BlankLineAroundHeadings(d, blocks, p)
    [] rule = "MDS014" -> BlankLineAroundLists(d, blocks, p)
    [] rule = "MDS015" -> BlankLineAroundFencedCode(d, blocks, p)
    [] rule = "MDS044" -> HorizontalRuleStyle(d, blocks, p)
    [] rule = "MDS045" -> ListMarkerStyle(d, blocks, p)
    [] rule = "MDS064" -> AtxHeadingWhitespace(d, blocks, p)

-----------------------------------------------------------------------------
(***************************************************************************)
(* One pass of applyFixPasses: every enabled rule in the order of the IDs, *)
(* each on a fresh parse of what the rules before it left.  The document   *)
(* is stable when the pass ends with the text it began with.               *)
(***************************************************************************)
Apply(s, rule) ==
  IF s.panicked \/ ~Enabled(rule, profile) THEN s
  ELSE IF rule = "MDS010" /\ FencesOverlap(s.doc, s.blocks, profile) THEN [s EXCEPT !.panicked = TRUE]
  ELSE LET next == Fix(rule, s.doc, s.blocks, profile)
       IN  IF next = s.doc THEN s
           ELSE [s EXCEPT !.doc = next, !.blocks = Parse(next)]

ApplyRules(d) ==
  FoldLeft(Apply, [doc |-> d, blocks |-> Parse(d), panicked |-> FALSE], Rules)

Init ==
  /\ original \in Documents
  /\ profile \in Profiles
  /\ doc = original
  /\ pass = 0
  /\ stable = FALSE
  /\ panicked = FALSE

Pass ==
  /\ ~stable
  /\ ~panicked
  /\ pass < MaxPasses
  /\ LET s == ApplyRules(doc)
     IN  /\ doc' = s.doc
         /\ stable' = (s.doc = doc /\ ~s.panicked)
         /\ panicked' = s.panicked
  /\ pass' = pass + 1
  /\ UNCHANGED <<original, profile>>

Next == Pass
Spec == Init /\ [][Next]_vars

-----------------------------------------------------------------------------
(***************************************************************************)
(* Properties.  The conditions name the documents and settings on which    *)
(* the code is known to do otherwise; each is one of the README's entries  *)
(* on disagreements.                                                       *)
(***************************************************************************)
HasText(d) == \E i \in DOMAIN d : ~IsBlank(d[i])
\* The search finds the block that needs it, blank lines of content or none.
FencesAreFound(d, blocks) ==
  \A k \in OfKind(blocks, "fence") :
    (\A i \in ToSet(blocks[k].lines) : IsBlank(d[i])) =>
      FirstFence(d, SearchStart(blocks, k)) = blocks[k].open
NoFenceInFence(d, blocks) ==
  \A k \in OfKind(blocks, "fence") : \A i \in ToSet(blocks[k].lines) : d[i].mark \notin Fences
Plain(d) == LET blocks == Parse(d)
            IN  HasText(d) /\ FencesAreFound(d, blocks) /\ NoFenceInFence(d, blocks)

FencesAreClosed(blocks) == \A k \in OfKind(blocks, "fence") : blocks[k].close # 0
NoGluedHash(d, blocks) == \A i \in DOMAIN d \ CodeLines(d, blocks) : d[i].mark # Glued
HeadingsAreOneLine(blocks) == \A k \in OfKind(blocks, "heading") : Len(blocks[k].lines) = 1
HeadingsStandApart(d, blocks) ==
  \A k \in OfKind(blocks, "heading") :
    k > 1 /\ blocks[k - 1].kind \in {"para", "list"} => ~Filled(d, blocks[k].lines[1] - 1)
ListsStandApart(blocks) ==
  \A k \in OfKind(blocks, "list") : k > 1 => blocks[k - 1].kind # "list"
Separable(d, p) ==
  LET blocks == Parse(d)
  IN  /\ FencesAreClosed(blocks) /\ NoGluedHash(d, blocks) /\ HeadingsAreOneLine(blocks)
      /\ p.heading = "setext" => HeadingsStandApart(d, blocks)
      /\ p.optin => ListsStandApart(blocks)

\* The loop ends because a pass changed nothing, never because it ran out of
\* passes.
FixConverges == pass = MaxPasses => stable

\* What the loop leaves behind is what it promises: no rule that can fix has
\* anything left to report, so a check right after a fix is clean of them and
\* a second fix finds nothing to do; and no rule panics on the way.
CleanAfterFix ==
  Plain(original) =>
    /\ ~panicked
    /\ stable => LET blocks == Parse(doc)
                 IN  \A r \in DOMAIN Rules :
                       Enabled(Rules[r], profile) => Fix(Rules[r], doc, blocks, profile) = doc

\* Fixing is about style: when the loop ends the document has the blocks it
\* began with, in their order, with the same words, and the same code.
BlocksAreKept ==
  stable /\ Plain(original) /\ Separable(original, profile) => Shape(doc) = Shape(original)

\* "Stabilization means one fix never undoes another": a pass that ends with
\* the text it began with is a pass in which no rule changed anything.
=============================================================================
