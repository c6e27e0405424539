----------------------------- MODULE MCFixRules -----------------------------
EXTENDS FixRules

Text == Line("", <<"word">>)
AllLines ==
  {Empty, Trailing(Empty), Text, Trailing(Text), Line("tab", <<"word">>), Line(Glued, <<"word">>),
   Line("# ", <<"word">>), Equals, Dashes, Stars, Line("- ", <<"item">>), Line("* ", <<"item">>),
   Line("backtick", <<>>), Line("tilde", <<>>)}
FenceLines == {Empty, Text, Line("backtick", <<>>), Line("tilde", <<>>)}
Sources ==
  UNION {[1 .. n -> AllLines] : n \in 1 .. 4} \union UNION {[1 .. n -> FenceLines] : n \in 5 .. 6}
Settings ==
  {[heading |-> "atx", fence |-> "backtick", optin |-> FALSE],
   [heading |-> "setext", fence |-> "tilde", optin |-> TRUE]}
=============================================================================
