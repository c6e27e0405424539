------------------------------ MODULE MCGitHooks ------------------------------
(* Files for GitHooks: a block without its end, two blocks between lines of  *)
(* the user's, and stale assignments without a block.                         *)
EXTENDS GitHooks

MCTexts == {"", "*.md", "docs", "a", "b", "!b", "u", "v", "x", "y"}
MCIncludes == <<"*.md">>
MCIgnores == {<<>>, <<"a", "!b">>}
MCScopes == {<<>>, <<"docs">>}

Own(i) == Line("other", i)
Set(p) == Line("set", p)
Unset(p) == Line("unset", p)

MCFiles == {
    <<Set("*.md"), Own("u"), Begin, Unset("b"), Own("v")>>,
    <<Own("u"), Begin, Set("*.md"), End, Own("v"), Begin, Unset("a"), Set("x"), End>>,
    <<Own("u"), Set("y"), End>>}
=============================================================================
