------------------------------- MODULE MCRename -------------------------------
(***************************************************************************)
(* Two discovered files, one of them in a directory, and one that is not;  *)
(* headings with equal slugs, a slug that looks like a disambiguated one   *)
(* and one without a slug; directives, front matter and kinds.              *)
(***************************************************************************)
EXTENDS Rename, TLC

CONSTANTS A, B, Hid, img, l1, l2, l3, dir, adr, guide, draft, T

MCFiles == {A, B, Hid}
MCDiscovered == {A, B}

a  == <<"a">>
b  == <<"b">>
a1 == <<"a", 1>>
c  == <<"c">>

OldTexts == {Text(a, 0), Text(b, 0), Text(a1, 0), Text(<<>>, 0)}
NewTexts == OldTexts \cup {Text(a, 1), Text(c, 0)}
HeadingDocs == {[i \in DOMAIN s |-> HeadingLine(IF i = 2 THEN 2 ELSE 1, s[i])] : s \in UNION {[1 .. n -> OldTexts] : n \in 1 .. 3}}

Link(to, slug)    == Item("link", to, Text(slug, 1), NoFrag)
Image(to, frag)   == Item("image", to, frag, NoFrag)
Picture(to, slug) == Item("picture", to, Text(slug, 1), NoFrag)
Use(label)        == Item("use", NoFrag, NoFrag, label)
Figure(label)     == Item("figure", NoFrag, NoFrag, label)
Def(label, to, slug) == Item("def", to, Text(slug, 1), label)

\* What follows the headings in A, and what B holds.
Surroundings == {
    [own |-> <<Row(<<Link(Self, a), Link(Self, a1)>>)>>,
     other |-> <<Row(<<Link(A, a1), Link(A, b)>>)>>],
    [own |-> <<Row(<<Use(l1)>>), Row(<<Def(l1, Self, a)>>)>>,
     other |-> <<Row(<<Image(img, NoFrag), Picture(A, a)>>), Row(<<Link(A, Append(a, 2))>>)>>],
    [own |-> <<>>,
     other |-> <<Row(<<Use(l1), Figure(l1)>>), Row(<<Def(l1, A, a1)>>), Row(<<Def(l1, A, b)>>)>>],
    [own |-> <<Row(<<Link(B, a), Link(A, b), Image(Self, Text(a, 0))>>)>>,
     other |-> <<HeadingLine(1, Text(a, 0)), Row(<<Link(Self, a), Link(A, c)>>),
                 Row(<<Image(A, Text(b, 0)), Picture(A, a)>>)>>],
    [own |-> <<Row(<<Link(A, b)>>)>>, other |-> <<>>]}

Hiding == <<Row(<<Link(A, a)>>)>>
Disk(x, y) == [f \in MCFiles |-> IF f = A THEN x ELSE IF f = B THEN y ELSE Hiding]

HeadingJobs ==
    UNION {{[mode |-> "heading", surface |-> s, target |-> A, line |-> IF s = "cli" THEN 1 ELSE i,
             old |-> d[i].text, new |-> n, disk |-> Disk(d \o w.own, w.other)] :
                s \in {"cli", "lsp"}, i \in DOMAIN d, n \in NewTexts, w \in Surroundings} :
            d \in HeadingDocs}

LabelRows == {
    Row(<<Use(l1), Link(A, a), Use(l2)>>), Row(<<Def(l1, B, a)>>), Row(<<Def(l1, Self, a)>>),
    Row(<<Def(l2, B, b)>>), Row(<<Figure(l1), Use(l3)>>), Row(<<Item("sample", B, NoFrag, l2)>>)}

LabelJobs ==
    {[mode |-> "label", surface |-> s, target |-> A, line |-> 1, old |-> l1, new |-> n,
      disk |-> Disk(<<HeadingLine(1, Text(a, 0))>> \o rows,
                    <<HeadingLine(1, Text(a, 0)), Row(<<Use(l1), Use(l2)>>), Row(<<Def(l1, A, a)>>)>>)] :
        s \in {"cli", "lsp"}, n \in {l1, l2, l3, BadLabel},
        rows \in UNION {[1 .. k -> LabelRows] : k \in 1 .. 3}}

MCPathOf == (A :> <<dir, A>>) @@ (B :> <<adr, B>>) @@ (Hid :> <<Hid>>)
MCDeclaredKinds == {guide}
MCAssignedKinds == (A :> {}) @@ (B :> {guide}) @@ (Hid :> {guide})

Directive(kind, to) == Row(<<Item(kind, to, NoFrag, NoFrag)>>)
Field(key, value)   == Row(<<Item(key, NoFrag, NoFrag, value)>>)

Heads == {
    <<>>, <<Field("kind", guide)>>, <<Field("title", T), Field("kinds", draft), Field("kinds", guide)>>}
Bodies == {
    HeadingLine(1, Text(a, 0)), HeadingLine(2, Text(b, 0)), HeadingLine(3, Text(c, 0)),
    Directive("include", B), Directive("build", NoFrag), Directive("catalog", NoFrag),
    Row(<<Link(B, a), Use(l1)>>), Row(<<Def(l1, B, a)>>)}
Directing == <<Field("kind", draft), HeadingLine(2, Text(a, 0)), Directive("include", A),
               Directive("build", A), Row(<<Link(A, b)>>)>>

DirectiveDocs == {h \o rows : h \in Heads, rows \in UNION {[1 .. k -> Bodies] : k \in 1 .. 3}}
DirectiveJobs ==
    {[mode |-> "label", surface |-> "lsp", target |-> A, line |-> 1, old |-> l1, new |-> l2,
      disk |-> Disk(d, Directing)] : d \in DirectiveDocs}
    \cup
    {[mode |-> "heading", surface |-> "lsp", target |-> A, line |-> Len(d), old |-> d[Len(d)].text,
      new |-> Text(a1, 0), disk |-> Disk(d, Directing)] :
        d \in {e \in DirectiveDocs : e[Len(e)].text # NoFrag}}

MCJobs == DirectiveJobs \cup HeadingJobs \cup LabelJobs
===============================================================================
