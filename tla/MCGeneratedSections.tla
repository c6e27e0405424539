------------------------- MODULE MCGeneratedSections -------------------------
(***************************************************************************)
(* Four files in three directories.                                         *)
(***************************************************************************)
EXTENDS GeneratedSections

CONSTANTS A, B, C, D, Gone, sub, ref, s1, s2, s3

MCDirOf == A :> Root @@ B :> <<sub>> @@ C :> <<ref>> @@ D :> <<sub>>
MCFrontMatter == A :> s3 @@ B :> s1 @@ C :> NoFM @@ D :> s2
\* The first summary is before the second as a text and after it as a number.
MCRank == Up :> 0 @@ A :> 1 @@ B :> 2 @@ C :> 3 @@ D :> 4 @@ ref :> 5 @@ sub :> 6
          @@ s1 :> 1 @@ s2 :> 2 @@ s3 :> 3
MCNumber == s1 :> 10 @@ s2 :> 9

Section(o) == <<o, Close(o.name)>>
Plain(f) == Section(Include(f, FALSE, FALSE))
Shifted(f) == Section(Include(f, FALSE, TRUE))
Wrapped(f) == Section(Include(f, TRUE, FALSE))

\* Catalogs: by number, backwards; of one file; of two directories by path; of the whole
\* project but what is ignored, with a hint; by file name, with a misspelt field; of files
\* above the project.
Numbered == [Catalog(<<Deep(<<>>, File), Not(Glob(<<>>, {A}))>>)
             EXCEPT !.sort = [key |-> "summary", down |-> TRUE, numeric |-> TRUE]]
Chosen == [Catalog(<<Glob(<<Up, sub>>, File)>>) EXCEPT !.where = {s2}, !.sort.down = TRUE]
Sideways == [Catalog(<<Glob(<<>>, File), Glob(<<Up, sub>>, File)>>) EXCEPT !.gitignore = FALSE, !.row = "none"]
Ignored == [Catalog(<<Deep(<<>>, File)>>) EXCEPT !.dir = <<ref, Up>>]
Misspelt == [Catalog(<<Glob(<<>>, File)>>) EXCEPT !.row = "Summary", !.sort.key = "filename"]
Outside == Catalog(<<Glob(<<Up, Up>>, File)>>)

InA == {<<Heading("a", 2)>> \o Plain(B),
        <<Heading("a", 1)>> \o Section(Toc) \o Shifted(B) \o <<Text("a")>>,
        Wrapped(B) \o <<Text("a")>> \o Shifted(D),
        Section(Numbered) \o Plain(C)}
InB == {Plain(C) \o <<Text("b")>>,
        Plain(C) \o Shifted(D),
        Section(Chosen) \o Wrapped(C) \o Plain(D),
        Section(Ignored) \o Section(Outside) \o Plain(Gone),
        Plain(C) \o <<Heading("b", 2)>> \o Section(Toc)}
InC == {<<Text("c")>> \o Plain(D),
        <<Heading("c", 2)>> \o Shifted(D) \o <<Text("c")>> \o Shifted(D),
        Section(Sideways) \o <<Link(D, <<ref>>)>>,
        Plain(B)}
InD == {<<Heading("x", 1), Link(B, <<sub>>), Heading("y", 2)>>,
        <<Text("d")>> \o Section(Catalog(<<Glob(<<>>, File)>>)) \o <<Text("d")>>,
        Section(Misspelt),
        Plain(A),
        <<Text("d"), Include(C, FALSE, FALSE), Text("d")>>}

Init == \E a \in InA, b \in InB, c \in InC, x \in InD :
            InitAs(A :> a @@ B :> b @@ C :> c @@ D :> x, 1)

\* C is edited while its markers and those it pulls in are in order.
EditC == Balanced(D) /\ \E c \in {<<Text("c")>> \o Shifted(D), <<Heading("z", 3)>>} : Edit(C, c)

Next == StartRun \/ (\E f \in File : fixFile(f)) \/ EditC
Spec == Init /\ [][Next]_vars
=============================================================================
