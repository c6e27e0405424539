---------------------------- MODULE MCMergeDriver ----------------------------
(* Jobs for MergeDriver: documents of at most two sections, with a line of    *)
(* prose or a heading before, between and after them.                         *)
EXTENDS MergeDriver

MCText == {"prose1", "prose2", "old1", "old2"}

Section == {<<"start", b, "end">> : b \in {"old1", "old2"}}
Around == {<<>>, <<"prose1">>, <<"prose2">>}
Headed == Around \cup {<<"prose1", "sep">>}

OneSection == {p \o s \o q : p \in Headed, s \in Section, q \in Headed}
TwoSections == {s \o p \o t \o q : s, t \in Section, p, q \in Around}

Job(o, t, merged, held, fix) ==
    [ours |-> o, theirs |-> t, merged |-> merged, path |-> held, fix |-> fix]

Sides(docs) == {x \in docs \X docs : x[1] # x[2] /\ OneConflict(x[1], x[2])}

ConflictJobs(docs, bases) ==
    {Job(x[1], x[2], Conflict(x[1], x[2], b), x[1], "regenerates") :
        x \in Sides(docs), b \in bases}

ProseJobs == ConflictJobs(OneSection \cup Headed, {<<>>, <<"base">>})
SectionJobs == ConflictJobs(TwoSections, {<<>>})

\* One conflict in a section and a merge without one, with every way for fix
\* to work and with a pathname that exists or not.
S(b) == <<"prose1", "start", b, "end">>
FaultJobs ==
    {Job(S("old1"), S("old2"), m, p, f) :
        m \in {Conflict(S("old1"), S("old2"), <<>>), S("old2")},
        p \in {S("old1"), Absent}, f \in Fixes}

MCJobs == ProseJobs \cup SectionJobs \cup FaultJobs
=============================================================================
