--------------------------- MODULE ConflictMarkers ---------------------------
(***************************************************************************)
(* Documents as the merge driver sees them (cmd/mdsmith/mergedriver.go): a *)
(* line is a marker of a generated section, a conflict marker, or a line   *)
(* of text.  "sep" is a line of equals signs: the middle of a conflict,    *)
(* and in prose the underline of a heading.                                *)
(***************************************************************************)
EXTENDS Integers, Sequences, FiniteSets, SequencesExt

SectionMarkers == {"start", "end"}
ConflictLines == {"open", "base", "sep", "close"}

Document(text) == Seq(SectionMarkers \cup ConflictLines \cup text)

-----------------------------------------------------------------------------
(* stripSectionConflicts *)

StripStart == [out |-> <<>>, inSection |-> FALSE, inConflict |-> FALSE]

StripLine_Everywhere(s, line) ==
    IF line = "open" \/ (s.inConflict /\ line \in {"base", "sep", "close"})
    THEN [s EXCEPT !.inConflict = line # "close"]
    ELSE [s EXCEPT !.out = Append(@, line)]

\* One line: a conflict marker in a section is dropped, but the separator and
\* the others only after the opening one.
StripLine(s, line) ==
    LET inside == s.inSection \/ line = "start" IN
    IF inside /\ (line = "open"
                  \/ (s.inConflict /\ line \in {"base", "sep", "close"}))
    THEN [s EXCEPT !.inSection = inside, !.inConflict = line # "close"]
    ELSE [out |-> Append(s.out, line),
          inSection |-> inside /\ line # "end",
          inConflict |-> s.inConflict /\ line # "end"]

StripSectionConflicts(doc) ==
    LET after[n \in 0..Len(doc)] ==
            IF n = 0 THEN StripStart ELSE StripLine(after[n - 1], doc[n])
    IN after[Len(doc)].out

HasConflictMarkers(doc) == \E i \in DOMAIN doc : doc[i] \in {"open", "close"}

-----------------------------------------------------------------------------
(* gensection.FindMarkerPairs and Engine.Fix, for one directive whose        *)
(* parameters are valid and whose Generate gives one line, "new".            *)

MarkerStep(doc, s, i) ==
    CASE doc[i] = "start" /\ s.from = 0 -> [s EXCEPT !.from = i]
      [] doc[i] = "start" /\ s.from # 0 -> [s EXCEPT !.depth = @ + 1]
      [] doc[i] = "end" /\ s.from # 0 /\ s.depth > 0 -> [s EXCEPT !.depth = @ - 1]
      [] doc[i] = "end" /\ s.from # 0 /\ s.depth = 0 ->
            [s EXCEPT !.pairs = @ \cup {<<s.from, i>>}, !.from = 0]
      [] OTHER -> s

\* The sections: the lines of their start and end markers.
FindMarkerPairs(doc) ==
    LET after[n \in 0..Len(doc)] ==
            IF n = 0 THEN [pairs |-> {}, from |-> 0, depth |-> 0]
            ELSE MarkerStep(doc, after[n - 1], n)
    IN after[Len(doc)].pairs

\* One line of the document that Fix makes.
Keep(pairs, doc, out, i) ==
    IF \E p \in pairs : p[1] < i /\ i < p[2] THEN out
    ELSE IF \E p \in pairs : p[1] = i THEN out \o <<doc[i], "new">>
    ELSE Append(out, doc[i])

\* What Fix makes of the document, section by section from the last.
Regenerate(doc) ==
    LET pairs == FindMarkerPairs(doc)
        after[n \in 0..Len(doc)] == IF n = 0 THEN <<>> ELSE Keep(pairs, doc, after[n - 1], n)
    IN after[Len(doc)]

-----------------------------------------------------------------------------
(* Documents whose sections are closed before another one opens              *)

\* D says after each line whether a section is open.
Follows(D, u) ==
    /\ D \in [0..Len(u) -> BOOLEAN]
    /\ \A n \in 1..Len(u) :
        /\ u[n] = "start" => ~D[n - 1] /\ D[n]
        /\ u[n] = "end" => D[n - 1] /\ ~D[n]
        /\ u[n] \notin SectionMarkers => D[n] = D[n - 1]

Sections(D, u) == Follows(D, u) /\ ~D[0] /\ ~D[Len(u)]

-----------------------------------------------------------------------------
(* git merge-file, as the driver uses it                                     *)

\* The number of lines two documents share at their start.
CommonLines(s, t) ==
    Cardinality({n \in DOMAIN s \cap DOMAIN t : SubSeq(s, 1, n) = SubSeq(t, 1, n)})

\* What the two sides differ in, between their common first and last lines.
Hunk(s, t) ==
    LET p == CommonLines(s, t)
        Rest(u) == SubSeq(u, p + 1, Len(u))
        n == CommonLines(Reverse(Rest(s)), Reverse(Rest(t)))
    IN [before |-> SubSeq(s, 1, p),
        ours |-> SubSeq(s, p + 1, Len(s) - n),
        theirs |-> SubSeq(t, p + 1, Len(t) - n),
        after |-> SubSeq(s, Len(s) - n + 1, Len(s))]

\* git joins conflicts that are three lines apart or fewer into one.
OneConflict(s, t) ==
    LET h == Hunk(s, t) IN
    \A i \in 1..(Len(h.ours) - 3), j \in 1..(Len(h.theirs) - 3) :
        SubSeq(h.ours, i, i + 3) # SubSeq(h.theirs, j, j + 3)

\* A conflict in the style "merge", or with the base's lines in "diff3".
Conflict(s, t, base) ==
    LET h == Hunk(s, t) IN
    h.before \o <<"open">> \o h.ours \o base \o <<"sep">> \o h.theirs
        \o <<"close">> \o h.after
=============================================================================
