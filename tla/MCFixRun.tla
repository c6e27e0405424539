------------------------------ MODULE MCFixRun ------------------------------
(* Texts for FixRun: a body with trailing spaces and an unaligned table, a  *)
(* line that is too long, a text over max-input-size, and a text on which   *)
(* two rules never come to rest.                                            *)
EXTENDS FixRun

Bodies == [spaces : {0, 1}, table : {0, 1}]

Plain == [body : Bodies, long : {0, 1}, kind : {"plain"}, huge : {0}]
\* The rules never agree on it.
Restless == [body : Bodies, long : {0}, kind : {"restless"}, huge : {0}]
Huge == [body : Bodies, long : {0}, kind : {"plain"}, huge : {1}]

PlainDocs == Plain \cup Restless \cup Huge

ThreeFiles == {"a", "b", "c"}
ThreePaths == <<"a", "b", "c">>

\* Three files of which the last is ignored.
ThreeDisks ==
    {k \in [ThreeFiles -> PlainDocs] :
        /\ k["c"].body = [spaces |-> 1, table |-> 1] /\ k["c"].kind = "plain"
        /\ k["a"].long = 0}

MCRules == {"MDS001", "MDS006", "MDS025"}
MCFixableRules == <<"MDS006", "MDS025">>

MCFinds(r, d, k) ==
    \/ r = "MDS001" /\ d.long = 1
    \/ r = "MDS006" /\ (d.kind = "restless" \/ d.body.spaces = 1)
    \/ r = "MDS025" /\ (d.kind = "restless" \/ d.body.table = 1)

\* Aligning the table leaves trailing spaces, for the next pass.  In a restless
\* text MDS006 adds what MDS025 takes away, and every pass changes it.
MCRepair(r, d, k) ==
    CASE d.kind = "restless" /\ r = "MDS006" -> [d EXCEPT !.body.spaces = 1 - @]
      [] d.kind = "restless" /\ r = "MDS025" ->
            [d EXCEPT !.body.table = 1 - d.body.spaces]
      [] r = "MDS006" /\ d.kind # "restless" -> [d EXCEPT !.body.spaces = 0]
      [] r = "MDS025" /\ d.kind # "restless" -> [d EXCEPT !.body = [spaces |-> 1, table |-> 0]]
      [] OTHER -> d

MCUsable(d) == d.huge = 0
=============================================================================
