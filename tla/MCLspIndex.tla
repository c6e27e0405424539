----------------------------- MODULE MCLspIndex -----------------------------
(* Two configurations, of which one ignores a file. *)
EXTENDS LspIndex

MCFiles == {"guide", "vendored"}
\* Contents matter by being the same or not, so both files may begin with 1.
MCInitialDisks == {[f \in MCFiles |-> 1]}
MCConfigs == {"plain", "strict"}
MCIgnores(c) == IF c = "strict" THEN {"vendored"} ELSE {}
=============================================================================
