----------------------------- MODULE MCLspLint -----------------------------
(* Instances of LspLint for TLC.                                           *)
EXTENDS LspLint

\* A reload may turn every document into an ignored one, and back.
MCIgnored(c) == IF c % 2 = 1 THEN Uris ELSE {}
=============================================================================
