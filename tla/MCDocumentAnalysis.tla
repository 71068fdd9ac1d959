-------------------------- MODULE MCDocumentAnalysis ---------------------------
(* A small instance of DocumentAnalysis: two drafts tell an edit from what *)
(* was proposed, two files an orphan from the source, two requests race.   *)
EXTENDS DocumentAnalysis, TLC
================================================================================
