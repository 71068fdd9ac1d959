---------------------------- MODULE MCTaskProposals ----------------------------
(* A small instance of TaskProposals: one proposal, whose source may have  *)
(* two drafts, one manual task and two requests; two works, each alike     *)
(* itself only.  Proposals share nothing but the comparison at capture.    *)
EXTENDS TaskProposals, TLC

MCAlike == {<<w, w>> : w \in Works}

Symmetry == Permutations(Requests) \cup Permutations(Works)
================================================================================
