---------------------------- MODULE MCApprovalPlan ----------------------------
(* A small instance of ApprovalPlan.  Two actions make siblings, two       *)
(* contents and two destinations let a proposal change in either part, and *)
(* two sessions race for one approval.                                     *)
EXTENDS ApprovalPlan, TLC

(* Requests are interchangeable, and so are the actions of a plan.         *)
Symmetry == Permutations(Sessions) \cup Permutations(Actions)
=================================================================================
