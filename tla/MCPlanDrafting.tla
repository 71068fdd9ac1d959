----------------------------- MODULE MCPlanDrafting -----------------------------
(* A small instance of PlanDrafting: three slots hold two sessions with a  *)
(* break, or a locked one and its neighbour; two requests race.            *)
EXTENDS PlanDrafting, TLC

Symmetry == Permutations(Requests)
=================================================================================
