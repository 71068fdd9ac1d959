------------------------ MODULE MCCollaborateExecution -------------------------
(* A small instance of CollaborateExecution: two actions can be handled in *)
(* either order, two requests share one loop.                              *)
EXTENDS CollaborateExecution, TLC

Symmetry == Permutations(Sessions)
================================================================================
