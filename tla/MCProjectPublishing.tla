-------------------------- MODULE MCProjectPublishing --------------------------
(* A small instance of ProjectPublishing: three publications, one after    *)
(* another or two at a time, of a page or of an issue.                     *)
EXTENDS ProjectPublishing, TLC

Symmetry == Permutations(Requests)
================================================================================
