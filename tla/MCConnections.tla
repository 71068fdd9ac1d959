----------------------------- MODULE MCConnections -----------------------------
(* A small instance of Connections: one account, two authorizations that   *)
(* may overlap, and two requests, at each of the three providers.          *)
EXTENDS Connections, TLC

Symmetry == Permutations(Requests) \cup Permutations(Authorizations)
================================================================================
