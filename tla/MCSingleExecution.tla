--------------------------- MODULE MCSingleExecution ---------------------------
(* A small instance of SingleExecution: two items give partial results,    *)
(* two requests race, two polls separate answered, given up and exhausted. *)
(* It checks a liveness property, so nothing is declared symmetric.        *)
EXTENDS SingleExecution, TLC
================================================================================
