---------------------------- MODULE ApprovedEffect -----------------------------
(***************************************************************************)
(* What Relay promises of the side effects of an approved run, whatever    *)
(* workflow and runtime carry them out: no provider is written to before   *)
(* the approved run is released for execution; each approved item is       *)
(* written at most once, also when requests are retried, lost or killed;   *)
(* only what was written is recorded, and no record is taken back; a run   *)
(* that has ended is not let through again and does not reopen.  Writes    *)
(* and records may come after the end: cancellation is best effort and     *)
(* nothing that was written is rolled back.                                *)
(***************************************************************************)
EXTENDS Naturals

CONSTANT Items   \* what approved actions can create

VARIABLES
  released,   \* an execution request has been let through
  ended,      \* the run has its final status
  writes,     \* provider writes made for each item
  recorded    \* items Relay has recorded as created

vars == <<released, ended, writes, recorded>>

Init ==
  /\ released = FALSE /\ ended = FALSE
  /\ writes = [i \in Items |-> 0] /\ recorded = {}

Written == {i \in Items : writes[i] > 0}

LetThrough ==
  /\ ~released /\ ~ended
  /\ released' = TRUE
  /\ UNCHANGED <<ended, writes, recorded>>

Write(some) ==
  /\ released /\ some \cap Written = {}
  /\ writes' = [i \in Items |-> IF i \in some THEN 1 ELSE writes[i]]
  /\ UNCHANGED <<released, ended, recorded>>

Record(some) ==
  /\ some \subseteq Written
  /\ recorded' = recorded \cup some
  /\ ended' \in BOOLEAN /\ (ended => ended')
  /\ UNCHANGED <<released, writes>>

Next ==
  \/ LetThrough
  \/ \E some \in SUBSET Items : Write(some) \/ Record(some)

Spec == Init /\ [][Next]_vars
================================================================================
