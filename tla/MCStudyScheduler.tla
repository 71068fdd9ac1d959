--------------------------- MODULE MCStudyScheduler ---------------------------
(* Small problems for StudyScheduler: a planning window of a day and a     *)
(* half that begins at an odd minute, two tasks, busy intervals and a      *)
(* locked session off the grid, and lengths of sessions from less than a   *)
(* slot up.  Slots are two minutes long here.                              *)
EXTENDS StudyScheduler

Task(name, estimate, deadline) ==
  [name |-> name, estimate |-> estimate, deadline |-> deadline,
   priority |-> IF name = "essay" THEN 1 ELSE 4]

(* objectives.py, a minute here being worth seven and a half of its own.   *)
MCWeights ==
  [minute |-> 7500, urgency |-> 40, priority |-> 30, period |-> 12, fragmentation |-> 8,
   earliness |-> 1, balance |-> 60, second |-> 250, additional |-> 1500]

Lengths == {<<1, 1>>, <<2, 2>>, <<3, 3>>, <<3, 4>>, <<4, 5>>}

Posed(e, d, reading, to, l, busy, locked) ==
  [tasks |-> {Task("essay", e, d), Task("reading", 2, reading)}, from |-> 1, to |-> to,
   busy |-> busy, locked |-> locked, preferred |-> l[1], maximum |-> l[2], period |-> "morning"]

(* The last ones have work that is not due within a week of hours.         *)
MCProblems ==
  {Posed(e, d, 10, to, l, busy, locked) :
     e \in {3, 5, 7}, d \in {9, 16}, to \in {9, 17}, l \in Lengths,
     busy \in {{}, {Window(3, 5)}, {Window(2, 4), Window(7, 8)}},
     locked \in {{}, {[task |-> "essay", start |-> 5, end |-> 7]}}}
  \cup {Posed(e, 16, 180, 17, l, {}, locked) :
          e \in {3, 5}, l \in {<<2, 2>>, <<3, 4>>},
          locked \in {{}, {[task |-> "essay", start |-> 5, end |-> 7]}}}
===============================================================================
