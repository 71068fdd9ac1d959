----------------------------- MODULE StudyScheduler -----------------------------
(***************************************************************************)
(* One run of the scheduler that PLAN solves with: the free time that is   *)
(* left of the planning window, the pieces the work is cut into, the       *)
(* places a piece can have, the constraints, the objective, and the result.*)
(*                                                                         *)
(* How CP-SAT searches is left open: it finds an optimum, or any choice    *)
(* that meets the constraints, or none, when its time runs out.  There are *)
(* no time zones.  Time is counted in minutes, times of day from midnight. *)
(*                                                                         *)
(* Sources: scheduling/solver.py,                                          *)
(* scheduling/{constraints,models,objectives}.py.                          *)
(***************************************************************************)
EXTENDS Integers, Sequences, FiniteSets, SequencesExt

CONSTANTS Problems,       \* the problems to be solved
          Slot,           \* SLOT_MINUTES, the grid sessions start on
          Day,            \* minutes of a day, a multiple of Slot
          Earliest,       \* earliest_study_time
          Latest,         \* latest_study_time
          Break,          \* minimum_break_minutes
          MaxCandidates,  \* MAX_CANDIDATES
          Hour,           \* minutes of an hour
          Weights         \* SchedulingWeights, by name

ASSUME SchedulerAssumption ==
  /\ Slot \in Nat \ {0} /\ Day \in Nat \ {0} /\ Day % Slot = 0
  /\ Earliest \in Nat /\ Latest \in Nat /\ Earliest < Latest /\ Latest < Day
  /\ Break \in Nat /\ MaxCandidates \in Nat \ {0} /\ Hour \in Nat \ {0}

(* The constraints of scheduling/models.py; tasks are told apart by their  *)
(* ids.                                                                    *)
ASSUME ProblemsAssumption ==
  \A p \in Problems :
    /\ p.from \in Int /\ p.to \in Int
    /\ p.preferred \in Nat \ {0} /\ p.maximum \in Nat \ {0} /\ p.preferred <= p.maximum
    /\ IsFiniteSet(p.tasks) /\ IsFiniteSet(p.busy) /\ IsFiniteSet(p.locked)
    /\ \A t \in p.tasks : t.estimate \in Nat \ {0} /\ t.deadline \in Int
    /\ \A t, u \in p.tasks : t.name = u.name => t = u
    /\ \A b \in p.busy \cup p.locked : b.start \in Int /\ b.end \in Int /\ b.start < b.end

VARIABLES
  problem,      \* SchedulingProblem
  step,         \* how far solve() is
  free,         \* the free windows
  candidates,   \* the candidate slots
  chosen,       \* those the solver has selected
  result        \* unscheduled minutes of each task, and the status

schedulerVars == <<problem, step, free, candidates, chosen, result>>

NoResult == [status |-> "none", unscheduled |-> <<>>]

SchedulerInit ==
  /\ problem \in Problems /\ step = "posed"
  /\ free = {} /\ candidates = {} /\ chosen = {} /\ result = NoResult

Lesser(a, b) == IF a < b THEN a ELSE b
Greater(a, b) == IF a > b THEN a ELSE b

Minutes(sessions) == FoldSet(LAMBDA s, sum : sum + s.end - s.start, 0, sessions)

--------------------------------------------------------------------------------
(* Free time.                                                              *)

CeilToSlot(t) == ((t + Slot - 1) \div Slot) * Slot

FloorToSlot(t) == (t \div Slot) * Slot

Window(start, end) == [start |-> start, end |-> end]

NonEmpty(windows) == {w \in windows : w.start < w.end}

DaysOf(start, end) == (start \div Day)..(end \div Day)

(* availability_windows: the planning window, cut at midnight.             *)
Windows ==
  NonEmpty({Window(Greater(problem.from, d * Day), Lesser(problem.to, (d + 1) * Day)) :
              d \in DaysOf(problem.from, problem.to)})

(* What each day that a window touches has in common with the study hours; *)
(* empty intersections are dropped before and after they are rounded.      *)
(* (weekend_available keeps its default: weekends are days like others.)   *)
Clipped ==
  LET inside(w, d) == Window(Greater(w.start, d * Day + Earliest), Lesser(w.end, d * Day + Latest))
      parts == NonEmpty(UNION {{inside(w, d) : d \in DaysOf(w.start, w.end)} : w \in Windows})
  IN  NonEmpty({Window(CeilToSlot(p.start), FloorToSlot(p.end)) : p \in parts})

Overlaps(a, b) == a.start < b.end /\ b.start < a.end

After(w, b) == Window(Greater(w.start, CeilToSlot(b.end)), w.end)

Before(w, b) == Window(w.start, Lesser(w.end, FloorToSlot(b.start)))

Subtract(windows, b) ==
  NonEmpty(UNION {IF Overlaps(w, b) THEN {Before(w, b), After(w, b)} ELSE {w} : w \in windows})

SubtractAll(windows, intervals) == FoldSet(LAMBDA b, left : Subtract(left, b), windows, intervals)

--------------------------------------------------------------------------------
(* The pieces.                                                             *)

LockedOf(t) == {s \in problem.locked : s.task = t.name}

Requirement(t) == Greater(0, t.estimate - Minutes(LockedOf(t)))

Target == Lesser(problem.preferred, problem.maximum)

Chunks(total) ==
  LET full == (total - 1) \div Target
  IN  [k \in 1..full + 1 |-> IF k <= full THEN Target ELSE total - full * Target]

Borrow(chunks, n) == [chunks EXCEPT ![n - 1] = @ - (Slot - chunks[n]), ![n] = Slot]

(* decompose_minutes: a last piece shorter than a slot joins the one       *)
(* before it, or takes from it when both together are too long.            *)
Fragments(total) ==
  LET chunks == Chunks(total)
      n == Len(chunks)
  IN  IF total = 0 THEN <<>>
      ELSE IF n < 2 \/ chunks[n] >= Slot THEN chunks
      ELSE IF chunks[n - 1] + chunks[n] <= problem.maximum
           THEN [k \in 1..n - 1 |-> IF k = n - 1 THEN chunks[k] + chunks[n] ELSE chunks[k]]
      ELSE Borrow(chunks, n)

--------------------------------------------------------------------------------
(* The places.                                                             *)

Places(t, k, w, stride) ==
  LET length == Fragments(Requirement(t))[k]
      first == CeilToSlot(Greater(w.start, problem.from))
      last == Lesser(w.end, t.deadline) - length
  IN  {[task |-> t.name, fragment |-> k, start |-> s, end |-> s + length] :
         s \in {s \in first..last : (s - first) % stride = 0}}

CandidateSlots(stride) ==
  UNION {UNION {Places(t, k, w, stride) : k \in DOMAIN Fragments(Requirement(t)), w \in free} :
           t \in problem.tasks}

(* With too many of them the starts are taken further apart.               *)
Offered ==
  LET n == Cardinality(CandidateSlots(Slot))
      scale == (n + MaxCandidates - 1) \div MaxCandidates
  IN  IF n > MaxCandidates THEN CandidateSlots(Slot * scale) ELSE CandidateSlots(Slot)

--------------------------------------------------------------------------------
(* The constraints.                                                        *)

(* Mutant: the sweep stops at the end of the session, before its break.    *)
MutantNear(left, right) == right.start < left.end

(* Where the sweep over the candidates in the order of their starts stops. *)
Near(left, right) == right.start < left.end + Break

Rested(s) == [s EXCEPT !.end = @ + Break]

Conflict(left, right) ==
  /\ left.start <= right.start /\ Near(left, right)
  /\ Overlaps(Rested(left), right) \/ Overlaps(Rested(right), left)

Feasible(selection) ==
  /\ \A a, b \in selection : a # b =>
       ~Conflict(a, b) /\ (a.task = b.task => a.fragment # b.fragment)
  /\ \A t \in problem.tasks : Minutes({s \in selection : s.task = t.name}) <= Requirement(t)

--------------------------------------------------------------------------------
(* The objective.                                                          *)

TaskOf(s) == CHOOSE t \in problem.tasks : t.name = s.task

InPeriod(s) ==
  LET hour == (s.start % Day) \div Hour IN
  CASE problem.period = "morning" -> 7 <= hour /\ hour < 12
    [] problem.period = "afternoon" -> 12 <= hour /\ hour < 17
    [] problem.period = "evening" -> 17 <= hour /\ hour < 22
    [] OTHER -> FALSE

(* _slot_score: how soon the task is due, and not how near the place is to *)
(* that; its priority; a little for an early place, for one in the         *)
(* preferred part of the day and for a piece of full length.               *)
Score(s) ==
  LET hours == Greater(1, (TaskOf(s).deadline - problem.from) \div Hour) IN
  Greater(0, 168 - hours) * Weights.urgency + (6 - TaskOf(s).priority) * Weights.priority
    - (Greater(0, s.start - problem.from) \div Slot) * Weights.earliness
    + (IF InPeriod(s) THEN Weights.period ELSE 0)
    + (IF s.end - s.start >= problem.preferred THEN Weights.fragmentation ELSE 0)

Total(f(_), elements) == FoldSet(LAMBDA e, sum : sum + f(e), 0, elements)

On(d, sessions) == {s \in sessions : s.start \div Day = d}

OfferedDays == {c.start \div Day : c \in candidates}

(* What the selection puts on a day beyond a fair share of the work.       *)
DailyOverage(selection) ==
  LET share == Total(Requirement, problem.tasks) \div Cardinality(OfferedDays)
      Overage(d) == Greater(0, Minutes(On(d, selection)) - share)
  IN  IF Cardinality(OfferedDays) < 2 THEN 0 ELSE Total(Overage, OfferedDays)

(* Second and further sessions of a task on one day, locked ones counted,  *)
(* on the days that a session of it could be added to.                     *)
SameTaskPenalty(selection) ==
  LET Sessions(t, d) ==
        Cardinality({s \in On(d, selection) : s.task = t.name})
          + Cardinality(On(d, LockedOf(t)))
      PenaltyOf(pair) ==
        LET n == Sessions(pair[1], pair[2]) IN
        Greater(0, n - 1) * Weights.second + Greater(0, n - 2) * Weights.additional
  IN  Total(PenaltyOf, {<<TaskOf(c), c.start \div Day>> : c \in candidates})

(* Mutant: the minutes of a place are not worth anything.                  *)
MutantGain(s) == Score(s)

Gain(s) == Score(s) + Minutes({s}) * Weights.minute

Value(selection) ==
  Total(Gain, selection) - DailyOverage(selection) * Weights.balance - SameTaskPenalty(selection)

Optima ==
  LET valued == {<<selection, Value(selection)>> :
                   selection \in {selection \in SUBSET candidates : Feasible(selection)}}
      best == Max({v[2] : v \in valued})
  IN  {v[1] : v \in {v \in valued : v[2] = best}}

--------------------------------------------------------------------------------
(* A StudySession must begin before it ends, or solve() raises.            *)
Constructible(selection) == \A s \in selection : s.start < s.end

(* _result.                                                                *)
Result(new, status) ==
  LET unscheduled == [n \in {t.name : t \in problem.tasks} |->
        LET t == CHOOSE t \in problem.tasks : t.name = n
        IN  Greater(0, t.estimate - Minutes(LockedOf(t)) - Minutes({s \in new : s.task = n}))]
      conflicts == \E n \in DOMAIN unscheduled : unscheduled[n] > 0
  IN  [status |-> IF conflicts /\ new = {} THEN "INFEASIBLE" ELSE status, unscheduled |-> unscheduled]

--------------------------------------------------------------------------------
(* validate_session_adjustments: the rules for a schedule that the user    *)
(* sends back, with a block moved, locked or removed.                      *)
AdjustmentValid(sessions) ==
  /\ \A s \in sessions :
       /\ \E t \in problem.tasks : t.name = s.task /\ s.end <= t.deadline
       /\ s.end - s.start <= problem.maximum
       /\ \E w \in Windows : w.start <= s.start /\ s.end <= w.end
       /\ s.start \div Day = s.end \div Day
       /\ Earliest <= s.start % Day /\ s.end % Day <= Latest
       /\ ~\E b \in problem.busy : Overlaps(s, b)
  /\ \A t \in problem.tasks : Minutes({s \in sessions : s.task = t.name}) <= t.estimate
  /\ \A a, b \in sessions : a # b /\ a.start <= b.start => b.start - a.end >= Break

--------------------------------------------------------------------------------
(* solve().                                                                *)

Clip ==
  /\ step = "posed" /\ step' = "clipped"
  /\ free' = Clipped
  /\ UNCHANGED <<problem, candidates, chosen, result>>

TakeOut ==
  /\ step = "clipped" /\ step' = "free"
  /\ free' = SubtractAll(SubtractAll(free, problem.busy), problem.locked)
  /\ UNCHANGED <<problem, candidates, chosen, result>>

Offer ==
  /\ step = "free" /\ step' = "offered"
  /\ candidates' = Offered
  /\ UNCHANGED <<problem, free, chosen, result>>

NothingToOffer == candidates = {} /\ \E t \in problem.tasks : Requirement(t) > 0

Selected(selection, status) ==
  /\ step = "offered" /\ ~NothingToOffer
  /\ Constructible(selection)
  /\ step' = "solved" /\ chosen' = selection
  /\ result' = Result(selection, status)
  /\ UNCHANGED <<problem, free, candidates>>

SelectsBest == \E selection \in Optima : Selected(selection, "OPTIMAL")

(* Time runs out with a solution that need not be the best.                *)
SelectsAny(selection) == Feasible(selection) /\ Selected(selection, "FEASIBLE")

(* Nothing to choose from, or no solution in time.                         *)
SolvesNothing ==
  /\ step = "offered" /\ step' = "solved"
  /\ result' = Result({}, "INFEASIBLE")
  /\ UNCHANGED <<problem, free, candidates, chosen>>

(* It has selected a place that ends before it begins.                     *)
Raises ==
  /\ step = "offered"
  /\ \E c \in candidates : Feasible({c}) /\ ~Constructible({c})
  /\ step' = "raised"
  /\ UNCHANGED <<problem, free, candidates, chosen, result>>

SchedulerNext ==
  \/ Clip
  \/ TakeOut
  \/ Offer
  \/ SelectsBest
  \/ \E selection \in SUBSET candidates : SelectsAny(selection)
  \/ SolvesNothing
  \/ Raises

SchedulerSpec == SchedulerInit /\ [][SchedulerNext]_schedulerVars

--------------------------------------------------------------------------------
(* Properties.                                                             *)

During(t, w) == w.start <= t /\ t < w.end

(* Every session that solve() adds keeps the hard rules, minute by minute: *)
(* it lies in the planning window and in the study hours of one day, off   *)
(* everything busy or locked, before its deadline and at least a break     *)
(* away from the other new ones; no task gets more time than it is         *)
(* estimated to need; and the result counts what is left of each.  Where   *)
(* nothing was locked, the validator of the user's adjustments, written    *)
(* independently, takes the schedule as it is.                             *)
RulesKept ==
  step = "solved" =>
    /\ \A s \in chosen :
         /\ s.start < s.end /\ problem.from <= s.start
         /\ \A t \in problem.tasks : t.name = s.task => s.end <= t.deadline
         /\ \A m \in s.start..s.end - 1 :
              /\ m < problem.to /\ Earliest <= m % Day /\ m % Day < Latest
              /\ ~\E b \in problem.busy \cup problem.locked : During(m, b)
         /\ \A r \in chosen \ {s} : r.end + Break <= s.start \/ s.end + Break <= r.start
    /\ \A t \in problem.tasks :
         LET done == Minutes(LockedOf(t)) + Minutes({s \in chosen : s.task = t.name})
         IN  /\ (\E s \in chosen : s.task = t.name) => done <= t.estimate
             /\ result.unscheduled[t.name] = IF done > t.estimate THEN 0 ELSE t.estimate - done
    /\ problem.locked = {} /\ Target >= Slot => AdjustmentValid(chosen)

(* The pieces add up to the work, whatever is merged or borrowed.  Unless  *)
(* sessions are shorter than a slot, each has a length and none is longer  *)
(* than the maximum; and none is shorter than a slot either, unless there  *)
(* is less work or sessions are shorter than two.                          *)
WorkIsSplit ==
  \A t \in problem.tasks :
    LET pieces == Fragments(Requirement(t))
        lengths == {pieces[k] : k \in DOMAIN pieces}
    IN  /\ FoldLeft(LAMBDA a, b : a + b, 0, pieces) = Requirement(t)
        /\ Target >= Slot => lengths \subseteq 1..problem.maximum
        /\ Target >= 2 * Slot - 1 => \A l \in lengths : l >= Lesser(Slot, Requirement(t))

(* The work is split without loss, and what the solver makes of the pieces *)
(* keeps the rules.                                                        *)
ScheduleKeepsRules == WorkIsSplit /\ RulesKept

(* The penalties only move work about: an optimal schedule leaves no piece *)
(* out that still had a place, as long as its minutes are worth more than  *)
(* a third session on one day, as all but the shortest are.                *)
NothingLeftOut ==
  step = "solved" /\ result.status = "OPTIMAL" =>
    \A c \in candidates \ chosen :
      Minutes({c}) * Weights.minute > Weights.second + Weights.additional =>
        ~Feasible(chosen \cup {c})

--------------------------------------------------------------------------------
(* Claims of comments and documents that the code does not keep.           *)

(* Borrowing leaves both pieces usable without exceeding the configured    *)
(* maximum (solver.py, decompose_minutes).                                 *)
MaximumKept ==
  \A t \in problem.tasks : \A k \in DOMAIN Fragments(Requirement(t)) :
    Fragments(Requirement(t))[k] \in 1..problem.maximum

(* Slots are rewarded the more the closer they are to the deadline         *)
(* (docs/architecture/scheduling-engine.md, deadline_urgency).             *)
CloserIsMoreUrgent ==
  \A c, d \in candidates :
    c.task = d.task /\ c.fragment = d.fragment /\ c.start < d.start => Score(c) <= Score(d)
=================================================================================
