------------------------------ MODULE PlanDrafting ------------------------------
(***************************************************************************)
(* The first half of a PLAN run: setup, calendar availability, solving,    *)
(* locking and removing study sessions, the request for approval, and the  *)
(* export to Notion, which needs no approval.                              *)
(*                                                                         *)
(* The run keeps its plan twice: input_payload (what the scheduler starts  *)
(* from) and plan_payload (its result, which the approval freezes).  Lock, *)
(* remove and export read input_payload without the row lock and write it  *)
(* back later, and so does a calendar load that has to refresh the Google  *)
(* token, since the refresh commits.  Every other request holds the lock   *)
(* from read to commit and is one step.                                    *)
(*                                                                         *)
(* Time is a grid of slots, a study session is one slot, the minimum break *)
(* is one slot.  All work belongs to one task of `need' slots.  OPTIMAL    *)
(* stands for FEASIBLE too.                                                *)
(*                                                                         *)
(* Sources: workflows/study_plan/service.py, api/plan.py,                  *)
(* scheduling/solver.py (solve, _result), scheduling/constraints.py,       *)
(* connectors/google/service.py (connection, _refresh).                    *)
(***************************************************************************)
EXTENDS Naturals, FiniteSets, RelayDomain

CONSTANTS LastSlot,    \* the planning window is 0..LastSlot
          Needs,       \* how much work a setup can ask to plan
          Calendars,   \* what the calendar can report as busy
          Requests     \* concurrent HTTP requests

Slots == 0 .. LastSlot

ASSUME PlanAssumption ==
  LastSlot \in Nat /\ Needs \subseteq Nat \ {0} /\ Calendars \subseteq SUBSET Slots

VARIABLES
  run,          \* WorkflowRun.status
  payload,      \* input_payload
  plan,         \* plan_payload: the scheduling result
  frozen,       \* the sessions of the ProposedAction's payload
  pc,           \* where each request is
  memory,       \* what each request means to write into input_payload
  about,        \* the session each lock or remove request is about
  overwritten   \* an export or a load has put an older input_payload back

request == <<pc, memory, about>>
vars == <<run, payload, plan, frozen, request, overwritten>>

Empty == [need |-> 0, busy |-> {}, sessions |-> {}, locked |-> {}]
NoPlan == [status |-> "none", sessions |-> {}]

Init ==
  /\ run = "DRAFT" /\ payload = Empty /\ plan = NoPlan /\ frozen = {}
  /\ pc = [r \in Requests |-> "idle"]
  /\ memory = [r \in Requests |-> Empty]
  /\ about = [r \in Requests |-> 0]
  /\ overwritten = FALSE

--------------------------------------------------------------------------------
(* Setup.                                                                  *)

Setup(need) ==
  /\ run = "DRAFT"
  /\ payload' = [Empty EXCEPT !.need = need]
  /\ UNCHANGED <<run, plan, frozen, request, overwritten>>

(* The calendar is asked under the lock; no calendar selected, no busy     *)
(* intervals.  A payload that was never set up has no window to ask for.   *)
LoadAvailability(busy) ==
  /\ run = "DRAFT" /\ payload.need > 0
  /\ payload' = [payload EXCEPT !.busy = busy]
  /\ UNCHANGED <<run, plan, frozen, request, overwritten>>

Begin(r, label, in, x) ==
  /\ pc[r] = "idle"
  /\ pc' = [pc EXCEPT ![r] = label]
  /\ memory' = [memory EXCEPT ![r] = in]
  /\ about' = [about EXCEPT ![r] = x]
  /\ UNCHANGED <<run, payload, plan, frozen, overwritten>>

End(r) ==
  /\ pc' = [pc EXCEPT ![r] = "idle"]
  /\ memory' = [memory EXCEPT ![r] = Empty]
  /\ about' = [about EXCEPT ![r] = 0]

(* An expired access token is refreshed and committed in the middle of the *)
(* load, which gives the row lock up; the calendar is asked after that,    *)
(* and nothing looks at the status again.                                  *)
RefreshToken(r) ==
  /\ run = "DRAFT" /\ payload.need > 0
  /\ Begin(r, "loading", payload, 0)

PutBack(r, in) ==
  /\ payload' = in
  /\ overwritten' = (overwritten \/ memory[r] # payload)
  /\ End(r)
  /\ UNCHANGED <<run, plan, frozen>>

LoadEnd(r, busy) ==
  /\ pc[r] = "loading"
  /\ PutBack(r, [memory[r] EXCEPT !.busy = busy])

--------------------------------------------------------------------------------
(* The scheduler and the validator of adjustments.                         *)

Apart(sessions) == \A x, y \in sessions : x < y => y - x > 1

(* What CPSATStudyScheduler.solve may add to the locked sessions: slots of *)
(* the free windows, breaks between each other, no more than is required.  *)
(* Only the locked time itself is taken out of the free windows, not the   *)
(* break around it.                                                        *)
NewSessions(in) ==
  {new \in SUBSET (Slots \ (in.busy \cup in.locked)) :
     Apart(new) /\ (new = {} \/ Cardinality(new) + Cardinality(in.locked) <= in.need)}

(* _result: INFEASIBLE when work is left over and nothing was added.       *)
SolvedStatus(in, new) ==
  IF new = {} /\ Cardinality(in.locked) < in.need THEN "INFEASIBLE" ELSE "OPTIMAL"

(* Mutant: a block over a busy interval is accepted.                       *)
MutantValid(in, sessions) == Apart(sessions) /\ Cardinality(sessions) <= in.need

(* validate_session_adjustments                                            *)
Valid(in, sessions) ==
  Apart(sessions) /\ sessions \cap in.busy = {} /\ Cardinality(sessions) <= in.need

(* The first plan takes the run through ANALYZING to PLAN_READY in the     *)
(* same transaction.                                                       *)
Solve(new) ==
  /\ run \in {"DRAFT", "PLAN_READY"} /\ payload.need > 0
  /\ LET all == payload.locked \cup new
     IN /\ plan' = [status |-> SolvedStatus(payload, new), sessions |-> all]
        /\ payload' = [payload EXCEPT !.sessions = all]
  /\ run' = "PLAN_READY"
  /\ UNCHANGED <<frozen, request, overwritten>>

--------------------------------------------------------------------------------
(* Review.                                                                 *)

(* Mutant: new locks are added to the ones there were.                     *)
MutantAdjustedPayload(sessions, locked) ==
  [payload EXCEPT !.sessions = sessions, !.locked = @ \cup locked]

AdjustedPayload(sessions, locked) ==
  [payload EXCEPT !.sessions = sessions, !.locked = locked]

(* The status of the last result stays, unless nothing is scheduled.       *)
AdjustedStatus(sessions) ==
  IF sessions = {} /\ payload.need > 0 THEN "INFEASIBLE" ELSE plan.status

(* Mutant: sessions can be changed while their approval is pending.        *)
MutantAdjustable == run \in {"PLAN_READY", "AWAITING_APPROVAL"}

Adjustable == run = "PLAN_READY"

(* adjust_sessions, under the lock                                         *)
Adjust(sessions, locked) ==
  /\ Adjustable /\ Valid(payload, sessions)
  /\ payload' = AdjustedPayload(sessions, locked)
  /\ plan' = IF plan.status = "none" THEN plan
             ELSE [status |-> AdjustedStatus(sessions), sessions |-> sessions]
  /\ UNCHANGED <<run, frozen, overwritten>>

(* PUT /sessions: the user sends the whole list.                           *)
AdjustAll(sessions, locked) ==
  /\ Adjust(sessions, locked)
  /\ UNCHANGED request

(* lock_session and remove_session read the sessions with detail(), which  *)
(* takes no lock, and send the changed list to adjust_sessions.            *)
List(sessions, locked) == [Empty EXCEPT !.sessions = sessions, !.locked = locked]

LockBegin(r, x) ==
  /\ x \in payload.sessions
  /\ Begin(r, "locking", List(payload.sessions, payload.locked \cup {x}), x)

UnlockBegin(r, x) ==
  /\ x \in payload.sessions
  /\ Begin(r, "releasing", List(payload.sessions, payload.locked \ {x}), x)

RemoveBegin(r, x) ==
  /\ x \in payload.sessions
  /\ Begin(r, "releasing", List(payload.sessions \ {x}, payload.locked \ {x}), x)

AdjustEnd(r) ==
  /\ pc[r] \in {"locking", "releasing"}
  /\ Adjust(memory[r].sessions, memory[r].locked)
  /\ End(r)

--------------------------------------------------------------------------------
(* export_to_notion: reads the run without a lock in whatever status it    *)
(* is, creates the database, then writes back the payload it read.         *)

ExportBegin(r) ==
  /\ payload.need > 0
  /\ Begin(r, "exporting", payload, 0)

ExportEnd(r) ==
  /\ pc[r] = "exporting"
  /\ PutBack(r, memory[r])

(* The adjustment is refused, Notion or Google fail, or the request dies.  *)
RequestFails(r) ==
  /\ pc[r] # "idle"
  /\ End(r)
  /\ UNCHANGED <<run, payload, plan, frozen, overwritten>>

--------------------------------------------------------------------------------
(* Approval.                                                               *)

(* Mutant: the sessions of the other payload.                              *)
MutantFrozenSessions == payload.sessions

FrozenSessions == plan.sessions

RequestApproval ==
  /\ run = "PLAN_READY" /\ plan.sessions # {} /\ plan.status # "INFEASIBLE"
  /\ frozen' = FrozenSessions
  /\ run' = "AWAITING_APPROVAL"
  /\ UNCHANGED <<payload, plan, request, overwritten>>

(* The decision on the one approval (ApprovalPlan has the details).        *)
Resolve(status) ==
  /\ run = "AWAITING_APPROVAL"
  /\ run' = status
  /\ UNCHANGED <<payload, plan, frozen, request, overwritten>>

Cancel ==
  /\ CanTransition(run, "CANCELLED")
  /\ run' = "CANCELLED"
  /\ UNCHANGED <<payload, plan, frozen, request, overwritten>>

Next ==
  \/ \E need \in Needs : Setup(need)
  \/ \E busy \in Calendars \cup {{}} : LoadAvailability(busy)
  \/ \E r \in Requests : RefreshToken(r)
  \/ \E r \in Requests, busy \in Calendars : LoadEnd(r, busy)
  \/ \E new \in NewSessions(payload) : Solve(new)
  \/ \E sessions \in SUBSET Slots : \E locked \in SUBSET sessions : AdjustAll(sessions, locked)
  \/ \E r \in Requests, x \in Slots : LockBegin(r, x)
  \/ \E r \in Requests, x \in Slots : UnlockBegin(r, x)
  \/ \E r \in Requests, x \in Slots : RemoveBegin(r, x)
  \/ \E r \in Requests : AdjustEnd(r)
  \/ \E r \in Requests : ExportBegin(r)
  \/ \E r \in Requests : ExportEnd(r)
  \/ \E r \in Requests : RequestFails(r)
  \/ RequestApproval
  \/ \E status \in {"APPROVED", "REJECTED"} : Resolve(status)
  \/ Cancel

Spec == Init /\ [][Next]_vars

--------------------------------------------------------------------------------
Payloads == [need : Needs \cup {0}, busy : SUBSET Slots,
             sessions : SUBSET Slots, locked : SUBSET Slots]

(* Every variable holds a value of its type; what is locked is one of the  *)
(* sessions, also in the payload a request is about to write.              *)
TypeOK ==
  /\ run \in WorkflowStatus
  /\ payload \in Payloads /\ payload.locked \subseteq payload.sessions
  /\ plan \in [status : {"none", "OPTIMAL", "INFEASIBLE"}, sessions : SUBSET Slots]
  /\ frozen \in SUBSET Slots
  /\ pc \in [Requests -> {"idle", "loading", "locking", "releasing", "exporting"}]
  /\ memory \in [Requests -> Payloads] /\ about \in [Requests -> Slots]
  /\ \A r \in Requests : memory[r].locked \subseteq memory[r].sessions
  /\ overwritten \in BOOLEAN

(* What awaits approval or is approved is the schedule the user sees, and  *)
(* it is not an empty or infeasible one, whatever locks, removals, solves  *)
(* and exports were under way when the approval was asked for.             *)
FrozenIsPlanned ==
  run \in {"AWAITING_APPROVAL", "APPROVED"} =>
    frozen = plan.sessions /\ frozen # {} /\ plan.status # "INFEASIBLE"

(* The two copies of the plan agree: the schedule is the one the next      *)
(* solve starts from, it keeps clear of the busy intervals that were       *)
(* loaded, and schedules no more than there is to do, although lock and    *)
(* remove send lists they read without a lock.  An export or a calendar    *)
(* load that put back an older payload is the exception.                   *)
CopiesAgree ==
  plan.status # "none" /\ ~overwritten =>
    /\ plan.sessions = payload.sessions
    /\ plan.sessions \cap payload.busy = {}
    /\ Cardinality(plan.sessions) <= payload.need

PastReview == run \in WorkflowStatus \ {"DRAFT", "ANALYZING", "PLAN_READY"}

(* Once approval was asked for, no request begun before, no calendar load  *)
(* and no export changes the schedule the user sees or the frozen one.     *)
ReviewedPlanStands == [][PastReview => PastReview' /\ UNCHANGED <<plan, frozen>>]_vars

--------------------------------------------------------------------------------
(* Claims of the documentation that the code does not keep.                *)

(* No two scheduled sessions are closer than the minimum break (ADR-020).  *)
BreaksKept == Apart(plan.sessions)

(* A locked decision is never silently discarded (scheduling-engine.md):   *)
(* the end of a request takes no lock away but that of the session it was  *)
(* asked to unlock or remove.                                              *)
Released(r) == IF pc[r] = "releasing" THEN {about[r]} ELSE {}

Ends(r) == pc[r] # "idle" /\ pc'[r] = "idle"

LocksKept ==
  [][\A r \in Requests : Ends(r) => payload.locked \ Released(r) \subseteq payload'.locked]_vars
=================================================================================
