----------------------------- MODULE ApprovalPlan ------------------------------
(***************************************************************************)
(* One workflow run from PLAN_READY to the end of its human approval: the  *)
(* proposed actions are inserted and frozen, concurrent HTTP requests      *)
(* approve, reject, edit or cancel, and the run moves with the decisions.  *)
(*                                                                         *)
(* A request that takes the run's row lock before it reads anything is one *)
(* atomic action (lock ... commit).  ApprovalService.resolve reads the     *)
(* approval row before it has the lock, so it is two actions.              *)
(*                                                                         *)
(* Sources: services/workflows.py, services/approvals.py,                  *)
(* workflows/lecture_notes/service.py, services/runtime_execution.py.      *)
(***************************************************************************)
EXTENDS Integers, FiniteSets, RelayDomain

CONSTANTS Actions,       \* identities of the proposed actions of the run
          Contents,      \* what a proposal says, apart from where it goes
          Destinations,  \* where a proposal goes
          NoPayload,     \* a payload column that is NULL
          NoRequest,     \* an HTTP session that serves no request
          Sessions       \* concurrent HTTP requests

Payload == [content : Contents, dest : Destinations]

ASSUME PlanAssumption ==
  /\ IsFiniteSet(Actions)
  /\ NoPayload \notin Payload

VARIABLES
  workflow,        \* the run's definition: LEARN, PLAN or COLLABORATE
  run,             \* WorkflowRun.status
  actionStatus,    \* ProposedAction.status, "NONE" while the row does not exist
  payload,         \* ProposedAction.payload
  approvalStatus,  \* ApprovalRequest.status, "NONE" while the row does not exist
  original,        \* ApprovalRequest.original_payload
  approved,        \* ApprovalRequest.approved_payload
  decisionEvents,  \* ACTION_APPROVED and ACTION_REJECTED audit events of an action
  session          \* the resolve request a session serves

vars == <<workflow, run, actionStatus, payload, approvalStatus, original, approved,
          decisionEvents, session>>

Workflows == {"LEARN", "PLAN", "COLLABORATE"}

Open == {"PROPOSED", "EDITED"}

(* The body of a resolve request and the approval status it first read.    *)
Request ==
  [action : Actions, approve : BOOLEAN, sent : Payload \cup {NoPayload},
   read : ApprovalStatus]

Planned == {a \in Actions : actionStatus[a] # "NONE"}

Requested == {a \in Actions : approvalStatus[a] # "NONE"}

(* The approval gate of apply_transition, on the rows it reads back.       *)
ApprovalGate(target) ==
  target \in {"AWAITING_APPROVAL", "APPROVED", "QUEUED"} =>
    /\ Planned # {}
    /\ Planned = Requested
    /\ target \in {"APPROVED", "QUEUED"} =>
         \A a \in Requested : approvalStatus[a] = "APPROVED"
    /\ target = "AWAITING_APPROVAL" =>
         \A a \in Requested : approvalStatus[a] = "PENDING"

(* apply_transition: a refused transition rolls the whole request back, so *)
(* it is a guard of the action that makes it.                              *)
ApplyTransition(target) ==
  /\ CanTransition(run, target)
  /\ ApprovalGate(target)'
  /\ run' = target

Init ==
  /\ workflow \in Workflows
  /\ run = "PLAN_READY"
  /\ actionStatus = [a \in Actions |-> "NONE"]
  /\ payload = [a \in Actions |-> NoPayload]
  /\ approvalStatus = [a \in Actions |-> "NONE"]
  /\ original = [a \in Actions |-> NoPayload]
  /\ approved = [a \in Actions |-> NoPayload]
  /\ decisionEvents = [a \in Actions |-> 0]
  /\ session = [s \in Sessions |-> NoRequest]

--------------------------------------------------------------------------------
(* The planning services insert the proposals and call request_approvals   *)
(* in one transaction.  LEARN and PLAN propose exactly one action.         *)
RequestApprovals(S, proposal) ==
  /\ run = "PLAN_READY"
  /\ S # {} /\ Requested = {}
  /\ workflow \in {"LEARN", "PLAN"} => Cardinality(S) = 1
  /\ actionStatus' = [a \in Actions |-> IF a \in S THEN "PROPOSED" ELSE actionStatus[a]]
  /\ payload' = [a \in Actions |-> IF a \in S THEN proposal[a] ELSE payload[a]]
  /\ approvalStatus' = [a \in Actions |-> IF a \in S THEN "PENDING" ELSE approvalStatus[a]]
  /\ original' = payload'
  /\ ApplyTransition("AWAITING_APPROVAL")
  /\ UNCHANGED <<workflow, approved, decisionEvents, session>>

(* resolve, before the lock: find the approval row.                        *)
ResolveBegin(s, a, approve, sent) ==
  /\ session[s] = NoRequest
  /\ approvalStatus[a] # "NONE"
  /\ session' = [session EXCEPT ![s] =
       [action |-> a, approve |-> approve, sent |-> sent, read |-> approvalStatus[a]]]
  /\ UNCHANGED <<workflow, run, actionStatus, payload, approvalStatus, original, approved,
                 decisionEvents>>

(* Mutant: the reviewer's copy is not compared.                            *)
MutantIgnoresSentPayload(a, sent) == payload[a] = original[a]

(* What the reviewer sends back must be the frozen proposal, and the       *)
(* proposal must not have moved since it was frozen.                       *)
PayloadMatches(a, sent) ==
  /\ sent = original[a]
  /\ payload[a] = original[a]

(* The checks of resolve, on the rows refreshed under the lock.            *)
Acceptable(s) ==
  LET r == session[s] IN
  /\ approvalStatus[r.action] = "PENDING"
  /\ run = "AWAITING_APPROVAL"
  /\ actionStatus[r.action] \in Open
  /\ r.approve => PayloadMatches(r.action, r.sent)

(* The last approval moves the run on.                                     *)
AdvanceWhenAllApproved ==
  IF \A b \in Requested : approvalStatus'[b] = "APPROVED"
  THEN ApplyTransition("APPROVED")
  ELSE UNCHANGED run

Approve(s) ==
  LET a == session[s].action IN
  /\ session[s] # NoRequest /\ session[s].approve /\ Acceptable(s)
  /\ approved' = [approved EXCEPT ![a] = session[s].sent]
  /\ approvalStatus' = [approvalStatus EXCEPT ![a] = "APPROVED"]
  /\ actionStatus' = [actionStatus EXCEPT ![a] = "APPROVED"]
  /\ decisionEvents' = [decisionEvents EXCEPT ![a] = @ + 1]
  /\ AdvanceWhenAllApproved
  /\ session' = [session EXCEPT ![s] = NoRequest]
  /\ UNCHANGED <<workflow, payload, original>>

(* Mutant: the siblings of a rejected action stay open.                    *)
MutantLeavesSiblingsPending(a) == [approvalStatus EXCEPT ![a] = "REJECTED"]

(* Rejecting one action expires the approvals that are still open.         *)
RejectedStatuses(a) ==
  [b \in Actions |-> IF b = a THEN "REJECTED"
                     ELSE IF approvalStatus[b] = "PENDING" THEN "EXPIRED"
                     ELSE approvalStatus[b]]

Reject(s) ==
  LET a == session[s].action IN
  /\ session[s] # NoRequest /\ ~session[s].approve /\ Acceptable(s)
  /\ approvalStatus' = RejectedStatuses(a)
  /\ actionStatus' = [actionStatus EXCEPT ![a] = "REJECTED"]
  /\ decisionEvents' = [decisionEvents EXCEPT ![a] = @ + 1]
  /\ ApplyTransition("REJECTED")
  /\ session' = [session EXCEPT ![s] = NoRequest]
  /\ UNCHANGED <<workflow, payload, original, approved>>

(* A conflict: the transaction is rolled back and 409 is answered.         *)
ResolveRefused(s) ==
  /\ session[s] # NoRequest /\ ~Acceptable(s)
  /\ session' = [session EXCEPT ![s] = NoRequest]
  /\ UNCHANGED <<workflow, run, actionStatus, payload, approvalStatus, original, approved,
                 decisionEvents>>

(* LEARN: replace the proposal while its approval is open.  The client     *)
(* names the version it edits; a stale one is refused.                     *)
Edit(a, expected, content, dest) ==
  LET new == [content |-> content, dest |-> dest] IN
  /\ workflow = "LEARN" /\ run = "AWAITING_APPROVAL"
  /\ Planned = {a} /\ Requested = {a}
  /\ approvalStatus[a] = "PENDING"
  /\ expected = payload[a]
  /\ payload' = [payload EXCEPT ![a] = new]
  /\ original' = [original EXCEPT ![a] = new]
  /\ actionStatus' = [actionStatus EXCEPT ![a] = "EDITED"]
  /\ UNCHANGED <<workflow, run, approvalStatus, approved, decisionEvents, session>>

(* Mutants: the frozen copy does not follow, follows even when resolved,   *)
(* or keeps the destination in place of the payload.                       *)
MutantRetargetForgetsOriginal(a, new) == original
MutantRetargetsResolved(a, new) == [original EXCEPT ![a] = new]
MutantKeepsOnlyDestination(a, new) == [original EXCEPT ![a] = new.dest]

RetargetedOriginal(a, new) ==
  IF approvalStatus[a] = "PENDING" THEN [original EXCEPT ![a] = new] ELSE original

(* LEARN: point the proposal at the destination now selected.  After       *)
(* approval only the proposal moves, not the approval row.                 *)
UpdateDestination(a, dest) ==
  LET new == [content |-> payload[a].content, dest |-> dest] IN
  /\ workflow = "LEARN" /\ run \in {"AWAITING_APPROVAL", "APPROVED"}
  /\ Planned = {a} /\ Requested = {a}
  /\ approvalStatus[a] \in {"PENDING", "APPROVED"}
  /\ payload' = [payload EXCEPT ![a] = new]
  /\ original' = RetargetedOriginal(a, new)
  /\ actionStatus' = IF approvalStatus[a] = "PENDING"
                     THEN [actionStatus EXCEPT ![a] = "EDITED"] ELSE actionStatus
  /\ UNCHANGED <<workflow, run, approvalStatus, approved, decisionEvents, session>>

(* RuntimeExecutionService.cancel before anything was submitted.           *)
Cancel ==
  /\ run \notin TerminalStates
  /\ UNCHANGED <<workflow, actionStatus, payload, approvalStatus, original, approved,
                 decisionEvents, session>>
  /\ ApplyTransition("CANCELLED")

Next ==
  \/ \E S \in SUBSET Actions : \E proposal \in [S -> Payload] : RequestApprovals(S, proposal)
  \/ \E s \in Sessions, a \in Actions, p \in Payload : ResolveBegin(s, a, TRUE, p)
  \/ \E s \in Sessions, a \in Actions : ResolveBegin(s, a, FALSE, NoPayload)
  \/ \E s \in Sessions : Approve(s)
  \/ \E s \in Sessions : Reject(s)
  \/ \E s \in Sessions : ResolveRefused(s)
  \/ \E a \in Actions, e \in Payload, c \in Contents, d \in Destinations : Edit(a, e, c, d)
  \/ \E a \in Actions, d \in Destinations : UpdateDestination(a, d)
  \/ Cancel

Spec == Init /\ [][Next]_vars

--------------------------------------------------------------------------------
(* Every variable holds a value of its column's type.                      *)
TypeOK ==
  /\ workflow \in Workflows
  /\ run \in WorkflowStatus
  /\ actionStatus \in [Actions -> ActionStatus \cup {"NONE"}]
  /\ payload \in [Actions -> Payload \cup {NoPayload}]
  /\ approvalStatus \in [Actions -> ApprovalStatus \cup {"NONE"}]
  /\ original \in [Actions -> Payload \cup {NoPayload}]
  /\ approved \in [Actions -> Payload \cup {NoPayload}]
  /\ decisionEvents \in [Actions -> Nat]
  /\ session \in [Sessions -> Request \cup {NoRequest}]

(* The run's status and the decisions tell one story, whatever the order   *)
(* in which concurrent reviewers are served: a run awaits approval exactly *)
(* while a decision is open and none is negative, it is APPROVED only when *)
(* every action is, and a REJECTED run has one rejection and nothing left  *)
(* to decide (ApprovalService.resolve, WorkflowService.apply_transition).  *)
RunFollowsDecisions ==
  /\ run = "AWAITING_APPROVAL" =>
       /\ \E a \in Requested : approvalStatus[a] = "PENDING"
       /\ \A a \in Requested : approvalStatus[a] \in {"PENDING", "APPROVED"}
  /\ run = "APPROVED" =>
       /\ Requested = Planned /\ Requested # {}
       /\ \A a \in Requested : approvalStatus[a] = "APPROVED"
  /\ run = "REJECTED" =>
       /\ \A a \in Requested : approvalStatus[a] # "PENDING"
       /\ \E a \in Requested : /\ approvalStatus[a] = "REJECTED"
                               /\ \A b \in Requested : approvalStatus[b] = "REJECTED" => b = a

(* No edit or change of destination leaves an open approval that can never *)
(* be granted: the frozen copy follows the proposal, and the proposal is   *)
(* still open (the two comparisons of ApprovalService.resolve can succeed). *)
AwaitingIsDecidable ==
  run = "AWAITING_APPROVAL" =>
    \A a \in Requested : approvalStatus[a] = "PENDING" =>
      /\ original[a] # NoPayload
      /\ PayloadMatches(a, original[a])
      /\ actionStatus[a] \in Open

(* An approved payload is the proposal as frozen, and stays what the       *)
(* action proposes; only LEARN may move the destination afterwards         *)
(* (update_destination on an APPROVED run).                                *)
ApprovedIsWhatWasProposed ==
  \A a \in Actions : approvalStatus[a] = "APPROVED" =>
    /\ approved[a] # NoPayload
    /\ approved[a] = original[a]
    /\ approved[a].content = payload[a].content
    /\ workflow # "LEARN" => approved[a] = payload[a]

(* An action is decided at most once: the audit log never holds a second   *)
(* decision event, however many requests race for the approval.            *)
OneDecisionPerAction ==
  \A a \in Actions :
    decisionEvents[a] = IF approvalStatus[a] \in {"APPROVED", "REJECTED"} THEN 1 ELSE 0

(* A resolved approval row never changes again, in status or payloads.     *)
DecisionsAreFinal ==
  [][\A a \in Actions : approvalStatus[a] \in {"APPROVED", "REJECTED", "EXPIRED"} =>
       /\ approvalStatus'[a] = approvalStatus[a]
       /\ approved'[a] = approved[a]
       /\ original'[a] = original[a]]_vars
=================================================================================
