--------------------------- MODULE ApprovalPlan_proofs ---------------------------
(***************************************************************************)
(* Proofs about ApprovalPlan for any finite set of actions and any sets of *)
(* contents, destinations and concurrent sessions.                         *)
(***************************************************************************)
EXTENDS ApprovalPlan, TLAPS

(* The rows of a plan come and go together: an action has an approval row  *)
(* exactly when it exists, nothing exists before approval is requested,    *)
(* and an existing row carries payloads.                                   *)
RowsTogether ==
  /\ run \in {"PLAN_READY", "AWAITING_APPROVAL", "APPROVED", "REJECTED", "CANCELLED"}
  /\ \A a \in Actions : actionStatus[a] = "NONE" <=> approvalStatus[a] = "NONE"
  /\ run = "PLAN_READY" => \A a \in Actions : approvalStatus[a] = "NONE"
  /\ \A a \in Actions : actionStatus[a] # "NONE" => payload[a] # NoPayload

(* The inductive invariant: the properties the runs check, with the        *)
(* structure of the rows that makes them inductive.                        *)
IInv ==
  /\ TypeOK
  /\ RowsTogether
  /\ RunFollowsDecisions
  /\ AwaitingIsDecidable
  /\ ApprovedIsWhatWasProposed
  /\ OneDecisionPerAction

(* Everything a step may change.                                           *)
Step ==
  \/ \E S \in SUBSET Actions : \E proposal \in [S -> Payload] : RequestApprovals(S, proposal)
  \/ \E s \in Sessions, a \in Actions, p \in Payload \cup {NoPayload}, d \in BOOLEAN :
       ResolveBegin(s, a, d, p)
  \/ \E s \in Sessions : Approve(s)
  \/ \E s \in Sessions : Reject(s)
  \/ \E s \in Sessions : ResolveRefused(s)
  \/ \E a \in Actions, e \in Payload, c \in Contents, d \in Destinations : Edit(a, e, c, d)
  \/ \E a \in Actions, d \in Destinations : UpdateDestination(a, d)
  \/ Cancel

LEMMA NextIsStep == Next => Step
  BY DEF Next, Step

--------------------------------------------------------------------------------
(* Type correctness.                                                       *)

LEMMA TypeInit == Init => TypeOK
  BY DEF Init, TypeOK, WorkflowStatus, ActionStatus, ApprovalStatus

(* No payload is ever read from a row that does not exist.                 *)
LEMMA TypeStep ==
  ASSUME TypeOK, RowsTogether, Step
  PROVE  TypeOK'
<1> USE DEF TypeOK, ActionStatus, ApprovalStatus, WorkflowStatus
<1>1. ASSUME NEW S \in SUBSET Actions, NEW proposal \in [S -> Payload],
             RequestApprovals(S, proposal)
      PROVE  TypeOK'
  BY <1>1 DEF RequestApprovals, ApplyTransition
<1>2. ASSUME NEW s \in Sessions, NEW a \in Actions, NEW p \in Payload \cup {NoPayload},
             NEW d \in BOOLEAN, ResolveBegin(s, a, d, p)
      PROVE  TypeOK'
  BY <1>2 DEF ResolveBegin, Request
<1>3. ASSUME NEW s \in Sessions, Approve(s)
      PROVE  TypeOK'
  <2>1. session[s] \in Request
    BY <1>3 DEF Approve
  <2>2. session[s].action \in Actions /\ session[s].sent \in Payload \cup {NoPayload}
    BY <2>1 DEF Request
  <2>3. run' \in WorkflowStatus
    BY <1>3 DEF Approve, AdvanceWhenAllApproved, ApplyTransition
  <2>4. decisionEvents' \in [Actions -> Nat]
    BY <1>3, <2>2 DEF Approve
  <2> QED
    BY <1>3, <2>2, <2>3, <2>4 DEF Approve
<1>4. ASSUME NEW s \in Sessions, Reject(s)
      PROVE  TypeOK'
  <2>1. session[s] \in Request
    BY <1>4 DEF Reject
  <2>2. session[s].action \in Actions
    BY <2>1 DEF Request
  <2>3. approvalStatus' \in [Actions -> ApprovalStatus \cup {"NONE"}]
    BY <1>4 DEF Reject, RejectedStatuses
  <2>4. decisionEvents' \in [Actions -> Nat]
    BY <1>4, <2>2 DEF Reject
  <2> QED
    BY <1>4, <2>2, <2>3, <2>4 DEF Reject, ApplyTransition
<1>5. ASSUME NEW s \in Sessions, ResolveRefused(s)
      PROVE  TypeOK'
  BY <1>5 DEF ResolveRefused
<1>6. ASSUME NEW a \in Actions, NEW e \in Payload, NEW c \in Contents,
             NEW d \in Destinations, Edit(a, e, c, d)
      PROVE  TypeOK'
  BY <1>6 DEF Edit, Payload
<1>7. ASSUME NEW a \in Actions, NEW d \in Destinations, UpdateDestination(a, d)
      PROVE  TypeOK'
  <2>1. payload[a] \in Payload
    BY <1>7 DEF UpdateDestination, RowsTogether, Planned
  <2>2. [content |-> payload[a].content, dest |-> d] \in Payload
    BY <2>1 DEF Payload
  <2> QED
    BY <1>7, <2>2 DEF UpdateDestination, RetargetedOriginal
<1>8. CASE Cancel
  BY <1>8 DEF Cancel, ApplyTransition
<1> QED
  BY ONLY Step, <1>1, <1>2, <1>3, <1>4, <1>5, <1>6, <1>7, <1>8 DEF Step

--------------------------------------------------------------------------------
(* Each part of the invariant is preserved by every step.                  *)

LEMMA IInvInit == Init => IInv
  BY TypeInit DEF Init, IInv, RowsTogether, RunFollowsDecisions, AwaitingIsDecidable,
                  ApprovedIsWhatWasProposed, OneDecisionPerAction

LEMMA RequestKeepsInvariant ==
  ASSUME IInv, NEW S \in SUBSET Actions, NEW proposal \in [S -> Payload],
         RequestApprovals(S, proposal)
  PROVE  RowsTogether' /\ RunFollowsDecisions' /\ AwaitingIsDecidable'
         /\ ApprovedIsWhatWasProposed' /\ OneDecisionPerAction'
<1> USE DEF IInv, TypeOK, RequestApprovals, ApplyTransition
<1>1. \A a \in Actions : approvalStatus[a] = "NONE" /\ actionStatus[a] = "NONE"
  BY DEF RowsTogether
<1>2. \A a \in S : proposal[a] \in Payload /\ proposal[a] # NoPayload
  BY PlanAssumption
<1>3. RowsTogether'
  BY <1>1, <1>2 DEF RowsTogether
<1>4. Requested' = S
  BY <1>1 DEF Requested
<1>5. RunFollowsDecisions'
  BY <1>4 DEF RunFollowsDecisions
<1>6. AwaitingIsDecidable'
  BY <1>2, <1>4 DEF AwaitingIsDecidable, PayloadMatches, Open
<1>7. ApprovedIsWhatWasProposed'
  BY <1>1 DEF ApprovedIsWhatWasProposed
<1>8. OneDecisionPerAction'
  BY <1>1 DEF OneDecisionPerAction
<1> QED
  BY <1>3, <1>5, <1>6, <1>7, <1>8

LEMMA ApproveKeepsInvariant ==
  ASSUME IInv, NEW s \in Sessions, Approve(s)
  PROVE  RowsTogether' /\ RunFollowsDecisions' /\ AwaitingIsDecidable'
         /\ ApprovedIsWhatWasProposed' /\ OneDecisionPerAction'
<1> DEFINE a == session[s].action
<1> USE DEF IInv, TypeOK
<1>1. session[s] \in Request /\ a \in Actions
  BY DEF Approve, Request
<1>2. /\ approvalStatus[a] = "PENDING" /\ run = "AWAITING_APPROVAL"
      /\ actionStatus[a] \in Open /\ PayloadMatches(a, session[s].sent)
  BY DEF Approve, Acceptable
<1>3. /\ approvalStatus' = [approvalStatus EXCEPT ![a] = "APPROVED"]
      /\ actionStatus' = [actionStatus EXCEPT ![a] = "APPROVED"]
      /\ approved' = [approved EXCEPT ![a] = session[s].sent]
      /\ decisionEvents' = [decisionEvents EXCEPT ![a] = @ + 1]
      /\ payload' = payload /\ original' = original /\ workflow' = workflow
  BY DEF Approve
<1>4. Requested' = Requested /\ Planned' = Planned /\ a \in Requested
  BY <1>1, <1>2, <1>3 DEF Requested, Planned, Open
<1>5. \/ /\ run' = "APPROVED"
         /\ \A b \in Requested : approvalStatus'[b] = "APPROVED"
      \/ /\ run' = run
         /\ ~ \A b \in Requested : approvalStatus'[b] = "APPROVED"
  BY DEF Approve, AdvanceWhenAllApproved, ApplyTransition
<1>6. RowsTogether'
  BY <1>1, <1>2, <1>3, <1>5 DEF RowsTogether, Open
<1>7. Requested' = Planned'
  BY <1>4 DEF RowsTogether, Requested, Planned
<1>8. RunFollowsDecisions'
  <2>1. \A b \in Requested : approvalStatus'[b] \in {"PENDING", "APPROVED"}
    BY <1>1, <1>2, <1>3 DEF RunFollowsDecisions, Requested
  <2> QED
    BY <2>1, <1>2, <1>4, <1>5, <1>7 DEF RunFollowsDecisions
<1>9. AwaitingIsDecidable'
  BY <1>1, <1>2, <1>3, <1>4, <1>5 DEF AwaitingIsDecidable, PayloadMatches
<1>10. original[a] # NoPayload
  BY <1>2, <1>4 DEF AwaitingIsDecidable
<1>11. ApprovedIsWhatWasProposed'
  BY <1>1, <1>2, <1>3, <1>10 DEF ApprovedIsWhatWasProposed, PayloadMatches
<1>12. OneDecisionPerAction'
  BY <1>1, <1>2, <1>3 DEF OneDecisionPerAction
<1> QED
  BY <1>6, <1>8, <1>9, <1>11, <1>12

LEMMA RejectKeepsInvariant ==
  ASSUME IInv, NEW s \in Sessions, Reject(s)
  PROVE  RowsTogether' /\ RunFollowsDecisions' /\ AwaitingIsDecidable'
         /\ ApprovedIsWhatWasProposed' /\ OneDecisionPerAction'
<1> DEFINE a == session[s].action
<1> USE DEF IInv, TypeOK
<1>1. session[s] \in Request /\ a \in Actions
  BY DEF Reject, Request
<1>2. /\ approvalStatus[a] = "PENDING" /\ run = "AWAITING_APPROVAL"
      /\ actionStatus[a] \in Open
  BY DEF Reject, Acceptable
<1>3. /\ approvalStatus' = RejectedStatuses(a)
      /\ actionStatus' = [actionStatus EXCEPT ![a] = "REJECTED"]
      /\ decisionEvents' = [decisionEvents EXCEPT ![a] = @ + 1]
      /\ run' = "REJECTED"
      /\ UNCHANGED <<workflow, payload, original, approved>>
  BY DEF Reject, ApplyTransition
<1>4. \A b \in Actions :
        approvalStatus'[b] = IF b = a THEN "REJECTED"
                             ELSE IF approvalStatus[b] = "PENDING" THEN "EXPIRED"
                             ELSE approvalStatus[b]
  BY <1>3 DEF RejectedStatuses
<1>5. \A b \in Actions : approvalStatus[b] \in {"NONE", "PENDING", "APPROVED"}
  BY <1>2 DEF RunFollowsDecisions, Requested
<1>6. RowsTogether'
  BY <1>1, <1>2, <1>3, <1>4, <1>5 DEF RowsTogether, Open
<1>7. Requested' = Requested /\ a \in Requested
  BY <1>1, <1>2, <1>4 DEF Requested
<1>8. RunFollowsDecisions'
  BY <1>1, <1>3, <1>4, <1>5, <1>7 DEF RunFollowsDecisions, Requested
<1>9. AwaitingIsDecidable'
  BY <1>3 DEF AwaitingIsDecidable
<1>10. ApprovedIsWhatWasProposed'
  BY <1>3, <1>4 DEF ApprovedIsWhatWasProposed
<1>11. OneDecisionPerAction'
  BY <1>1, <1>2, <1>3, <1>4 DEF OneDecisionPerAction
<1> QED
  BY <1>6, <1>8, <1>9, <1>10, <1>11

LEMMA EditKeepsInvariant ==
  ASSUME IInv, NEW a \in Actions, NEW e \in Payload, NEW c \in Contents,
         NEW d \in Destinations, Edit(a, e, c, d)
  PROVE  RowsTogether' /\ RunFollowsDecisions' /\ AwaitingIsDecidable'
         /\ ApprovedIsWhatWasProposed' /\ OneDecisionPerAction'
<1> DEFINE new == [content |-> c, dest |-> d]
<1> USE DEF IInv, TypeOK
<1>1. /\ payload' = [payload EXCEPT ![a] = new]
      /\ original' = [original EXCEPT ![a] = new]
      /\ actionStatus' = [actionStatus EXCEPT ![a] = "EDITED"]
      /\ UNCHANGED <<workflow, run, approvalStatus, approved, decisionEvents>>
  BY DEF Edit
<1>2. /\ approvalStatus[a] = "PENDING" /\ Planned = {a} /\ Requested = {a}
  BY DEF Edit
<1>3. new \in Payload /\ new # NoPayload
  BY PlanAssumption DEF Payload
<1>4. RowsTogether'
  BY <1>1, <1>2, <1>3 DEF RowsTogether
<1>5. Requested' = Requested /\ Planned' = Planned
  BY <1>1, <1>2 DEF Requested, Planned
<1>6. RunFollowsDecisions'
  BY <1>1, <1>5 DEF RunFollowsDecisions
<1>7. AwaitingIsDecidable'
  BY <1>1, <1>2, <1>3, <1>5 DEF AwaitingIsDecidable, PayloadMatches, Open
<1>8. \A b \in Actions : approvalStatus[b] = "APPROVED" => b # a
  BY <1>2
<1>9. ApprovedIsWhatWasProposed'
  BY <1>1, <1>8 DEF ApprovedIsWhatWasProposed
<1>10. OneDecisionPerAction'
  BY <1>1 DEF OneDecisionPerAction
<1> QED
  BY <1>4, <1>6, <1>7, <1>9, <1>10

LEMMA UpdateKeepsInvariant ==
  ASSUME IInv, NEW a \in Actions, NEW d \in Destinations, UpdateDestination(a, d)
  PROVE  RowsTogether' /\ RunFollowsDecisions' /\ AwaitingIsDecidable'
         /\ ApprovedIsWhatWasProposed' /\ OneDecisionPerAction'
<1> DEFINE new == [content |-> payload[a].content, dest |-> d]
<1> USE DEF IInv, TypeOK
<1>1. /\ payload' = [payload EXCEPT ![a] = new]
      /\ original' = RetargetedOriginal(a, new)
      /\ actionStatus' = IF approvalStatus[a] = "PENDING"
                         THEN [actionStatus EXCEPT ![a] = "EDITED"] ELSE actionStatus
      /\ UNCHANGED <<workflow, run, approvalStatus, approved, decisionEvents>>
      /\ workflow = "LEARN"
  BY DEF UpdateDestination
<1>2. /\ approvalStatus[a] \in {"PENDING", "APPROVED"}
      /\ Planned = {a} /\ Requested = {a}
  BY DEF UpdateDestination
<1>3. payload[a] \in Payload
  BY <1>2 DEF Planned, RowsTogether
<1>4. new \in Payload /\ new # NoPayload /\ new.content = payload[a].content
  BY <1>3, PlanAssumption DEF Payload
<1>5. RowsTogether'
  BY <1>1, <1>2, <1>4 DEF RowsTogether
<1>6. Requested' = Requested /\ Planned' = Planned
  BY <1>1, <1>2 DEF Requested, Planned
<1>7. RunFollowsDecisions'
  BY <1>1, <1>6 DEF RunFollowsDecisions
<1>8. ASSUME approvalStatus[a] = "PENDING"
      PROVE  AwaitingIsDecidable' /\ ApprovedIsWhatWasProposed'
  <2>1. original' = [original EXCEPT ![a] = new]
    BY <1>1, <1>8 DEF RetargetedOriginal
  <2>2. actionStatus' = [actionStatus EXCEPT ![a] = "EDITED"]
    BY <1>1, <1>8
  <2>3. AwaitingIsDecidable'
    BY <2>1, <2>2, <1>1, <1>2, <1>4, <1>6 DEF AwaitingIsDecidable, PayloadMatches, Open
  <2>4. \A b \in Actions : approvalStatus[b] = "APPROVED" => b # a
    BY <1>8
  <2>5. ApprovedIsWhatWasProposed'
    BY <1>1, <2>1, <2>4 DEF ApprovedIsWhatWasProposed
  <2> QED
    BY <2>3, <2>5
<1>9. ASSUME approvalStatus[a] = "APPROVED"
      PROVE  AwaitingIsDecidable' /\ ApprovedIsWhatWasProposed'
  <2>1. original' = original /\ actionStatus' = actionStatus
    BY <1>1, <1>9 DEF RetargetedOriginal
  <2>2. \A b \in Actions : approvalStatus[b] = "PENDING" => b # a /\ b \in Requested
    BY <1>9 DEF Requested
  <2>3. AwaitingIsDecidable'
    BY <2>1, <2>2, <1>1, <1>2, <1>6 DEF AwaitingIsDecidable, PayloadMatches
  <2>4. ApprovedIsWhatWasProposed'
    BY <1>1, <1>4, <2>1 DEF ApprovedIsWhatWasProposed
  <2> QED
    BY <2>3, <2>4
<1>10. OneDecisionPerAction'
  BY <1>1 DEF OneDecisionPerAction
<1> QED
  BY <1>2, <1>5, <1>7, <1>8, <1>9, <1>10

LEMMA SessionStepKeepsInvariant ==
  ASSUME IInv,
         UNCHANGED <<workflow, run, actionStatus, payload, approvalStatus, original,
                     approved, decisionEvents>>
  PROVE  RowsTogether' /\ RunFollowsDecisions' /\ AwaitingIsDecidable'
         /\ ApprovedIsWhatWasProposed' /\ OneDecisionPerAction'
  BY DEF IInv, RowsTogether, RunFollowsDecisions, AwaitingIsDecidable, PayloadMatches,
         ApprovedIsWhatWasProposed, OneDecisionPerAction, Requested, Planned

LEMMA CancelKeepsInvariant ==
  ASSUME IInv, Cancel
  PROVE  RowsTogether' /\ RunFollowsDecisions' /\ AwaitingIsDecidable'
         /\ ApprovedIsWhatWasProposed' /\ OneDecisionPerAction'
  BY DEF IInv, Cancel, ApplyTransition, RowsTogether, RunFollowsDecisions,
         AwaitingIsDecidable, ApprovedIsWhatWasProposed, OneDecisionPerAction

LEMMA IInvStep == IInv /\ [Next]_vars => IInv'
<1> SUFFICES ASSUME IInv, [Next]_vars PROVE IInv'
  OBVIOUS
<1>1. CASE Next
  <2>1. Step /\ TypeOK'
    BY <1>1, NextIsStep, TypeStep DEF IInv
  <2> DEFINE Rest == RowsTogether' /\ RunFollowsDecisions' /\ AwaitingIsDecidable'
                     /\ ApprovedIsWhatWasProposed' /\ OneDecisionPerAction'
  <2>2. ASSUME NEW S \in SUBSET Actions, NEW proposal \in [S -> Payload],
               RequestApprovals(S, proposal)
        PROVE  Rest
    BY <2>2, RequestKeepsInvariant
  <2>3. ASSUME NEW s \in Sessions, NEW a \in Actions, NEW p \in Payload \cup {NoPayload},
               NEW d \in BOOLEAN, ResolveBegin(s, a, d, p)
        PROVE  Rest
    BY <2>3, SessionStepKeepsInvariant DEF ResolveBegin
  <2>4. ASSUME NEW s \in Sessions, Approve(s)
        PROVE  Rest
    BY <2>4, ApproveKeepsInvariant
  <2>5. ASSUME NEW s \in Sessions, Reject(s)
        PROVE  Rest
    BY <2>5, RejectKeepsInvariant
  <2>6. ASSUME NEW s \in Sessions, ResolveRefused(s)
        PROVE  Rest
    BY <2>6, SessionStepKeepsInvariant DEF ResolveRefused
  <2>7. ASSUME NEW a \in Actions, NEW e \in Payload, NEW c \in Contents,
               NEW d \in Destinations, Edit(a, e, c, d)
        PROVE  Rest
    BY <2>7, EditKeepsInvariant
  <2>8. ASSUME NEW a \in Actions, NEW d \in Destinations, UpdateDestination(a, d)
        PROVE  Rest
    BY <2>8, UpdateKeepsInvariant
  <2>9. ASSUME Cancel
        PROVE  Rest
    BY <2>9, CancelKeepsInvariant
  <2>10. Rest
    BY <2>1, <2>2, <2>3, <2>4, <2>5, <2>6, <2>7, <2>8, <2>9 DEF Step
  <2> QED
    BY <2>1, <2>10 DEF IInv
<1>2. CASE UNCHANGED vars
  <2>1. TypeOK'
    BY <1>2 DEF IInv, TypeOK, vars
  <2> QED
    BY <2>1, <1>2, SessionStepKeepsInvariant DEF IInv, vars
<1> QED
  BY <1>1, <1>2

LEMMA Invariance == Spec => []IInv
  BY IInvInit, IInvStep, PTL DEF Spec

--------------------------------------------------------------------------------
(* Every column keeps its type, for any number of actions and sessions.    *)
THEOREM TypeCorrect == Spec => []TypeOK
<1>1. IInv => TypeOK
  BY DEF IInv
<1> QED
  BY <1>1, Invariance, PTL

(* The run's status agrees with the decisions on its actions under any     *)
(* interleaving of resolve, edit, destination and cancel requests.         *)
THEOREM RunAgreesWithDecisions == Spec => []RunFollowsDecisions
<1>1. IInv => RunFollowsDecisions
  BY DEF IInv
<1> QED
  BY <1>1, Invariance, PTL

(* A run that awaits approval can always be approved.                      *)
THEOREM OpenApprovalsCanBeGranted == Spec => []AwaitingIsDecidable
<1>1. IInv => AwaitingIsDecidable
  BY DEF IInv
<1> QED
  BY <1>1, Invariance, PTL

(* What is approved is what was proposed and shown.                        *)
THEOREM ApprovalBindsTheProposal == Spec => []ApprovedIsWhatWasProposed
<1>1. IInv => ApprovedIsWhatWasProposed
  BY DEF IInv
<1> QED
  BY <1>1, Invariance, PTL

(* No race produces a second decision for one action.                      *)
THEOREM DecidedAtMostOnce == Spec => []OneDecisionPerAction
<1>1. IInv => OneDecisionPerAction
  BY DEF IInv
<1> QED
  BY <1>1, Invariance, PTL

(* A resolved approval row is immutable.                                   *)
THEOREM DecisionsStand == Spec => DecisionsAreFinal
<1> DEFINE Kept == \A a \in Actions : approvalStatus[a] \in {"APPROVED", "REJECTED", "EXPIRED"} =>
                     /\ approvalStatus'[a] = approvalStatus[a]
                     /\ approved'[a] = approved[a]
                     /\ original'[a] = original[a]
<1>1. IInv /\ [Next]_vars => [Kept]_vars
  <2> SUFFICES ASSUME IInv, Next PROVE Kept
    OBVIOUS
  <2> USE DEF IInv, TypeOK
  <2>1. Step
    BY NextIsStep
  <2>2. ASSUME NEW S \in SUBSET Actions, NEW proposal \in [S -> Payload],
               RequestApprovals(S, proposal)
        PROVE  Kept
    BY <2>2 DEF RequestApprovals, RowsTogether
  <2>3. ASSUME NEW s \in Sessions, NEW a \in Actions, NEW p \in Payload \cup {NoPayload},
               NEW d \in BOOLEAN, ResolveBegin(s, a, d, p)
        PROVE  Kept
    BY <2>3 DEF ResolveBegin
  <2>4. ASSUME NEW s \in Sessions, Approve(s)
        PROVE  Kept
    <3>1. approvalStatus[session[s].action] = "PENDING"
      BY <2>4 DEF Approve, Acceptable
    <3> QED
      BY <2>4, <3>1 DEF Approve
  <2>5. ASSUME NEW s \in Sessions, Reject(s)
        PROVE  Kept
    <3>1. approvalStatus[session[s].action] = "PENDING"
      BY <2>5 DEF Reject, Acceptable
    <3> QED
      BY <2>5, <3>1 DEF Reject, RejectedStatuses
  <2>6. ASSUME NEW s \in Sessions, ResolveRefused(s)
        PROVE  Kept
    BY <2>6 DEF ResolveRefused
  <2>7. ASSUME NEW a \in Actions, NEW e \in Payload, NEW c \in Contents,
               NEW d \in Destinations, Edit(a, e, c, d)
        PROVE  Kept
    BY <2>7 DEF Edit
  <2>8. ASSUME NEW a \in Actions, NEW d \in Destinations, UpdateDestination(a, d)
        PROVE  Kept
    BY <2>8 DEF UpdateDestination, RetargetedOriginal
  <2>9. ASSUME Cancel
        PROVE  Kept
    BY <2>9 DEF Cancel
  <2> QED
    BY <2>1, <2>2, <2>3, <2>4, <2>5, <2>6, <2>7, <2>8, <2>9 DEF Step
<1> QED
  BY <1>1, Invariance, PTL DEF Spec, DecisionsAreFinal
=================================================================================
