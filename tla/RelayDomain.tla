------------------------------ MODULE RelayDomain ------------------------------
(***************************************************************************)
(* The pure vocabulary shared by every component: the status enumerations, *)
(* the one table of legal workflow transitions, and the translation of     *)
(* runtime statuses and runtime errors into workflow terms.                *)
(*                                                                         *)
(* Sources: domain/enums.py, domain/workflows.py, runtime/state.py,        *)
(* runtime/recovery.py.                                                    *)
(***************************************************************************)

WorkflowStatus ==
  {"DRAFT", "ANALYZING", "PLAN_READY", "AWAITING_APPROVAL", "APPROVED", "QUEUED",
   "EXECUTING", "COMPLETED", "PARTIALLY_COMPLETED", "FAILED", "REJECTED", "CANCELLED"}

TerminalStates ==
  {"COMPLETED", "PARTIALLY_COMPLETED", "FAILED", "REJECTED", "CANCELLED"}

ActionStatus ==
  {"PROPOSED", "EDITED", "APPROVED", "REJECTED", "QUEUED", "EXECUTING", "COMPLETED", "FAILED"}

ApprovalStatus == {"PENDING", "APPROVED", "REJECTED", "EXPIRED"}

(* The moves of a run from one status to another that the table allows.   *)
Transitions ==
  ({"DRAFT"} \X {"ANALYZING", "CANCELLED"})
  \cup ({"ANALYZING"} \X {"PLAN_READY", "FAILED", "CANCELLED"})
  \cup ({"PLAN_READY"} \X {"AWAITING_APPROVAL", "CANCELLED"})
  \cup ({"AWAITING_APPROVAL"} \X {"APPROVED", "REJECTED", "CANCELLED"})
  \cup ({"APPROVED"} \X {"QUEUED", "CANCELLED"})
  \cup ({"QUEUED"} \X {"EXECUTING", "CANCELLED", "FAILED"})
  \cup ({"EXECUTING"} \X {"COMPLETED", "PARTIALLY_COMPLETED", "FAILED", "CANCELLED"})

(* transition() raises InvalidWorkflowTransition when this is false.       *)
CanTransition(from, to) == <<from, to>> \in Transitions

(* The statuses a runtime reports of one execution. *)
RuntimeStatus == {"queued", "running", "succeeded", "partial", "failed", "cancelled"}

RuntimeTerminal == {"succeeded", "partial", "failed", "cancelled"}

(* workflow_status_for_runtime.                                            *)
WorkflowStatusForRuntime(s) ==
  CASE s = "queued"    -> "QUEUED"
    [] s = "running"   -> "EXECUTING"
    [] s = "succeeded" -> "COMPLETED"
    [] s = "partial"   -> "PARTIALLY_COMPLETED"
    [] s = "failed"    -> "FAILED"
    [] s = "cancelled" -> "CANCELLED"

(* error_code of a run: "none"; "recoverable" stands for the codes of      *)
(* RECOVERABLE_RUNTIME_ERRORS (request timeout, unavailable, rate limited); *)
(* "failure" for any other code.                                           *)
ErrorCode == {"none", "recoverable", "failure"}

(* run_has_recoverable_runtime_error: what execute() accepts as a retry.   *)
RecoverableRun(status, code) ==
  /\ status \in {"QUEUED", "EXECUTING"}
  /\ code = "recoverable"
=================================================================================
