---------------------------- MODULE SingleExecution ----------------------------
(***************************************************************************)
(* Execution and cancellation of an approved run that has one action: a    *)
(* LEARN page or a PLAN set of calendar events.  Concurrent HTTP requests  *)
(* execute, retry and cancel; the runtime that performs the side effect is *)
(* either the local one (inline, in the caller's transaction) or the Agent *)
(* Runtime behind HTTP, whose answers can be late, lost or unusable; a     *)
(* request can die at any point.                                           *)
(*                                                                         *)
(* The variables are what is committed.  A request that holds the run's    *)
(* row lock works on uncommitted values, which appear when it commits and  *)
(* vanish when it is rolled back; while it holds the lock the run counts   *)
(* as EXECUTING for it.                                                    *)
(*                                                                         *)
(* Sources: services/execution.py, workflows/study_plan/execution.py,      *)
(* services/runtime_execution.py, runtime/{local,http,sync,recovery}.py.   *)
(***************************************************************************)
EXTENDS Integers, FiniteSets, RelayDomain

CONSTANTS Events,        \* what one action can create: a page, or calendar events
          Destinations,  \* where an action can be sent
          NoDest,        \* no destination chosen
          Sessions,      \* concurrent HTTP requests
          NoSession,     \* the row lock is free
          NoExecution,   \* the runtime knows no execution for the key
          MaxPolls       \* agent_runtime_poll_attempts

ASSUME ExecutionAssumption ==
  /\ IsFiniteSet(Events)
  /\ NoSession \notin Sessions
  /\ MaxPolls \in Nat
  /\ NoExecution \notin [status : RuntimeStatus, created : SUBSET Events]

VARIABLES
  workflow,      \* LEARN or PLAN
  backend,       \* RUNTIME_BACKEND: local or agent_runtime
  items,         \* what the approved payload asks for
  approvedDest,  \* destination in ApprovalRequest.approved_payload
  proposalDest,  \* destination in ProposedAction.payload, still writable
  run,           \* WorkflowRun.status
  errorCode,     \* WorkflowRun.error_code
  runtimeId,     \* WorkflowRun.runtime_execution_id is set
  actionStatus,  \* ProposedAction.status
  artifacts,     \* ExternalArtifact rows
  exec,          \* the execution the runtime remembers for the idempotency key
  calls,         \* provider writes made for each item
  sent,          \* destinations that were sent to the runtime
  lock,          \* holder of the run's row lock
  pc,            \* where each request is
  snap,          \* the last snapshot each request received
  polls          \* get_execution calls made by each request

approval == <<workflow, backend, items, approvedDest>>
row == <<run, errorCode, runtimeId, actionStatus, artifacts>>
runtime == <<exec, calls>>
request == <<lock, pc, snap, polls>>
vars == <<approval, proposalDest, row, runtime, sent, request>>

Execution == [status : RuntimeStatus, created : SUBSET Events]

Init ==
  /\ workflow \in {"LEARN", "PLAN"} /\ backend \in {"local", "agent_runtime"}
  /\ items \in SUBSET Events \ {{}}
  /\ workflow = "LEARN" => Cardinality(items) = 1
  /\ approvedDest \in Destinations \cup {NoDest} /\ proposalDest = approvedDest
  /\ run = "APPROVED" /\ errorCode = "none" /\ runtimeId = FALSE
  /\ actionStatus = "APPROVED" /\ artifacts = {}
  /\ exec = NoExecution /\ calls = [e \in Events |-> 0] /\ sent = {}
  /\ lock = NoSession
  /\ pc = [s \in Sessions |-> "idle"]
  /\ snap = [s \in Sessions |-> NoExecution]
  /\ polls = [s \in Sessions |-> 0]

(* The request moves on, holding what it held; or ends, by commit or by    *)
(* rollback, and gives up the lock if it has it.                           *)
Goto(s, label) == pc' = [pc EXCEPT ![s] = label]

Release(s) ==
  /\ Goto(s, "idle")
  /\ lock' = IF lock = s THEN NoSession ELSE lock
  /\ snap' = [snap EXCEPT ![s] = NoExecution]
  /\ polls' = [polls EXCEPT ![s] = 0]

RollBack(s) == Release(s) /\ UNCHANGED row

--------------------------------------------------------------------------------
(* execute()                                                               *)

(* First submission: QUEUED is committed, which gives up the lock.  A run  *)
(* with a recorded artifact would complete without a submission; the       *)
(* guards leave that branch out, and RetryCanFinish shows that no run that *)
(* execute() accepts is in it.                                             *)
Enqueue(s) ==
  /\ pc[s] = "idle" /\ lock = NoSession
  /\ run = "APPROVED" /\ artifacts = {}
  /\ run' = "QUEUED" /\ actionStatus' = "QUEUED"
  /\ Goto(s, "gap")
  /\ UNCHANGED <<approval, proposalDest, errorCode, runtimeId, artifacts, runtime, sent,
                 lock, snap, polls>>

(* Mutant: a run left QUEUED or EXECUTING is taken up without the code.    *)
MutantRetryAny == run \in {"QUEUED", "EXECUTING"}

RetryAllowed == RecoverableRun(run, errorCode)

(* A retry of a run whose last submission ended in doubt.                  *)
Retry(s) ==
  /\ pc[s] = "idle" /\ lock = NoSession
  /\ RetryAllowed /\ artifacts = {}
  /\ lock' = s /\ Goto(s, "submit")
  /\ UNCHANGED <<approval, proposalDest, row, runtime, sent, snap, polls>>

(* Mutant: the status is not checked again after the lock was given up.    *)
MutantMayProceed == TRUE

(* apply_transition(EXECUTING) on the row as read under the new lock.      *)
MayProceed == CanTransition(run, "EXECUTING")

Relock(s) ==
  /\ pc[s] = "gap" /\ lock = NoSession /\ MayProceed
  /\ lock' = s /\ Goto(s, "submit")
  /\ UNCHANGED <<approval, proposalDest, row, runtime, sent, snap, polls>>

RelockRefused(s) ==
  /\ pc[s] = "gap" /\ lock = NoSession /\ ~MayProceed
  /\ RollBack(s)
  /\ UNCHANGED <<approval, proposalDest, runtime, sent>>

(* LEARN overlays the destination of the proposal on the approved payload  *)
(* when it has one; PLAN sends the approved payload.                       *)
SubmittedDest ==
  IF workflow = "LEARN" /\ proposalDest # NoDest THEN proposalDest ELSE approvedDest

(* The request goes out; the Agent Runtime may or may not get it, and      *)
(* keeps one execution per idempotency key.                                *)
Submitting(s) ==
  /\ pc[s] = "submit" /\ backend = "agent_runtime"
  /\ sent' = sent \cup {SubmittedDest}
  /\ UNCHANGED <<approval, proposalDest, calls>>

Accepted ==
  IF exec = NoExecution
  THEN \E status \in {"queued", "running"} : exec' = [status |-> status, created |-> {}]
  ELSE UNCHANGED exec

SubmitAnswered(s) ==
  /\ Submitting(s) /\ Accepted
  /\ snap' = [snap EXCEPT ![s] = exec']
  /\ Goto(s, "poll")
  /\ UNCHANGED <<row, lock, polls>>

(* The status mark_runtime_recoverable gives to the run.                   *)
MarkedStatus(action) == IF action = "QUEUED" THEN "QUEUED" ELSE "EXECUTING"

(* Timeout, unavailable or rate limited: the run is marked recoverable.    *)
SubmitUncertain(s) ==
  /\ Submitting(s) /\ (Accepted \/ UNCHANGED exec)
  /\ run' = MarkedStatus("EXECUTING") /\ actionStatus' = "EXECUTING"
  /\ errorCode' = "recoverable"
  /\ Release(s)
  /\ UNCHANGED <<runtimeId, artifacts>>

(* Any other error (credentials, 404, 4xx, unreadable answer) escapes and  *)
(* the transaction is rolled back.                                         *)
SubmitFailed(s) ==
  /\ Submitting(s) /\ (Accepted \/ UNCHANGED exec)
  /\ RollBack(s)

(* The local runtime finds no stored execution and calls the connector.    *)
SubmitLocal(s) ==
  /\ pc[s] = "submit" /\ backend = "local" /\ exec = NoExecution
  /\ sent' = sent \cup {SubmittedDest}
  /\ Goto(s, "calling")
  /\ UNCHANGED <<approval, proposalDest, row, runtime, lock, snap, polls>>

(* Outcomes of a finished execution that reports the items in created.     *)
FinalStatuses(created) ==
  IF created = items THEN {"succeeded"}
  ELSE IF created = {} THEN {"failed", "partial"} ELSE {"partial"}

(* Mutant: the local runtime answers in the words of the workflow.         *)
MutantLocalStatus(created) ==
  IF created = items THEN "completed" ELSE IF created = {} THEN "failed" ELSE "partial"

LocalStatus(created) ==
  IF created = items THEN "succeeded" ELSE IF created = {} THEN "failed" ELSE "partial"

(* Every item is tried once; a write can succeed although its connector    *)
(* raised, so more may be written than is reported.                        *)
Write(written) == calls' = [e \in Events |-> IF e \in written THEN calls[e] + 1 ELSE calls[e]]

ProviderCalls(s, written, created) ==
  /\ pc[s] = "calling"
  /\ created \subseteq written /\ written \subseteq items
  /\ Write(written)
  /\ snap' = [snap EXCEPT ![s] = [status |-> LocalStatus(created), created |-> created]]
  /\ Goto(s, "poll")
  /\ UNCHANGED <<approval, proposalDest, row, exec, sent, lock, polls>>

--------------------------------------------------------------------------------
(* poll_until_terminal                                                     *)

Polling(s) ==
  /\ pc[s] = "poll" /\ snap[s].status \notin RuntimeTerminal
  /\ polls[s] < MaxPolls

(* Mutant: the attempts are not counted.                                   *)
MutantNextPoll(s) == polls[s]

NextPoll(s) == polls[s] + 1

PollAnswered(s) ==
  /\ Polling(s)
  /\ snap' = [snap EXCEPT ![s] = exec]
  /\ polls' = [polls EXCEPT ![s] = NextPoll(s)]
  /\ UNCHANGED <<approval, proposalDest, row, runtime, sent, lock, pc>>

(* Timeout, unavailable or 404: polling stops with what it has.            *)
PollGivesUp(s) ==
  /\ Polling(s)
  /\ Goto(s, "gave_up")
  /\ UNCHANGED <<approval, proposalDest, row, runtime, sent, lock, snap, polls>>

(* Any other error escapes.                                                *)
PollFailed(s) ==
  /\ Polling(s) /\ RollBack(s)
  /\ UNCHANGED <<approval, proposalDest, runtime, sent>>

--------------------------------------------------------------------------------
(* The end of execute(): what the last snapshot says is committed.         *)

Settling(s) ==
  /\ \/ pc[s] = "gave_up"
     \/ pc[s] = "poll" /\ (snap[s].status \in RuntimeTerminal \/ polls[s] = MaxPolls)
  /\ Release(s)
  /\ exec' = IF backend = "local" THEN snap[s] ELSE exec
  /\ UNCHANGED <<approval, proposalDest, calls, sent>>

Settle(s, status, action, code, created) ==
  /\ CanTransition("EXECUTING", status)
  /\ run' = status /\ actionStatus' = action /\ errorCode' = code
  /\ runtimeId' = TRUE
  /\ artifacts' = artifacts \cup created

(* Still queued: EXECUTING to QUEUED is no legal transition, so the        *)
(* request raises and nothing it did is kept.                              *)
SettleQueued(s) ==
  /\ Settling(s) /\ snap[s].status = "queued"
  /\ ~CanTransition("EXECUTING", WorkflowStatusForRuntime("queued"))
  /\ UNCHANGED row

SettleRunning(s) ==
  /\ Settling(s) /\ snap[s].status = "running"
  /\ run' = "EXECUTING" /\ actionStatus' = "EXECUTING" /\ runtimeId' = TRUE
  /\ UNCHANGED <<errorCode, artifacts>>

SettleCancelled(s) ==
  /\ Settling(s) /\ snap[s].status = "cancelled"
  /\ Settle(s, "CANCELLED", "FAILED", errorCode, {})

SettleSucceeded(s) ==
  /\ Settling(s) /\ snap[s].status = "succeeded"
  /\ Settle(s, "COMPLETED", "COMPLETED", errorCode, snap[s].created)

(* Mutants: a partial result of PLAN is recorded as if nothing was         *)
(* created, or as if everything asked for was.                             *)
MutantRecordsNothing(s) == {}
MutantRecordsRequested(s) == items

Recorded(s) == snap[s].created

SettlePartial(s) ==
  /\ Settling(s) /\ snap[s].status = "partial" /\ workflow = "PLAN"
  /\ Settle(s, "PARTIALLY_COMPLETED", "FAILED", "failure", Recorded(s))

SettleFailed(s) ==
  /\ Settling(s)
  /\ snap[s].status = "failed" \/ (snap[s].status = "partial" /\ workflow = "LEARN")
  /\ Settle(s, "FAILED", "FAILED", "failure", {})

--------------------------------------------------------------------------------
(* RuntimeExecutionService.cancel                                          *)

CancelBefore(s) ==
  /\ pc[s] = "idle" /\ lock = NoSession
  /\ run \notin TerminalStates /\ ~runtimeId
  /\ CanTransition(run, "CANCELLED")
  /\ run' = "CANCELLED"
  /\ UNCHANGED <<approval, proposalDest, errorCode, runtimeId, actionStatus, artifacts,
                 runtime, sent, request>>

CancelBegin(s) ==
  /\ pc[s] = "idle" /\ lock = NoSession
  /\ run \notin TerminalStates /\ runtimeId
  /\ lock' = s /\ Goto(s, "cancel")
  /\ UNCHANGED <<approval, proposalDest, row, runtime, sent, snap, polls>>

(* The runtime stops an unfinished execution, or leaves it as it is.       *)
RuntimeCancels ==
  \/ UNCHANGED exec
  \/ /\ exec.status \notin RuntimeTerminal
     /\ exec' = [exec EXCEPT !.status = "cancelled"]

Confirms(snapshot) ==
  \/ WorkflowStatusForRuntime(snapshot.status) = "CANCELLED"
  \/ snapshot.status = "cancelled"

CancelAnswered(s) ==
  /\ pc[s] = "cancel" /\ RuntimeCancels
  /\ Release(s)
  /\ IF Confirms(exec')
     THEN /\ CanTransition(run, "CANCELLED")
          /\ run' = "CANCELLED"
          /\ actionStatus' = IF actionStatus \in {"QUEUED", "EXECUTING"}
                             THEN "FAILED" ELSE actionStatus
          /\ UNCHANGED <<errorCode, runtimeId, artifacts>>
     ELSE UNCHANGED row
  /\ UNCHANGED <<approval, proposalDest, calls, sent>>

CancelFailed(s) ==
  /\ pc[s] = "cancel" /\ RuntimeCancels
  /\ RollBack(s)
  /\ UNCHANGED <<approval, proposalDest, calls, sent>>

--------------------------------------------------------------------------------
(* Around the requests.                                                    *)

(* Mutant: the destination can still be changed once execution started.    *)
MutantRetargetable == run \in {"APPROVED", "QUEUED", "EXECUTING"}

Retargetable == run = "APPROVED"

(* LEARN's update_destination on an approved run.                          *)
UpdateDestination(d) ==
  /\ workflow = "LEARN" /\ lock = NoSession /\ Retargetable
  /\ proposalDest' = d
  /\ UNCHANGED <<approval, row, runtime, sent, request>>

(* The worker dies or the connection drops: the data base rolls back.      *)
Crash(s) ==
  /\ pc[s] # "idle" /\ RollBack(s)
  /\ UNCHANGED <<approval, proposalDest, runtime, sent>>

(* The Agent Runtime works on what it accepted.                            *)
RuntimeStarts ==
  /\ backend = "agent_runtime" /\ exec # NoExecution /\ exec.status = "queued"
  /\ exec' = [exec EXCEPT !.status = "running"]
  /\ UNCHANGED <<approval, proposalDest, row, calls, sent, request>>

RuntimeFinishes(written, created) ==
  /\ backend = "agent_runtime" /\ exec # NoExecution /\ exec.status = "running"
  /\ created \subseteq written /\ written \subseteq items
  /\ Write(written)
  /\ \E status \in FinalStatuses(created) :
       exec' = [status |-> status, created |-> created]
  /\ UNCHANGED <<approval, proposalDest, row, sent, request>>

Progress(s) ==
  \/ Relock(s)
  \/ RelockRefused(s)
  \/ SubmitAnswered(s)
  \/ SubmitLocal(s)
  \/ \E written, created \in SUBSET Events : ProviderCalls(s, written, created)
  \/ PollAnswered(s)
  \/ SettleQueued(s)
  \/ SettleRunning(s)
  \/ SettleCancelled(s)
  \/ SettleSucceeded(s)
  \/ SettlePartial(s)
  \/ SettleFailed(s)
  \/ CancelAnswered(s)

Failure(s) ==
  \/ SubmitUncertain(s)
  \/ SubmitFailed(s)
  \/ PollGivesUp(s)
  \/ PollFailed(s)
  \/ CancelFailed(s)
  \/ Crash(s)

Arrival(s) == Enqueue(s) \/ Retry(s) \/ CancelBefore(s) \/ CancelBegin(s)

Next ==
  \/ \E s \in Sessions : Arrival(s)
  \/ \E s \in Sessions : Progress(s)
  \/ \E s \in Sessions : Failure(s)
  \/ \E d \in Destinations \cup {NoDest} : UpdateDestination(d)
  \/ RuntimeStarts
  \/ \E written, created \in SUBSET Events : RuntimeFinishes(written, created)

Spec == Init /\ [][Next]_vars

(* Every await of a request ends, with an answer or with an error, so a    *)
(* request that nothing fails goes on; no error has to happen, and nothing *)
(* obliges a user or the Agent Runtime to do anything.                     *)
FairSpec == Spec /\ \A s \in Sessions : WF_vars(Progress(s))

--------------------------------------------------------------------------------
Labels == {"idle", "gap", "submit", "calling", "poll", "gave_up", "cancel"}

Finished == run \in TerminalStates

(* Every variable holds a value of its type.                               *)
TypeOK ==
  /\ workflow \in {"LEARN", "PLAN"} /\ backend \in {"local", "agent_runtime"}
  /\ items \in SUBSET Events
  /\ approvedDest \in Destinations \cup {NoDest}
  /\ proposalDest \in Destinations \cup {NoDest}
  /\ run \in WorkflowStatus /\ errorCode \in ErrorCode /\ runtimeId \in BOOLEAN
  /\ actionStatus \in ActionStatus /\ artifacts \in SUBSET Events
  /\ exec \in Execution \cup {NoExecution}
  /\ calls \in [Events -> Nat]
  /\ sent \in SUBSET (Destinations \cup {NoDest})
  /\ lock \in Sessions \cup {NoSession}
  /\ pc \in [Sessions -> Labels]
  /\ snap \in [Sessions -> Execution \cup {NoExecution}]
  /\ polls \in [Sessions -> 0..MaxPolls]

(* However often a run is retried, every submission under its idempotency  *)
(* key carries the same payload: no retry reads a proposal that has moved  *)
(* ("Retry will reuse the approved payload and idempotency key").          *)
OneRequestPerKey == \A d, e \in sent : d = e

(* No interleaving of retries, cancels, lost answers and crashes makes a   *)
(* provider write an approved item twice, with either runtime.             *)
WrittenAtMostOnce == \A e \in Events : calls[e] <= 1

(* A finished run says what the runtime says: complete means every item    *)
(* was created and recorded, partial means exactly the created ones were,  *)
(* failed means the runtime confirmed a failure (a transport error never   *)
(* is one), and no artifact exists without such an outcome.                *)
OutcomeMatchesRuntime ==
  /\ run = "COMPLETED" => exec # NoExecution /\ exec.status = "succeeded" /\ artifacts = items
  /\ run = "PARTIALLY_COMPLETED" =>
       exec # NoExecution /\ exec.status = "partial" /\ artifacts = exec.created
  /\ run = "FAILED" => exec # NoExecution /\ exec.status \in {"failed", "partial"}
  /\ run \notin {"COMPLETED", "PARTIALLY_COMPLETED"} => artifacts = {}

(* A run that knows its runtime execution is CANCELLED only when the       *)
(* runtime has stopped it, not on the strength of a request to stop it.    *)
CancelIsConfirmed ==
  run = "CANCELLED" /\ runtimeId => exec # NoExecution /\ exec.status = "cancelled"

(* A run that execute() accepts as a retry can still reach every outcome   *)
(* by a legal transition, and has nothing recorded yet.                    *)
RetryCanFinish ==
  RecoverableRun(run, errorCode) =>
    /\ \A t \in {"COMPLETED", "PARTIALLY_COMPLETED", "FAILED", "CANCELLED"} : CanTransition(run, t)
    /\ artifacts = {}

(* Once a run has ended, nothing more is sent, recorded or changed in it.  *)
EndedIsQuiet == [][Finished => UNCHANGED <<row, sent>>]_vars

(* A request that began gives its answer, and the row lock, in the end.    *)
RequestsEnd == \A s \in Sessions : pc[s] # "idle" ~> pc[s] = "idle"

(* The effects of the run, seen through approval, writes and records: an   *)
(* implementation of ApprovedEffect, with the runtime's lost and repeated  *)
(* answers, retries and crashes as stuttering.                             *)
Effect == INSTANCE ApprovedEffect WITH
  Items <- Events, released <- sent # {}, ended <- Finished,
  writes <- calls, recorded <- artifacts

ImplementsEffect == Effect!Spec

--------------------------------------------------------------------------------
(* Claims of the documentation that the code does not keep.                *)

(* Only the approved snapshot crosses the runtime boundary                 *)
(* (services/execution.py:76, relay-agent-runtime-boundary.md).            *)
SubmitsOnlyApproved == sent \subseteq {approvedDest}

(* Timeouts and unavailable-runtime errors stay recoverable: a request     *)
(* that gave up polling leaves a run that can be retried.                  *)
TimeoutStaysRecoverable ==
  [][\A s \in Sessions :
       pc[s] = "gave_up" /\ pc'[s] = "idle" /\ run' = "EXECUTING"
         => RecoverableRun(run', errorCode')]_vars

(* Cancellation: completed external side effects are recorded.             *)
CancelRecordsEffects ==
  [][run # "CANCELLED" /\ run' = "CANCELLED" /\ exec # NoExecution
       => exec.created \subseteq artifacts']_vars
=================================================================================
