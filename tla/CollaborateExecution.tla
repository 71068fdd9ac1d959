------------------------- MODULE CollaborateExecution --------------------------
(***************************************************************************)
(* Execution of an approved COLLABORATE run: several independent actions,  *)
(* each submitted under its own idempotency key in one loop.  The run's    *)
(* row lock is given up before the loop, so cancel and a second retry run  *)
(* beside it; nothing the loop does is committed before its end; the       *)
(* run's status is decided in a last transaction from what the loop saw.   *)
(*                                                                         *)
(* The first variables are the committed rows and the world outside; the   *)
(* others are what each request holds in memory.  Transactions that       *)
(* take the run's row lock are one step each.  An UPDATE of an action row  *)
(* holds that row's lock until the loop commits.                           *)
(*                                                                         *)
(* Sources: workflows/project_meeting/execution.py, runtime/{local,http,   *)
(* sync,recovery}.py, services/runtime_execution.py.                       *)
(***************************************************************************)
EXTENDS Integers, FiniteSets, RelayDomain

CONSTANTS Actions,    \* the proposed actions of the run, all approved
          Shared,     \* those whose provider object has an artifact already, or no id
          NoAction,   \* no action is being submitted
          Sessions,   \* concurrent HTTP requests
          NoSession   \* a row lock is free

ASSUME CollaborateAssumption ==
  /\ IsFiniteSet(Actions) /\ Actions # {}
  /\ Shared \subseteq Actions
  /\ NoAction \notin Actions
  /\ NoSession \notin Sessions

VARIABLES
  backend,       \* RUNTIME_BACKEND: local or agent_runtime
  run,           \* WorkflowRun.status
  errorCode,     \* WorkflowRun.error_code
  started,       \* EXTERNAL_EXECUTION_STARTED has been audited
  actionStatus,  \* ProposedAction.status
  artifacts,     \* actions with an ExternalArtifact row of their own
  exec,          \* status of the execution the runtime has for each action's key
  calls,         \* provider writes made for each action
  rowLock        \* holder of the lock on each action row

VARIABLES
  pc,            \* where each request is
  executing,     \* actions that were EXECUTING when it read them
  current,       \* the action it has submitted
  first,         \* the action its loop handled first
  results,       \* the outcomes it has collected
  fresh          \* artifacts it has inserted and not committed

rows == <<run, errorCode, started, actionStatus, artifacts>>
world == <<exec, calls>>
memory == <<executing, current, first, results, fresh>>
vars == <<backend, rows, world, rowLock, pc, memory>>

(* One outcome of the loop for one action; "uncertain" is the QUEUED entry *)
(* that carries a recoverable error code.                                  *)
Outcome == {"uncertain", "queued", "running", "succeeded", "failed", "cancelled"}

Init ==
  /\ backend \in {"local", "agent_runtime"}
  /\ run = "APPROVED" /\ errorCode = "none" /\ started = FALSE
  /\ actionStatus = [a \in Actions |-> "APPROVED"]
  /\ artifacts = {}
  /\ exec = [a \in Actions |-> "none"] /\ calls = [a \in Actions |-> 0]
  /\ rowLock = [a \in Actions |-> NoSession]
  /\ pc = [s \in Sessions |-> "idle"]
  /\ executing = [s \in Sessions |-> {}]
  /\ current = [s \in Sessions |-> NoAction]
  /\ first = [s \in Sessions |-> NoAction]
  /\ results = [s \in Sessions |-> [a \in Actions |-> "none"]]
  /\ fresh = [s \in Sessions |-> {}]

Goto(s, label) == pc' = [pc EXCEPT ![s] = label]

(* The request ends: by its last commit, or by a rollback.                 *)
End(s) ==
  /\ Goto(s, "idle")
  /\ rowLock' = [a \in Actions |-> IF rowLock[a] = s THEN NoSession ELSE rowLock[a]]
  /\ executing' = [executing EXCEPT ![s] = {}]
  /\ current' = [current EXCEPT ![s] = NoAction]
  /\ first' = [first EXCEPT ![s] = NoAction]
  /\ results' = [results EXCEPT ![s] = [a \in Actions |-> "none"]]
  /\ fresh' = [fresh EXCEPT ![s] = {}]

RollBack(s) == End(s) /\ UNCHANGED rows

--------------------------------------------------------------------------------
(* Up to the loop.                                                         *)

Enqueue(s) ==
  /\ pc[s] = "idle" /\ run = "APPROVED"
  /\ run' = "QUEUED"
  /\ Goto(s, "gap")
  /\ UNCHANGED <<backend, errorCode, started, actionStatus, artifacts, world, rowLock, memory>>

(* Mutant: the status is not checked again after the first commit.         *)
MutantMayStart == TRUE

MayStart == CanTransition(run, "EXECUTING")

Relock(s) ==
  /\ pc[s] = "gap" /\ MayStart
  /\ run' = "EXECUTING" /\ started' = TRUE
  /\ Goto(s, "loop")
  /\ UNCHANGED <<backend, errorCode, actionStatus, artifacts, world, rowLock, memory>>

RelockRefused(s) ==
  /\ pc[s] = "gap" /\ ~MayStart
  /\ RollBack(s)
  /\ UNCHANGED <<backend, world>>

RetryAllowed == RecoverableRun(run, errorCode)

Retry(s) ==
  /\ pc[s] = "idle" /\ RetryAllowed
  /\ executing' = [executing EXCEPT ![s] = {a \in Actions : actionStatus[a] = "EXECUTING"}]
  /\ Goto(s, "loop")
  /\ UNCHANGED <<backend, rows, world, rowLock, current, first, results, fresh>>

--------------------------------------------------------------------------------
(* The loop: the actions in no particular order.                           *)

(* Mutant: an action gets the status a run would get.                      *)
MutantActionFor(outcome) ==
  WorkflowStatusForRuntime(IF outcome = "uncertain" THEN "queued" ELSE outcome)

(* The status an action row gets for an outcome.                           *)
ActionFor(outcome) ==
  IF outcome \in {"uncertain", "queued"} THEN "QUEUED"
  ELSE IF outcome = "running" THEN "EXECUTING"
  ELSE IF outcome = "succeeded" THEN "COMPLETED"
  ELSE "FAILED"

(* An UPDATE is sent unless the row was EXECUTING when it was read and is  *)
(* to stay so; it waits for the row, whose lock is held until the loop     *)
(* commits.                                                                *)

(* Mutant: a request waits for a row that it has locked itself.            *)
MutantCanWrite(s, a) == rowLock[a] = NoSession

CanWrite(s, a) == rowLock[a] \in {NoSession, s}

Updates(s, a, status) ==
  IF status = "EXECUTING" /\ a \in executing[s]
  THEN UNCHANGED rowLock
  ELSE CanWrite(s, a) /\ rowLock' = [rowLock EXCEPT ![a] = s]

Waiting(s) == {a \in Actions : results[s][a] = "none"}

Collect(s, a, outcome) ==
  /\ results' = [results EXCEPT ![s][a] = outcome]
  /\ first' = IF first[s] = NoAction THEN [first EXCEPT ![s] = a] ELSE first
  /\ current' = [current EXCEPT ![s] = NoAction]
  /\ executing' = [executing EXCEPT ![s] = @ \ {a}]
  /\ Goto(s, "loop")
  /\ UNCHANGED <<backend, rows>>

(* An action that has an artifact is not submitted again.                  *)
Skip(s, a) ==
  /\ pc[s] = "loop" /\ a \in Waiting(s) /\ a \in artifacts
  /\ CanWrite(s, a) /\ rowLock' = [rowLock EXCEPT ![a] = s]
  /\ Collect(s, a, "succeeded")
  /\ UNCHANGED <<world, fresh>>

(* The Agent Runtime may or may not get the request, and keeps one         *)
(* execution per key.                                                      *)
Submit(s, a) ==
  /\ backend = "agent_runtime"
  /\ pc[s] = "loop" /\ a \in Waiting(s) /\ a \notin artifacts
  /\ Updates(s, a, "EXECUTING")
  /\ \/ exec[a] = "none" /\ exec' = [exec EXCEPT ![a] = "queued"]
     \/ UNCHANGED exec
  /\ current' = [current EXCEPT ![s] = a]
  /\ Goto(s, "sent")
  /\ UNCHANGED <<backend, rows, calls, executing, first, results, fresh>>

(* Timeout, unavailable or rate limited: the loop goes on.                 *)
Uncertain(s) ==
  /\ pc[s] = "sent"
  /\ Updates(s, current[s], ActionFor("uncertain"))
  /\ Collect(s, current[s], "uncertain")
  /\ UNCHANGED <<world, fresh>>

(* Mutant: an execution that runs is recorded as if it had succeeded.      *)
MutantCreates(outcome) == outcome \in {"running", "succeeded"}

Creates(outcome) == outcome = "succeeded"

(* _record_artifact.                                                       *)
Inserts(s, a, outcome) ==
  fresh' = IF Creates(outcome) /\ a \notin Shared THEN [fresh EXCEPT ![s] = @ \cup {a}] ELSE fresh

(* What submission and polling end with.  Polling may stop at any moment,  *)
(* so that the execution moves on after the snapshot was taken.            *)
Answered(s) ==
  /\ pc[s] = "sent" /\ exec[current[s]] # "none"
  /\ LET outcome == exec[current[s]]
     IN  /\ Updates(s, current[s], ActionFor(outcome))
         /\ Inserts(s, current[s], outcome)
         /\ Collect(s, current[s], outcome)
  /\ UNCHANGED world

(* The local runtime finds no stored execution, calls the provider inline, *)
(* and has its outcome stored when the loop commits.  A write can succeed  *)
(* although its connector raised.                                          *)
LocalSubmit(s, a, written, outcome) ==
  /\ backend = "local" /\ exec[a] = "none"
  /\ pc[s] = "loop" /\ a \in Waiting(s) /\ a \notin artifacts
  /\ outcome = "succeeded" => written
  /\ CanWrite(s, a) /\ rowLock' = [rowLock EXCEPT ![a] = s]
  /\ calls' = IF written THEN [calls EXCEPT ![a] = @ + 1] ELSE calls
  /\ Inserts(s, a, outcome)
  /\ Collect(s, a, outcome)
  /\ UNCHANGED exec

(* The one commit of the loop.                                             *)
Commit(s) ==
  /\ pc[s] = "loop" /\ Waiting(s) = {}
  /\ actionStatus' = [a \in Actions |->
       IF rowLock[a] = s THEN ActionFor(results[s][a]) ELSE actionStatus[a]]
  /\ artifacts' = artifacts \cup fresh[s]
  /\ exec' = [a \in Actions |->
       IF backend = "local" /\ exec[a] = "none" THEN results[s][a] ELSE exec[a]]
  /\ rowLock' = [a \in Actions |-> IF rowLock[a] = s THEN NoSession ELSE rowLock[a]]
  /\ fresh' = [fresh EXCEPT ![s] = {}]
  /\ Goto(s, "settle")
  /\ executing' = [executing EXCEPT ![s] = {}]
  /\ UNCHANGED <<backend, run, errorCode, started, calls, current, first, results>>

--------------------------------------------------------------------------------
(* The last transaction: the run is read again, under its lock.            *)

(* Mutant: the run as it was before the loop.                              *)
MutantCurrentRun == "EXECUTING"

CurrentRun == run

Succeeded(s) == {a \in Actions : results[s][a] = "succeeded"}

Doubtful(s) == {a \in Actions : results[s][a] = "uncertain"}

Unfinished(s) == {a \in Actions : results[s][a] \in {"uncertain", "queued", "running"}}

(* workflow_status_for_runtime(statuses[0]).                               *)
FirstStatus(s) ==
  LET outcome == results[s][first[s]]
  IN  WorkflowStatusForRuntime(IF outcome = "uncertain" THEN "queued" ELSE outcome)

Settling(s) == pc[s] = "settle" /\ UNCHANGED <<backend, world>>

MovesRunTo(status) ==
  /\ CanTransition(CurrentRun, status)
  /\ run' = status
  /\ UNCHANGED <<started, actionStatus, artifacts>>

(* With an action in progress the first outcome decides.  next() over the  *)
(* error codes raises StopIteration when an action is reported queued and  *)
(* none is in doubt.                                                       *)
StopsIteration(s) ==
  Doubtful(s) = {} /\ \E a \in Actions : results[s][a] = "queued"

StaysExecuting(s) == CurrentRun = FirstStatus(s) \/ (CurrentRun = "EXECUTING" /\ FirstStatus(s) = "QUEUED")

SettleUnfinished(s) ==
  /\ Settling(s) /\ Unfinished(s) # {} /\ ~StopsIteration(s)
  /\ End(s)
  /\ errorCode' = IF Doubtful(s) # {} THEN "recoverable" ELSE errorCode
  /\ \/ StaysExecuting(s) /\ UNCHANGED <<run, started, actionStatus, artifacts>>
     \/ ~StaysExecuting(s) /\ MovesRunTo(FirstStatus(s))

(* The status of a run all of whose actions are finished.                  *)
FinalStatus(s) ==
  IF Succeeded(s) = Actions THEN "COMPLETED"
  ELSE IF Succeeded(s) # {} THEN "PARTIALLY_COMPLETED" ELSE "FAILED"

SettleFinished(s) ==
  /\ Settling(s) /\ Unfinished(s) = {}
  /\ End(s)
  /\ errorCode' = IF FinalStatus(s) = "COMPLETED" THEN errorCode ELSE "failure"
  /\ MovesRunTo(FinalStatus(s))

(* An exception: StopIteration, or an illegal transition.                  *)
SettleRefused(s) ==
  /\ Settling(s)
  /\ IF Unfinished(s) = {} THEN ~CanTransition(CurrentRun, FinalStatus(s))
     ELSE StopsIteration(s) \/ ~(StaysExecuting(s) \/ CanTransition(CurrentRun, FirstStatus(s)))
  /\ RollBack(s)

--------------------------------------------------------------------------------
(* Around the loop.                                                        *)

(* Any other error of the runtime or the data base escapes, or the worker  *)
(* dies: what was not committed is lost.                                   *)
Abort(s) ==
  /\ pc[s] # "idle" /\ RollBack(s)
  /\ UNCHANGED <<backend, world>>

(* PostgreSQL fails one of the transactions of a group each of which waits *)
(* for a row that another of the group has locked.                         *)
WaitsFor(s, group) ==
  \/ pc[s] = "sent" /\ rowLock[current[s]] \in group \ {s}
  \/ pc[s] = "loop" /\ Waiting(s) # {} /\ \A a \in Waiting(s) : rowLock[a] \in group \ {s}

InDeadlock(s) ==
  \E group \in SUBSET Sessions : s \in group /\ \A t \in group : WaitsFor(t, group)

DeadlockDetected(s) ==
  /\ InDeadlock(s)
  /\ RollBack(s)
  /\ UNCHANGED <<backend, world>>

(* runtime_execution_id is never set on these runs, so cancel asks nobody. *)
Cancel ==
  /\ run \notin TerminalStates /\ CanTransition(run, "CANCELLED")
  /\ run' = "CANCELLED"
  /\ UNCHANGED <<backend, errorCode, started, actionStatus, artifacts, world, rowLock, pc, memory>>

RuntimeStarts(a) ==
  /\ backend = "agent_runtime" /\ exec[a] = "queued"
  /\ exec' = [exec EXCEPT ![a] = "running"]
  /\ UNCHANGED <<backend, rows, calls, rowLock, pc, memory>>

(* What it reports as failed or cancelled it has not written.              *)
RuntimeFinishes(a, outcome) ==
  /\ backend = "agent_runtime" /\ exec[a] = "running"
  /\ exec' = [exec EXCEPT ![a] = outcome]
  /\ calls' = IF outcome = "succeeded" THEN [calls EXCEPT ![a] = @ + 1] ELSE calls
  /\ UNCHANGED <<backend, rows, rowLock, pc, memory>>

Progress(s) ==
  \/ Relock(s)
  \/ RelockRefused(s)
  \/ \E a \in Actions : Skip(s, a)
  \/ \E a \in Actions : Submit(s, a)
  \/ Uncertain(s)
  \/ Answered(s)
  \/ \E a \in Actions, written \in BOOLEAN, outcome \in {"succeeded", "failed"} :
       LocalSubmit(s, a, written, outcome)
  \/ Commit(s)
  \/ SettleUnfinished(s)
  \/ SettleFinished(s)
  \/ SettleRefused(s)

Next ==
  \/ \E s \in Sessions : Enqueue(s)
  \/ \E s \in Sessions : Retry(s)
  \/ \E s \in Sessions : Progress(s)
  \/ \E s \in Sessions : Abort(s)
  \/ \E s \in Sessions : DeadlockDetected(s)
  \/ Cancel
  \/ \E a \in Actions : RuntimeStarts(a)
  \/ \E a \in Actions, outcome \in {"succeeded", "failed", "cancelled"} : RuntimeFinishes(a, outcome)

Spec == Init /\ [][Next]_vars

--------------------------------------------------------------------------------
Finished == run \in TerminalStates

(* Every variable holds a value of its type.                               *)
TypeOK ==
  /\ backend \in {"local", "agent_runtime"}
  /\ run \in WorkflowStatus /\ errorCode \in ErrorCode /\ started \in BOOLEAN
  /\ actionStatus \in [Actions -> ActionStatus]
  /\ artifacts \in SUBSET Actions
  /\ exec \in [Actions -> RuntimeStatus \cup {"none"}]
  /\ calls \in [Actions -> Nat]
  /\ rowLock \in [Actions -> Sessions \cup {NoSession}]
  /\ pc \in [Sessions -> {"idle", "gap", "loop", "sent", "settle"}]
  /\ executing \in [Sessions -> SUBSET Actions]
  /\ current \in [Sessions -> Actions \cup {NoAction}]
  /\ first \in [Sessions -> Actions \cup {NoAction}]
  /\ results \in [Sessions -> [Actions -> Outcome \cup {"none"}]]
  /\ fresh \in [Sessions -> SUBSET Actions]

(* No action is written twice; every artifact row stands for a write that  *)
(* the runtime reports as succeeded; the final status claims no more than  *)
(* the runtime confirms.                                                   *)
WrittenAtMostOnce == \A a \in Actions : calls[a] <= 1
RowsAreTrue == \A a \in artifacts : calls[a] = 1 /\ exec[a] = "succeeded"
StatusIsTrue ==
  /\ run \in {"COMPLETED", "PARTIALLY_COMPLETED"} => \E a \in Actions : exec[a] = "succeeded"
  /\ run \in {"PARTIALLY_COMPLETED", "FAILED"} =>
       \E a \in Actions : exec[a] \in {"failed", "cancelled"}

(* What Relay records of a run is true, although two retries can be in the *)
(* loop at once, answers are lost, half-done loops roll back and a cancel  *)
(* may come at any time.                                                   *)
RecordsAreTrue == WrittenAtMostOnce /\ RowsAreTrue /\ StatusIsTrue

(* A run that has ended keeps its status, although loops that began before *)
(* the end still commit and settle.                                        *)
EndedIsFinal == [][Finished => UNCHANGED run]_vars

(* Where a request can go on: before and after the loop always, in the    *)
(* loop when no row that another request has locked is in its way.         *)
MayHandle(s, a) ==
  \/ CanWrite(s, a)
  \/ backend = "agent_runtime" /\ a \notin artifacts /\ a \in executing[s]

CanGoOn(s) ==
  \/ pc[s] \in {"gap", "settle"}
  \/ pc[s] = "loop" /\ (Waiting(s) = {} \/ \E a \in Waiting(s) : MayHandle(s, a))
  \/ pc[s] = "sent" /\ CanWrite(s, current[s])

(* Row locks never bring every request to a standstill: as long as one is  *)
(* under way, one can go on or is part of a deadlock that the data base    *)
(* detects (the actions are read in no order, so loops lock them           *)
(* crosswise); no lock outlives the request that took it, and no request   *)
(* waits for itself.                                                       *)
NobodyStuck ==
  (\E s \in Sessions : pc[s] # "idle") => \E s \in Sessions : CanGoOn(s) \/ InDeadlock(s)

(* The same, and a request that can go on has a step.                      *)
SomeoneCanMove ==
  NobodyStuck /\ \A s \in Sessions : CanGoOn(s) => ENABLED Progress(s)

(* The effects of the run, as an implementation of ApprovedEffect.         *)
Effect == INSTANCE ApprovedEffect WITH
  Items <- Actions, released <- started, ended <- Finished,
  writes <- calls, recorded <- artifacts

ImplementsEffect == Effect!Spec

--------------------------------------------------------------------------------
(* Claims of the documentation that the code does not keep.                *)

(* The run is COMPLETED when all actions succeeded                         *)
(* (docs/workflows/collaborate.md).                                        *)
CompletedMeansAll == run = "COMPLETED" => \A a \in Actions : exec[a] = "succeeded"

================================================================================
