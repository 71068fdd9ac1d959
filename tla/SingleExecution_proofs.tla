------------------------- MODULE SingleExecution_proofs -------------------------
(***************************************************************************)
(* Proofs about SingleExecution for any finite set of items, any           *)
(* destinations, any number of concurrent requests and any bound on polls. *)
(***************************************************************************)
EXTENDS SingleExecution, TLAPS

Executing == {"submit", "calling", "poll", "gave_up"}
Holding == Executing \cup {"cancel"}
Open == {"none", "failure"}

NothingWritten == \A e \in Events : calls[e] = 0

(* The row lock is held by the one request that is past its SELECT.        *)
LockIsHeld == \A s \in Sessions : lock = s <=> pc[s] \in Holding

(* What a request finds in the run at each point of its way.  Between the  *)
(* two transactions of execute() it is alone: nobody else can begin on a   *)
(* QUEUED run that has neither an error code nor an execution id.          *)
Phases ==
  /\ run = "APPROVED" =>
       /\ sent = {} /\ errorCode = "none" /\ ~runtimeId /\ exec = NoExecution
       /\ \A s \in Sessions : pc[s] = "idle"
  /\ run = "QUEUED" => errorCode = "none"
  /\ \A s \in Sessions :
       /\ pc[s] = "gap" =>
            /\ run \in {"QUEUED", "CANCELLED"} /\ errorCode = "none" /\ ~runtimeId
            /\ \A t \in Sessions : t # s => pc[t] = "idle"
       /\ pc[s] \in Executing => run \in {"QUEUED", "EXECUTING"}
       /\ pc[s] = "cancel" => ~Finished /\ runtimeId
       /\ pc[s] \in {"calling", "poll", "gave_up"} => sent # {}

(* With the local runtime nothing is ever in doubt: its writes and its     *)
(* answer belong to the one transaction that ends the run, and a request   *)
(* that dies after a write leaves a run that nobody can retry.             *)
LocalRuntime ==
  backend = "local" =>
    /\ errorCode # "recoverable"
    /\ runtimeId => Finished
    /\ exec # NoExecution => Finished
    /\ run = "APPROVED" => NothingWritten
    /\ \A s \in Sessions :
         /\ pc[s] \in {"gap", "submit", "calling"} => NothingWritten
         /\ pc[s] \in {"poll", "gave_up"} =>
              snap[s] # NoExecution /\ snap[s].status \in RuntimeTerminal

(* The Agent Runtime writes only while it finishes its one execution, and  *)
(* a final snapshot of it is what it will always answer.                   *)
AgentRuntime ==
  backend = "agent_runtime" =>
    /\ exec = NoExecution \/ exec.status \in {"queued", "running"} => NothingWritten
    /\ runtimeId => exec # NoExecution
    /\ \A s \in Sessions :
         /\ pc[s] # "calling"
         /\ pc[s] \in {"poll", "gave_up"} =>
              /\ exec # NoExecution /\ snap[s] # NoExecution
              /\ snap[s].status \in RuntimeTerminal => exec = snap[s]

(* A report that claims success claims every item, and every report claims *)
(* only items that were written.                                           *)
Truthful(report) ==
  report # NoExecution =>
    /\ report.status = "succeeded" => report.created = items
    /\ \A e \in report.created : calls[e] = 1

Reports ==
  /\ exec # NoExecution => sent # {}
  /\ Truthful(exec)
  /\ \A s \in Sessions : Truthful(snap[s])
  /\ \A e \in artifacts : calls[e] = 1

(* All submissions so far, and the next one, go to one destination.        *)
OneDestination == sent \subseteq {SubmittedDest}

IInv ==
  /\ TypeOK /\ LockIsHeld /\ Phases
  /\ LocalRuntime /\ AgentRuntime /\ Reports /\ OneDestination
  /\ WrittenAtMostOnce /\ OutcomeMatchesRuntime /\ CancelIsConfirmed

--------------------------------------------------------------------------------
(* The invariant in use.                                                   *)

(* A request that polls has a snapshot of the execution.                   *)
LEMMA SnapshotKnown ==
  ASSUME IInv, NEW s \in Sessions, pc[s] \in {"poll", "gave_up"}
  PROVE  /\ snap[s] \in Execution
         /\ backend = "local" => snap[s].status \in RuntimeTerminal
         /\ backend = "agent_runtime" =>
              /\ exec \in Execution
              /\ snap[s].status \in RuntimeTerminal => exec = snap[s]
BY DEF IInv, TypeOK, LocalRuntime, AgentRuntime

(* A request that cancels has an execution to cancel.                      *)
LEMMA ExecutionKnown ==
  ASSUME IInv, NEW s \in Sessions, pc[s] = "cancel"
  PROVE  backend = "agent_runtime" /\ exec \in Execution
BY DEF IInv, TypeOK, Phases, LocalRuntime, AgentRuntime

(* The runtime's "cancelled" is the only status that confirms.             *)
LEMMA OnlyCancelledConfirms ==
  ASSUME NEW report \in Execution, Confirms(report)
  PROVE  report.status = "cancelled"
<1>1. report.status \in RuntimeStatus
  BY DEF Execution
<1>2. ASSUME report.status # "cancelled"
      PROVE  WorkflowStatusForRuntime(report.status) # "CANCELLED"
  BY <1>1, <1>2, Zenon DEF RuntimeStatus, WorkflowStatusForRuntime
<1> QED
  BY <1>2 DEF Confirms

--------------------------------------------------------------------------------
(* Each part of the invariant is preserved by every step.                  *)

(* What a final snapshot says is what the runtime remembers, from then on  *)
(* if not before.                                                          *)
LEMMA SettledExecution ==
  ASSUME IInv, NEW s \in Sessions, Settling(s), snap[s].status \in RuntimeTerminal
  PROVE  exec' = snap[s] /\ snap[s] \in Execution
BY SnapshotKnown DEF Settling, IInv, TypeOK

(* Every execution the runtime reports differs from the absent one.        *)
LEMMA ExecutionExists == NoExecution \notin Execution
BY ExecutionAssumption DEF Execution

(* What the local runtime reports of the items it has tried.               *)
LEMMA LocalReport ==
  ASSUME NEW created \in SUBSET Events
  PROVE  /\ [status |-> LocalStatus(created), created |-> created] \in Execution
         /\ LocalStatus(created) \in RuntimeTerminal
         /\ LocalStatus(created) = "succeeded" => created = items
BY DEF LocalStatus, Execution, RuntimeStatus, RuntimeTerminal

(* What the Agent Runtime reports when it starts and when it finishes.     *)
LEMMA StartedReport ==
  ASSUME exec \in Execution
  PROVE  LET started == [exec EXCEPT !.status = "running"]
         IN  started \in Execution /\ started.status = "running" /\ started.created = exec.created
BY DEF Execution, RuntimeStatus

LEMMA FinishedReport ==
  ASSUME NEW created \in SUBSET Events, NEW status \in FinalStatuses(created)
  PROVE  /\ [status |-> status, created |-> created] \in Execution
         /\ status \in RuntimeTerminal
         /\ status = "succeeded" => created = items
BY DEF FinalStatuses, Execution, RuntimeStatus, RuntimeTerminal

(* A cancel request leaves the execution alone or stops an unfinished one. *)
LEMMA CancelledExecution ==
  ASSUME exec \in Execution, RuntimeCancels
  PROVE  /\ exec' \in Execution /\ exec'.created = exec.created
         /\ \/ exec' = exec
            \/ exec.status \notin RuntimeTerminal /\ exec'.status = "cancelled"
BY DEF RuntimeCancels, Execution, RuntimeStatus

(* A submission goes to a known destination, and the runtime has one       *)
(* execution afterwards if it got it.                                      *)
LEMMA SubmissionType ==
  ASSUME TypeOK
  PROVE  /\ SubmittedDest \in Destinations \cup {NoDest}
         /\ Accepted => exec' \in Execution
BY DEF TypeOK, SubmittedDest, Accepted, Execution, RuntimeStatus

(* A request that ends gives up the lock and forgets its snapshot.         *)
LEMMA ReleaseType ==
  ASSUME TypeOK, NEW s \in Sessions, Release(s)
  PROVE  /\ lock' \in Sessions \cup {NoSession}
         /\ pc' \in [Sessions -> Labels]
         /\ snap' \in [Sessions -> Execution \cup {NoExecution}]
         /\ polls' \in [Sessions -> 0..MaxPolls]
BY ExecutionAssumption DEF TypeOK, Release, Goto, Labels

LEMMA ReleaseFrees ==
  ASSUME TypeOK, LockIsHeld, NEW s \in Sessions, Release(s)
  PROVE  LockIsHeld'
BY ExecutionAssumption DEF TypeOK, LockIsHeld, Holding, Executing, Release, Goto

(* Moving on from one holding point to another keeps the lock.             *)
LEMMA GotoHolds ==
  ASSUME TypeOK, LockIsHeld, NEW s \in Sessions, lock = s, lock' = lock,
         NEW label \in Holding, Goto(s, label)
  PROVE  LockIsHeld'
BY DEF TypeOK, LockIsHeld, Goto

(* Every step keeps every variable in its type.                            *)
LEMMA TypeStep ==
  ASSUME IInv, Next
  PROVE  TypeOK'
<1> USE DEF TypeOK, Goto, approval, row, runtime, request
<1>a. TypeOK
  BY DEF IInv
<1>1. ASSUME NEW s \in Sessions,
             Enqueue(s) \/ Retry(s) \/ CancelBefore(s) \/ CancelBegin(s)
      PROVE  TypeOK'
  BY <1>1, <1>a
     DEF Enqueue, WorkflowStatus, ActionStatus, ErrorCode, Labels, Retry,
         RetryAllowed, RecoverableRun, CancelBefore, CancelBegin
<1>2. ASSUME NEW s \in Sessions,
             Relock(s) \/ RelockRefused(s)
      PROVE  TypeOK'
  BY <1>2, <1>a, ReleaseType
     DEF Relock, MayProceed, CanTransition, Transitions, Labels, RelockRefused,
         RollBack
<1>3. ASSUME NEW s \in Sessions,
             SubmitAnswered(s) \/ SubmitUncertain(s) \/ SubmitFailed(s)
      PROVE  TypeOK'
  BY <1>3, <1>a, SubmissionType, ReleaseType
     DEF SubmitAnswered, Submitting, Labels, SubmitUncertain, MarkedStatus,
         WorkflowStatus, ActionStatus, ErrorCode, SubmitFailed, RollBack
<1>4. ASSUME NEW s \in Sessions, SubmitLocal(s)
      PROVE  TypeOK'
  BY <1>4, <1>a, SubmissionType
     DEF SubmitLocal, Labels
<1>5. ASSUME NEW s \in Sessions, NEW written \in SUBSET Events,
             NEW created \in SUBSET Events, ProviderCalls(s, written, created)
      PROVE  TypeOK'
  BY <1>5, <1>a
     DEF ProviderCalls, Write, LocalStatus, Execution, RuntimeStatus, Labels
<1>6. ASSUME NEW s \in Sessions,
             PollAnswered(s) \/ PollGivesUp(s) \/ PollFailed(s)
      PROVE  TypeOK'
  BY <1>6, <1>a, SnapshotKnown, ExecutionAssumption, ReleaseType
     DEF PollAnswered, Polling, NextPoll, Labels, PollGivesUp, PollFailed, RollBack
<1>7. ASSUME NEW s \in Sessions,
             SettleQueued(s) \/ SettleRunning(s)
      PROVE  TypeOK'
  <2>1. CASE SettleQueued(s)
    BY <2>1, <1>a, SnapshotKnown, ReleaseType
       DEF SettleQueued, Settling, WorkflowStatus, ActionStatus, ErrorCode, Execution
  <2>2. CASE SettleRunning(s)
    BY <2>2, <1>a, SnapshotKnown, ReleaseType
       DEF Settling, SettleRunning, WorkflowStatus, ActionStatus, ErrorCode, Execution
  <2> QED
    BY <1>7, <2>1, <2>2
<1>8. ASSUME NEW s \in Sessions,
             SettleCancelled(s) \/ SettleSucceeded(s) \/ SettlePartial(s) \/ SettleFailed(s)
      PROVE  TypeOK'
  BY <1>8, <1>a, SnapshotKnown, ReleaseType
     DEF SettleCancelled, Settling, Settle, WorkflowStatus, ActionStatus,
         ErrorCode, Execution, SettleSucceeded, SettlePartial, Recorded,
         SettleFailed
<1>9. ASSUME NEW s \in Sessions,
             CancelAnswered(s) \/ CancelFailed(s)
      PROVE  TypeOK'
  BY <1>9, <1>a, ExecutionKnown, ReleaseType
     DEF CancelAnswered, RuntimeCancels, WorkflowStatus, ActionStatus, ErrorCode,
         Execution, RuntimeStatus, CancelFailed, RollBack
<1>10. ASSUME NEW s \in Sessions, Crash(s)
      PROVE  TypeOK'
  BY <1>10, <1>a, ReleaseType
     DEF Crash, RollBack
<1>11. ASSUME NEW d \in Destinations \cup {NoDest}, UpdateDestination(d)
      PROVE  TypeOK'
  BY <1>11, <1>a
     DEF UpdateDestination, Retargetable, Labels
<1>12. ASSUME RuntimeStarts
      PROVE  TypeOK'
  BY <1>12, <1>a
     DEF RuntimeStarts, Execution, RuntimeStatus, Labels
<1>13. ASSUME NEW written \in SUBSET Events, NEW created \in SUBSET Events,
             RuntimeFinishes(written, created)
      PROVE  TypeOK'
  BY <1>13, <1>a
     DEF RuntimeFinishes, Write, FinalStatuses, Execution, RuntimeStatus, Labels
<1> QED
  BY <1>1, <1>2, <1>3, <1>4, <1>5, <1>6, <1>7, <1>8, <1>9, <1>10, <1>11,
     <1>12, <1>13
     DEF Next, Arrival, Progress, Failure

(* A request that ends or moves on takes the lock with it or leaves it.    *)
LEMMA LockStep ==
  ASSUME TypeOK, LockIsHeld, Next
  PROVE  LockIsHeld'
<1> USE DEF TypeOK, LockIsHeld, Holding, Executing, Goto, request
<1>1. ASSUME NEW s \in Sessions,
             Enqueue(s) \/ Retry(s) \/ CancelBefore(s) \/ CancelBegin(s)
      PROVE  LockIsHeld'
  BY <1>1, ExecutionAssumption
     DEF Enqueue, Retry, RetryAllowed, RecoverableRun, CancelBefore, CancelBegin
<1>2. ASSUME NEW s \in Sessions,
             Relock(s) \/ RelockRefused(s)
      PROVE  LockIsHeld'
  BY <1>2, ExecutionAssumption, ReleaseFrees
     DEF Relock, MayProceed, CanTransition, Transitions, RelockRefused, RollBack
<1>3. ASSUME NEW s \in Sessions,
             SubmitAnswered(s) \/ SubmitUncertain(s) \/ SubmitFailed(s)
      PROVE  LockIsHeld'
  BY <1>3, ExecutionAssumption, ReleaseFrees
     DEF SubmitAnswered, Submitting, Accepted, SubmitUncertain, MarkedStatus,
         SubmitFailed, RollBack
<1>4. ASSUME NEW s \in Sessions, SubmitLocal(s)
      PROVE  LockIsHeld'
  BY <1>4, ExecutionAssumption
     DEF SubmitLocal
<1>5. ASSUME NEW s \in Sessions, NEW written \in SUBSET Events,
             NEW created \in SUBSET Events, ProviderCalls(s, written, created)
      PROVE  LockIsHeld'
  BY <1>5, ExecutionAssumption
     DEF ProviderCalls, Write, LocalStatus
<1>6. ASSUME NEW s \in Sessions,
             PollAnswered(s) \/ PollGivesUp(s) \/ PollFailed(s)
      PROVE  LockIsHeld'
  BY <1>6, ExecutionAssumption, ReleaseFrees
     DEF PollAnswered, Polling, NextPoll, PollGivesUp, PollFailed, RollBack
<1>7. ASSUME NEW s \in Sessions,
             SettleQueued(s) \/ SettleRunning(s)
      PROVE  LockIsHeld'
  BY <1>7, ReleaseFrees
     DEF SettleQueued, Settling, SettleRunning
<1>8. ASSUME NEW s \in Sessions,
             SettleCancelled(s) \/ SettleSucceeded(s) \/ SettlePartial(s) \/ SettleFailed(s)
      PROVE  LockIsHeld'
  BY <1>8, ReleaseFrees
     DEF SettleCancelled, Settling, Settle, SettleSucceeded, SettlePartial,
         Recorded, SettleFailed
<1>9. ASSUME NEW s \in Sessions,
             CancelAnswered(s) \/ CancelFailed(s)
      PROVE  LockIsHeld'
  BY <1>9, ReleaseFrees
     DEF CancelAnswered, RuntimeCancels, CancelFailed, RollBack
<1>10. ASSUME NEW s \in Sessions, Crash(s)
      PROVE  LockIsHeld'
  BY <1>10, ReleaseFrees
     DEF Crash, RollBack
<1>11. ASSUME NEW d \in Destinations \cup {NoDest}, UpdateDestination(d)
      PROVE  LockIsHeld'
  BY <1>11, ExecutionAssumption
     DEF UpdateDestination, Retargetable
<1>12. ASSUME RuntimeStarts
      PROVE  LockIsHeld'
  BY <1>12, ExecutionAssumption
     DEF RuntimeStarts
<1>13. ASSUME NEW written \in SUBSET Events, NEW created \in SUBSET Events,
             RuntimeFinishes(written, created)
      PROVE  LockIsHeld'
  BY <1>13, ExecutionAssumption
     DEF RuntimeFinishes, Write, FinalStatuses
<1> QED
  BY <1>1, <1>2, <1>3, <1>4, <1>5, <1>6, <1>7, <1>8, <1>9, <1>10, <1>11,
     <1>12, <1>13
     DEF Next, Arrival, Progress, Failure

(* No step moves the run under a request that relies on it.                *)
LEMMA PhaseStep ==
  ASSUME IInv, Next
  PROVE  Phases'
<1> USE DEF TypeOK, LockIsHeld, Phases, Holding, Executing, Finished,
            TerminalStates, Goto, Release, approval, row, runtime, request
<1>a. TypeOK /\ LockIsHeld /\ Phases
  BY DEF IInv
<1>1. ASSUME NEW s \in Sessions,
             Enqueue(s) \/ Retry(s) \/ CancelBefore(s) \/ CancelBegin(s)
      PROVE  Phases'
  BY <1>1, <1>a, ExecutionAssumption
     DEF Enqueue, Retry, RetryAllowed, RecoverableRun, CancelBefore, CancelBegin
<1>2. ASSUME NEW s \in Sessions,
             Relock(s) \/ RelockRefused(s)
      PROVE  Phases'
  BY <1>2, <1>a, ExecutionAssumption
     DEF Relock, MayProceed, CanTransition, Transitions, RelockRefused, RollBack
<1>3. ASSUME NEW s \in Sessions,
             SubmitAnswered(s) \/ SubmitUncertain(s) \/ SubmitFailed(s)
      PROVE  Phases'
  BY <1>3, <1>a, ExecutionAssumption
     DEF SubmitAnswered, Submitting, Accepted, SubmitUncertain, MarkedStatus,
         SubmitFailed, RollBack
<1>4. ASSUME NEW s \in Sessions, SubmitLocal(s)
      PROVE  Phases'
  BY <1>4, <1>a, ExecutionAssumption
     DEF SubmitLocal
<1>5. ASSUME NEW s \in Sessions, NEW written \in SUBSET Events,
             NEW created \in SUBSET Events, ProviderCalls(s, written, created)
      PROVE  Phases'
  BY <1>5, <1>a, ExecutionAssumption
     DEF ProviderCalls, Write
<1>6. ASSUME NEW s \in Sessions,
             PollAnswered(s) \/ PollGivesUp(s) \/ PollFailed(s)
      PROVE  Phases'
  BY <1>6, <1>a, ExecutionAssumption
     DEF PollAnswered, Polling, NextPoll, PollGivesUp, PollFailed, RollBack
<1>7. ASSUME NEW s \in Sessions,
             SettleQueued(s) \/ SettleRunning(s)
      PROVE  Phases'
  BY <1>7, <1>a, ExecutionAssumption
     DEF SettleQueued, Settling, SettleRunning
<1>8. ASSUME NEW s \in Sessions,
             SettleCancelled(s) \/ SettleSucceeded(s) \/ SettlePartial(s) \/ SettleFailed(s)
      PROVE  Phases'
  BY <1>8, <1>a, ExecutionAssumption
     DEF SettleCancelled, Settling, Settle, SettleSucceeded, SettlePartial,
         Recorded, SettleFailed
<1>9. ASSUME NEW s \in Sessions,
             CancelAnswered(s) \/ CancelFailed(s)
      PROVE  Phases'
  BY <1>9, <1>a, ExecutionAssumption
     DEF CancelAnswered, RuntimeCancels, CancelFailed, RollBack
<1>10. ASSUME NEW s \in Sessions, Crash(s)
      PROVE  Phases'
  BY <1>10, <1>a, ExecutionAssumption
     DEF Crash, RollBack
<1>11. ASSUME NEW d \in Destinations \cup {NoDest}, UpdateDestination(d)
      PROVE  Phases'
  BY <1>11, <1>a, ExecutionAssumption
     DEF UpdateDestination, Retargetable
<1>12. ASSUME RuntimeStarts
      PROVE  Phases'
  BY <1>12, <1>a, ExecutionAssumption
     DEF RuntimeStarts
<1>13. ASSUME NEW written \in SUBSET Events, NEW created \in SUBSET Events,
             RuntimeFinishes(written, created)
      PROVE  Phases'
  BY <1>13, <1>a, ExecutionAssumption
     DEF RuntimeFinishes, Write
<1> QED
  BY <1>1, <1>2, <1>3, <1>4, <1>5, <1>6, <1>7, <1>8, <1>9, <1>10, <1>11,
     <1>12, <1>13
     DEF Next, Arrival, Progress, Failure

(* Writes of the local runtime end with the run or are never retried.      *)
LEMMA LocalStep ==
  ASSUME IInv, Next
  PROVE  LocalRuntime'
<1> USE DEF TypeOK, LockIsHeld, Phases, LocalRuntime, NothingWritten, Holding,
            Executing, Finished, TerminalStates, Goto, Release, approval, row,
            runtime, request
<1>a. TypeOK /\ LockIsHeld /\ Phases /\ LocalRuntime
  BY DEF IInv
<1>1. ASSUME NEW s \in Sessions,
             Enqueue(s) \/ Retry(s) \/ CancelBefore(s) \/ CancelBegin(s)
      PROVE  LocalRuntime'
  BY <1>1, <1>a
     DEF Enqueue, Retry, RetryAllowed, RecoverableRun, CancelBefore, CancelBegin
<1>2. ASSUME NEW s \in Sessions,
             Relock(s) \/ RelockRefused(s)
      PROVE  LocalRuntime'
  BY <1>2, <1>a
     DEF Relock, MayProceed, CanTransition, Transitions, RelockRefused, RollBack
<1>3. ASSUME NEW s \in Sessions,
             SubmitAnswered(s) \/ SubmitUncertain(s) \/ SubmitFailed(s)
      PROVE  LocalRuntime'
  BY <1>3, <1>a, SubmissionType, ExecutionExists
     DEF SubmitAnswered, Submitting, Accepted, SubmitUncertain, MarkedStatus,
         SubmitFailed, RollBack
<1>4. ASSUME NEW s \in Sessions, SubmitLocal(s)
      PROVE  LocalRuntime'
  BY <1>4, <1>a
     DEF SubmitLocal
<1>5. ASSUME NEW s \in Sessions, NEW written \in SUBSET Events,
             NEW created \in SUBSET Events, ProviderCalls(s, written, created)
      PROVE  LocalRuntime'
  BY <1>5, <1>a, LocalReport, ExecutionExists
     DEF ProviderCalls, Write
<1>6. ASSUME NEW s \in Sessions,
             PollAnswered(s) \/ PollGivesUp(s) \/ PollFailed(s)
      PROVE  LocalRuntime'
  BY <1>6, <1>a, SnapshotKnown
     DEF PollAnswered, Polling, NextPoll, PollGivesUp, PollFailed, RollBack
<1>7. ASSUME NEW s \in Sessions,
             SettleQueued(s) \/ SettleRunning(s)
      PROVE  LocalRuntime'
  BY <1>7, <1>a, SnapshotKnown
     DEF SettleQueued, Settling, RuntimeTerminal, SettleRunning
<1>8. ASSUME NEW s \in Sessions,
             SettleCancelled(s) \/ SettleSucceeded(s) \/ SettlePartial(s) \/ SettleFailed(s)
      PROVE  LocalRuntime'
  BY <1>8, <1>a, SnapshotKnown
     DEF SettleCancelled, Settling, Settle, RuntimeTerminal, SettleSucceeded,
         SettlePartial, Recorded, SettleFailed
<1>9. ASSUME NEW s \in Sessions,
             CancelAnswered(s) \/ CancelFailed(s)
      PROVE  LocalRuntime'
  BY <1>9, <1>a, ExecutionKnown, CancelledExecution, ExecutionExists
     DEF CancelAnswered, RuntimeTerminal, CancelFailed, RollBack
<1>10. ASSUME NEW s \in Sessions, Crash(s)
      PROVE  LocalRuntime'
  BY <1>10, <1>a
     DEF Crash, RollBack
<1>11. ASSUME NEW d \in Destinations \cup {NoDest}, UpdateDestination(d)
      PROVE  LocalRuntime'
  BY <1>11, <1>a
     DEF UpdateDestination, Retargetable
<1>12. ASSUME RuntimeStarts
      PROVE  LocalRuntime'
  BY <1>12, <1>a, StartedReport, ExecutionExists
     DEF RuntimeStarts, RuntimeTerminal
<1>13. ASSUME NEW written \in SUBSET Events, NEW created \in SUBSET Events,
             RuntimeFinishes(written, created)
      PROVE  LocalRuntime'
  BY <1>13, <1>a, FinishedReport, ExecutionExists
     DEF RuntimeFinishes, Write, RuntimeTerminal
<1> QED
  BY <1>1, <1>2, <1>3, <1>4, <1>5, <1>6, <1>7, <1>8, <1>9, <1>10, <1>11,
     <1>12, <1>13
     DEF Next, Arrival, Progress, Failure

(* The one execution of the Agent Runtime is written and answered once.    *)
LEMMA AgentStep ==
  ASSUME IInv, Next
  PROVE  AgentRuntime'
<1> USE DEF TypeOK, LockIsHeld, Phases, AgentRuntime, NothingWritten, Holding,
            Executing, Finished, TerminalStates, Goto, Release, approval, row,
            runtime, request
<1>a. TypeOK /\ LockIsHeld /\ Phases /\ AgentRuntime
  BY DEF IInv
<1>1. ASSUME NEW s \in Sessions,
             Enqueue(s) \/ Retry(s) \/ CancelBefore(s) \/ CancelBegin(s)
      PROVE  AgentRuntime'
  BY <1>1, <1>a
     DEF Enqueue, Retry, RetryAllowed, RecoverableRun, CancelBefore, CancelBegin
<1>2. ASSUME NEW s \in Sessions,
             Relock(s) \/ RelockRefused(s)
      PROVE  AgentRuntime'
  BY <1>2, <1>a
     DEF Relock, MayProceed, CanTransition, Transitions, RelockRefused, RollBack
<1>3. ASSUME NEW s \in Sessions,
             SubmitAnswered(s) \/ SubmitUncertain(s) \/ SubmitFailed(s)
      PROVE  AgentRuntime'
  BY <1>3, <1>a, SubmissionType, ExecutionExists
     DEF SubmitAnswered, Submitting, Accepted, SubmitUncertain, MarkedStatus,
         SubmitFailed, RollBack
<1>4. ASSUME NEW s \in Sessions, SubmitLocal(s)
      PROVE  AgentRuntime'
  BY <1>4, <1>a
     DEF SubmitLocal
<1>5. ASSUME NEW s \in Sessions, NEW written \in SUBSET Events,
             NEW created \in SUBSET Events, ProviderCalls(s, written, created)
      PROVE  AgentRuntime'
  BY <1>5, <1>a, LocalReport, ExecutionExists
     DEF ProviderCalls, Write
<1>6. ASSUME NEW s \in Sessions,
             PollAnswered(s) \/ PollGivesUp(s) \/ PollFailed(s)
      PROVE  AgentRuntime'
  BY <1>6, <1>a, SnapshotKnown
     DEF PollAnswered, Polling, NextPoll, PollGivesUp, PollFailed, RollBack
<1>7. ASSUME NEW s \in Sessions,
             SettleQueued(s) \/ SettleRunning(s)
      PROVE  AgentRuntime'
  BY <1>7, <1>a, SnapshotKnown
     DEF SettleQueued, Settling, RuntimeTerminal, SettleRunning
<1>8. ASSUME NEW s \in Sessions,
             SettleCancelled(s) \/ SettleSucceeded(s) \/ SettlePartial(s) \/ SettleFailed(s)
      PROVE  AgentRuntime'
  BY <1>8, <1>a, SnapshotKnown
     DEF SettleCancelled, Settling, Settle, RuntimeTerminal, SettleSucceeded,
         SettlePartial, Recorded, SettleFailed
<1>9. ASSUME NEW s \in Sessions,
             CancelAnswered(s) \/ CancelFailed(s)
      PROVE  AgentRuntime'
  BY <1>9, <1>a, ExecutionKnown, CancelledExecution, ExecutionExists
     DEF CancelAnswered, RuntimeTerminal, CancelFailed, RollBack
<1>10. ASSUME NEW s \in Sessions, Crash(s)
      PROVE  AgentRuntime'
  BY <1>10, <1>a
     DEF Crash, RollBack
<1>11. ASSUME NEW d \in Destinations \cup {NoDest}, UpdateDestination(d)
      PROVE  AgentRuntime'
  BY <1>11, <1>a
     DEF UpdateDestination, Retargetable
<1>12. ASSUME RuntimeStarts
      PROVE  AgentRuntime'
  BY <1>12, <1>a, StartedReport, ExecutionExists
     DEF RuntimeStarts, RuntimeTerminal
<1>13. ASSUME NEW written \in SUBSET Events, NEW created \in SUBSET Events,
             RuntimeFinishes(written, created)
      PROVE  AgentRuntime'
  BY <1>13, <1>a, FinishedReport, ExecutionExists
     DEF RuntimeFinishes, Write, RuntimeTerminal
<1> QED
  BY <1>1, <1>2, <1>3, <1>4, <1>5, <1>6, <1>7, <1>8, <1>9, <1>10, <1>11,
     <1>12, <1>13
     DEF Next, Arrival, Progress, Failure

(* No report or record claims what was not written.                        *)
LEMMA ReportStep ==
  ASSUME IInv, Next
  PROVE  Reports'
<1> USE DEF TypeOK, LockIsHeld, Phases, LocalRuntime, AgentRuntime, Reports,
            Truthful, NothingWritten, Holding, Executing, Finished,
            TerminalStates, Goto, Release, approval, row, runtime, request
<1>a. TypeOK /\ LockIsHeld /\ Phases /\ LocalRuntime /\ AgentRuntime /\ Reports
  BY DEF IInv
<1>1. ASSUME NEW s \in Sessions,
             Enqueue(s) \/ Retry(s) \/ CancelBefore(s) \/ CancelBegin(s)
      PROVE  Reports'
  BY <1>1, <1>a
     DEF Enqueue, Retry, RetryAllowed, RecoverableRun, CancelBefore, CancelBegin
<1>2. ASSUME NEW s \in Sessions,
             Relock(s) \/ RelockRefused(s)
      PROVE  Reports'
  BY <1>2, <1>a
     DEF Relock, MayProceed, CanTransition, Transitions, RelockRefused, RollBack
<1>3. ASSUME NEW s \in Sessions, SubmitAnswered(s)
      PROVE  Reports'
  BY <1>3, <1>a, SubmissionType, ExecutionExists
     DEF SubmitAnswered, Submitting, Accepted
<1>4. ASSUME NEW s \in Sessions, SubmitUncertain(s)
      PROVE  Reports'
  BY <1>4, <1>a
     DEF SubmitUncertain, Submitting, Accepted, MarkedStatus
<1>5. ASSUME NEW s \in Sessions, SubmitFailed(s)
      PROVE  Reports'
  BY <1>5, <1>a
     DEF SubmitFailed, RollBack, Submitting, Accepted
<1>6. ASSUME NEW s \in Sessions, SubmitLocal(s)
      PROVE  Reports'
  BY <1>6, <1>a
     DEF SubmitLocal
<1>7. ASSUME NEW s \in Sessions, NEW written \in SUBSET Events,
             NEW created \in SUBSET Events, ProviderCalls(s, written, created)
      PROVE  Reports'
  <2>1. NothingWritten
    BY <1>7, <1>a DEF ProviderCalls
  <2>2. created \subseteq written /\ \A e \in written : calls'[e] = 1
    BY <1>7, <1>a, <2>1 DEF ProviderCalls, Write
  <2>3. Truthful(snap[s])'
    BY <1>7, <1>a, <2>2, LocalReport DEF ProviderCalls
  <2>4. \A t \in Sessions : t # s => snap'[t] = snap[t] /\ Truthful(snap[t])'
    BY <1>7, <1>a, <2>1 DEF ProviderCalls, Execution
  <2>5. Truthful(exec)' /\ \A e \in artifacts : calls'[e] = 1
    BY <1>7, <1>a, <2>1 DEF ProviderCalls
  <2> QED
    BY <1>7, <1>a, <2>3, <2>4, <2>5 DEF ProviderCalls
<1>8. ASSUME NEW s \in Sessions,
             PollAnswered(s) \/ PollGivesUp(s) \/ PollFailed(s)
      PROVE  Reports'
  BY <1>8, <1>a, SnapshotKnown
     DEF PollAnswered, Polling, NextPoll, PollGivesUp, PollFailed, RollBack
<1>9. ASSUME NEW s \in Sessions,
             SettleQueued(s) \/ SettleRunning(s)
      PROVE  Reports'
  BY <1>9, <1>a, SnapshotKnown
     DEF SettleQueued, Settling, RuntimeTerminal, SettleRunning
<1>10. ASSUME NEW s \in Sessions,
             SettleCancelled(s) \/ SettleSucceeded(s) \/ SettlePartial(s) \/ SettleFailed(s)
      PROVE  Reports'
  BY <1>10, <1>a, SnapshotKnown
     DEF SettleCancelled, Settling, Settle, RuntimeTerminal, SettleSucceeded,
         SettlePartial, Recorded, SettleFailed
<1>11. ASSUME NEW s \in Sessions,
             CancelAnswered(s) \/ CancelFailed(s)
      PROVE  Reports'
  BY <1>11, <1>a, ExecutionKnown, CancelledExecution, ExecutionExists
     DEF CancelAnswered, RuntimeTerminal, CancelFailed, RollBack
<1>12. ASSUME NEW s \in Sessions, Crash(s)
      PROVE  Reports'
  BY <1>12, <1>a
     DEF Crash, RollBack
<1>13. ASSUME NEW d \in Destinations \cup {NoDest}, UpdateDestination(d)
      PROVE  Reports'
  BY <1>13, <1>a
     DEF UpdateDestination, Retargetable
<1>14. ASSUME RuntimeStarts
      PROVE  Reports'
  BY <1>14, <1>a, StartedReport, ExecutionExists
     DEF RuntimeStarts, RuntimeTerminal
<1>15. ASSUME NEW written \in SUBSET Events, NEW created \in SUBSET Events,
             RuntimeFinishes(written, created)
      PROVE  Reports'
  <2>1. exec \in Execution /\ exec.status = "running" /\ NothingWritten
    BY <1>15, <1>a DEF RuntimeFinishes
  <2>2. PICK status \in FinalStatuses(created) : exec' = [status |-> status, created |-> created]
    BY <1>15 DEF RuntimeFinishes
  <2>3. created \subseteq written /\ \A e \in written : calls'[e] = 1
    BY <1>15, <1>a, <2>1 DEF RuntimeFinishes, Write
  <2>4. Truthful(exec)'
    BY <1>15, <2>2, <2>3, FinishedReport DEF RuntimeFinishes
  <2>5. \A t \in Sessions : Truthful(snap[t])'
    <3>1. snap' = snap /\ items' = items
      BY <1>15 DEF RuntimeFinishes
    <3>2. \A t \in Sessions : snap[t] # NoExecution => snap[t].created = {}
      BY <1>a, <2>1 DEF Execution
    <3> QED
      BY <1>a, <3>1, <3>2
  <2>6. \A e \in artifacts : calls'[e] = 1
    BY <1>15, <1>a, <2>1 DEF RuntimeFinishes
  <2> QED
    BY <1>15, <1>a, <2>1, <2>4, <2>5, <2>6 DEF RuntimeFinishes
<1> QED
  BY <1>1, <1>2, <1>3, <1>4, <1>5, <1>6, <1>7, <1>8, <1>9, <1>10, <1>11,
     <1>12, <1>13, <1>14, <1>15
     DEF Next, Arrival, Progress, Failure

(* The destination is fixed before anything is sent.                       *)
LEMMA DestinationStep ==
  ASSUME IInv, Next
  PROVE  OneDestination'
<1> USE DEF TypeOK, Phases, OneDestination, SubmittedDest, approval, row,
            runtime, request
<1>a. TypeOK /\ Phases /\ OneDestination
  BY DEF IInv
<1>1. ASSUME NEW s \in Sessions,
             Enqueue(s) \/ Retry(s) \/ CancelBefore(s) \/ CancelBegin(s)
      PROVE  OneDestination'
  BY <1>1, <1>a
     DEF Enqueue, Retry, RetryAllowed, RecoverableRun, CancelBefore, CancelBegin
<1>2. ASSUME NEW s \in Sessions,
             Relock(s) \/ RelockRefused(s)
      PROVE  OneDestination'
  BY <1>2, <1>a
     DEF Relock, MayProceed, CanTransition, Transitions, RelockRefused, RollBack
<1>3. ASSUME NEW s \in Sessions,
             SubmitAnswered(s) \/ SubmitUncertain(s) \/ SubmitFailed(s)
      PROVE  OneDestination'
  BY <1>3, <1>a
     DEF SubmitAnswered, Submitting, Accepted, SubmitUncertain, MarkedStatus,
         SubmitFailed, RollBack
<1>4. ASSUME NEW s \in Sessions, SubmitLocal(s)
      PROVE  OneDestination'
  BY <1>4, <1>a
     DEF SubmitLocal
<1>5. ASSUME NEW s \in Sessions, NEW written \in SUBSET Events,
             NEW created \in SUBSET Events, ProviderCalls(s, written, created)
      PROVE  OneDestination'
  BY <1>5, <1>a
     DEF ProviderCalls, Write
<1>6. ASSUME NEW s \in Sessions,
             PollAnswered(s) \/ PollGivesUp(s) \/ PollFailed(s)
      PROVE  OneDestination'
  BY <1>6, <1>a
     DEF PollAnswered, Polling, NextPoll, PollGivesUp, PollFailed, RollBack
<1>7. ASSUME NEW s \in Sessions,
             SettleQueued(s) \/ SettleRunning(s)
      PROVE  OneDestination'
  BY <1>7, <1>a
     DEF SettleQueued, Settling, SettleRunning
<1>8. ASSUME NEW s \in Sessions,
             SettleCancelled(s) \/ SettleSucceeded(s) \/ SettlePartial(s) \/ SettleFailed(s)
      PROVE  OneDestination'
  BY <1>8, <1>a
     DEF SettleCancelled, Settling, Settle, SettleSucceeded, SettlePartial,
         Recorded, SettleFailed
<1>9. ASSUME NEW s \in Sessions,
             CancelAnswered(s) \/ CancelFailed(s)
      PROVE  OneDestination'
  BY <1>9, <1>a
     DEF CancelAnswered, RuntimeCancels, CancelFailed, RollBack
<1>10. ASSUME NEW s \in Sessions, Crash(s)
      PROVE  OneDestination'
  BY <1>10, <1>a
     DEF Crash, RollBack
<1>11. ASSUME NEW d \in Destinations \cup {NoDest}, UpdateDestination(d)
      PROVE  OneDestination'
  BY <1>11, <1>a
     DEF UpdateDestination, Retargetable
<1>12. ASSUME RuntimeStarts
      PROVE  OneDestination'
  BY <1>12, <1>a
     DEF RuntimeStarts
<1>13. ASSUME NEW written \in SUBSET Events, NEW created \in SUBSET Events,
             RuntimeFinishes(written, created)
      PROVE  OneDestination'
  BY <1>13, <1>a
     DEF RuntimeFinishes, Write
<1> QED
  BY <1>1, <1>2, <1>3, <1>4, <1>5, <1>6, <1>7, <1>8, <1>9, <1>10, <1>11,
     <1>12, <1>13
     DEF Next, Arrival, Progress, Failure

(* A write finds nothing written before it.                                *)
LEMMA WrittenStep ==
  ASSUME IInv, Next
  PROVE  WrittenAtMostOnce'
<1> USE DEF TypeOK, LocalRuntime, AgentRuntime, WrittenAtMostOnce,
            NothingWritten, approval, row, runtime, request
<1>a. TypeOK /\ LocalRuntime /\ AgentRuntime /\ WrittenAtMostOnce
  BY DEF IInv
<1>1. ASSUME NEW s \in Sessions,
             Enqueue(s) \/ Retry(s) \/ CancelBefore(s) \/ CancelBegin(s)
      PROVE  WrittenAtMostOnce'
  BY <1>1, <1>a
     DEF Enqueue, Retry, RetryAllowed, RecoverableRun, CancelBefore, CancelBegin
<1>2. ASSUME NEW s \in Sessions,
             Relock(s) \/ RelockRefused(s)
      PROVE  WrittenAtMostOnce'
  BY <1>2, <1>a
     DEF Relock, MayProceed, CanTransition, Transitions, RelockRefused, RollBack
<1>3. ASSUME NEW s \in Sessions,
             SubmitAnswered(s) \/ SubmitUncertain(s) \/ SubmitFailed(s)
      PROVE  WrittenAtMostOnce'
  BY <1>3, <1>a, SubmissionType, ExecutionExists
     DEF SubmitAnswered, Submitting, Accepted, SubmitUncertain, MarkedStatus,
         SubmitFailed, RollBack
<1>4. ASSUME NEW s \in Sessions, SubmitLocal(s)
      PROVE  WrittenAtMostOnce'
  BY <1>4, <1>a
     DEF SubmitLocal
<1>5. ASSUME NEW s \in Sessions, NEW written \in SUBSET Events,
             NEW created \in SUBSET Events, ProviderCalls(s, written, created)
      PROVE  WrittenAtMostOnce'
  BY <1>5, <1>a, LocalReport, ExecutionExists
     DEF ProviderCalls, Write
<1>6. ASSUME NEW s \in Sessions,
             PollAnswered(s) \/ PollGivesUp(s) \/ PollFailed(s)
      PROVE  WrittenAtMostOnce'
  BY <1>6, <1>a, SnapshotKnown
     DEF PollAnswered, Polling, NextPoll, PollGivesUp, PollFailed, RollBack
<1>7. ASSUME NEW s \in Sessions,
             SettleQueued(s) \/ SettleRunning(s)
      PROVE  WrittenAtMostOnce'
  BY <1>7, <1>a, SnapshotKnown
     DEF SettleQueued, Settling, RuntimeTerminal, SettleRunning
<1>8. ASSUME NEW s \in Sessions,
             SettleCancelled(s) \/ SettleSucceeded(s) \/ SettlePartial(s) \/ SettleFailed(s)
      PROVE  WrittenAtMostOnce'
  BY <1>8, <1>a, SnapshotKnown
     DEF SettleCancelled, Settling, Settle, RuntimeTerminal, SettleSucceeded,
         SettlePartial, Recorded, SettleFailed
<1>9. ASSUME NEW s \in Sessions,
             CancelAnswered(s) \/ CancelFailed(s)
      PROVE  WrittenAtMostOnce'
  BY <1>9, <1>a, ExecutionKnown, CancelledExecution, ExecutionExists
     DEF CancelAnswered, RuntimeTerminal, CancelFailed, RollBack
<1>10. ASSUME NEW s \in Sessions, Crash(s)
      PROVE  WrittenAtMostOnce'
  BY <1>10, <1>a
     DEF Crash, RollBack
<1>11. ASSUME NEW d \in Destinations \cup {NoDest}, UpdateDestination(d)
      PROVE  WrittenAtMostOnce'
  BY <1>11, <1>a
     DEF UpdateDestination, Retargetable
<1>12. ASSUME RuntimeStarts
      PROVE  WrittenAtMostOnce'
  BY <1>12, <1>a, StartedReport, ExecutionExists
     DEF RuntimeStarts, RuntimeTerminal
<1>13. ASSUME NEW written \in SUBSET Events, NEW created \in SUBSET Events,
             RuntimeFinishes(written, created)
      PROVE  WrittenAtMostOnce'
  BY <1>13, <1>a, FinishedReport, ExecutionExists
     DEF RuntimeFinishes, Write, RuntimeTerminal
<1> QED
  BY <1>1, <1>2, <1>3, <1>4, <1>5, <1>6, <1>7, <1>8, <1>9, <1>10, <1>11,
     <1>12, <1>13
     DEF Next, Arrival, Progress, Failure

(* A run ends the way the last report says.                                *)
LEMMA OutcomeStep ==
  ASSUME IInv, Next
  PROVE  OutcomeMatchesRuntime'
<1> USE DEF TypeOK, Phases, OutcomeMatchesRuntime, Reports, Truthful,
            approval, row, runtime, request, Executing, Finished,
            TerminalStates
<1>a. TypeOK /\ Phases /\ LocalRuntime /\ AgentRuntime /\ Reports /\ OutcomeMatchesRuntime
  BY DEF IInv
<1>1. ASSUME NEW s \in Sessions,
             Enqueue(s) \/ Retry(s) \/ CancelBefore(s) \/ CancelBegin(s)
      PROVE  OutcomeMatchesRuntime'
  BY <1>1, <1>a
     DEF Enqueue, Retry, RetryAllowed, RecoverableRun, CancelBefore, CancelBegin
<1>2. ASSUME NEW s \in Sessions,
             Relock(s) \/ RelockRefused(s)
      PROVE  OutcomeMatchesRuntime'
  BY <1>2, <1>a
     DEF Relock, MayProceed, CanTransition, Transitions, RelockRefused, RollBack
<1>3. ASSUME NEW s \in Sessions,
             SubmitAnswered(s) \/ SubmitUncertain(s) \/ SubmitFailed(s)
      PROVE  OutcomeMatchesRuntime'
  BY <1>3, <1>a, SubmissionType, ExecutionExists
     DEF SubmitAnswered, Submitting, Accepted, SubmitUncertain, MarkedStatus,
         SubmitFailed, RollBack
<1>4. ASSUME NEW s \in Sessions, SubmitLocal(s)
      PROVE  OutcomeMatchesRuntime'
  BY <1>4, <1>a
     DEF SubmitLocal
<1>5. ASSUME NEW s \in Sessions, NEW written \in SUBSET Events,
             NEW created \in SUBSET Events, ProviderCalls(s, written, created)
      PROVE  OutcomeMatchesRuntime'
  BY <1>5, <1>a, LocalReport, ExecutionExists
     DEF ProviderCalls, Write
<1>6. ASSUME NEW s \in Sessions,
             PollAnswered(s) \/ PollGivesUp(s) \/ PollFailed(s)
      PROVE  OutcomeMatchesRuntime'
  BY <1>6, <1>a, SnapshotKnown
     DEF PollAnswered, Polling, NextPoll, PollGivesUp, PollFailed, RollBack
<1>7. ASSUME NEW s \in Sessions,
             SettleQueued(s) \/ SettleRunning(s)
      PROVE  OutcomeMatchesRuntime'
  BY <1>7, <1>a, SnapshotKnown
     DEF SettleQueued, Settling, RuntimeTerminal, SettleRunning
<1>8. ASSUME NEW s \in Sessions,
             SettleCancelled(s) \/ SettleSucceeded(s) \/ SettlePartial(s) \/ SettleFailed(s)
      PROVE  OutcomeMatchesRuntime'
  BY <1>8, <1>a, SettledExecution, ExecutionExists
     DEF SettleCancelled, Settling, Settle, RuntimeTerminal, SettleSucceeded,
         SettlePartial, Recorded, SettleFailed
<1>9. ASSUME NEW s \in Sessions,
             CancelAnswered(s) \/ CancelFailed(s)
      PROVE  OutcomeMatchesRuntime'
  BY <1>9, <1>a, ExecutionKnown, CancelledExecution, ExecutionExists
     DEF CancelAnswered, RuntimeTerminal, CancelFailed, RollBack
<1>10. ASSUME NEW s \in Sessions, Crash(s)
      PROVE  OutcomeMatchesRuntime'
  BY <1>10, <1>a
     DEF Crash, RollBack
<1>11. ASSUME NEW d \in Destinations \cup {NoDest}, UpdateDestination(d)
      PROVE  OutcomeMatchesRuntime'
  BY <1>11, <1>a
     DEF UpdateDestination, Retargetable
<1>12. ASSUME RuntimeStarts
      PROVE  OutcomeMatchesRuntime'
  BY <1>12, <1>a, StartedReport, ExecutionExists
     DEF RuntimeStarts, RuntimeTerminal
<1>13. ASSUME NEW written \in SUBSET Events, NEW created \in SUBSET Events,
             RuntimeFinishes(written, created)
      PROVE  OutcomeMatchesRuntime'
  BY <1>13, <1>a, FinishedReport, ExecutionExists
     DEF RuntimeFinishes, Write, RuntimeTerminal
<1> QED
  BY <1>1, <1>2, <1>3, <1>4, <1>5, <1>6, <1>7, <1>8, <1>9, <1>10, <1>11,
     <1>12, <1>13
     DEF Next, Arrival, Progress, Failure

(* A known execution is cancelled by the runtime first.                    *)
LEMMA CancelStep ==
  ASSUME IInv, Next
  PROVE  CancelIsConfirmed'
<1> USE DEF TypeOK, Phases, CancelIsConfirmed, approval, row, runtime,
            request, Executing, Finished, TerminalStates
<1>a. TypeOK /\ Phases /\ LocalRuntime /\ CancelIsConfirmed
  BY DEF IInv
<1>1. ASSUME NEW s \in Sessions,
             Enqueue(s) \/ Retry(s) \/ CancelBefore(s) \/ CancelBegin(s)
      PROVE  CancelIsConfirmed'
  BY <1>1, <1>a
     DEF Enqueue, Retry, RetryAllowed, RecoverableRun, CancelBefore, CancelBegin
<1>2. ASSUME NEW s \in Sessions,
             Relock(s) \/ RelockRefused(s)
      PROVE  CancelIsConfirmed'
  BY <1>2, <1>a
     DEF Relock, MayProceed, CanTransition, Transitions, RelockRefused, RollBack
<1>3. ASSUME NEW s \in Sessions,
             SubmitAnswered(s) \/ SubmitUncertain(s) \/ SubmitFailed(s)
      PROVE  CancelIsConfirmed'
  BY <1>3, <1>a, SubmissionType, ExecutionExists
     DEF SubmitAnswered, Submitting, Accepted, SubmitUncertain, MarkedStatus,
         SubmitFailed, RollBack
<1>4. ASSUME NEW s \in Sessions, SubmitLocal(s)
      PROVE  CancelIsConfirmed'
  BY <1>4, <1>a
     DEF SubmitLocal
<1>5. ASSUME NEW s \in Sessions, NEW written \in SUBSET Events,
             NEW created \in SUBSET Events, ProviderCalls(s, written, created)
      PROVE  CancelIsConfirmed'
  BY <1>5, <1>a, LocalReport, ExecutionExists
     DEF ProviderCalls, Write
<1>6. ASSUME NEW s \in Sessions,
             PollAnswered(s) \/ PollGivesUp(s) \/ PollFailed(s)
      PROVE  CancelIsConfirmed'
  BY <1>6, <1>a, SnapshotKnown
     DEF PollAnswered, Polling, NextPoll, PollGivesUp, PollFailed, RollBack
<1>7. ASSUME NEW s \in Sessions,
             SettleQueued(s) \/ SettleRunning(s)
      PROVE  CancelIsConfirmed'
  BY <1>7, <1>a, SnapshotKnown
     DEF SettleQueued, Settling, RuntimeTerminal, SettleRunning
<1>8. ASSUME NEW s \in Sessions,
             SettleCancelled(s) \/ SettleSucceeded(s) \/ SettlePartial(s) \/ SettleFailed(s)
      PROVE  CancelIsConfirmed'
  BY <1>8, <1>a, SettledExecution, ExecutionExists
     DEF SettleCancelled, Settling, Settle, RuntimeTerminal, SettleSucceeded,
         SettlePartial, Recorded, SettleFailed
<1>9. ASSUME NEW s \in Sessions,
             CancelAnswered(s) \/ CancelFailed(s)
      PROVE  CancelIsConfirmed'
  BY <1>9, <1>a, ExecutionKnown, CancelledExecution, ExecutionExists,
     OnlyCancelledConfirms
     DEF CancelAnswered, RuntimeTerminal, CancelFailed, RollBack
<1>10. ASSUME NEW s \in Sessions, Crash(s)
      PROVE  CancelIsConfirmed'
  BY <1>10, <1>a
     DEF Crash, RollBack
<1>11. ASSUME NEW d \in Destinations \cup {NoDest}, UpdateDestination(d)
      PROVE  CancelIsConfirmed'
  BY <1>11, <1>a
     DEF UpdateDestination, Retargetable
<1>12. ASSUME RuntimeStarts
      PROVE  CancelIsConfirmed'
  BY <1>12, <1>a, StartedReport, ExecutionExists
     DEF RuntimeStarts, RuntimeTerminal
<1>13. ASSUME NEW written \in SUBSET Events, NEW created \in SUBSET Events,
             RuntimeFinishes(written, created)
      PROVE  CancelIsConfirmed'
  BY <1>13, <1>a, FinishedReport, ExecutionExists
     DEF RuntimeFinishes, Write, RuntimeTerminal
<1> QED
  BY <1>1, <1>2, <1>3, <1>4, <1>5, <1>6, <1>7, <1>8, <1>9, <1>10, <1>11,
     <1>12, <1>13
     DEF Next, Arrival, Progress, Failure

--------------------------------------------------------------------------------
(* The invariant holds of every behaviour.                                 *)

LEMMA IInvInit == Init => IInv
<1> SUFFICES ASSUME Init PROVE IInv
  OBVIOUS
<1> USE DEF Init
<1>1. TypeOK
  <2>1. snap \in [Sessions -> Execution \cup {NoExecution}] /\ exec \in {NoExecution}
    OBVIOUS
  <2>2. calls \in [Events -> Nat] /\ pc \in [Sessions -> Labels] /\ polls \in [Sessions -> 0..MaxPolls]
    BY ExecutionAssumption DEF Labels
  <2>3. /\ run \in WorkflowStatus /\ errorCode \in ErrorCode /\ runtimeId \in BOOLEAN
        /\ actionStatus \in ActionStatus /\ artifacts \in SUBSET Events
        /\ items \in SUBSET Events /\ lock \in Sessions \cup {NoSession}
    BY DEF WorkflowStatus, ErrorCode, ActionStatus
  <2>4. sent \in SUBSET (Destinations \cup {NoDest})
    OBVIOUS
  <2> QED
    BY <2>1, <2>2, <2>3, <2>4 DEF TypeOK
<1>2. LockIsHeld
  BY ExecutionAssumption DEF LockIsHeld, Holding, Executing
<1>3. Phases /\ OneDestination
  BY DEF Phases, OneDestination, Executing, Finished, TerminalStates
<1>4. LocalRuntime /\ AgentRuntime /\ Reports
  BY DEF LocalRuntime, AgentRuntime, Reports, Truthful, NothingWritten
<1>5. WrittenAtMostOnce /\ OutcomeMatchesRuntime /\ CancelIsConfirmed
  BY DEF WrittenAtMostOnce, OutcomeMatchesRuntime, CancelIsConfirmed
<1> QED
  BY <1>1, <1>2, <1>3, <1>4, <1>5 DEF IInv

LEMMA IInvStep == IInv /\ [Next]_vars => IInv'
<1> SUFFICES ASSUME IInv, [Next]_vars PROVE IInv'
  OBVIOUS
<1>1. CASE Next
  <2>1. TypeOK' /\ LockIsHeld'
    BY <1>1, TypeStep, LockStep DEF IInv
  <2>2. Phases' /\ LocalRuntime' /\ AgentRuntime' /\ Reports' /\ OneDestination'
    BY <1>1, PhaseStep, LocalStep, AgentStep, ReportStep, DestinationStep
  <2>3. WrittenAtMostOnce' /\ OutcomeMatchesRuntime' /\ CancelIsConfirmed'
    BY <1>1, WrittenStep, OutcomeStep, CancelStep
  <2> QED
    BY <2>1, <2>2, <2>3 DEF IInv
<1>2. CASE UNCHANGED vars
  <2> USE <1>2 DEF vars, approval, row, runtime, request
  <2>1. TypeOK' /\ LockIsHeld'
    BY DEF IInv, TypeOK, LockIsHeld
  <2>2. Phases' /\ OneDestination'
    BY DEF IInv, Phases, OneDestination, SubmittedDest, Finished
  <2>3. LocalRuntime' /\ AgentRuntime' /\ Reports'
    BY DEF IInv, LocalRuntime, AgentRuntime, Reports, Truthful, NothingWritten, Finished
  <2>4. WrittenAtMostOnce' /\ OutcomeMatchesRuntime' /\ CancelIsConfirmed'
    BY DEF IInv, WrittenAtMostOnce, OutcomeMatchesRuntime, CancelIsConfirmed
  <2> QED
    BY <2>1, <2>2, <2>3, <2>4 DEF IInv
<1> QED
  BY <1>1, <1>2

LEMMA Invariance == Spec => []IInv
  BY IInvInit, IInvStep, PTL DEF Spec

--------------------------------------------------------------------------------
(* The theorems.                                                           *)

(* The variables keep their types in every behaviour.                      *)
THEOREM TypeCorrect == Spec => []TypeOK
<1>1. IInv => TypeOK
  BY DEF IInv
<1> QED
  BY <1>1, Invariance, PTL

(* Every submission under the idempotency key carries the same payload.    *)
THEOREM SamePayloadPerKey == Spec => []OneRequestPerKey
<1>1. IInv => OneRequestPerKey
  BY DEF IInv, OneDestination, OneRequestPerKey
<1> QED
  BY <1>1, Invariance, PTL

(* No retry, cancel, lost answer or crash writes an approved item twice.   *)
THEOREM NothingWrittenTwice == Spec => []WrittenAtMostOnce
<1>1. IInv => WrittenAtMostOnce
  BY DEF IInv
<1> QED
  BY <1>1, Invariance, PTL

(* The final status of a run and its records are those of the runtime.     *)
THEOREM OutcomeIsTrue == Spec => []OutcomeMatchesRuntime
<1>1. IInv => OutcomeMatchesRuntime
  BY DEF IInv
<1> QED
  BY <1>1, Invariance, PTL

(* A run that knows its execution is cancelled by the runtime first.       *)
THEOREM CancelWaitsForRuntime == Spec => []CancelIsConfirmed
<1>1. IInv => CancelIsConfirmed
  BY DEF IInv
<1> QED
  BY <1>1, Invariance, PTL

(* A run that execute() takes up again can end in every way.               *)
THEOREM RetriesCanFinish == Spec => []RetryCanFinish
<1>1. IInv => RetryCanFinish
  <2> SUFFICES ASSUME IInv, RecoverableRun(run, errorCode)
               PROVE  run = "EXECUTING" /\ artifacts = {}
    BY DEF RetryCanFinish, CanTransition, Transitions
  <2> QED
    BY DEF IInv, Phases, OutcomeMatchesRuntime, RecoverableRun
<1> QED
  BY <1>1, Invariance, PTL

(* Once a run has ended nothing more is sent, recorded or changed in it.   *)
THEOREM EndedStaysQuiet == Spec => EndedIsQuiet
<1>1. IInv /\ [Next]_vars => [Finished => UNCHANGED <<row, sent>>]_vars
  <2> SUFFICES ASSUME IInv, Finished, Next PROVE UNCHANGED <<row, sent>>
    OBVIOUS
  <2>1. /\ run \notin {"APPROVED", "QUEUED", "EXECUTING"}
        /\ \A s \in Sessions : pc[s] \notin Executing \cup {"cancel"}
    BY DEF IInv, Phases, Finished, TerminalStates
  <2>2. ASSUME NEW s \in Sessions, Arrival(s)
        PROVE  UNCHANGED <<row, sent>>
    BY <2>1, <2>2 DEF Arrival, Enqueue, Retry, CancelBefore, CancelBegin, Finished
  <2>3. ASSUME NEW s \in Sessions, Progress(s)
        PROVE  UNCHANGED <<row, sent>>
    <3>1. Relock(s) \/ RelockRefused(s)
      BY <2>1, <2>3 DEF Progress, Executing, SubmitAnswered, Submitting, SubmitLocal,
         ProviderCalls, PollAnswered, Polling, SettleQueued, SettleRunning,
         SettleCancelled, SettleSucceeded, SettlePartial, SettleFailed, Settling,
         CancelAnswered
    <3> QED
      BY <3>1 DEF Relock, RelockRefused, RollBack
  <2>4. ASSUME NEW s \in Sessions, Failure(s)
        PROVE  UNCHANGED <<row, sent>>
    <3>1. Crash(s)
      BY <2>1, <2>4 DEF Failure, Executing, SubmitUncertain, SubmitFailed, Submitting,
         PollGivesUp, PollFailed, Polling, CancelFailed
    <3> QED
      BY <3>1 DEF Crash, RollBack
  <2>5. ASSUME NEW d \in Destinations \cup {NoDest}, UpdateDestination(d)
        PROVE  UNCHANGED <<row, sent>>
    BY <2>5 DEF UpdateDestination
  <2>6. CASE RuntimeStarts
    BY <2>6 DEF RuntimeStarts
  <2>7. ASSUME NEW written \in SUBSET Events, NEW created \in SUBSET Events,
               RuntimeFinishes(written, created)
        PROVE  UNCHANGED <<row, sent>>
    BY <2>7 DEF RuntimeFinishes
  <2> QED
    BY <2>2, <2>3, <2>4, <2>5, <2>6, <2>7 DEF Next
<1> QED
  BY <1>1, Invariance, PTL DEF Spec, EndedIsQuiet

--------------------------------------------------------------------------------
(* SingleExecution implements ApprovedEffect.                              *)

(* Items written in a step in which nothing had been written before.       *)
LEMMA FirstWrite ==
  ASSUME TypeOK, NothingWritten, sent # {}, NEW written \in SUBSET Events,
         Write(written), UNCHANGED <<row, sent>>
  PROVE  Effect!Write(written)
<1>1. written \cap {e \in Events : calls[e] > 0} = {}
  BY DEF NothingWritten
<1>2. calls' = [e \in Events |-> IF e \in written THEN 1 ELSE calls[e]]
  BY DEF NothingWritten, Write
<1> QED
  BY <1>1, <1>2 DEF Effect!Write, Effect!Written, Finished, row

(* The end of a run records only what was written.                         *)
LEMMA EndRecords ==
  ASSUME TypeOK, ~Finished, Finished', UNCHANGED <<calls, sent>>,
         NEW created \in SUBSET {e \in Events : calls[e] = 1},
         artifacts' = artifacts \cup created
  PROVE  Effect!Record(created)
<1>1. created \subseteq {e \in Events : calls[e] > 0}
  OBVIOUS
<1> QED
  BY <1>1 DEF Effect!Record, Effect!Written

(* Each step writes each item for the first time, records what was         *)
(* written, lets the run through, or is not seen.                          *)
LEMMA EffectStep ==
  ASSUME IInv, Next
  PROVE  [Effect!Next]_(Effect!vars)
<1> USE DEF Effect!vars, Finished, row
<1>a. TypeOK
  BY DEF IInv
<1>1. ASSUME NEW s \in Sessions,
             Enqueue(s) \/ Retry(s) \/ CancelBegin(s) \/ Relock(s) \/ RelockRefused(s)
      PROVE  UNCHANGED Effect!vars
  BY <1>1 DEF Enqueue, Retry, CancelBegin, Relock, RelockRefused, RollBack, runtime,
     TerminalStates
<1>2. ASSUME NEW s \in Sessions, CancelBefore(s)
      PROVE  Effect!Next
  <2>1. Effect!Record({})
    BY <1>2, <1>a, EndRecords DEF CancelBefore, runtime, TerminalStates
  <2> QED
    BY <2>1 DEF Effect!Next
<1>3. ASSUME NEW s \in Sessions,
             SubmitAnswered(s) \/ SubmitUncertain(s) \/ SubmitFailed(s) \/ SubmitLocal(s)
      PROVE  [Effect!Next]_(Effect!vars)
  <2>1. ~Finished /\ ~Finished' /\ sent' # {} /\ UNCHANGED <<calls, artifacts>>
    BY <1>3 DEF IInv, Phases, Executing, TerminalStates, SubmitAnswered, SubmitUncertain,
       SubmitFailed, SubmitLocal, Submitting, RollBack, MarkedStatus, runtime
  <2> QED
    BY <2>1 DEF Effect!Next, Effect!LetThrough
<1>4. ASSUME NEW s \in Sessions, NEW written \in SUBSET Events,
             NEW created \in SUBSET Events, ProviderCalls(s, written, created)
      PROVE  Effect!Next
  <2>1. NothingWritten /\ sent # {}
    BY <1>4, <1>a DEF IInv, Phases, LocalRuntime, AgentRuntime, TypeOK, ProviderCalls
  <2>2. Effect!Write(written)
    BY <1>4, <1>a, <2>1, FirstWrite DEF ProviderCalls
  <2> QED
    BY <2>2 DEF Effect!Next
<1>5. ASSUME NEW s \in Sessions,
             PollAnswered(s) \/ PollGivesUp(s) \/ PollFailed(s)
      PROVE  UNCHANGED Effect!vars
  BY <1>5 DEF PollAnswered, PollGivesUp, PollFailed, RollBack, runtime
<1>6. ASSUME NEW s \in Sessions, SettleQueued(s) \/ SettleRunning(s)
      PROVE  UNCHANGED Effect!vars
  <2>1. ~Finished
    BY <1>6 DEF IInv, Phases, Executing, TerminalStates, SettleQueued, SettleRunning, Settling
  <2> QED
    BY <1>6, <2>1 DEF SettleQueued, SettleRunning, Settling, TerminalStates
<1>7. ASSUME NEW s \in Sessions, NEW created \in SUBSET snap[s].created, Settling(s),
             snap[s].status \in RuntimeTerminal, Finished', artifacts' = artifacts \cup created
      PROVE  Effect!Next
  <2>1. ~Finished /\ UNCHANGED <<calls, sent>>
    BY <1>7 DEF IInv, Phases, Executing, TerminalStates, Settling
  <2>2. created \in SUBSET {e \in Events : calls[e] = 1}
    BY <1>7, SettledExecution, ExecutionExists DEF IInv, Reports, Truthful, Execution
  <2>3. Effect!Record(created)
    BY <1>7, <1>a, <2>1, <2>2, EndRecords
  <2> QED
    BY <2>2, <2>3 DEF Effect!Next
<1>8. ASSUME NEW s \in Sessions,
             SettleCancelled(s) \/ SettleSucceeded(s) \/ SettlePartial(s) \/ SettleFailed(s)
      PROVE  Effect!Next
  <2>1. Settling(s) /\ snap[s].status \in RuntimeTerminal /\ Finished'
    BY <1>8 DEF SettleCancelled, SettleSucceeded, SettlePartial, SettleFailed, Settle,
       RuntimeTerminal, TerminalStates
  <2>2. PICK created \in SUBSET snap[s].created : artifacts' = artifacts \cup created
    BY <1>8 DEF SettleCancelled, SettleSucceeded, SettlePartial, SettleFailed, Settle, Recorded
  <2> QED
    BY <1>7, <2>1, <2>2
<1>9. ASSUME NEW s \in Sessions, CancelAnswered(s)
      PROVE  [Effect!Next]_(Effect!vars)
  <2>1. ~Finished /\ UNCHANGED <<calls, sent, artifacts>>
    BY <1>9 DEF IInv, Phases, CancelAnswered
  <2>2. CASE run' = "CANCELLED"
    <3>1. Effect!Record({})
      BY <1>a, <2>1, <2>2, EndRecords DEF TerminalStates
    <3> QED
      BY <3>1 DEF Effect!Next
  <2>3. CASE UNCHANGED row
    BY <2>1, <2>3
  <2> QED
    BY <1>9, <2>2, <2>3 DEF CancelAnswered
<1>10. ASSUME NEW s \in Sessions, CancelFailed(s) \/ Crash(s)
       PROVE  UNCHANGED Effect!vars
  BY <1>10 DEF CancelFailed, Crash, RollBack, runtime
<1>11. ASSUME NEW d \in Destinations \cup {NoDest}, UpdateDestination(d)
       PROVE  UNCHANGED Effect!vars
  BY <1>11 DEF UpdateDestination, runtime
<1>12. ASSUME RuntimeStarts
       PROVE  UNCHANGED Effect!vars
  BY <1>12 DEF RuntimeStarts
<1>13. ASSUME NEW written \in SUBSET Events, NEW created \in SUBSET Events,
              RuntimeFinishes(written, created)
       PROVE  Effect!Next
  <2>1. NothingWritten /\ sent # {}
    BY <1>13, <1>a DEF IInv, AgentRuntime, Reports, RuntimeFinishes
  <2>2. Effect!Write(written)
    BY <1>13, <1>a, <2>1, FirstWrite DEF RuntimeFinishes
  <2> QED
    BY <2>2 DEF Effect!Next
<1> QED
  BY <1>1, <1>2, <1>3, <1>4, <1>5, <1>6, <1>8, <1>9, <1>10, <1>11, <1>12, <1>13
     DEF Next, Arrival, Progress, Failure

(* Execution with retries, crashes and an unreliable runtime keeps the     *)
(* promise of ApprovedEffect.                                              *)
THEOREM KeepsThePromise == Spec => ImplementsEffect
<1>1. Init => Effect!Init
  BY DEF Init, Effect!Init, Finished, TerminalStates
<1>2. IInv /\ [Next]_vars => [Effect!Next]_(Effect!vars)
  <2>1. CASE Next
    BY <2>1, EffectStep
  <2>2. CASE UNCHANGED vars
    BY <2>2 DEF vars, row, runtime, Finished, Effect!vars
  <2> QED
    BY <2>1, <2>2
<1> QED
  BY <1>1, <1>2, Invariance, PTL DEF Spec, ImplementsEffect, Effect!Spec
=================================================================================
