---------------------- MODULE CollaborateExecution_proofs ----------------------
(***************************************************************************)
(* Proofs about CollaborateExecution for any finite set of actions, any    *)
(* of them shared, and any set of concurrent requests, with either         *)
(* runtime.                                                                *)
(***************************************************************************)
EXTENDS CollaborateExecution, TLAPS

(* Until the one request that queued the approved run has passed the check *)
(* of its status again, nothing at all has happened to the run's actions.  *)
BeforeTheLoop ==
  /\ run = "APPROVED" => ~started /\ \A s \in Sessions : pc[s] = "idle"
  /\ ~started =>
       /\ run \in {"APPROVED", "QUEUED", "CANCELLED"}
       /\ errorCode = "none" /\ artifacts = {}
       /\ \A a \in Actions : calls[a] = 0 /\ exec[a] = "none"
       /\ \A s \in Sessions : pc[s] \in {"idle", "gap"}
  /\ \A s \in Sessions : pc[s] = "gap" => ~started
  /\ \A s, t \in Sessions : pc[s] = "gap" /\ pc[t] = "gap" => s = t

(* The local runtime gives no doubtful answer, so that a run is never      *)
(* retried: one request alone goes through the loop, once.                 *)
LocalLoopsOnce ==
  backend = "local" =>
    /\ errorCode # "recoverable"
    /\ \A s \in Sessions : pc[s] # "sent"
    /\ \A s \in Sessions, a \in Actions : results[s][a] \in {"none", "succeeded", "failed"}
    /\ \A s, t \in Sessions : pc[s] # "idle" /\ pc[t] # "idle" => s = t
    /\ \A s \in Sessions : pc[s] = "loop" =>
         \A a \in Actions : exec[a] = "none" /\ (results[s][a] = "none" => calls[a] = 0)

(* The Agent Runtime writes for an action exactly when its one execution   *)
(* succeeds.                                                               *)
RuntimeWritesOnce ==
  /\ \A a \in Actions : exec[a] # "partial" /\ (exec[a] = "succeeded" => calls[a] = 1)
  /\ backend = "agent_runtime" => \A a \in Actions : exec[a] # "succeeded" => calls[a] = 0

(* What a request holds in memory, by where it is.                         *)
MemoryFits ==
  \A s \in Sessions :
    /\ pc[s] \in {"idle", "gap"} => first[s] = NoAction /\ fresh[s] = {}
    /\ first[s] = NoAction => \A a \in Actions : results[s][a] = "none"
    /\ first[s] # NoAction => results[s][first[s]] # "none"
    /\ pc[s] = "sent" => current[s] \in Actions /\ results[s][current[s]] = "none"
    /\ pc[s] = "settle" => \A a \in Actions : results[s][a] # "none"
    /\ \A a \in fresh[s] : results[s][a] = "succeeded"

(* An outcome that is final is what the runtime's execution ended with; in *)
(* a local loop that has not committed it is what the provider was asked.  *)
ResultsAreTrue ==
  \A s \in Sessions, a \in Actions :
    results[s][a] \in {"succeeded", "failed", "cancelled"} =>
      \/ exec[a] = results[s][a]
      \/ /\ backend = "local" /\ pc[s] = "loop"
         /\ results[s][a] = "succeeded" => calls[a] = 1

Inductive ==
  /\ BeforeTheLoop
  /\ LocalLoopsOnce
  /\ RuntimeWritesOnce
  /\ MemoryFits
  /\ ResultsAreTrue
  /\ RecordsAreTrue

IInv == TypeOK /\ Inductive

(* Everything a step may change.  A request leaves without a commit in     *)
(* four ways that change the same.                                         *)
Leaves(s) == RollBack(s) /\ UNCHANGED <<backend, world>>

Step ==
  \/ \E s \in Sessions : Enqueue(s) \/ Relock(s) \/ Retry(s)
  \/ \E s \in Sessions, a \in Actions : Skip(s, a) \/ Submit(s, a)
  \/ \E s \in Sessions : Uncertain(s) \/ Answered(s)
  \/ \E s \in Sessions, a \in Actions, written \in BOOLEAN, outcome \in {"succeeded", "failed"} :
       LocalSubmit(s, a, written, outcome)
  \/ \E s \in Sessions : Commit(s)
  \/ \E s \in Sessions : SettleUnfinished(s) \/ SettleFinished(s)
  \/ \E s \in Sessions : Leaves(s)
  \/ Cancel
  \/ \E a \in Actions : RuntimeStarts(a)
  \/ \E a \in Actions, outcome \in {"succeeded", "failed", "cancelled"} :
       RuntimeFinishes(a, outcome)

LEMMA NextIsStep == Next => Step
<1>1. \A s \in Sessions :
        RelockRefused(s) \/ SettleRefused(s) \/ Abort(s) \/ DeadlockDetected(s) => Leaves(s)
  BY DEF RelockRefused, SettleRefused, Abort, DeadlockDetected, Leaves, Settling
<1>2. ASSUME NEW s \in Sessions, Progress(s)
      PROVE  Step
  BY <1>1, <1>2 DEF Progress, Step
<1> QED
  BY <1>1, <1>2 DEF Next, Step

--------------------------------------------------------------------------------
(* The table of transitions, where this component asks it.                 *)

LEMMA StartTransition == MayStart <=> run = "QUEUED"
  BY DEF MayStart, CanTransition, Transitions

LEMMA RunTransitions ==
  ASSUME NEW status, CanTransition(run, status)
  PROVE  /\ run \notin TerminalStates
         /\ status = "QUEUED" => run = "APPROVED"
         /\ status \in WorkflowStatus \ {"APPROVED"} \/ run = "AWAITING_APPROVAL"
  BY DEF CanTransition, Transitions, TerminalStates, WorkflowStatus

--------------------------------------------------------------------------------
(* Type correctness.                                                       *)

LEMMA InvariantInit == Init => IInv
<1> SUFFICES ASSUME Init PROVE IInv
  OBVIOUS
<1>1. TypeOK
  <2>1. started \in BOOLEAN
    BY DEF Init
  <2> QED
    BY <2>1 DEF Init, TypeOK, WorkflowStatus, ErrorCode, ActionStatus
<1>2. Inductive
  BY DEF Init, Inductive, BeforeTheLoop, LocalLoopsOnce, RuntimeWritesOnce, MemoryFits,
         ResultsAreTrue, RecordsAreTrue, WrittenAtMostOnce, RowsAreTrue, StatusIsTrue
<1> QED
  BY <1>1, <1>2 DEF IInv

--------------------------------------------------------------------------------
(* Each action keeps the inductive invariant.                              *)

LEMMA EnqueueKeepsInvariant ==
  ASSUME IInv, NEW s \in Sessions, Enqueue(s)
  PROVE  IInv'
<1> USE CollaborateAssumption
    DEF IInv, Inductive, TypeOK, Goto, rows, world, memory,
        Enqueue
<1>1. TypeOK'
  BY DEF MemoryFits, Outcome, RuntimeStatus, RuntimeWritesOnce, WorkflowStatus, ErrorCode, ActionStatus
<1>2. BeforeTheLoop'
  BY DEF BeforeTheLoop
<1>3. LocalLoopsOnce'
  BY DEF BeforeTheLoop, LocalLoopsOnce, MemoryFits
<1>4. RuntimeWritesOnce'
  BY DEF RuntimeWritesOnce, LocalLoopsOnce, BeforeTheLoop, ResultsAreTrue
<1>5. MemoryFits'
  BY DEF MemoryFits
<1>6. ResultsAreTrue'
  BY DEF ResultsAreTrue, MemoryFits, LocalLoopsOnce, RecordsAreTrue, RowsAreTrue
<1>7. RecordsAreTrue'
  BY DEF RecordsAreTrue, WrittenAtMostOnce, RowsAreTrue, StatusIsTrue, ResultsAreTrue,
         MemoryFits, LocalLoopsOnce, RuntimeWritesOnce, BeforeTheLoop
<1> QED
  BY <1>1, <1>2, <1>3, <1>4, <1>5, <1>6, <1>7

LEMMA RelockKeepsInvariant ==
  ASSUME IInv, NEW s \in Sessions, Relock(s)
  PROVE  IInv'
<1> USE StartTransition, CollaborateAssumption
    DEF IInv, Inductive, TypeOK, Goto, rows, world, memory,
        Relock
<1>1. TypeOK'
  BY DEF MemoryFits, Outcome, RuntimeStatus, RuntimeWritesOnce, WorkflowStatus, ErrorCode, ActionStatus
<1>2. BeforeTheLoop'
  BY DEF BeforeTheLoop
<1>3. LocalLoopsOnce'
  BY DEF BeforeTheLoop, LocalLoopsOnce, MemoryFits
<1>4. RuntimeWritesOnce'
  BY DEF RuntimeWritesOnce, LocalLoopsOnce, BeforeTheLoop, ResultsAreTrue
<1>5. MemoryFits'
  BY DEF MemoryFits
<1>6. ResultsAreTrue'
  BY DEF ResultsAreTrue, MemoryFits, LocalLoopsOnce, RecordsAreTrue, RowsAreTrue
<1>7. RecordsAreTrue'
  BY DEF RecordsAreTrue, WrittenAtMostOnce, RowsAreTrue, StatusIsTrue, ResultsAreTrue,
         MemoryFits, LocalLoopsOnce, RuntimeWritesOnce, BeforeTheLoop
<1> QED
  BY <1>1, <1>2, <1>3, <1>4, <1>5, <1>6, <1>7

LEMMA RetryKeepsInvariant ==
  ASSUME IInv, NEW s \in Sessions, Retry(s)
  PROVE  IInv'
<1> USE CollaborateAssumption
    DEF IInv, Inductive, TypeOK, Goto, rows, world, memory,
        Retry, RetryAllowed, RecoverableRun
<1>1. TypeOK'
  BY DEF MemoryFits, Outcome, RuntimeStatus, RuntimeWritesOnce, WorkflowStatus, ErrorCode, ActionStatus
<1>2. BeforeTheLoop'
  BY DEF BeforeTheLoop
<1>3. LocalLoopsOnce'
  BY DEF BeforeTheLoop, LocalLoopsOnce, MemoryFits
<1>4. RuntimeWritesOnce'
  BY DEF RuntimeWritesOnce, LocalLoopsOnce, BeforeTheLoop, ResultsAreTrue
<1>5. MemoryFits'
  BY DEF MemoryFits
<1>6. ResultsAreTrue'
  BY DEF ResultsAreTrue, MemoryFits, LocalLoopsOnce, RecordsAreTrue, RowsAreTrue
<1>7. RecordsAreTrue'
  BY DEF RecordsAreTrue, WrittenAtMostOnce, RowsAreTrue, StatusIsTrue, ResultsAreTrue,
         MemoryFits, LocalLoopsOnce, RuntimeWritesOnce, BeforeTheLoop
<1> QED
  BY <1>1, <1>2, <1>3, <1>4, <1>5, <1>6, <1>7

LEMMA SkipKeepsInvariant ==
  ASSUME IInv, NEW s \in Sessions, NEW a \in Actions, Skip(s, a)
  PROVE  IInv'
<1> USE CollaborateAssumption
    DEF IInv, Inductive, TypeOK, Goto, rows, world, memory,
        Skip, Collect, Waiting
<1>1. TypeOK'
  BY DEF MemoryFits, Outcome, RuntimeStatus, RuntimeWritesOnce, WorkflowStatus, ErrorCode, ActionStatus
<1>2. BeforeTheLoop'
  BY DEF BeforeTheLoop
<1>3. LocalLoopsOnce'
  BY DEF BeforeTheLoop, LocalLoopsOnce, MemoryFits
<1>4. RuntimeWritesOnce'
  BY DEF RuntimeWritesOnce, LocalLoopsOnce, BeforeTheLoop, ResultsAreTrue
<1>5. MemoryFits'
  BY DEF MemoryFits
<1>6. ResultsAreTrue'
  BY DEF ResultsAreTrue, MemoryFits, LocalLoopsOnce, RecordsAreTrue, RowsAreTrue
<1>7. RecordsAreTrue'
  BY DEF RecordsAreTrue, WrittenAtMostOnce, RowsAreTrue, StatusIsTrue, ResultsAreTrue,
         MemoryFits, LocalLoopsOnce, RuntimeWritesOnce, BeforeTheLoop
<1> QED
  BY <1>1, <1>2, <1>3, <1>4, <1>5, <1>6, <1>7

LEMMA SubmitKeepsInvariant ==
  ASSUME IInv, NEW s \in Sessions, NEW a \in Actions, Submit(s, a)
  PROVE  IInv'
<1> USE CollaborateAssumption
    DEF IInv, Inductive, TypeOK, Goto, rows, world, memory,
        Submit, Updates, Waiting
<1>1. TypeOK'
  <2>1. exec' \in [Actions -> RuntimeStatus \cup {"none"}]
    BY DEF RuntimeStatus
  <2>2. rowLock' \in [Actions -> Sessions \cup {NoSession}]
    OBVIOUS
  <2> QED
    BY <2>1, <2>2
<1>2. BeforeTheLoop'
  BY DEF BeforeTheLoop
<1>3. LocalLoopsOnce'
  BY DEF BeforeTheLoop, LocalLoopsOnce, MemoryFits
<1>4. RuntimeWritesOnce'
  BY DEF RuntimeWritesOnce, LocalLoopsOnce, BeforeTheLoop, ResultsAreTrue
<1>5. MemoryFits'
  BY DEF MemoryFits
<1>6. ResultsAreTrue'
  BY DEF ResultsAreTrue, MemoryFits, LocalLoopsOnce, RecordsAreTrue, RowsAreTrue
<1>7. RecordsAreTrue'
  BY DEF RecordsAreTrue, WrittenAtMostOnce, RowsAreTrue, StatusIsTrue, ResultsAreTrue,
         MemoryFits, LocalLoopsOnce, RuntimeWritesOnce, BeforeTheLoop
<1> QED
  BY <1>1, <1>2, <1>3, <1>4, <1>5, <1>6, <1>7

LEMMA UncertainKeepsInvariant ==
  ASSUME IInv, NEW s \in Sessions, Uncertain(s)
  PROVE  IInv'
<1> USE CollaborateAssumption
    DEF IInv, Inductive, TypeOK, Goto, rows, world, memory,
        Uncertain, Updates, Collect
<1>1. TypeOK'
  BY DEF MemoryFits, Outcome, RuntimeStatus, RuntimeWritesOnce, WorkflowStatus, ErrorCode, ActionStatus
<1>2. BeforeTheLoop'
  BY DEF BeforeTheLoop
<1>3. LocalLoopsOnce'
  BY DEF BeforeTheLoop, LocalLoopsOnce, MemoryFits
<1>4. RuntimeWritesOnce'
  BY DEF RuntimeWritesOnce, LocalLoopsOnce, BeforeTheLoop, ResultsAreTrue
<1>5. MemoryFits'
  <2>1. current[s] \in Actions /\ "uncertain" # "none"
        /\ pc[s] = "sent" /\ results[s][current[s]] = "none"
    BY DEF MemoryFits
  <2>2. /\ \A t \in Sessions \ {s} : results'[t] = results[t] /\ first'[t] = first[t]
        /\ results'[s] = [results[s] EXCEPT ![current[s]] = "uncertain"]
        /\ first'[s] = IF first[s] = NoAction THEN current[s] ELSE first[s]
    BY <2>1
  <2>3. \A t \in Sessions \ {s} : fresh'[t] = fresh[t]
    OBVIOUS
  <2>4. fresh'[s] = fresh[s]
    OBVIOUS
  <2>5. \A t \in Sessions \ {s} : pc'[t] = pc[t] /\ current'[t] = current[t]
    OBVIOUS
  <2>6. pc'[s] = "loop"
    OBVIOUS
  <2> HIDE DEF Goto, Uncertain, Updates, Collect
  <2>7. CollaborateAssumption /\ results[s] \in [Actions -> Outcome \cup {"none"}]
    OBVIOUS
  <2> SUFFICES ASSUME NEW t \in Sessions
               PROVE  /\ pc'[t] \in {"idle", "gap"} => first'[t] = NoAction /\ fresh'[t] = {}
                      /\ first'[t] = NoAction => \A a \in Actions : results'[t][a] = "none"
                      /\ first'[t] # NoAction => results'[t][first'[t]] # "none"
                      /\ pc'[t] = "sent" => current'[t] \in Actions /\ results'[t][current'[t]] = "none"
                      /\ pc'[t] = "settle" => \A a \in Actions : results'[t][a] # "none"
                      /\ \A a \in fresh'[t] : results'[t][a] = "succeeded"
    BY DEF MemoryFits
  <2>8. CASE t # s
    BY <2>8, <2>2, <2>3, <2>5 DEF MemoryFits
  <2>9. CASE t = s
    <3>1. first'[s] # NoAction /\ results'[s][first'[s]] # "none"
      BY <2>1, <2>2, <2>7 DEF MemoryFits
    <3>2. \A a \in fresh'[s] : results'[s][a] = "succeeded"
      BY <2>1, <2>2, <2>4, <2>7 DEF MemoryFits
    <3> QED
      BY <2>9, <3>1, <3>2, <2>6
  <2> QED
    BY <2>8, <2>9
<1>6. ResultsAreTrue'
  BY DEF ResultsAreTrue, MemoryFits, LocalLoopsOnce, RecordsAreTrue, RowsAreTrue
<1>7. RecordsAreTrue'
  BY DEF RecordsAreTrue, WrittenAtMostOnce, RowsAreTrue, StatusIsTrue, ResultsAreTrue,
         MemoryFits, LocalLoopsOnce, RuntimeWritesOnce, BeforeTheLoop
<1> QED
  BY <1>1, <1>2, <1>3, <1>4, <1>5, <1>6, <1>7

LEMMA AnsweredInserts ==
  ASSUME TypeOK, NEW s \in Sessions, Answered(s)
  PROVE  \/ fresh'[s] = fresh[s]
         \/ exec[current[s]] = "succeeded" /\ fresh'[s] = fresh[s] \cup {current[s]}
<1>1. Inserts(s, current[s], exec[current[s]])
  BY DEF Answered
<1> QED
  BY <1>1 DEF Inserts, Creates, TypeOK

LEMMA AnsweredKeepsInvariant ==
  ASSUME IInv, NEW s \in Sessions, Answered(s)
  PROVE  IInv'
<1>0. \/ fresh'[s] = fresh[s]
      \/ exec[current[s]] = "succeeded" /\ fresh'[s] = fresh[s] \cup {current[s]}
  BY AnsweredInserts DEF IInv
<1> USE CollaborateAssumption
    DEF IInv, Inductive, TypeOK, Goto, rows, world, memory,
        Answered, Updates, Collect, Inserts, Creates
<1>1. TypeOK'
  BY DEF MemoryFits, Outcome, RuntimeStatus, RuntimeWritesOnce, WorkflowStatus, ErrorCode, ActionStatus
<1>2. BeforeTheLoop'
  BY DEF BeforeTheLoop
<1>3. LocalLoopsOnce'
  BY DEF BeforeTheLoop, LocalLoopsOnce, MemoryFits
<1>4. RuntimeWritesOnce'
  BY DEF RuntimeWritesOnce, LocalLoopsOnce, BeforeTheLoop, ResultsAreTrue
<1>5. MemoryFits'
  <2>1. current[s] \in Actions /\ exec[current[s]] # "none"
        /\ pc[s] = "sent" /\ results[s][current[s]] = "none"
    BY DEF MemoryFits
  <2>2. /\ \A t \in Sessions \ {s} : results'[t] = results[t] /\ first'[t] = first[t]
        /\ results'[s] = [results[s] EXCEPT ![current[s]] = exec[current[s]]]
        /\ first'[s] = IF first[s] = NoAction THEN current[s] ELSE first[s]
    BY <2>1
  <2>3. \A t \in Sessions \ {s} : fresh'[t] = fresh[t]
    OBVIOUS
  <2>4. fresh'[s] = fresh[s] \/ (exec[current[s]] = "succeeded" /\ fresh'[s] = fresh[s] \cup {current[s]})
    BY <1>0
  <2>5. \A t \in Sessions \ {s} : pc'[t] = pc[t] /\ current'[t] = current[t]
    OBVIOUS
  <2>6. pc'[s] = "loop"
    OBVIOUS
  <2> HIDE DEF Goto, Answered, Updates, Collect, Inserts, Creates
  <2>7. CollaborateAssumption /\ results[s] \in [Actions -> Outcome \cup {"none"}]
    OBVIOUS
  <2> SUFFICES ASSUME NEW t \in Sessions
               PROVE  /\ pc'[t] \in {"idle", "gap"} => first'[t] = NoAction /\ fresh'[t] = {}
                      /\ first'[t] = NoAction => \A a \in Actions : results'[t][a] = "none"
                      /\ first'[t] # NoAction => results'[t][first'[t]] # "none"
                      /\ pc'[t] = "sent" => current'[t] \in Actions /\ results'[t][current'[t]] = "none"
                      /\ pc'[t] = "settle" => \A a \in Actions : results'[t][a] # "none"
                      /\ \A a \in fresh'[t] : results'[t][a] = "succeeded"
    BY DEF MemoryFits
  <2>8. CASE t # s
    BY <2>8, <2>2, <2>3, <2>5 DEF MemoryFits
  <2>9. CASE t = s
    <3>1. first'[s] # NoAction /\ results'[s][first'[s]] # "none"
      BY <2>1, <2>2, <2>7 DEF MemoryFits
    <3>2. \A a \in fresh'[s] : results'[s][a] = "succeeded"
      BY <2>1, <2>2, <2>4, <2>7 DEF MemoryFits
    <3> QED
      BY <2>9, <3>1, <3>2, <2>6
  <2> QED
    BY <2>8, <2>9
<1>6. ResultsAreTrue'
  BY DEF ResultsAreTrue, MemoryFits, LocalLoopsOnce, RecordsAreTrue, RowsAreTrue
<1>7. RecordsAreTrue'
  BY DEF RecordsAreTrue, WrittenAtMostOnce, RowsAreTrue, StatusIsTrue, ResultsAreTrue,
         MemoryFits, LocalLoopsOnce, RuntimeWritesOnce, BeforeTheLoop
<1> QED
  BY <1>1, <1>2, <1>3, <1>4, <1>5, <1>6, <1>7

LEMMA LocalSubmitKeepsInvariant ==
  ASSUME IInv, NEW s \in Sessions, NEW a \in Actions, NEW written \in BOOLEAN,
         NEW outcome \in {"succeeded", "failed"}, LocalSubmit(s, a, written, outcome)
  PROVE  IInv'
<1> USE CollaborateAssumption
    DEF IInv, Inductive, TypeOK, Goto, rows, world, memory,
        LocalSubmit, Collect, Inserts, Creates, Waiting
<1>1. TypeOK'
  BY DEF MemoryFits, Outcome, RuntimeStatus, RuntimeWritesOnce, WorkflowStatus, ErrorCode, ActionStatus
<1>2. BeforeTheLoop'
  BY DEF BeforeTheLoop
<1>3. LocalLoopsOnce'
  BY DEF BeforeTheLoop, LocalLoopsOnce, MemoryFits
<1>4. RuntimeWritesOnce'
  BY DEF RuntimeWritesOnce, LocalLoopsOnce, BeforeTheLoop, ResultsAreTrue
<1>5. MemoryFits'
  BY DEF MemoryFits
<1>6. ResultsAreTrue'
  BY DEF ResultsAreTrue, MemoryFits, LocalLoopsOnce, RecordsAreTrue, RowsAreTrue
<1>7. RecordsAreTrue'
  BY DEF RecordsAreTrue, WrittenAtMostOnce, RowsAreTrue, StatusIsTrue, ResultsAreTrue,
         MemoryFits, LocalLoopsOnce, RuntimeWritesOnce, BeforeTheLoop
<1> QED
  BY <1>1, <1>2, <1>3, <1>4, <1>5, <1>6, <1>7

LEMMA CommitKeepsInvariant ==
  ASSUME IInv, NEW s \in Sessions, Commit(s)
  PROVE  IInv'
<1> USE CollaborateAssumption
    DEF IInv, Inductive, TypeOK, Goto, rows, world, memory,
        Commit, ActionFor, Waiting
<1>1. TypeOK'
  <2>1. \A a \in Actions : results[s][a] \in Outcome \ {"none"}
    BY DEF Outcome
  <2>2. actionStatus' \in [Actions -> ActionStatus]
    BY <2>1 DEF ActionStatus
  <2>3. exec' \in [Actions -> RuntimeStatus \cup {"none"}]
    BY <2>1 DEF Outcome, RuntimeStatus, LocalLoopsOnce
  <2>4. rowLock' \in [Actions -> Sessions \cup {NoSession}]
    OBVIOUS
  <2> QED
    BY <2>2, <2>3, <2>4
<1>2. BeforeTheLoop'
  BY DEF BeforeTheLoop
<1>3. LocalLoopsOnce'
  <2>1. /\ pc'[s] = "settle" /\ pc[s] = "loop"
        /\ \A t \in Sessions \ {s} : pc'[t] = pc[t]
    OBVIOUS
  <2>2. ASSUME backend = "local", NEW t \in Sessions, NEW u \in Sessions,
               pc'[t] # "idle", pc'[u] # "idle"
        PROVE  t = u
    BY <2>1, <2>2 DEF LocalLoopsOnce
  <2>3. backend = "local" => \A t \in Sessions : pc'[t] \notin {"loop", "sent"}
    BY <2>1 DEF LocalLoopsOnce
  <2> QED
    BY <2>2, <2>3 DEF LocalLoopsOnce
<1>4. RuntimeWritesOnce'
  BY DEF RuntimeWritesOnce, LocalLoopsOnce, BeforeTheLoop, ResultsAreTrue
<1>5. MemoryFits'
  BY DEF MemoryFits
<1>6. ResultsAreTrue'
  BY DEF ResultsAreTrue, MemoryFits, LocalLoopsOnce, RecordsAreTrue, RowsAreTrue
<1>7. RecordsAreTrue'
  BY DEF RecordsAreTrue, WrittenAtMostOnce, RowsAreTrue, StatusIsTrue, ResultsAreTrue,
         MemoryFits, LocalLoopsOnce, RuntimeWritesOnce, BeforeTheLoop
<1> QED
  BY <1>1, <1>2, <1>3, <1>4, <1>5, <1>6, <1>7

(* The first outcome, which decides about an unfinished run.               *)
LEMMA FirstOutcome ==
  ASSUME IInv, NEW s \in Sessions, pc[s] = "settle"
  PROVE  /\ FirstStatus(s) \in {"QUEUED", "EXECUTING", "COMPLETED", "FAILED", "CANCELLED"}
         /\ FirstStatus(s) = "COMPLETED" => \E a \in Actions : exec[a] = "succeeded"
         /\ FirstStatus(s) = "FAILED" => \E a \in Actions : exec[a] = "failed"
<1> USE CollaborateAssumption DEF IInv, Inductive, TypeOK
<1>1. PICK a \in Actions : first[s] = a /\ results[s][a] \in Outcome
  BY DEF MemoryFits, Outcome
<1>2. results[s][a] \in {"succeeded", "failed"} => exec[a] = results[s][a]
  BY DEF ResultsAreTrue
<1> QED
  BY <1>1, <1>2 DEF FirstStatus, WorkflowStatusForRuntime, Outcome

(* All outcomes together, which decide about a finished one.               *)
LEMMA FinalOutcome ==
  ASSUME IInv, NEW s \in Sessions, pc[s] = "settle", Unfinished(s) = {}
  PROVE  /\ FinalStatus(s) \in {"COMPLETED", "PARTIALLY_COMPLETED", "FAILED"}
         /\ FinalStatus(s) \in {"COMPLETED", "PARTIALLY_COMPLETED"} =>
              \E a \in Actions : exec[a] = "succeeded"
         /\ FinalStatus(s) \in {"PARTIALLY_COMPLETED", "FAILED"} =>
              \E a \in Actions : exec[a] \in {"failed", "cancelled"}
<1> USE CollaborateAssumption DEF IInv, Inductive, TypeOK
<1>1. \A a \in Actions : results[s][a] \in {"succeeded", "failed", "cancelled"}
  BY DEF MemoryFits, Outcome, Unfinished
<1>2. \A a \in Actions : exec[a] = results[s][a]
  BY <1>1 DEF ResultsAreTrue
<1>3. \A a \in Actions : a \in Succeeded(s) <=> exec[a] = "succeeded"
  BY <1>2 DEF Succeeded
<1>4. Succeeded(s) \subseteq Actions
  BY DEF Succeeded
<1>5. CASE Succeeded(s) = Actions
  BY <1>3, <1>5 DEF FinalStatus
<1>6. CASE Succeeded(s) # Actions
  <2>1. PICK b \in Actions : b \notin Succeeded(s)
    BY <1>4, <1>6
  <2>2. exec[b] \in {"failed", "cancelled"}
    BY <1>1, <1>2, <1>3, <2>1
  <2> QED
    BY <2>2, <1>3, <1>4, <1>6 DEF FinalStatus
<1> QED
  BY <1>5, <1>6

LEMMA SettleUnfinishedKeepsInvariant ==
  ASSUME IInv, NEW s \in Sessions, SettleUnfinished(s)
  PROVE  IInv'
<1> USE RunTransitions, FirstOutcome, CollaborateAssumption
    DEF IInv, Inductive, TypeOK, Goto, rows, world, memory,
        SettleUnfinished, Settling, MovesRunTo, CurrentRun, StaysExecuting, End
<1>1. TypeOK'
  BY DEF MemoryFits, Outcome, RuntimeStatus, RuntimeWritesOnce, WorkflowStatus, ErrorCode, ActionStatus
<1>2. BeforeTheLoop'
  <2>1. started /\ run # "APPROVED" /\ \A t \in Sessions : pc[t] # "gap"
    BY DEF BeforeTheLoop
  <2>2. run' # "APPROVED"
    BY <2>1
  <2>3. started' /\ \A t \in Sessions : pc'[t] # "gap"
    BY <2>1
  <2> QED
    BY <2>2, <2>3 DEF BeforeTheLoop
<1>3. LocalLoopsOnce'
  <2>1. backend = "local" => Doubtful(s) = {}
    BY DEF LocalLoopsOnce, Doubtful
  <2>2. backend = "local" => errorCode' # "recoverable"
    BY <2>1 DEF LocalLoopsOnce
  <2> QED
    BY <2>2 DEF LocalLoopsOnce
<1>4. RuntimeWritesOnce'
  BY DEF RuntimeWritesOnce, LocalLoopsOnce, BeforeTheLoop, ResultsAreTrue
<1>5. MemoryFits'
  BY DEF MemoryFits
<1>6. ResultsAreTrue'
  BY DEF ResultsAreTrue, MemoryFits, LocalLoopsOnce, RecordsAreTrue, RowsAreTrue
<1>7. RecordsAreTrue'
  <2>1. WrittenAtMostOnce'
    BY DEF RecordsAreTrue, WrittenAtMostOnce
  <2>2. RowsAreTrue'
    BY DEF RecordsAreTrue, RowsAreTrue, BeforeTheLoop
  <2>3. StatusIsTrue'
    BY DEF RecordsAreTrue, StatusIsTrue, ResultsAreTrue, MemoryFits
  <2> QED
    BY ONLY <2>1, <2>2, <2>3 DEF RecordsAreTrue
<1> QED
  BY <1>1, <1>2, <1>3, <1>4, <1>5, <1>6, <1>7

LEMMA SettleFinishedKeepsInvariant ==
  ASSUME IInv, NEW s \in Sessions, SettleFinished(s)
  PROVE  IInv'
<1> USE RunTransitions, FinalOutcome, CollaborateAssumption
    DEF IInv, Inductive, TypeOK, Goto, rows, world, memory,
        SettleFinished, Settling, MovesRunTo, CurrentRun, End
<1>1. TypeOK'
  BY DEF MemoryFits, Outcome, RuntimeStatus, RuntimeWritesOnce, WorkflowStatus, ErrorCode, ActionStatus
<1>2. BeforeTheLoop'
  BY DEF BeforeTheLoop
<1>3. LocalLoopsOnce'
  BY DEF BeforeTheLoop, LocalLoopsOnce, MemoryFits
<1>4. RuntimeWritesOnce'
  BY DEF RuntimeWritesOnce, LocalLoopsOnce, BeforeTheLoop, ResultsAreTrue
<1>5. MemoryFits'
  BY DEF MemoryFits
<1>6. ResultsAreTrue'
  BY DEF ResultsAreTrue, MemoryFits, LocalLoopsOnce, RecordsAreTrue, RowsAreTrue
<1>7. RecordsAreTrue'
  BY DEF RecordsAreTrue, WrittenAtMostOnce, RowsAreTrue, StatusIsTrue, ResultsAreTrue,
         MemoryFits, LocalLoopsOnce, RuntimeWritesOnce, BeforeTheLoop
<1> QED
  BY <1>1, <1>2, <1>3, <1>4, <1>5, <1>6, <1>7

LEMMA LeavingKeepsInvariant ==
  ASSUME IInv, NEW s \in Sessions, Leaves(s)
  PROVE  IInv'
<1> USE CollaborateAssumption
    DEF IInv, Inductive, TypeOK, Goto, rows, world, memory,
        Leaves, RollBack, End
<1>1. TypeOK'
  BY DEF MemoryFits, Outcome, RuntimeStatus, RuntimeWritesOnce, WorkflowStatus, ErrorCode, ActionStatus
<1>2. BeforeTheLoop'
  BY DEF BeforeTheLoop
<1>3. LocalLoopsOnce'
  BY DEF BeforeTheLoop, LocalLoopsOnce, MemoryFits
<1>4. RuntimeWritesOnce'
  BY DEF RuntimeWritesOnce, LocalLoopsOnce, BeforeTheLoop, ResultsAreTrue
<1>5. MemoryFits'
  BY DEF MemoryFits
<1>6. ResultsAreTrue'
  BY DEF ResultsAreTrue, MemoryFits, LocalLoopsOnce, RecordsAreTrue, RowsAreTrue
<1>7. RecordsAreTrue'
  BY DEF RecordsAreTrue, WrittenAtMostOnce, RowsAreTrue, StatusIsTrue, ResultsAreTrue,
         MemoryFits, LocalLoopsOnce, RuntimeWritesOnce, BeforeTheLoop
<1> QED
  BY <1>1, <1>2, <1>3, <1>4, <1>5, <1>6, <1>7

LEMMA CancelKeepsInvariant ==
  ASSUME IInv, Cancel
  PROVE  IInv'
<1> USE CollaborateAssumption
    DEF IInv, Inductive, TypeOK, Goto, rows, world, memory,
        Cancel
<1>1. TypeOK'
  BY DEF MemoryFits, Outcome, RuntimeStatus, RuntimeWritesOnce, WorkflowStatus, ErrorCode, ActionStatus
<1>2. BeforeTheLoop'
  BY DEF BeforeTheLoop
<1>3. LocalLoopsOnce'
  BY DEF BeforeTheLoop, LocalLoopsOnce, MemoryFits
<1>4. RuntimeWritesOnce'
  BY DEF RuntimeWritesOnce, LocalLoopsOnce, BeforeTheLoop, ResultsAreTrue
<1>5. MemoryFits'
  BY DEF MemoryFits
<1>6. ResultsAreTrue'
  BY DEF ResultsAreTrue, MemoryFits, LocalLoopsOnce, RecordsAreTrue, RowsAreTrue
<1>7. RecordsAreTrue'
  BY DEF RecordsAreTrue, WrittenAtMostOnce, RowsAreTrue, StatusIsTrue, ResultsAreTrue,
         MemoryFits, LocalLoopsOnce, RuntimeWritesOnce, BeforeTheLoop
<1> QED
  BY <1>1, <1>2, <1>3, <1>4, <1>5, <1>6, <1>7

LEMMA RuntimeStartsKeepsInvariant ==
  ASSUME IInv, NEW a \in Actions, RuntimeStarts(a)
  PROVE  IInv'
<1> USE CollaborateAssumption
    DEF IInv, Inductive, TypeOK, Goto, rows, world, memory,
        RuntimeStarts
<1>1. TypeOK'
  BY DEF MemoryFits, Outcome, RuntimeStatus, RuntimeWritesOnce, WorkflowStatus, ErrorCode, ActionStatus
<1>2. BeforeTheLoop'
  BY DEF BeforeTheLoop
<1>3. LocalLoopsOnce'
  BY DEF BeforeTheLoop, LocalLoopsOnce, MemoryFits
<1>4. RuntimeWritesOnce'
  BY DEF RuntimeWritesOnce, LocalLoopsOnce, BeforeTheLoop, ResultsAreTrue
<1>5. MemoryFits'
  BY DEF MemoryFits
<1>6. ResultsAreTrue'
  BY DEF ResultsAreTrue, MemoryFits, LocalLoopsOnce, RecordsAreTrue, RowsAreTrue
<1>7. RecordsAreTrue'
  BY DEF RecordsAreTrue, WrittenAtMostOnce, RowsAreTrue, StatusIsTrue, ResultsAreTrue,
         MemoryFits, LocalLoopsOnce, RuntimeWritesOnce, BeforeTheLoop
<1> QED
  BY <1>1, <1>2, <1>3, <1>4, <1>5, <1>6, <1>7

LEMMA RuntimeFinishesKeepsInvariant ==
  ASSUME IInv, NEW a \in Actions, NEW outcome \in {"succeeded", "failed", "cancelled"},
         RuntimeFinishes(a, outcome)
  PROVE  IInv'
<1> USE CollaborateAssumption
    DEF IInv, Inductive, TypeOK, Goto, rows, world, memory,
        RuntimeFinishes
<1>1. TypeOK'
  BY DEF MemoryFits, Outcome, RuntimeStatus, RuntimeWritesOnce, WorkflowStatus, ErrorCode, ActionStatus
<1>2. BeforeTheLoop'
  BY DEF BeforeTheLoop
<1>3. LocalLoopsOnce'
  BY DEF BeforeTheLoop, LocalLoopsOnce, MemoryFits
<1>4. RuntimeWritesOnce'
  BY DEF RuntimeWritesOnce, LocalLoopsOnce, BeforeTheLoop, ResultsAreTrue
<1>5. MemoryFits'
  BY DEF MemoryFits
<1>6. ResultsAreTrue'
  BY DEF ResultsAreTrue, MemoryFits, LocalLoopsOnce, RecordsAreTrue, RowsAreTrue
<1>7. RecordsAreTrue'
  BY DEF RecordsAreTrue, WrittenAtMostOnce, RowsAreTrue, StatusIsTrue, ResultsAreTrue,
         MemoryFits, LocalLoopsOnce, RuntimeWritesOnce, BeforeTheLoop
<1> QED
  BY <1>1, <1>2, <1>3, <1>4, <1>5, <1>6, <1>7

LEMMA StepKeepsInvariant ==
  ASSUME IInv, Step
  PROVE  IInv'
<1>1. ASSUME NEW s \in Sessions, Enqueue(s) \/ Relock(s) \/ Retry(s)
      PROVE  IInv'
  BY <1>1, EnqueueKeepsInvariant, RelockKeepsInvariant, RetryKeepsInvariant
<1>2. ASSUME NEW s \in Sessions, NEW a \in Actions, Skip(s, a) \/ Submit(s, a)
      PROVE  IInv'
  BY <1>2, SkipKeepsInvariant, SubmitKeepsInvariant
<1>3. ASSUME NEW s \in Sessions, Uncertain(s) \/ Answered(s)
      PROVE  IInv'
  BY <1>3, UncertainKeepsInvariant, AnsweredKeepsInvariant
<1>4. ASSUME NEW s \in Sessions, NEW a \in Actions, NEW written \in BOOLEAN,
             NEW outcome \in {"succeeded", "failed"}, LocalSubmit(s, a, written, outcome)
      PROVE  IInv'
  BY <1>4, LocalSubmitKeepsInvariant
<1>5. ASSUME NEW s \in Sessions, Commit(s)
      PROVE  IInv'
  BY <1>5, CommitKeepsInvariant
<1>6. ASSUME NEW s \in Sessions, SettleUnfinished(s) \/ SettleFinished(s)
      PROVE  IInv'
  BY <1>6, SettleUnfinishedKeepsInvariant, SettleFinishedKeepsInvariant
<1>7. ASSUME NEW s \in Sessions, Leaves(s)
      PROVE  IInv'
  BY <1>7, LeavingKeepsInvariant
<1>8. CASE Cancel
  BY <1>8, CancelKeepsInvariant
<1>9. ASSUME NEW a \in Actions, RuntimeStarts(a)
      PROVE  IInv'
  BY <1>9, RuntimeStartsKeepsInvariant
<1>10. ASSUME NEW a \in Actions, NEW outcome \in {"succeeded", "failed", "cancelled"},
              RuntimeFinishes(a, outcome)
       PROVE  IInv'
  BY <1>10, RuntimeFinishesKeepsInvariant
<1> QED
  BY <1>1, <1>2, <1>3, <1>4, <1>5, <1>6, <1>7, <1>8, <1>9, <1>10 DEF Step

LEMMA StutterKeepsInvariant ==
  ASSUME IInv, UNCHANGED vars
  PROVE  IInv'
<1> USE DEF vars, rows, world, memory, IInv, Inductive
<1>1. TypeOK'
  BY DEF TypeOK
<1>2. BeforeTheLoop' /\ LocalLoopsOnce' /\ RuntimeWritesOnce'
  BY DEF BeforeTheLoop, LocalLoopsOnce, RuntimeWritesOnce
<1>3. MemoryFits' /\ ResultsAreTrue'
  BY DEF MemoryFits, ResultsAreTrue
<1>4. RecordsAreTrue'
  BY DEF RecordsAreTrue, WrittenAtMostOnce, RowsAreTrue, StatusIsTrue
<1> QED
  BY <1>1, <1>2, <1>3, <1>4

--------------------------------------------------------------------------------
(* The inductive invariant holds in every reachable state.                 *)
LEMMA Invariance == Spec => []IInv
<1>1. IInv /\ [Next]_vars => IInv'
  BY NextIsStep, StepKeepsInvariant, StutterKeepsInvariant
<1> QED
  BY <1>1, InvariantInit, PTL DEF Spec

(* The rows of the run, the runtime's executions and what each request     *)
(* holds in memory keep to their types: no illegal status is ever written. *)
THEOREM TypeCorrect == Spec => []TypeOK
<1>1. IInv => TypeOK
  BY DEF IInv
<1> QED
  BY <1>1, Invariance, PTL

(* Whatever number of retries share the loop, lose answers or roll back:   *)
(* no action is written twice, an artifact row stands for a write that the *)
(* runtime reports as succeeded, and the run's final status claims no more *)
(* than the runtime confirms.                                              *)
THEOREM TrueRecords == Spec => []RecordsAreTrue
<1>1. IInv => RecordsAreTrue
  BY DEF IInv, Inductive
<1> QED
  BY <1>1, Invariance, PTL

(* With the local runtime one request alone goes through the loop, so that *)
(* the provider calls of a loop that rolled back are never made again.     *)
THEOREM LocalRunsOnce == Spec => []LocalLoopsOnce
<1>1. IInv => LocalLoopsOnce
  BY DEF IInv, Inductive
<1> QED
  BY <1>1, Invariance, PTL

--------------------------------------------------------------------------------
(* The end of a run.                                                       *)

(* The status of the run moves along the table, or not at all.             *)
LEMMA StatusStep ==
  ASSUME IInv, Step
  PROVE  run' = run \/ CanTransition(run, run')
<1> USE DEF rows
<1>1. ASSUME NEW s \in Sessions, Enqueue(s) \/ Relock(s) \/ Retry(s)
      PROVE  run' = run \/ CanTransition(run, run')
  BY <1>1 DEF Enqueue, Relock, Retry, MayStart, CanTransition, Transitions
<1>2. ASSUME NEW s \in Sessions, NEW a \in Actions, Skip(s, a) \/ Submit(s, a)
      PROVE  run' = run
  BY <1>2 DEF Skip, Submit, Collect
<1>3. ASSUME NEW s \in Sessions, Uncertain(s) \/ Answered(s)
      PROVE  run' = run
  BY <1>3 DEF Uncertain, Answered, Collect
<1>4. ASSUME NEW s \in Sessions, NEW a \in Actions, NEW written \in BOOLEAN,
             NEW outcome \in {"succeeded", "failed"}, LocalSubmit(s, a, written, outcome)
      PROVE  run' = run
  BY <1>4 DEF LocalSubmit, Collect
<1>5. ASSUME NEW s \in Sessions, Commit(s) \/ Leaves(s)
      PROVE  run' = run
  BY <1>5 DEF Commit, Leaves, RollBack
<1>6. ASSUME NEW s \in Sessions, SettleUnfinished(s) \/ SettleFinished(s)
      PROVE  run' = run \/ CanTransition(run, run')
  BY <1>6 DEF SettleUnfinished, SettleFinished, MovesRunTo, CurrentRun
<1>7. CASE Cancel
  BY <1>7 DEF Cancel
<1>8. ASSUME NEW a \in Actions, RuntimeStarts(a)
      PROVE  run' = run
  BY <1>8 DEF RuntimeStarts
<1>9. ASSUME NEW a \in Actions, NEW outcome \in {"succeeded", "failed", "cancelled"},
             RuntimeFinishes(a, outcome)
      PROVE  run' = run
  BY <1>9 DEF RuntimeFinishes
<1> QED
  BY <1>1, <1>2, <1>3, <1>4, <1>5, <1>6, <1>7, <1>8, <1>9 DEF Step

(* A run that has ended keeps its status, although loops that began before *)
(* the end still commit and settle.                                        *)
THEOREM EndIsFinal == Spec => EndedIsFinal
<1>1. IInv /\ [Next]_vars => [Finished => UNCHANGED run]_vars
  BY NextIsStep, StatusStep, RunTransitions DEF Finished
<1> QED
  BY <1>1, Invariance, PTL DEF Spec, EndedIsFinal

--------------------------------------------------------------------------------
(* Row locks.                                                              *)

(* A row is locked only by a request that is in its loop.                  *)
LocksAreHeld ==
  \A a \in Actions : rowLock[a] # NoSession => pc[rowLock[a]] \in {"loop", "sent"}

(* A request takes locks only on its way through the loop ...              *)
LEMMA TakenLocks ==
  ASSUME TypeOK, LocksAreHeld, NEW s \in Sessions, NEW label \in {"loop", "sent"},
         pc' = [pc EXCEPT ![s] = label],
         NEW a \in Actions, rowLock' = rowLock \/ rowLock' = [rowLock EXCEPT ![a] = s]
  PROVE  LocksAreHeld'
<1> SUFFICES ASSUME NEW b \in Actions, rowLock'[b] # NoSession
             PROVE  pc'[rowLock'[b]] \in {"loop", "sent"}
  BY DEF LocksAreHeld
<1>1. rowLock'[b] = rowLock[b] \/ rowLock'[b] = s
  BY DEF TypeOK
<1>2. rowLock'[b] \in Sessions
  BY <1>1 DEF TypeOK
<1>3. CASE rowLock'[b] = s
  BY <1>3 DEF TypeOK
<1>4. CASE rowLock'[b] # s
  <2>1. rowLock'[b] = rowLock[b] /\ pc[rowLock[b]] \in {"loop", "sent"}
    BY <1>1, <1>4 DEF LocksAreHeld
  <2> QED
    BY <1>2, <1>4, <2>1 DEF TypeOK
<1> QED
  BY <1>3, <1>4

(* ... and leaves it with none.                                            *)
LEMMA GivenLocks ==
  ASSUME TypeOK, LocksAreHeld, NEW s \in Sessions, NEW label, pc' = [pc EXCEPT ![s] = label],
         rowLock' = [a \in Actions |-> IF rowLock[a] = s THEN NoSession ELSE rowLock[a]]
  PROVE  LocksAreHeld'
<1> SUFFICES ASSUME NEW b \in Actions, rowLock'[b] # NoSession
             PROVE  pc'[rowLock'[b]] \in {"loop", "sent"}
  BY DEF LocksAreHeld
<1>1. rowLock'[b] = rowLock[b] /\ rowLock[b] # s
  OBVIOUS
<1>2. rowLock[b] \in Sessions /\ pc[rowLock[b]] \in {"loop", "sent"}
  BY <1>1 DEF LocksAreHeld, TypeOK
<1> QED
  BY <1>1, <1>2 DEF TypeOK

(* A request outside the loop holds none to begin with.                    *)
LEMMA NoLocks ==
  ASSUME TypeOK, LocksAreHeld, NEW s \in Sessions, pc[s] \notin {"loop", "sent"},
         NEW label, pc' = [pc EXCEPT ![s] = label], UNCHANGED rowLock
  PROVE  LocksAreHeld'
<1> SUFFICES ASSUME NEW b \in Actions, rowLock[b] # NoSession
             PROVE  pc'[rowLock[b]] \in {"loop", "sent"}
  BY DEF LocksAreHeld
<1>1. rowLock[b] \in Sessions /\ pc[rowLock[b]] \in {"loop", "sent"}
  BY DEF LocksAreHeld, TypeOK
<1>2. rowLock[b] # s
  BY <1>1
<1> QED
  BY <1>1, <1>2 DEF TypeOK

LEMMA StepKeepsLocks ==
  ASSUME IInv, LocksAreHeld, Step
  PROVE  LocksAreHeld'
<1>a. TypeOK
  BY DEF IInv
<1>1. ASSUME NEW s \in Sessions, Enqueue(s) \/ Relock(s) \/ Retry(s)
      PROVE  LocksAreHeld'
  <2>1. pc[s] \in {"idle", "gap"} /\ UNCHANGED rowLock /\ \E label \in {"gap", "loop"} : Goto(s, label)
    BY <1>1 DEF Enqueue, Relock, Retry
  <2> QED
    BY <2>1, <1>a, NoLocks DEF Goto
<1>2. ASSUME NEW s \in Sessions, NEW a \in Actions, Skip(s, a) \/ Submit(s, a)
      PROVE  LocksAreHeld'
  <2>1. /\ \E label \in {"loop", "sent"} : Goto(s, label)
        /\ rowLock' = rowLock \/ rowLock' = [rowLock EXCEPT ![a] = s]
    BY <1>2 DEF Skip, Submit, Collect, Updates
  <2> QED
    BY <2>1, <1>a, TakenLocks DEF Goto
<1>3. ASSUME NEW s \in Sessions, Uncertain(s) \/ Answered(s)
      PROVE  LocksAreHeld'
  <2>1. current[s] \in Actions
    BY <1>3 DEF IInv, Inductive, MemoryFits, Uncertain, Answered
  <2>2. Goto(s, "loop") /\ (rowLock' = rowLock \/ rowLock' = [rowLock EXCEPT ![current[s]] = s])
    BY <1>3 DEF Uncertain, Answered, Collect, Updates
  <2> QED
    BY <2>1, <2>2, <1>a, TakenLocks DEF Goto
<1>4. ASSUME NEW s \in Sessions, NEW a \in Actions, NEW written \in BOOLEAN,
             NEW outcome \in {"succeeded", "failed"}, LocalSubmit(s, a, written, outcome)
      PROVE  LocksAreHeld'
  <2>1. Goto(s, "loop") /\ rowLock' = [rowLock EXCEPT ![a] = s]
    BY <1>4 DEF LocalSubmit, Collect
  <2> QED
    BY <2>1, <1>a, TakenLocks DEF Goto
<1>5. ASSUME NEW s \in Sessions,
             Commit(s) \/ SettleUnfinished(s) \/ SettleFinished(s) \/ Leaves(s)
      PROVE  LocksAreHeld'
  <2>1. /\ \E label \in {"settle", "idle"} : Goto(s, label)
        /\ rowLock' = [a \in Actions |-> IF rowLock[a] = s THEN NoSession ELSE rowLock[a]]
    BY <1>5 DEF Commit, SettleUnfinished, SettleFinished, Leaves, RollBack, End
  <2> QED
    BY <2>1, <1>a, GivenLocks DEF Goto
<1>6. ASSUME \/ Cancel
             \/ \E a \in Actions : RuntimeStarts(a)
             \/ \E a \in Actions, outcome \in {"succeeded", "failed", "cancelled"} :
                  RuntimeFinishes(a, outcome)
      PROVE  LocksAreHeld'
  BY <1>6 DEF Cancel, RuntimeStarts, RuntimeFinishes, LocksAreHeld
<1> QED
  BY <1>1, <1>2, <1>3, <1>4, <1>5, <1>6 DEF Step

LEMMA LocksInvariant == Spec => []LocksAreHeld
<1>1. Init => LocksAreHeld
  BY DEF Init, LocksAreHeld
<1>2. IInv /\ LocksAreHeld /\ [Next]_vars => LocksAreHeld'
  <2>1. CASE UNCHANGED vars
    BY <2>1 DEF vars, LocksAreHeld
  <2> QED
    BY <2>1, NextIsStep, StepKeepsLocks
<1> QED
  BY <1>1, <1>2, Invariance, PTL DEF Spec

(* What a request that cannot go on waits for: rows locked by requests     *)
(* that are under way, and never by itself.                                *)
LEMMA StuckWaits ==
  ASSUME IInv, LocksAreHeld, NEW s \in Sessions, pc[s] # "idle", ~CanGoOn(s)
  PROVE  WaitsFor(s, {t \in Sessions : pc[t] # "idle"})
<1> DEFINE busy == {t \in Sessions : pc[t] # "idle"}
<1>1. ASSUME NEW a \in Actions, ~CanWrite(s, a)
      PROVE  rowLock[a] \in busy \ {s}
  BY <1>1 DEF CanWrite, LocksAreHeld, IInv, TypeOK
<1>2. CASE pc[s] = "sent"
  <2>1. current[s] \in Actions /\ ~CanWrite(s, current[s])
    BY <1>2 DEF CanGoOn, IInv, Inductive, MemoryFits
  <2> QED
    BY <2>1, <1>1, <1>2 DEF WaitsFor
<1>3. CASE pc[s] = "loop"
  <2>1. Waiting(s) # {} /\ \A a \in Waiting(s) : a \in Actions /\ ~CanWrite(s, a)
    BY <1>3 DEF CanGoOn, MayHandle, Waiting
  <2> QED
    BY <2>1, <1>1, <1>3 DEF WaitsFor
<1>4. pc[s] \in {"sent", "loop"}
  BY DEF CanGoOn, IInv, TypeOK
<1> QED
  BY <1>2, <1>3, <1>4

(* However many requests share the loop and however they interleave, row   *)
(* locks never bring them all to a standstill: when none can go on, those  *)
(* under way are one deadlock, which the data base detects.                *)
THEOREM LocksLeaveSomeoneMoving == Spec => []NobodyStuck
<1>1. IInv /\ LocksAreHeld => NobodyStuck
  <2> SUFFICES ASSUME IInv, LocksAreHeld, NEW s \in Sessions, pc[s] # "idle",
                      \A t \in Sessions : ~CanGoOn(t)
               PROVE  InDeadlock(s)
    BY DEF NobodyStuck
  <2> DEFINE busy == {t \in Sessions : pc[t] # "idle"}
  <2>1. busy \in SUBSET Sessions /\ s \in busy
    OBVIOUS
  <2>2. \A t \in busy : WaitsFor(t, busy)
    BY StuckWaits
  <2> QED
    BY <2>1, <2>2 DEF InDeadlock
<1> QED
  BY <1>1, Invariance, LocksInvariant, PTL

--------------------------------------------------------------------------------
(* CollaborateExecution implements ApprovedEffect.                         *)

(* An item that was not written is written, after the release.             *)
LEMMA FirstWrite ==
  ASSUME TypeOK, NEW a \in Actions, calls[a] = 0, started,
         calls' = [calls EXCEPT ![a] = @ + 1], UNCHANGED rows
  PROVE  Effect!Write({a})
<1>1. {a} \cap {i \in Actions : calls[i] > 0} = {}
  OBVIOUS
<1>2. calls' = [i \in Actions |-> IF i \in {a} THEN 1 ELSE calls[i]]
  <2>1. calls' = [calls EXCEPT ![a] = 1]
    OBVIOUS
  <2> QED
    BY <2>1 DEF TypeOK
<1> QED
  BY <1>1, <1>2 DEF Effect!Write, Effect!Written, Finished, rows

(* A step of the run's status records nothing and does not undo the end.   *)
LEMMA StatusRecords ==
  ASSUME TypeOK, run' = run \/ CanTransition(run, run'), UNCHANGED <<started, calls, artifacts>>
  PROVE  Effect!Record({})
<1>1. Finished' \in BOOLEAN /\ (Finished => Finished')
  BY RunTransitions DEF Finished
<1> QED
  BY <1>1 DEF Effect!Record

LEMMA EffectStep ==
  ASSUME IInv, Step
  PROVE  [Effect!Next]_(Effect!vars)
<1> USE DEF Effect!vars, rows, world
<1>a. TypeOK
  BY DEF IInv
<1>b. Effect!Record({}) => Effect!Next
  BY DEF Effect!Next
<1>c. \A a \in Actions : Effect!Write({a}) => Effect!Next
  BY DEF Effect!Next
<1>d. run' = run \/ CanTransition(run, run')
  BY StatusStep
<1>1. ASSUME NEW s \in Sessions, Enqueue(s) \/ Retry(s) \/ Leaves(s)
      PROVE  [Effect!Next]_(Effect!vars)
  <2>1. UNCHANGED <<started, calls, artifacts>>
    BY <1>1 DEF Enqueue, Retry, Leaves, RollBack
  <2> QED
    BY <2>1, <1>a, <1>b, <1>d, StatusRecords
<1>2. ASSUME NEW s \in Sessions, Relock(s)
      PROVE  Effect!LetThrough
  <2>1. ~started /\ run = "QUEUED" /\ run' = "EXECUTING"
    BY <1>2, StartTransition DEF IInv, Inductive, BeforeTheLoop, Relock
  <2>2. ~Finished /\ ~Finished'
    BY <2>1 DEF Finished, TerminalStates
  <2>3. Finished' = Finished
    BY <2>1 DEF Finished, TerminalStates
  <2> QED
    BY <1>2, <2>1, <2>2, <2>3 DEF Relock, Effect!LetThrough
<1>3. ASSUME NEW s \in Sessions, NEW a \in Actions, Skip(s, a) \/ Submit(s, a)
      PROVE  UNCHANGED Effect!vars
  BY <1>3 DEF Skip, Submit, Collect, Finished
<1>4. ASSUME NEW s \in Sessions, Uncertain(s) \/ Answered(s)
      PROVE  UNCHANGED Effect!vars
  BY <1>4 DEF Uncertain, Answered, Collect, Finished
<1>5. ASSUME NEW s \in Sessions, NEW a \in Actions, NEW written \in BOOLEAN,
             NEW outcome \in {"succeeded", "failed"}, LocalSubmit(s, a, written, outcome)
      PROVE  [Effect!Next]_(Effect!vars)
  <2>1. calls[a] = 0 /\ started /\ UNCHANGED rows
    BY <1>5 DEF IInv, Inductive, TypeOK, LocalLoopsOnce, BeforeTheLoop, LocalSubmit, Collect,
                Waiting
  <2>2. CASE written
    <3>1. calls' = [calls EXCEPT ![a] = @ + 1]
      BY <1>5, <2>2 DEF LocalSubmit
    <3> QED
      BY <3>1, <2>1, <1>a, <1>c, FirstWrite
  <2>3. CASE ~written
    <3>1. calls' = calls
      BY <1>5, <2>3 DEF LocalSubmit
    <3> QED
      BY <3>1, <2>1 DEF Finished
  <2> QED
    BY <2>2, <2>3
<1>6. ASSUME NEW s \in Sessions, Commit(s)
      PROVE  Effect!Next
  <2>1. UNCHANGED <<started, calls, run>> /\ artifacts' = artifacts \cup fresh[s]
    BY <1>6 DEF Commit
  <2>2. fresh[s] \subseteq {i \in Actions : calls[i] > 0}
    <3> SUFFICES ASSUME NEW a \in fresh[s] PROVE a \in Actions /\ calls[a] = 1
      OBVIOUS
    <3>1. a \in Actions /\ results[s][a] = "succeeded"
      BY <1>a DEF IInv, Inductive, TypeOK, MemoryFits
    <3>2. exec[a] = "succeeded" \/ calls[a] = 1
      BY <3>1 DEF IInv, Inductive, ResultsAreTrue
    <3> QED
      BY <3>1, <3>2 DEF IInv, Inductive, RuntimeWritesOnce
  <2>3. Effect!Record(fresh[s])
    BY <2>1, <2>2 DEF Effect!Record, Effect!Written, Finished
  <2>4. fresh[s] \in SUBSET Actions
    BY <1>a DEF TypeOK
  <2> QED
    BY <2>3, <2>4 DEF Effect!Next
<1>7. ASSUME NEW s \in Sessions, SettleUnfinished(s) \/ SettleFinished(s)
      PROVE  [Effect!Next]_(Effect!vars)
  <2>1. UNCHANGED <<started, calls, artifacts>>
    BY <1>7 DEF SettleUnfinished, SettleFinished, Settling, MovesRunTo
  <2> QED
    BY <2>1, <1>a, <1>b, <1>d, StatusRecords
<1>8. ASSUME Cancel
      PROVE  [Effect!Next]_(Effect!vars)
  <2>1. UNCHANGED <<started, calls, artifacts>>
    BY <1>8 DEF Cancel
  <2> QED
    BY <2>1, <1>a, <1>b, <1>d, StatusRecords
<1>9. ASSUME NEW a \in Actions, RuntimeStarts(a)
      PROVE  UNCHANGED Effect!vars
  BY <1>9 DEF RuntimeStarts, Finished
<1>10. ASSUME NEW a \in Actions, NEW outcome \in {"succeeded", "failed", "cancelled"},
              RuntimeFinishes(a, outcome)
       PROVE  [Effect!Next]_(Effect!vars)
  <2>1. calls[a] = 0 /\ started /\ UNCHANGED rows
    BY <1>10 DEF IInv, Inductive, TypeOK, RuntimeWritesOnce, BeforeTheLoop, RuntimeFinishes
  <2>2. CASE outcome = "succeeded"
    <3>1. calls' = [calls EXCEPT ![a] = @ + 1]
      BY <1>10, <2>2 DEF RuntimeFinishes
    <3> QED
      BY <3>1, <2>1, <1>a, <1>c, FirstWrite
  <2>3. CASE outcome # "succeeded"
    <3>1. calls' = calls
      BY <1>10, <2>3 DEF RuntimeFinishes
    <3> QED
      BY <3>1, <2>1 DEF Finished
  <2> QED
    BY <2>2, <2>3
<1>11. Effect!LetThrough => Effect!Next
  BY DEF Effect!Next
<1> QED
  BY <1>1, <1>2, <1>3, <1>4, <1>5, <1>6, <1>7, <1>8, <1>9, <1>10, <1>11 DEF Step

(* Execution of several actions in one loop, shared by retries, keeps the  *)
(* promise of ApprovedEffect.                                              *)
THEOREM KeepsThePromise == Spec => ImplementsEffect
<1>1. Init => Effect!Init
  BY DEF Init, Effect!Init, Finished, TerminalStates
<1>2. IInv /\ [Next]_vars => [Effect!Next]_(Effect!vars)
  <2>1. ASSUME IInv, Next
        PROVE  [Effect!Next]_(Effect!vars)
    BY <2>1, NextIsStep, EffectStep
  <2>2. CASE UNCHANGED vars
    BY <2>2 DEF vars, rows, world, Finished, Effect!vars
  <2> QED
    BY <2>1, <2>2
<1> QED
  BY <1>1, <1>2, Invariance, PTL DEF Spec, ImplementsEffect, Effect!Spec
================================================================================
