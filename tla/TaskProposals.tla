---------------------------- MODULE TaskProposals ------------------------------
(***************************************************************************)
(* Task proposals: a source is interpreted into a batch of proposed tasks, *)
(* each with a run, an action and an approval of its own; a proposal is    *)
(* edited, rejected, or accepted, which is an edit, an approval and an     *)
(* execution in separate transactions of one request.                      *)
(*                                                                         *)
(* An edit reads the approval and the action without a lock and commits    *)
(* later; the ORM writes the columns that differ from what was read.       *)
(*                                                                         *)
(* Sources: sources/{service,analysis,dates,dedupe}.py, api/sources.py,    *)
(* services/approvals.py, services/runtime_execution.py, models/guards.py. *)
(***************************************************************************)
EXTENDS Integers, Sequences, FiniteSets, RelayDomain

CONSTANTS MaxProposals,  \* bound on the proposals ever captured
          MaxDrafts,     \* bound on the drafts of one answer of the model
          Manual,        \* ids of the tasks created by hand
          Works,         \* what a task says: its title and description
          Alike,         \* the pairs of works similar to at least the threshold
          NoWork,        \* no task row, or no payload
          Requests       \* concurrent HTTP requests

Proposals == 1..MaxProposals
Tasks == Proposals \cup Manual

ASSUME ProposalsAssumption ==
  /\ MaxProposals \in Nat \ {0} /\ MaxDrafts \in Nat \ {0}
  /\ Proposals \cap Manual = {}
  /\ NoWork \notin Works
  /\ Alike \subseteq Works \X Works
  /\ \A w \in Works : <<w, w>> \in Alike

(* A proposal's payload; unsure when needs_confirmation is not empty.      *)
Payloads == [work : Works, unsure : BOOLEAN]
NoPayload == [work |-> NoWork, unsure |-> FALSE]

VARIABLES
  run,           \* WorkflowRun.status of each proposal; "none" before it exists
  action,        \* ProposedAction.status
  payload,       \* ProposedAction.payload
  approval,      \* ApprovalRequest.status
  original,      \* ApprovalRequest.original_payload
  approved,      \* ApprovalRequest.approved_payload
  flagged,       \* captured with possible_duplicate
  work,          \* ProjectTask rows: what each task says
  made,          \* history: the payload a task was created from
  deserted       \* history: approved, and no request is left to execute it

VARIABLES
  pc,            \* where each request is
  about,         \* the proposal it is about; 0 for none
  data,          \* the payload its user sent
  accepting,     \* it is an accept, not an edit
  readOriginal,  \* approval.original_payload as it read it
  changes,       \* the columns of the action that it will write
  known          \* the works it compares a new batch with

decisions == <<run, action, payload, approval, original, approved>>
rows == <<decisions, flagged, work>>
history == <<made, deserted>>
edits == <<about, data, accepting, readOriginal, changes>>
vars == <<rows, history, pc, edits, known>>

Init ==
  /\ run = [p \in Proposals |-> "none"]
  /\ action = [p \in Proposals |-> "PROPOSED"]
  /\ payload = [p \in Proposals |-> NoPayload]
  /\ approval = [p \in Proposals |-> "PENDING"]
  /\ original = [p \in Proposals |-> NoPayload]
  /\ approved = [p \in Proposals |-> NoPayload]
  /\ flagged = {}
  /\ work = [t \in Tasks |-> NoWork]
  /\ made = [p \in Proposals |-> NoPayload]
  /\ deserted = {}
  /\ pc = [r \in Requests |-> "idle"]
  /\ about = [r \in Requests |-> 0]
  /\ data = [r \in Requests |-> NoPayload]
  /\ accepting = [r \in Requests |-> FALSE]
  /\ readOriginal = [r \in Requests |-> NoPayload]
  /\ changes = [r \in Requests |-> {}]
  /\ known = [r \in Requests |-> {}]

Goto(r, label) == pc' = [pc EXCEPT ![r] = label]

(* The request ends: its memory is gone.                                   *)
End(r) ==
  /\ Goto(r, "idle")
  /\ about' = [about EXCEPT ![r] = 0]
  /\ data' = [data EXCEPT ![r] = NoPayload]
  /\ accepting' = [accepting EXCEPT ![r] = FALSE]
  /\ readOriginal' = [readOriginal EXCEPT ![r] = NoPayload]
  /\ changes' = [changes EXCEPT ![r] = {}]
  /\ known' = [known EXCEPT ![r] = {}]

Exists(p) == run[p] # "none"

--------------------------------------------------------------------------------
(* Interpretation of a source: what the model drafts and what is kept.     *)

(* A drafted proposal: is its due date absent, stated in the source or     *)
(* invented; is it nobody's, the user's or another's; did the model ask    *)
(* for a confirmation.                                                     *)
Drafts == [work : Works, due : {"none", "stated", "invented"},
           owner : {"nobody", "user", "other"}, asks : BOOLEAN]

(* date_is_literally_supported: the date stands in the text, with the same *)
(* year or none.                                                           *)
Supported(draft) == draft.due = "stated"

(* A date the source does not state is removed, and is to be confirmed.    *)
WithoutUnsupportedDate(draft) ==
  IF draft.due = "none" \/ Supported(draft) THEN draft
  ELSE [draft EXCEPT !.due = "none", !.asks = TRUE]

(* From a transcript the user's own tasks and nobody's are kept, or all    *)
(* when none is the user's; a missing owner or date is to be confirmed.    *)
Relevant(drafts) ==
  LET of(owner) == SelectSeq(drafts, LAMBDA d : d.owner = owner)
  IN  IF of("user") # <<>> THEN of("user") \o of("nobody") ELSE drafts

Asks(draft, transcript) ==
  draft.asks \/ (transcript /\ (draft.due = "none" \/ draft.owner = "nobody"))

(* generate: the batch of payloads that a list of drafts becomes.          *)
Interpreted(drafts, transcript) ==
  LET dated == [i \in DOMAIN drafts |-> WithoutUnsupportedDate(drafts[i])]
      chosen == IF transcript THEN Relevant(dated) ELSE dated
  IN  [i \in DOMAIN chosen |->
         [work |-> chosen[i].work, unsure |-> Asks(chosen[i], transcript)]]

(* Every batch of payloads that some answer of the model leads to.         *)
Answers == UNION {[1..n -> Drafts] : n \in 1..MaxDrafts}

Batches ==
  {batch \in UNION {[1..n -> Payloads] : n \in 1..MaxDrafts} :
     \E drafts \in Answers, transcript \in BOOLEAN : batch = Interpreted(drafts, transcript)}

--------------------------------------------------------------------------------
(* Capture.                                                                *)

(* text_similarity at or above POSSIBLE_DUPLICATE_THRESHOLD.               *)
Similar(w, v) == <<w, v>> \in Alike

PossibleDuplicate(w, candidates) == \E v \in candidates : Similar(w, v)

(* Mutant: tasks that do not exist are candidates too.                     *)
MutantTaskWorks == {work[t] : t \in Tasks}

(* The two queries of _duplicate_candidates.                               *)
TaskWorks == {work[t] : t \in Tasks} \ {NoWork}

PendingWorks == {payload[p].work : p \in {q \in Proposals : Exists(q) /\ approval[q] = "PENDING"}}

CaptureReadsTasks(r) ==
  /\ pc[r] = "idle" /\ \E p \in Proposals : ~Exists(p)
  /\ known' = [known EXCEPT ![r] = TaskWorks]
  /\ Goto(r, "capturing")
  /\ UNCHANGED <<rows, history, edits>>

CaptureReadsProposals(r) ==
  /\ pc[r] = "capturing"
  /\ known' = [known EXCEPT ![r] = @ \cup PendingWorks]
  /\ Goto(r, "comparing")
  /\ UNCHANGED <<rows, history, edits>>

(* One commit inserts every proposal of the batch, up to AWAITING_APPROVAL;*)
(* each is compared with what was read and with the batch's earlier ones.  *)
CaptureEnds(r, batch) ==
  LET first == Cardinality({p \in Proposals : Exists(p)})
      new == {first + i : i \in DOMAIN batch}
      entry(p) == batch[p - first]
      earlier(p) == {entry(q).work : q \in {n \in new : n < p}}
  IN  /\ pc[r] = "comparing" /\ new \subseteq Proposals
      /\ run' = [p \in Proposals |-> IF p \in new THEN "AWAITING_APPROVAL" ELSE run[p]]
      /\ payload' = [p \in Proposals |-> IF p \in new THEN entry(p) ELSE payload[p]]
      /\ original' = [p \in Proposals |-> IF p \in new THEN entry(p) ELSE original[p]]
      /\ flagged' = flagged \cup
           {p \in new : PossibleDuplicate(entry(p).work, known[r] \cup earlier(p))}
      /\ End(r)
      /\ UNCHANGED <<action, approval, approved, work, history>>

--------------------------------------------------------------------------------
(* Edit, alone or as the first part of accept.                             *)

(* The approval is read and judged without a lock.                         *)
EditReadsApproval(r, p, sent, accept) ==
  /\ pc[r] = "idle" /\ Exists(p) /\ approval[p] = "PENDING"
  /\ accept => ~sent.unsure
  /\ about' = [about EXCEPT ![r] = p]
  /\ data' = [data EXCEPT ![r] = sent]
  /\ accepting' = [accepting EXCEPT ![r] = accept]
  /\ readOriginal' = [readOriginal EXCEPT ![r] = original[p]]
  /\ Goto(r, "reading")
  /\ UNCHANGED <<rows, history, changes, known>>

(* A second SELECT reads the action.                                       *)
EditReadsAction(r) ==
  /\ pc[r] = "reading"
  /\ changes' = [changes EXCEPT ![r] =
       (IF payload[about[r]] # data[r] THEN {"payload"} ELSE {})
       \cup (IF action[about[r]] # "EDITED" THEN {"status"} ELSE {})]
  /\ Goto(r, "editing")
  /\ UNCHANGED <<rows, history, about, data, accepting, readOriginal, known>>

(* What a commit leaves in original_payload: the guard on resolved         *)
(* approvals looks at the status in memory, which is still PENDING.        *)
EditedOriginal(r) ==
  IF data[r] = readOriginal[r] THEN original[about[r]] ELSE data[r]

EditEnds(r) ==
  LET p == about[r]
  IN  /\ pc[r] = "editing"
      /\ payload' = IF "payload" \in changes[r] THEN [payload EXCEPT ![p] = data[r]] ELSE payload
      /\ action' = IF "status" \in changes[r] THEN [action EXCEPT ![p] = "EDITED"] ELSE action
      /\ original' = [original EXCEPT ![p] = EditedOriginal(r)]
      /\ IF accepting[r]
         THEN /\ Goto(r, "resolving")
              /\ UNCHANGED <<edits, known>>
         ELSE End(r)
      /\ UNCHANGED <<run, approval, approved, flagged, work, history>>

--------------------------------------------------------------------------------
(* The decision: resolve, under the run's lock, the approval read again.   *)

Resolvable(p) == approval[p] = "PENDING" /\ run[p] = "AWAITING_APPROVAL"

(* The payload sent is compared with the original; the action's copy is    *)
(* the one this request has just written.                                  *)
AcceptResolves(r) ==
  LET p == about[r]
  IN  /\ pc[r] = "resolving"
      /\ Resolvable(p) /\ original[p] = data[r]
      /\ approval' = [approval EXCEPT ![p] = "APPROVED"]
      /\ approved' = [approved EXCEPT ![p] = data[r]]
      /\ action' = [action EXCEPT ![p] = "APPROVED"]
      /\ run' = [run EXCEPT ![p] = "APPROVED"]
      /\ Goto(r, "starting")
      /\ UNCHANGED <<payload, original, flagged, work, history, edits, known>>

AcceptRefused(r) ==
  /\ pc[r] = "resolving"
  /\ ~(Resolvable(about[r]) /\ original[about[r]] = data[r])
  /\ End(r)
  /\ UNCHANGED <<rows, history>>

(* The general approval route: no request executes the task.               *)
ApproveOnly(p) ==
  /\ Exists(p) /\ Resolvable(p)
  /\ action[p] \in {"PROPOSED", "EDITED"} /\ payload[p] = original[p]
  /\ approval' = [approval EXCEPT ![p] = "APPROVED"]
  /\ approved' = [approved EXCEPT ![p] = original[p]]
  /\ action' = [action EXCEPT ![p] = "APPROVED"]
  /\ run' = [run EXCEPT ![p] = "APPROVED"]
  /\ deserted' = deserted \cup {p}
  /\ UNCHANGED <<payload, original, flagged, work, made, pc, edits, known>>

Reject(p) ==
  /\ Exists(p) /\ Resolvable(p) /\ action[p] \in {"PROPOSED", "EDITED"}
  /\ approval' = [approval EXCEPT ![p] = "REJECTED"]
  /\ action' = [action EXCEPT ![p] = "REJECTED"]
  /\ run' = [run EXCEPT ![p] = "REJECTED"]
  /\ UNCHANGED <<payload, original, approved, flagged, work, history, pc, edits, known>>

(* No execution id is stored before the end, so the runtime is not asked.  *)
Cancel(p) ==
  /\ Exists(p) /\ CanTransition(run[p], "CANCELLED")
  /\ run' = [run EXCEPT ![p] = "CANCELLED"]
  /\ UNCHANGED <<action, payload, approval, original, approved, flagged, work, history, pc, edits, known>>

--------------------------------------------------------------------------------
(* Execution, the last part of accept.                                     *)

(* Mutant: the action is judged too, and a late edit has changed it.       *)
MutantStartable(p) == run[p] = "APPROVED" /\ action[p] = "APPROVED"

Startable(p) == run[p] = "APPROVED" /\ approval[p] = "APPROVED"

(* The commit that queues the run gives up its lock.                       *)
Start(r) ==
  LET p == about[r]
  IN  /\ pc[r] = "starting" /\ Startable(p)
      /\ run' = [run EXCEPT ![p] = "QUEUED"]
      /\ action' = [action EXCEPT ![p] = "QUEUED"]
      /\ Goto(r, "submitting")
      /\ UNCHANGED <<payload, approval, original, approved, flagged, work, history, edits, known>>

StartRefused(r) ==
  /\ pc[r] = "starting" /\ ~Startable(about[r])
  /\ End(r)
  /\ UNCHANGED <<rows, history>>

(* Mutant: the task is made from the proposal as it now stands.            *)
MutantContent(p) == payload[p]

Content(p) == approved[p]

MaySubmit(p) == CanTransition(run[p], "EXECUTING")

(* One transaction from EXECUTING to the end.                              *)
Succeeds(r) ==
  LET p == about[r]
  IN  /\ pc[r] = "submitting" /\ MaySubmit(p)
      /\ work' = [work EXCEPT ![p] = Content(p).work]
      /\ made' = [made EXCEPT ![p] = Content(p)]
      /\ action' = [action EXCEPT ![p] = "COMPLETED"]
      /\ run' = [run EXCEPT ![p] = "COMPLETED"]
      /\ End(r)
      /\ UNCHANGED <<payload, approval, original, approved, flagged, deserted>>

(* Failed, or still not finished after the last poll.                      *)
Fails(r) ==
  LET p == about[r]
  IN  /\ pc[r] = "submitting" /\ MaySubmit(p)
      /\ action' = [action EXCEPT ![p] = "FAILED"]
      /\ run' = [run EXCEPT ![p] = "FAILED"]
      /\ End(r)
      /\ UNCHANGED <<payload, approval, original, approved, flagged, work, history>>

SubmitRefused(r) ==
  /\ pc[r] = "submitting" /\ ~MaySubmit(about[r])
  /\ End(r)
  /\ UNCHANGED <<rows, history>>

(* An exception (a submission without an answer, a failed interpretation)  *)
(* or the end of the worker: what is not committed is lost.                *)
Aborts(r) ==
  /\ pc[r] # "idle"
  /\ deserted' = IF pc[r] \in {"starting", "submitting"} THEN deserted \cup {about[r]} ELSE deserted
  /\ End(r)
  /\ UNCHANGED <<rows, made>>

--------------------------------------------------------------------------------
(* Tasks.                                                                  *)

CreateManual(t, w) ==
  /\ work[t] = NoWork
  /\ work' = [work EXCEPT ![t] = w]
  /\ UNCHANGED <<decisions, flagged, history, pc, edits, known>>

UpdateTask(t, w) ==
  /\ work[t] # NoWork
  /\ work' = [work EXCEPT ![t] = w]
  /\ UNCHANGED <<decisions, flagged, history, pc, edits, known>>

DeleteTask(t) ==
  /\ work[t] # NoWork
  /\ work' = [work EXCEPT ![t] = NoWork]
  /\ UNCHANGED <<decisions, flagged, history, pc, edits, known>>

--------------------------------------------------------------------------------
Next ==
  \/ \E r \in Requests : CaptureReadsTasks(r)
  \/ \E r \in Requests : CaptureReadsProposals(r)
  \/ \E r \in Requests, batch \in Batches : CaptureEnds(r, batch)
  \/ \E r \in Requests, p \in Proposals, sent \in Payloads, accept \in BOOLEAN :
       EditReadsApproval(r, p, sent, accept)
  \/ \E r \in Requests : EditReadsAction(r)
  \/ \E r \in Requests : EditEnds(r)
  \/ \E r \in Requests : AcceptResolves(r)
  \/ \E r \in Requests : AcceptRefused(r)
  \/ \E p \in Proposals : ApproveOnly(p)
  \/ \E p \in Proposals : Reject(p)
  \/ \E p \in Proposals : Cancel(p)
  \/ \E r \in Requests : Start(r)
  \/ \E r \in Requests : StartRefused(r)
  \/ \E r \in Requests : Succeeds(r)
  \/ \E r \in Requests : Fails(r)
  \/ \E r \in Requests : SubmitRefused(r)
  \/ \E r \in Requests : Aborts(r)
  \/ \E t \in Manual, w \in Works : CreateManual(t, w)
  \/ \E t \in Tasks, w \in Works : UpdateTask(t, w)
  \/ \E t \in Tasks : DeleteTask(t)

Spec == Init /\ [][Next]_vars

--------------------------------------------------------------------------------
(* Every variable holds a value of its type.                               *)
TypeOK ==
  /\ run \in [Proposals -> WorkflowStatus \cup {"none"}]
  /\ action \in [Proposals -> ActionStatus]
  /\ approval \in [Proposals -> ApprovalStatus]
  /\ \A p \in Proposals : Exists(p) => {payload[p], original[p]} \subseteq Payloads
  /\ {approved[p] : p \in Proposals} \cup {made[p] : p \in Proposals} \subseteq Payloads \cup {NoPayload}
  /\ flagged \cup deserted \subseteq {p \in Proposals : Exists(p)}
  /\ work \in [Tasks -> Works \cup {NoWork}]
  /\ pc \in [Requests -> {"idle", "capturing", "comparing", "reading", "editing",
                          "resolving", "starting", "submitting"}]
  /\ about \in [Requests -> Proposals \cup {0}]
  /\ \A r \in Requests : pc[r] \notin {"idle", "capturing", "comparing"} => data[r] \in Payloads
  /\ accepting \in [Requests -> BOOLEAN]
  /\ changes \in [Requests -> SUBSET {"payload", "status"}]
  /\ known \in [Requests -> SUBSET Works]

(* A proposal becomes a task exactly when its run completes, and the task  *)
(* is made from the payload that was approved and needed no confirmation,  *)
(* although edits that began before the approval still rewrite the         *)
(* proposal until, and after, the task exists.                             *)
TasksAreAccepted ==
  \A p \in Proposals :
    /\ made[p] # NoPayload <=> run[p] = "COMPLETED"
    /\ made[p] # NoPayload =>
         approval[p] = "APPROVED" /\ made[p] = approved[p] /\ ~made[p].unsure

(* An approved proposal that is not yet a task is always in the hands of a *)
(* request that goes on to execute it, unless that request was lost, or    *)
(* the approval came by the route that executes nothing: no edit, cancel   *)
(* or second accept strands it.                                            *)
OnlyLossStrands ==
  \A p \in Proposals : run[p] \in {"APPROVED", "QUEUED"} =>
    \/ p \in deserted
    \/ \E r \in Requests : about[r] = p /\ pc[r] \in {"starting", "submitting"}

--------------------------------------------------------------------------------
(* Claims of the documentation that the code does not keep.                *)

(* "ORM safeguards for append-only audit and resolved approval records"    *)
(* (models/guards.py): a decided approval keeps the payload it was asked   *)
(* to approve.                                                             *)
DecidedRecordsStay ==
  [][\A p \in Proposals : approval[p] # "PENDING" => original'[p] = original[p]]_vars

================================================================================
