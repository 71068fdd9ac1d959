------------------------- MODULE TaskProposals_proofs --------------------------
(***************************************************************************)
(* Proofs about TaskProposals for any number of proposals, any drafts of   *)
(* the model, any tasks and any set of concurrent requests.                *)
(***************************************************************************)
EXTENDS TaskProposals, FiniteSetTheorems, TLAPS

(* Requests that hold a proposal, and those that are to execute it.        *)
Executing == {"starting", "submitting"}
AtWork == {"reading", "editing", "resolving"} \cup Executing

(* Payloads are only ever payloads, also where nothing reads them.         *)
PayloadsTyped ==
  /\ payload \in [Proposals -> Payloads \cup {NoPayload}]
  /\ original \in [Proposals -> Payloads \cup {NoPayload}]
  /\ approved \in [Proposals -> Payloads \cup {NoPayload}]
  /\ made \in [Proposals -> Payloads \cup {NoPayload}]
  /\ data \in [Requests -> Payloads \cup {NoPayload}]
  /\ readOriginal \in [Requests -> Payloads \cup {NoPayload}]

(* Proposals are numbered in the order of their rows, so that a new batch  *)
(* takes numbers nobody has.                                               *)
Numbered == \E n \in 0..MaxProposals : \A p \in Proposals : Exists(p) <=> p <= n

(* What a request knows of the proposal it is about: it exists, the        *)
(* payload to accept needs no confirmation, and from the decision on the   *)
(* approved payload is the one this request sent; its run is as the        *)
(* request left it, unless somebody has cancelled it.                      *)
HandsFit ==
  \A r \in Requests :
    /\ pc[r] \in AtWork => about[r] \in Proposals /\ Exists(about[r]) /\ data[r] \in Payloads
    /\ accepting[r] => ~data[r].unsure
    /\ pc[r] \in {"resolving"} \cup Executing => accepting[r]
    /\ pc[r] \in Executing =>
         approval[about[r]] = "APPROVED" /\ approved[about[r]] = data[r]
    /\ pc[r] = "starting" => run[about[r]] \in {"APPROVED", "CANCELLED"}
    /\ pc[r] = "submitting" => run[about[r]] \in {"QUEUED", "CANCELLED"}

(* No two requests execute the same proposal.                              *)
OneHand ==
  \A r, t \in Requests :
    pc[r] \in Executing /\ pc[t] \in Executing /\ about[r] = about[t] => r = t

IInv ==
  /\ TypeOK
  /\ PayloadsTyped
  /\ Numbered
  /\ HandsFit
  /\ OneHand
  /\ TasksAreAccepted
  /\ OnlyLossStrands

(* Everything a step may change.                                           *)
Step ==
  \/ \E r \in Requests : CaptureReadsTasks(r) \/ CaptureReadsProposals(r)
  \/ \E r \in Requests, batch \in Batches : CaptureEnds(r, batch)
  \/ \E r \in Requests, p \in Proposals, sent \in Payloads, accept \in BOOLEAN :
       EditReadsApproval(r, p, sent, accept)
  \/ \E r \in Requests : EditReadsAction(r) \/ EditEnds(r)
  \/ \E r \in Requests : AcceptResolves(r) \/ AcceptRefused(r)
  \/ \E p \in Proposals : ApproveOnly(p) \/ Reject(p) \/ Cancel(p)
  \/ \E r \in Requests : Start(r) \/ StartRefused(r)
  \/ \E r \in Requests : Succeeds(r) \/ Fails(r) \/ SubmitRefused(r)
  \/ \E r \in Requests : Aborts(r)
  \/ \E t \in Tasks : (\E w \in Works : CreateManual(t, w) \/ UpdateTask(t, w)) \/ DeleteTask(t)

LEMMA NextIsStep == Next => Step
  BY DEF Next, Step, Tasks

--------------------------------------------------------------------------------
(* Facts about payloads, numbers and the table of transitions.             *)

LEMMA NoPayloadIsNone == NoPayload \notin Payloads /\ NoPayload.unsure = FALSE
  BY ProposalsAssumption DEF NoPayload, Payloads

LEMMA BatchIsOfPayloads ==
  ASSUME NEW batch \in Batches
  PROVE  \E n \in Nat : batch \in [1..n -> Payloads]
  BY ProposalsAssumption DEF Batches

(* The number of proposals is the last number in use.                      *)
LEMMA CountIsLast ==
  ASSUME NEW n \in 0..MaxProposals, \A p \in Proposals : Exists(p) <=> p <= n
  PROVE  Cardinality({p \in Proposals : Exists(p)}) = n
<1>1. {p \in Proposals : Exists(p)} = 1..n
  BY ProposalsAssumption DEF Proposals
<1>2. n \in Int /\ 1 \in Int /\ (n < 1 => n = 0)
  OBVIOUS
<1>3. Cardinality(1..n) = IF 1 > n THEN 0 ELSE n - 1 + 1
  BY <1>2, FS_Interval
<1>4. Cardinality(1..n) = n
  BY <1>2, <1>3
<1> QED
  BY <1>1, <1>4, Zenon

LEMMA CancelTransitions ==
  ASSUME NEW p, CanTransition(run[p], "CANCELLED")
  PROVE  run[p] \notin {"COMPLETED", "none"}
  BY DEF CanTransition, Transitions

LEMMA ExecutingTransitions ==
  ASSUME NEW p
  PROVE  MaySubmit(p) <=> run[p] = "QUEUED"
  BY DEF MaySubmit, CanTransition, Transitions

--------------------------------------------------------------------------------
LEMMA InvariantInit == Init => IInv
<1> SUFFICES ASSUME Init PROVE IInv
  OBVIOUS
<1> USE NoPayloadIsNone, ProposalsAssumption DEF Init, Exists
<1>1. TypeOK
  BY DEF TypeOK, WorkflowStatus, ActionStatus, ApprovalStatus
<1>2. PayloadsTyped
  BY DEF PayloadsTyped
<1>3. Numbered
  <2>1. \A p \in Proposals : ~Exists(p) /\ ~(p <= 0)
    BY DEF Proposals
  <2> QED
    BY <2>1, 0 \in 0..MaxProposals DEF Numbered
<1>4. HandsFit /\ OneHand
  BY DEF HandsFit, OneHand, AtWork, Executing
<1>5. TasksAreAccepted /\ OnlyLossStrands
  BY DEF TasksAreAccepted, OnlyLossStrands
<1> QED
  BY <1>1, <1>2, <1>3, <1>4, <1>5 DEF IInv

--------------------------------------------------------------------------------
(* Each action keeps the inductive invariant.                              *)

LEMMA CaptureReadsTasksKeepsInvariant ==
  ASSUME IInv, NEW r \in Requests, CaptureReadsTasks(r)
  PROVE  IInv'
<1> USE NoPayloadIsNone, ProposalsAssumption
    DEF IInv, Goto, rows, decisions, history, edits,
        CaptureReadsTasks, TaskWorks
<1>1. TypeOK'
  BY DEF TypeOK, PayloadsTyped, HandsFit, AtWork, Executing, Exists, WorkflowStatus,
         ActionStatus, ApprovalStatus
<1>2. PayloadsTyped'
  BY DEF TypeOK, PayloadsTyped, HandsFit, AtWork, Executing, Exists
<1>3. Numbered'
  BY DEF TypeOK, HandsFit, AtWork, Executing, Numbered, Exists
<1>4. HandsFit'
  BY DEF TypeOK, PayloadsTyped, HandsFit, OneHand, AtWork, Executing, Exists
<1>5. OneHand'
  BY DEF TypeOK, HandsFit, OneHand, Executing, AtWork
<1>6. TasksAreAccepted'
  BY DEF TypeOK, PayloadsTyped, HandsFit, AtWork, Executing, TasksAreAccepted
<1>7. OnlyLossStrands'
  BY DEF TypeOK, HandsFit, OneHand, AtWork, Executing, OnlyLossStrands
<1> QED
  BY <1>1, <1>2, <1>3, <1>4, <1>5, <1>6, <1>7

LEMMA CaptureReadsProposalsKeepsInvariant ==
  ASSUME IInv, NEW r \in Requests, CaptureReadsProposals(r)
  PROVE  IInv'
<1> USE NoPayloadIsNone, ProposalsAssumption
    DEF IInv, Goto, rows, decisions, history, edits,
        CaptureReadsProposals, PendingWorks, Payloads
<1>1. TypeOK'
  BY DEF TypeOK, PayloadsTyped, HandsFit, AtWork, Executing, Exists, WorkflowStatus,
         ActionStatus, ApprovalStatus
<1>2. PayloadsTyped'
  BY DEF TypeOK, PayloadsTyped, HandsFit, AtWork, Executing, Exists
<1>3. Numbered'
  BY DEF TypeOK, HandsFit, AtWork, Executing, Numbered, Exists
<1>4. HandsFit'
  BY DEF TypeOK, PayloadsTyped, HandsFit, OneHand, AtWork, Executing, Exists
<1>5. OneHand'
  BY DEF TypeOK, HandsFit, OneHand, Executing, AtWork
<1>6. TasksAreAccepted'
  BY DEF TypeOK, PayloadsTyped, HandsFit, AtWork, Executing, TasksAreAccepted
<1>7. OnlyLossStrands'
  BY DEF TypeOK, HandsFit, OneHand, AtWork, Executing, OnlyLossStrands
<1> QED
  BY <1>1, <1>2, <1>3, <1>4, <1>5, <1>6, <1>7

LEMMA EditReadsApprovalKeepsInvariant ==
  ASSUME IInv, NEW r \in Requests, NEW p \in Proposals, NEW sent \in Payloads,
         NEW accept \in BOOLEAN, EditReadsApproval(r, p, sent, accept)
  PROVE  IInv'
<1> USE NoPayloadIsNone, ProposalsAssumption
    DEF IInv, Goto, rows, decisions, history, edits,
        EditReadsApproval
<1>1. TypeOK'
  BY DEF TypeOK, PayloadsTyped, HandsFit, AtWork, Executing, Exists, WorkflowStatus,
         ActionStatus, ApprovalStatus
<1>2. PayloadsTyped'
  BY DEF TypeOK, PayloadsTyped, HandsFit, AtWork, Executing, Exists
<1>3. Numbered'
  BY DEF TypeOK, HandsFit, AtWork, Executing, Numbered, Exists
<1>4. HandsFit'
  BY DEF TypeOK, PayloadsTyped, HandsFit, OneHand, AtWork, Executing, Exists
<1>5. OneHand'
  BY DEF TypeOK, HandsFit, OneHand, Executing, AtWork
<1>6. TasksAreAccepted'
  BY DEF TypeOK, PayloadsTyped, HandsFit, AtWork, Executing, TasksAreAccepted
<1>7. OnlyLossStrands'
  BY DEF TypeOK, HandsFit, OneHand, AtWork, Executing, OnlyLossStrands
<1> QED
  BY <1>1, <1>2, <1>3, <1>4, <1>5, <1>6, <1>7

LEMMA EditReadsActionKeepsInvariant ==
  ASSUME IInv, NEW r \in Requests, EditReadsAction(r)
  PROVE  IInv'
<1> USE NoPayloadIsNone, ProposalsAssumption
    DEF IInv, Goto, rows, decisions, history, edits,
        EditReadsAction
<1>1. TypeOK'
  BY DEF TypeOK, PayloadsTyped, HandsFit, AtWork, Executing, Exists, WorkflowStatus,
         ActionStatus, ApprovalStatus
<1>2. PayloadsTyped'
  BY DEF TypeOK, PayloadsTyped, HandsFit, AtWork, Executing, Exists
<1>3. Numbered'
  BY DEF TypeOK, HandsFit, AtWork, Executing, Numbered, Exists
<1>4. HandsFit'
  BY DEF TypeOK, PayloadsTyped, HandsFit, OneHand, AtWork, Executing, Exists
<1>5. OneHand'
  BY DEF TypeOK, HandsFit, OneHand, Executing, AtWork
<1>6. TasksAreAccepted'
  BY DEF TypeOK, PayloadsTyped, HandsFit, AtWork, Executing, TasksAreAccepted
<1>7. OnlyLossStrands'
  BY DEF TypeOK, HandsFit, OneHand, AtWork, Executing, OnlyLossStrands
<1> QED
  BY <1>1, <1>2, <1>3, <1>4, <1>5, <1>6, <1>7

LEMMA EditEndsKeepsInvariant ==
  ASSUME IInv, NEW r \in Requests, EditEnds(r)
  PROVE  IInv'
<1> USE NoPayloadIsNone, ProposalsAssumption
    DEF IInv, Goto, rows, decisions, history, edits,
        EditEnds, EditedOriginal, End
<1>1. TypeOK'
  <2> USE DEF TypeOK, HandsFit, AtWork, Executing, Exists
  <2>1. about[r] \in Proposals /\ data[r] \in Payloads /\ run[about[r]] # "none"
    OBVIOUS
  <2>2. /\ action' \in [Proposals -> ActionStatus]
        /\ \A p \in Proposals : run[p] # "none" => payload'[p] \in Payloads
    BY <2>1 DEF PayloadsTyped, ActionStatus
  <2>3. \A p \in Proposals : run[p] # "none" => original'[p] \in Payloads
    BY <2>1 DEF PayloadsTyped
  <2>4. /\ pc' \in [Requests -> {"idle", "capturing", "comparing", "reading", "editing",
                                 "resolving", "starting", "submitting"}]
        /\ about' \in [Requests -> Proposals \cup {0}]
    OBVIOUS
  <2>6. /\ accepting' \in [Requests -> BOOLEAN]
        /\ known' \in [Requests -> SUBSET Works]
    <3>1. CASE accepting[r]
      BY <3>1
    <3>2. CASE ~accepting[r]
      <4>1. accepting' = [accepting EXCEPT ![r] = FALSE]
        BY <3>2
      <4>2. known' = [known EXCEPT ![r] = {}]
        BY <3>2
      <4>3. FALSE \in BOOLEAN
        OBVIOUS
      <4> QED
        BY <4>1, <4>2, <4>3
    <3> QED
      BY <3>1, <3>2
  <2>7. changes' \in [Requests -> SUBSET {"payload", "status"}]
    OBVIOUS
  <2>5. \A t \in Requests :
          pc'[t] \notin {"idle", "capturing", "comparing"} => data'[t] \in Payloads
    BY DEF PayloadsTyped
  <2> QED
    BY <2>1, <2>2, <2>3, <2>4, <2>5, <2>6, <2>7 DEF PayloadsTyped
<1>2. PayloadsTyped'
  BY DEF TypeOK, PayloadsTyped, HandsFit, AtWork, Executing, Exists
<1>3. Numbered'
  BY DEF TypeOK, HandsFit, AtWork, Executing, Numbered, Exists
<1>4. HandsFit'
  BY DEF TypeOK, PayloadsTyped, HandsFit, OneHand, AtWork, Executing, Exists
<1>5. OneHand'
  BY DEF TypeOK, HandsFit, OneHand, Executing, AtWork
<1>6. TasksAreAccepted'
  BY DEF TypeOK, PayloadsTyped, HandsFit, AtWork, Executing, TasksAreAccepted
<1>7. OnlyLossStrands'
  BY DEF TypeOK, HandsFit, OneHand, AtWork, Executing, OnlyLossStrands
<1> QED
  BY <1>1, <1>2, <1>3, <1>4, <1>5, <1>6, <1>7

LEMMA AcceptResolvesKeepsInvariant ==
  ASSUME IInv, NEW r \in Requests, AcceptResolves(r)
  PROVE  IInv'
<1> USE NoPayloadIsNone, ProposalsAssumption
    DEF IInv, Goto, rows, decisions, history, edits,
        AcceptResolves, Resolvable
<1>1. TypeOK'
  BY DEF TypeOK, PayloadsTyped, HandsFit, AtWork, Executing, Exists, WorkflowStatus,
         ActionStatus, ApprovalStatus
<1>2. PayloadsTyped'
  BY DEF TypeOK, PayloadsTyped, HandsFit, AtWork, Executing, Exists
<1>3. Numbered'
  BY DEF TypeOK, HandsFit, AtWork, Executing, Numbered, Exists
<1>4. HandsFit'
  BY DEF TypeOK, PayloadsTyped, HandsFit, OneHand, AtWork, Executing, Exists
<1>5. OneHand'
  BY DEF TypeOK, HandsFit, OneHand, Executing, AtWork
<1>6. TasksAreAccepted'
  BY DEF TypeOK, PayloadsTyped, HandsFit, AtWork, Executing, TasksAreAccepted
<1>7. OnlyLossStrands'
  BY DEF TypeOK, HandsFit, OneHand, AtWork, Executing, OnlyLossStrands
<1> QED
  BY <1>1, <1>2, <1>3, <1>4, <1>5, <1>6, <1>7

LEMMA AcceptRefusedKeepsInvariant ==
  ASSUME IInv, NEW r \in Requests, AcceptRefused(r)
  PROVE  IInv'
<1> USE NoPayloadIsNone, ProposalsAssumption
    DEF IInv, Goto, rows, decisions, history, edits,
        AcceptRefused, End
<1>1. TypeOK'
  BY DEF TypeOK, PayloadsTyped, HandsFit, AtWork, Executing, Exists, WorkflowStatus,
         ActionStatus, ApprovalStatus
<1>2. PayloadsTyped'
  BY DEF TypeOK, PayloadsTyped, HandsFit, AtWork, Executing, Exists
<1>3. Numbered'
  BY DEF TypeOK, HandsFit, AtWork, Executing, Numbered, Exists
<1>4. HandsFit'
  BY DEF TypeOK, PayloadsTyped, HandsFit, OneHand, AtWork, Executing, Exists
<1>5. OneHand'
  BY DEF TypeOK, HandsFit, OneHand, Executing, AtWork
<1>6. TasksAreAccepted'
  BY DEF TypeOK, PayloadsTyped, HandsFit, AtWork, Executing, TasksAreAccepted
<1>7. OnlyLossStrands'
  BY DEF TypeOK, HandsFit, OneHand, AtWork, Executing, OnlyLossStrands
<1> QED
  BY <1>1, <1>2, <1>3, <1>4, <1>5, <1>6, <1>7

LEMMA ApproveOnlyKeepsInvariant ==
  ASSUME IInv, NEW p \in Proposals, ApproveOnly(p)
  PROVE  IInv'
<1> USE NoPayloadIsNone, ProposalsAssumption
    DEF IInv, Goto, rows, decisions, history, edits,
        ApproveOnly, Resolvable
<1>1. TypeOK'
  BY DEF TypeOK, PayloadsTyped, HandsFit, AtWork, Executing, Exists, WorkflowStatus,
         ActionStatus, ApprovalStatus
<1>2. PayloadsTyped'
  BY DEF TypeOK, PayloadsTyped, HandsFit, AtWork, Executing, Exists
<1>3. Numbered'
  BY DEF TypeOK, HandsFit, AtWork, Executing, Numbered, Exists
<1>4. HandsFit'
  BY DEF TypeOK, PayloadsTyped, HandsFit, OneHand, AtWork, Executing, Exists
<1>5. OneHand'
  BY DEF TypeOK, HandsFit, OneHand, Executing, AtWork
<1>6. TasksAreAccepted'
  BY DEF TypeOK, PayloadsTyped, HandsFit, AtWork, Executing, TasksAreAccepted
<1>7. OnlyLossStrands'
  BY DEF TypeOK, HandsFit, OneHand, AtWork, Executing, OnlyLossStrands
<1> QED
  BY <1>1, <1>2, <1>3, <1>4, <1>5, <1>6, <1>7

LEMMA RejectKeepsInvariant ==
  ASSUME IInv, NEW p \in Proposals, Reject(p)
  PROVE  IInv'
<1> USE NoPayloadIsNone, ProposalsAssumption
    DEF IInv, Goto, rows, decisions, history, edits,
        Reject, Resolvable
<1>1. TypeOK'
  BY DEF TypeOK, PayloadsTyped, HandsFit, AtWork, Executing, Exists, WorkflowStatus,
         ActionStatus, ApprovalStatus
<1>2. PayloadsTyped'
  BY DEF TypeOK, PayloadsTyped, HandsFit, AtWork, Executing, Exists
<1>3. Numbered'
  BY DEF TypeOK, HandsFit, AtWork, Executing, Numbered, Exists
<1>4. HandsFit'
  BY DEF TypeOK, PayloadsTyped, HandsFit, OneHand, AtWork, Executing, Exists
<1>5. OneHand'
  BY DEF TypeOK, HandsFit, OneHand, Executing, AtWork
<1>6. TasksAreAccepted'
  BY DEF TypeOK, PayloadsTyped, HandsFit, AtWork, Executing, TasksAreAccepted
<1>7. OnlyLossStrands'
  BY DEF TypeOK, HandsFit, OneHand, AtWork, Executing, OnlyLossStrands
<1> QED
  BY <1>1, <1>2, <1>3, <1>4, <1>5, <1>6, <1>7

LEMMA CancelKeepsInvariant ==
  ASSUME IInv, NEW p \in Proposals, Cancel(p)
  PROVE  IInv'
<1> USE CancelTransitions, NoPayloadIsNone, ProposalsAssumption
    DEF IInv, Goto, rows, decisions, history, edits,
        Cancel
<1>1. TypeOK'
  BY DEF TypeOK, PayloadsTyped, HandsFit, AtWork, Executing, Exists, WorkflowStatus,
         ActionStatus, ApprovalStatus
<1>2. PayloadsTyped'
  BY DEF TypeOK, PayloadsTyped, HandsFit, AtWork, Executing, Exists
<1>3. Numbered'
  BY DEF TypeOK, HandsFit, AtWork, Executing, Numbered, Exists
<1>4. HandsFit'
  BY DEF TypeOK, PayloadsTyped, HandsFit, OneHand, AtWork, Executing, Exists
<1>5. OneHand'
  BY DEF TypeOK, HandsFit, OneHand, Executing, AtWork
<1>6. TasksAreAccepted'
  BY DEF TypeOK, PayloadsTyped, HandsFit, AtWork, Executing, TasksAreAccepted
<1>7. OnlyLossStrands'
  BY DEF TypeOK, HandsFit, OneHand, AtWork, Executing, OnlyLossStrands
<1> QED
  BY <1>1, <1>2, <1>3, <1>4, <1>5, <1>6, <1>7

LEMMA StartKeepsInvariant ==
  ASSUME IInv, NEW r \in Requests, Start(r)
  PROVE  IInv'
<1> USE NoPayloadIsNone, ProposalsAssumption
    DEF IInv, Goto, rows, decisions, history, edits,
        Start, Startable
<1>1. TypeOK'
  BY DEF TypeOK, PayloadsTyped, HandsFit, AtWork, Executing, Exists, WorkflowStatus,
         ActionStatus, ApprovalStatus
<1>2. PayloadsTyped'
  BY DEF TypeOK, PayloadsTyped, HandsFit, AtWork, Executing, Exists
<1>3. Numbered'
  BY DEF TypeOK, HandsFit, AtWork, Executing, Numbered, Exists
<1>4. HandsFit'
  BY DEF TypeOK, PayloadsTyped, HandsFit, OneHand, AtWork, Executing, Exists
<1>5. OneHand'
  BY DEF TypeOK, HandsFit, OneHand, Executing, AtWork
<1>6. TasksAreAccepted'
  BY DEF TypeOK, PayloadsTyped, HandsFit, AtWork, Executing, TasksAreAccepted
<1>7. OnlyLossStrands'
  BY DEF TypeOK, HandsFit, OneHand, AtWork, Executing, OnlyLossStrands
<1> QED
  BY <1>1, <1>2, <1>3, <1>4, <1>5, <1>6, <1>7

LEMMA StartRefusedKeepsInvariant ==
  ASSUME IInv, NEW r \in Requests, StartRefused(r)
  PROVE  IInv'
<1> USE NoPayloadIsNone, ProposalsAssumption
    DEF IInv, Goto, rows, decisions, history, edits,
        StartRefused, Startable, End
<1>1. TypeOK'
  BY DEF TypeOK, PayloadsTyped, HandsFit, AtWork, Executing, Exists, WorkflowStatus,
         ActionStatus, ApprovalStatus
<1>2. PayloadsTyped'
  BY DEF TypeOK, PayloadsTyped, HandsFit, AtWork, Executing, Exists
<1>3. Numbered'
  BY DEF TypeOK, HandsFit, AtWork, Executing, Numbered, Exists
<1>4. HandsFit'
  BY DEF TypeOK, PayloadsTyped, HandsFit, OneHand, AtWork, Executing, Exists
<1>5. OneHand'
  BY DEF TypeOK, HandsFit, OneHand, Executing, AtWork
<1>6. TasksAreAccepted'
  BY DEF TypeOK, PayloadsTyped, HandsFit, AtWork, Executing, TasksAreAccepted
<1>7. OnlyLossStrands'
  BY DEF TypeOK, HandsFit, OneHand, AtWork, Executing, OnlyLossStrands
<1> QED
  BY <1>1, <1>2, <1>3, <1>4, <1>5, <1>6, <1>7

LEMMA SucceedsKeepsInvariant ==
  ASSUME IInv, NEW r \in Requests, Succeeds(r)
  PROVE  IInv'
<1> USE ExecutingTransitions, NoPayloadIsNone, ProposalsAssumption
    DEF IInv, Goto, rows, decisions, history, edits,
        Succeeds, Content, End
<1>1. TypeOK'
  <2> USE DEF TypeOK, HandsFit, AtWork, Executing, Exists
  <2>1. about[r] \in Proposals /\ about[r] \in Tasks /\ approved[about[r]] \in Payloads
    BY DEF Tasks
  <2>2. work' \in [Tasks -> Works \cup {NoWork}]
    BY <2>1 DEF Payloads
  <2>3. /\ run' \in [Proposals -> WorkflowStatus \cup {"none"}]
        /\ action' \in [Proposals -> ActionStatus]
        /\ \A p \in Proposals : run'[p] # "none" => run[p] # "none"
        /\ \A p \in Proposals : run[p] # "none" => run'[p] # "none"
    BY <2>1 DEF WorkflowStatus, ActionStatus
  <2>4. \A p \in Proposals : made'[p] \in Payloads \cup {NoPayload}
    BY <2>1 DEF PayloadsTyped
  <2>5. \A t \in Requests :
          pc'[t] \notin {"idle", "capturing", "comparing"} => data'[t] \in Payloads
    BY DEF PayloadsTyped
  <2> QED
    BY <2>2, <2>3, <2>4, <2>5
<1>2. PayloadsTyped'
  BY DEF TypeOK, PayloadsTyped, HandsFit, AtWork, Executing, Exists
<1>3. Numbered'
  BY DEF TypeOK, HandsFit, AtWork, Executing, Numbered, Exists
<1>4. HandsFit'
  BY DEF TypeOK, PayloadsTyped, HandsFit, OneHand, AtWork, Executing, Exists
<1>5. OneHand'
  BY DEF TypeOK, HandsFit, OneHand, Executing, AtWork
<1>6. TasksAreAccepted'
  BY DEF TypeOK, PayloadsTyped, HandsFit, AtWork, Executing, TasksAreAccepted
<1>7. OnlyLossStrands'
  BY DEF TypeOK, HandsFit, OneHand, AtWork, Executing, OnlyLossStrands
<1> QED
  BY <1>1, <1>2, <1>3, <1>4, <1>5, <1>6, <1>7

LEMMA FailsKeepsInvariant ==
  ASSUME IInv, NEW r \in Requests, Fails(r)
  PROVE  IInv'
<1> USE ExecutingTransitions, NoPayloadIsNone, ProposalsAssumption
    DEF IInv, Goto, rows, decisions, history, edits,
        Fails, End
<1>1. TypeOK'
  BY DEF TypeOK, PayloadsTyped, HandsFit, AtWork, Executing, Exists, WorkflowStatus,
         ActionStatus, ApprovalStatus
<1>2. PayloadsTyped'
  BY DEF TypeOK, PayloadsTyped, HandsFit, AtWork, Executing, Exists
<1>3. Numbered'
  BY DEF TypeOK, HandsFit, AtWork, Executing, Numbered, Exists
<1>4. HandsFit'
  BY DEF TypeOK, PayloadsTyped, HandsFit, OneHand, AtWork, Executing, Exists
<1>5. OneHand'
  BY DEF TypeOK, HandsFit, OneHand, Executing, AtWork
<1>6. TasksAreAccepted'
  BY DEF TypeOK, PayloadsTyped, HandsFit, AtWork, Executing, TasksAreAccepted
<1>7. OnlyLossStrands'
  BY DEF TypeOK, HandsFit, OneHand, AtWork, Executing, OnlyLossStrands
<1> QED
  BY <1>1, <1>2, <1>3, <1>4, <1>5, <1>6, <1>7

LEMMA SubmitRefusedKeepsInvariant ==
  ASSUME IInv, NEW r \in Requests, SubmitRefused(r)
  PROVE  IInv'
<1> USE ExecutingTransitions, NoPayloadIsNone, ProposalsAssumption
    DEF IInv, Goto, rows, decisions, history, edits,
        SubmitRefused, End
<1>1. TypeOK'
  BY DEF TypeOK, PayloadsTyped, HandsFit, AtWork, Executing, Exists, WorkflowStatus,
         ActionStatus, ApprovalStatus
<1>2. PayloadsTyped'
  BY DEF TypeOK, PayloadsTyped, HandsFit, AtWork, Executing, Exists
<1>3. Numbered'
  BY DEF TypeOK, HandsFit, AtWork, Executing, Numbered, Exists
<1>4. HandsFit'
  BY DEF TypeOK, PayloadsTyped, HandsFit, OneHand, AtWork, Executing, Exists
<1>5. OneHand'
  BY DEF TypeOK, HandsFit, OneHand, Executing, AtWork
<1>6. TasksAreAccepted'
  BY DEF TypeOK, PayloadsTyped, HandsFit, AtWork, Executing, TasksAreAccepted
<1>7. OnlyLossStrands'
  BY DEF TypeOK, HandsFit, OneHand, AtWork, Executing, OnlyLossStrands
<1> QED
  BY <1>1, <1>2, <1>3, <1>4, <1>5, <1>6, <1>7

LEMMA AbortsKeepsInvariant ==
  ASSUME IInv, NEW r \in Requests, Aborts(r)
  PROVE  IInv'
<1> USE NoPayloadIsNone, ProposalsAssumption
    DEF IInv, Goto, rows, decisions, history, edits,
        Aborts, End
<1>1. TypeOK'
  BY DEF TypeOK, PayloadsTyped, HandsFit, AtWork, Executing, Exists, WorkflowStatus,
         ActionStatus, ApprovalStatus
<1>2. PayloadsTyped'
  BY DEF TypeOK, PayloadsTyped, HandsFit, AtWork, Executing, Exists
<1>3. Numbered'
  BY DEF TypeOK, HandsFit, AtWork, Executing, Numbered, Exists
<1>4. HandsFit'
  BY DEF TypeOK, PayloadsTyped, HandsFit, OneHand, AtWork, Executing, Exists
<1>5. OneHand'
  BY DEF TypeOK, HandsFit, OneHand, Executing, AtWork
<1>6. TasksAreAccepted'
  BY DEF TypeOK, PayloadsTyped, HandsFit, AtWork, Executing, TasksAreAccepted
<1>7. OnlyLossStrands'
  BY DEF TypeOK, HandsFit, OneHand, AtWork, Executing, OnlyLossStrands
<1> QED
  BY <1>1, <1>2, <1>3, <1>4, <1>5, <1>6, <1>7

LEMMA WriteTaskKeepsInvariant ==
  ASSUME IInv, NEW t \in Tasks, NEW w \in Works,
         CreateManual(t, w) \/ UpdateTask(t, w)
  PROVE  IInv'
<1> USE NoPayloadIsNone, ProposalsAssumption
    DEF IInv, Goto, rows, decisions, history, edits,
        CreateManual, UpdateTask
<1>1. TypeOK'
  BY DEF TypeOK, PayloadsTyped, HandsFit, AtWork, Executing, Exists, WorkflowStatus,
         ActionStatus, ApprovalStatus
<1>2. PayloadsTyped'
  BY DEF TypeOK, PayloadsTyped, HandsFit, AtWork, Executing, Exists
<1>3. Numbered'
  BY DEF TypeOK, HandsFit, AtWork, Executing, Numbered, Exists
<1>4. HandsFit'
  BY DEF TypeOK, PayloadsTyped, HandsFit, OneHand, AtWork, Executing, Exists
<1>5. OneHand'
  BY DEF TypeOK, HandsFit, OneHand, Executing, AtWork
<1>6. TasksAreAccepted'
  BY DEF TypeOK, PayloadsTyped, HandsFit, AtWork, Executing, TasksAreAccepted
<1>7. OnlyLossStrands'
  BY DEF TypeOK, HandsFit, OneHand, AtWork, Executing, OnlyLossStrands
<1> QED
  BY <1>1, <1>2, <1>3, <1>4, <1>5, <1>6, <1>7

LEMMA DeleteTaskKeepsInvariant ==
  ASSUME IInv, NEW t \in Tasks, DeleteTask(t)
  PROVE  IInv'
<1> USE NoPayloadIsNone, ProposalsAssumption
    DEF IInv, Goto, rows, decisions, history, edits,
        DeleteTask
<1>1. TypeOK'
  BY DEF TypeOK, PayloadsTyped, HandsFit, AtWork, Executing, Exists, WorkflowStatus,
         ActionStatus, ApprovalStatus
<1>2. PayloadsTyped'
  BY DEF TypeOK, PayloadsTyped, HandsFit, AtWork, Executing, Exists
<1>3. Numbered'
  BY DEF TypeOK, HandsFit, AtWork, Executing, Numbered, Exists
<1>4. HandsFit'
  BY DEF TypeOK, PayloadsTyped, HandsFit, OneHand, AtWork, Executing, Exists
<1>5. OneHand'
  BY DEF TypeOK, HandsFit, OneHand, Executing, AtWork
<1>6. TasksAreAccepted'
  BY DEF TypeOK, PayloadsTyped, HandsFit, AtWork, Executing, TasksAreAccepted
<1>7. OnlyLossStrands'
  BY DEF TypeOK, HandsFit, OneHand, AtWork, Executing, OnlyLossStrands
<1> QED
  BY <1>1, <1>2, <1>3, <1>4, <1>5, <1>6, <1>7

(* A batch takes the numbers after the last one, which nobody has.         *)
LEMMA CaptureEndsKeepsInvariant ==
  ASSUME IInv, NEW r \in Requests, NEW batch \in Batches, CaptureEnds(r, batch)
  PROVE  IInv'
<1> USE NoPayloadIsNone, ProposalsAssumption DEF IInv
<1>1. PICK n \in 0..MaxProposals : \A p \in Proposals : Exists(p) <=> p <= n
  BY DEF Numbered
<1>2. PICK size \in Nat : batch \in [1..size -> Payloads]
  BY BatchIsOfPayloads
<1> DEFINE new == {n + i : i \in DOMAIN batch}
<1>3. Cardinality({p \in Proposals : Exists(p)}) = n
  BY <1>1, CountIsLast
<1>4. new \subseteq Proposals /\ new = (n + 1)..(n + size)
  <2>1. new \subseteq Proposals
    BY <1>3 DEF CaptureEnds
  <2>2. \A j \in (n + 1)..(n + size) : j - n \in 1..size /\ j = n + (j - n)
    BY <1>1, <1>2
  <2>3. \A i \in 1..size : n + i \in (n + 1)..(n + size)
    BY <1>1, <1>2
  <2> QED
    BY <1>2, <2>1, <2>2, <2>3
<1>5. \A p \in new : ~Exists(p) /\ batch[p - n] \in Payloads
  <2> SUFFICES ASSUME NEW p \in new PROVE ~Exists(p) /\ batch[p - n] \in Payloads
    OBVIOUS
  <2>1. p \in Proposals /\ p \in (n + 1)..(n + size)
    BY <1>4
  <2>2. ~(p <= n) /\ p - n \in 1..size
    BY <2>1, <1>1, <1>2
  <2> QED
    BY <2>1, <2>2, <1>1, <1>2
<1>6. /\ run' = [p \in Proposals |-> IF p \in new THEN "AWAITING_APPROVAL" ELSE run[p]]
      /\ payload' = [p \in Proposals |-> IF p \in new THEN batch[p - n] ELSE payload[p]]
      /\ original' = [p \in Proposals |-> IF p \in new THEN batch[p - n] ELSE original[p]]
      /\ flagged' \subseteq flagged \cup new
  BY <1>3 DEF CaptureEnds
<1>7. pc[r] = "comparing" /\ End(r) /\ UNCHANGED <<action, approval, approved, work, history>>
  BY DEF CaptureEnds
<1> HIDE DEF new
<1> USE <1>5, <1>6, <1>7 DEF End, Goto, history
<1>8. TypeOK'
  <2>1. run' \in [Proposals -> WorkflowStatus \cup {"none"}]
    BY DEF TypeOK, WorkflowStatus
  <2>2. \A p \in Proposals : Exists(p)' <=> Exists(p) \/ p \in new
    BY DEF Exists
  <2>3. flagged' \cup deserted' \subseteq {p \in Proposals : Exists(p)'}
    BY <2>2, <1>4 DEF TypeOK
  <2>4. \A p \in Proposals : Exists(p)' => {payload'[p], original'[p]} \subseteq Payloads
    BY <2>2 DEF TypeOK
  <2> QED
    BY <2>1, <2>3, <2>4 DEF TypeOK
<1>9. PayloadsTyped'
  BY DEF PayloadsTyped
<1>10. Numbered'
  <2>1. n + size \in 0..MaxProposals
    <3>1. CASE size = 0
      BY <3>1, <1>1
    <3>2. CASE size # 0
      <4>1. n + size \in (n + 1)..(n + size)
        BY <3>2, <1>1, <1>2
      <4>2. n + size \in Proposals
        BY <4>1, <1>4
      <4> QED
        BY <4>2 DEF Proposals
    <3> QED
      BY <3>1, <3>2
  <2>2. \A p \in Proposals : Exists(p)' <=> p <= n + size
    <3>1. \A p \in Proposals : Exists(p)' <=> Exists(p) \/ p \in new
      BY DEF Exists
    <3>2. \A p \in Proposals : p <= n + size <=> p <= n \/ p \in (n + 1)..(n + size)
      BY <1>1, <1>2 DEF Proposals
    <3> QED
      BY <3>1, <3>2, <1>1, <1>4
  <2> QED
    BY <2>1, <2>2 DEF Numbered
<1>11. HandsFit'
  BY DEF TypeOK, PayloadsTyped, HandsFit, AtWork, Executing, Exists
<1>12. OneHand'
  BY DEF TypeOK, OneHand, Executing
<1>13. TasksAreAccepted'
  BY DEF TypeOK, PayloadsTyped, TasksAreAccepted, Exists
<1>14. OnlyLossStrands'
  BY DEF TypeOK, OnlyLossStrands
<1> QED
  BY <1>8, <1>9, <1>10, <1>11, <1>12, <1>13, <1>14

LEMMA StepKeepsInvariant ==
  ASSUME IInv, Step
  PROVE  IInv'
<1>1. ASSUME NEW r \in Requests, CaptureReadsTasks(r) \/ CaptureReadsProposals(r)
      PROVE  IInv'
  BY <1>1, CaptureReadsTasksKeepsInvariant, CaptureReadsProposalsKeepsInvariant
<1>2. ASSUME NEW r \in Requests, NEW batch \in Batches, CaptureEnds(r, batch)
      PROVE  IInv'
  BY <1>2, CaptureEndsKeepsInvariant
<1>3. ASSUME NEW r \in Requests, NEW p \in Proposals, NEW sent \in Payloads,
             NEW accept \in BOOLEAN, EditReadsApproval(r, p, sent, accept)
      PROVE  IInv'
  BY <1>3, EditReadsApprovalKeepsInvariant
<1>4. ASSUME NEW r \in Requests, EditReadsAction(r) \/ EditEnds(r)
      PROVE  IInv'
  BY <1>4, EditReadsActionKeepsInvariant, EditEndsKeepsInvariant
<1>5. ASSUME NEW r \in Requests, AcceptResolves(r) \/ AcceptRefused(r)
      PROVE  IInv'
  BY <1>5, AcceptResolvesKeepsInvariant, AcceptRefusedKeepsInvariant
<1>6. ASSUME NEW p \in Proposals, ApproveOnly(p) \/ Reject(p) \/ Cancel(p)
      PROVE  IInv'
  BY <1>6, ApproveOnlyKeepsInvariant, RejectKeepsInvariant, CancelKeepsInvariant
<1>7. ASSUME NEW r \in Requests, Start(r) \/ StartRefused(r)
      PROVE  IInv'
  BY <1>7, StartKeepsInvariant, StartRefusedKeepsInvariant
<1>8. ASSUME NEW r \in Requests, Succeeds(r) \/ Fails(r) \/ SubmitRefused(r)
      PROVE  IInv'
  BY <1>8, SucceedsKeepsInvariant, FailsKeepsInvariant, SubmitRefusedKeepsInvariant
<1>9. ASSUME NEW r \in Requests, Aborts(r)
      PROVE  IInv'
  BY <1>9, AbortsKeepsInvariant
<1>10. ASSUME NEW t \in Tasks, NEW w \in Works, CreateManual(t, w) \/ UpdateTask(t, w)
       PROVE  IInv'
  BY <1>10, WriteTaskKeepsInvariant
<1>11. ASSUME NEW t \in Tasks, DeleteTask(t)
       PROVE  IInv'
  BY <1>11, DeleteTaskKeepsInvariant
<1> QED
  BY <1>1, <1>2, <1>3, <1>4, <1>5, <1>6, <1>7, <1>8, <1>9, <1>10, <1>11 DEF Step

LEMMA StutterKeepsInvariant ==
  ASSUME IInv, UNCHANGED vars
  PROVE  IInv'
<1> USE DEF vars, rows, decisions, history, edits, IInv, Exists
<1>1. TypeOK' /\ PayloadsTyped'
  BY DEF TypeOK, PayloadsTyped
<1>2. Numbered' /\ HandsFit' /\ OneHand'
  BY DEF Numbered, HandsFit, OneHand
<1>3. TasksAreAccepted' /\ OnlyLossStrands'
  BY DEF TasksAreAccepted, OnlyLossStrands
<1> QED
  BY <1>1, <1>2, <1>3

--------------------------------------------------------------------------------
(* The inductive invariant holds in every reachable state.                 *)
LEMMA Invariance == Spec => []IInv
<1>1. IInv /\ [Next]_vars => IInv'
  BY NextIsStep, StepKeepsInvariant, StutterKeepsInvariant
<1> QED
  BY <1>1, InvariantInit, PTL DEF Spec

(* The rows of proposals and tasks, and what each request remembers of     *)
(* them, hold values of their types: an existing proposal always carries a *)
(* payload, a task is never made of a payload that is none.                *)
THEOREM TypeCorrect == Spec => []TypeOK
<1>1. IInv => TypeOK
  BY DEF IInv
<1> QED
  BY <1>1, Invariance, PTL

(* However edits, accepts, approvals, cancels and lost requests overlap, a *)
(* proposal is a task exactly when its run completed, and the task was     *)
(* made from the payload that was approved and needed no confirmation.     *)
THEOREM AcceptedTasks == Spec => []TasksAreAccepted
<1>1. IInv => TasksAreAccepted
  BY DEF IInv
<1> QED
  BY <1>1, Invariance, PTL

(* Only the loss of a request, or the route that approves and executes     *)
(* nothing, leaves an approved proposal that nobody goes on to execute.    *)
THEOREM LossAloneStrands == Spec => []OnlyLossStrands
<1>1. IInv => OnlyLossStrands
  BY DEF IInv
<1> QED
  BY <1>1, Invariance, PTL

(* A proposal is never executed by two requests at once, and the one that  *)
(* executes it holds the payload that was approved.                        *)
THEOREM OneExecutor == Spec => [](OneHand /\ HandsFit)
<1>1. IInv => OneHand /\ HandsFit
  BY DEF IInv
<1> QED
  BY <1>1, Invariance, PTL
================================================================================
