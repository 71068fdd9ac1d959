---------------------------- MODULE DocumentAnalysis ----------------------------
(***************************************************************************)
(* From an uploaded document to a proposal: the first half of a LEARN run  *)
(* (upload, parse, summarize, edit) and of a COLLABORATE run (upload,      *)
(* parse, analyze, update action items, request approval).                 *)
(*                                                                         *)
(* Parsing and the call of the language model are slow; the row lock is    *)
(* given up for them, and a request that fails in them writes the run it   *)
(* read before (expire_on_commit=False), without a lock.  Requests that    *)
(* hold the lock from their first read to their commit are one step.       *)
(*                                                                         *)
(* Sources: workflows/lecture_notes/service.py,                            *)
(* workflows/project_meeting/service.py, services/projects.py,             *)
(* services/profile_history.py.                                            *)
(***************************************************************************)
EXTENDS Naturals, RelayDomain

CONSTANTS Drafts,     \* what the model, or an edit of the user, can propose
          NoDraft,    \* nothing proposed
          Keys,       \* names of files in the store; their number bounds the model
          NoKey,      \* no file
          Sessions    \* concurrent HTTP requests

ASSUME DraftAssumption == NoDraft \notin Drafts /\ NoKey \notin Keys

VARIABLES
  workflow,     \* LEARN or COLLABORATE
  hasProject,   \* WorkflowRun.project_workspace_id is set
  run,          \* WorkflowRun.status, or "gone"
  source,       \* SourceDocument.status, or "none"
  key,          \* SourceDocument.storage_key
  files,        \* what the file store holds
  stage,        \* how far plan_payload has got
  draft,        \* summary or action items in plan_payload
  proposed,     \* what the ProposedActions of the run carry
  modelCalls,   \* analyses asked of the language model
  abandoned,    \* a request died, lost the answer to its commit or could not clean up
  pc,           \* where each request is
  saved         \* the file each upload has saved

upload == <<key, files, saved>>
plan == <<stage, draft, proposed, modelCalls>>
vars == <<workflow, hasProject, run, source, upload, plan, abandoned, pc>>

(* COLLABORATE's create commits the run before it names the project; a     *)
(* request that dies in between leaves a run without one.                  *)
Init ==
  /\ workflow \in {"LEARN", "COLLABORATE"}
  /\ hasProject \in BOOLEAN /\ (workflow = "LEARN" => ~hasProject)
  /\ run = "DRAFT" /\ source = "none" /\ stage = "none"
  /\ draft = NoDraft /\ proposed = NoDraft
  /\ modelCalls = 0 /\ abandoned = FALSE
  /\ key = NoKey /\ files = {}
  /\ pc = [s \in Sessions |-> "idle"] /\ saved = [s \in Sessions |-> NoKey]

Goto(s, label) == pc' = [pc EXCEPT ![s] = label]

--------------------------------------------------------------------------------
(* upload holds the row lock from its first read to its commit, and saves  *)
(* the file in between.                                                    *)

Unlocked == \A s \in Sessions : pc[s] # "saving"

(* A run that has a source keeps it: the same file is answered with the    *)
(* run as it is, another one is refused.                                   *)
UploadBegin(s, k) ==
  /\ pc[s] = "idle" /\ Unlocked
  /\ run = "DRAFT" /\ source = "none" /\ k \notin files
  /\ files' = files \cup {k} /\ saved' = [saved EXCEPT ![s] = k]
  /\ Goto(s, "saving")
  /\ UNCHANGED <<workflow, hasProject, run, source, key, plan, abandoned>>

UploadEnds(s) ==
  /\ pc[s] = "saving"
  /\ saved' = [saved EXCEPT ![s] = NoKey]
  /\ Goto(s, "idle")
  /\ UNCHANGED <<workflow, hasProject, run, plan>>

UploadDone(s) ==
  /\ UploadEnds(s)
  /\ source' = "UPLOADED" /\ key' = saved[s]
  /\ UNCHANGED <<files, abandoned>>

(* Mutant: the file of a failed upload stays.                              *)
MutantCleanedUp(s) == files

CleanedUp(s) == files \ {saved[s]}

UploadFails(s) ==
  /\ UploadEnds(s)
  /\ \/ files' = CleanedUp(s) /\ UNCHANGED abandoned
     \/ files' = files /\ abandoned' = TRUE    \* delete fails as well
  /\ UNCHANGED <<source, key>>

(* The commit took place and its answer was lost: the handler deletes the  *)
(* file of a row that exists.                                              *)
UploadUnanswered(s) ==
  /\ UploadEnds(s)
  /\ source' = "UPLOADED" /\ key' = saved[s]
  /\ files' = CleanedUp(s) /\ abandoned' = TRUE

--------------------------------------------------------------------------------
(* parse                                                                   *)

ParseBegin(s) ==
  /\ pc[s] = "idle" /\ Unlocked /\ run = "DRAFT" /\ source # "none"
  /\ run' = "ANALYZING"
  /\ Goto(s, "parsing")
  /\ UNCHANGED <<workflow, hasProject, source, upload, plan, abandoned>>

(* Mutant: the transcript's status instead of the plan's stage.            *)
MutantParsedStage == "PARSED"

ParsedStage == IF workflow = "COLLABORATE" THEN "transcript_ready" ELSE stage

ParseDone(s) ==
  /\ pc[s] = "parsing" /\ run # "gone" /\ key \in files
  /\ source' = "PARSED"
  /\ stage' = ParsedStage
  /\ Goto(s, "idle")
  /\ UNCHANGED <<workflow, hasProject, run, upload, draft, proposed, modelCalls, abandoned>>

(* fail(): the run as it was read before the slow call, ANALYZING, may go  *)
(* to FAILED, whatever it is by now.                                       *)
FailedStatus == IF CanTransition("ANALYZING", "FAILED") THEN "FAILED" ELSE run

ParseFails(s) ==
  /\ pc[s] = "parsing" /\ run # "gone"
  /\ source' = "FAILED"
  /\ run' = FailedStatus
  /\ Goto(s, "idle")
  /\ UNCHANGED <<workflow, hasProject, upload, plan, abandoned>>

--------------------------------------------------------------------------------
(* summarize (LEARN) and analyze (COLLABORATE)                             *)

(* Mutant: the stage is not looked at.                                     *)
MutantAwaitsAnalysis == source = "PARSED"

(* Nobody has claimed the analysis of the parsed source yet.               *)
AwaitsAnalysis ==
  IF workflow = "LEARN" THEN stage = "none" /\ source = "PARSED"
  ELSE stage = "transcript_ready"

(* The claim is committed before the model is called.                      *)
AnalyzeBegin(s) ==
  /\ pc[s] = "idle" /\ run = "ANALYZING" /\ AwaitsAnalysis
  /\ workflow = "COLLABORATE" => hasProject
  /\ stage' = "claimed" /\ modelCalls' = modelCalls + 1
  /\ Goto(s, "analyzing")
  /\ UNCHANGED <<workflow, hasProject, run, source, upload, draft, proposed, abandoned>>

AnalyzeFails(s) ==
  /\ pc[s] = "analyzing" /\ run # "gone"
  /\ run' = FailedStatus
  /\ Goto(s, "idle")
  /\ UNCHANGED <<workflow, hasProject, source, upload, plan, abandoned>>

(* Mutant: the status the run had before the model was called.             *)
MutantCurrentRun == "ANALYZING"

CurrentRun == run

Proceeds == run # "gone" /\ CanTransition(CurrentRun, "PLAN_READY")

(* The run is read again under its lock.  LEARN proposes its page and asks *)
(* for approval in the same transaction.                                   *)
AnalyzeDone(s, result) ==
  /\ pc[s] = "analyzing" /\ Proceeds
  /\ stage' = "ready" /\ draft' = result
  /\ IF workflow = "LEARN"
     THEN run' = "AWAITING_APPROVAL" /\ proposed' = result
     ELSE run' = "PLAN_READY" /\ UNCHANGED proposed
  /\ Goto(s, "idle")
  /\ UNCHANGED <<workflow, hasProject, source, upload, modelCalls, abandoned>>

AnalyzeRefused(s) ==
  /\ pc[s] = "analyzing" /\ ~Proceeds
  /\ Goto(s, "idle")
  /\ UNCHANGED <<workflow, hasProject, run, source, upload, plan, abandoned>>

--------------------------------------------------------------------------------
(* Review.                                                                 *)

(* Mutant: action items can be edited while their approval is pending.     *)
MutantEditable == run \in {"PLAN_READY", "AWAITING_APPROVAL"}

Editable == run = "PLAN_READY"

UpdateActionItems(items) ==
  /\ workflow = "COLLABORATE" /\ Editable
  /\ draft' = items
  /\ UNCHANGED <<workflow, hasProject, run, source, upload, stage, proposed, modelCalls,
                 abandoned, pc>>

RequestApproval ==
  /\ workflow = "COLLABORATE" /\ run = "PLAN_READY"
  /\ proposed' = draft /\ run' = "AWAITING_APPROVAL"
  /\ UNCHANGED <<workflow, hasProject, source, upload, stage, draft, modelCalls, abandoned, pc>>

(* LEARN's edit replaces summary and proposal together.                    *)
EditSummary(summary) ==
  /\ workflow = "LEARN" /\ run = "AWAITING_APPROVAL"
  /\ draft' = summary /\ proposed' = summary
  /\ UNCHANGED <<workflow, hasProject, run, source, upload, stage, modelCalls, abandoned, pc>>

(* The decision on the whole run (ApprovalPlan has the single ones).       *)
Resolve(status) ==
  /\ run = "AWAITING_APPROVAL"
  /\ run' = status
  /\ UNCHANGED <<workflow, hasProject, source, upload, plan, abandoned, pc>>

Cancel ==
  /\ Unlocked /\ run \notin TerminalStates \cup {"gone"} /\ CanTransition(run, "CANCELLED")
  /\ run' = "CANCELLED"
  /\ UNCHANGED <<workflow, hasProject, source, upload, plan, abandoned, pc>>

--------------------------------------------------------------------------------
(* The run's rows are deleted with its project, or with the user's whole   *)
(* history.  Neither takes the run's lock or knows of requests under way;  *)
(* the file of the source stays in the store.  A deletion that meets an    *)
(* upload waits for it: the new row would make it fail, as a whole, on the *)
(* foreign key.                                                            *)

RowsDeleted ==
  /\ Unlocked /\ run # "gone"
  /\ run' = "gone" /\ source' = "none" /\ key' = NoKey /\ stage' = "none"
  /\ draft' = NoDraft /\ proposed' = NoDraft
  /\ UNCHANGED <<workflow, hasProject, files, saved, modelCalls, abandoned, pc>>

DeleteProject == hasProject /\ RowsDeleted

ResetHistory == RowsDeleted

(* Its updates match no row: the request fails and nothing is committed.   *)
FindsNoRows(s) ==
  /\ pc[s] \in {"parsing", "analyzing"} /\ run = "gone"
  /\ Goto(s, "idle")
  /\ UNCHANGED <<workflow, hasProject, run, source, upload, plan, abandoned>>

--------------------------------------------------------------------------------
(* The worker dies, or the client is gone and the request is cancelled,    *)
(* which "except Exception" does not catch.                                *)
Crash(s) ==
  /\ pc[s] # "idle"
  /\ abandoned' = TRUE /\ saved' = [saved EXCEPT ![s] = NoKey]
  /\ Goto(s, "idle")
  /\ UNCHANGED <<workflow, hasProject, run, source, key, files, plan>>

Next ==
  \/ \E s \in Sessions, k \in Keys : UploadBegin(s, k)
  \/ \E s \in Sessions : UploadDone(s)
  \/ \E s \in Sessions : UploadFails(s)
  \/ \E s \in Sessions : UploadUnanswered(s)
  \/ \E s \in Sessions : ParseBegin(s)
  \/ \E s \in Sessions : ParseDone(s)
  \/ \E s \in Sessions : ParseFails(s)
  \/ \E s \in Sessions : AnalyzeBegin(s)
  \/ \E s \in Sessions : AnalyzeFails(s)
  \/ \E s \in Sessions, result \in Drafts : AnalyzeDone(s, result)
  \/ \E s \in Sessions : AnalyzeRefused(s)
  \/ \E items \in Drafts : UpdateActionItems(items)
  \/ RequestApproval
  \/ \E summary \in Drafts : EditSummary(summary)
  \/ \E status \in {"APPROVED", "REJECTED"} : Resolve(status)
  \/ Cancel
  \/ DeleteProject
  \/ ResetHistory
  \/ \E s \in Sessions : FindsNoRows(s)
  \/ \E s \in Sessions : Crash(s)

Spec == Init /\ [][Next]_vars

--------------------------------------------------------------------------------
Finished == run \in TerminalStates \cup {"gone"}

(* Every variable holds a value of its type.                               *)
TypeOK ==
  /\ workflow \in {"LEARN", "COLLABORATE"} /\ hasProject \in BOOLEAN
  /\ run \in WorkflowStatus \cup {"gone"}
  /\ source \in {"none", "UPLOADED", "PARSED", "FAILED"}
  /\ key \in Keys \cup {NoKey} /\ files \in SUBSET Keys
  /\ stage \in {"none", "transcript_ready", "claimed", "ready"}
  /\ draft \in Drafts \cup {NoDraft} /\ proposed \in Drafts \cup {NoDraft}
  /\ modelCalls \in Nat /\ abandoned \in BOOLEAN
  /\ pc \in [Sessions -> {"idle", "saving", "parsing", "analyzing"}]
  /\ saved \in [Sessions -> Keys \cup {NoKey}]

(* The file store and the table agree: between uploads the store holds     *)
(* exactly the file of the run's source, whatever failed on the way, as    *)
(* long as no request died, no commit went unanswered and the store did    *)
(* delete what it was told to.  (Deleting the rows leaves the file.)       *)
FilesMatchRows ==
  ~abandoned /\ Unlocked =>
    IF run = "gone" THEN source = "none" ELSE files = (IF source = "none" THEN {} ELSE {key})

(* A parsed document is sent to the language model once.  Not twice:       *)
(* duplicate requests are refused also while the first is still waiting    *)
(* for its answer, and after it has failed, died or been overtaken by a    *)
(* cancel.  And not never: a run that is ANALYZING is being worked on or   *)
(* can be taken up, unless a request died on it.                           *)
AnalysedOnce ==
  /\ modelCalls <= 1
  /\ run = "ANALYZING" /\ ~abandoned => AwaitsAnalysis \/ \E s \in Sessions : pc[s] # "idle"

(* What awaits approval or is approved is what the user sees as the draft, *)
(* made from a parsed source; a failed run proposes nothing, although its  *)
(* status was written without a look at what others had done.              *)
ProposalFitsRun ==
  /\ run \in {"AWAITING_APPROVAL", "APPROVED"} =>
       proposed = draft /\ proposed # NoDraft /\ source = "PARSED"
  /\ run = "FAILED" => proposed = NoDraft

(* An answer of the model that comes after the end of the run (a cancel,   *)
(* the deletion of its project, a reset) proposes nothing, drafts nothing  *)
(* and does not bring the run back; nor does anything else.                *)
EndedProposesNothing ==
  [][Finished => /\ Finished'
                 /\ \/ run' = "gone" /\ draft' = NoDraft /\ proposed' = NoDraft
                    \/ run # "gone" /\ UNCHANGED <<draft, proposed>>]_vars

--------------------------------------------------------------------------------
(* A claim of the documentation that the code does not keep.               *)

(* Terminal-state exits fail: a run that has its final status keeps it     *)
(* (workflow-state-machine.md).                                            *)
TerminalExitsFail == [][Finished /\ run' # "gone" => UNCHANGED run]_vars
=================================================================================
