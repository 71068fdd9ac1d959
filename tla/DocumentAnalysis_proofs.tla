------------------------ MODULE DocumentAnalysis_proofs ------------------------
(***************************************************************************)
(* Proofs about DocumentAnalysis for any set of concurrent requests, of    *)
(* file names and of drafts.                                               *)
(***************************************************************************)
EXTENDS DocumentAnalysis, TLAPS

(* The row lock: only one request saves a file, for a run without a source *)
(* that no other request works on, and the file is in the store.           *)
LockIsHeld ==
  /\ \A s \in Sessions : pc[s] = "saving" =>
       run = "DRAFT" /\ source = "none" /\ saved[s] \in files
  /\ \A s, t \in Sessions : pc[s] = "saving" /\ pc[t] = "saving" => s = t

(* The store holds the file of the source, and that of an upload under way. *)
StoreMatches ==
  /\ source = "none" <=> key = NoKey
  /\ ~abandoned /\ run # "gone" =>
       files = {k \in Keys : k = key \/ \E s \in Sessions : pc[s] = "saving" /\ saved[s] = k}

(* There is never a second parse, and never a second analysis: the request *)
(* that is in one found the run as only the first finds it.                *)
OneWorker ==
  /\ \A s \in Sessions : pc[s] \in {"parsing", "analyzing"} => run # "DRAFT"
  /\ \A s \in Sessions : pc[s] = "parsing" /\ run # "gone" =>
       source = "UPLOADED" /\ stage = "none"
  /\ \A s \in Sessions : pc[s] = "analyzing" /\ run # "gone" => stage = "claimed"
  /\ \A s, t \in Sessions : pc[s] = pc[t] /\ pc[s] \in {"parsing", "analyzing"} => s = t

(* What the stage of the plan says of the source, of the calls made and of *)
(* the drafts.                                                             *)
StageFits ==
  /\ run = "DRAFT" => source \in {"none", "UPLOADED"} /\ stage = "none"
  /\ stage \in {"none", "transcript_ready"} /\ run # "gone" => modelCalls = 0
  /\ stage \in {"transcript_ready", "claimed", "ready"} => source = "PARSED"
  /\ stage = "ready" <=> draft # NoDraft
  /\ stage # "ready" => proposed = NoDraft

(* What the status of the run says of the stage and of the rows.           *)
StatusFits ==
  /\ run \in {"DRAFT", "ANALYZING", "FAILED"} => stage # "ready"
  /\ run \in {"PLAN_READY", "AWAITING_APPROVAL", "APPROVED"} => stage = "ready"
  /\ run \in {"AWAITING_APPROVAL", "APPROVED"} => proposed = draft
  /\ run = "gone" => source = "none" /\ stage = "none"

Inductive == LockIsHeld /\ StoreMatches /\ OneWorker /\ StageFits /\ StatusFits /\ AnalysedOnce

IInv == TypeOK /\ Inductive

(* Everything a step may change; the two deletions change the same.        *)
Step ==
  \/ \E s \in Sessions, k \in Keys : UploadBegin(s, k)
  \/ \E s \in Sessions : UploadDone(s) \/ UploadFails(s) \/ UploadUnanswered(s)
  \/ \E s \in Sessions : ParseBegin(s) \/ ParseDone(s) \/ ParseFails(s)
  \/ \E s \in Sessions : AnalyzeBegin(s) \/ AnalyzeFails(s) \/ AnalyzeRefused(s)
  \/ \E s \in Sessions, result \in Drafts : AnalyzeDone(s, result)
  \/ \E items \in Drafts : UpdateActionItems(items) \/ EditSummary(items)
  \/ RequestApproval
  \/ \E status \in {"APPROVED", "REJECTED"} : Resolve(status)
  \/ Cancel
  \/ RowsDeleted
  \/ \E s \in Sessions : FindsNoRows(s) \/ Crash(s)

LEMMA NextIsStep == Next => Step
  BY DEF Next, Step, DeleteProject, ResetHistory

--------------------------------------------------------------------------------
(* The table of transitions, where this component asks it.                 *)

LEMMA AnalysisMayFail == FailedStatus = "FAILED"
  BY DEF FailedStatus, CanTransition, Transitions

LEMMA OnlyAnalyzingProceeds == Proceeds => run = "ANALYZING"
  BY DEF Proceeds, CurrentRun, CanTransition, Transitions

LEMMA AnalyzingProceeds == run = "ANALYZING" => Proceeds
  BY DEF Proceeds, CurrentRun, CanTransition, Transitions

--------------------------------------------------------------------------------
(* Type correctness.                                                       *)

LEMMA TypeInit == Init => TypeOK
<1> SUFFICES ASSUME Init PROVE TypeOK
  OBVIOUS
<1>1. abandoned \in BOOLEAN /\ hasProject \in BOOLEAN
  BY DEF Init
<1> QED
  BY <1>1 DEF Init, TypeOK, WorkflowStatus

LEMMA TypeStep ==
  ASSUME TypeOK, Step
  PROVE  TypeOK'
<1> USE DEF TypeOK, WorkflowStatus, Goto, upload, plan
<1>1. ASSUME NEW s \in Sessions, NEW k \in Keys, UploadBegin(s, k)
      PROVE  TypeOK'
  BY <1>1 DEF UploadBegin
<1>2. ASSUME NEW s \in Sessions, UploadDone(s) \/ UploadFails(s) \/ UploadUnanswered(s)
      PROVE  TypeOK'
  <2> USE DEF UploadDone, UploadFails, UploadUnanswered, UploadEnds, CleanedUp
  <2>1. abandoned' \in BOOLEAN
    BY <1>2
  <2>2. files' \in SUBSET Keys /\ key' \in Keys \cup {NoKey}
    BY <1>2
  <2> QED
    BY <1>2, <2>1, <2>2
<1>3. ASSUME NEW s \in Sessions, ParseBegin(s) \/ ParseDone(s) \/ ParseFails(s)
      PROVE  TypeOK'
  BY <1>3, AnalysisMayFail DEF ParseBegin, ParseDone, ParseFails, ParsedStage
<1>4. ASSUME NEW s \in Sessions, AnalyzeBegin(s) \/ AnalyzeFails(s) \/ AnalyzeRefused(s)
      PROVE  TypeOK'
  BY <1>4, AnalysisMayFail DEF AnalyzeBegin, AnalyzeFails, AnalyzeRefused
<1>5. ASSUME NEW s \in Sessions, NEW result \in Drafts, AnalyzeDone(s, result)
      PROVE  TypeOK'
  BY <1>5 DEF AnalyzeDone
<1>6. ASSUME NEW items \in Drafts, UpdateActionItems(items) \/ EditSummary(items)
      PROVE  TypeOK'
  BY <1>6 DEF UpdateActionItems, EditSummary
<1>7. CASE RequestApproval
  BY <1>7 DEF RequestApproval
<1>8. ASSUME NEW status \in {"APPROVED", "REJECTED"}, Resolve(status)
      PROVE  TypeOK'
  BY <1>8 DEF Resolve
<1>9. CASE Cancel \/ RowsDeleted
  BY <1>9 DEF Cancel, RowsDeleted
<1>10. ASSUME NEW s \in Sessions, FindsNoRows(s) \/ Crash(s)
       PROVE  TypeOK'
  <2>1. pc' \in [Sessions -> {"idle", "saving", "parsing", "analyzing"}]
        /\ saved' \in [Sessions -> Keys \cup {NoKey}]
    BY <1>10 DEF FindsNoRows, Crash
  <2>2. abandoned' \in BOOLEAN
    BY <1>10 DEF FindsNoRows, Crash
  <2> QED
    BY <1>10, <2>1, <2>2 DEF FindsNoRows, Crash
<1> QED
  BY <1>1, <1>2, <1>3, <1>4, <1>5, <1>6, <1>7, <1>8, <1>9, <1>10 DEF Step

--------------------------------------------------------------------------------
(* Each action keeps the inductive invariant.                              *)

LEMMA InvariantInit == Init => IInv
  BY TypeInit, DraftAssumption
     DEF Init, IInv, Inductive, LockIsHeld, StoreMatches, OneWorker, StageFits, StatusFits,
         AnalysedOnce

LEMMA UploadBeginKeepsInvariant ==
  ASSUME IInv, NEW s \in Sessions, NEW k \in Keys, UploadBegin(s, k)
  PROVE  Inductive'
<1> USE DraftAssumption
    DEF IInv, TypeOK, Goto, upload, plan, UploadBegin, Unlocked
<1>1. LockIsHeld'
  BY DEF Inductive, LockIsHeld, OneWorker
<1>2. StoreMatches'
  BY DEF Inductive, LockIsHeld, StoreMatches, OneWorker, StatusFits
<1>3. OneWorker'
  BY DEF Inductive, LockIsHeld, OneWorker, StageFits
<1>4. StageFits'
  BY DEF Inductive, LockIsHeld, OneWorker, StageFits, StatusFits
<1>5. StatusFits'
  BY DEF Inductive, LockIsHeld, OneWorker, StageFits, StatusFits
<1>6. AnalysedOnce'
  BY DEF Inductive, AnalysedOnce, AwaitsAnalysis, LockIsHeld, OneWorker, StageFits
<1> QED
  BY <1>1, <1>2, <1>3, <1>4, <1>5, <1>6 DEF Inductive

LEMMA UploadDoneKeepsInvariant ==
  ASSUME IInv, NEW s \in Sessions, UploadDone(s)
  PROVE  Inductive'
<1> USE DraftAssumption
    DEF IInv, TypeOK, Goto, upload, plan, UploadDone, UploadEnds
<1>1. LockIsHeld'
  BY DEF Inductive, LockIsHeld, OneWorker
<1>2. StoreMatches'
  BY DEF Inductive, LockIsHeld, StoreMatches, OneWorker, StatusFits
<1>3. OneWorker'
  BY DEF Inductive, LockIsHeld, OneWorker, StageFits
<1>4. StageFits'
  BY DEF Inductive, LockIsHeld, OneWorker, StageFits, StatusFits
<1>5. StatusFits'
  BY DEF Inductive, LockIsHeld, OneWorker, StageFits, StatusFits
<1>6. AnalysedOnce'
  BY DEF Inductive, AnalysedOnce, AwaitsAnalysis, LockIsHeld, OneWorker, StageFits
<1> QED
  BY <1>1, <1>2, <1>3, <1>4, <1>5, <1>6 DEF Inductive

LEMMA UploadFailsKeepsInvariant ==
  ASSUME IInv, NEW s \in Sessions, UploadFails(s)
  PROVE  Inductive'
<1> USE DraftAssumption
    DEF IInv, TypeOK, Goto, upload, plan, UploadFails, UploadEnds, CleanedUp
<1>1. LockIsHeld'
  BY DEF Inductive, LockIsHeld, OneWorker
<1>2. StoreMatches'
  BY DEF Inductive, LockIsHeld, StoreMatches, OneWorker, StatusFits
<1>3. OneWorker'
  BY DEF Inductive, LockIsHeld, OneWorker, StageFits
<1>4. StageFits'
  BY DEF Inductive, LockIsHeld, OneWorker, StageFits, StatusFits
<1>5. StatusFits'
  BY DEF Inductive, LockIsHeld, OneWorker, StageFits, StatusFits
<1>6. AnalysedOnce'
  BY DEF Inductive, AnalysedOnce, AwaitsAnalysis, LockIsHeld, OneWorker, StageFits
<1> QED
  BY <1>1, <1>2, <1>3, <1>4, <1>5, <1>6 DEF Inductive

LEMMA UploadUnansweredKeepsInvariant ==
  ASSUME IInv, NEW s \in Sessions, UploadUnanswered(s)
  PROVE  Inductive'
<1> USE DraftAssumption
    DEF IInv, TypeOK, Goto, upload, plan, UploadUnanswered, UploadEnds, CleanedUp
<1>1. LockIsHeld'
  BY DEF Inductive, LockIsHeld, OneWorker
<1>2. StoreMatches'
  BY DEF Inductive, LockIsHeld, StoreMatches, OneWorker, StatusFits
<1>3. OneWorker'
  BY DEF Inductive, LockIsHeld, OneWorker, StageFits
<1>4. StageFits'
  BY DEF Inductive, LockIsHeld, OneWorker, StageFits, StatusFits
<1>5. StatusFits'
  BY DEF Inductive, LockIsHeld, OneWorker, StageFits, StatusFits
<1>6. AnalysedOnce'
  BY DEF Inductive, AnalysedOnce, AwaitsAnalysis, LockIsHeld, OneWorker, StageFits
<1> QED
  BY <1>1, <1>2, <1>3, <1>4, <1>5, <1>6 DEF Inductive

LEMMA ParseBeginKeepsInvariant ==
  ASSUME IInv, NEW s \in Sessions, ParseBegin(s)
  PROVE  Inductive'
<1> USE DraftAssumption
    DEF IInv, TypeOK, Goto, upload, plan, ParseBegin, Unlocked
<1>1. LockIsHeld'
  BY DEF Inductive, LockIsHeld, OneWorker
<1>2. StoreMatches'
  BY DEF Inductive, LockIsHeld, StoreMatches, OneWorker, StatusFits
<1>3. OneWorker'
  BY DEF Inductive, LockIsHeld, OneWorker, StageFits
<1>4. StageFits'
  BY DEF Inductive, LockIsHeld, OneWorker, StageFits, StatusFits
<1>5. StatusFits'
  BY DEF Inductive, LockIsHeld, OneWorker, StageFits, StatusFits
<1>6. AnalysedOnce'
  BY DEF Inductive, AnalysedOnce, AwaitsAnalysis, LockIsHeld, OneWorker, StageFits
<1> QED
  BY <1>1, <1>2, <1>3, <1>4, <1>5, <1>6 DEF Inductive

LEMMA ParseDoneKeepsInvariant ==
  ASSUME IInv, NEW s \in Sessions, ParseDone(s)
  PROVE  Inductive'
<1> USE DraftAssumption
    DEF IInv, TypeOK, Goto, upload, plan, ParseDone, ParsedStage
<1>1. LockIsHeld'
  BY DEF Inductive, LockIsHeld, OneWorker
<1>2. StoreMatches'
  BY DEF Inductive, LockIsHeld, StoreMatches, OneWorker, StatusFits
<1>3. OneWorker'
  BY DEF Inductive, LockIsHeld, OneWorker, StageFits
<1>4. StageFits'
  BY DEF Inductive, LockIsHeld, OneWorker, StageFits, StatusFits
<1>5. StatusFits'
  BY DEF Inductive, LockIsHeld, OneWorker, StageFits, StatusFits
<1>6. AnalysedOnce'
  BY DEF Inductive, AnalysedOnce, AwaitsAnalysis, LockIsHeld, OneWorker, StageFits
<1> QED
  BY <1>1, <1>2, <1>3, <1>4, <1>5, <1>6 DEF Inductive

LEMMA ParseFailsKeepsInvariant ==
  ASSUME IInv, NEW s \in Sessions, ParseFails(s)
  PROVE  Inductive'
<1> USE AnalysisMayFail, DraftAssumption
    DEF IInv, TypeOK, Goto, upload, plan, ParseFails
<1>1. LockIsHeld'
  BY DEF Inductive, LockIsHeld, OneWorker
<1>2. StoreMatches'
  BY DEF Inductive, LockIsHeld, StoreMatches, OneWorker, StatusFits
<1>3. OneWorker'
  BY DEF Inductive, LockIsHeld, OneWorker, StageFits
<1>4. StageFits'
  BY DEF Inductive, LockIsHeld, OneWorker, StageFits, StatusFits
<1>5. StatusFits'
  BY DEF Inductive, LockIsHeld, OneWorker, StageFits, StatusFits
<1>6. AnalysedOnce'
  BY DEF Inductive, AnalysedOnce, AwaitsAnalysis, LockIsHeld, OneWorker, StageFits
<1> QED
  BY <1>1, <1>2, <1>3, <1>4, <1>5, <1>6 DEF Inductive

LEMMA AnalyzeBeginKeepsInvariant ==
  ASSUME IInv, NEW s \in Sessions, AnalyzeBegin(s)
  PROVE  Inductive'
<1> USE DraftAssumption
    DEF IInv, TypeOK, Goto, upload, plan, AnalyzeBegin, AwaitsAnalysis
<1>1. LockIsHeld'
  BY DEF Inductive, LockIsHeld, OneWorker
<1>2. StoreMatches'
  BY DEF Inductive, LockIsHeld, StoreMatches, OneWorker, StatusFits
<1>3. OneWorker'
  BY DEF Inductive, LockIsHeld, OneWorker, StageFits
<1>4. StageFits'
  BY DEF Inductive, LockIsHeld, OneWorker, StageFits, StatusFits
<1>5. StatusFits'
  BY DEF Inductive, LockIsHeld, OneWorker, StageFits, StatusFits
<1>6. AnalysedOnce'
  BY DEF Inductive, AnalysedOnce, AwaitsAnalysis, LockIsHeld, OneWorker, StageFits
<1> QED
  BY <1>1, <1>2, <1>3, <1>4, <1>5, <1>6 DEF Inductive

LEMMA AnalyzeFailsKeepsInvariant ==
  ASSUME IInv, NEW s \in Sessions, AnalyzeFails(s)
  PROVE  Inductive'
<1> USE AnalysisMayFail, DraftAssumption
    DEF IInv, TypeOK, Goto, upload, plan, AnalyzeFails
<1>1. LockIsHeld'
  BY DEF Inductive, LockIsHeld, OneWorker
<1>2. StoreMatches'
  BY DEF Inductive, LockIsHeld, StoreMatches, OneWorker, StatusFits
<1>3. OneWorker'
  BY DEF Inductive, LockIsHeld, OneWorker, StageFits
<1>4. StageFits'
  BY DEF Inductive, LockIsHeld, OneWorker, StageFits, StatusFits
<1>5. StatusFits'
  BY DEF Inductive, LockIsHeld, OneWorker, StageFits, StatusFits
<1>6. AnalysedOnce'
  BY DEF Inductive, AnalysedOnce, AwaitsAnalysis, LockIsHeld, OneWorker, StageFits
<1> QED
  BY <1>1, <1>2, <1>3, <1>4, <1>5, <1>6 DEF Inductive

LEMMA AnalyzeDoneKeepsInvariant ==
  ASSUME IInv, NEW s \in Sessions, NEW result \in Drafts, AnalyzeDone(s, result)
  PROVE  Inductive'
<1> USE OnlyAnalyzingProceeds, DraftAssumption
    DEF IInv, TypeOK, Goto, upload, plan, AnalyzeDone
<1>1. LockIsHeld'
  BY DEF Inductive, LockIsHeld, OneWorker
<1>2. StoreMatches'
  BY DEF Inductive, LockIsHeld, StoreMatches, OneWorker, StatusFits
<1>3. OneWorker'
  BY DEF Inductive, LockIsHeld, OneWorker, StageFits
<1>4. StageFits'
  BY DEF Inductive, LockIsHeld, OneWorker, StageFits, StatusFits
<1>5. StatusFits'
  BY DEF Inductive, LockIsHeld, OneWorker, StageFits, StatusFits
<1>6. AnalysedOnce'
  BY DEF Inductive, AnalysedOnce, AwaitsAnalysis, LockIsHeld, OneWorker, StageFits
<1> QED
  BY <1>1, <1>2, <1>3, <1>4, <1>5, <1>6 DEF Inductive

LEMMA AnalyzeRefusedKeepsInvariant ==
  ASSUME IInv, NEW s \in Sessions, AnalyzeRefused(s)
  PROVE  Inductive'
<1> USE AnalyzingProceeds, DraftAssumption
    DEF IInv, TypeOK, Goto, upload, plan, AnalyzeRefused
<1>1. LockIsHeld'
  BY DEF Inductive, LockIsHeld, OneWorker
<1>2. StoreMatches'
  BY DEF Inductive, LockIsHeld, StoreMatches, OneWorker, StatusFits
<1>3. OneWorker'
  BY DEF Inductive, LockIsHeld, OneWorker, StageFits
<1>4. StageFits'
  BY DEF Inductive, LockIsHeld, OneWorker, StageFits, StatusFits
<1>5. StatusFits'
  BY DEF Inductive, LockIsHeld, OneWorker, StageFits, StatusFits
<1>6. AnalysedOnce'
  BY DEF Inductive, AnalysedOnce, AwaitsAnalysis, LockIsHeld, OneWorker, StageFits
<1> QED
  BY <1>1, <1>2, <1>3, <1>4, <1>5, <1>6 DEF Inductive

LEMMA EditKeepsInvariant ==
  ASSUME IInv, NEW d \in Drafts, UpdateActionItems(d) \/ EditSummary(d)
  PROVE  Inductive'
<1> USE DraftAssumption
    DEF IInv, TypeOK, Goto, upload, plan, UpdateActionItems, Editable, EditSummary
<1>1. LockIsHeld'
  BY DEF Inductive, LockIsHeld, OneWorker
<1>2. StoreMatches'
  BY DEF Inductive, LockIsHeld, StoreMatches, OneWorker, StatusFits
<1>3. OneWorker'
  BY DEF Inductive, LockIsHeld, OneWorker, StageFits
<1>4. StageFits'
  BY DEF Inductive, LockIsHeld, OneWorker, StageFits, StatusFits
<1>5. StatusFits'
  BY DEF Inductive, LockIsHeld, OneWorker, StageFits, StatusFits
<1>6. AnalysedOnce'
  BY DEF Inductive, AnalysedOnce, AwaitsAnalysis, LockIsHeld, OneWorker, StageFits
<1> QED
  BY <1>1, <1>2, <1>3, <1>4, <1>5, <1>6 DEF Inductive

LEMMA RequestApprovalKeepsInvariant ==
  ASSUME IInv, RequestApproval
  PROVE  Inductive'
<1> USE DraftAssumption
    DEF IInv, TypeOK, Goto, upload, plan, RequestApproval
<1>1. LockIsHeld'
  BY DEF Inductive, LockIsHeld, OneWorker
<1>2. StoreMatches'
  BY DEF Inductive, LockIsHeld, StoreMatches, OneWorker, StatusFits
<1>3. OneWorker'
  BY DEF Inductive, LockIsHeld, OneWorker, StageFits
<1>4. StageFits'
  BY DEF Inductive, LockIsHeld, OneWorker, StageFits, StatusFits
<1>5. StatusFits'
  BY DEF Inductive, LockIsHeld, OneWorker, StageFits, StatusFits
<1>6. AnalysedOnce'
  BY DEF Inductive, AnalysedOnce, AwaitsAnalysis, LockIsHeld, OneWorker, StageFits
<1> QED
  BY <1>1, <1>2, <1>3, <1>4, <1>5, <1>6 DEF Inductive

LEMMA ResolveKeepsInvariant ==
  ASSUME IInv, NEW status \in {"APPROVED", "REJECTED"}, Resolve(status)
  PROVE  Inductive'
<1> USE DraftAssumption
    DEF IInv, TypeOK, Goto, upload, plan, Resolve
<1>1. LockIsHeld'
  BY DEF Inductive, LockIsHeld, OneWorker
<1>2. StoreMatches'
  BY DEF Inductive, LockIsHeld, StoreMatches, OneWorker, StatusFits
<1>3. OneWorker'
  BY DEF Inductive, LockIsHeld, OneWorker, StageFits
<1>4. StageFits'
  BY DEF Inductive, LockIsHeld, OneWorker, StageFits, StatusFits
<1>5. StatusFits'
  BY DEF Inductive, LockIsHeld, OneWorker, StageFits, StatusFits
<1>6. AnalysedOnce'
  BY DEF Inductive, AnalysedOnce, AwaitsAnalysis, LockIsHeld, OneWorker, StageFits
<1> QED
  BY <1>1, <1>2, <1>3, <1>4, <1>5, <1>6 DEF Inductive

LEMMA CancelKeepsInvariant ==
  ASSUME IInv, Cancel
  PROVE  Inductive'
<1> USE DraftAssumption
    DEF IInv, TypeOK, Goto, upload, plan, Cancel, Unlocked
<1>1. LockIsHeld'
  BY DEF Inductive, LockIsHeld, OneWorker
<1>2. StoreMatches'
  BY DEF Inductive, LockIsHeld, StoreMatches, OneWorker, StatusFits
<1>3. OneWorker'
  BY DEF Inductive, LockIsHeld, OneWorker, StageFits
<1>4. StageFits'
  BY DEF Inductive, LockIsHeld, OneWorker, StageFits, StatusFits
<1>5. StatusFits'
  BY DEF Inductive, LockIsHeld, OneWorker, StageFits, StatusFits
<1>6. AnalysedOnce'
  BY DEF Inductive, AnalysedOnce, AwaitsAnalysis, LockIsHeld, OneWorker, StageFits
<1> QED
  BY <1>1, <1>2, <1>3, <1>4, <1>5, <1>6 DEF Inductive

LEMMA DeletionKeepsInvariant ==
  ASSUME IInv, RowsDeleted
  PROVE  Inductive'
<1> USE DraftAssumption
    DEF IInv, TypeOK, Goto, upload, plan, RowsDeleted, Unlocked
<1>1. LockIsHeld'
  BY DEF Inductive, LockIsHeld, OneWorker
<1>2. StoreMatches'
  BY DEF Inductive, LockIsHeld, StoreMatches, OneWorker, StatusFits
<1>3. OneWorker'
  BY DEF Inductive, LockIsHeld, OneWorker, StageFits
<1>4. StageFits'
  BY DEF Inductive, LockIsHeld, OneWorker, StageFits, StatusFits
<1>5. StatusFits'
  BY DEF Inductive, LockIsHeld, OneWorker, StageFits, StatusFits
<1>6. AnalysedOnce'
  BY DEF Inductive, AnalysedOnce, AwaitsAnalysis, LockIsHeld, OneWorker, StageFits
<1> QED
  BY <1>1, <1>2, <1>3, <1>4, <1>5, <1>6 DEF Inductive

LEMMA LeavingKeepsInvariant ==
  ASSUME IInv, NEW s \in Sessions, FindsNoRows(s) \/ Crash(s)
  PROVE  Inductive'
<1> USE DraftAssumption
    DEF IInv, TypeOK, Goto, upload, plan, FindsNoRows, Crash
<1>1. LockIsHeld'
  BY DEF Inductive, LockIsHeld, OneWorker
<1>2. StoreMatches'
  BY DEF Inductive, LockIsHeld, StoreMatches, OneWorker, StatusFits
<1>3. OneWorker'
  BY DEF Inductive, LockIsHeld, OneWorker, StageFits
<1>4. StageFits'
  BY DEF Inductive, LockIsHeld, OneWorker, StageFits, StatusFits
<1>5. StatusFits'
  BY DEF Inductive, LockIsHeld, OneWorker, StageFits, StatusFits
<1>6. AnalysedOnce'
  BY DEF Inductive, AnalysedOnce, AwaitsAnalysis, LockIsHeld, OneWorker, StageFits
<1> QED
  BY <1>1, <1>2, <1>3, <1>4, <1>5, <1>6 DEF Inductive

LEMMA StepKeepsInvariant ==
  ASSUME IInv, Step
  PROVE  IInv'
<1>1. TypeOK'
  BY TypeStep DEF IInv
<1>2. Inductive'
  <2>1. ASSUME NEW s \in Sessions, NEW k \in Keys, UploadBegin(s, k)
        PROVE  Inductive'
    BY <2>1, UploadBeginKeepsInvariant
  <2>2. ASSUME NEW s \in Sessions, UploadDone(s) \/ UploadFails(s) \/ UploadUnanswered(s)
        PROVE  Inductive'
    BY <2>2, UploadDoneKeepsInvariant, UploadFailsKeepsInvariant,
       UploadUnansweredKeepsInvariant
  <2>3. ASSUME NEW s \in Sessions, ParseBegin(s) \/ ParseDone(s) \/ ParseFails(s)
        PROVE  Inductive'
    BY <2>3, ParseBeginKeepsInvariant, ParseDoneKeepsInvariant, ParseFailsKeepsInvariant
  <2>4. ASSUME NEW s \in Sessions, AnalyzeBegin(s) \/ AnalyzeFails(s) \/ AnalyzeRefused(s)
        PROVE  Inductive'
    BY <2>4, AnalyzeBeginKeepsInvariant, AnalyzeFailsKeepsInvariant,
       AnalyzeRefusedKeepsInvariant
  <2>5. ASSUME NEW s \in Sessions, NEW result \in Drafts, AnalyzeDone(s, result)
        PROVE  Inductive'
    BY <2>5, AnalyzeDoneKeepsInvariant
  <2>6. ASSUME NEW items \in Drafts, UpdateActionItems(items) \/ EditSummary(items)
        PROVE  Inductive'
    BY <2>6, EditKeepsInvariant
  <2>7. CASE RequestApproval
    BY <2>7, RequestApprovalKeepsInvariant
  <2>8. ASSUME NEW status \in {"APPROVED", "REJECTED"}, Resolve(status)
        PROVE  Inductive'
    BY <2>8, ResolveKeepsInvariant
  <2>9. CASE Cancel
    BY <2>9, CancelKeepsInvariant
  <2>10. CASE RowsDeleted
    BY <2>10, DeletionKeepsInvariant
  <2>11. ASSUME NEW s \in Sessions, FindsNoRows(s) \/ Crash(s)
         PROVE  Inductive'
    BY <2>11, LeavingKeepsInvariant
  <2> QED
    BY <2>1, <2>2, <2>3, <2>4, <2>5, <2>6, <2>7, <2>8, <2>9, <2>10, <2>11 DEF Step
<1> QED
  BY <1>1, <1>2 DEF IInv

LEMMA StutterKeepsInvariant ==
  ASSUME IInv, UNCHANGED vars
  PROVE  IInv'
  BY DEF IInv, TypeOK, Inductive, LockIsHeld, StoreMatches, OneWorker, StageFits, StatusFits,
         AnalysedOnce, AwaitsAnalysis, vars, upload, plan

--------------------------------------------------------------------------------
(* The inductive invariant holds in every reachable state.                 *)
LEMMA Invariance == Spec => []IInv
<1>1. IInv /\ [Next]_vars => IInv'
  BY NextIsStep, StepKeepsInvariant, StutterKeepsInvariant
<1> QED
  BY <1>1, InvariantInit, PTL DEF Spec

(* The fields of a run and of its source always hold values of their       *)
(* types: no request writes a status, a file name or a draft that is none. *)
THEOREM TypeCorrect == Spec => []TypeOK
<1>1. IInv => TypeOK
  BY DEF IInv
<1> QED
  BY <1>1, Invariance, PTL

(* Whenever no upload is under way, nothing has died and no commit went    *)
(* unanswered, the file store holds exactly the file of the run's source:  *)
(* the delete of a failed upload (upload's except branch) leaves no orphan *)
(* and takes no file that a row names.                                     *)
THEOREM StoreAgrees == Spec => []FilesMatchRows
<1>1. IInv => FilesMatchRows
  BY DraftAssumption
     DEF IInv, TypeOK, Inductive, StoreMatches, StatusFits, FilesMatchRows, Unlocked
<1> QED
  BY <1>1, Invariance, PTL

(* The language model is asked once at most for a document, however        *)
(* requests to summarize or to analyze overlap, fail or die; and a run     *)
(* that is ANALYZING is being worked on or can be taken up.                *)
THEOREM ModelAskedOnce == Spec => []AnalysedOnce
<1>1. IInv => AnalysedOnce
  BY DEF IInv, Inductive
<1> QED
  BY <1>1, Invariance, PTL

(* What awaits approval, or is approved, is the draft the user sees, from  *)
(* a parsed source; a run that failed proposes nothing, although fail()    *)
(* writes its status without a look at what others have done meanwhile.    *)
THEOREM ProposalsFit == Spec => []ProposalFitsRun
<1>1. IInv => ProposalFitsRun
  BY DraftAssumption DEF IInv, TypeOK, Inductive, StageFits, StatusFits, ProposalFitsRun
<1> QED
  BY <1>1, Invariance, PTL

--------------------------------------------------------------------------------
(* A late answer of a request meets the end of the run.                    *)

(* What a step may do to a run that has ended.                             *)
Silent ==
  Finished => /\ Finished'
              /\ \/ run' = "gone" /\ draft' = NoDraft /\ proposed' = NoDraft
                 \/ run # "gone" /\ UNCHANGED <<draft, proposed>>

LEMMA StepIsSilent ==
  ASSUME IInv, Step
  PROVE  Silent
<1> SUFFICES ASSUME Finished PROVE Silent
  BY DEF Silent
<1> USE DEF Silent, Finished, TerminalStates, plan, upload
<1>1. run = "gone" => draft = NoDraft /\ proposed = NoDraft
  BY DEF IInv, Inductive, StageFits, StatusFits
<1>2. ASSUME NEW s \in Sessions, NEW k \in Keys, UploadBegin(s, k)
      PROVE  Silent
  BY <1>2 DEF UploadBegin
<1>3. ASSUME NEW s \in Sessions, UploadDone(s) \/ UploadFails(s) \/ UploadUnanswered(s)
      PROVE  Silent
  BY <1>3, <1>1 DEF UploadDone, UploadFails, UploadUnanswered, UploadEnds
<1>4. ASSUME NEW s \in Sessions, ParseBegin(s) \/ ParseDone(s) \/ ParseFails(s)
      PROVE  Silent
  BY <1>4, <1>1, AnalysisMayFail DEF ParseBegin, ParseDone, ParseFails
<1>5. ASSUME NEW s \in Sessions, AnalyzeBegin(s) \/ AnalyzeFails(s) \/ AnalyzeRefused(s)
      PROVE  Silent
  BY <1>5, <1>1, AnalysisMayFail DEF AnalyzeBegin, AnalyzeFails, AnalyzeRefused
<1>6. ASSUME NEW s \in Sessions, NEW result \in Drafts, AnalyzeDone(s, result)
      PROVE  Silent
  BY <1>6, OnlyAnalyzingProceeds DEF AnalyzeDone
<1>7. ASSUME NEW d \in Drafts, UpdateActionItems(d) \/ EditSummary(d)
      PROVE  Silent
  BY <1>7 DEF UpdateActionItems, Editable, EditSummary
<1>8. ASSUME NEW status \in {"APPROVED", "REJECTED"}, Resolve(status)
      PROVE  Silent
  BY <1>8 DEF Resolve
<1>9. CASE RequestApproval \/ Cancel \/ RowsDeleted
  BY <1>9 DEF RequestApproval, Cancel, RowsDeleted
<1>10. ASSUME NEW s \in Sessions, FindsNoRows(s) \/ Crash(s)
       PROVE  Silent
  BY <1>10, <1>1 DEF FindsNoRows, Crash
<1> QED
  BY <1>2, <1>3, <1>4, <1>5, <1>6, <1>7, <1>8, <1>9, <1>10 DEF Step

(* An answer of the language model, or of the parser, that arrives after   *)
(* the run was cancelled, deleted or has failed proposes nothing, drafts   *)
(* nothing and does not bring the run back; nor does any other request.    *)
THEOREM LateAnswersAreSilent == Spec => EndedProposesNothing
<1>1. IInv /\ [Next]_vars => [Silent]_vars
  BY NextIsStep, StepIsSilent
<1> QED
  BY <1>1, Invariance, PTL DEF Spec, EndedProposesNothing, Silent
================================================================================
