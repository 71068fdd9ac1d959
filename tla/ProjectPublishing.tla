--------------------------- MODULE ProjectPublishing ---------------------------
(***************************************************************************)
(* Publishing a project to its Notion page, or one of its tasks as a       *)
(* GitHub issue: previews that freeze a snapshot in a run of its own,      *)
(* confirmations that approve and execute it, and the calls that write a   *)
(* page.                                                                   *)
(*                                                                         *)
(* A preview reads without locks and commits twice.  A publication writes  *)
(* its page in several calls, any of which may fail, and two publications  *)
(* may write one page at the same time.  The local runtime makes the calls *)
(* inside the request; a run is executed once.                             *)
(*                                                                         *)
(* A run's number stands for the snapshot it publishes: title, tasks,      *)
(* sources and plan as the preview read them.                              *)
(*                                                                         *)
(* Sources: projects/{notion_publish,github_issues}.py,                    *)
(* connectors/notion/client.py, workflows/project_meeting/execution.py,    *)
(* services/{workflows,approvals,runtime_execution}.py, runtime/local.py.  *)
(***************************************************************************)
EXTENDS Integers, Sequences, FiniteSets, RelayDomain

CONSTANTS MaxRuns,   \* bound on the runs ever created
          Requests   \* concurrent HTTP requests

Runs == 1..MaxRuns
NoRun == 0

(* A request and a run are different things; raced holds both.             *)
ASSUME PublishingAssumption == MaxRuns \in Nat /\ Requests \cap Runs = {}

(* A page is named by the run that creates it; the first release of the    *)
(* publisher may have left one.                                            *)
OldPage == 0
Pages == {OldPage} \cup Runs
NoPage == -1

VARIABLES
  kind,      \* what is published: the project's "page", or a task's "issue"
  run,       \* WorkflowRun.status; "none" before the row exists
  action,    \* ProposedAction.status, likewise
  approval,  \* ApprovalRequest.status, likewise
  target,    \* existing_page_id of the frozen payload
  recorded,  \* pages with an ExternalArtifact row, in the order of created_at
  callouts,  \* Relay's callouts on each page
  old        \* the blocks of the first release are on OldPage

VARIABLES
  pc,        \* where each request is
  mine,      \* the run it works on
  page,      \* the page its preview has read
  todo,      \* the blocks it has listed and is to delete
  made,      \* history: runs that have created a page or an issue, except those
             \* whose creation Relay has not learned of and those that raced
  raced,     \* history: requests whose preview runs beside a change it should know,
             \* and the runs they created
  crossed,   \* history: requests that write a page while another one writes it
  deserted   \* history: runs whose request died while it executed them

rows == <<run, action, approval, target, recorded>>
notion == <<callouts, old>>
memory == <<mine, page, todo>>
history == <<made, raced, crossed, deserted>>
vars == <<kind, rows, notion, pc, memory, history>>

Init ==
  /\ kind \in {"page", "issue"}
  /\ run = [i \in Runs |-> "none"] /\ action = run /\ approval = run
  /\ target = [i \in Runs |-> NoPage]
  /\ \/ recorded = <<>> /\ old = FALSE
     \/ kind = "page" /\ recorded = <<OldPage>> /\ old = TRUE
  /\ callouts = [p \in Pages |-> <<>>]
  /\ pc = [r \in Requests |-> "idle"]
  /\ mine = [r \in Requests |-> NoRun]
  /\ page = [r \in Requests |-> NoPage]
  /\ todo = [r \in Requests |-> {}]
  /\ made = {} /\ raced = {} /\ crossed = {} /\ deserted = {}

Goto(r, label) == pc' = [pc EXCEPT ![r] = label]

End(r) ==
  /\ Goto(r, "idle")
  /\ mine' = [mine EXCEPT ![r] = NoRun]
  /\ page' = [page EXCEPT ![r] = NoPage]
  /\ todo' = [todo EXCEPT ![r] = {}]

Refused(r) ==
  /\ End(r) /\ raced' = raced \ {r} /\ crossed' = crossed \ {r}
  /\ UNCHANGED <<kind, rows, notion, made, deserted>>

--------------------------------------------------------------------------------
(* The preview.                                                            *)

(* Mutant: an action that is being executed no longer counts.              *)
MutantOpen == {i \in Runs : action[i] \in {"PROPOSED", "EDITED", "QUEUED", "EXECUTING"}}

(* The runs that a preview returns instead of making another: for a page   *)
(* those still under way, for an issue all that have not failed.           *)
Open ==
  {i \in Runs : action[i] \in
     IF kind = "page" THEN {"PROPOSED", "EDITED", "APPROVED", "QUEUED", "EXECUTING"}
     ELSE ActionStatus \ {"FAILED"}}

Previewing == {r \in Requests : pc[r] \in {"searching", "drafted"}}

LatestPage == IF recorded = <<>> THEN NoPage ELSE recorded[Len(recorded)]

(* The project, the latest artifact, the tasks and the sources.            *)
PreviewReads(r) ==
  /\ pc[r] = "idle" /\ \E i \in Runs : run[i] = "none"
  /\ page' = [page EXCEPT ![r] = LatestPage]
  /\ Goto(r, "searching")
  /\ UNCHANGED <<kind, rows, notion, mine, todo, history>>

PreviewFinds(r) ==
  /\ pc[r] = "searching" /\ Open # {}
  /\ Refused(r)

(* The snapshot is made and the run is created, for no project yet.        *)
PreviewCreates(r) ==
  /\ pc[r] = "searching" /\ Open = {}
  /\ \E i \in Runs :
       /\ run[i] = "none" /\ \A j \in 1..i - 1 : run[j] # "none"
       /\ run' = [run EXCEPT ![i] = "DRAFT"]
       /\ mine' = [mine EXCEPT ![r] = i]
  /\ Goto(r, "drafted")
  /\ UNCHANGED <<kind, action, approval, target, recorded, notion, page, todo, history>>

(* The second commit: the project, the action and its approval.            *)
PreviewCommits(r) ==
  /\ pc[r] = "drafted" /\ CanTransition(run[mine[r]], "ANALYZING")
  /\ LET i == mine[r]
     IN  /\ run' = [run EXCEPT ![i] = "AWAITING_APPROVAL"]
         /\ action' = [action EXCEPT ![i] = "PROPOSED"]
         /\ approval' = [approval EXCEPT ![i] = "PENDING"]
         /\ target' = [target EXCEPT ![i] = page[r]]
         /\ raced' = ((raced \cup Previewing) \ {r}) \cup (IF r \in raced THEN {i} ELSE {})
  /\ End(r)
  /\ UNCHANGED <<kind, recorded, notion, made, crossed, deserted>>

PreviewRefused(r) ==
  /\ pc[r] = "drafted" /\ ~CanTransition(run[mine[r]], "ANALYZING")
  /\ Refused(r)

--------------------------------------------------------------------------------
(* Decisions.                                                              *)

Resolvable(i) ==
  run[i] = "AWAITING_APPROVAL" /\ approval[i] = "PENDING" /\ action[i] \in {"PROPOSED", "EDITED"}

(* A confirmation that finds the approval pending.                         *)
Confirm(r, i) ==
  /\ pc[r] = "idle" /\ Resolvable(i)
  /\ run' = [run EXCEPT ![i] = "APPROVED"]
  /\ action' = [action EXCEPT ![i] = "APPROVED"]
  /\ approval' = [approval EXCEPT ![i] = "APPROVED"]
  /\ mine' = [mine EXCEPT ![r] = i]
  /\ Goto(r, "resolved")
  /\ UNCHANGED <<kind, target, recorded, notion, page, todo, history>>

Reject(i) ==
  /\ Resolvable(i)
  /\ run' = [run EXCEPT ![i] = "REJECTED"]
  /\ action' = [action EXCEPT ![i] = "REJECTED"]
  /\ approval' = [approval EXCEPT ![i] = "REJECTED"]
  /\ UNCHANGED <<kind, target, recorded, notion, pc, memory, history>>

(* The run has no runtime_execution_id: nothing but its status changes.    *)
Cancel(i) ==
  /\ run[i] \in WorkflowStatus \ TerminalStates
  /\ run' = [run EXCEPT ![i] = "CANCELLED"]
  /\ deserted' = deserted \ {i}
  /\ UNCHANGED <<kind, action, approval, target, recorded, notion, pc, memory, made, raced, crossed>>

--------------------------------------------------------------------------------
(* Execution, up to the first call.                                        *)

(* execute(), after this request's approval or an earlier one.             *)
Enqueue(r, i) ==
  /\ \/ pc[r] = "resolved" /\ mine[r] = i
     \/ pc[r] = "idle" /\ approval[i] = "APPROVED"
  /\ run[i] = "APPROVED"
  /\ run' = [run EXCEPT ![i] = "QUEUED"]
  /\ mine' = [mine EXCEPT ![r] = i]
  /\ Goto(r, "queued")
  /\ UNCHANGED <<kind, action, approval, target, recorded, notion, page, todo, history>>

EnqueueRefused(r) ==
  /\ pc[r] = "resolved" /\ run[mine[r]] # "APPROVED"
  /\ Refused(r)

Starts(r) ==
  /\ pc[r] = "queued" /\ CanTransition(run[mine[r]], "EXECUTING")
  /\ run' = [run EXCEPT ![mine[r]] = "EXECUTING"]
  /\ Goto(r, "calling")
  /\ UNCHANGED <<kind, action, approval, target, recorded, notion, memory, history>>

StartRefused(r) ==
  /\ pc[r] = "queued" /\ ~CanTransition(run[mine[r]], "EXECUTING")
  /\ Refused(r)

--------------------------------------------------------------------------------
(* The calls.                                                              *)

To(r) == target[mine[r]]

Snapshot(i) == [text |-> i, nested |-> {i}]

Calling(r) == UNCHANGED <<kind, rows, mine, page>>

(* create_page() or create_issue(): one call.                              *)
CreatesObject(r) ==
  /\ pc[r] = "calling" /\ To(r) = NoPage
  /\ made' = made \cup ({mine[r]} \ raced) /\ raced' = raced \ {mine[r]}
  /\ callouts' = [callouts EXCEPT ![mine[r]] = IF kind = "page" THEN <<Snapshot(mine[r])>> ELSE <<>>]
  /\ Goto(r, "answered")
  /\ Calling(r) /\ UNCHANGED <<old, todo, crossed, deserted>>

Writers(p) ==
  {q \in Requests : pc[q] \in {"patching", "listing", "deleting", "migrating"} /\ To(q) = p}

Finished(p) == {q \in Requests : pc[q] = "answered" /\ To(q) = p}

(* replace_page(): the title, and what is on the page.                     *)
ListsChildren(r) ==
  /\ pc[r] = "calling" /\ To(r) # NoPage
  /\ IF callouts[To(r)] # <<>>
     THEN Goto(r, "patching") /\ UNCHANGED todo
     ELSE /\ Goto(r, "migrating")
          /\ todo' = [todo EXCEPT ![r] = IF old THEN {OldPage} ELSE {}]
  /\ crossed' = crossed \cup Writers(To(r)) \cup Finished(To(r))
                        \cup (IF Writers(To(r)) # {} THEN {r} ELSE {})
  /\ Calling(r) /\ UNCHANGED <<notion, made, raced, deserted>>

Patches(r) ==
  /\ pc[r] = "patching"
  /\ callouts' = [callouts EXCEPT ![To(r)][1].text = mine[r]]
  /\ Goto(r, "listing")
  /\ Calling(r) /\ UNCHANGED <<old, todo, history>>

(* Mutant: what is in the callout is not looked at.                        *)
MutantListed(p) == {}

Listed(p) == callouts[p][1].nested

ListsNested(r) ==
  /\ pc[r] = "listing"
  /\ todo' = [todo EXCEPT ![r] = Listed(To(r))]
  /\ Goto(r, "deleting")
  /\ Calling(r) /\ UNCHANGED <<notion, history>>

(* A block that another publication has deleted is an error.               *)
Deletes(r, i) ==
  /\ pc[r] = "deleting" /\ i \in todo[r]
  /\ IF i \in callouts[To(r)][1].nested
     THEN /\ callouts' = [callouts EXCEPT ![To(r)][1].nested = @ \ {i}]
          /\ todo' = [todo EXCEPT ![r] = @ \ {i}]
          /\ UNCHANGED pc
     ELSE Goto(r, "failed") /\ todo' = [todo EXCEPT ![r] = {}] /\ UNCHANGED callouts
  /\ Calling(r) /\ UNCHANGED <<old, history>>

Appends(r) ==
  /\ pc[r] = "deleting" /\ todo[r] = {}
  /\ callouts' = [callouts EXCEPT ![To(r)][1].nested = @ \cup {mine[r]}]
  /\ Goto(r, "answered")
  /\ Calling(r) /\ UNCHANGED <<old, todo, history>>

(* The page of the first release: its blocks, as they were listed, give    *)
(* way to a callout.                                                       *)
Migrates(r) ==
  /\ pc[r] = "migrating" /\ todo[r] # {}
  /\ IF old THEN old' = FALSE /\ UNCHANGED pc ELSE Goto(r, "failed") /\ UNCHANGED old
  /\ todo' = [todo EXCEPT ![r] = {}]
  /\ Calling(r) /\ UNCHANGED <<callouts, history>>

AppendsCallout(r) ==
  /\ pc[r] = "migrating" /\ todo[r] = {}
  /\ callouts' = [callouts EXCEPT ![To(r)] = Append(@, Snapshot(mine[r]))]
  /\ Goto(r, "answered")
  /\ Calling(r) /\ UNCHANGED <<old, todo, history>>

Executing == {"calling", "patching", "listing", "deleting", "migrating", "answered"}

Unlearned(r) == IF pc[r] = "answered" /\ To(r) = NoPage THEN {mine[r]} ELSE {}

(* A call is refused, or its answer does not arrive: submit_execution()    *)
(* catches every error.                                                    *)
CallFails(r) ==
  /\ pc[r] \in Executing
  /\ Goto(r, "failed")
  /\ made' = made \ Unlearned(r)
  /\ todo' = [todo EXCEPT ![r] = {}] /\ crossed' = crossed \ {r}
  /\ UNCHANGED <<kind, rows, notion, mine, page, raced, deserted>>

--------------------------------------------------------------------------------
(* The end of an execution.                                                *)

(* The commit of the loop; a page that has an artifact keeps it.           *)
Succeeds(r) ==
  /\ pc[r] = "answered"
  /\ action' = [action EXCEPT ![mine[r]] = "COMPLETED"]
  /\ recorded' = IF kind = "page" /\ To(r) = NoPage THEN Append(recorded, mine[r]) ELSE recorded
  /\ raced' = raced \cup Previewing /\ crossed' = crossed \ {r}
  /\ Goto(r, "completing")
  /\ UNCHANGED <<kind, run, approval, target, notion, memory, made, deserted>>

(* Mutant: the action of a call that failed stays as it was.               *)
MutantAfterFailure == "EXECUTING"

(* Mutant: it is cancelled, which only a run can be.                       *)
MutantCancelled == "CANCELLED"

AfterFailure == "FAILED"

Fails(r) ==
  /\ pc[r] = "failed"
  /\ action' = [action EXCEPT ![mine[r]] = AfterFailure]
  /\ raced' = raced \cup Previewing /\ crossed' = crossed \ {r}
  /\ Goto(r, "failing")
  /\ UNCHANGED <<kind, run, approval, target, recorded, notion, memory, made, deserted>>

Outcome(r) == IF pc[r] = "completing" THEN "COMPLETED" ELSE "FAILED"

Settles(r) ==
  /\ pc[r] \in {"completing", "failing"}
  /\ run[mine[r]] = "EXECUTING"
  /\ run' = [run EXCEPT ![mine[r]] = Outcome(r)]
  /\ End(r)
  /\ UNCHANGED <<kind, action, approval, target, recorded, notion, history>>

SettleRefused(r) ==
  /\ pc[r] \in {"completing", "failing"}
  /\ run[mine[r]] # "EXECUTING"
  /\ Refused(r)

(* The process stops: what is not committed is lost.                       *)
Dies(r) ==
  /\ pc[r] # "idle"
  /\ End(r) /\ raced' = raced \ {r} /\ crossed' = crossed \ {r}
  /\ made' = made \ Unlearned(r)
  /\ deserted' = IF pc[r] \in Executing \cup {"queued", "failed"} /\ run[mine[r]] # "CANCELLED"
                 THEN deserted \cup {mine[r]} ELSE deserted
  /\ UNCHANGED <<kind, rows, notion>>

Progress(r) ==
  \/ PreviewFinds(r)
  \/ PreviewCreates(r)
  \/ PreviewCommits(r)
  \/ PreviewRefused(r)
  \/ EnqueueRefused(r)
  \/ Starts(r)
  \/ StartRefused(r)
  \/ CreatesObject(r)
  \/ ListsChildren(r)
  \/ Patches(r)
  \/ ListsNested(r)
  \/ \E i \in Runs : Deletes(r, i)
  \/ Appends(r)
  \/ Migrates(r)
  \/ AppendsCallout(r)
  \/ CallFails(r)
  \/ Succeeds(r)
  \/ Fails(r)
  \/ Settles(r)
  \/ SettleRefused(r)

Next ==
  \/ \E r \in Requests : PreviewReads(r)
  \/ \E r \in Requests : Progress(r)
  \/ \E r \in Requests, i \in Runs : Confirm(r, i)
  \/ \E r \in Requests, i \in Runs : Enqueue(r, i)
  \/ \E i \in Runs : Reject(i)
  \/ \E i \in Runs : Cancel(i)
  \/ \E r \in Requests : Dies(r)

Spec == Init /\ [][Next]_vars

--------------------------------------------------------------------------------
(* Properties.                                                             *)

(* The values the columns and the requests' memories range over.           *)
TypeOK ==
  /\ kind \in {"page", "issue"}
  /\ run \in [Runs -> WorkflowStatus \cup {"none"}]
  /\ action \in [Runs -> ActionStatus \cup {"none"}]
  /\ approval \in [Runs -> ApprovalStatus \cup {"none"}]
  /\ target \in [Runs -> Pages \cup {NoPage}]
  /\ recorded \in Seq(Pages)
  /\ callouts \in [Pages -> Seq([text : Runs, nested : SUBSET Runs])]
  /\ old \in BOOLEAN
  /\ pc \in [Requests -> {"idle", "searching", "drafted", "resolved", "queued", "failed",
                          "completing", "failing"} \cup Executing]
  /\ mine \in [Requests -> Runs \cup {NoRun}]
  /\ page \in [Requests -> Pages \cup {NoPage}]
  /\ todo \in [Requests -> SUBSET Pages]
  /\ raced \subseteq Requests \cup Runs
  /\ crossed \subseteq Requests /\ made \subseteq Runs /\ deserted \subseteq Runs

(* A publication that no other one crosses leaves on the page exactly the  *)
(* snapshot that was approved, whatever failed or crossed before it:       *)
(* Relay's callout says and holds this snapshot and no other, it is the    *)
(* only one except on a page of the first release, and the blocks of that  *)
(* release are gone.                                                       *)
PageIsSnapshot ==
  \A r \in Requests :
    pc[r] = "answered" /\ kind = "page" /\ r \notin crossed =>
      LET p == IF To(r) = NoPage THEN mine[r] ELSE To(r)
      IN  /\ callouts[p][1] = Snapshot(mine[r])
          /\ IF p = OldPage THEN ~old ELSE Len(callouts[p]) = 1

(* A project gets a second page, and a task a second issue, only by a      *)
(* preview that raced with another preview or with an execution's commit,  *)
(* or after a creation that Relay did not learn of.                        *)
SecondOnlyByRaceOrLoss == Cardinality(made) <= 1

(* A run that previews return instead of making a new one leads on: it can *)
(* be confirmed, or executed, or a request executes it, or the issue is    *)
(* there.  Only a cancelled run, one whose request died and a rejected     *)
(* issue stand in the way of every later publication.                      *)
OpenLeadsOn ==
  \A i \in Open :
    \/ Resolvable(i)
    \/ run[i] = "APPROVED" /\ approval[i] = "APPROVED"
    \/ \E r \in Requests : mine[r] = i /\ pc[r] \in Executing \cup {"queued", "failed"}
    \/ action[i] = "COMPLETED"
    \/ run[i] = "CANCELLED"
    \/ i \in deserted
    \/ kind = "issue" /\ run[i] = "REJECTED"
================================================================================
