# Relay: a TLA+ model of approvals, execution, drafting and planning

Relay turns notes, tasks and meetings into proposals, asks a person to approve
them, and only then writes to Notion, Google Calendar or GitHub. This directory
holds TLA+ modules of the backend (`src/backend/app`; paths below are relative
to it), the TLC configurations that check them on small instances, and TLAPS
proofs of the main properties for instances of every size. `PROJECT.json` ties
each definition to the lines it models and lists runs, mutants, hazards,
findings and theorems.

    tlc -config MCSingleExecution.cfg MCSingleExecution    # any run of the table below
    tlapm SingleExecution_proofs.tla                       # any *_proofs module

## 1. Inventory

### Parts, their state, and what makes them correct

| Part | State | Operations | Correct when |
|---|---|---|---|
| State machine (`domain/workflows.py`, `services/workflows.py`) | `WorkflowRun.status`, timestamps | `create`, `apply_transition` (with the approval gate), `request_approvals` | only listed transitions, terminal states stay, no APPROVED or QUEUED without every approval |
| Approvals (`services/approvals.py`) | `ApprovalRequest`, `ProposedAction` rows | `resolve` (approve, reject), LEARN `edit` and `update_destination` | one decision per action, of what was shown, agreeing with the run |
| LEARN and PLAN execution (`services/execution.py`, `workflows/study_plan/execution.py`) | run, action, `ExternalArtifact` rows, the runtime's execution | `execute` (first and retry), polling, settling | nothing written twice, outcome is the runtime's, doubt stays retryable |
| COLLABORATE execution (`workflows/project_meeting/execution.py`) | the same for several actions | a loop over actions, then one aggregate | each action at most once, records true, terminal run stays |
| Cancellation (`services/runtime_execution.py`) | run | `cancel` | confirmed by the runtime, effects recorded |
| LEARN and COLLABORATE drafting (`workflows/*/service.py`) | `SourceDocument`, stored file, `plan_payload` | upload, parse, summarize or analyze, edit, request approval | files match rows, one analysis, a late answer changes nothing |
| Meeting analysis and action planning (`workflows/project_meeting/`) | `plan_payload.transcript`, `action_items`, `ProjectMember` rows | parse, analyze, edit items, build actions | nothing that was not said, no owner guessed, nothing proposed for people or columns that do not exist |
| PLAN drafting (`workflows/study_plan/service.py`, `api/plan.py`) | `input_payload`, `plan_payload`, frozen payload | setup, availability, solve, adjust, lock, remove, export, request approval | what is approved is what is displayed; locks and breaks kept |
| Scheduler (`scheduling/`) | none | `solve`, `validate_session_adjustments`, slot arithmetic | hard constraints of ADR-020; work split without loss |
| Runtimes (`runtime/local.py`, `runtime/http.py`) | `LocalExecution` by idempotency key; the Agent Runtime is outside the repository | submit, get, cancel | one execution per key |
| Sources (`sources/`) | `ProjectSource`, `ProjectTask`, a run, action and approval per proposal | capture, edit, accept, reject, execute, manual tasks | a task exactly for what was accepted, with that content; no accepted proposal stranded |
| Connections (`connectors/*/auth.py`, `connectors/*/service.py`, `services/connections.py`) | `ConnectedAccount`, `OAuthState`, destinations | authorize, callback, refresh, select, disconnect, revoke | status says what the tokens are worth |
| Project publish and issue previews (`projects/`) | runs of their own, the Notion page | preview, confirm, reject, execute | the page is the approved snapshot; one open publication; it leads on |
| Profile reset, project deletion (`services/`) | everything | bulk deletes | late writes bring nothing back |
| Audit (`services/audit.py`) | `AuditEvent`, a watermark | `record` | order of events is order of effects |
| Documents, AI, provider clients, API routes, frontend | files; none | parsing, HTTP | not about interleavings |

### How they interact

Every HTTP request has one database session. `repo.run(lock=True)` is
`SELECT ... FOR UPDATE` with fresh values; the lock lasts until `commit()` or the
rollback that ends a failed request; objects keep their values after a commit
(`expire_on_commit=False`). So between a read under the lock and the next commit
a request is alone on its run, and everything else is a race. Execution,
drafting, availability, token refresh and callbacks all commit in the middle, for a slow call or to
publish progress. That cuts the steps of every module: what one request does
under one holding of the run's lock is one action, and each commit, unlocked
read and outside call starts another. In `SingleExecution` and
`CollaborateExecution` the transaction itself is modelled, because an external
write inside it survives its rollback.

The workflow services call `WorkflowService` and `ApprovalService` in their own
transaction; execution calls a `RuntimeClient`, which is either local (inline, in
the caller's transaction) or the Agent Runtime over HTTP.

### What is hard here

Two requests on one run; a lock given up and taken again; values read before an
await and written after it; an answer lost after the other side acted; a request
that dies between two commits; several actions, or several calls, of which some
fail; an abort that rolls back rows but not the outside world; arithmetic on slots
and minutes at the ends of windows. `PROJECT.json` lists the hazards at their lines,
with the properties that cover them or the reason none does.

## 2. Modules

| Module | Models | Notes |
|---|---|---|
| `RelayDomain` | statuses, the transition relation, the runtime status map, what may be retried | constants of the domain, shared by all |
| `ApprovalPlan` | one run from PLAN_READY to decided | any number of actions and requests; a request reads the approval first and decides under the lock, after a refresh |
| `ApprovedEffect` | the promise about side effects | abstract: let through, write, record |
| `SingleExecution` | execution, retry and cancel of a one-action run | refines `ApprovedEffect` |
| `CollaborateExecution` | the loop over several actions | refines `ApprovedEffect` |
| `DocumentAnalysis` | upload to proposal, LEARN and COLLABORATE, and deletion from under it | the two services are twins; `workflow` tells them apart where they differ |
| `MeetingPlanning` | what a COLLABORATE run makes of a meeting | pure operators for turns, items, owners and dates; steps where it waits |
| `PlanDrafting` | setup to the frozen plan | requests remember what they read without the lock |
| `StudyScheduler` | one call of the scheduler | arithmetic in minutes; an optimum, any solution, or none |
| `TaskProposals` | sources and the tasks proposed from them | three transactions of accept, unlocked edit |
| `Connections` | the accounts at one provider | tokens are numbered as issued |
| `ProjectPublishing` | previews, confirmations and the calls that write a page | uses the aggregate of `CollaborateExecution` for one action |
| `*_proofs` | theorems | one for each component, which it extends beside TLAPS; `Planning_proofs` is about three, `PlanDrafting`, `StudyScheduler` and `MeetingPlanning`, and begins with the lemmas they share about numbers, loops and folds |
| `MC*` | small instances | symmetry and nothing else |

The modules meet at the run's status and its rows: `ApprovalPlan` begins where
`DocumentAnalysis` and `PlanDrafting` freeze a proposal, and the execution
modules begin at its APPROVED state. `MeetingPlanning` fills in the draft that
`DocumentAnalysis` treats as a value, `StudyScheduler` the plan that `PlanDrafting`
takes from any feasible choice, `Connections` the account whose token refresh
commits in the middle of `PlanDrafting`. `TaskProposals` and `ProjectPublishing` have
runs of their own, from proposal to execution, because there all of it is one request. Both execution modules implement the same
`ApprovedEffect`, which is what the rest of the system may assume of them.

### ApprovalPlan

`run`, `actionStatus`, `payload`, `approvalStatus`, `original`, `approved` are
columns; a row that does not exist has status NONE. `decisionEvents` counts the
ACTION_APPROVED and ACTION_REJECTED audit events. `ResolveBegin` is the unlocked
read, `Approve`, `Reject` and `ResolveRefused` are the rest of `resolve`. `Edit`
and `UpdateDestination` are LEARN's, which keep the approval's copy in step while
it is pending. A payload is a content and a destination.

### SingleExecution

`exec` is what the runtime remembers for the key, `calls` counts provider writes
per item, `sent` collects the destinations that were submitted. `pc` follows a
request: the gap between the two transactions of `execute`, the submission, the
provider calls of the local runtime, the polls, the settling, a cancel that waits
for the runtime. A request that holds the lock counts the run as EXECUTING for
itself although that is uncommitted. `RollBack` and `Crash` take back the rows
and never `calls` or the Agent Runtime's `exec`. PLAN's service is the twin of
LEARN's with several items; both are mapped. The code after an unresolvable
answer, the settling with each snapshot status and the refused EXECUTING to
QUEUED transition are all steps.

### CollaborateExecution

One request walks the actions in any order (the query has no ORDER BY), keeps the
outcomes in memory, holds the locks of the action rows it has updated, commits
once, then takes the run's lock and settles. `WaitsFor`, `InDeadlock` and
`DeadlockDetected` are PostgreSQL: a deadlock is a group of requests each of which waits
for a row that another of the group has locked. `Shared` names the actions whose provider object has an artifact
already, or no id, so that success creates no row.

### DocumentAnalysis and PlanDrafting

Drafts, stored files, calendars and sessions are small sets. In `DocumentAnalysis`
a failing request writes the run it read before the slow call; `DeleteProject` and
`ResetHistory` delete the run's rows (`run = "gone"`) while others wait, and
`FindsNoRows` is what those others meet when they come back. The uploaded file stays
in the store after a deletion; nothing in the code removes it. In `PlanDrafting` a
session is one slot and the minimum break is one slot; the solver may return any
set that meets the constraints the code gives it. `memory` is what a request will
write back. `overwritten` remembers that an export or a calendar load put an older
payload back, the exception `CopiesAgree` names.

### MeetingPlanning

`lines` is the text: a line is blank, a time stamp with a speaker, text with a
speaker, plain text, or a label such as "Date:", and says whatever the patterns of
`analysis.py` find in it (a promise, a question, a deadline, a topic, a pull request
number). A name is the sequence of its words and a date a number of days, Monday
being 0. `Reading[n]` is the state of `parse_transcript`'s loop after n lines, a
recursive function over `ReadLine`, and `Committing[n]` that of the fallback's; the
property `TurnsAreKept` says what the turns have to be in another way, through the
line that begins a turn. `Candidates` and `Resolves` are `identity.py`, `RelativeDate`
is `deadlines.py`, `Planned` the planner, `Task` and `OnGitHub` the two builders of
`actions.py`, `WrittenColumns` is `build_task_properties`. `AnalyzeBegin` and
`AskApproval` read members and project (`seen`, `read`); `AnalyzeDone` and `Propose`
use what was read, after the model, GitHub or Notion has answered or failed to.
`held` remembers which login each member had since the approval was asked for.
`UpdateActionItems` stores any member of `Sent`, sequences of `PlannedAction`: the code
checks no more of an edit than the types of the fields, so a draft from the client may
cite turns and name members that do not exist, have any category, labels and pull
number, a deadline that is no date, and a destination twice. What says that a plan comes
from the meeting therefore speaks of plans with `edits = 0`; what is proposed is held to
account for any drafts. The destinations of a draft are a tuple as in the code, and an
action is told from another by draft and place in it. `Unbuildable` are the payloads
that raise (a GitHub title that is empty or over 255 characters, planned titles too, a
negative pull number, an unreadable date): the exception rolls all of `Propose` back. The
variables and the specification have names of their own (`meetingVars`, `MeetingSpec`),
because one module of proofs extends this one and `PlanDrafting`; `StudyScheduler` too.

### StudyScheduler

The steps of `solve()`: clip the windows to the study hours and the grid, take out
busy and locked time, offer the places, select, report. `Fragments` is
`decompose_minutes`, `Near` and `Conflict` are the sweep that adds the pairwise
constraints, `Feasible` all constraints of CP-SAT, `Value` its objective, `AdjustmentValid`
the validator. The solver may find an optimum, any solution before its time is up, or none.
`ScheduleKeepsRules` is two statements: `WorkIsSplit`, that the pieces add up to the work
and have legal lengths, and `RulesKept`, which states the rules minute by minute and
checks the solver against the validator, two pieces of code that were written separately.
`NothingLeftOut` says that the penalties of the objective never cost a piece that had a
place. `ProblemsAssumption` is what `scheduling/models.py` validates of a problem, and
that the names of the tasks, which stand for their ids, differ; `Latest < Day` holds
because `latest_study_time` is a time of day, which is before midnight.

### TaskProposals

`run`, `action`, `payload`, `approval`, `original`, `approved` are columns per
proposal, `work` the task rows. A request holds `data` (what the client sent) and
`changes` (which columns SQLAlchemy will write, because they differ from what was
read). `EditReadsApproval`, `EditReadsAction` and `EditEnds` are the unlocked edit, alone or as
the first transaction of accept; `AcceptResolves` is the second, `Start` the queueing
commit, `Succeeds` and `Fails` the rest. A capture proposes what `Interpreted` keeps of some
sequence of drafts (`Batches`). `ApproveOnly` is the general approval route,
which approves a task and leaves its execution to nobody.

### Connections

One number stands for an access token and the refresh token issued with it. Every
point where a callback, a refresh, a selection or an execution waits for the provider
or commits is a step; `UnderLock` lists where the account rows are locked. `expired`,
`rotated` and `withdrawn` are the provider's, `lost` remembers answers that brought a
new refresh token and never reached the database. A callback that finds its row
created by another one runs into the unique constraint (`AlreadyExists`).
`OldestUsable` is `connection()`: no usable account was created before it.
Google is assumed to return a refresh token whenever consent is given, which is what
`access_type=offline` with `prompt=consent` asks for. A refresh may be refused with a
token that is good: the code takes every answer of 400 or more for a refusal
(`RefreshDenied` has no guard on the token). EXPIRED therefore says that the access token
has run out, not that the refresh token is worth nothing, and `StatusMatchesTokens` that
an account connected again while Google was asked is never marked so. An execution that
Google or Notion refuses with 401 revokes the account as it is by then
(`ExecutionRefused`), also one that was connected again meanwhile; no document promises
otherwise and no property forbids it.

### ProjectPublishing

A run's number stands for the snapshot its preview froze; requests are named
apart from runs, because `raced` holds both. `callouts` is what the page
holds: each of Relay's callouts has a text and nested blocks. `ListsChildren`,
`Patches`, `ListsNested`, `Deletes`, `Appends`, `Migrates`, `AppendsCallout` are the calls of
`replace_page` in their order, any of which may fail (`CallFails`), succeed without Relay
learning of it (`Unlearned`), or meet the calls of another publication (`crossed`). `Open` is the
preview's search for a run to return in place of a new one.

## 3. What is checked

| Run | Bounds | Distinct states | Shows |
|---|---|---|---|
| `MCApprovalPlan` | 2 actions, 2 contents, 2 destinations, 2 requests | 16,346 | decisions, rows and run agree; decisions are final |
| `MCSingleExecution` | 2 items, 2 destinations, 2 requests, 2 polls | 16,833 | no double write, true outcome, every request ends, refinement |
| `MCCollaborateExecution` | 2 actions, 2 requests | 455,873 | the same for the loop, and no standstill |
| `MCDocumentAnalysis` | 2 drafts, 2 files, 2 requests | 489 | files and rows, one analysis, late answers, deletion |
| `MCMeetingPlanning` | 104 transcripts, 5 answers, 2 members, 1 change of the project, 1 edit to one of 8 lists of drafts | 298,032 | the first review is grounded in the meeting, the actions in the drafts |
| `MCPlanDrafting` | 3 slots, 1 task of 2 slots, 2 requests | 961,346 | frozen plan is the displayed one and stays |
| `MCStudyScheduler` | 2 tasks, 1.5 days of 10 minutes, slots of 2, 12 candidates, due in hours or in more than a week | 4,567 | pieces add up, hard rules, agreement with the validator, optimum leaves nothing out |
| `MCTaskProposals` | 1 proposal, 1 manual task, 2 works, 2 drafts, 2 requests | 349,702 | tasks are what was accepted; only a loss strands |
| `MCConnections` | 1 account, 2 authorizations, 3 tokens, 2 requests | 995,955 | status and tokens agree |
| `MCProjectPublishing` | 3 runs, 2 requests | 1,084,637 | page is the snapshot, no second page, no dead end |

Why these bounds are enough to meet the interesting cases: two actions make
siblings and a first and second outcome; two requests make every race in the
code, which never relates three; two destinations tell approved from changed; two
items make a partial result; two polls tell answered, given up and exhausted;
three slots hold a locked session with and without a break beside it. One proposal
is enough for the races of accept, since proposals share nothing but the tasks they
are compared with, for which there is a manual one; the model's answers of two drafts are
those of which a transcript's owners leave one. Three
tokens are a connection, a reconnection or refresh, and one more that crosses it.
Three runs are a publication, its successor, and a second one that races with it.
The scheduler's weights are the code's, a minute of the model being worth seven and a
half (15-minute slots are 2 long), an hour one; its problems begin at an odd minute,
end at the end of a study day or in the middle of the next, have work for less and for
more than fits, and sessions from half a slot to two and a half. Transcripts are all those of
up to two lines and those of three with a blank line or a stamp in the middle, which
is where a turn ends; the two rosters have one and two people with the same first
name. The drafts that clients send are one of each kind the code lets through and treats
in its own way: none, plain, a destination twice, references, members and categories
that do not exist, a review with a good and with a negative number, a date that is none,
a title that is empty. The meeting is on a Thursday, so the weekdays named lie before it in the week or on it.

Requests repeat without bound; only `MaxPolls` (the code's own
`agent_runtime_poll_attempts`), the `Keys` an upload can draw from (`DocumentAnalysis`),
`MaxProposals`, `MaxTokens`, `MaxRuns`, `MaxChanges`, `MaxEdits` (actions of these modules
stop when the bound is reached) and the finite sets bound the models. `Keys` limits how
many files exist at once, not how often upload is called.

Runs say `CHECK_DEADLOCK FALSE` because a run really ends: after a terminal status
most modules have nothing left to do. That requests do not block each other is
`RequestsEnd` and `SomeoneCanMove`.

Each property of a passing run has a mutant in its module, a `Mutant...` operator
written as a plausible slip in that place of the code, which breaks it.

### Fairness

Only `RequestsEnd` needs any. `FairSpec` assumes weak fairness of the progress of
each request: its awaits end (the HTTP client has a timeout, the number of polls is
bounded, and the event loop runs every ready task), and a holder of the row lock
goes on. Nothing is assumed of users, of the Agent Runtime's work, or of failures:
a runtime that never finishes is allowed.

### Where the code differs from what is said of it

Two runs state a sentence of a document, and TLC shows a behaviour of the code that
breaks it. The other claims below are operators in the last section of their module;
TLC refutes each in the same way when it is put in the cfg of that module's run.
`PROJECT.json` quotes the sentences.

| Claim | What happens |
|---|---|
| `TimeoutStaysRecoverable` (run `MCTimeoutRecoverable`) | a poll that times out leaves an EXECUTING run that nothing retries |
| `LocksKept` (run `MCLocksKept`) | a calendar load, export, lock or remove writes an older payload back over a lock |
| `SubmitsOnlyApproved` | the destination may be changed after approval and overlays the approved payload |
| `CancelRecordsEffects` | cancel after a lost answer ends the run without asking the runtime |
| `CompletedMeansAll` | with an action unfinished, the run takes the status of the first outcome |
| `TerminalExitsFail` | a failing analysis rewrites CANCELLED to FAILED from a stale object |
| `BreaksKept` | a new session may touch a locked one; the validator then refuses the plan |
| `DecidedRecordsStay` | a late edit rewrites the original payload of a decided approval |
| `MaximumKept` | sessions shorter than a slot make a negative piece, and `solve()` raises |
| `CloserIsMoreUrgent` | urgency is the task's, the same for all its slots, and earlier ones score higher |
| `DeadlinesResolve` | the fallback's "by Wednesday" never becomes a date |
| `OnePerDestination` | a client that lists a destination twice gets two actions of one item |
| `ColumnsFitSchema` | an owner, description or deadline is written to a column of any kind |

Seen while modelling and not stated as a run: an adjustment never clears an
INFEASIBLE status; a regeneration in which everything is locked is INFEASIBLE, so
it cannot be approved; a setup between the steps of `generate` makes the solver
ignore the calendar; an action that stays queued without an error code makes the
aggregate of COLLABORATE raise StopIteration after its commit; a failed task asks the
user to retry ("Please retry.", `sources/service.py:391`) although nothing accepts a
retry; a rejected issue blocks later issues of that task (`OpenLeadsOn` names it); a
Google selection that had to refresh the token checks the calendar against a list read
without the lock; deleting a project or the history leaves the uploaded file in the
store; two captures at once do not see each other's proposals as duplicates.

## 4. What is proved

Eight `*_proofs` modules prove, for any constants that meet the assumptions of the
modules they extend, every invariant and action property the runs check, except the
three named at the end of this section, and two refinements. The assumptions say that a
"no such thing" value is not a thing, that the bounds are numbers, that the actions of
one run are finite, and that transcripts, answers of the model and scheduling problems
are what the code's own types admit; nothing bounds the requests, the lines, the tasks
or the minutes.

Every proof has the same shape: `IInv` is the type invariant, the properties that are
inductive beside it and what they lack; `InvariantInit`, one lemma for each action
(`...KeepsInvariant`), `StepKeepsInvariant` over `Step`, which lists the cases of
`Next`, and `Invariance`; then each theorem from `IInv`. `SchedulerIInv` and `MeetingIInv`
are named apart, with `SchedulerStep` and `MeetingStep` over their actions. The two that were written
first, `ApprovalPlan_proofs` and `SingleExecution_proofs`, put the cases under
`IInvStep`.

**ApprovalPlan.** `TypeCorrect`, `RunAgreesWithDecisions`, `OpenApprovalsCanBeGranted`,
`ApprovalBindsTheProposal`, `DecidedAtMostOnce`, `DecisionsStand`. The inductive
invariant `IInv` adds `RowsTogether` to the checked ones: an action row exists exactly
when its approval row does, and none before approval is requested. Without it a
decision could meet an approval without a payload. `OneDecisionPerAction`, which only the proof
states now that `DecisionsAreFinal` is what the run checks, rests on the refresh under
the lock: the status read before it occurs nowhere in the proof.

**SingleExecution.** `TypeCorrect`, `SamePayloadPerKey`, `NothingWrittenTwice`,
`OutcomeIsTrue`, `CancelWaitsForRuntime`, `RetriesCanFinish`, `EndedStaysQuiet`, and
`KeepsThePromise` (it implements `ApprovedEffect`). `IInv` says
  - `LockIsHeld`: who is past its SELECT holds the lock, and only that one;
  - `Phases`: what a request finds in the run at each point. A QUEUED run without an
    error code admits nobody but cancel, so the request in the gap is alone;
  - `LocalRuntime`: writes, answer and end of the run are one transaction, nothing is
    in doubt, and a request that died after a write leaves a run nobody may retry;
  - `AgentRuntime`: it writes only while it finishes its one execution, so a final
    snapshot is the truth for good;
  - `Reports`: a report claims only items that were written, success claims all;
  - `OneDestination`: all submissions so far, and the next, agree.

`CancelIsConfirmed` and `RetryCanFinish` are conjuncts of the proof and no longer
properties of the run.

The two runtimes keep `WrittenAtMostOnce` for different reasons, which is why the
invariant has a part for each.

**CollaborateExecution.** `TypeCorrect`, `TrueRecords`, `LocalRunsOnce`, `EndIsFinal`,
`KeepsThePromise` (it implements `ApprovedEffect`), `LocksLeaveSomeoneMoving`. That no
action is written twice has again one reason for each runtime. `RuntimeWritesOnce`: the Agent Runtime writes when
its one execution succeeds. `LocalLoopsOnce`: the local runtime gives no doubtful
answer, a run is retried only after one, so one request alone is in the loop, and what
it wrote before a roll back nobody writes again. `BeforeTheLoop` is what makes that
request unique: QUEUED is committed by one request, and until it has looked at the
status again nothing has happened to any action. `ResultsAreTrue` ties the outcomes in
a request's memory to the runtime's executions, which `RecordsAreTrue` then says of the
rows. For the refinement each step is a write, a record, the release, or a stutter.

That no standstill arises for any number of requests needs one more invariant,
`LocksAreHeld`: a row is locked only by a request that is still in its loop. A request
that cannot go on then waits for rows that others hold who are under way too
(`StuckWaits`), so that when nobody can go on, all of those under way are one deadlock.
The run sees two requests and cycles of two; the theorem is about cycles of any length.

**DocumentAnalysis.** `TypeCorrect`, `StoreAgrees`, `ModelAskedOnce`, `ProposalsFit`,
`LateAnswersAreSilent`. `LockIsHeld` and `StoreMatches` follow an upload, whose file is
in the store before its row is; `OneWorker` says that whoever waits for the parser or
the model found the run as only the first can, so that the counter of model calls
cannot be raised again; `StageFits` and `StatusFits` tie the stage in `plan_payload`
to the source and the status. All of them have to hold of a deleted run too.

**PlanDrafting.** `TypeCorrect`, `FrozenPlan`, `PlanCopies`, `ReviewIsStable`. What a
calendar load puts back was read before the first solve and has no sessions
(`LoadsAreBare`, from `DraftIsBare`): this is why a late load can lose locks and not
the plan. `SolveFits` counts the sessions: locked and new ones together are never more
than there is to do.

**StudyScheduler.** `SchedulerInductive`, `SchedulesKeepRules`. There is one inductive
invariant, `SchedulerIInv`, and most of the work is in what the operators compute:
  - the pieces: `FragmentsFit` follows `decompose_minutes` through its cases, whole pieces
    and a rest, the rest merged, the rest enlarged from the piece before. The sum of a
    sequence is the last of its partial sums (`SumOfPieces`);
  - the free time: `SubtractLeaves` says what one busy interval leaves of a window,
    `SubtractAllLeaves` what all of them leave, and `FreeTimeFits` that what is left is
    in the window and in the hours of one day, and off everything busy or locked;
  - the places: `PlacesFit`, at any stride; `PlaceKeepsHours` is the same minute by
    minute, which needs the day of a minute to be the day of its place (`DayOf`);
  - the choice: `SelectedRest` gets the break between any two sessions from the pairwise
    constraints, although the sweep that adds them stops early; `SelectedWork` counts
    minutes; `SelectedIsValid` is the validator. Minutes are only added up over finite
    sets, so the candidates have to be shown finite (`OfferedIsFinite`).

That an optimum exists is not needed: `SchedulerStep` uses of it only that it is feasible.

**MeetingPlanning.** `MeetingInductive`, `MeetingTypeCorrect`, `PlansAreGrounded`,
`ProposalsAreGrounded`. The inductive invariant `MeetingIInv` adds `MeetingInOrder` (what
was parsed is what the text says, and nothing is there before the step that makes it),
`LoginsHeld` (while approval is asked for, the logins read are among those held) and
`DraftsStayGrounded`, all of which hold with any drafts in `Sent`, of which `SentTyped`
says nothing but the field types. `ParsedKeepsTurns` proves `TurnsAreKept` of the loop over the
lines: `TurnRead` is its loop invariant, kept by each kind of line
(`ReadLineKeepsTurns`). `RelativeDateFits` is the arithmetic of weekdays,
`ResolvedIsOnlyOne` the matching of names, `PlannedIsGrounded` the planner, which lists no
destination twice. `ProposeGrounds` says that every place among the destinations of the
drafts makes one action or is skipped (`BuiltOnce`), and that an action is built from
drafts and from facts read since the approval was asked for, whatever the project is by
then (`BuiltIsSupported`, which needs that nothing `Unbuildable` gets so far).

**How loops are proved.** The library's induction theorems cannot be used, so induction is
done in the first order: `UpToNumber` and `UpToSet` are induction with a set in the place of a
predicate, from the least counterexample. A recursive function is what TLA+ chooses
among the functions that meet its definition; `LoopHasStates` proves that there is one
for any loop over 1..n and `FoldHasResults` for the folds over finite sets of the community
modules, after which `ReadingDef`, `CommittingType`, `MinutesFold`, `SubtractFold` and
`SumOfPieces` unfold the definitions one step at a time.

**TaskProposals.** `TypeCorrect`, `AcceptedTasks`, `LossAloneStrands`, `OneExecutor`.
`HandsFit` is what survives between the three transactions of accept: from the
decision on, the approved payload is what this request sent and its run is as it left
it, or cancelled. `OneHand` excludes a second executor. `Numbered` says that the rows
are those up to some number, so that a capture never takes the number of a proposal
that somebody works on; `PayloadsTyped` covers payloads nobody reads any more.

**Connections.** `TypeCorrect`, `SoundAccounts`, `TokensBelongToOne`. `TokensDistinct` is
the heart: every token comes from one answer, is in one account, and what a request
still carries is stored nowhere. Without it the rotation of one account's refresh
token could void another's. `LockIsHeld` says that the account a refresh has locked
stays usable and keeps the access token that had run out, until it is saved or marked; `TokensIssued`
and `MemoryFits` are the bookkeeping. The two parts of `AccountsAreSound` are inductive
with these.

**ProjectPublishing.** `TypeCorrect`, `ApprovedSnapshot`, `OneCreation`, `OpenRunsLeadOn`,
`OneExecutor`. Three arguments share one invariant.
  - The page: `CrossingsNoted` says that who shares a page with a writer is marked, and
    `WritesAlone` what an unmarked request finds on it at each call of `replace_page`:
    its text, then its text over the blocks it has still to delete, then its snapshot.
  - The creation: `Claims` are the runs that have created something or whose creation
    would count. `OneClaim` allows one. A preview that did not race has read the latest
    page and no open run (`ReadsStand`), and a creation is either still being answered
    or recorded where the next preview looks (`MadeIsKnown`).
  - The open run: `RowsFit` and `MemoryFits` say how the three rows of a run go together
    and with its request, `NoneForgotten` that a run being executed has a request at it
    or was deserted.

**Assumed of the outside** (in `SingleExecution` and `CollaborateExecution`, part of the model and not proved): the
Agent Runtime keeps one execution per idempotency key, runs it once, does not change a
final status, and reports a succeeded execution together with its result
(`services/execution.py:150` treats a success without one as a failure).

**Checked by TLC only**:
  - `SingleExecution`'s `RequestsEnd` (liveness under fairness) and
    the second half of `CollaborateExecution`'s `SomeoneCanMove`, that a request for which
    `CanGoOn` holds has a step (ENABLED), which are outside what the
    provers do;
  - `StudyScheduler`'s `NothingLeftOut`. It is no theorem for every value of the
    constants: it rests on the numbers in `objectives.py`, by which a minute outweighs
    what the penalties and the other terms can add up to on the instances checked, and
    with other weights it is false;
  - the claims of documents that the code does not keep (section 3).

## 5. Not modelled, and why

  - Project planning (`projects/planning.py`): a query and an answer of the model that is
    shown and not stored; what the user accepts of it goes through `TaskProposals`.
  - Audit times: the order of events with equal clocks in several processes. The
    models count events or do without them.
  - CP-SAT's search; time zones; `weekend_available`, which nothing sets.
  - A source row's own status, and `api/learn.py`'s execute route, which calls the
    service that `SingleExecution` models.
  - The refresh tokens of Notion and GitHub, which the code stores and never uses.
  - `ProjectPublishing` over the Agent Runtime (the same calls happen outside the
    repository) and without a connection (refused before anything is stored).
  - Document parsers, AI prompts and answers, provider payloads and HTTP mapping: data;
    the models keep their outcome (works, fails, unknown).
  - Two first submissions of one key in the local runtime at once: the run's lock
    excludes them in LEARN and PLAN; in COLLABORATE a second loop begins only after a
    recoverable runtime error, which the local runtime never reports.
  - Ownership checks and authentication compare ids that never change.
  - The frontend keeps no state of its own that the backend relies on.

## 6. Plan

Done, each with its proofs:

 1. `RelayDomain`, `ApprovalPlan`
 2. `ApprovedEffect` and `SingleExecution`, refinement
 3. `CollaborateExecution`, refinement
 4. `DocumentAnalysis`, with deletion and reset
 5. `PlanDrafting`, `StudyScheduler`
 6. `TaskProposals`
 7. `Connections`
 8. `ProjectPublishing`
 9. `MeetingPlanning`

Left, with the reason:

  - a bound on the objective of the scheduler under which `NothingLeftOut` is a
    theorem. It needs a relation between the five weights, the length of the window
    and the number of tasks that the code nowhere states;
  - the liveness of `SingleExecution` and, in `CollaborateExecution`, that a request
    which can go on has a step, for provers that handle fairness and ENABLED;
  - `PlanDrafting` with `StudyScheduler` in the place of its own solver: the two agree on
    the constraints, but one counts slots and the other minutes.
