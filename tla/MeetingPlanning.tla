---------------------------- MODULE MeetingPlanning ----------------------------
(***************************************************************************)
(* What a COLLABORATE run makes of a meeting: the transcript cut into      *)
(* turns, the action items the model or the fallback finds in it, the      *)
(* drafts planned from them with owners and dates, the user's edits, and   *)
(* the typed actions that are put up for approval.  The project's members  *)
(* and destinations are edited by other requests all the while: analyze    *)
(* and request_approval read them first and then wait for the model, or    *)
(* for GitHub and Notion.  The run's statuses, failures and cancellation   *)
(* are in DocumentAnalysis.                                                *)
(*                                                                         *)
(* A date is a number of days, 0 being a Monday; a name is the sequence of *)
(* its words in lower case; what a line says is a record of what the       *)
(* patterns of analysis.py find in it.  A title is "empty", "fits" or is   *)
(* "long", which is more than the 255 characters that GitHub takes; a      *)
(* description is "empty" or "given".                                      *)
(*                                                                         *)
(* Sources: workflows/project_meeting/ (transcript.py, analysis.py,        *)
(* identity.py, deadlines.py, actions.py, service.py),                     *)
(* connectors/notion/action_items.py, services/projects.py.                *)
(***************************************************************************)
EXTENDS Integers, Sequences, FiniteSets, SequencesExt

CONSTANTS
  Transcripts,    \* the texts users upload: sequences of lines
  Answers,        \* what the model answers: [decisions, items]
  MeetingDays,    \* dates of meetings
  MemberIds,      \* ids of project members
  Persons,        \* what a member can be: [name, github]
  Rosters,        \* members a project has at first
  NoMember, NoName, NoLogin, NoPhrase, NoDate,
  Sent,           \* the tuples of PlannedAction that clients send as edits
  Unreadable,     \* a deadline_date that is no date
  Collaborators,  \* logins GitHub lists for the repository
  RepositoryLabels,
  Columns,        \* columns the project maps to its Notion database, the title aside
  Schemas,        \* kinds of the database's columns, as Notion answers
  NoSchema,       \* not asked for, or no answer
  MaxChanges,     \* edits of the project
  MaxEdits        \* edits of the drafts

Titles == {"empty", "fits", "long"}
Descriptions == {"empty", "given"}

(* PlannedAction, with no more checked of it than its field types: members,*)
(* references, categories and labels are texts like any other, deadlines   *)
(* need be no dates, and destinations may come twice.                      *)
PlannedAction(draft) ==
  /\ DOMAIN draft = {"owner", "category", "refs", "member", "identity", "due", "date", "to",
                     "labels", "pull", "title", "description"}
  /\ draft.to \in Seq({"notion", "github"}) /\ draft.pull \in Int
  /\ draft.date \in Nat \cup {NoDate, Unreadable}
  /\ draft.title \in Titles /\ draft.description \in Descriptions

ASSUME MeetingAssumption ==
  /\ MeetingDays \subseteq Nat /\ MaxChanges \in Nat /\ MaxEdits \in Nat
  /\ Rosters \subseteq [MemberIds -> Persons \cup {NoMember}]
  /\ NoMember \notin MemberIds /\ NoMember \notin Persons
  /\ Columns \subseteq {"description", "owner", "deadline", "status"}
  /\ NoSchema \notin Schemas /\ IsFiniteSet(MemberIds)
  /\ \A text \in Transcripts :
       /\ text \in Seq(Range(text))
       /\ \A n \in DOMAIN text :
            /\ text[n].form \in {"blank", "stamp", "spoken", "plain", "label"}
            /\ text[n].says.pull \in Nat
  /\ \A answer \in Answers :
       /\ answer.items \in Seq(Range(answer.items))
       /\ \A k \in DOMAIN answer.items :
            LET item == answer.items[k] IN
            /\ item.pull \in Nat /\ item.title \in Titles /\ item.description \in Descriptions
            /\ item.due # NoPhrase => item.due.of.n \in Nat
            /\ item.due # NoPhrase /\ item.due.of.when \in {"weekday", "next weekday"} =>
                 item.due.of.n \in 0..6
  /\ \A items \in Sent :
       items \in Seq(Range(items)) /\ \A k \in DOMAIN items : PlannedAction(items[k])

VARIABLES
  lines,      \* the uploaded text
  day,        \* plan_payload.meeting_date
  stage,      \* of plan_payload, with the waits of analyze and request_approval
  segments,   \* plan_payload.transcript
  drafts,     \* plan_payload.action_items
  members,    \* ProjectMember rows of the project, by id
  repository, \* the project names a GitHub repository
  database,   \* the project names a Notion database
  seen,       \* members, repository and database as analyze read them
  read,       \* the same as request_approval read them, and the columns Notion answered
  actions,    \* ProposedActions of the run
  skipped,    \* what ACTION_ITEMS_SKIPPED lists
  held,       \* <<member, login>> pairs the project had since the approval was asked for
  changes,    \* edits of the project so far
  edits       \* edits of the drafts so far

project == <<members, repository, database>>
meetingVars == <<lines, day, stage, segments, drafts, project, seen, read, actions, skipped,
          held, changes, edits>>

Current == [members |-> members, repository |-> repository, database |-> database,
            schema |-> NoSchema]

Logins(table) ==
  {<<m, table[m].github>> : m \in {n \in MemberIds : table[n] # NoMember}}

MeetingInit ==
  /\ lines \in Transcripts /\ day \in MeetingDays
  /\ stage = "uploaded" /\ segments = <<>> /\ drafts = <<>>
  /\ members \in Rosters /\ repository = TRUE /\ database = TRUE
  /\ seen = Current /\ read = Current
  /\ actions = {} /\ skipped = {} /\ held = {} /\ changes = 0 /\ edits = 0

--------------------------------------------------------------------------------
(* parse_transcript: lines are read into turns of one speaker.  A segment  *)
(* keeps the numbers of its lines; its id is its place.                    *)

Flushed(t) ==
  IF t.words = <<>> THEN t
  ELSE [t EXCEPT !.words = <<>>,
          !.done = Append(@, [speaker |-> t.speaker, stamped |-> t.stamped, words |-> t.words])]

(* A line with a speaker begins a turn, and so does a time stamp with a    *)
(* speaker and nothing else; "Date:" and the like are text; an empty line  *)
(* ends the turn.                                                          *)
ReadLine(t, n) ==
  LET line == lines[n] IN
  CASE line.form = "blank" -> [Flushed(t) EXCEPT !.speaker = NoName, !.stamped = FALSE]
    [] line.form = "stamp" -> [Flushed(t) EXCEPT !.speaker = line.who, !.stamped = TRUE]
    [] line.form = "spoken" ->
         [Flushed(t) EXCEPT !.speaker = line.who, !.stamped = FALSE, !.words = <<n>>]
    [] line.form \in {"plain", "label"} -> [t EXCEPT !.words = Append(@, n)]

(* The turns done and the one begun, after n lines.                        *)
Reading[n \in 0..Len(lines)] ==
  IF n = 0 THEN [done |-> <<>>, speaker |-> NoName, stamped |-> FALSE, words |-> <<>>]
  ELSE ReadLine(Reading[n - 1], n)

Parsed == Flushed(Reading[Len(lines)]).done

Parse ==
  /\ stage = "uploaded"
  /\ segments' = Parsed
  /\ stage' = IF Parsed = <<>> THEN "failed" ELSE "transcript_ready"
  /\ UNCHANGED <<lines, day, drafts, project, seen, read, actions, skipped, held, changes, edits>>

--------------------------------------------------------------------------------
(* The fallback, for a model that found no action item: what speakers say  *)
(* they will do.                                                           *)

(* The text of a segment from the first "I will" on; <<>> without one.     *)
Commitment(segment) ==
  LET said == [k \in DOMAIN segment.words |-> lines[segment.words[k]].says]
      from == {k \in DOMAIN said : said[k].promises} IN
  IF from = {} THEN <<>>
  ELSE SubSeq(said, Min(from), Len(said))

(* A question is no commitment.                                            *)
Commits(segment) ==
  LET body == Commitment(segment) IN body # <<>> /\ ~Last(body).asks

(* The first phrase with a preposition, which stays part of it.            *)
ExtractedDeadline(body) ==
  LET due == {k \in DOMAIN body : body[k].due # NoPhrase} IN
  IF due = {} THEN NoPhrase ELSE [by |-> TRUE, of |-> body[Min(due)].due]

Category(body) ==
  LET topics == {body[k].topic : k \in DOMAIN body} IN
  IF "REVIEW_REQUEST" \in topics THEN "REVIEW_REQUEST"
  ELSE IF "TECHNICAL_TASK" \in topics THEN "TECHNICAL_TASK" ELSE "GENERAL_TASK"

(* The number of the pull request a review request names, 0 for none.      *)
PullNumber(body) ==
  LET numbers == {k \in DOMAIN body : body[k].pull # 0} IN
  IF numbers = {} \/ Category(body) # "REVIEW_REQUEST" THEN 0 ELSE body[Min(numbers)].pull

(* Titles are cut at the deadline.                                         *)
Title(body) ==
  LET due == {k \in DOMAIN body : body[k].due # NoPhrase} IN
  IF due = {} THEN body ELSE SubSeq(body, 1, Min(due))

(* Two segments with one speaker and one title make one item.              *)
SameItem(segment, other) ==
  /\ segment.speaker = other.speaker
  /\ Title(Commitment(segment)) = Title(Commitment(other))

(* Of the first n segments those that make an item.                        *)
Committing[n \in 0..Len(segments)] ==
  IF n = 0 THEN <<>>
  ELSE IF /\ Commits(segments[n])
          /\ \A m \in 1..(n - 1) : Commits(segments[m]) => ~SameItem(segments[m], segments[n])
  THEN Append(Committing[n - 1], n) ELSE Committing[n - 1]

FallbackItem(n) ==
  LET body == Commitment(segments[n])
      Long == \E k \in DOMAIN Title(body) : Title(body)[k].long IN
  [owner |-> segments[n].speaker, due |-> ExtractedDeadline(body), category |-> Category(body),
   pull |-> PullNumber(body), refs |-> {n},
   title |-> IF Long THEN "long" ELSE "fits", description |-> "given"]

FallbackItems ==
  LET first == Committing[Len(segments)] IN [k \in DOMAIN first |-> FallbackItem(first[k])]

ActionItems(answer) == IF answer.items = <<>> THEN FallbackItems ELSE answer.items

(* Mutant: only the decisions are looked at.                               *)
MutantReferencesValid(answer) == answer.decisions \subseteq DOMAIN segments

(* validate_references                                                     *)
ReferencesValid(answer) ==
  LET items == ActionItems(answer) IN
  answer.decisions \cup UNION {items[k].refs : k \in DOMAIN items} \subseteq DOMAIN segments

--------------------------------------------------------------------------------
(* ActionPlanner                                                           *)

(* Members with the whole name, or else those with the first name.         *)
Candidates(owner, table) ==
  LET known == {m \in MemberIds : table[m] # NoMember}
      exact == {m \in known : table[m].name = owner} IN
  IF exact # {} THEN exact ELSE {m \in known : <<Head(table[m].name)>> = owner}

(* Mutant: of several candidates one is taken.                             *)
MutantResolves(found) == found # {}

Resolves(found) == Cardinality(found) = 1

Identity(owner, table) ==
  LET found == Candidates(owner, table) IN
  IF owner = NoName THEN [status |-> "unspecified", member |-> NoMember]
  ELSE IF Resolves(found) THEN [status |-> "resolved", member |-> CHOOSE m \in found : TRUE]
  ELSE [status |-> IF found = {} THEN "unresolved" ELSE "ambiguous", member |-> NoMember]

Weekday(date) == date % 7

DaysUntil(weekday) == (weekday + 7 - Weekday(day)) % 7

(* resolve_relative_date: days after the meeting.  "Next Monday", said on  *)
(* a Monday, is in a week.                                                 *)
RelativeDate(phrase) ==
  IF phrase = NoPhrase \/ phrase.by THEN NoDate
  ELSE CASE phrase.of.when = "today" -> day
         [] phrase.of.when = "tomorrow" -> day + 1
         [] phrase.of.when = "next week" -> day + 7
         [] phrase.of.when = "in days" -> day + phrase.of.n
         [] phrase.of.when = "weekday" -> day + DaysUntil(phrase.of.n)
         [] phrase.of.when = "next weekday" ->
              day + (IF DaysUntil(phrase.of.n) = 0 THEN 7 ELSE DaysUntil(phrase.of.n))
         [] OTHER -> NoDate

DefaultDestinations(category, pull, hasRepository) ==
  CASE category = "REVIEW_REQUEST" -> IF hasRepository /\ pull # 0 THEN <<"github">> ELSE <<>>
    [] category = "TECHNICAL_TASK" ->
         IF hasRepository THEN <<"notion", "github">> ELSE <<"notion">>
    [] OTHER -> <<"notion">>

Planned(item, from) ==
  LET identity == Identity(item.owner, from.members) IN
  [owner |-> item.owner, category |-> item.category, refs |-> item.refs,
   member |-> identity.member, identity |-> identity.status,
   due |-> item.due, date |-> RelativeDate(item.due),
   to |-> DefaultDestinations(item.category, item.pull, from.repository),
   labels |-> {}, pull |-> item.pull, title |-> item.title,
   description |-> item.description]

--------------------------------------------------------------------------------
(* analyze: project and members are read before the model is asked.        *)

AnalyzeBegin ==
  /\ stage = "transcript_ready"
  /\ stage' = "analyzing" /\ seen' = Current
  /\ UNCHANGED <<lines, day, segments, drafts, project, read, actions, skipped, held, changes,
                 edits>>

AnalyzeDone(answer) ==
  /\ stage = "analyzing"
  /\ IF ReferencesValid(answer)
     THEN /\ stage' = "plan_ready"
          /\ drafts' = [k \in DOMAIN ActionItems(answer) |-> Planned(ActionItems(answer)[k], seen)]
     ELSE stage' = "failed" /\ UNCHANGED drafts
  /\ UNCHANGED <<lines, day, segments, project, seen, read, actions, skipped, held, changes,
                 edits>>

(* update_action_items stores whatever PlannedActions the client sends.    *)
UpdateActionItems(items) ==
  /\ stage = "plan_ready" /\ edits < MaxEdits
  /\ drafts' = items /\ edits' = edits + 1
  /\ UNCHANGED <<lines, day, stage, segments, project, seen, read, actions, skipped, held,
                 changes>>

--------------------------------------------------------------------------------
(* request_approval                                                        *)

(* Mutant: what the drafts were planned with.                              *)
MutantReadAgain == seen

ReadAgain == Current

AskApproval ==
  /\ stage = "plan_ready"
  /\ stage' = "asking" /\ read' = ReadAgain /\ held' = Logins(members)
  /\ UNCHANGED <<lines, day, segments, drafts, project, seen, actions, skipped, changes, edits>>

MemberOf(draft) == IF draft.member \in MemberIds THEN read.members[draft.member] ELSE NoMember

Login(draft) == IF MemberOf(draft) = NoMember THEN NoLogin ELSE MemberOf(draft).github

(* build_task_properties: a value, a column mapped for it, and, if Notion  *)
(* answered, a column of that name; a status needs one of a choice kind.   *)
WrittenColumns(draft, schema) ==
  LET named == MemberOf(draft) # NoMember \/ draft.owner # NoName
      valued == {c \in Columns : /\ c = "description" => draft.description = "given"
                                 /\ c = "owner" => named
                                 /\ c = "deadline" => draft.date # NoDate}
      Exists(c) == IF c = "status" THEN schema[c] = "fits" ELSE schema[c] # "missing"
  IN IF schema = NoSchema THEN valued ELSE {c \in valued : Exists(c)}

(* What a draft is wanted for: each place of its destinations.             *)
Wanted == UNION {{k} \X DOMAIN drafts[k].to : k \in DOMAIN drafts}

Draft(w) == drafts[w[1]]
Destination(w) == Draft(w).to[w[2]]

Task(w, schema) ==
  IF ~read.database THEN {}
  ELSE {[draft |-> w[1], place |-> w[2], to |-> "notion", kind |-> "task", person |-> NoLogin,
         labels |-> {}, columns |-> WrittenColumns(Draft(w), schema)]}

(* Who and which labels are there, as far as GitHub could be asked.        *)
RepositoryFacts(listed) ==
  IF listed /\ read.repository THEN [logins |-> Collaborators, labels |-> RepositoryLabels]
  ELSE [logins |-> {}, labels |-> {}]

(* The database's columns, unless Notion is not asked or does not answer.  *)
DatabaseSchemas == {NoSchema} \cup (IF read.database THEN Schemas ELSE {})

(* A review is asked of the member's login, an issue given to it if GitHub *)
(* has listed it; labels GitHub has not listed are dropped.                *)
OnGitHub(w, facts) ==
  LET login == Login(Draft(w))
      On(kind, person, labels) ==
        [draft |-> w[1], place |-> w[2], to |-> "github", kind |-> kind, person |-> person,
         labels |-> labels, columns |-> {}]
  IN IF ~read.repository THEN {}
     ELSE IF Draft(w).category = "REVIEW_REQUEST"
     THEN IF login = NoLogin \/ Draft(w).pull = 0 THEN {} ELSE {On("review", login, {})}
     ELSE {On("issue", IF login \in facts.logins THEN login ELSE NoLogin,
              Draft(w).labels \cap facts.labels)}

Built(w, facts, schema) ==
  IF Destination(w) = "notion" THEN Task(w, schema) ELSE OnGitHub(w, facts)

(* What cannot be made into a payload: a task due on no date, a review of  *)
(* a negative number, an issue whose title does not fit.                   *)
Unbuildable(w) ==
  IF Destination(w) = "notion" THEN read.database /\ Draft(w).date = Unreadable
  ELSE /\ read.repository
       /\ IF Draft(w).category = "REVIEW_REQUEST"
          THEN Login(Draft(w)) # NoLogin /\ Draft(w).pull < 0
          ELSE Draft(w).title # "fits"

(* Each destination of each draft becomes an action or is skipped; with no *)
(* action at all the request is refused, and an error in one payload takes *)
(* the others with it.                                                     *)
Propose(facts, schema) ==
  LET built == UNION {Built(w, facts, schema) : w \in Wanted} IN
  /\ stage = "asking"
  /\ IF built = {} \/ \E w \in Wanted : Unbuildable(w)
     THEN stage' = "plan_ready" /\ held' = {} /\ UNCHANGED <<read, actions, skipped>>
     ELSE /\ stage' = "proposed" /\ actions' = built
          /\ skipped' = {w \in Wanted : Built(w, facts, schema) = {}}
          /\ read' = [read EXCEPT !.schema = schema] /\ UNCHANGED held
  /\ UNCHANGED <<lines, day, segments, drafts, project, seen, changes, edits>>

--------------------------------------------------------------------------------
(* The project, edited by other requests.                                  *)

Change ==
  /\ changes < MaxChanges /\ changes' = changes + 1
  /\ held' = IF stage = "asking" THEN held \cup Logins(members') ELSE held
  /\ UNCHANGED <<lines, day, stage, segments, drafts, seen, read, actions, skipped, edits>>

Owned(m) == members[m] # NoMember

AddMember(m, person) ==
  /\ ~Owned(m)
  /\ members' = [members EXCEPT ![m] = person] /\ UNCHANGED <<repository, database>>
  /\ Change

UpdateMember(m, person) ==
  /\ Owned(m)
  /\ members' = [members EXCEPT ![m] = person] /\ UNCHANGED <<repository, database>>
  /\ Change

RemoveMember(m) ==
  /\ Owned(m)
  /\ members' = [members EXCEPT ![m] = NoMember] /\ UNCHANGED <<repository, database>>
  /\ Change

UpdateProject(hasRepository, hasDatabase) ==
  /\ repository' = hasRepository /\ database' = hasDatabase /\ UNCHANGED members
  /\ Change

MeetingNext ==
  \/ Parse
  \/ AnalyzeBegin
  \/ \E answer \in Answers : AnalyzeDone(answer)
  \/ \E items \in Sent : UpdateActionItems(items)
  \/ AskApproval
  \/ \E listed \in BOOLEAN : \E schema \in DatabaseSchemas :
       Propose(RepositoryFacts(listed), schema)
  \/ \E m \in MemberIds, person \in Persons : AddMember(m, person)
  \/ \E m \in MemberIds, person \in Persons : UpdateMember(m, person)
  \/ \E m \in MemberIds : RemoveMember(m)
  \/ \E hasRepository, hasDatabase \in BOOLEAN : UpdateProject(hasRepository, hasDatabase)

MeetingSpec == MeetingInit /\ [][MeetingNext]_meetingVars

--------------------------------------------------------------------------------
(* Every variable holds a value of its type; the references of planned     *)
(* drafts name segments, those of drafts the client has sent need not.     *)
MeetingTypeOK ==
  /\ stage \in {"uploaded", "transcript_ready", "analyzing", "plan_ready", "asking",
                "proposed", "failed"}
  /\ members \in [MemberIds -> Persons \cup {NoMember}]
  /\ repository \in BOOLEAN /\ database \in BOOLEAN
  /\ \A k \in DOMAIN drafts :
       /\ PlannedAction(drafts[k])
       /\ edits = 0 => drafts[k].refs \subseteq DOMAIN segments
  /\ \A a \in actions : <<a.draft, a.place>> \in Wanted /\ a.kind \in {"task", "issue", "review"}
  /\ skipped \subseteq Wanted
  /\ changes \in 0..MaxChanges /\ edits \in 0..MaxEdits

Words(n) == lines[n].form \in {"spoken", "plain", "label"}

(* The line that begins the turn of line n, 0 for none.                    *)
TurnOf(n) ==
  LET marks == {m \in 1..n : lines[m].form \in {"blank", "stamp", "spoken"}} IN
  IF marks = {} THEN 0 ELSE Max(marks)

SpeakerOf(n) ==
  IF TurnOf(n) = 0 \/ lines[TurnOf(n)].form = "blank" THEN NoName ELSE lines[TurnOf(n)].who

(* Every line of text, and no other, is in exactly one segment, in order,  *)
(* under the name of whoever had the turn, and one turn is one segment.    *)
TurnsAreKept ==
  /\ stage # "uploaded" =>
       UNION {Range(segments[k].words) : k \in DOMAIN segments} = {n \in DOMAIN lines : Words(n)}
  /\ \A j, k \in DOMAIN segments :
       \A a \in DOMAIN segments[j].words, b \in DOMAIN segments[k].words :
         LET v == segments[j].words[a]
             w == segments[k].words[b]
         IN  /\ (j < k \/ (j = k /\ a < b)) => v < w
             /\ TurnOf(v) = TurnOf(w) <=> j = k
             /\ j = k => segments[j].speaker = SpeakerOf(v)

(* The owner found for a name is the only member called so, by the whole   *)
(* name or, if nobody has that, by the first.                              *)
OnlyOne(owner, m, table) ==
  LET Called(n, name) == table[n] # NoMember /\ name \in {table[n].name, <<Head(table[n].name)>>}
      Wholly(n) == table[n] # NoMember /\ table[n].name = owner IN
  /\ Called(m, owner)
  /\ \A n \in MemberIds \ {m} : ~Wholly(n) /\ (Called(n, owner) => Wholly(m))

(* A date is the first one the phrase allows, and within reach of it.      *)
DateFits(phrase, date) ==
  LET first == IF phrase.of.when = "next weekday" THEN day + 1 ELSE day IN
  phrase.of.when \in {"weekday", "next weekday"} =>
    /\ date >= first /\ Weekday(date) = phrase.of.n
    /\ \A earlier \in first..(date - 1) : Weekday(earlier) # phrase.of.n

Grounded(d) ==
  /\ d.member # NoMember => OnlyOne(d.owner, d.member, seen.members)
  /\ d.date # NoDate => DateFits(d.due, d.date)
  /\ d.category = "REVIEW_REQUEST" /\ d.to # <<>> => d.pull # 0
  /\ \A i, j \in DOMAIN d.to : d.to[i] = d.to[j] => i = j

(* What the user is first shown for review was in the meeting: the         *)
(* transcript keeps who said what, owners are never guessed from the       *)
(* members analyze read, whatever the project has become while the model   *)
(* was busy, weekdays become the right dates, only a review whose pull     *)
(* request is known has a destination, and no item has one twice.  What    *)
(* the client makes of the drafts is not checked by anything.              *)
PlanIsGrounded ==
  /\ TurnsAreKept
  /\ stage = "plan_ready" /\ edits = 0 => \A k \in DOMAIN drafts : Grounded(drafts[k])

(* What is put up for approval is what the drafts ask for: each of their   *)
(* destinations once for every time it is listed, or reported as skipped;  *)
(* the planner lists none twice.  A login in it belonged to the draft's    *)
(* member at some moment since the approval was asked for, however old the *)
(* plan is and whoever the client has named; issues have a title that      *)
(* fits, go to listed collaborators and carry labels of the repository     *)
(* only; a review has a reviewer and a number, a task no date that cannot  *)
(* be read; and no column is written that Notion says is not there.        *)
ActionsAreGrounded ==
  stage = "proposed" =>
    /\ actions # {}
    /\ \A w \in Wanted :
         Cardinality({a \in actions : <<a.draft, a.place>> = w}) = (IF w \in skipped THEN 0 ELSE 1)
    /\ edits = 0 => \A a, b \in actions : a.draft = b.draft /\ a.to = b.to => a = b
    /\ \A a \in actions :
         LET draft == drafts[a.draft] IN
         /\ <<a.draft, a.place>> \in Wanted /\ a.to = draft.to[a.place]
         /\ a.person # NoLogin => <<draft.member, a.person>> \in held
         /\ a.kind = "task" => draft.date # Unreadable
         /\ a.kind = "issue" =>
              /\ draft.title = "fits" /\ a.person \in Collaborators \cup {NoLogin}
              /\ a.labels \subseteq RepositoryLabels
         /\ a.kind = "review" => a.person # NoLogin /\ draft.pull > 0
         /\ read.schema # NoSchema => \A c \in a.columns : read.schema[c] # "missing"

--------------------------------------------------------------------------------
(* Claims of the documentation that the code does not keep.                *)

(* One ProposedAction per action item per destination                      *)
(* (docs/workflows/collaborate.md): but a client may list a destination    *)
(* twice, and each time is an action of its own.                           *)
OnePerDestination ==
  \A a, b \in actions : a.draft = b.draft /\ a.to = b.to => a = b

(* Common phrases become an actual date (docs/workflows/collaborate.md):   *)
(* a weekday the transcript names has one in the plan.                     *)
DeadlinesResolve ==
  stage = "plan_ready" /\ edits = 0 => \A k \in DOMAIN drafts :
    drafts[k].due # NoPhrase /\ drafts[k].due.of.when = "weekday" => drafts[k].date # NoDate

(* With the database's real schema only columns that exist are written,    *)
(* with their real type (connectors/notion/action_items.py): but a         *)
(* description, an owner or a date is written to a column of any type.     *)
ColumnsFitSchema ==
  read.schema # NoSchema => \A a \in actions : \A c \in a.columns : read.schema[c] = "fits"
================================================================================
