SPECIFICATION MeetingSpec
CONSTANTS
  Transcripts <- MCTranscripts
  Answers <- MCAnswers
  MeetingDays = {3}
  MemberIds = {1, 2}
  Persons <- MCPersons
  Rosters <- MCRosters
  NoMember = NoMember
  NoName = NoName
  NoLogin = NoLogin
  NoPhrase = NoPhrase
  NoDate = NoDate
  Collaborators = {u1}
  Sent <- MCSent
  Unreadable = Unreadable
  RepositoryLabels = {"bug"}
  Columns = {"description", "owner", "deadline", "status"}
  Schemas <- MCSchemas
  NoSchema = NoSchema
  MaxChanges = 1
  MaxEdits = 1
  sam = sam
  lee = lee
  roy = roy
  u1 = u1
  u2 = u2
INVARIANTS
  MeetingTypeOK
  PlanIsGrounded
  ActionsAreGrounded
CHECK_DEADLOCK FALSE
