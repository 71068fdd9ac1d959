SPECIFICATION Spec
CONSTANTS
  Drafts = {d1, d2}
  NoDraft = NoDraft
  Keys = {k1, k2}
  NoKey = NoKey
  Sessions = {s1, s2}
INVARIANTS
  TypeOK
  FilesMatchRows
  AnalysedOnce
  ProposalFitsRun
PROPERTIES
  EndedProposesNothing
CHECK_DEADLOCK FALSE
