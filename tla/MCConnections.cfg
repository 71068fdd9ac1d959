SPECIFICATION Spec
CONSTANTS
  Accounts = {x1}
  NoAccount = NoAccount
  Authorizations = {s1, s2}
  NoAuthorization = NoAuthorization
  MaxTokens = 3
  Requests = {r1, r2}
SYMMETRY Symmetry
INVARIANTS
  TypeOK
  AccountsAreSound
CHECK_DEADLOCK FALSE
