------------------------------ MODULE Connections ------------------------------
(***************************************************************************)
(* The accounts of one user at one provider: OAuth authorizations, tokens  *)
(* and their refresh, the choice of a default destination, disconnection,  *)
(* and what an execution does when the provider refuses its token.         *)
(*                                                                         *)
(* connection() locks the account rows, and the lock is kept while the     *)
(* provider is asked; a token refresh commits and gives it up.  Callbacks  *)
(* read the authorization and the accounts without a lock and commit       *)
(* twice.  Executions read and revoke without a lock.                      *)
(*                                                                         *)
(* Tokens are numbered as the provider issues them; one number stands for  *)
(* an access token and the refresh token that came with it.                *)
(*                                                                         *)
(* Sources: services/connections.py, connectors/{google,notion,github}/    *)
(* {auth,service}.py, runtime/local.py, services/profile_history.py.       *)
(***************************************************************************)
EXTENDS Integers, Sequences

CONSTANTS Accounts,        \* the user's accounts at the provider
          NoAccount,
          Authorizations,  \* OAuth states that can be started
          NoAuthorization,
          MaxTokens,       \* bound on the tokens ever issued
          Requests         \* concurrent HTTP requests

ASSUME ConnectionsAssumption ==
  /\ NoAccount \notin Accounts
  /\ NoAuthorization \notin Authorizations
  /\ MaxTokens \in Nat

Tokens == 1..MaxTokens
NoToken == 0

VARIABLES
  kind,        \* the provider
  status,      \* ConnectedAccount.status; "none" before the row exists
  access,      \* access_token_encrypted
  refresh,     \* refresh_token_encrypted
  created,     \* the accounts with a row, in the order of created_at
  default,     \* provider_metadata names a default destination or calendar
  listed,      \* that destination has a record row
  oauth        \* OAuthState rows: "none", "open", "expired", "consumed", "deleted"

VARIABLES
  issued,      \* the provider: tokens issued so far
  expired,     \* access tokens whose time has run out
  rotated,     \* refresh tokens replaced by a newer one
  withdrawn,   \* tokens up to this number no longer count: access was withdrawn
  lost         \* history: refresh tokens whose replacement never reached the data base

VARIABLES
  pc,          \* where each request is
  auth,        \* the authorization it brings back
  account,     \* the account it works with
  token,       \* the token it holds
  isNew        \* its callback saw no row of the account

accounts == <<status, access, refresh, created>>
choice == <<default, listed>>
provider == <<issued, expired, rotated, withdrawn, lost>>
memory == <<auth, account, token, isNew>>
vars == <<kind, accounts, choice, oauth, provider, pc, memory>>

Init ==
  /\ kind \in {"GOOGLE", "NOTION", "GITHUB"}
  /\ status = [a \in Accounts |-> "none"]
  /\ access = [a \in Accounts |-> NoToken] /\ refresh = [a \in Accounts |-> NoToken]
  /\ created = <<>>
  /\ default = {} /\ listed = {}
  /\ oauth = [s \in Authorizations |-> "none"]
  /\ issued = 0 /\ expired = {} /\ rotated = {} /\ withdrawn = 0 /\ lost = {}
  /\ pc = [r \in Requests |-> "idle"]
  /\ auth = [r \in Requests |-> NoAuthorization]
  /\ account = [r \in Requests |-> NoAccount]
  /\ token = [r \in Requests |-> NoToken]
  /\ isNew = [r \in Requests |-> FALSE]

Goto(r, label) == pc' = [pc EXCEPT ![r] = label]

End(r) ==
  /\ Goto(r, "idle")
  /\ auth' = [auth EXCEPT ![r] = NoAuthorization]
  /\ account' = [account EXCEPT ![r] = NoAccount]
  /\ token' = [token EXCEPT ![r] = NoToken]
  /\ isNew' = [isNew EXCEPT ![r] = FALSE]

(* Where a request holds the lock on the account rows.                     *)

(* Mutant: connection() reads without a lock.                              *)
MutantUnderLock == {"using"}

UnderLock == {"using", "refreshing", "refreshed", "refused"}

Unlocked == \A r \in Requests : pc[r] \notin UnderLock

(* Only Google's access tokens expire and are refreshed.                   *)
Refreshes == kind = "GOOGLE"

Withdrawn(n) == n <= withdrawn

AccessAccepted(n) == ~Withdrawn(n) /\ n \notin expired

RefreshAccepted(n) == ~Withdrawn(n) /\ n \notin rotated

--------------------------------------------------------------------------------
(* Authorization.                                                          *)

Start(s) ==
  /\ oauth[s] = "none"
  /\ oauth' = [oauth EXCEPT ![s] = "open"]
  /\ UNCHANGED <<kind, accounts, choice, provider, pc, memory>>

(* Its time to live ends.                                                  *)
RunsOut(s) ==
  /\ oauth[s] = "open"
  /\ oauth' = [oauth EXCEPT ![s] = "expired"]
  /\ UNCHANGED <<kind, accounts, choice, provider, pc, memory>>

(* callback() reads the state unlocked; consumed_at is not committed yet.  *)
CallbackReads(r, s) ==
  /\ pc[r] = "idle" /\ oauth[s] = "open"
  /\ auth' = [auth EXCEPT ![r] = s]
  /\ Goto(r, "exchanging")
  /\ UNCHANGED <<kind, accounts, choice, oauth, provider, account, token, isNew>>

(* The provider takes the code, which is good once, for a new token of the *)
(* account the user has chosen there.                                      *)
Exchanges(r, a) ==
  /\ pc[r] = "exchanging" /\ issued < MaxTokens
  /\ issued' = issued + 1
  /\ token' = [token EXCEPT ![r] = issued + 1]
  /\ account' = [account EXCEPT ![r] = a]

(* The query for the user's accounts first flushes consumed_at, so that it *)
(* waits for another callback that has done so and fails when the state is *)
(* gone.                                                                   *)
Finds(r, a) ==
  /\ oauth[auth[r]] # "deleted"
  /\ \A q \in Requests : ~(pc[q] = "connecting" /\ auth[q] = auth[r])
  /\ isNew' = [isNew EXCEPT ![r] = status[a] = "none"]
  /\ Goto(r, "connecting")

(* Google and GitHub are asked who the user is before the accounts are     *)
(* looked up; Notion's answer to the code says it.                         *)
GoogleExchanges(r, a) ==
  /\ kind = "GOOGLE" /\ Exchanges(r, a)
  /\ Goto(r, "identifying")
  /\ UNCHANGED <<kind, accounts, choice, oauth, expired, rotated, withdrawn, lost, auth, isNew>>

GitHubExchanges(r, a) ==
  /\ kind = "GITHUB" /\ Exchanges(r, a)
  /\ Goto(r, "identifying")
  /\ UNCHANGED <<kind, accounts, choice, oauth, expired, rotated, withdrawn, lost, auth, isNew>>

Identifies(r) ==
  /\ pc[r] = "identifying" /\ AccessAccepted(token[r])
  /\ Finds(r, account[r])
  /\ UNCHANGED <<kind, accounts, choice, oauth, provider, auth, account, token>>

NotionExchanges(r, a) ==
  /\ kind = "NOTION" /\ Exchanges(r, a)
  /\ Finds(r, a)
  /\ UNCHANGED <<kind, accounts, choice, oauth, expired, rotated, withdrawn, lost, auth>>

(* replace_credentials, and the commit of consumed_at with it.             *)
Stores(r) ==
  /\ access' = [access EXCEPT ![account[r]] = token[r]]
  /\ refresh' = [refresh EXCEPT ![account[r]] = IF Refreshes THEN token[r] ELSE NoToken]
  /\ oauth' = [oauth EXCEPT ![auth[r]] = "consumed"]

(* replace(), when the account was found: its row is locked.               *)
Replaces(r) ==
  /\ pc[r] = "connecting" /\ ~isNew[r] /\ Unlocked
  /\ status' = [status EXCEPT ![account[r]] = "CONNECTED"]
  /\ Stores(r)
  /\ Goto(r, IF account[r] \in default THEN "describing" ELSE "repeating")
  /\ UNCHANGED <<kind, created, choice, provider, memory>>

(* Mutant: no constraint keeps an account from having two rows.            *)
MutantMayCreate(a) == TRUE

MayCreate(a) == status[a] = "none"

(* create(), which looks again; the unique constraint decides a race.      *)
Creates(r) ==
  /\ pc[r] = "connecting" /\ isNew[r] /\ MayCreate(account[r])
  /\ status' = [status EXCEPT ![account[r]] = "CONNECTED"]
  /\ created' = Append(created, account[r])
  /\ Stores(r)
  /\ Goto(r, "describing")
  /\ UNCHANGED <<kind, choice, provider, memory>>

(* ConnectedAccountAlreadyExists: consumed_at is rolled back too.          *)
AlreadyExists(r) ==
  /\ pc[r] = "connecting" /\ isNew[r] /\ ~MayCreate(account[r])
  /\ End(r)
  /\ UNCHANGED <<kind, accounts, choice, oauth, provider>>

(* A second transaction writes fresh metadata, without the default.  Its   *)
(* status = CONNECTED is what the object says already and is not written,  *)
(* nor are metadata equal to those replace() read.                         *)
Describes(r) ==
  /\ pc[r] \in {"describing", "repeating"} /\ Unlocked
  /\ \/ default' = default \ {account[r]}
     \/ pc[r] = "repeating" /\ UNCHANGED default
  /\ End(r)
  /\ UNCHANGED <<kind, accounts, listed, oauth, provider>>

--------------------------------------------------------------------------------
(* Use of a connection, under the lock of its row.                         *)

Usable(a) == status[a] = "CONNECTED" /\ access[a] # NoToken

OldestUsable(a) ==
  Usable(a) /\ \E i \in DOMAIN created :
                 created[i] = a /\ \A j \in 1..(i - 1) : ~Usable(created[j])

(* connection(): the oldest usable account.                                *)
Takes(r, a, label) ==
  /\ pc[r] = "idle" /\ Unlocked /\ OldestUsable(a)
  /\ account' = [account EXCEPT ![r] = a]
  /\ Goto(r, label)
  /\ UNCHANGED <<kind, accounts, choice, oauth, provider, auth, token, isNew>>

GoogleConnection(r, a) ==
  kind = "GOOGLE" /\ Takes(r, a, IF access[a] \in expired THEN "refreshing" ELSE "using")

NotionConnection(r, a) == kind = "NOTION" /\ Takes(r, a, "using")

GitHubConnection(r, a) == kind = "GITHUB" /\ Takes(r, a, "using")

(* The provider answers a refresh with a new access token and, if it       *)
(* rotates them, a new refresh token; if not, none comes with this number. *)
RefreshAnswered(r, rotates) ==
  LET a == account[r]
  IN  /\ pc[r] = "refreshing" /\ refresh[a] # NoToken
      /\ RefreshAccepted(refresh[a]) /\ issued < MaxTokens
      /\ issued' = issued + 1
      /\ token' = [token EXCEPT ![r] = issued + 1]
      /\ rotated' = rotated \cup {IF rotates THEN refresh[a] ELSE issued + 1}
      /\ Goto(r, "refreshed")
      /\ UNCHANGED <<kind, accounts, choice, oauth, expired, withdrawn, lost, auth, account, isNew>>

(* Every answer of 400 or more counts as a refusal, also that of a provider *)
(* that is busy or out of order and would take the token another time.     *)
RefreshDenied(r) ==
  /\ pc[r] = "refreshing" /\ refresh[account[r]] # NoToken
  /\ Goto(r, "refused")
  /\ UNCHANGED <<kind, accounts, choice, oauth, provider, memory>>

(* The commit after a refresh gives the lock up; the caller goes on.       *)
RefreshSaves(r) ==
  LET a == account[r]
  IN  /\ pc[r] = "refreshed"
      /\ access' = [access EXCEPT ![a] = token[r]]
      /\ refresh' = IF token[r] \in rotated THEN refresh ELSE [refresh EXCEPT ![a] = token[r]]
      /\ Goto(r, "released")
      /\ UNCHANGED <<kind, status, created, choice, oauth, provider, memory>>

RefreshExpires(r) ==
  /\ pc[r] = "refused" \/ (pc[r] = "refreshing" /\ refresh[account[r]] = NoToken)
  /\ status' = [status EXCEPT ![account[r]] = "EXPIRED"]
  /\ End(r)
  /\ UNCHANGED <<kind, access, refresh, created, choice, oauth, provider>>

KeptDefault(a, found) == IF found THEN default ELSE default \ {a}

(* The pages or calendars are fetched and listed.  Notion's that are gone  *)
(* are deleted, and a default among them is dropped; Google's stay.        *)
ListsPages(r, found) ==
  LET a == account[r]
  IN  /\ kind = "NOTION" /\ pc[r] = "using"
      /\ listed' = IF found THEN listed \cup {a} ELSE listed \ {a}
      /\ default' = KeptDefault(a, found)
      /\ End(r)
      /\ UNCHANGED <<kind, accounts, oauth, provider>>

ListsCalendars(r, found) ==
  /\ kind = "GOOGLE" /\ pc[r] \in {"using", "released"}
  /\ listed' = IF found THEN listed \cup {account[r]} ELSE listed
  /\ End(r)
  /\ UNCHANGED <<kind, accounts, default, oauth, provider>>

(* select(): the record is there, and the metadata name it.                *)
SelectsPage(r) ==
  /\ kind = "NOTION" /\ pc[r] = "using" /\ account[r] \in listed
  /\ default' = default \cup {account[r]}
  /\ End(r)
  /\ UNCHANGED <<kind, accounts, listed, oauth, provider>>

(* After a refresh the record is read without the lock, and metadata that  *)
(* named the calendar already are not written.                             *)
SelectsCalendar(r) ==
  /\ kind = "GOOGLE" /\ pc[r] \in {"using", "released"} /\ account[r] \in listed
  /\ \/ /\ default' = default \cup {account[r]}
        /\ End(r)
     \/ /\ pc[r] = "released"
        /\ Goto(r, "selecting")
        /\ UNCHANGED <<default, memory>>
  /\ UNCHANGED <<kind, accounts, listed, oauth, provider>>

SelectEnds(r) ==
  /\ pc[r] = "selecting" /\ Unlocked
  /\ default' = default \cup {account[r]} \/ UNCHANGED default
  /\ End(r)
  /\ UNCHANGED <<kind, accounts, listed, oauth, provider>>

(* GitHub's lists, and a look at the calendars or the data bases of        *)
(* Notion, change nothing.                                                 *)
Looks(r) ==
  /\ pc[r] \in {"using", "released"}
  /\ End(r)
  /\ UNCHANGED <<kind, accounts, choice, oauth, provider>>

--------------------------------------------------------------------------------
(* Execution: the account named by the action, read without a lock.        *)

Executes(r, a) ==
  /\ pc[r] = "idle" /\ Usable(a)
  /\ account' = [account EXCEPT ![r] = a]
  /\ token' = [token EXCEPT ![r] = access[a]]
  /\ Goto(r, "executing")
  /\ UNCHANGED <<kind, accounts, choice, oauth, provider, auth, isNew>>

ExecutionDone(r) ==
  /\ pc[r] = "executing" /\ AccessAccepted(token[r])
  /\ End(r)
  /\ UNCHANGED <<kind, accounts, choice, oauth, provider>>

(* A refused token revokes the account, also one that has been connected   *)
(* again since the token was read.                                         *)
ExecutionRefused(r) ==
  LET a == account[r]
  IN  /\ pc[r] = "executing" /\ ~AccessAccepted(token[r]) /\ Unlocked
      /\ status' = [status EXCEPT ![a] = "REVOKED"]
      /\ access' = [access EXCEPT ![a] = NoToken]
      /\ refresh' = [refresh EXCEPT ![a] = NoToken]
      /\ End(r)
      /\ UNCHANGED <<kind, created, choice, oauth, provider>>

--------------------------------------------------------------------------------
(* disconnect(): every account that has a row.                             *)
Disconnect ==
  /\ created # <<>> /\ Unlocked
  /\ status' = [a \in Accounts |-> IF status[a] = "none" THEN "none" ELSE "REVOKED"]
  /\ access' = [a \in Accounts |-> NoToken]
  /\ refresh' = [a \in Accounts |-> NoToken]
  /\ UNCHANGED <<kind, created, choice, oauth, provider, pc, memory>>

(* reset() of the profile, as far as it is about connections; it waits for *)
(* callbacks that have flushed their state.  The tokens stay.              *)
Reset ==
  /\ Unlocked /\ \A r \in Requests : pc[r] # "connecting"
  /\ oauth' = [s \in Authorizations |-> IF oauth[s] = "none" THEN "none" ELSE "deleted"]
  /\ listed' = {}
  /\ default' = {}
  /\ UNCHANGED <<kind, accounts, provider, pc, memory>>

(* Time, and the user at the provider.                                     *)
Expires(n) ==
  /\ Refreshes /\ n <= issued /\ n \notin expired
  /\ expired' = expired \cup {n}
  /\ UNCHANGED <<kind, accounts, choice, oauth, issued, rotated, withdrawn, lost, pc, memory>>

Withdraws ==
  /\ withdrawn < issued
  /\ withdrawn' = issued
  /\ UNCHANGED <<kind, accounts, choice, oauth, issued, expired, rotated, lost, pc, memory>>

(* An exception or the end of the worker.  A rotation that is not saved is *)
(* lost.                                                                   *)
Aborts(r) ==
  /\ pc[r] # "idle"
  /\ lost' = IF pc[r] = "refreshed" THEN lost \cup {refresh[account[r]]} ELSE lost
  /\ End(r)
  /\ UNCHANGED <<kind, accounts, choice, oauth, issued, expired, rotated, withdrawn>>

--------------------------------------------------------------------------------
Callback(r) ==
  \/ \E s \in Authorizations : CallbackReads(r, s)
  \/ \E a \in Accounts : GoogleExchanges(r, a)
  \/ \E a \in Accounts : GitHubExchanges(r, a)
  \/ Identifies(r)
  \/ \E a \in Accounts : NotionExchanges(r, a)
  \/ Replaces(r)
  \/ Creates(r)
  \/ AlreadyExists(r)
  \/ Describes(r)

Use(r) ==
  \/ \E a \in Accounts : GoogleConnection(r, a)
  \/ \E a \in Accounts : NotionConnection(r, a)
  \/ \E a \in Accounts : GitHubConnection(r, a)
  \/ \E rotates \in BOOLEAN : RefreshAnswered(r, rotates)
  \/ RefreshDenied(r)
  \/ RefreshSaves(r)
  \/ RefreshExpires(r)
  \/ \E found \in BOOLEAN : ListsPages(r, found)
  \/ \E found \in BOOLEAN : ListsCalendars(r, found)
  \/ SelectsPage(r)
  \/ SelectsCalendar(r)
  \/ SelectEnds(r)
  \/ Looks(r)

Next ==
  \/ \E s \in Authorizations : Start(s)
  \/ \E s \in Authorizations : RunsOut(s)
  \/ \E r \in Requests : Callback(r)
  \/ \E r \in Requests : Use(r)
  \/ \E r \in Requests, a \in Accounts : Executes(r, a)
  \/ \E r \in Requests : ExecutionDone(r)
  \/ \E r \in Requests : ExecutionRefused(r)
  \/ Disconnect
  \/ Reset
  \/ \E n \in Tokens : Expires(n)
  \/ Withdraws
  \/ \E r \in Requests : Aborts(r)

Spec == Init /\ [][Next]_vars

--------------------------------------------------------------------------------
(* Every variable holds a value of its type.                               *)
TypeOK ==
  /\ kind \in {"GOOGLE", "NOTION", "GITHUB"}
  /\ status \in [Accounts -> {"none", "CONNECTED", "EXPIRED", "REVOKED"}]
  /\ access \in [Accounts -> Tokens \cup {NoToken}]
  /\ refresh \in [Accounts -> Tokens \cup {NoToken}]
  /\ created \in Seq({a \in Accounts : status[a] # "none"})
  /\ \A a \in Accounts : status[a] # "none" => \E i \in DOMAIN created : created[i] = a
  /\ \A i, j \in DOMAIN created : created[i] = created[j] => i = j
  /\ default \cup listed \subseteq Accounts
  /\ oauth \in [Authorizations -> {"none", "open", "expired", "consumed", "deleted"}]
  /\ issued \in Tokens \cup {0} /\ withdrawn \in 0..issued
  /\ expired \cup rotated \cup lost \subseteq 1..issued
  /\ pc \in [Requests -> {"idle", "exchanging", "identifying", "connecting", "describing", "repeating",
                          "using", "refreshing", "refreshed", "refused", "released", "selecting", "executing"}]
  /\ auth \in [Requests -> Authorizations \cup {NoAuthorization}]
  /\ account \in [Requests -> Accounts \cup {NoAccount}]
  /\ token \in [Requests -> Tokens \cup {NoToken}]
  /\ isNew \in [Requests -> BOOLEAN]

(* The status of an account says what its tokens are worth, whatever       *)
(* callbacks, refreshes, disconnections and refused executions cross: a    *)
(* connected account has a token; a revoked one keeps none; Google's has   *)
(* the refresh token Google last gave it, unless the answer that brought a *)
(* newer one was lost; one marked EXPIRED has an access token whose time   *)
(* has run out, so that an account connected again while Google was asked  *)
(* is never marked.  (Its refresh token may be good: Google may be busy.)  *)
StatusMatchesTokens ==
  \A a \in Accounts :
    /\ status[a] = "CONNECTED" => access[a] # NoToken
    /\ status[a] \in {"none", "REVOKED"} => access[a] = NoToken /\ refresh[a] = NoToken
    /\ status[a] = "CONNECTED" /\ Refreshes =>
         /\ refresh[a] # NoToken
         /\ refresh[a] \in rotated =>
              \/ refresh[a] \in lost
              \/ \E r \in Requests : pc[r] = "refreshed" /\ account[r] = a
    /\ status[a] = "EXPIRED" =>
         Refreshes /\ access[a] \in expired /\ refresh[a] # NoToken

(* The default Notion page is one that is listed, although reconnecting,   *)
(* refreshing, selecting and a profile reset write the two in different    *)
(* transactions.  (Google's default is not: a selection that had to        *)
(* refresh the token reads the list without a lock.)                       *)
DefaultIsListed == kind = "NOTION" => default \subseteq listed

(* What the connections page and the executions act on is sound.           *)
AccountsAreSound == StatusMatchesTokens /\ DefaultIsListed
================================================================================
