-------------------------- MODULE Connections_proofs ---------------------------
(***************************************************************************)
(* Proofs about Connections for any set of accounts, of authorizations and *)
(* of concurrent requests, any number of tokens, and each provider.        *)
(***************************************************************************)
EXTENDS Connections, TLAPS

(* Requests that bring an authorization back, those that bring a token the *)
(* data base does not have yet, and those that work with an account.       *)
Returning == {"exchanging", "identifying", "connecting", "describing", "repeating"}
Carrying == {"identifying", "connecting", "refreshed"}
WithAccount == {"identifying", "connecting", "describing", "repeating", "using", "refreshing",
                "refreshed", "refused", "released", "selecting", "executing"}

(* No token number is ahead of what the provider has issued.               *)
TokensIssued ==
  /\ \A a \in Accounts : access[a] <= issued /\ refresh[a] <= issued
  /\ \A r \in Requests : token[r] <= issued

(* What a request holds, by where it is.                                   *)
MemoryFits ==
  \A r \in Requests :
    /\ pc[r] \in Returning => auth[r] \in Authorizations
    /\ pc[r] \in WithAccount => account[r] \in Accounts
    /\ pc[r] \in Carrying => token[r] # NoToken
    /\ pc[r] = "connecting" /\ ~isNew[r] => status[account[r]] # "none"
    /\ pc[r] \in WithAccount \ {"identifying", "connecting"} => status[account[r]] # "none"
    /\ pc[r] \in {"refreshing", "refreshed", "refused", "selecting"} => kind = "GOOGLE"

(* Every token comes from one answer of the provider: two accounts never   *)
(* share a refresh token, and what a request still carries is stored       *)
(* nowhere and carried by nobody else.                                     *)
TokensDistinct ==
  /\ \A a, b \in Accounts : refresh[a] = refresh[b] /\ refresh[a] # NoToken => a = b
  /\ \A r \in Requests, a \in Accounts : pc[r] \in Carrying => refresh[a] # token[r]
  /\ \A r, q \in Requests :
       pc[r] \in Carrying /\ pc[q] \in Carrying /\ token[r] = token[q] => r = q
  /\ \A r \in Requests : pc[r] \in {"identifying", "connecting"} => token[r] \notin rotated

(* The lock on the account rows: one request has it, its account is usable *)
(* all the while, and the access token it found to have run out stays the  *)
(* one of the account until the provider's answer is written.              *)
LockIsHeld ==
  /\ \A r, q \in Requests : pc[r] \in UnderLock /\ pc[q] \in UnderLock => r = q
  /\ \A r \in Requests :
       /\ pc[r] \in UnderLock => Usable(account[r])
       /\ pc[r] = "refreshed" =>
            /\ refresh[account[r]] # NoToken
            /\ token[r] \in rotated => refresh[account[r]] \notin rotated
       /\ pc[r] \in {"refreshing", "refused"} => access[account[r]] \in expired

IInv ==
  /\ TypeOK
  /\ TokensIssued
  /\ MemoryFits
  /\ TokensDistinct
  /\ LockIsHeld
  /\ StatusMatchesTokens
  /\ DefaultIsListed

(* The two ways in which the choice of a calendar may go.                  *)
ChoosesCalendar(r) ==
  /\ kind = "GOOGLE" /\ pc[r] \in {"using", "released"} /\ account[r] \in listed
  /\ default' = default \cup {account[r]} /\ End(r)
  /\ UNCHANGED <<kind, accounts, listed, oauth, provider>>

KeepsCalendar(r) ==
  /\ kind = "GOOGLE" /\ pc[r] = "released"
  /\ Goto(r, "selecting")
  /\ UNCHANGED <<kind, accounts, choice, oauth, provider, memory>>

(* Everything a step may change.  A request that ends with nothing to show *)
(* for it changes what one that is cut off there changes.                  *)
Step ==
  \/ \E s \in Authorizations : Start(s) \/ RunsOut(s)
  \/ \E r \in Requests, s \in Authorizations : CallbackReads(r, s)
  \/ \E r \in Requests, a \in Accounts :
       GoogleExchanges(r, a) \/ GitHubExchanges(r, a) \/ NotionExchanges(r, a)
  \/ \E r \in Requests : Identifies(r) \/ Replaces(r) \/ Creates(r) \/ Describes(r)
  \/ \E r \in Requests, a \in Accounts :
       GoogleConnection(r, a) \/ NotionConnection(r, a) \/ GitHubConnection(r, a)
  \/ \E r \in Requests, rotates \in BOOLEAN : RefreshAnswered(r, rotates)
  \/ \E r \in Requests : RefreshDenied(r) \/ RefreshSaves(r) \/ RefreshExpires(r)
  \/ \E r \in Requests, found \in BOOLEAN : ListsPages(r, found) \/ ListsCalendars(r, found)
  \/ \E r \in Requests : SelectsPage(r) \/ SelectEnds(r)
  \/ \E r \in Requests : ChoosesCalendar(r) \/ KeepsCalendar(r)
  \/ \E r \in Requests, a \in Accounts : Executes(r, a)
  \/ \E r \in Requests : ExecutionRefused(r)
  \/ Disconnect \/ Reset \/ Withdraws
  \/ \E n \in Tokens : Expires(n)
  \/ \E r \in Requests : Aborts(r)

LEMMA NextIsStep == Next => Step
<1>1. \A r \in Requests : AlreadyExists(r) \/ Looks(r) \/ ExecutionDone(r) => Aborts(r)
  BY DEF AlreadyExists, Looks, ExecutionDone, Aborts, provider
<1>2. \A r \in Requests : SelectsCalendar(r) => ChoosesCalendar(r) \/ KeepsCalendar(r)
  BY DEF SelectsCalendar, ChoosesCalendar, KeepsCalendar, choice
<1>3. ASSUME NEW r \in Requests, Callback(r)
      PROVE  Step
  BY <1>1, <1>3 DEF Callback, Step
<1>4. ASSUME NEW r \in Requests, Use(r)
      PROVE  Step
  BY <1>1, <1>2, <1>4 DEF Use, Step
<1> QED
  BY <1>1, <1>3, <1>4 DEF Next, Step

--------------------------------------------------------------------------------
(* The invariant holds at the start.                                       *)

LEMMA InvariantInit == Init => IInv
<1> SUFFICES ASSUME Init PROVE IInv
  OBVIOUS
<1> USE ConnectionsAssumption DEF Init, NoToken, Tokens
<1>1. TypeOK
  BY DEF TypeOK
<1>2. TokensIssued /\ MemoryFits /\ TokensDistinct /\ LockIsHeld
  BY DEF TokensIssued, MemoryFits, TokensDistinct, LockIsHeld, Returning, Carrying, WithAccount,
         UnderLock
<1>3. StatusMatchesTokens /\ DefaultIsListed
  BY DEF StatusMatchesTokens, DefaultIsListed
<1> QED
  BY <1>1, <1>2, <1>3 DEF IInv

--------------------------------------------------------------------------------
(* What a callback notes of the account it looks up.                       *)

LEMMA FindsNotes ==
  ASSUME isNew \in [Requests -> BOOLEAN], NEW r \in Requests, NEW a \in Accounts, Finds(r, a)
  PROVE  /\ isNew' \in [Requests -> BOOLEAN]
         /\ isNew'[r] <=> status[a] = "none"
         /\ \A q \in Requests : q # r => isNew'[q] = isNew[q]
<1>1. isNew' = [isNew EXCEPT ![r] = status[a] = "none"]
  BY DEF Finds
<1>2. (status[a] = "none") \in BOOLEAN
  OBVIOUS
<1> QED
  BY <1>1, <1>2, Zenon

--------------------------------------------------------------------------------
(* Each action keeps the inductive invariant.                              *)

LEMMA StartKeepsInvariant ==
  ASSUME IInv, NEW s \in Authorizations, Start(s)
  PROVE  IInv'
<1> USE ConnectionsAssumption
    DEF IInv, TypeOK, Goto, NoToken, Tokens, accounts, choice, provider, memory,
        Start
<1>1. TypeOK'
  BY DEF MemoryFits, UnderLock, LockIsHeld, TokensIssued, Returning, WithAccount
<1>2. TokensIssued'
  BY DEF TokensIssued, MemoryFits, WithAccount
<1>3. MemoryFits'
  BY DEF MemoryFits, Returning, Carrying, WithAccount, Usable
<1>4. TokensDistinct'
  BY DEF TokensDistinct, TokensIssued, MemoryFits, Carrying, WithAccount
<1>5. LockIsHeld'
  BY DEF LockIsHeld, TokensDistinct, TokensIssued, MemoryFits, Carrying, WithAccount,
         UnderLock, Usable, RefreshAccepted, Withdrawn
<1>6. StatusMatchesTokens'
  BY DEF StatusMatchesTokens, LockIsHeld, TokensDistinct, TokensIssued, MemoryFits,
         Carrying, WithAccount, UnderLock, Usable, Refreshes, RefreshAccepted, Withdrawn
<1>7. DefaultIsListed'
  BY DEF DefaultIsListed, MemoryFits, WithAccount
<1> QED
  BY <1>1, <1>2, <1>3, <1>4, <1>5, <1>6, <1>7

LEMMA RunsOutKeepsInvariant ==
  ASSUME IInv, NEW s \in Authorizations, RunsOut(s)
  PROVE  IInv'
<1> USE ConnectionsAssumption
    DEF IInv, TypeOK, Goto, NoToken, Tokens, accounts, choice, provider, memory,
        RunsOut
<1>1. TypeOK'
  BY DEF MemoryFits, UnderLock, LockIsHeld, TokensIssued, Returning, WithAccount
<1>2. TokensIssued'
  BY DEF TokensIssued, MemoryFits, WithAccount
<1>3. MemoryFits'
  BY DEF MemoryFits, Returning, Carrying, WithAccount, Usable
<1>4. TokensDistinct'
  BY DEF TokensDistinct, TokensIssued, MemoryFits, Carrying, WithAccount
<1>5. LockIsHeld'
  BY DEF LockIsHeld, TokensDistinct, TokensIssued, MemoryFits, Carrying, WithAccount,
         UnderLock, Usable, RefreshAccepted, Withdrawn
<1>6. StatusMatchesTokens'
  BY DEF StatusMatchesTokens, LockIsHeld, TokensDistinct, TokensIssued, MemoryFits,
         Carrying, WithAccount, UnderLock, Usable, Refreshes, RefreshAccepted, Withdrawn
<1>7. DefaultIsListed'
  BY DEF DefaultIsListed, MemoryFits, WithAccount
<1> QED
  BY <1>1, <1>2, <1>3, <1>4, <1>5, <1>6, <1>7

LEMMA CallbackReadsKeepsInvariant ==
  ASSUME IInv, NEW r \in Requests, NEW s \in Authorizations, CallbackReads(r, s)
  PROVE  IInv'
<1> USE ConnectionsAssumption
    DEF IInv, TypeOK, Goto, NoToken, Tokens, accounts, choice, provider, memory,
        CallbackReads
<1>1. TypeOK'
  BY DEF MemoryFits, UnderLock, LockIsHeld, TokensIssued, Returning, WithAccount
<1>2. TokensIssued'
  BY DEF TokensIssued, MemoryFits, WithAccount
<1>3. MemoryFits'
  BY DEF MemoryFits, Returning, Carrying, WithAccount, Usable
<1>4. TokensDistinct'
  BY DEF TokensDistinct, TokensIssued, MemoryFits, Carrying, WithAccount
<1>5. LockIsHeld'
  BY DEF LockIsHeld, TokensDistinct, TokensIssued, MemoryFits, Carrying, WithAccount,
         UnderLock, Usable, RefreshAccepted, Withdrawn
<1>6. StatusMatchesTokens'
  BY DEF StatusMatchesTokens, LockIsHeld, TokensDistinct, TokensIssued, MemoryFits,
         Carrying, WithAccount, UnderLock, Usable, Refreshes, RefreshAccepted, Withdrawn
<1>7. DefaultIsListed'
  BY DEF DefaultIsListed, MemoryFits, WithAccount
<1> QED
  BY <1>1, <1>2, <1>3, <1>4, <1>5, <1>6, <1>7

LEMMA GoogleExchangesKeepsInvariant ==
  ASSUME IInv, NEW r \in Requests, NEW a \in Accounts, GoogleExchanges(r, a)
  PROVE  IInv'
<1> USE ConnectionsAssumption
    DEF IInv, TypeOK, Goto, NoToken, Tokens, accounts, choice, provider, memory,
        GoogleExchanges, Exchanges
<1>1. TypeOK'
  BY DEF MemoryFits, UnderLock, LockIsHeld, TokensIssued, Returning, WithAccount
<1>2. TokensIssued'
  <2>1. issued' = issued + 1 /\ token' = [token EXCEPT ![r] = issued + 1]
        /\ UNCHANGED <<access, refresh>>
    OBVIOUS
  <2>2. issued \in Nat /\ access \in [Accounts -> Nat] /\ refresh \in [Accounts -> Nat]
        /\ token \in [Requests -> Nat]
    OBVIOUS
  <2>3. \A b \in Accounts : access[b] <= issued + 1 /\ refresh[b] <= issued + 1
    BY <2>2 DEF TokensIssued
  <2>4. \A q \in Requests : token'[q] <= issued + 1
    BY <2>1, <2>2 DEF TokensIssued
  <2> QED
    BY <2>1, <2>3, <2>4 DEF TokensIssued
<1>3. MemoryFits'
  BY DEF MemoryFits, Returning, Carrying, WithAccount, Usable
<1>4. TokensDistinct'
  BY DEF TokensDistinct, TokensIssued, MemoryFits, Carrying, WithAccount
<1>5. LockIsHeld'
  BY DEF LockIsHeld, TokensDistinct, TokensIssued, MemoryFits, Carrying, WithAccount,
         UnderLock, Usable, RefreshAccepted, Withdrawn
<1>6. StatusMatchesTokens'
  BY DEF StatusMatchesTokens, LockIsHeld, TokensDistinct, TokensIssued, MemoryFits,
         Carrying, WithAccount, UnderLock, Usable, Refreshes, RefreshAccepted, Withdrawn
<1>7. DefaultIsListed'
  BY DEF DefaultIsListed, MemoryFits, WithAccount
<1> QED
  BY <1>1, <1>2, <1>3, <1>4, <1>5, <1>6, <1>7

LEMMA GitHubExchangesKeepsInvariant ==
  ASSUME IInv, NEW r \in Requests, NEW a \in Accounts, GitHubExchanges(r, a)
  PROVE  IInv'
<1> USE ConnectionsAssumption
    DEF IInv, TypeOK, Goto, NoToken, Tokens, accounts, choice, provider, memory,
        GitHubExchanges, Exchanges
<1>1. TypeOK'
  BY DEF MemoryFits, UnderLock, LockIsHeld, TokensIssued, Returning, WithAccount
<1>2. TokensIssued'
  <2>1. issued \in Nat /\ issued' = issued + 1
    OBVIOUS
  <2>2. \A q \in Requests : token'[q] = token[q] \/ token'[q] = issued + 1
    OBVIOUS
  <2>3. \A q \in Requests : token[q] \in Nat
    OBVIOUS
  <2>4. \A b \in Accounts : access[b] \in Nat /\ refresh[b] \in Nat
    OBVIOUS
  <2>5. access' = access /\ refresh' = refresh /\ TokensIssued
    OBVIOUS
  <2> QED
    BY ONLY <2>1, <2>2, <2>3, <2>4, <2>5 DEF TokensIssued
<1>3. MemoryFits'
  BY DEF MemoryFits, Returning, Carrying, WithAccount, Usable
<1>4. TokensDistinct'
  BY DEF TokensDistinct, TokensIssued, MemoryFits, Carrying, WithAccount
<1>5. LockIsHeld'
  BY DEF LockIsHeld, TokensDistinct, TokensIssued, MemoryFits, Carrying, WithAccount,
         UnderLock, Usable, RefreshAccepted, Withdrawn
<1>6. StatusMatchesTokens'
  BY DEF StatusMatchesTokens, LockIsHeld, TokensDistinct, TokensIssued, MemoryFits,
         Carrying, WithAccount, UnderLock, Usable, Refreshes, RefreshAccepted, Withdrawn
<1>7. DefaultIsListed'
  BY DEF DefaultIsListed, MemoryFits, WithAccount
<1> QED
  BY <1>1, <1>2, <1>3, <1>4, <1>5, <1>6, <1>7

LEMMA NotionExchangesKeepsInvariant ==
  ASSUME IInv, NEW r \in Requests, NEW a \in Accounts, NotionExchanges(r, a)
  PROVE  IInv'
<1>0. isNew'[r] <=> status[a] = "none"
  BY FindsNotes DEF IInv, TypeOK, NotionExchanges
<1> USE ConnectionsAssumption
    DEF IInv, TypeOK, Goto, NoToken, Tokens, accounts, choice, provider, memory,
        NotionExchanges, Exchanges, Finds
<1>1. TypeOK'
  BY DEF MemoryFits, UnderLock, LockIsHeld, TokensIssued, Returning, WithAccount
<1>2. TokensIssued'
  <2>1. issued' = issued + 1 /\ token' = [token EXCEPT ![r] = issued + 1]
        /\ UNCHANGED <<access, refresh>>
    OBVIOUS
  <2>2. issued \in Nat /\ access \in [Accounts -> Nat] /\ refresh \in [Accounts -> Nat]
        /\ token \in [Requests -> Nat]
    OBVIOUS
  <2>3. TokensIssued
    OBVIOUS
  <2>4. \A q \in Requests : token'[q] = token[q] \/ token'[q] = issued + 1
    OBVIOUS
  <2> QED
    BY ONLY <2>1, <2>2, <2>3, <2>4 DEF TokensIssued
<1>3. MemoryFits'
  <2>1. \A q \in Requests : q # r => pc'[q] = pc[q] /\ auth'[q] = auth[q] /\ account'[q] = account[q]
                                     /\ token'[q] = token[q] /\ (isNew'[q] <=> isNew[q])
    OBVIOUS
  <2>2. pc'[r] = "connecting" /\ auth'[r] \in Authorizations /\ account'[r] \in Accounts
        /\ token'[r] # NoToken
    BY DEF MemoryFits, Returning, Carrying, WithAccount
  <2>3. ~isNew'[r] => status[account'[r]] # "none"
    BY <1>0
  <2>4. UNCHANGED <<kind, status>>
    OBVIOUS
  <2> QED
    BY <2>1, <2>2, <2>3, <2>4 DEF MemoryFits, Returning, Carrying, WithAccount
<1>4. TokensDistinct'
  BY DEF TokensDistinct, TokensIssued, MemoryFits, Carrying, WithAccount
<1>5. LockIsHeld'
  BY DEF LockIsHeld, TokensDistinct, TokensIssued, MemoryFits, Carrying, WithAccount,
         UnderLock, Usable, RefreshAccepted, Withdrawn
<1>6. StatusMatchesTokens'
  BY DEF StatusMatchesTokens, LockIsHeld, TokensDistinct, TokensIssued, MemoryFits,
         Carrying, WithAccount, UnderLock, Usable, Refreshes, RefreshAccepted, Withdrawn
<1>7. DefaultIsListed'
  BY DEF DefaultIsListed, MemoryFits, WithAccount
<1> QED
  BY <1>1, <1>2, <1>3, <1>4, <1>5, <1>6, <1>7

LEMMA IdentifiesKeepsInvariant ==
  ASSUME IInv, NEW r \in Requests, Identifies(r)
  PROVE  IInv'
<1>0. isNew'[r] <=> status[account[r]] = "none"
  BY FindsNotes DEF IInv, TypeOK, Identifies, MemoryFits, WithAccount
<1> USE ConnectionsAssumption
    DEF IInv, TypeOK, Goto, NoToken, Tokens, accounts, choice, provider, memory,
        Identifies, Finds
<1>1. TypeOK'
  BY DEF MemoryFits, UnderLock, LockIsHeld, TokensIssued, Returning, WithAccount
<1>2. TokensIssued'
  BY DEF TokensIssued, MemoryFits, WithAccount
<1>3. MemoryFits'
  <2>1. \A q \in Requests : q # r => pc'[q] = pc[q] /\ auth'[q] = auth[q] /\ account'[q] = account[q]
                                     /\ token'[q] = token[q] /\ (isNew'[q] <=> isNew[q])
    OBVIOUS
  <2>2. pc'[r] = "connecting" /\ auth'[r] \in Authorizations /\ account'[r] \in Accounts
        /\ token'[r] # NoToken
    BY DEF MemoryFits, Returning, Carrying, WithAccount
  <2>3. ~isNew'[r] => status[account'[r]] # "none"
    BY <1>0
  <2>4. UNCHANGED <<kind, status>>
    OBVIOUS
  <2> QED
    BY <2>1, <2>2, <2>3, <2>4 DEF MemoryFits, Returning, Carrying, WithAccount
<1>4. TokensDistinct'
  BY DEF TokensDistinct, TokensIssued, MemoryFits, Carrying, WithAccount
<1>5. LockIsHeld'
  BY DEF LockIsHeld, TokensDistinct, TokensIssued, MemoryFits, Carrying, WithAccount,
         UnderLock, Usable, RefreshAccepted, Withdrawn
<1>6. StatusMatchesTokens'
  BY DEF StatusMatchesTokens, LockIsHeld, TokensDistinct, TokensIssued, MemoryFits,
         Carrying, WithAccount, UnderLock, Usable, Refreshes, RefreshAccepted, Withdrawn
<1>7. DefaultIsListed'
  BY DEF DefaultIsListed, MemoryFits, WithAccount
<1> QED
  BY <1>1, <1>2, <1>3, <1>4, <1>5, <1>6, <1>7

LEMMA ReplacesKeepsInvariant ==
  ASSUME IInv, NEW r \in Requests, Replaces(r)
  PROVE  IInv'
<1> USE ConnectionsAssumption
    DEF IInv, TypeOK, Goto, NoToken, Tokens, accounts, choice, provider, memory,
        Replaces, Stores, Refreshes, Unlocked
<1>1. TypeOK'
  BY DEF MemoryFits, UnderLock, LockIsHeld, TokensIssued, Returning, WithAccount
<1>2. TokensIssued'
  BY DEF TokensIssued, MemoryFits, WithAccount
<1>3. MemoryFits'
  BY DEF MemoryFits, Returning, Carrying, WithAccount, Usable
<1>4. TokensDistinct'
  BY DEF TokensDistinct, TokensIssued, MemoryFits, Carrying, WithAccount
<1>5. LockIsHeld'
  BY DEF LockIsHeld, TokensDistinct, TokensIssued, MemoryFits, Carrying, WithAccount,
         UnderLock, Usable, RefreshAccepted, Withdrawn
<1>6. StatusMatchesTokens'
  BY DEF StatusMatchesTokens, LockIsHeld, TokensDistinct, TokensIssued, MemoryFits,
         Carrying, WithAccount, UnderLock, Usable, Refreshes, RefreshAccepted, Withdrawn
<1>7. DefaultIsListed'
  BY DEF DefaultIsListed, MemoryFits, WithAccount
<1> QED
  BY <1>1, <1>2, <1>3, <1>4, <1>5, <1>6, <1>7

LEMMA CreatesKeepsInvariant ==
  ASSUME IInv, NEW r \in Requests, Creates(r)
  PROVE  IInv'
<1> USE ConnectionsAssumption
    DEF IInv, TypeOK, Goto, NoToken, Tokens, accounts, choice, provider, memory,
        Creates, Stores, Refreshes, MayCreate
<1>1. TypeOK'
  <2> DEFINE b == account[r]
             Rows == {a \in Accounts : status[a] # "none"}
  <2>1. b \in Accounts /\ auth[r] \in Authorizations /\ status[b] = "none"
    BY DEF MemoryFits, Returning, WithAccount
  <2>2. status' \in [Accounts -> {"none", "CONNECTED", "EXPIRED", "REVOKED"}]
        /\ access' \in [Accounts -> Tokens \cup {NoToken}]
        /\ refresh' \in [Accounts -> Tokens \cup {NoToken}]
        /\ oauth' \in [Authorizations -> {"none", "open", "expired", "consumed", "deleted"}]
    BY <2>1
  <2>3. created \in Seq(Rows')
    <3>1. Rows' = Rows \cup {b}
      BY <2>1
    <3> QED
      BY <3>1
  <2>4. created' \in Seq(Rows')
    BY <2>1, <2>2, <2>3
  <2>5. created' = Append(created, b) /\ created \in Seq(Rows) /\ b \notin Rows
    BY <2>1
  <2>6. /\ Len(created') = Len(created) + 1 /\ DOMAIN created' = 1..(Len(created) + 1)
        /\ \A i \in 1..Len(created) : created'[i] = created[i] /\ created[i] \in Rows
        /\ created'[Len(created) + 1] = b
    BY <2>5
  <2>7. \A a \in Accounts : status'[a] # "none" => \E i \in DOMAIN created' : created'[i] = a
    <3>1. created'[Len(created) + 1] = b /\ Len(created) + 1 \in DOMAIN created'
      BY <2>5, <2>6
    <3>2. ASSUME NEW a \in Accounts, status'[a] # "none", a # b
          PROVE  \E i \in DOMAIN created' : created'[i] = a
      <4>1. status[a] # "none"
        BY <3>2
      <4>2. PICK i \in DOMAIN created : created[i] = a
        BY <4>1
      <4>3. i \in 1..Len(created)
        BY <2>5, <4>2
      <4> QED
        BY <2>6, <4>2, <4>3
    <3> QED
      BY <3>1, <3>2
  <2>8. \A i, j \in DOMAIN created' : created'[i] = created'[j] => i = j
    BY <2>5, <2>6
  <2>9. pc' \in [Requests -> {"idle", "exchanging", "identifying", "connecting", "describing",
                             "repeating", "using", "refreshing", "refreshed", "refused",
                             "released", "selecting", "executing"}]
        /\ UNCHANGED <<kind, choice, provider, memory>>
    OBVIOUS
  <2>10. TypeOK
    OBVIOUS
  <2> QED
    BY ONLY <2>2, <2>4, <2>7, <2>8, <2>9, <2>10
       DEF TypeOK, NoToken, Tokens, choice, provider, memory
<1>2. TokensIssued'
  BY DEF TokensIssued, MemoryFits, WithAccount
<1>3. MemoryFits'
  BY DEF MemoryFits, Returning, Carrying, WithAccount, Usable
<1>4. TokensDistinct'
  BY DEF TokensDistinct, TokensIssued, MemoryFits, Carrying, WithAccount
<1>5. LockIsHeld'
  BY DEF LockIsHeld, TokensDistinct, TokensIssued, MemoryFits, Carrying, WithAccount,
         UnderLock, Usable, RefreshAccepted, Withdrawn
<1>6. StatusMatchesTokens'
  BY DEF StatusMatchesTokens, LockIsHeld, TokensDistinct, TokensIssued, MemoryFits,
         Carrying, WithAccount, UnderLock, Usable, Refreshes, RefreshAccepted, Withdrawn
<1>7. DefaultIsListed'
  BY DEF DefaultIsListed, MemoryFits, WithAccount
<1> QED
  BY <1>1, <1>2, <1>3, <1>4, <1>5, <1>6, <1>7

LEMMA DescribesKeepsInvariant ==
  ASSUME IInv, NEW r \in Requests, Describes(r)
  PROVE  IInv'
<1> USE ConnectionsAssumption
    DEF IInv, TypeOK, Goto, NoToken, Tokens, accounts, choice, provider, memory,
        Describes, Unlocked, End
<1>1. TypeOK'
  BY DEF MemoryFits, UnderLock, LockIsHeld, TokensIssued, Returning, WithAccount
<1>2. TokensIssued'
  BY DEF TokensIssued, MemoryFits, WithAccount
<1>3. MemoryFits'
  BY DEF MemoryFits, Returning, Carrying, WithAccount, Usable
<1>4. TokensDistinct'
  BY DEF TokensDistinct, TokensIssued, MemoryFits, Carrying, WithAccount
<1>5. LockIsHeld'
  BY DEF LockIsHeld, TokensDistinct, TokensIssued, MemoryFits, Carrying, WithAccount,
         UnderLock, Usable, RefreshAccepted, Withdrawn
<1>6. StatusMatchesTokens'
  BY DEF StatusMatchesTokens, LockIsHeld, TokensDistinct, TokensIssued, MemoryFits,
         Carrying, WithAccount, UnderLock, Usable, Refreshes, RefreshAccepted, Withdrawn
<1>7. DefaultIsListed'
  BY DEF DefaultIsListed, MemoryFits, WithAccount
<1> QED
  BY <1>1, <1>2, <1>3, <1>4, <1>5, <1>6, <1>7

LEMMA GoogleConnectionKeepsInvariant ==
  ASSUME IInv, NEW r \in Requests, NEW a \in Accounts, GoogleConnection(r, a)
  PROVE  IInv'
<1> USE ConnectionsAssumption
    DEF IInv, TypeOK, Goto, NoToken, Tokens, accounts, choice, provider, memory,
        GoogleConnection, Takes, OldestUsable, Unlocked
<1>1. TypeOK'
  BY DEF MemoryFits, UnderLock, LockIsHeld, TokensIssued, Returning, WithAccount
<1>2. TokensIssued'
  BY DEF TokensIssued, MemoryFits, WithAccount
<1>3. MemoryFits'
  BY DEF MemoryFits, Returning, Carrying, WithAccount, Usable
<1>4. TokensDistinct'
  BY DEF TokensDistinct, TokensIssued, MemoryFits, Carrying, WithAccount
<1>5. LockIsHeld'
  BY DEF LockIsHeld, TokensDistinct, TokensIssued, MemoryFits, Carrying, WithAccount,
         UnderLock, Usable, RefreshAccepted, Withdrawn
<1>6. StatusMatchesTokens'
  BY DEF StatusMatchesTokens, LockIsHeld, TokensDistinct, TokensIssued, MemoryFits,
         Carrying, WithAccount, UnderLock, Usable, Refreshes, RefreshAccepted, Withdrawn
<1>7. DefaultIsListed'
  BY DEF DefaultIsListed, MemoryFits, WithAccount
<1> QED
  BY <1>1, <1>2, <1>3, <1>4, <1>5, <1>6, <1>7

LEMMA NotionConnectionKeepsInvariant ==
  ASSUME IInv, NEW r \in Requests, NEW a \in Accounts, NotionConnection(r, a)
  PROVE  IInv'
<1> USE ConnectionsAssumption
    DEF IInv, TypeOK, Goto, NoToken, Tokens, accounts, choice, provider, memory,
        NotionConnection, Takes, OldestUsable, Unlocked
<1>1. TypeOK'
  BY DEF MemoryFits, UnderLock, LockIsHeld, TokensIssued, Returning, WithAccount
<1>2. TokensIssued'
  BY DEF TokensIssued, MemoryFits, WithAccount
<1>3. MemoryFits'
  BY DEF MemoryFits, Returning, Carrying, WithAccount, Usable
<1>4. TokensDistinct'
  BY DEF TokensDistinct, TokensIssued, MemoryFits, Carrying, WithAccount
<1>5. LockIsHeld'
  BY DEF LockIsHeld, TokensDistinct, TokensIssued, MemoryFits, Carrying, WithAccount,
         UnderLock, Usable, RefreshAccepted, Withdrawn
<1>6. StatusMatchesTokens'
  BY DEF StatusMatchesTokens, LockIsHeld, TokensDistinct, TokensIssued, MemoryFits,
         Carrying, WithAccount, UnderLock, Usable, Refreshes, RefreshAccepted, Withdrawn
<1>7. DefaultIsListed'
  BY DEF DefaultIsListed, MemoryFits, WithAccount
<1> QED
  BY <1>1, <1>2, <1>3, <1>4, <1>5, <1>6, <1>7

LEMMA GitHubConnectionKeepsInvariant ==
  ASSUME IInv, NEW r \in Requests, NEW a \in Accounts, GitHubConnection(r, a)
  PROVE  IInv'
<1> USE ConnectionsAssumption
    DEF IInv, TypeOK, Goto, NoToken, Tokens, accounts, choice, provider, memory,
        GitHubConnection, Takes, OldestUsable, Unlocked
<1>1. TypeOK'
  BY DEF MemoryFits, UnderLock, LockIsHeld, TokensIssued, Returning, WithAccount
<1>2. TokensIssued'
  BY DEF TokensIssued, MemoryFits, WithAccount
<1>3. MemoryFits'
  BY DEF MemoryFits, Returning, Carrying, WithAccount, Usable
<1>4. TokensDistinct'
  BY DEF TokensDistinct, TokensIssued, MemoryFits, Carrying, WithAccount
<1>5. LockIsHeld'
  BY DEF LockIsHeld, TokensDistinct, TokensIssued, MemoryFits, Carrying, WithAccount,
         UnderLock, Usable, RefreshAccepted, Withdrawn
<1>6. StatusMatchesTokens'
  BY DEF StatusMatchesTokens, LockIsHeld, TokensDistinct, TokensIssued, MemoryFits,
         Carrying, WithAccount, UnderLock, Usable, Refreshes, RefreshAccepted, Withdrawn
<1>7. DefaultIsListed'
  BY DEF DefaultIsListed, MemoryFits, WithAccount
<1> QED
  BY <1>1, <1>2, <1>3, <1>4, <1>5, <1>6, <1>7

LEMMA RefreshAnsweredKeepsInvariant ==
  ASSUME IInv, NEW r \in Requests, NEW rotates \in BOOLEAN, RefreshAnswered(r, rotates)
  PROVE  IInv'
<1> USE ConnectionsAssumption
    DEF IInv, TypeOK, Goto, NoToken, Tokens, accounts, choice, provider, memory,
        RefreshAnswered
<1>1. TypeOK'
  BY DEF MemoryFits, UnderLock, LockIsHeld, TokensIssued, Returning, WithAccount
<1>2. TokensIssued'
  BY DEF TokensIssued, MemoryFits, WithAccount
<1>3. MemoryFits'
  BY DEF MemoryFits, Returning, Carrying, WithAccount, Usable
<1>4. TokensDistinct'
  BY DEF TokensDistinct, TokensIssued, MemoryFits, Carrying, WithAccount
<1>5. LockIsHeld'
  BY DEF LockIsHeld, TokensDistinct, TokensIssued, MemoryFits, Carrying, WithAccount,
         UnderLock, Usable, RefreshAccepted, Withdrawn
<1>6. StatusMatchesTokens'
  BY DEF StatusMatchesTokens, LockIsHeld, TokensDistinct, TokensIssued, MemoryFits,
         Carrying, WithAccount, UnderLock, Usable, Refreshes, RefreshAccepted, Withdrawn
<1>7. DefaultIsListed'
  BY DEF DefaultIsListed, MemoryFits, WithAccount
<1> QED
  BY <1>1, <1>2, <1>3, <1>4, <1>5, <1>6, <1>7

LEMMA RefreshDeniedKeepsInvariant ==
  ASSUME IInv, NEW r \in Requests, RefreshDenied(r)
  PROVE  IInv'
<1> USE ConnectionsAssumption
    DEF IInv, TypeOK, Goto, NoToken, Tokens, accounts, choice, provider, memory,
        RefreshDenied
<1>1. TypeOK'
  BY DEF MemoryFits, UnderLock, LockIsHeld, TokensIssued, Returning, WithAccount
<1>2. TokensIssued'
  BY DEF TokensIssued, MemoryFits, WithAccount
<1>3. MemoryFits'
  BY DEF MemoryFits, Returning, Carrying, WithAccount, Usable
<1>4. TokensDistinct'
  BY DEF TokensDistinct, TokensIssued, MemoryFits, Carrying, WithAccount
<1>5. LockIsHeld'
  BY DEF LockIsHeld, TokensDistinct, TokensIssued, MemoryFits, Carrying, WithAccount,
         UnderLock, Usable, RefreshAccepted, Withdrawn
<1>6. StatusMatchesTokens'
  BY DEF StatusMatchesTokens, LockIsHeld, TokensDistinct, TokensIssued, MemoryFits,
         Carrying, WithAccount, UnderLock, Usable, Refreshes, RefreshAccepted, Withdrawn
<1>7. DefaultIsListed'
  BY DEF DefaultIsListed, MemoryFits, WithAccount
<1> QED
  BY <1>1, <1>2, <1>3, <1>4, <1>5, <1>6, <1>7

LEMMA RefreshSavesKeepsInvariant ==
  ASSUME IInv, NEW r \in Requests, RefreshSaves(r)
  PROVE  IInv'
<1> USE ConnectionsAssumption
    DEF IInv, TypeOK, Goto, NoToken, Tokens, accounts, choice, provider, memory,
        RefreshSaves
<1>1. TypeOK'
  BY DEF MemoryFits, UnderLock, LockIsHeld, TokensIssued, Returning, WithAccount
<1>2. TokensIssued'
  BY DEF TokensIssued, MemoryFits, WithAccount
<1>3. MemoryFits'
  BY DEF MemoryFits, Returning, Carrying, WithAccount, Usable
<1>4. TokensDistinct'
  BY DEF TokensDistinct, TokensIssued, MemoryFits, Carrying, WithAccount
<1>5. LockIsHeld'
  BY DEF LockIsHeld, TokensDistinct, TokensIssued, MemoryFits, Carrying, WithAccount,
         UnderLock, Usable, RefreshAccepted, Withdrawn
<1>6. StatusMatchesTokens'
  BY DEF StatusMatchesTokens, LockIsHeld, TokensDistinct, TokensIssued, MemoryFits,
         Carrying, WithAccount, UnderLock, Usable, Refreshes, RefreshAccepted, Withdrawn
<1>7. DefaultIsListed'
  BY DEF DefaultIsListed, MemoryFits, WithAccount
<1> QED
  BY <1>1, <1>2, <1>3, <1>4, <1>5, <1>6, <1>7

LEMMA RefreshExpiresKeepsInvariant ==
  ASSUME IInv, NEW r \in Requests, RefreshExpires(r)
  PROVE  IInv'
<1> USE ConnectionsAssumption
    DEF IInv, TypeOK, Goto, NoToken, Tokens, accounts, choice, provider, memory,
        RefreshExpires, End
<1>1. TypeOK'
  BY DEF MemoryFits, UnderLock, LockIsHeld, TokensIssued, Returning, WithAccount
<1>2. TokensIssued'
  BY DEF TokensIssued, MemoryFits, WithAccount
<1>3. MemoryFits'
  BY DEF MemoryFits, Returning, Carrying, WithAccount, Usable
<1>4. TokensDistinct'
  BY DEF TokensDistinct, TokensIssued, MemoryFits, Carrying, WithAccount
<1>5. LockIsHeld'
  BY DEF LockIsHeld, TokensDistinct, TokensIssued, MemoryFits, Carrying, WithAccount,
         UnderLock, Usable, RefreshAccepted, Withdrawn
<1>6. StatusMatchesTokens'
  BY DEF StatusMatchesTokens, LockIsHeld, TokensDistinct, TokensIssued, MemoryFits,
         Carrying, WithAccount, UnderLock, Usable, Refreshes, RefreshAccepted, Withdrawn
<1>7. DefaultIsListed'
  BY DEF DefaultIsListed, MemoryFits, WithAccount
<1> QED
  BY <1>1, <1>2, <1>3, <1>4, <1>5, <1>6, <1>7

LEMMA ListsPagesKeepsInvariant ==
  ASSUME IInv, NEW r \in Requests, NEW found \in BOOLEAN, ListsPages(r, found)
  PROVE  IInv'
<1> USE ConnectionsAssumption
    DEF IInv, TypeOK, Goto, NoToken, Tokens, accounts, choice, provider, memory,
        ListsPages, KeptDefault, End
<1>1. TypeOK'
  BY DEF MemoryFits, UnderLock, LockIsHeld, TokensIssued, Returning, WithAccount
<1>2. TokensIssued'
  BY DEF TokensIssued, MemoryFits, WithAccount
<1>3. MemoryFits'
  BY DEF MemoryFits, Returning, Carrying, WithAccount, Usable
<1>4. TokensDistinct'
  BY DEF TokensDistinct, TokensIssued, MemoryFits, Carrying, WithAccount
<1>5. LockIsHeld'
  BY DEF LockIsHeld, TokensDistinct, TokensIssued, MemoryFits, Carrying, WithAccount,
         UnderLock, Usable, RefreshAccepted, Withdrawn
<1>6. StatusMatchesTokens'
  BY DEF StatusMatchesTokens, LockIsHeld, TokensDistinct, TokensIssued, MemoryFits,
         Carrying, WithAccount, UnderLock, Usable, Refreshes, RefreshAccepted, Withdrawn
<1>7. DefaultIsListed'
  BY DEF DefaultIsListed, MemoryFits, WithAccount
<1> QED
  BY <1>1, <1>2, <1>3, <1>4, <1>5, <1>6, <1>7

LEMMA ListsCalendarsKeepsInvariant ==
  ASSUME IInv, NEW r \in Requests, NEW found \in BOOLEAN, ListsCalendars(r, found)
  PROVE  IInv'
<1> USE ConnectionsAssumption
    DEF IInv, TypeOK, Goto, NoToken, Tokens, accounts, choice, provider, memory,
        ListsCalendars, End
<1>1. TypeOK'
  BY DEF MemoryFits, UnderLock, LockIsHeld, TokensIssued, Returning, WithAccount
<1>2. TokensIssued'
  BY DEF TokensIssued, MemoryFits, WithAccount
<1>3. MemoryFits'
  BY DEF MemoryFits, Returning, Carrying, WithAccount, Usable
<1>4. TokensDistinct'
  BY DEF TokensDistinct, TokensIssued, MemoryFits, Carrying, WithAccount
<1>5. LockIsHeld'
  BY DEF LockIsHeld, TokensDistinct, TokensIssued, MemoryFits, Carrying, WithAccount,
         UnderLock, Usable, RefreshAccepted, Withdrawn
<1>6. StatusMatchesTokens'
  BY DEF StatusMatchesTokens, LockIsHeld, TokensDistinct, TokensIssued, MemoryFits,
         Carrying, WithAccount, UnderLock, Usable, Refreshes, RefreshAccepted, Withdrawn
<1>7. DefaultIsListed'
  BY DEF DefaultIsListed, MemoryFits, WithAccount
<1> QED
  BY <1>1, <1>2, <1>3, <1>4, <1>5, <1>6, <1>7

LEMMA SelectsPageKeepsInvariant ==
  ASSUME IInv, NEW r \in Requests, SelectsPage(r)
  PROVE  IInv'
<1> USE ConnectionsAssumption
    DEF IInv, TypeOK, Goto, NoToken, Tokens, accounts, choice, provider, memory,
        SelectsPage, End
<1>1. TypeOK'
  BY DEF MemoryFits, UnderLock, LockIsHeld, TokensIssued, Returning, WithAccount
<1>2. TokensIssued'
  BY DEF TokensIssued, MemoryFits, WithAccount
<1>3. MemoryFits'
  BY DEF MemoryFits, Returning, Carrying, WithAccount, Usable
<1>4. TokensDistinct'
  BY DEF TokensDistinct, TokensIssued, MemoryFits, Carrying, WithAccount
<1>5. LockIsHeld'
  BY DEF LockIsHeld, TokensDistinct, TokensIssued, MemoryFits, Carrying, WithAccount,
         UnderLock, Usable, RefreshAccepted, Withdrawn
<1>6. StatusMatchesTokens'
  BY DEF StatusMatchesTokens, LockIsHeld, TokensDistinct, TokensIssued, MemoryFits,
         Carrying, WithAccount, UnderLock, Usable, Refreshes, RefreshAccepted, Withdrawn
<1>7. DefaultIsListed'
  BY DEF DefaultIsListed, MemoryFits, WithAccount
<1> QED
  BY <1>1, <1>2, <1>3, <1>4, <1>5, <1>6, <1>7

LEMMA ChoosesCalendarKeepsInvariant ==
  ASSUME IInv, NEW r \in Requests, ChoosesCalendar(r)
  PROVE  IInv'
<1> USE ConnectionsAssumption
    DEF IInv, TypeOK, Goto, NoToken, Tokens, accounts, choice, provider, memory,
        ChoosesCalendar, End
<1>1. TypeOK'
  BY DEF MemoryFits, UnderLock, LockIsHeld, TokensIssued, Returning, WithAccount
<1>2. TokensIssued'
  BY DEF TokensIssued, MemoryFits, WithAccount
<1>3. MemoryFits'
  BY DEF MemoryFits, Returning, Carrying, WithAccount, Usable
<1>4. TokensDistinct'
  BY DEF TokensDistinct, TokensIssued, MemoryFits, Carrying, WithAccount
<1>5. LockIsHeld'
  BY DEF LockIsHeld, TokensDistinct, TokensIssued, MemoryFits, Carrying, WithAccount,
         UnderLock, Usable, RefreshAccepted, Withdrawn
<1>6. StatusMatchesTokens'
  BY DEF StatusMatchesTokens, LockIsHeld, TokensDistinct, TokensIssued, MemoryFits,
         Carrying, WithAccount, UnderLock, Usable, Refreshes, RefreshAccepted, Withdrawn
<1>7. DefaultIsListed'
  BY DEF DefaultIsListed, MemoryFits, WithAccount
<1> QED
  BY <1>1, <1>2, <1>3, <1>4, <1>5, <1>6, <1>7

LEMMA KeepsCalendarKeepsInvariant ==
  ASSUME IInv, NEW r \in Requests, KeepsCalendar(r)
  PROVE  IInv'
<1> USE ConnectionsAssumption
    DEF IInv, TypeOK, Goto, NoToken, Tokens, accounts, choice, provider, memory,
        KeepsCalendar
<1>1. TypeOK'
  BY DEF MemoryFits, UnderLock, LockIsHeld, TokensIssued, Returning, WithAccount
<1>2. TokensIssued'
  BY DEF TokensIssued, MemoryFits, WithAccount
<1>3. MemoryFits'
  BY DEF MemoryFits, Returning, Carrying, WithAccount, Usable
<1>4. TokensDistinct'
  BY DEF TokensDistinct, TokensIssued, MemoryFits, Carrying, WithAccount
<1>5. LockIsHeld'
  BY DEF LockIsHeld, TokensDistinct, TokensIssued, MemoryFits, Carrying, WithAccount,
         UnderLock, Usable, RefreshAccepted, Withdrawn
<1>6. StatusMatchesTokens'
  BY DEF StatusMatchesTokens, LockIsHeld, TokensDistinct, TokensIssued, MemoryFits,
         Carrying, WithAccount, UnderLock, Usable, Refreshes, RefreshAccepted, Withdrawn
<1>7. DefaultIsListed'
  BY DEF DefaultIsListed, MemoryFits, WithAccount
<1> QED
  BY <1>1, <1>2, <1>3, <1>4, <1>5, <1>6, <1>7

LEMMA SelectEndsKeepsInvariant ==
  ASSUME IInv, NEW r \in Requests, SelectEnds(r)
  PROVE  IInv'
<1> USE ConnectionsAssumption
    DEF IInv, TypeOK, Goto, NoToken, Tokens, accounts, choice, provider, memory,
        SelectEnds, End
<1>1. TypeOK'
  BY DEF MemoryFits, UnderLock, LockIsHeld, TokensIssued, Returning, WithAccount
<1>2. TokensIssued'
  BY DEF TokensIssued, MemoryFits, WithAccount
<1>3. MemoryFits'
  BY DEF MemoryFits, Returning, Carrying, WithAccount, Usable
<1>4. TokensDistinct'
  BY DEF TokensDistinct, TokensIssued, MemoryFits, Carrying, WithAccount
<1>5. LockIsHeld'
  BY DEF LockIsHeld, TokensDistinct, TokensIssued, MemoryFits, Carrying, WithAccount,
         UnderLock, Usable, RefreshAccepted, Withdrawn
<1>6. StatusMatchesTokens'
  BY DEF StatusMatchesTokens, LockIsHeld, TokensDistinct, TokensIssued, MemoryFits,
         Carrying, WithAccount, UnderLock, Usable, Refreshes, RefreshAccepted, Withdrawn
<1>7. DefaultIsListed'
  BY DEF DefaultIsListed, MemoryFits, WithAccount
<1> QED
  BY <1>1, <1>2, <1>3, <1>4, <1>5, <1>6, <1>7

LEMMA ExecutesKeepsInvariant ==
  ASSUME IInv, NEW r \in Requests, NEW a \in Accounts, Executes(r, a)
  PROVE  IInv'
<1> USE ConnectionsAssumption
    DEF IInv, TypeOK, Goto, NoToken, Tokens, accounts, choice, provider, memory,
        Executes
<1>1. TypeOK'
  BY DEF MemoryFits, UnderLock, LockIsHeld, TokensIssued, Returning, WithAccount
<1>2. TokensIssued'
  BY DEF TokensIssued, MemoryFits, WithAccount
<1>3. MemoryFits'
  BY DEF MemoryFits, Returning, Carrying, WithAccount, Usable
<1>4. TokensDistinct'
  BY DEF TokensDistinct, TokensIssued, MemoryFits, Carrying, WithAccount
<1>5. LockIsHeld'
  BY DEF LockIsHeld, TokensDistinct, TokensIssued, MemoryFits, Carrying, WithAccount,
         UnderLock, Usable, RefreshAccepted, Withdrawn
<1>6. StatusMatchesTokens'
  BY DEF StatusMatchesTokens, LockIsHeld, TokensDistinct, TokensIssued, MemoryFits,
         Carrying, WithAccount, UnderLock, Usable, Refreshes, RefreshAccepted, Withdrawn
<1>7. DefaultIsListed'
  BY DEF DefaultIsListed, MemoryFits, WithAccount
<1> QED
  BY <1>1, <1>2, <1>3, <1>4, <1>5, <1>6, <1>7

LEMMA ExecutionRefusedKeepsInvariant ==
  ASSUME IInv, NEW r \in Requests, ExecutionRefused(r)
  PROVE  IInv'
<1> USE ConnectionsAssumption
    DEF IInv, TypeOK, Goto, NoToken, Tokens, accounts, choice, provider, memory,
        ExecutionRefused, End, Unlocked
<1>1. TypeOK'
  <2>1. account[r] \in Accounts /\ status[account[r]] # "none"
    BY DEF MemoryFits, WithAccount
  <2>2. {a \in Accounts : status'[a] # "none"} = {a \in Accounts : status[a] # "none"}
    BY <2>1
  <2>3. created' \in Seq({a \in Accounts : status'[a] # "none"})
        /\ \A a \in Accounts : status'[a] # "none" => \E i \in DOMAIN created' : created'[i] = a
    BY <2>2
  <2> QED
    BY <2>3
<1>2. TokensIssued'
  BY DEF TokensIssued, MemoryFits, WithAccount
<1>3. MemoryFits'
  BY DEF MemoryFits, Returning, Carrying, WithAccount, Usable
<1>4. TokensDistinct'
  BY DEF TokensDistinct, TokensIssued, MemoryFits, Carrying, WithAccount
<1>5. LockIsHeld'
  BY DEF LockIsHeld, TokensDistinct, TokensIssued, MemoryFits, Carrying, WithAccount,
         UnderLock, Usable, RefreshAccepted, Withdrawn
<1>6. StatusMatchesTokens'
  BY DEF StatusMatchesTokens, LockIsHeld, TokensDistinct, TokensIssued, MemoryFits,
         Carrying, WithAccount, UnderLock, Usable, Refreshes, RefreshAccepted, Withdrawn
<1>7. DefaultIsListed'
  BY DEF DefaultIsListed, MemoryFits, WithAccount
<1> QED
  BY <1>1, <1>2, <1>3, <1>4, <1>5, <1>6, <1>7

LEMMA DisconnectKeepsInvariant ==
  ASSUME IInv, Disconnect
  PROVE  IInv'
<1> USE ConnectionsAssumption
    DEF IInv, TypeOK, Goto, NoToken, Tokens, accounts, choice, provider, memory,
        Disconnect, Unlocked
<1>1. TypeOK'
  <2>1. status' \in [Accounts -> {"none", "CONNECTED", "EXPIRED", "REVOKED"}]
        /\ access' \in [Accounts -> Tokens \cup {NoToken}]
        /\ refresh' \in [Accounts -> Tokens \cup {NoToken}]
    OBVIOUS
  <2>2. \A a \in Accounts : status'[a] # "none" <=> status[a] # "none"
    OBVIOUS
  <2>3. {a \in Accounts : status'[a] # "none"} = {a \in Accounts : status[a] # "none"}
    BY <2>2
  <2>4. created' \in Seq({a \in Accounts : status'[a] # "none"})
    BY <2>3
  <2> QED
    BY <2>1, <2>2, <2>4
<1>2. TokensIssued'
  BY DEF TokensIssued, MemoryFits, WithAccount
<1>3. MemoryFits'
  BY DEF MemoryFits, Returning, Carrying, WithAccount, Usable
<1>4. TokensDistinct'
  BY DEF TokensDistinct, TokensIssued, MemoryFits, Carrying, WithAccount
<1>5. LockIsHeld'
  BY DEF LockIsHeld, TokensDistinct, TokensIssued, MemoryFits, Carrying, WithAccount,
         UnderLock, Usable, RefreshAccepted, Withdrawn
<1>6. StatusMatchesTokens'
  BY DEF StatusMatchesTokens, LockIsHeld, TokensDistinct, TokensIssued, MemoryFits,
         Carrying, WithAccount, UnderLock, Usable, Refreshes, RefreshAccepted, Withdrawn
<1>7. DefaultIsListed'
  BY DEF DefaultIsListed, MemoryFits, WithAccount
<1> QED
  BY <1>1, <1>2, <1>3, <1>4, <1>5, <1>6, <1>7

LEMMA ResetKeepsInvariant ==
  ASSUME IInv, Reset
  PROVE  IInv'
<1> USE ConnectionsAssumption
    DEF IInv, TypeOK, Goto, NoToken, Tokens, accounts, choice, provider, memory,
        Reset, Unlocked
<1>1. TypeOK'
  BY DEF MemoryFits, UnderLock, LockIsHeld, TokensIssued, Returning, WithAccount
<1>2. TokensIssued'
  BY DEF TokensIssued, MemoryFits, WithAccount
<1>3. MemoryFits'
  BY DEF MemoryFits, Returning, Carrying, WithAccount, Usable
<1>4. TokensDistinct'
  BY DEF TokensDistinct, TokensIssued, MemoryFits, Carrying, WithAccount
<1>5. LockIsHeld'
  BY DEF LockIsHeld, TokensDistinct, TokensIssued, MemoryFits, Carrying, WithAccount,
         UnderLock, Usable, RefreshAccepted, Withdrawn
<1>6. StatusMatchesTokens'
  BY DEF StatusMatchesTokens, LockIsHeld, TokensDistinct, TokensIssued, MemoryFits,
         Carrying, WithAccount, UnderLock, Usable, Refreshes, RefreshAccepted, Withdrawn
<1>7. DefaultIsListed'
  BY DEF DefaultIsListed, MemoryFits, WithAccount
<1> QED
  BY <1>1, <1>2, <1>3, <1>4, <1>5, <1>6, <1>7

LEMMA WithdrawsKeepsInvariant ==
  ASSUME IInv, Withdraws
  PROVE  IInv'
<1> USE ConnectionsAssumption
    DEF IInv, TypeOK, Goto, NoToken, Tokens, accounts, choice, provider, memory,
        Withdraws
<1>1. TypeOK'
  BY DEF MemoryFits, UnderLock, LockIsHeld, TokensIssued, Returning, WithAccount
<1>2. TokensIssued'
  BY DEF TokensIssued, MemoryFits, WithAccount
<1>3. MemoryFits'
  BY DEF MemoryFits, Returning, Carrying, WithAccount, Usable
<1>4. TokensDistinct'
  BY DEF TokensDistinct, TokensIssued, MemoryFits, Carrying, WithAccount
<1>5. LockIsHeld'
  BY DEF LockIsHeld, TokensDistinct, TokensIssued, MemoryFits, Carrying, WithAccount,
         UnderLock, Usable, RefreshAccepted, Withdrawn
<1>6. StatusMatchesTokens'
  BY DEF StatusMatchesTokens, LockIsHeld, TokensDistinct, TokensIssued, MemoryFits,
         Carrying, WithAccount, UnderLock, Usable, Refreshes, RefreshAccepted, Withdrawn
<1>7. DefaultIsListed'
  BY DEF DefaultIsListed, MemoryFits, WithAccount
<1> QED
  BY <1>1, <1>2, <1>3, <1>4, <1>5, <1>6, <1>7

LEMMA ExpiresKeepsInvariant ==
  ASSUME IInv, NEW n \in Tokens, Expires(n)
  PROVE  IInv'
<1> USE ConnectionsAssumption
    DEF IInv, TypeOK, Goto, NoToken, Tokens, accounts, choice, provider, memory,
        Expires
<1>1. TypeOK'
  BY DEF MemoryFits, UnderLock, LockIsHeld, TokensIssued, Returning, WithAccount
<1>2. TokensIssued'
  BY DEF TokensIssued, MemoryFits, WithAccount
<1>3. MemoryFits'
  BY DEF MemoryFits, Returning, Carrying, WithAccount, Usable
<1>4. TokensDistinct'
  BY DEF TokensDistinct, TokensIssued, MemoryFits, Carrying, WithAccount
<1>5. LockIsHeld'
  BY DEF LockIsHeld, TokensDistinct, TokensIssued, MemoryFits, Carrying, WithAccount,
         UnderLock, Usable, RefreshAccepted, Withdrawn
<1>6. StatusMatchesTokens'
  BY DEF StatusMatchesTokens, LockIsHeld, TokensDistinct, TokensIssued, MemoryFits,
         Carrying, WithAccount, UnderLock, Usable, Refreshes, RefreshAccepted, Withdrawn
<1>7. DefaultIsListed'
  BY DEF DefaultIsListed, MemoryFits, WithAccount
<1> QED
  BY <1>1, <1>2, <1>3, <1>4, <1>5, <1>6, <1>7

LEMMA AbortsKeepsInvariant ==
  ASSUME IInv, NEW r \in Requests, Aborts(r)
  PROVE  IInv'
<1> USE ConnectionsAssumption
    DEF IInv, TypeOK, Goto, NoToken, Tokens, accounts, choice, provider, memory,
        Aborts, End
<1>1. TypeOK'
  BY DEF MemoryFits, UnderLock, LockIsHeld, TokensIssued, Returning, WithAccount
<1>2. TokensIssued'
  BY DEF TokensIssued, MemoryFits, WithAccount
<1>3. MemoryFits'
  BY DEF MemoryFits, Returning, Carrying, WithAccount, Usable
<1>4. TokensDistinct'
  BY DEF TokensDistinct, TokensIssued, MemoryFits, Carrying, WithAccount
<1>5. LockIsHeld'
  BY DEF LockIsHeld, TokensDistinct, TokensIssued, MemoryFits, Carrying, WithAccount,
         UnderLock, Usable, RefreshAccepted, Withdrawn
<1>6. StatusMatchesTokens'
  BY DEF StatusMatchesTokens, LockIsHeld, TokensDistinct, TokensIssued, MemoryFits,
         Carrying, WithAccount, UnderLock, Usable, Refreshes, RefreshAccepted, Withdrawn
<1>7. DefaultIsListed'
  BY DEF DefaultIsListed, MemoryFits, WithAccount
<1> QED
  BY <1>1, <1>2, <1>3, <1>4, <1>5, <1>6, <1>7

LEMMA StepKeepsInvariant == IInv /\ Step => IInv'
  BY StartKeepsInvariant, RunsOutKeepsInvariant, CallbackReadsKeepsInvariant,
     GoogleExchangesKeepsInvariant, GitHubExchangesKeepsInvariant,
     NotionExchangesKeepsInvariant, IdentifiesKeepsInvariant, ReplacesKeepsInvariant,
     CreatesKeepsInvariant, DescribesKeepsInvariant, GoogleConnectionKeepsInvariant,
     NotionConnectionKeepsInvariant, GitHubConnectionKeepsInvariant,
     RefreshAnsweredKeepsInvariant, RefreshDeniedKeepsInvariant,
     RefreshSavesKeepsInvariant, RefreshExpiresKeepsInvariant, ListsPagesKeepsInvariant,
     ListsCalendarsKeepsInvariant, SelectsPageKeepsInvariant,
     ChoosesCalendarKeepsInvariant, KeepsCalendarKeepsInvariant, SelectEndsKeepsInvariant,
     ExecutesKeepsInvariant, ExecutionRefusedKeepsInvariant, DisconnectKeepsInvariant,
     ResetKeepsInvariant, WithdrawsKeepsInvariant, ExpiresKeepsInvariant,
     AbortsKeepsInvariant DEF Step

LEMMA StutterKeepsInvariant == IInv /\ UNCHANGED vars => IInv'
  BY DEF vars, accounts, choice, provider, memory, IInv, TypeOK, TokensIssued, MemoryFits,
         TokensDistinct, LockIsHeld, StatusMatchesTokens, DefaultIsListed, Usable,
         RefreshAccepted, Withdrawn, Refreshes

(* The inductive invariant holds in every state that can be reached. *)
THEOREM Invariance == Spec => []IInv
<1>1. IInv /\ [Next]_vars => IInv'
  BY NextIsStep, StepKeepsInvariant, StutterKeepsInvariant
<1> QED
  BY InvariantInit, <1>1, PTL DEF Spec

--------------------------------------------------------------------------------
(* Every variable holds a value of its type in every state: the rows of    *)
(* the accounts are those created, once each, the unique constraint on     *)
(* (user, provider, provider account) deciding between two callbacks       *)
(* (connections.py).                                                       *)
THEOREM TypeCorrect == Spec => []TypeOK
<1>1. IInv => TypeOK
  BY DEF IInv
<1> QED
  BY Invariance, <1>1, PTL

(* What the connections page and the executions act on is sound, whatever  *)
(* callbacks, refreshes, disconnections, resets and refused executions     *)
(* cross: the status of an account says what its tokens are worth, and     *)
(* the default Notion page is one that is listed.                          *)
THEOREM SoundAccounts == Spec => []AccountsAreSound
<1>1. IInv => AccountsAreSound
  BY DEF IInv, AccountsAreSound
<1> QED
  BY Invariance, <1>1, PTL

(* Behind it: a refresh token belongs to one account, and what a request   *)
(* still carries from the provider is stored nowhere and carried by        *)
(* nobody else, so that no two requests store or rotate the same token.    *)
THEOREM TokensBelongToOne == Spec => []TokensDistinct
<1>1. IInv => TokensDistinct
  BY DEF IInv
<1> QED
  BY Invariance, <1>1, PTL
================================================================================
