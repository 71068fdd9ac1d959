----------------------- MODULE ProjectPublishing_proofs ------------------------
(***************************************************************************)
(* Proofs about ProjectPublishing for any number of publications and any   *)
(* set of concurrent requests, of a page or of an issue.                   *)
(***************************************************************************)
EXTENDS ProjectPublishing, FiniteSetTheorems, SequenceTheorems, TLAPS

(* Requests that execute a run and have not committed its outcome, those   *)
(* that work on a run's execution at all, and those that write a page that *)
(* was there before.                                                       *)
Underway == Executing \cup {"queued", "failed"}
Busy == Underway \cup {"completing", "failing"}
Writing == {"patching", "listing", "deleting", "migrating"}

Recorded == {recorded[k] : k \in DOMAIN recorded}

(* The three rows of a run go together; a run without an action has left   *)
(* no trace anywhere.                                                      *)
RowsFit ==
  \A i \in Runs :
    /\ run[i] = "none" => action[i] = "none"
    /\ \/ /\ action[i] = "none" /\ run[i] \in {"none", "DRAFT", "CANCELLED"}
          /\ approval[i] = "none" /\ target[i] = NoPage
          /\ i \notin made /\ i \notin raced
       \/ action[i] = "PROPOSED" /\ run[i] \in {"AWAITING_APPROVAL", "CANCELLED"}
                                 /\ (run[i] # "CANCELLED" => approval[i] = "PENDING")
       \/ action[i] = "APPROVED" /\ run[i] \in {"APPROVED", "QUEUED", "EXECUTING", "CANCELLED"}
                                 /\ approval[i] = "APPROVED"
       \/ action[i] = "COMPLETED" /\ run[i] \in {"EXECUTING", "COMPLETED", "CANCELLED"}
       \/ action[i] = "FAILED" /\ run[i] \in {"EXECUTING", "FAILED", "CANCELLED"}
       \/ action[i] = "REJECTED" /\ run[i] = "REJECTED"

(* What a request works on, by where it is.                                *)
MemoryFits ==
  \A r \in Requests :
    /\ pc[r] \in {"idle", "searching"} => mine[r] = NoRun
    /\ pc[r] \notin {"idle", "searching"} => mine[r] \in Runs
    /\ pc[r] = "drafted" => run[mine[r]] \in {"DRAFT", "CANCELLED"} /\ action[mine[r]] = "none"
    /\ pc[r] = "resolved" => approval[mine[r]] = "APPROVED"
    /\ pc[r] \in Busy =>
         run[mine[r]] \in {IF pc[r] = "queued" THEN "QUEUED" ELSE "EXECUTING", "CANCELLED"}
    /\ pc[r] \in Underway => action[mine[r]] = "APPROVED"
    /\ pc[r] = "completing" => action[mine[r]] = "COMPLETED"
    /\ pc[r] = "failing" => action[mine[r]] = "FAILED"

(* A run is drafted by one request and executed by one.                    *)
OneHand ==
  \A r, q \in Requests :
    pc[r] \in Busy \cup {"drafted"} /\ pc[q] \in Busy \cup {"drafted"} /\ mine[r] = mine[q] => r = q

(* A run whose execution has begun has a request at it until its outcome   *)
(* is committed, or that request died.                                     *)
NoneForgotten ==
  \A i \in Runs :
    action[i] = "APPROVED" /\ run[i] \in {"QUEUED", "EXECUTING"} =>
      i \in deserted \/ \E r \in Requests : mine[r] = i /\ pc[r] \in Underway

(* Artifacts: pages Relay has recorded are what previews read and what     *)
(* publications write; each is the page of a run that succeeded, or old.   *)
RecordsFit ==
  /\ kind = "issue" => recorded = <<>>
  /\ \A i \in Runs : i \in Recorded => action[i] = "COMPLETED" /\ Len(callouts[i]) = 1
  /\ \A i \in Runs : target[i] # NoPage => target[i] \in Recorded
  /\ \A r \in Requests : page[r] # NoPage => page[r] \in Recorded

(* What is on the page a request has begun to write.                       *)
PageFits(r) ==
  /\ pc[r] \in Writing => To(r) # NoPage
  /\ pc[r] \in {"patching", "listing", "deleting"} => callouts[To(r)] # <<>>
  /\ pc[r] = "migrating" => To(r) = OldPage /\ (todo[r] = {} => ~old)
  /\ pc[r] = "answered" /\ To(r) # NoPage => callouts[To(r)] # <<>>
  /\ pc[r] = "answered" /\ To(r) = NoPage /\ kind = "page" =>
       callouts[mine[r]] = <<Snapshot(mine[r])>>

PagesFit ==
  /\ callouts[OldPage] # <<>> => ~old
  /\ \A r \in Requests : PageFits(r)

(* A request that shares its page with a writer is marked as crossed; one  *)
(* that is not finds the page as it left it.                               *)
CrossingsNoted ==
  \A r, q \in Requests :
    r # q /\ pc[r] \in Writing \cup {"answered"} /\ pc[q] \in Writing /\ To(r) = To(q) => r \in crossed

WritesOwn(r) ==
  r \notin crossed =>
    /\ pc[r] \in {"listing", "deleting"} => callouts[To(r)][1].text = mine[r]
    /\ pc[r] = "deleting" => callouts[To(r)][1].nested = todo[r]
    /\ pc[r] = "migrating" => callouts[To(r)] = <<>>
    /\ pc[r] = "answered" /\ To(r) # NoPage => callouts[To(r)][1] = Snapshot(mine[r])

WritesAlone == \A r \in Requests : WritesOwn(r)

(* What an unraced preview has read still holds when it commits.           *)
ReadsStand ==
  \A r \in Previewing : r \notin raced =>
    /\ page[r] = LatestPage
    /\ pc[r] = "drafted" => Open = {}

(* The runs that have created something, or whose creation would count.    *)
MayMake(i) ==
  /\ i \notin raced /\ target[i] = NoPage
  /\ \/ run[i] \in {"AWAITING_APPROVAL", "APPROVED"}
     \/ \E r \in Requests : mine[r] = i /\ pc[r] \in {"queued", "calling"}

Claims(i) == i \in made \/ MayMake(i)

OneClaim == \A i, j \in Runs : Claims(i) /\ Claims(j) => i = j

(* A creation that counts is being learned of, or it was, and for a page   *)
(* there is a record of it.                                                *)
Known(i) ==
  /\ target[i] = NoPage
  /\ \/ \E r \in Requests : mine[r] = i /\ pc[r] = "answered"
     \/ action[i] = "COMPLETED" /\ (kind = "page" => recorded # <<>>)
  /\ \A r \in Requests : mine[r] = i => pc[r] \in {"resolved", "answered", "completing"}

MadeIsKnown == \A i \in made : Known(i)

IInv ==
  /\ TypeOK
  /\ RowsFit
  /\ MemoryFits
  /\ OneHand
  /\ NoneForgotten
  /\ RecordsFit
  /\ PagesFit
  /\ CrossingsNoted
  /\ WritesAlone
  /\ ReadsStand
  /\ OneClaim
  /\ MadeIsKnown

(* A block that is deleted, and one that another publication has deleted.  *)
DeletesBlock(r, i) ==
  /\ pc[r] = "deleting" /\ i \in todo[r] /\ i \in callouts[To(r)][1].nested
  /\ callouts' = [callouts EXCEPT ![To(r)][1].nested = @ \ {i}]
  /\ todo' = [todo EXCEPT ![r] = @ \ {i}]
  /\ Calling(r) /\ UNCHANGED <<pc, old, history>>

DeleteFails(r) ==
  /\ pc[r] = "deleting"
  /\ Goto(r, "failed") /\ todo' = [todo EXCEPT ![r] = {}]
  /\ Calling(r) /\ UNCHANGED <<notion, history>>

(* Everything a step may change.  A request is refused in five ways that   *)
(* change the same.                                                        *)
Leaves(r) ==
  /\ \/ pc[r] \in {"searching", "drafted", "resolved", "completing", "failing"}
     \/ pc[r] = "queued" /\ run[mine[r]] = "CANCELLED"
  /\ Refused(r)

Step ==
  \/ \E r \in Requests : PreviewReads(r) \/ PreviewCreates(r) \/ PreviewCommits(r) \/ Leaves(r)
  \/ \E r \in Requests, i \in Runs : Confirm(r, i) \/ Enqueue(r, i)
  \/ \E i \in Runs : Reject(i) \/ Cancel(i)
  \/ \E r \in Requests : Starts(r) \/ CreatesObject(r) \/ ListsChildren(r) \/ Patches(r)
  \/ \E r \in Requests : ListsNested(r) \/ Appends(r) \/ Migrates(r) \/ AppendsCallout(r)
  \/ \E r \in Requests, i \in Runs : DeletesBlock(r, i)
  \/ \E r \in Requests : DeleteFails(r)
  \/ \E r \in Requests : CallFails(r) \/ Succeeds(r) \/ Fails(r) \/ Settles(r) \/ Dies(r)

--------------------------------------------------------------------------------
(* The table of transitions, where this component asks it.                 *)

LEMMA PublishingTransitions ==
  ASSUME NEW status
  PROVE  /\ CanTransition(status, "ANALYZING") <=> status = "DRAFT"
         /\ CanTransition(status, "EXECUTING") <=> status = "QUEUED"
  BY DEF CanTransition, Transitions

LEMMA NextIsStep == IInv /\ Next => Step
<1> SUFFICES ASSUME IInv, Next PROVE Step
  OBVIOUS
<1>1. ASSUME NEW r \in Requests,
             \/ PreviewFinds(r) \/ PreviewRefused(r) \/ EnqueueRefused(r)
             \/ StartRefused(r) \/ SettleRefused(r)
      PROVE  Leaves(r)
  <2>1. pc[r] = "queued" => run[mine[r]] \in {"QUEUED", "CANCELLED"}
    BY DEF IInv, MemoryFits, Busy, Underway, Executing
  <2> QED
    BY <1>1, <2>1, PublishingTransitions
    DEF PreviewFinds, PreviewRefused, EnqueueRefused, StartRefused, SettleRefused, Leaves,
        Underway, Executing
<1>2. ASSUME NEW r \in Requests, NEW i \in Runs, Deletes(r, i)
      PROVE  DeletesBlock(r, i) \/ DeleteFails(r)
  BY <1>2 DEF Deletes, DeletesBlock, DeleteFails, notion
<1>3. ASSUME NEW r \in Requests, Progress(r)
      PROVE  Step
  BY <1>1, <1>2, <1>3 DEF Progress, Step
<1> QED
  BY <1>3 DEF Next, Step

--------------------------------------------------------------------------------
(* The latest page, when there is none.                                    *)

LEMMA LatestPageType ==
  ASSUME recorded \in Seq(Pages)
  PROVE  LatestPage \in Pages \cup {NoPage} /\ (LatestPage # NoPage => LatestPage \in Recorded)
<1>1. recorded # <<>> => Len(recorded) \in DOMAIN recorded
  BY EmptySeq
<1> QED
  BY <1>1 DEF LatestPage, Recorded

LEMMA RecordAdded ==
  ASSUME recorded \in Seq(Pages), NEW p \in Pages, recorded' = Append(recorded, p)
  PROVE  /\ recorded' \in Seq(Pages) /\ recorded' # <<>>
         /\ Recorded' = Recorded \cup {p}
<1>1. /\ recorded' \in Seq(Pages) /\ Len(recorded') = Len(recorded) + 1
      /\ DOMAIN recorded' = 1..(Len(recorded) + 1) /\ DOMAIN recorded = 1..Len(recorded)
      /\ recorded'[Len(recorded) + 1] = p
      /\ \A k \in DOMAIN recorded : recorded'[k] = recorded[k]
  OBVIOUS
<1>2. recorded' # <<>>
  BY <1>1, EmptySeq
<1>3. \A k \in DOMAIN recorded' : k \in DOMAIN recorded \/ k = Len(recorded) + 1
  BY <1>1
<1>4. Len(recorded) + 1 \in DOMAIN recorded' /\ DOMAIN recorded \subseteq DOMAIN recorded'
  BY <1>1
<1> QED
  BY <1>1, <1>2, <1>3, <1>4 DEF Recorded

LEMMA NoLatestPage ==
  ASSUME recorded \in Seq(Pages), LatestPage = NoPage
  PROVE  recorded = <<>>
<1>1. NoPage \notin Pages
  BY PublishingAssumption DEF NoPage, Pages, OldPage, Runs
<1>2. recorded # <<>> => Len(recorded) \in DOMAIN recorded
  BY EmptySeq
<1> QED
  BY <1>1, <1>2 DEF LatestPage

--------------------------------------------------------------------------------
(* A callout that is rewritten in place.                                   *)

Callout == [text : Runs, nested : SUBSET Runs]

LEMMA CalloutsChange ==
  ASSUME NEW all \in [Pages -> Seq(Callout)], NEW p \in Pages, NEW on \in Seq(Callout)
  PROVE  /\ [all EXCEPT ![p] = on] \in [Pages -> Seq(Callout)]
         /\ [all EXCEPT ![p] = on][p] = on
         /\ \A q \in Pages \ {p} : [all EXCEPT ![p] = on][q] = all[q]
  OBVIOUS

LEMMA FirstCalloutChanges ==
  ASSUME NEW on \in Seq(Callout), on # <<>>, NEW new \in Callout
  PROVE  /\ [on EXCEPT ![1] = new] \in Seq(Callout)
         /\ Len([on EXCEPT ![1] = new]) = Len(on)
         /\ [on EXCEPT ![1] = new][1] = new
<1>1. Len(on) # 0
  BY EmptySeq
<1> QED
  BY <1>1

LEMMA CalloutRetitled ==
  ASSUME NEW on \in Seq(Callout), on # <<>>, NEW i \in Runs
  PROVE  /\ [on EXCEPT ![1].text = i] \in Seq(Callout)
         /\ Len([on EXCEPT ![1].text = i]) = Len(on)
         /\ [on EXCEPT ![1].text = i][1] = [text |-> i, nested |-> on[1].nested]
<1> DEFINE new == [on[1] EXCEPT !.text = i]
<1>1. Len(on) # 0
  BY EmptySeq
<1>2. on[1] \in Callout
  BY <1>1
<1>3. new = [text |-> i, nested |-> on[1].nested] /\ new \in Callout
  BY <1>2 DEF Callout
<1> QED
  BY <1>3, FirstCalloutChanges

LEMMA CalloutLoses ==
  ASSUME NEW on \in Seq(Callout), on # <<>>, NEW i \in Runs
  PROVE  /\ [on EXCEPT ![1].nested = on[1].nested \ {i}] \in Seq(Callout)
         /\ Len([on EXCEPT ![1].nested = on[1].nested \ {i}]) = Len(on)
         /\ [on EXCEPT ![1].nested = on[1].nested \ {i}][1]
              = [text |-> on[1].text, nested |-> on[1].nested \ {i}]
<1> DEFINE new == [on[1] EXCEPT !.nested = on[1].nested \ {i}]
<1>1. Len(on) # 0
  BY EmptySeq
<1>2. on[1] \in Callout
  BY <1>1
<1>3. on[1].nested \ {i} \in SUBSET Runs
  BY <1>2 DEF Callout
<1>4. \A inside \in SUBSET Runs :
        /\ [on[1] EXCEPT !.nested = inside] = [text |-> on[1].text, nested |-> inside]
        /\ [text |-> on[1].text, nested |-> inside] \in Callout
  BY <1>2 DEF Callout
<1>5. new = [text |-> on[1].text, nested |-> on[1].nested \ {i}] /\ new \in Callout
  BY <1>3, <1>4, Zenon
<1> QED
  BY <1>5, FirstCalloutChanges

LEMMA CalloutGains ==
  ASSUME NEW on \in Seq(Callout), on # <<>>, NEW i \in Runs
  PROVE  /\ [on EXCEPT ![1].nested = on[1].nested \cup {i}] \in Seq(Callout)
         /\ Len([on EXCEPT ![1].nested = on[1].nested \cup {i}]) = Len(on)
         /\ [on EXCEPT ![1].nested = on[1].nested \cup {i}][1]
              = [text |-> on[1].text, nested |-> on[1].nested \cup {i}]
<1> DEFINE new == [on[1] EXCEPT !.nested = on[1].nested \cup {i}]
<1>1. Len(on) # 0
  BY EmptySeq
<1>2. on[1] \in Callout
  BY <1>1
<1>3. on[1].nested \cup {i} \in SUBSET Runs
  BY <1>2 DEF Callout
<1>4. \A inside \in SUBSET Runs :
        /\ [on[1] EXCEPT !.nested = inside] = [text |-> on[1].text, nested |-> inside]
        /\ [text |-> on[1].text, nested |-> inside] \in Callout
  BY <1>2 DEF Callout
<1>5. new = [text |-> on[1].text, nested |-> on[1].nested \cup {i}] /\ new \in Callout
  BY <1>3, <1>4, Zenon
<1> QED
  BY <1>5, FirstCalloutChanges

LEMMA OneIsSome ==
  ASSUME NEW on, Len(on) = 1
  PROVE  on # <<>>
<1>1. Len(<<>>) = 0
  OBVIOUS
<1> QED
  BY <1>1

LEMMA CalloutContents ==
  ASSUME NEW on \in Seq(Callout), on # <<>>
  PROVE  on[1].text \in Runs /\ on[1].nested \in SUBSET Runs
<1>1. Len(on) # 0
  BY EmptySeq
<1>2. on[1] \in Callout
  BY <1>1
<1> QED
  BY <1>2 DEF Callout

LEMMA CalloutAdded ==
  ASSUME NEW on \in Seq(Callout), NEW i \in Runs
  PROVE  /\ Append(on, Snapshot(i)) \in Seq(Callout) /\ Append(on, Snapshot(i)) # <<>>
         /\ on = <<>> => Append(on, Snapshot(i))[1] = Snapshot(i)
<1>1. Snapshot(i) \in Callout
  BY DEF Snapshot, Callout
<1>2. /\ Append(on, Snapshot(i)) \in Seq(Callout) /\ Len(Append(on, Snapshot(i))) # 0
      /\ Append(on, Snapshot(i))[Len(on) + 1] = Snapshot(i)
  BY <1>1
<1> QED
  BY <1>2, EmptySeq

--------------------------------------------------------------------------------
(* Pages that a step leaves alone.                                         *)

(* A run that is being executed is on no record, and nobody writes to what *)
(* it is going to create.                                                  *)
LEMMA NotYetRecorded ==
  ASSUME IInv, NEW r \in Requests, pc[r] \in Underway
  PROVE  /\ mine[r] \in Runs /\ mine[r] \notin Recorded
         /\ \A q \in Requests : pc[q] \in Underway => To(q) # mine[r]
<1>1. /\ mine[r] \in Runs /\ action[mine[r]] = "APPROVED"
      /\ \A q \in Requests : pc[q] \in Underway => mine[q] \in Runs
  BY DEF IInv, MemoryFits, Underway, Executing
<1>2. mine[r] \notin Recorded
  BY <1>1 DEF IInv, RecordsFit
<1>3. mine[r] # NoPage
  BY <1>1 DEF Runs, NoPage
<1> QED
  BY <1>1, <1>2, <1>3 DEF IInv, RecordsFit, To

LEMMA PageStaysFit ==
  ASSUME NEW q \in Requests, PageFits(q), UNCHANGED kind, old' => old,
         pc'[q] = pc[q], mine'[q] = mine[q], todo'[q] = todo[q],
         pc[q] \in Writing \cup {"answered"} =>
           target'[mine[q]] = target[mine[q]]
           /\ (To(q) # NoPage => callouts'[To(q)] = callouts[To(q)])
           /\ (To(q) = NoPage => callouts'[mine[q]] = callouts[mine[q]])
  PROVE  PageFits(q)'
  BY DEF PageFits, Writing, To, Snapshot

LEMMA StillWritesOwn ==
  ASSUME NEW q \in Requests, WritesOwn(q), q \in crossed => q \in crossed', PageFits(q),
         pc'[q] = pc[q], mine'[q] = mine[q], todo'[q] = todo[q],
         pc[q] \in Writing \cup {"answered"} =>
           target'[mine[q]] = target[mine[q]]
           /\ (To(q) # NoPage => callouts'[To(q)] = callouts[To(q)])
  PROVE  WritesOwn(q)'
  BY DEF PageFits, WritesOwn, Writing, To, Snapshot

(* A step of one request that writes nothing and after which it does not   *)
(* write.                                                                  *)
LEMMA PagesLeftAlone ==
  ASSUME IInv, NEW r \in Requests, UNCHANGED <<kind, notion>>, crossed \subseteq crossed' \cup {r},
         \A q \in Requests \ {r} : pc'[q] = pc[q] /\ mine'[q] = mine[q] /\ todo'[q] = todo[q],
         \A q \in Requests \ {r} :
           pc[q] \in Writing \cup {"answered"} => target'[mine[q]] = target[mine[q]],
         pc'[r] \notin Writing \cup {"answered"}
  PROVE  PagesFit' /\ WritesAlone'
<1>1. \A q \in Requests : PageFits(q) /\ WritesOwn(q)
  BY DEF IInv, PagesFit, WritesAlone
<1>2. \A q \in Requests \ {r} : PageFits(q)' /\ WritesOwn(q)'
  BY <1>1, PageStaysFit, StillWritesOwn DEF notion
<1>3. PageFits(r)' /\ WritesOwn(r)'
  BY DEF PageFits, WritesOwn, Writing
<1> QED
  BY <1>2, <1>3 DEF IInv, PagesFit, WritesAlone, notion

LEMMA WriterHasPage ==
  ASSUME IInv, NEW r \in Requests, pc[r] \in Writing
  PROVE  /\ mine[r] \in Runs /\ To(r) \in Pages /\ callouts[To(r)] \in Seq(Callout)
         /\ pc[r] = "migrating" => To(r) = OldPage
         /\ pc[r] # "migrating" => callouts[To(r)] # <<>>
<1>1. mine[r] \in Runs
  BY DEF IInv, MemoryFits, Writing
<1>2. To(r) \in Pages \cup {NoPage} /\ PageFits(r) /\ callouts \in [Pages -> Seq(Callout)]
  BY <1>1 DEF IInv, TypeOK, PagesFit, To, Callout
<1> QED
  BY <1>1, <1>2 DEF PageFits, Writing

(* A step of one request that writes to its page: who else writes there,   *)
(* or has written there and not committed yet, is marked as crossed.       *)
LEMMA OthersOnPages ==
  ASSUME IInv, NEW r \in Requests, pc[r] \in Writing, old' => old,
         UNCHANGED <<kind, target, mine, crossed>>,
         \A q \in Requests \ {r} : pc'[q] = pc[q] /\ todo'[q] = todo[q],
         \A p \in Pages \ {To(r)} : callouts'[p] = callouts[p],
         callouts'[To(r)] # <<>>
  PROVE  \A q \in Requests \ {r} : PageFits(q)' /\ WritesOwn(q)'
<1> SUFFICES ASSUME NEW q \in Requests \ {r}
             PROVE  PageFits(q)' /\ WritesOwn(q)'
  OBVIOUS
<1>1. /\ PageFits(q) /\ WritesOwn(q) /\ To(r) # NoPage
      /\ pc'[q] = pc[q] /\ mine'[q] = mine[q] /\ todo'[q] = todo[q] /\ To(q)' = To(q)
      /\ q \in crossed <=> q \in crossed'
  BY DEF IInv, PagesFit, PageFits, WritesAlone, To
<1>2. CASE pc[q] \notin Writing \cup {"answered"}
  BY <1>1, <1>2 DEF PageFits, WritesOwn, Writing
<1>3. CASE pc[q] \in Writing \cup {"answered"}
  <2>1. mine[q] \in Runs /\ mine[q] \in Pages /\ mine[q] # To(r) /\ To(q) \in Pages \cup {NoPage}
    <3>1. pc[q] \in Underway /\ pc[r] \in Underway
      BY <1>3 DEF Writing, Underway, Executing
    <3> QED
      BY <3>1, NotYetRecorded DEF IInv, TypeOK, Pages, To
  <2>2. CASE To(q) = To(r)
    <3>1. q \in crossed
      BY <1>3, <2>2 DEF IInv, CrossingsNoted
    <3> QED
      BY <1>1, <2>2, <3>1 DEF PageFits, WritesOwn, Writing
  <2>3. CASE To(q) # To(r)
    <3>1. /\ To(q) # NoPage => callouts'[To(q)] = callouts[To(q)]
          /\ callouts'[mine[q]] = callouts[mine[q]]
      BY <2>1, <2>3
    <3> QED
      BY <1>1, <3>1, PageStaysFit, StillWritesOwn
  <2> QED
    BY <2>2, <2>3
<1> QED
  BY <1>2, <1>3

--------------------------------------------------------------------------------
(* A request that goes away takes no creation with it that counts.         *)
LEMMA MadeStaysKnown ==
  ASSUME IInv, NEW r \in Requests, UNCHANGED <<kind, recorded>>, made' \subseteq made,
         \A q \in Requests \ {r} : pc'[q] = pc[q] /\ mine'[q] = mine[q],
         \A i \in made' : target'[i] = target[i] /\ action'[i] = action[i],
         mine'[r] \notin made', pc[r] = "answered" => mine[r] \notin made'
  PROVE  MadeIsKnown'
<1> SUFFICES ASSUME NEW i \in made'
             PROVE  Known(i)'
  BY DEF MadeIsKnown
<1>1. Known(i)
  BY DEF IInv, MadeIsKnown
<1>2. \A q \in Requests : mine'[q] = i => pc'[q] \in {"resolved", "answered", "completing"}
  BY <1>1 DEF Known
<1>3. \/ \E q \in Requests : mine'[q] = i /\ pc'[q] = "answered"
      \/ action'[i] = "COMPLETED" /\ (kind' = "page" => recorded' # <<>>)
  BY <1>1 DEF Known
<1> QED
  BY <1>1, <1>2, <1>3 DEF Known

--------------------------------------------------------------------------------
(* The invariant holds at the start.                                       *)

LEMMA InvariantInit == Init => IInv
<1> SUFFICES ASSUME Init PROVE IInv
  OBVIOUS
<1> USE PublishingAssumption DEF Init
<1>1. TypeOK
  <2>1. kind \in {"page", "issue"} /\ old \in BOOLEAN
    OBVIOUS
  <2>2. callouts \in [Pages -> Seq([text : Runs, nested : SUBSET Runs])]
    <3>1. <<>> \in Seq([text : Runs, nested : SUBSET Runs])
      OBVIOUS
    <3> QED
      BY <3>1
  <2>3. recorded \in Seq(Pages)
    <3>1. <<>> \in Seq(Pages) /\ <<OldPage>> \in Seq(Pages)
      BY DEF Pages
    <3> QED
      BY <3>1
  <2> QED
    BY <2>1, <2>2, <2>3 DEF TypeOK, NoRun
<1>2. RowsFit /\ MemoryFits /\ OneHand /\ NoneForgotten /\ MadeIsKnown
  BY DEF RowsFit, MemoryFits, OneHand, NoneForgotten, MadeIsKnown, Busy, Underway, Executing
<1>3. RecordsFit /\ PagesFit
  BY DEF RecordsFit, PagesFit, PageFits, Recorded, Writing, OldPage, Runs, Pages
<1>4. CrossingsNoted /\ WritesAlone /\ ReadsStand /\ OneClaim
  BY DEF CrossingsNoted, WritesAlone, WritesOwn, ReadsStand, OneClaim, Claims, MayMake, Previewing, Writing
<1> QED
  BY <1>1, <1>2, <1>3, <1>4 DEF IInv

--------------------------------------------------------------------------------
(* Each action keeps the inductive invariant.                              *)

LEMMA PreviewReadsKeepsInvariant ==
  ASSUME IInv, NEW r \in Requests, PreviewReads(r)
  PROVE  IInv'
<1> USE PublishingAssumption
    DEF IInv, TypeOK, Goto, NoRun, rows, notion, memory, history, Busy, Underway, Executing, To,
        PreviewReads
<1>1. TypeOK'
  BY LatestPageType
<1>2. RowsFit'
  BY DEF RowsFit, MemoryFits, Previewing
<1>3. MemoryFits'
  BY DEF RowsFit, MemoryFits, OneHand
<1>4. OneHand'
  BY DEF RowsFit, MemoryFits, OneHand
<1>5. NoneForgotten'
  BY DEF RowsFit, MemoryFits, OneHand, NoneForgotten
<1>6. RecordsFit'
  BY LatestPageType DEF RowsFit, MemoryFits, RecordsFit, PagesFit, PageFits, Writing, Recorded, LatestPage
<1>7. PagesFit'
  BY DEF RowsFit, MemoryFits, OneHand, RecordsFit, PagesFit, PageFits, Writing, Pages, Snapshot
<1>8. CrossingsNoted'
  BY DEF MemoryFits, CrossingsNoted, Writing
<1>9. WritesAlone'
  BY DEF MemoryFits, OneHand, RecordsFit, PagesFit, PageFits, CrossingsNoted, WritesAlone,
         WritesOwn, Writing, Pages, Snapshot
<1>10. ReadsStand'
  BY DEF RowsFit, MemoryFits, ReadsStand, Previewing, LatestPage, Open, ActionStatus
<1>11. OneClaim'
  BY DEF RowsFit, MemoryFits, OneHand, OneClaim, Claims, MayMake
<1>12. MadeIsKnown'
  BY DEF RowsFit, MemoryFits, OneHand, MadeIsKnown, Known
<1> QED
  BY <1>1, <1>2, <1>3, <1>4, <1>5, <1>6, <1>7, <1>8, <1>9, <1>10, <1>11, <1>12

LEMMA PreviewCreatesKeepsInvariant ==
  ASSUME IInv, NEW r \in Requests, PreviewCreates(r)
  PROVE  IInv'
<1> USE PublishingAssumption
    DEF IInv, TypeOK, Goto, NoRun, rows, notion, memory, history, Busy, Underway, Executing, To,
        PreviewCreates
<1>1. TypeOK'
  BY DEF MemoryFits, PagesFit, PageFits, Writing, LatestPage, Pages, Previewing, Callout,
         WorkflowStatus, ActionStatus, ApprovalStatus
<1>2. RowsFit'
  BY DEF RowsFit, MemoryFits, Previewing
<1>3. MemoryFits'
  BY DEF RowsFit, MemoryFits, OneHand
<1>4. OneHand'
  BY DEF RowsFit, MemoryFits, OneHand
<1>5. NoneForgotten'
  <2>1. ASSUME NEW i \in Runs, action[i] = "APPROVED", run'[i] \in {"QUEUED", "EXECUTING"}
        PROVE  i \in deserted \/ \E q \in Requests : mine'[q] = i /\ pc'[q] \in Underway
    <3>1. run[i] \in {"QUEUED", "EXECUTING"}
      BY <2>1
    <3>2. CASE i \in deserted
      BY <3>2
    <3>3. ASSUME NEW q \in Requests, mine[q] = i, pc[q] \in Underway
          PROVE  mine'[q] = i /\ pc'[q] \in Underway
      BY <3>3
    <3> QED
      BY <2>1, <3>1, <3>2, <3>3 DEF NoneForgotten
  <2> QED
    BY <2>1 DEF NoneForgotten
<1>6. RecordsFit'
  BY DEF RowsFit, MemoryFits, RecordsFit, PagesFit, PageFits, Writing, Recorded, LatestPage
<1>7. PagesFit' /\ WritesAlone'
  BY PagesLeftAlone DEF RowsFit, MemoryFits, Writing
<1>8. CrossingsNoted'
  BY DEF MemoryFits, CrossingsNoted, Writing
<1>9. ReadsStand'
  BY DEF RowsFit, MemoryFits, ReadsStand, Previewing, LatestPage, Open, ActionStatus
<1>10. OneClaim'
  BY DEF RowsFit, MemoryFits, OneHand, OneClaim, Claims, MayMake
<1>11. MadeIsKnown'
  BY DEF RowsFit, MemoryFits, OneHand, MadeIsKnown, Known
<1> QED
  BY <1>1, <1>2, <1>3, <1>4, <1>5, <1>6, <1>7, <1>8, <1>9, <1>10, <1>11

LEMMA PreviewCommitsKeepsInvariant ==
  ASSUME IInv, NEW r \in Requests, PreviewCommits(r)
  PROVE  IInv'
<1> USE PublishingTransitions, PublishingAssumption
    DEF IInv, TypeOK, Goto, NoRun, rows, notion, memory, history, Busy, Underway, Executing, To,
        PreviewCommits, End
<1> PICK i : i = mine[r]
  OBVIOUS
<1>0. /\ i \in Runs /\ run[i] = "DRAFT" /\ action[i] = "none" /\ approval[i] = "none"
      /\ i \notin made /\ i \notin raced
      /\ \A q \in Requests \ {r} : mine[q] = i => pc[q] \in {"idle", "searching"}
  BY DEF RowsFit, MemoryFits, OneHand
<1>1. TypeOK'
  <2>1. /\ run' \in [Runs -> WorkflowStatus \cup {"none"}]
        /\ action' \in [Runs -> ActionStatus \cup {"none"}]
        /\ approval' \in [Runs -> ApprovalStatus \cup {"none"}]
        /\ target' \in [Runs -> Pages \cup {NoPage}]
    BY <1>0 DEF WorkflowStatus, ActionStatus, ApprovalStatus
  <2>2. raced' \subseteq Requests \cup Runs
    BY <1>0 DEF Previewing
  <2> QED
    BY <2>1, <2>2
<1>2. RowsFit'
  BY DEF RowsFit, MemoryFits, Previewing
<1>3. MemoryFits'
  BY <1>0 DEF MemoryFits
<1>4. OneHand'
  BY DEF RowsFit, MemoryFits, OneHand
<1>5. NoneForgotten'
  BY DEF RowsFit, MemoryFits, OneHand, NoneForgotten
<1>6. RecordsFit'
  BY DEF RowsFit, MemoryFits, RecordsFit, PagesFit, PageFits, Writing, Recorded, LatestPage
<1>7. PagesFit' /\ WritesAlone'
  BY PagesLeftAlone DEF RowsFit, MemoryFits, Writing
<1>8. CrossingsNoted'
  BY DEF MemoryFits, CrossingsNoted, Writing
<1>9. ReadsStand'
  BY DEF RowsFit, MemoryFits, ReadsStand, Previewing, LatestPage, Open, ActionStatus
<1>10. OneClaim'
  <2>1. ASSUME NEW j \in Runs, j # i, Claims(j)'
        PROVE  Claims(j)
    <3>1. j \in raced => j \in raced'
      BY <2>1
    <3>2. /\ run'[j] = run[j] /\ target'[j] = target[j] /\ made' = made
          /\ \A q \in Requests : mine'[q] = j /\ pc'[q] \in {"queued", "calling"} =>
                                 mine[q] = j /\ pc[q] \in {"queued", "calling"}
      BY <2>1
    <3> QED
      BY <2>1, <3>1, <3>2 DEF Claims, MayMake
  <2>2. ASSUME Claims(i)', NEW j \in Runs, Claims(j), j # i
        PROVE  FALSE
    <3>1. r \notin raced /\ page[r] = NoPage
      <4>1. i \notin raced' /\ target'[i] = NoPage
        BY <1>0, <2>2 DEF Claims, MayMake
      <4>2. target' = [target EXCEPT ![i] = page[r]] /\ (r \in raced => i \in raced')
        OBVIOUS
      <4> QED
        BY <1>0, <4>1, <4>2
    <3>2. Open = {} /\ LatestPage = NoPage
      BY <3>1 DEF ReadsStand, Previewing
    <3>3. recorded = <<>>
      BY <3>2, NoLatestPage
    <3>4. action[j] \in {"PROPOSED", "APPROVED"} \/ (action[j] = "COMPLETED" /\ kind = "issue")
      BY <2>2, <3>3 DEF Claims, MayMake, MadeIsKnown, Known, RowsFit, MemoryFits
    <3> QED
      BY <3>2, <3>4 DEF Open, ActionStatus
  <2>3. ASSUME NEW j \in Runs, NEW k \in Runs, Claims(j)', Claims(k)'
        PROVE  j = k
    <3>1. CASE j # i /\ k # i
      BY <2>1, <2>3, <3>1 DEF OneClaim
    <3>2. CASE j = i \/ k = i
      BY <2>1, <2>2, <2>3, <3>2
    <3> QED
      BY <3>1, <3>2
  <2> QED
    BY <2>3 DEF OneClaim
<1>11. MadeIsKnown'
  <2>1. NoRun \notin Runs
    BY DEF Runs
  <2>2. \A j \in made' : target'[j] = target[j] /\ action'[j] = action[j]
    BY <1>0
  <2>3. UNCHANGED <<kind, recorded, made>> /\ mine'[r] \notin made' /\ pc[r] # "answered"
    BY <2>1
  <2>4. \A q \in Requests \ {r} : pc'[q] = pc[q] /\ mine'[q] = mine[q]
    OBVIOUS
  <2> QED
    BY <2>2, <2>3, <2>4, MadeStaysKnown
<1> QED
  BY <1>1, <1>2, <1>3, <1>4, <1>5, <1>6, <1>7, <1>8, <1>9, <1>10, <1>11

LEMMA LeavingKeepsInvariant ==
  ASSUME IInv, NEW r \in Requests, Leaves(r)
  PROVE  IInv'
<1> USE PublishingAssumption
    DEF IInv, TypeOK, Goto, NoRun, rows, notion, memory, history, Busy, Underway, Executing, To,
        Leaves, Refused, End
<1>1. TypeOK'
  BY DEF MemoryFits, PagesFit, PageFits, Writing, LatestPage, Pages, Previewing, Callout,
         WorkflowStatus, ActionStatus, ApprovalStatus
<1>2. RowsFit'
  BY DEF RowsFit, MemoryFits, Previewing
<1>3. MemoryFits'
  BY DEF RowsFit, MemoryFits, OneHand
<1>4. OneHand'
  BY DEF RowsFit, MemoryFits, OneHand
<1>5. NoneForgotten'
  BY DEF RowsFit, MemoryFits, OneHand, NoneForgotten
<1>6. RecordsFit'
  BY DEF RowsFit, MemoryFits, RecordsFit, PagesFit, PageFits, Writing, Recorded, LatestPage
<1>7. PagesFit' /\ WritesAlone'
  BY PagesLeftAlone DEF RowsFit, MemoryFits, Writing
<1>8. CrossingsNoted'
  BY DEF MemoryFits, CrossingsNoted, Writing
<1>9. ReadsStand'
  BY DEF RowsFit, MemoryFits, ReadsStand, Previewing, LatestPage, Open, ActionStatus
<1>10. OneClaim'
  BY DEF RowsFit, MemoryFits, OneHand, OneClaim, Claims, MayMake
<1>11. MadeIsKnown'
  <2>1. NoRun \notin Runs
    BY DEF Runs
  <2> QED
    BY <2>1, MadeStaysKnown DEF RowsFit, MemoryFits, MadeIsKnown, Known
<1> QED
  BY <1>1, <1>2, <1>3, <1>4, <1>5, <1>6, <1>7, <1>8, <1>9, <1>10, <1>11

LEMMA ConfirmKeepsInvariant ==
  ASSUME IInv, NEW r \in Requests, NEW i \in Runs, Confirm(r, i)
  PROVE  IInv'
<1> USE PublishingAssumption
    DEF IInv, TypeOK, Goto, NoRun, rows, notion, memory, history, Busy, Underway, Executing, To,
        Confirm, Resolvable
<1>1. TypeOK'
  BY DEF MemoryFits, PagesFit, PageFits, Writing, LatestPage, Pages, Previewing, Callout,
         WorkflowStatus, ActionStatus, ApprovalStatus
<1>2. RowsFit'
  BY DEF RowsFit, MemoryFits, Previewing
<1>3. MemoryFits'
  BY DEF RowsFit, MemoryFits, OneHand
<1>4. OneHand'
  BY DEF RowsFit, MemoryFits, OneHand
<1>5. NoneForgotten'
  BY DEF RowsFit, MemoryFits, OneHand, NoneForgotten
<1>6. RecordsFit'
  BY DEF RowsFit, MemoryFits, RecordsFit, PagesFit, PageFits, Writing, Recorded, LatestPage
<1>7. PagesFit' /\ WritesAlone'
  BY PagesLeftAlone DEF RowsFit, MemoryFits, Writing
<1>8. CrossingsNoted'
  BY DEF MemoryFits, CrossingsNoted, Writing
<1>9. ReadsStand'
  BY DEF RowsFit, MemoryFits, ReadsStand, Previewing, LatestPage, Open, ActionStatus
<1>10. OneClaim'
  BY DEF RowsFit, MemoryFits, OneHand, OneClaim, Claims, MayMake
<1>11. MadeIsKnown'
  BY DEF RowsFit, MemoryFits, OneHand, MadeIsKnown, Known
<1> QED
  BY <1>1, <1>2, <1>3, <1>4, <1>5, <1>6, <1>7, <1>8, <1>9, <1>10, <1>11

LEMMA EnqueueKeepsInvariant ==
  ASSUME IInv, NEW r \in Requests, NEW i \in Runs, Enqueue(r, i)
  PROVE  IInv'
<1> USE PublishingAssumption
    DEF IInv, TypeOK, Goto, NoRun, rows, notion, memory, history, Busy, Underway, Executing, To,
        Enqueue
<1>1. TypeOK'
  BY DEF MemoryFits, PagesFit, PageFits, Writing, LatestPage, Pages, Previewing, Callout,
         WorkflowStatus, ActionStatus, ApprovalStatus
<1>2. RowsFit'
  BY DEF RowsFit, MemoryFits, Previewing
<1>3. MemoryFits'
  BY DEF RowsFit, MemoryFits, OneHand
<1>4. OneHand'
  <2>1. ASSUME NEW q \in Requests, q # r, pc[q] \in Busy \cup {"drafted"}
        PROVE  mine[q] # i
    BY <2>1 DEF MemoryFits
  <2>2. \A q \in Requests : q # r => pc'[q] = pc[q] /\ mine'[q] = mine[q]
    OBVIOUS
  <2>3. mine'[r] = i
    OBVIOUS
  <2> QED
    BY <2>1, <2>2, <2>3 DEF OneHand
<1>5. NoneForgotten'
  <2>1. ASSUME NEW j \in Runs, j # i, action[j] = "APPROVED", run[j] \in {"QUEUED", "EXECUTING"}
        PROVE  j \in deserted \/ \E q \in Requests : mine'[q] = j /\ pc'[q] \in Underway
    <3>1. CASE j \in deserted
      BY <3>1
    <3>2. ASSUME NEW q \in Requests, mine[q] = j, pc[q] \in Underway
          PROVE  mine'[q] = j /\ pc'[q] \in Underway
      BY <3>2
    <3> QED
      BY <2>1, <3>1, <3>2 DEF NoneForgotten
  <2>2. mine'[r] = i /\ pc'[r] \in Underway
    OBVIOUS
  <2> QED
    BY <2>1, <2>2 DEF NoneForgotten
<1>6. RecordsFit'
  BY DEF RowsFit, MemoryFits, RecordsFit, PagesFit, PageFits, Writing, Recorded, LatestPage
<1>7. PagesFit' /\ WritesAlone'
  BY PagesLeftAlone DEF RowsFit, MemoryFits, Writing
<1>8. CrossingsNoted'
  BY DEF MemoryFits, CrossingsNoted, Writing
<1>9. ReadsStand'
  BY DEF RowsFit, MemoryFits, ReadsStand, Previewing, LatestPage, Open, ActionStatus
<1>10. OneClaim'
  BY DEF RowsFit, MemoryFits, OneHand, OneClaim, Claims, MayMake
<1>11. MadeIsKnown'
  BY DEF RowsFit, MemoryFits, OneHand, MadeIsKnown, Known
<1> QED
  BY <1>1, <1>2, <1>3, <1>4, <1>5, <1>6, <1>7, <1>8, <1>9, <1>10, <1>11

LEMMA RejectKeepsInvariant ==
  ASSUME IInv, NEW i \in Runs, Reject(i)
  PROVE  IInv'
<1> USE PublishingAssumption
    DEF IInv, TypeOK, Goto, NoRun, rows, notion, memory, history, Busy, Underway, Executing, To,
        Reject, Resolvable
<1>1. TypeOK'
  BY DEF MemoryFits, PagesFit, PageFits, Writing, LatestPage, Pages, Previewing, Callout,
         WorkflowStatus, ActionStatus, ApprovalStatus
<1>2. RowsFit'
  BY DEF RowsFit, MemoryFits, Previewing
<1>3. MemoryFits'
  BY DEF RowsFit, MemoryFits, OneHand
<1>4. OneHand'
  BY DEF RowsFit, MemoryFits, OneHand
<1>5. NoneForgotten'
  BY DEF RowsFit, MemoryFits, OneHand, NoneForgotten
<1>6. RecordsFit'
  BY DEF RowsFit, MemoryFits, RecordsFit, PagesFit, PageFits, Writing, Recorded, LatestPage
<1>7. PagesFit'
  BY DEF RowsFit, MemoryFits, OneHand, RecordsFit, PagesFit, PageFits, Writing, Pages, Snapshot
<1>8. CrossingsNoted'
  BY DEF MemoryFits, CrossingsNoted, Writing
<1>9. WritesAlone'
  BY DEF MemoryFits, OneHand, RecordsFit, PagesFit, PageFits, CrossingsNoted, WritesAlone,
         WritesOwn, Writing, Pages, Snapshot
<1>10. ReadsStand'
  BY DEF RowsFit, MemoryFits, ReadsStand, Previewing, LatestPage, Open, ActionStatus
<1>11. OneClaim'
  BY DEF RowsFit, MemoryFits, OneHand, OneClaim, Claims, MayMake
<1>12. MadeIsKnown'
  BY DEF RowsFit, MemoryFits, OneHand, MadeIsKnown, Known
<1> QED
  BY <1>1, <1>2, <1>3, <1>4, <1>5, <1>6, <1>7, <1>8, <1>9, <1>10, <1>11, <1>12

LEMMA CancelKeepsInvariant ==
  ASSUME IInv, NEW i \in Runs, Cancel(i)
  PROVE  IInv'
<1> USE PublishingAssumption
    DEF IInv, TypeOK, Goto, NoRun, rows, notion, memory, history, Busy, Underway, Executing, To,
        Cancel, TerminalStates
<1>1. TypeOK'
  BY DEF MemoryFits, PagesFit, PageFits, Writing, LatestPage, Pages, Previewing, Callout,
         WorkflowStatus, ActionStatus, ApprovalStatus
<1>2. RowsFit'
  BY DEF RowsFit, MemoryFits, Previewing
<1>3. MemoryFits'
  BY DEF RowsFit, MemoryFits, OneHand
<1>4. OneHand'
  BY DEF RowsFit, MemoryFits, OneHand
<1>5. NoneForgotten'
  BY DEF RowsFit, MemoryFits, OneHand, NoneForgotten
<1>6. RecordsFit'
  BY DEF RowsFit, MemoryFits, RecordsFit, PagesFit, PageFits, Writing, Recorded, LatestPage
<1>7. PagesFit'
  BY DEF RowsFit, MemoryFits, OneHand, RecordsFit, PagesFit, PageFits, Writing, Pages, Snapshot
<1>8. CrossingsNoted'
  BY DEF MemoryFits, CrossingsNoted, Writing
<1>9. WritesAlone'
  BY DEF MemoryFits, OneHand, RecordsFit, PagesFit, PageFits, CrossingsNoted, WritesAlone,
         WritesOwn, Writing, Pages, Snapshot
<1>10. ReadsStand'
  BY DEF RowsFit, MemoryFits, ReadsStand, Previewing, LatestPage, Open, ActionStatus
<1>11. OneClaim'
  BY DEF RowsFit, MemoryFits, OneHand, OneClaim, Claims, MayMake
<1>12. MadeIsKnown'
  BY DEF RowsFit, MemoryFits, OneHand, MadeIsKnown, Known
<1> QED
  BY <1>1, <1>2, <1>3, <1>4, <1>5, <1>6, <1>7, <1>8, <1>9, <1>10, <1>11, <1>12

LEMMA StartsKeepsInvariant ==
  ASSUME IInv, NEW r \in Requests, Starts(r)
  PROVE  IInv'
<1> USE PublishingTransitions, PublishingAssumption
    DEF IInv, TypeOK, Goto, NoRun, rows, notion, memory, history, Busy, Underway, Executing, To,
        Starts
<1>1. TypeOK'
  BY DEF MemoryFits, PagesFit, PageFits, Writing, LatestPage, Pages, Previewing, Callout,
         WorkflowStatus, ActionStatus, ApprovalStatus
<1>2. RowsFit'
  BY DEF RowsFit, MemoryFits, Previewing
<1>3. MemoryFits'
  BY DEF RowsFit, MemoryFits, OneHand
<1>4. OneHand'
  BY DEF RowsFit, MemoryFits, OneHand
<1>5. NoneForgotten'
  BY DEF RowsFit, MemoryFits, OneHand, NoneForgotten
<1>6. RecordsFit'
  BY DEF RowsFit, MemoryFits, RecordsFit, PagesFit, PageFits, Writing, Recorded, LatestPage
<1>7. PagesFit'
  BY DEF RowsFit, MemoryFits, OneHand, RecordsFit, PagesFit, PageFits, Writing, Pages, Snapshot
<1>8. CrossingsNoted'
  BY DEF MemoryFits, CrossingsNoted, Writing
<1>9. WritesAlone'
  BY DEF MemoryFits, OneHand, RecordsFit, PagesFit, PageFits, CrossingsNoted, WritesAlone,
         WritesOwn, Writing, Pages, Snapshot
<1>10. ReadsStand'
  BY DEF RowsFit, MemoryFits, ReadsStand, Previewing, LatestPage, Open, ActionStatus
<1>11. OneClaim'
  BY DEF RowsFit, MemoryFits, OneHand, OneClaim, Claims, MayMake
<1>12. MadeIsKnown'
  BY DEF RowsFit, MemoryFits, OneHand, MadeIsKnown, Known
<1> QED
  BY <1>1, <1>2, <1>3, <1>4, <1>5, <1>6, <1>7, <1>8, <1>9, <1>10, <1>11, <1>12

LEMMA CreatesObjectKeepsInvariant ==
  ASSUME IInv, NEW r \in Requests, CreatesObject(r)
  PROVE  IInv'
<1> USE PublishingAssumption
    DEF IInv, TypeOK, Goto, NoRun, rows, notion, memory, history, Busy, Underway, Executing, To,
        CreatesObject, Calling, Snapshot
<1>0. /\ mine[r] \in Runs /\ mine[r] \in Pages /\ mine[r] # OldPage /\ mine[r] \notin Recorded
      /\ \A q \in Requests \ {r} : pc[q] \in Writing \cup {"answered"} =>
           To(q) # mine[r] /\ mine[q] # mine[r] /\ mine[q] \in Runs
  <2>1. mine[r] \in Runs /\ mine[r] \in Pages /\ mine[r] # OldPage
    BY DEF MemoryFits, Pages, Runs, OldPage
  <2>2. mine[r] \notin Recorded /\ \A q \in Requests : pc[q] \in Underway => To(q) # mine[r]
    BY NotYetRecorded
  <2>3. \A q \in Requests \ {r} : pc[q] \in Writing \cup {"answered"} =>
          pc[q] \in Underway /\ mine[q] # mine[r] /\ mine[q] \in Runs
    BY DEF OneHand, MemoryFits, Writing
  <2> QED
    BY ONLY <2>1, <2>2, <2>3
<1>1. TypeOK'
  <2>1. <<>> \in Seq(Callout) /\ <<Snapshot(mine[r])>> \in Seq(Callout)
    BY <1>0 DEF Callout
  <2>2. callouts' \in [Pages -> Seq(Callout)]
    BY <2>1 DEF Callout
  <2>3. pc' \in [Requests -> {"idle", "searching", "drafted", "resolved", "queued", "failed",
                             "completing", "failing"} \cup Executing]
    OBVIOUS
  <2> QED
    BY <1>0, <2>2, <2>3 DEF Callout
<1>2. RowsFit'
  BY DEF RowsFit, MemoryFits, Previewing
<1>3. MemoryFits'
  BY DEF RowsFit, MemoryFits, OneHand
<1>4. OneHand'
  BY DEF RowsFit, MemoryFits, OneHand
<1>5. NoneForgotten'
  BY DEF RowsFit, MemoryFits, OneHand, NoneForgotten
<1>6. RecordsFit'
  BY DEF RowsFit, MemoryFits, RecordsFit, PagesFit, PageFits, Writing, Recorded, LatestPage
<1>7. PagesFit'
  <2>1. \A q \in Requests \ {r} : PageFits(q)'
    BY <1>0, PageStaysFit DEF PagesFit, Pages
  <2>2. PageFits(r)'
    BY <1>0 DEF PageFits, Writing, Snapshot
  <2>3. callouts'[OldPage] = callouts[OldPage]
    BY <1>0
  <2> QED
    BY <2>1, <2>2, <2>3 DEF PagesFit
<1>8. CrossingsNoted'
  <2>1. \A q \in Requests : pc[q] \in Writing => To(q) # NoPage
    BY DEF PagesFit, PageFits
  <2>2. pc'[r] = "answered" /\ To(r) = NoPage /\ \A q \in Requests \ {r} : pc'[q] = pc[q]
    OBVIOUS
  <2> QED
    BY <2>1, <2>2 DEF CrossingsNoted, Writing
<1>9. WritesAlone'
  <2>1. ASSUME NEW q \in Requests \ {r}
        PROVE  WritesOwn(q)'
    <3>1. /\ pc'[q] = pc[q] /\ To(q)' = To(q) /\ mine'[q] = mine[q] /\ todo'[q] = todo[q]
          /\ q \in crossed <=> q \in crossed'
      OBVIOUS
    <3>2. pc[q] \in Writing \cup {"answered"} /\ To(q) # NoPage =>
            callouts'[To(q)] = callouts[To(q)]
      BY <1>0
    <3>3. WritesOwn(q) /\ (pc[q] \in Writing => To(q) # NoPage)
      BY DEF WritesAlone, PagesFit, PageFits
    <3> QED
      BY ONLY <3>1, <3>2, <3>3 DEF WritesOwn, Writing, Snapshot, To
  <2>2. WritesOwn(r)'
    BY DEF WritesOwn
  <2> QED
    BY <2>1, <2>2 DEF WritesAlone
<1>10. ReadsStand'
  BY DEF RowsFit, MemoryFits, ReadsStand, Previewing, LatestPage, Open, ActionStatus
<1>11. OneClaim'
  <2>1. ASSUME NEW i \in Runs, MayMake(i)'
        PROVE  MayMake(i)
    <3>1. raced' = raced \ {mine[r]} /\ UNCHANGED <<target, run, mine>>
      OBVIOUS
    <3>2. \A q \in Requests : pc'[q] \in {"queued", "calling"} => pc[q] = pc'[q] /\ q # r
      OBVIOUS
    <3>3. run[mine[r]] \in {"EXECUTING", "CANCELLED"}
      BY DEF MemoryFits
    <3>4. \A q \in Requests \ {r} : mine[q] = mine[r] => pc[q] \notin Busy
      BY DEF OneHand
    <3>5. i # mine[r]
      BY ONLY <2>1, <3>1, <3>2, <3>3, <3>4 DEF MayMake, Busy, Underway, Executing
    <3> QED
      BY ONLY <2>1, <3>1, <3>2, <3>5 DEF MayMake
  <2>2. ASSUME NEW i \in Runs, i \in made'
        PROVE  Claims(i)
    BY <2>2 DEF MemoryFits, Claims, MayMake
  <2> QED
    BY ONLY <2>1, <2>2, OneClaim DEF OneClaim, Claims
<1>12. MadeIsKnown'
  <2>1. mine[r] \notin made
    BY DEF MadeIsKnown, Known
  <2>2. ASSUME NEW i \in made
        PROVE  Known(i)'
    BY <2>1, <2>2 DEF MadeIsKnown, Known
  <2>3. Known(mine[r])'
    <3>1. \A q \in Requests : mine[q] = mine[r] => pc[q] \notin {"idle", "searching"}
      BY <1>0 DEF MemoryFits, Runs
    <3>2. \A q \in Requests \ {r} : mine[q] = mine[r] => pc[q] \notin Busy \cup {"drafted"}
      BY DEF OneHand
    <3>3. \A q \in Requests \ {r} : mine[q] = mine[r] => pc[q] = "resolved"
      BY <3>1, <3>2
    <3> QED
      BY <1>0, <3>3 DEF Known
  <2> QED
    BY <2>2, <2>3 DEF MadeIsKnown
<1> QED
  BY <1>1, <1>2, <1>3, <1>4, <1>5, <1>6, <1>7, <1>8, <1>9, <1>10, <1>11, <1>12

LEMMA ListsChildrenKeepsInvariant ==
  ASSUME IInv, NEW r \in Requests, ListsChildren(r)
  PROVE  IInv'
<1> USE PublishingAssumption
    DEF IInv, TypeOK, Goto, NoRun, rows, notion, memory, history, Busy, Underway, Executing, To,
        ListsChildren, Calling, Writers, Finished
<1> DEFINE p == target[mine[r]]
<1>0. /\ mine[r] \in Runs /\ p \in Pages
      /\ p \in Runs => callouts[p] # <<>>
      /\ p \notin Runs => p = OldPage
      /\ todo'[r] # todo[r] => todo'[r] = IF old THEN {OldPage} ELSE {}
      /\ pc'[r] = IF callouts[p] # <<>> THEN "patching" ELSE "migrating"
  <2>1. mine[r] \in Runs /\ p \in Pages
    <3>1. mine[r] \in Runs
      BY DEF MemoryFits
    <3> QED
      BY <3>1
  <2>2. p \in Runs => callouts[p] # <<>>
    <3> SUFFICES ASSUME p \in Runs PROVE callouts[p] # <<>>
      OBVIOUS
    <3>1. Len(callouts[p]) = 1
      BY <2>1 DEF RecordsFit
    <3> QED
      BY <3>1, OneIsSome
  <2>3. p \notin Runs => p = OldPage
    BY <2>1 DEF Pages
  <2>4. /\ todo'[r] # todo[r] => todo'[r] = IF old THEN {OldPage} ELSE {}
        /\ pc'[r] = IF callouts[p] # <<>> THEN "patching" ELSE "migrating"
    OBVIOUS
  <2> QED
    BY ONLY <2>1, <2>2, <2>3, <2>4
<1>1. TypeOK'
  <2>1. todo' \in [Requests -> SUBSET Pages]
    BY DEF Pages
  <2>2. pc' \in [Requests -> {"idle", "searching", "drafted", "resolved", "queued", "failed",
                             "completing", "failing"} \cup Executing]
    OBVIOUS
  <2> QED
    BY <2>1, <2>2 DEF Writing
<1>2. RowsFit'
  BY DEF RowsFit, MemoryFits, Previewing
<1>3. MemoryFits'
  BY DEF RowsFit, MemoryFits, OneHand
<1>4. OneHand'
  BY DEF RowsFit, MemoryFits, OneHand
<1>5. NoneForgotten'
  <2>1. \A q \in Requests : pc[q] \in Underway => pc'[q] \in Underway
    OBVIOUS
  <2> QED
    BY <2>1 DEF NoneForgotten
<1>6. RecordsFit'
  BY DEF RowsFit, MemoryFits, RecordsFit, PagesFit, PageFits, Writing, Recorded, LatestPage
<1>7. PagesFit'
  <2>1. \A q \in Requests \ {r} : PageFits(q)'
    BY PageStaysFit DEF PagesFit
  <2>2. PageFits(r)'
    <3>1. pc'[r] = "migrating" => (todo'[r] = {} => ~old)
      BY <1>0
    <3> QED
      BY <1>0, <3>1 DEF PageFits, Writing, Pages
  <2> QED
    BY <2>1, <2>2 DEF PagesFit
<1>8. CrossingsNoted'
  BY DEF MemoryFits, CrossingsNoted, Writing
<1>9. WritesAlone'
  <2>1. ASSUME NEW q \in Requests \ {r}
        PROVE  WritesOwn(q)'
    BY DEF CrossingsNoted, WritesAlone, WritesOwn, Writing, Snapshot
  <2>2. WritesOwn(r)'
    BY <1>0 DEF WritesOwn
  <2> QED
    BY <2>1, <2>2 DEF WritesAlone
<1>10. ReadsStand'
  BY DEF RowsFit, MemoryFits, ReadsStand, Previewing, LatestPage, Open, ActionStatus
<1>11. OneClaim'
  BY DEF RowsFit, MemoryFits, OneHand, OneClaim, Claims, MayMake
<1>12. MadeIsKnown'
  BY DEF RowsFit, MemoryFits, OneHand, MadeIsKnown, Known
<1> QED
  BY <1>1, <1>2, <1>3, <1>4, <1>5, <1>6, <1>7, <1>8, <1>9, <1>10, <1>11, <1>12

LEMMA PatchesKeepsInvariant ==
  ASSUME IInv, NEW r \in Requests, Patches(r)
  PROVE  IInv'
<1> USE PublishingAssumption
    DEF IInv, TypeOK, Goto, NoRun, rows, notion, memory, history, Busy, Underway, Executing, To,
        Patches, Calling
<1> DEFINE p == target[mine[r]]
           on == callouts[p]
           now == [on EXCEPT ![1].text = mine[r]]
<1>0. /\ mine[r] \in Runs /\ p \in Pages /\ on \in Seq(Callout) /\ on # <<>>
      /\ now \in Seq(Callout) /\ now # <<>> /\ Len(now) = Len(on) /\ now[1] = [text |-> mine[r], nested |-> on[1].nested]
      /\ callouts' \in [Pages -> Seq(Callout)] /\ callouts'[p] = now
      /\ \A q \in Pages \ {p} : callouts'[q] = callouts[q]
  <2>1. /\ mine[r] \in Runs /\ p \in Pages /\ on \in Seq(Callout)
        /\ on # <<>>
    BY WriterHasPage DEF Writing
  <2>2. now \in Seq(Callout) /\ now # <<>> /\ Len(now) = Len(on) /\ now[1] = [text |-> mine[r], nested |-> on[1].nested]
    <3>1. now \in Seq(Callout) /\ Len(now) = Len(on) /\ now[1] = [text |-> mine[r], nested |-> on[1].nested]
      BY <2>1, CalloutRetitled
    <3>2. now # <<>>
      BY <2>1, <3>1, EmptySeq
    <3> QED
      BY <3>1, <3>2
  <2>3. callouts' = [callouts EXCEPT ![p] = now] /\ callouts \in [Pages -> Seq(Callout)]
    BY DEF Callout
  <2> HIDE DEF now
  <2> QED
    BY ONLY <2>1, <2>2, <2>3, CalloutsChange
<1>1. TypeOK'
  <2>1. callouts' \in [Pages -> Seq([text : Runs, nested : SUBSET Runs])]
    BY <1>0 DEF Callout
  <2>2. pc' \in [Requests -> {"idle", "searching", "drafted", "resolved", "queued", "failed",
                             "completing", "failing"} \cup Executing]
    OBVIOUS
  <2>3. todo' \in [Requests -> SUBSET Pages] /\ old' \in BOOLEAN
    BY DEF Pages
  <2> QED
    BY <2>1, <2>2, <2>3
<1>2. RowsFit'
  BY DEF RowsFit, MemoryFits, Previewing
<1>3. MemoryFits'
  BY DEF RowsFit, MemoryFits, OneHand
<1>4. OneHand'
  BY DEF RowsFit, MemoryFits, OneHand
<1>5. NoneForgotten'
  BY DEF RowsFit, MemoryFits, OneHand, NoneForgotten
<1>6. RecordsFit'
  BY DEF RowsFit, MemoryFits, RecordsFit, PagesFit, PageFits, Writing, Recorded, LatestPage
<1>7. PagesFit' /\ WritesAlone'
  <2>1. \A q \in Requests \ {r} : PageFits(q)' /\ WritesOwn(q)'
    BY <1>0, OthersOnPages DEF Writing
  <2>2. PageFits(r)'
    BY <1>0 DEF PagesFit, PageFits, Writing
  <2>3. WritesOwn(r)'
    <3>1. pc'[r] = "listing" /\ To(r)' = p
      OBVIOUS
    <3> HIDE DEF now
    <3>2. callouts'[p][1].text = mine[r] /\ mine' = mine
      BY <1>0
    <3> QED
      BY ONLY <3>1, <3>2 DEF WritesOwn
  <2>4. (callouts[OldPage] # <<>> => ~old)'
    BY <1>0 DEF PagesFit, Pages
  <2> QED
    BY <2>1, <2>2, <2>3, <2>4 DEF PagesFit, WritesAlone
<1>8. CrossingsNoted'
  BY DEF MemoryFits, CrossingsNoted, Writing
<1>9. ReadsStand'
  BY DEF RowsFit, MemoryFits, ReadsStand, Previewing, LatestPage, Open, ActionStatus
<1>10. OneClaim'
  BY DEF RowsFit, MemoryFits, OneHand, OneClaim, Claims, MayMake
<1>11. MadeIsKnown'
  BY DEF RowsFit, MemoryFits, OneHand, MadeIsKnown, Known
<1> QED
  BY <1>1, <1>2, <1>3, <1>4, <1>5, <1>6, <1>7, <1>8, <1>9, <1>10, <1>11

LEMMA ListsNestedKeepsInvariant ==
  ASSUME IInv, NEW r \in Requests, ListsNested(r)
  PROVE  IInv'
<1> USE PublishingAssumption
    DEF IInv, TypeOK, Goto, NoRun, rows, notion, memory, history, Busy, Underway, Executing, To,
        ListsNested, Listed, Calling
<1>1. TypeOK'
  <2>1. callouts[To(r)][1].nested \in SUBSET Pages
    BY WriterHasPage, CalloutContents DEF Writing, Pages
  <2>2. todo' \in [Requests -> SUBSET Pages]
    BY <2>1
  <2>3. pc' \in [Requests -> {"idle", "searching", "drafted", "resolved", "queued", "failed",
                             "completing", "failing"} \cup Executing]
    OBVIOUS
  <2> QED
    BY <2>2, <2>3
<1>2. RowsFit'
  BY DEF RowsFit, MemoryFits, Previewing
<1>3. MemoryFits'
  BY DEF RowsFit, MemoryFits, OneHand
<1>4. OneHand'
  BY DEF RowsFit, MemoryFits, OneHand
<1>5. NoneForgotten'
  BY DEF RowsFit, MemoryFits, OneHand, NoneForgotten
<1>6. RecordsFit'
  BY DEF RowsFit, MemoryFits, RecordsFit, PagesFit, PageFits, Writing, Recorded, LatestPage
<1>7. PagesFit'
  BY DEF RowsFit, MemoryFits, OneHand, RecordsFit, PagesFit, PageFits, Writing, Pages, Snapshot
<1>8. CrossingsNoted'
  BY DEF MemoryFits, CrossingsNoted, Writing
<1>9. WritesAlone'
  BY DEF MemoryFits, OneHand, RecordsFit, PagesFit, PageFits, CrossingsNoted, WritesAlone,
         WritesOwn, Writing, Pages, Snapshot
<1>10. ReadsStand'
  BY DEF RowsFit, MemoryFits, ReadsStand, Previewing, LatestPage, Open, ActionStatus
<1>11. OneClaim'
  BY DEF RowsFit, MemoryFits, OneHand, OneClaim, Claims, MayMake
<1>12. MadeIsKnown'
  BY DEF RowsFit, MemoryFits, OneHand, MadeIsKnown, Known
<1> QED
  BY <1>1, <1>2, <1>3, <1>4, <1>5, <1>6, <1>7, <1>8, <1>9, <1>10, <1>11, <1>12

LEMMA DeletesBlockKeepsInvariant ==
  ASSUME IInv, NEW r \in Requests, NEW i \in Runs, DeletesBlock(r, i)
  PROVE  IInv'
<1> USE PublishingAssumption
    DEF IInv, TypeOK, Goto, NoRun, rows, notion, memory, history, Busy, Underway, Executing, To,
        DeletesBlock, Calling
<1> DEFINE p == target[mine[r]]
           on == callouts[p]
           now == [on EXCEPT ![1].nested = on[1].nested \ {i}]
<1>0. /\ mine[r] \in Runs /\ p \in Pages /\ on \in Seq(Callout) /\ on # <<>>
      /\ now \in Seq(Callout) /\ now # <<>> /\ Len(now) = Len(on)
      /\ now[1] = [text |-> on[1].text, nested |-> on[1].nested \ {i}]
      /\ callouts' \in [Pages -> Seq(Callout)] /\ callouts'[p] = now
      /\ \A q \in Pages \ {p} : callouts'[q] = callouts[q]
  <2>1. /\ mine[r] \in Runs /\ p \in Pages /\ on \in Seq(Callout)
        /\ on # <<>>
    BY WriterHasPage DEF Writing
  <2>2. now \in Seq(Callout) /\ now # <<>> /\ Len(now) = Len(on)
      /\ now[1] = [text |-> on[1].text, nested |-> on[1].nested \ {i}]
    <3>1. now \in Seq(Callout) /\ Len(now) = Len(on) /\ now[1] = 
                 [text |-> on[1].text, nested |-> on[1].nested \ {i}]
      BY <2>1, CalloutLoses
    <3>2. now # <<>>
      BY <2>1, <3>1, EmptySeq
    <3> QED
      BY <3>1, <3>2
  <2>3. callouts' = [callouts EXCEPT ![p] = now] /\ callouts \in [Pages -> Seq(Callout)]
    BY DEF Callout
  <2> HIDE DEF now
  <2> QED
    BY ONLY <2>1, <2>2, <2>3, CalloutsChange
<1>1. TypeOK'
  <2>1. callouts' \in [Pages -> Seq([text : Runs, nested : SUBSET Runs])]
    BY <1>0 DEF Callout
  <2>2. pc' \in [Requests -> {"idle", "searching", "drafted", "resolved", "queued", "failed",
                             "completing", "failing"} \cup Executing]
    OBVIOUS
  <2>3. todo' \in [Requests -> SUBSET Pages] /\ old' \in BOOLEAN
    BY DEF Pages
  <2> QED
    BY <2>1, <2>2, <2>3
<1>2. RowsFit'
  BY DEF RowsFit, MemoryFits, Previewing
<1>3. MemoryFits'
  BY DEF RowsFit, MemoryFits, OneHand
<1>4. OneHand'
  BY DEF RowsFit, MemoryFits, OneHand
<1>5. NoneForgotten'
  BY DEF RowsFit, MemoryFits, OneHand, NoneForgotten
<1>6. RecordsFit'
  BY DEF RowsFit, MemoryFits, RecordsFit, PagesFit, PageFits, Writing, Recorded, LatestPage
<1>7. PagesFit' /\ WritesAlone'
  <2>1. \A q \in Requests \ {r} : PageFits(q)' /\ WritesOwn(q)'
    BY <1>0, OthersOnPages DEF Writing
  <2>2. PageFits(r)'
    BY <1>0 DEF PagesFit, PageFits, Writing
  <2>3. WritesOwn(r)'
    <3>1. todo'[r] = todo[r] \ {i} /\ pc'[r] = "deleting" /\ To(r)' = p
      OBVIOUS
    <3>2. r \notin crossed => on[1].text = mine[r] /\ on[1].nested = todo[r]
      BY DEF WritesAlone, WritesOwn
    <3> HIDE DEF now
    <3>3. callouts'[p][1].text = on[1].text /\ callouts'[p][1].nested = on[1].nested \ {i}
      BY ONLY <1>0
    <3> QED
      BY <3>1, <3>2, <3>3 DEF WritesOwn
  <2>4. (callouts[OldPage] # <<>> => ~old)'
    BY <1>0 DEF PagesFit, Pages
  <2> QED
    BY <2>1, <2>2, <2>3, <2>4 DEF PagesFit, WritesAlone
<1>8. CrossingsNoted'
  BY DEF MemoryFits, CrossingsNoted, Writing
<1>9. ReadsStand'
  BY DEF RowsFit, MemoryFits, ReadsStand, Previewing, LatestPage, Open, ActionStatus
<1>10. OneClaim'
  BY DEF RowsFit, MemoryFits, OneHand, OneClaim, Claims, MayMake
<1>11. MadeIsKnown'
  BY DEF RowsFit, MemoryFits, OneHand, MadeIsKnown, Known
<1> QED
  BY <1>1, <1>2, <1>3, <1>4, <1>5, <1>6, <1>7, <1>8, <1>9, <1>10, <1>11

LEMMA DeleteFailsKeepsInvariant ==
  ASSUME IInv, NEW r \in Requests, DeleteFails(r)
  PROVE  IInv'
<1> USE PublishingAssumption
    DEF IInv, TypeOK, Goto, NoRun, rows, notion, memory, history, Busy, Underway, Executing, To,
        DeleteFails, Calling
<1>1. TypeOK'
  BY DEF MemoryFits, PagesFit, PageFits, Writing, LatestPage, Pages, Previewing, Callout,
         WorkflowStatus, ActionStatus, ApprovalStatus
<1>2. RowsFit'
  BY DEF RowsFit, MemoryFits, Previewing
<1>3. MemoryFits'
  BY DEF RowsFit, MemoryFits, OneHand
<1>4. OneHand'
  BY DEF RowsFit, MemoryFits, OneHand
<1>5. NoneForgotten'
  BY DEF RowsFit, MemoryFits, OneHand, NoneForgotten
<1>6. RecordsFit'
  BY DEF RowsFit, MemoryFits, RecordsFit, PagesFit, PageFits, Writing, Recorded, LatestPage
<1>7. PagesFit' /\ WritesAlone'
  BY PagesLeftAlone DEF Writing
<1>8. CrossingsNoted'
  BY DEF MemoryFits, CrossingsNoted, Writing
<1>9. ReadsStand'
  BY DEF RowsFit, MemoryFits, ReadsStand, Previewing, LatestPage, Open, ActionStatus
<1>10. OneClaim'
  BY DEF RowsFit, MemoryFits, OneHand, OneClaim, Claims, MayMake
<1>11. MadeIsKnown'
  BY DEF RowsFit, MemoryFits, OneHand, MadeIsKnown, Known
<1> QED
  BY <1>1, <1>2, <1>3, <1>4, <1>5, <1>6, <1>7, <1>8, <1>9, <1>10, <1>11

LEMMA AppendsKeepsInvariant ==
  ASSUME IInv, NEW r \in Requests, Appends(r)
  PROVE  IInv'
<1> USE PublishingAssumption
    DEF IInv, TypeOK, Goto, NoRun, rows, notion, memory, history, Busy, Underway, Executing, To,
        Appends, Calling, Snapshot
<1> DEFINE p == target[mine[r]]
           on == callouts[p]
           now == [on EXCEPT ![1].nested = on[1].nested \cup {mine[r]}]
<1>0. /\ mine[r] \in Runs /\ p \in Pages /\ on \in Seq(Callout) /\ on # <<>>
      /\ now \in Seq(Callout) /\ now # <<>> /\ Len(now) = Len(on)
      /\ now[1] = [text |-> on[1].text, nested |-> on[1].nested \cup {mine[r]}]
      /\ callouts' \in [Pages -> Seq(Callout)] /\ callouts'[p] = now
      /\ \A q \in Pages \ {p} : callouts'[q] = callouts[q]
  <2>1. /\ mine[r] \in Runs /\ p \in Pages /\ on \in Seq(Callout)
        /\ on # <<>>
    BY WriterHasPage DEF Writing
  <2>2. now \in Seq(Callout) /\ now # <<>> /\ Len(now) = Len(on)
      /\ now[1] = [text |-> on[1].text, nested |-> on[1].nested \cup {mine[r]}]
    <3>1. now \in Seq(Callout) /\ Len(now) = Len(on) /\ now[1] = 
                 [text |-> on[1].text, nested |-> on[1].nested \cup {mine[r]}]
      BY <2>1, CalloutGains
    <3>2. now # <<>>
      BY <2>1, <3>1, EmptySeq
    <3> QED
      BY <3>1, <3>2
  <2>3. callouts' = [callouts EXCEPT ![p] = now] /\ callouts \in [Pages -> Seq(Callout)]
    BY DEF Callout
  <2> HIDE DEF now
  <2> QED
    BY ONLY <2>1, <2>2, <2>3, CalloutsChange
<1>1. TypeOK'
  <2>1. callouts' \in [Pages -> Seq([text : Runs, nested : SUBSET Runs])]
    BY <1>0 DEF Callout
  <2>2. pc' \in [Requests -> {"idle", "searching", "drafted", "resolved", "queued", "failed",
                             "completing", "failing"} \cup Executing]
    OBVIOUS
  <2>3. todo' \in [Requests -> SUBSET Pages] /\ old' \in BOOLEAN
    BY DEF Pages
  <2> QED
    BY <2>1, <2>2, <2>3
<1>2. RowsFit'
  BY DEF RowsFit, MemoryFits, Previewing
<1>3. MemoryFits'
  BY DEF RowsFit, MemoryFits, OneHand
<1>4. OneHand'
  BY DEF RowsFit, MemoryFits, OneHand
<1>5. NoneForgotten'
  BY DEF RowsFit, MemoryFits, OneHand, NoneForgotten
<1>6. RecordsFit'
  BY DEF RowsFit, MemoryFits, RecordsFit, PagesFit, PageFits, Writing, Recorded, LatestPage
<1>7. PagesFit' /\ WritesAlone'
  <2>1. \A q \in Requests \ {r} : PageFits(q)' /\ WritesOwn(q)'
    BY <1>0, OthersOnPages DEF Writing
  <2>2. PageFits(r)'
    BY <1>0 DEF PagesFit, PageFits, Writing
  <2>3. WritesOwn(r)'
    <3>1. todo[r] = {} /\ pc'[r] = "answered" /\ To(r)' = p
      OBVIOUS
    <3>2. r \notin crossed => on[1].text = mine[r] /\ on[1].nested = {}
      BY <3>1 DEF WritesAlone, WritesOwn
    <3>3. callouts'[p][1] = [text |-> on[1].text, nested |-> on[1].nested \cup {mine[r]}]
      BY <1>0
    <3>4. r \notin crossed => callouts'[p][1] = Snapshot(mine[r])
      BY <3>2, <3>3 DEF Snapshot
    <3> QED
      BY <3>1, <3>4 DEF WritesOwn
  <2>4. (callouts[OldPage] # <<>> => ~old)'
    BY <1>0 DEF PagesFit, Pages
  <2> QED
    BY <2>1, <2>2, <2>3, <2>4 DEF PagesFit, WritesAlone
<1>8. CrossingsNoted'
  BY DEF MemoryFits, CrossingsNoted, Writing
<1>9. ReadsStand'
  BY DEF RowsFit, MemoryFits, ReadsStand, Previewing, LatestPage, Open, ActionStatus
<1>10. OneClaim'
  BY DEF RowsFit, MemoryFits, OneHand, OneClaim, Claims, MayMake
<1>11. MadeIsKnown'
  BY DEF RowsFit, MemoryFits, OneHand, MadeIsKnown, Known
<1> QED
  BY <1>1, <1>2, <1>3, <1>4, <1>5, <1>6, <1>7, <1>8, <1>9, <1>10, <1>11

LEMMA MigratesKeepsInvariant ==
  ASSUME IInv, NEW r \in Requests, Migrates(r)
  PROVE  IInv'
<1> USE PublishingAssumption
    DEF IInv, TypeOK, Goto, NoRun, rows, notion, memory, history, Busy, Underway, Executing, To,
        Migrates, Calling
<1>1. TypeOK'
  <2>1. todo' \in [Requests -> SUBSET Pages] /\ old' \in BOOLEAN
    OBVIOUS
  <2>2. pc' \in [Requests -> {"idle", "searching", "drafted", "resolved", "queued", "failed",
                             "completing", "failing"} \cup Executing]
    OBVIOUS
  <2> QED
    BY <2>1, <2>2
<1>2. RowsFit'
  BY DEF RowsFit, MemoryFits, Previewing
<1>3. MemoryFits'
  BY DEF RowsFit, MemoryFits, OneHand
<1>4. OneHand'
  BY DEF RowsFit, MemoryFits, OneHand
<1>5. NoneForgotten'
  BY DEF RowsFit, MemoryFits, OneHand, NoneForgotten
<1>6. RecordsFit'
  BY DEF RowsFit, MemoryFits, RecordsFit, PagesFit, PageFits, Writing, Recorded, LatestPage
<1>7. PagesFit'
  <2>1. PageFits(r)'
    BY DEF PagesFit, PageFits, Writing
  <2>2. ASSUME NEW q \in Requests \ {r}
        PROVE  PageFits(q)'
    BY DEF PagesFit, PageFits, Writing, Snapshot
  <2>3. (callouts[OldPage] # <<>> => ~old)'
    BY DEF PagesFit
  <2> QED
    BY <2>1, <2>2, <2>3 DEF PagesFit
<1>8. CrossingsNoted'
  BY DEF MemoryFits, CrossingsNoted, Writing
<1>9. WritesAlone'
  BY DEF MemoryFits, OneHand, RecordsFit, PagesFit, PageFits, CrossingsNoted, WritesAlone,
         WritesOwn, Writing, Pages, Snapshot
<1>10. ReadsStand'
  BY DEF RowsFit, MemoryFits, ReadsStand, Previewing, LatestPage, Open, ActionStatus
<1>11. OneClaim'
  BY DEF RowsFit, MemoryFits, OneHand, OneClaim, Claims, MayMake
<1>12. MadeIsKnown'
  BY DEF RowsFit, MemoryFits, OneHand, MadeIsKnown, Known
<1> QED
  BY <1>1, <1>2, <1>3, <1>4, <1>5, <1>6, <1>7, <1>8, <1>9, <1>10, <1>11, <1>12

LEMMA AppendsCalloutKeepsInvariant ==
  ASSUME IInv, NEW r \in Requests, AppendsCallout(r)
  PROVE  IInv'
<1> USE PublishingAssumption
    DEF IInv, TypeOK, Goto, NoRun, rows, notion, memory, history, Busy, Underway, Executing, To,
        AppendsCallout, Calling, Snapshot
<1> DEFINE p == target[mine[r]]
           on == callouts[p]
           now == Append(on, Snapshot(mine[r]))
<1>0. /\ mine[r] \in Runs /\ p \in Pages /\ on \in Seq(Callout) /\ p = OldPage
      /\ now \in Seq(Callout) /\ now # <<>> /\ (on = <<>> => now[1] = Snapshot(mine[r]))
      /\ callouts' \in [Pages -> Seq(Callout)] /\ callouts'[p] = now
      /\ \A q \in Pages \ {p} : callouts'[q] = callouts[q]
  <2>1. /\ mine[r] \in Runs /\ p \in Pages /\ on \in Seq(Callout)
        /\ p = OldPage
    BY WriterHasPage DEF Writing
  <2>2. now \in Seq(Callout) /\ now # <<>> /\ (on = <<>> => now[1] = Snapshot(mine[r]))
    BY <2>1, CalloutAdded
  <2>3. callouts' = [callouts EXCEPT ![p] = now] /\ callouts \in [Pages -> Seq(Callout)]
    BY DEF Callout
  <2> QED
    BY <2>1, <2>2, <2>3, CalloutsChange
<1>1. TypeOK'
  <2>1. callouts' \in [Pages -> Seq([text : Runs, nested : SUBSET Runs])]
    BY <1>0 DEF Callout
  <2>2. pc' \in [Requests -> {"idle", "searching", "drafted", "resolved", "queued", "failed",
                             "completing", "failing"} \cup Executing]
    OBVIOUS
  <2>3. todo' \in [Requests -> SUBSET Pages] /\ old' \in BOOLEAN
    BY DEF Pages
  <2> QED
    BY <2>1, <2>2, <2>3
<1>2. RowsFit'
  BY DEF RowsFit, MemoryFits, Previewing
<1>3. MemoryFits'
  BY DEF RowsFit, MemoryFits, OneHand
<1>4. OneHand'
  BY DEF RowsFit, MemoryFits, OneHand
<1>5. NoneForgotten'
  BY DEF RowsFit, MemoryFits, OneHand, NoneForgotten
<1>6. RecordsFit'
  <2>1. \A i \in Runs : callouts'[i] = callouts[i]
    BY <1>0 DEF Runs, Pages, OldPage
  <2>2. UNCHANGED <<kind, recorded, action, target, page>> /\ Recorded' = Recorded
    BY DEF Recorded
  <2> QED
    BY <2>1, <2>2 DEF RecordsFit
<1>7. PagesFit' /\ WritesAlone'
  <2>1. \A q \in Requests \ {r} : PageFits(q)' /\ WritesOwn(q)'
    BY <1>0, OthersOnPages DEF Writing
  <2>2. PageFits(r)'
    BY <1>0 DEF PagesFit, PageFits, Writing
  <2>3. WritesOwn(r)'
    BY <1>0 DEF PagesFit, PageFits, WritesAlone, WritesOwn, Writing, Snapshot
  <2>4. (callouts[OldPage] # <<>> => ~old)'
    BY DEF PagesFit, PageFits
  <2> QED
    BY <2>1, <2>2, <2>3, <2>4 DEF PagesFit, WritesAlone
<1>8. CrossingsNoted'
  BY DEF MemoryFits, CrossingsNoted, Writing
<1>9. ReadsStand'
  BY DEF RowsFit, MemoryFits, ReadsStand, Previewing, LatestPage, Open, ActionStatus
<1>10. OneClaim'
  BY DEF RowsFit, MemoryFits, OneHand, OneClaim, Claims, MayMake
<1>11. MadeIsKnown'
  BY DEF RowsFit, MemoryFits, OneHand, MadeIsKnown, Known
<1> QED
  BY <1>1, <1>2, <1>3, <1>4, <1>5, <1>6, <1>7, <1>8, <1>9, <1>10, <1>11

LEMMA CallFailsKeepsInvariant ==
  ASSUME IInv, NEW r \in Requests, CallFails(r)
  PROVE  IInv'
<1> USE PublishingAssumption
    DEF IInv, TypeOK, Goto, NoRun, rows, notion, memory, history, Busy, Underway, Executing, To,
        CallFails, Unlearned
<1>1. TypeOK'
  BY DEF MemoryFits, PagesFit, PageFits, Writing, LatestPage, Pages, Previewing, Callout,
         WorkflowStatus, ActionStatus, ApprovalStatus
<1>2. RowsFit'
  BY DEF RowsFit, MemoryFits, Previewing
<1>3. MemoryFits'
  BY DEF RowsFit, MemoryFits, OneHand
<1>4. OneHand'
  BY DEF RowsFit, MemoryFits, OneHand
<1>5. NoneForgotten'
  BY DEF RowsFit, MemoryFits, OneHand, NoneForgotten
<1>6. RecordsFit'
  BY DEF RowsFit, MemoryFits, RecordsFit, PagesFit, PageFits, Writing, Recorded, LatestPage
<1>7. PagesFit'
  BY DEF RowsFit, MemoryFits, OneHand, RecordsFit, PagesFit, PageFits, Writing, Pages, Snapshot
<1>8. CrossingsNoted'
  BY DEF MemoryFits, CrossingsNoted, Writing
<1>9. WritesAlone'
  BY DEF MemoryFits, OneHand, RecordsFit, PagesFit, PageFits, CrossingsNoted, WritesAlone,
         WritesOwn, Writing, Pages, Snapshot
<1>10. ReadsStand'
  BY DEF RowsFit, MemoryFits, ReadsStand, Previewing, LatestPage, Open, ActionStatus
<1>11. OneClaim'
  BY DEF RowsFit, MemoryFits, OneHand, OneClaim, Claims, MayMake
<1>12. MadeIsKnown'
  BY DEF RowsFit, MemoryFits, OneHand, MadeIsKnown, Known
<1> QED
  BY <1>1, <1>2, <1>3, <1>4, <1>5, <1>6, <1>7, <1>8, <1>9, <1>10, <1>11, <1>12

LEMMA SucceedsKeepsInvariant ==
  ASSUME IInv, NEW r \in Requests, Succeeds(r)
  PROVE  IInv'
<1> USE PublishingAssumption
    DEF IInv, TypeOK, Goto, NoRun, rows, notion, memory, history, Busy, Underway, Executing, To,
        Succeeds
<1>0. /\ mine[r] \in Runs /\ mine[r] \in Pages /\ target[mine[r]] \in Pages \cup {NoPage}
      /\ mine[r] \notin Recorded
  BY NotYetRecorded DEF MemoryFits, Pages
<1>1. TypeOK'
  <2>1. recorded' \in Seq(Pages)
    BY <1>0
  <2>2. pc' \in [Requests -> {"idle", "searching", "drafted", "resolved", "queued", "failed",
                             "completing", "failing"} \cup Executing]
    OBVIOUS
  <2>3. action' \in [Runs -> ActionStatus \cup {"none"}]
    BY DEF ActionStatus
  <2> QED
    BY <2>1, <2>2, <2>3 DEF Previewing
<1>2. RowsFit'
  BY DEF RowsFit, MemoryFits, Previewing
<1>3. MemoryFits'
  BY DEF RowsFit, MemoryFits, OneHand
<1>4. OneHand'
  BY DEF RowsFit, MemoryFits, OneHand
<1>5. NoneForgotten'
  BY DEF RowsFit, MemoryFits, OneHand, NoneForgotten
<1>6. RecordsFit'
  <2>1. CASE kind = "page" /\ To(r) = NoPage
    <3>1. recorded' = Append(recorded, mine[r]) /\ UNCHANGED <<kind, callouts, target, page>>
      BY <2>1
    <3>2. Recorded' = Recorded \cup {mine[r]}
      BY <1>0, <3>1, RecordAdded
    <3>3. Len(callouts[mine[r]]) = 1
      <4>1. callouts[mine[r]] = <<Snapshot(mine[r])>>
        BY <2>1 DEF PagesFit, PageFits
      <4> QED
        BY <4>1
    <3>4. action'[mine[r]] = "COMPLETED" /\ \A i \in Runs : i # mine[r] => action'[i] = action[i]
      BY <1>0
    <3> QED
      BY <2>1, <3>1, <3>2, <3>3, <3>4 DEF RecordsFit
  <2>2. CASE ~(kind = "page" /\ To(r) = NoPage)
    <3>1. UNCHANGED <<kind, recorded, callouts, target, page>>
      BY <2>2
    <3>2. \A i \in Runs : i # mine[r] => action'[i] = action[i]
      BY <1>0
    <3> QED
      BY <1>0, <3>1, <3>2 DEF RecordsFit, Recorded
  <2> QED
    BY <2>1, <2>2
<1>7. PagesFit'
  BY DEF RowsFit, MemoryFits, OneHand, RecordsFit, PagesFit, PageFits, Writing, Pages, Snapshot
<1>8. CrossingsNoted'
  BY DEF MemoryFits, CrossingsNoted, Writing
<1>9. WritesAlone'
  BY DEF MemoryFits, OneHand, RecordsFit, PagesFit, PageFits, CrossingsNoted, WritesAlone,
         WritesOwn, Writing, Pages, Snapshot
<1>10. ReadsStand'
  BY DEF RowsFit, MemoryFits, ReadsStand, Previewing, LatestPage, Open, ActionStatus
<1>11. OneClaim'
  BY DEF RowsFit, MemoryFits, OneHand, OneClaim, Claims, MayMake
<1>12. MadeIsKnown'
  <2> SUFFICES ASSUME NEW i \in made
               PROVE  Known(i)'
    BY DEF MadeIsKnown
  <2>1. Known(i) /\ i \in Runs
    BY DEF MadeIsKnown
  <2>2. \A q \in Requests : mine[q] = i => pc'[q] \in {"resolved", "answered", "completing"}
    BY <2>1 DEF Known
  <2>3. recorded # <<>> => recorded' # <<>>
    BY <1>0, RecordAdded
  <2>4. CASE i = mine[r]
    <3>1. action'[i] = "COMPLETED"
      BY <1>0, <2>4
    <3>2. kind = "page" => recorded' # <<>>
      BY <1>0, <2>1, <2>4, RecordAdded DEF Known
    <3> QED
      BY <2>1, <2>2, <3>1, <3>2 DEF Known
  <2>5. CASE i # mine[r]
    <3>1. action'[i] = action[i] /\ \A q \in Requests : mine[q] = i => pc'[q] = pc[q]
      BY <2>1, <2>5
    <3> QED
      BY <2>1, <2>2, <2>3, <3>1 DEF Known
  <2> QED
    BY <2>4, <2>5
<1> QED
  BY <1>1, <1>2, <1>3, <1>4, <1>5, <1>6, <1>7, <1>8, <1>9, <1>10, <1>11, <1>12

LEMMA FailsKeepsInvariant ==
  ASSUME IInv, NEW r \in Requests, Fails(r)
  PROVE  IInv'
<1> USE PublishingAssumption
    DEF IInv, TypeOK, Goto, NoRun, rows, notion, memory, history, Busy, Underway, Executing, To,
        Fails, AfterFailure
<1>1. TypeOK'
  BY DEF MemoryFits, PagesFit, PageFits, Writing, LatestPage, Pages, Previewing, Callout,
         WorkflowStatus, ActionStatus, ApprovalStatus
<1>2. RowsFit'
  BY DEF RowsFit, MemoryFits, Previewing
<1>3. MemoryFits'
  BY DEF RowsFit, MemoryFits, OneHand
<1>4. OneHand'
  BY DEF RowsFit, MemoryFits, OneHand
<1>5. NoneForgotten'
  BY DEF RowsFit, MemoryFits, OneHand, NoneForgotten
<1>6. RecordsFit'
  BY DEF RowsFit, MemoryFits, RecordsFit, PagesFit, PageFits, Writing, Recorded, LatestPage
<1>7. PagesFit'
  BY DEF RowsFit, MemoryFits, OneHand, RecordsFit, PagesFit, PageFits, Writing, Pages, Snapshot
<1>8. CrossingsNoted'
  BY DEF MemoryFits, CrossingsNoted, Writing
<1>9. WritesAlone'
  BY DEF MemoryFits, OneHand, RecordsFit, PagesFit, PageFits, CrossingsNoted, WritesAlone,
         WritesOwn, Writing, Pages, Snapshot
<1>10. ReadsStand'
  BY DEF RowsFit, MemoryFits, ReadsStand, Previewing, LatestPage, Open, ActionStatus
<1>11. OneClaim'
  BY DEF RowsFit, MemoryFits, OneHand, OneClaim, Claims, MayMake
<1>12. MadeIsKnown'
  BY DEF RowsFit, MemoryFits, OneHand, MadeIsKnown, Known
<1> QED
  BY <1>1, <1>2, <1>3, <1>4, <1>5, <1>6, <1>7, <1>8, <1>9, <1>10, <1>11, <1>12

LEMMA SettlesKeepsInvariant ==
  ASSUME IInv, NEW r \in Requests, Settles(r)
  PROVE  IInv'
<1> USE PublishingAssumption
    DEF IInv, TypeOK, Goto, NoRun, rows, notion, memory, history, Busy, Underway, Executing, To,
        Settles, Outcome, End
<1>1. TypeOK'
  BY DEF MemoryFits, PagesFit, PageFits, Writing, LatestPage, Pages, Previewing, Callout,
         WorkflowStatus, ActionStatus, ApprovalStatus
<1>2. RowsFit'
  BY DEF RowsFit, MemoryFits, Previewing
<1>3. MemoryFits'
  BY DEF RowsFit, MemoryFits, OneHand
<1>4. OneHand'
  BY DEF RowsFit, MemoryFits, OneHand
<1>5. NoneForgotten'
  BY DEF RowsFit, MemoryFits, OneHand, NoneForgotten
<1>6. RecordsFit'
  BY DEF RowsFit, MemoryFits, RecordsFit, PagesFit, PageFits, Writing, Recorded, LatestPage
<1>7. PagesFit' /\ WritesAlone'
  BY PagesLeftAlone DEF RowsFit, MemoryFits, Writing
<1>8. CrossingsNoted'
  BY DEF MemoryFits, CrossingsNoted, Writing
<1>9. ReadsStand'
  BY DEF RowsFit, MemoryFits, ReadsStand, Previewing, LatestPage, Open, ActionStatus
<1>10. OneClaim'
  BY DEF RowsFit, MemoryFits, OneHand, OneClaim, Claims, MayMake
<1>11. MadeIsKnown'
  <2>1. NoRun \notin Runs
    BY DEF Runs
  <2> QED
    BY <2>1, MadeStaysKnown DEF MemoryFits, MadeIsKnown, Known
<1> QED
  BY <1>1, <1>2, <1>3, <1>4, <1>5, <1>6, <1>7, <1>8, <1>9, <1>10, <1>11

LEMMA DiesKeepsInvariant ==
  ASSUME IInv, NEW r \in Requests, Dies(r)
  PROVE  IInv'
<1> USE PublishingAssumption
    DEF IInv, TypeOK, Goto, NoRun, rows, notion, memory, history, Busy, Underway, Executing, To,
        Dies, End, Unlearned
<1>1. TypeOK'
  <2>1. /\ mine' \in [Requests -> Runs \cup {NoRun}]
        /\ page' \in [Requests -> Pages \cup {NoPage}]
        /\ todo' \in [Requests -> SUBSET Pages]
    BY DEF Pages
  <2>2. pc' \in [Requests -> {"idle", "searching", "drafted", "resolved", "queued", "failed",
                             "completing", "failing"} \cup Executing]
    OBVIOUS
  <2>3. /\ raced' \subseteq Requests \cup Runs
        /\ crossed' \subseteq Requests /\ made' \subseteq Runs
    OBVIOUS
  <2>4. deserted' \subseteq Runs
    BY DEF MemoryFits, Previewing
  <2> QED
    BY <2>1, <2>2, <2>3, <2>4
<1>2. RowsFit'
  BY DEF RowsFit, MemoryFits, Previewing
<1>3. MemoryFits'
  BY DEF RowsFit, MemoryFits, OneHand
<1>4. OneHand'
  BY DEF RowsFit, MemoryFits, OneHand
<1>5. NoneForgotten'
  BY DEF RowsFit, MemoryFits, OneHand, NoneForgotten
<1>6. RecordsFit'
  BY DEF RowsFit, MemoryFits, RecordsFit, PagesFit, PageFits, Writing, Recorded, LatestPage
<1>7. PagesFit' /\ WritesAlone'
  BY PagesLeftAlone DEF RowsFit, MemoryFits, Writing
<1>8. CrossingsNoted'
  BY DEF MemoryFits, CrossingsNoted, Writing
<1>9. ReadsStand'
  BY DEF RowsFit, MemoryFits, ReadsStand, Previewing, LatestPage, Open, ActionStatus
<1>10. OneClaim'
  BY DEF RowsFit, MemoryFits, OneHand, OneClaim, Claims, MayMake
<1>11. MadeIsKnown'
  <2>1. NoRun \notin Runs
    BY DEF Runs
  <2> QED
    BY <2>1, MadeStaysKnown DEF MemoryFits, MadeIsKnown, Known
<1> QED
  BY <1>1, <1>2, <1>3, <1>4, <1>5, <1>6, <1>7, <1>8, <1>9, <1>10, <1>11

LEMMA StepKeepsInvariant == IInv /\ Step => IInv'
  BY PreviewReadsKeepsInvariant, PreviewCreatesKeepsInvariant,
     PreviewCommitsKeepsInvariant, LeavingKeepsInvariant, ConfirmKeepsInvariant,
     EnqueueKeepsInvariant, RejectKeepsInvariant, CancelKeepsInvariant,
     StartsKeepsInvariant, CreatesObjectKeepsInvariant, ListsChildrenKeepsInvariant,
     PatchesKeepsInvariant, ListsNestedKeepsInvariant, DeletesBlockKeepsInvariant,
     DeleteFailsKeepsInvariant, AppendsKeepsInvariant, MigratesKeepsInvariant,
     AppendsCalloutKeepsInvariant, CallFailsKeepsInvariant, SucceedsKeepsInvariant,
     FailsKeepsInvariant, SettlesKeepsInvariant, DiesKeepsInvariant DEF Step

LEMMA StutterKeepsInvariant == IInv /\ UNCHANGED vars => IInv'
<1> USE DEF vars, rows, notion, memory, history
<1>1. ASSUME TypeOK, UNCHANGED vars
      PROVE  TypeOK'
  BY <1>1 DEF TypeOK
<1>2. ASSUME IInv, UNCHANGED vars
      PROVE  (RowsFit /\ MemoryFits /\ OneHand /\ NoneForgotten /\ RecordsFit /\ PagesFit)'
  BY <1>2 DEF IInv, RowsFit, MemoryFits, OneHand, NoneForgotten, RecordsFit, PagesFit, PageFits, Recorded, To
<1>3. ASSUME IInv, UNCHANGED vars
      PROVE  (CrossingsNoted /\ WritesAlone /\ ReadsStand /\ OneClaim /\ MadeIsKnown)'
  BY <1>3 DEF IInv, CrossingsNoted, WritesAlone, WritesOwn, ReadsStand, OneClaim, MadeIsKnown, Known, To, Claims,
              MayMake, Previewing, Open, LatestPage
<1> QED
  BY <1>1, <1>2, <1>3 DEF IInv

(* The inductive invariant holds in every state that can be reached. *)
THEOREM Invariance == Spec => []IInv
<1>1. IInv /\ [Next]_vars => IInv'
  BY NextIsStep, StepKeepsInvariant, StutterKeepsInvariant
<1> QED
  BY InvariantInit, <1>1, PTL DEF Spec

--------------------------------------------------------------------------------
(* What the invariant says of the run's properties.                        *)

LEMMA AtMostOne ==
  ASSUME NEW S, \A x, y \in S : x = y
  PROVE  Cardinality(S) <= 1
<1>1. CASE S = {}
  BY <1>1, FS_EmptySet
<1>2. CASE S # {}
  <2>1. PICK x : x \in S
    BY <1>2
  <2>2. S = {x}
    BY <2>1
  <2> QED
    BY <2>2, FS_Singleton
<1> QED
  BY <1>1, <1>2

(* Every variable holds a value of its type in every state.                *)
THEOREM TypeCorrect == Spec => []TypeOK
<1>1. IInv => TypeOK
  BY DEF IInv
<1> QED
  BY Invariance, <1>1, PTL

(* A publication that no other one crosses leaves on the page exactly the  *)
(* snapshot that was approved, whatever failed or crossed before it        *)
(* (create_page and replace_page of connectors/notion/client.py).          *)
THEOREM ApprovedSnapshot == Spec => []PageIsSnapshot
<1>1. ASSUME IInv, NEW r \in Requests, pc[r] = "answered", kind = "page", r \notin crossed
      PROVE  LET p == IF To(r) = NoPage THEN mine[r] ELSE To(r)
             IN  /\ callouts[p][1] = Snapshot(mine[r])
                 /\ IF p = OldPage THEN ~old ELSE Len(callouts[p]) = 1
  <2>1. mine[r] \in Runs /\ To(r) \in Pages \cup {NoPage} /\ PageFits(r) /\ WritesOwn(r)
    BY <1>1 DEF IInv, TypeOK, MemoryFits, PagesFit, WritesAlone, To
  <2>2. CASE To(r) = NoPage
    <3>1. callouts[mine[r]] = <<Snapshot(mine[r])>> /\ mine[r] # OldPage
      BY <1>1, <2>1, <2>2 DEF PageFits, Runs, OldPage
    <3> QED
      BY <2>2, <3>1
  <2>3. CASE To(r) # NoPage
    <3>1. callouts[To(r)][1] = Snapshot(mine[r]) /\ callouts[To(r)] # <<>>
      BY <1>1, <2>1, <2>3 DEF PageFits, WritesOwn
    <3>2. To(r) = OldPage => ~old
      BY <1>1, <3>1 DEF IInv, PagesFit
    <3>3. To(r) # OldPage => Len(callouts[To(r)]) = 1
      BY <1>1, <2>1, <2>3 DEF IInv, RecordsFit, Pages, To
    <3> QED
      BY <2>3, <3>1, <3>2, <3>3
  <2> QED
    BY <2>2, <2>3
<1>2. IInv => PageIsSnapshot
  BY <1>1 DEF PageIsSnapshot
<1> QED
  BY Invariance, <1>2, PTL

(* A project gets a second page, and a task a second issue, only by a      *)
(* preview that raced or after a creation that Relay did not learn of      *)
(* (projects/notion_publish.py, projects/github_issues.py).                *)
THEOREM OneCreation == Spec => []SecondOnlyByRaceOrLoss
<1>1. ASSUME IInv
      PROVE  \A i, j \in made : i = j
  BY <1>1 DEF IInv, TypeOK, OneClaim, Claims
<1>2. IInv => SecondOnlyByRaceOrLoss
  BY <1>1, AtMostOne DEF SecondOnlyByRaceOrLoss
<1> QED
  BY Invariance, <1>2, PTL

(* A run that previews return instead of making a new one leads on, unless *)
(* it was cancelled, its request died, or it is a rejected issue.          *)
THEOREM OpenRunsLeadOn == Spec => []OpenLeadsOn
<1>1. ASSUME IInv, NEW i \in Open
      PROVE  \/ Resolvable(i)
             \/ run[i] = "APPROVED" /\ approval[i] = "APPROVED"
             \/ \E r \in Requests : mine[r] = i /\ pc[r] \in Underway
             \/ action[i] = "COMPLETED" \/ run[i] = "CANCELLED" \/ i \in deserted
             \/ kind = "issue" /\ run[i] = "REJECTED"
  <2>1. i \in Runs /\ action[i] \notin {"none", "FAILED"} /\ (action[i] = "REJECTED" => kind = "issue")
    BY <1>1 DEF Open, ActionStatus, IInv, TypeOK
  <2> QED
    BY <1>1, <2>1 DEF IInv, RowsFit, NoneForgotten, Resolvable
<1>2. IInv => OpenLeadsOn
  BY <1>1 DEF OpenLeadsOn, Underway
<1> QED
  BY Invariance, <1>2, PTL

(* A run is drafted by one request and executed by one, at most once:      *)
(* execute() finds it APPROVED for one of them only.                       *)
THEOREM OneExecutor == Spec => []OneHand
<1>1. IInv => OneHand
  BY DEF IInv
<1> QED
  BY Invariance, <1>1, PTL
================================================================================
