---------------------------- MODULE Planning_proofs ----------------------------
(***************************************************************************)
(* Proofs about the three components that plan: PlanDrafting, for any      *)
(* planning window, amounts of work, calendars and set of concurrent       *)
(* requests; StudyScheduler, for any problems and any grid; and            *)
(* MeetingPlanning, for any transcripts, answers of the model and members. *)
(* The names of the three do not meet; what they share are the lemmas      *)
(* about numbers, loops and folds at the beginning.                        *)
(***************************************************************************)
EXTENDS PlanDrafting, StudyScheduler, MeetingPlanning, FiniteSetTheorems, TLAPS

--------------------------------------------------------------------------------
(* Numbers and loops.                                                      *)

(* A set of numbers has a least one.                                       *)
LEMMA LeastNumber ==
  ASSUME NEW S \in SUBSET Nat, S # {}
  PROVE  Min(S) \in S /\ \A n \in S : Min(S) <= n
<1>1. OpToRel(<, Nat) = {p \in Nat \X Nat : p[1] < p[2]}
  BY DEF OpToRel
<1>2. PICK x \in S : \A y \in S : ~(<<y, x>> \in OpToRel(<, Nat))
  BY NatLessThanWellFounded, WFMin
<1>3. \A y \in S : ~(<<y, x>> \in {p \in Nat \X Nat : p[1] < p[2]})
  BY <1>1, <1>2
<1>4. \A y \in S : ~(y < x)
  <2> TAKE y \in S
  <2>1. <<y, x>> \in Nat \X Nat /\ <<y, x>>[1] = y /\ <<y, x>>[2] = x
    OBVIOUS
  <2> QED
    BY <1>3, <2>1
<1>5. \A y \in S : x =< y
  BY <1>4
<1> QED
  BY <1>5 DEF Min

(* Induction, with a set in the place of a predicate.                      *)
LEMMA UpToNumber ==
  ASSUME NEW N \in Nat, NEW S, 0 \in S, \A n \in 0..(N - 1) : n \in S => n + 1 \in S
  PROVE  \A n \in 0..N : n \in S
<1> DEFINE rest == {n \in 0..N : n \notin S}
<1> SUFFICES ASSUME rest # {} PROVE FALSE
  OBVIOUS
<1>1. rest \in SUBSET Nat /\ Min(rest) \in rest /\ \A k \in rest : Min(rest) <= k
  <2>1. rest \in SUBSET Nat
    OBVIOUS
  <2> HIDE DEF rest
  <2> QED
    BY <2>1, LeastNumber
<1> DEFINE n == Min(rest)
<1>2. n # 0 /\ n - 1 \in 0..(N - 1) /\ n - 1 \notin rest
  BY <1>1
<1>3. n - 1 \in S
  BY <1>1, <1>2
<1>4. (n - 1) + 1 \in S
  BY <1>2, <1>3
<1> QED
  BY <1>1, <1>4

(* The states of a loop over 1 to N, each a function of the last.          *)
IsLoop(f, N, base, F) ==
  \A n \in 0..N : f[n] = IF n = 0 THEN base ELSE F[<<n, f[n - 1]>>]

(* A recursive function over 0 to N is the loop it defines: the loop has   *)
(* states, so what TLA+ chooses for the definition is one of them.         *)
LEMMA LoopHasStates ==
  ASSUME NEW N \in Nat, NEW V, NEW base \in V, NEW F \in [(1..N) \X V -> V]
  PROVE  \E f \in [0..N -> V] : IsLoop(f, N, base, F)
<1> DEFINE Upto(f, k) == \A n \in 0..k : f[n] = IF n = 0 THEN base ELSE F[<<n, f[n - 1]>>]
           good == {k \in 0..N : \E f \in [0..N -> V] : Upto(f, k)}
<1>1. 0 \in good
  <2>1. [n \in 0..N |-> base] \in [0..N -> V] /\ Upto([n \in 0..N |-> base], 0)
    OBVIOUS
  <2>2. \E f \in [0..N -> V] : Upto(f, 0)
    BY <2>1
  <2> QED
    BY <2>2
<1>2. ASSUME NEW k \in 0..(N - 1), k \in good PROVE k + 1 \in good
  <2>1. PICK f \in [0..N -> V] : Upto(f, k)
    BY <1>2
  <2> DEFINE next == F[<<k + 1, f[k]>>]
             g == [f EXCEPT ![k + 1] = next]
  <2>2. k + 1 \in 1..N /\ k \in 0..N /\ next \in V
    OBVIOUS
  <2>3. g \in [0..N -> V] /\ g[k + 1] = next /\ \A n \in 0..k : g[n] = f[n]
    BY <2>2
  <2>4. g[k + 1] = F[<<k + 1, g[(k + 1) - 1]>>]
    BY <2>2, <2>3
  <2>5. Upto(g, k + 1)
    <3> SUFFICES ASSUME NEW n \in 0..(k + 1)
                 PROVE  g[n] = IF n = 0 THEN base ELSE F[<<n, g[n - 1]>>]
      OBVIOUS
    <3>1. CASE n = k + 1
      BY <2>4, <3>1
    <3>2. CASE n \in 0..k
      <4>1. g[n] = f[n] /\ (n # 0 => g[n - 1] = f[n - 1])
        BY <2>3, <3>2
      <4> QED
        BY <2>1, <3>2, <4>1
    <3> QED
      BY <3>1, <3>2
  <2> HIDE DEF Upto, g
  <2>6. \E h \in [0..N -> V] : Upto(h, k + 1)
    BY <2>3, <2>5
  <2> QED
    BY <2>2, <2>6
<1> HIDE DEF good
<1>3. N \in good
  BY <1>1, <1>2, UpToNumber
<1> QED
  BY <1>3 DEF good, IsLoop

(* Induction on a finite set and its subsets, again with a set in the      *)
(* place of a predicate.                                                   *)
LEMMA UpToSet ==
  ASSUME NEW S, IsFiniteSet(S), NEW G, {} \in G,
         \A T \in SUBSET S : T # {} /\ (\A x \in T : T \ {x} \in G) => T \in G
  PROVE  \A T \in SUBSET S : T \in G
<1> DEFINE N == Cardinality(S)
           good == {k \in 0..N : \A T \in SUBSET S : Cardinality(T) <= k => T \in G}
<1>1. /\ N \in Nat
      /\ \A T \in SUBSET S : IsFiniteSet(T) /\ Cardinality(T) \in Nat /\ Cardinality(T) <= N
  BY FS_CardinalityType, FS_Subset
<1>2. 0 \in 0..N /\ \A T \in SUBSET S : Cardinality(T) <= 0 => T = {}
  BY <1>1, FS_EmptySet
<1>3. 0 \in good
  BY <1>2
<1>4. ASSUME NEW k \in 0..(N - 1), k \in good PROVE k + 1 \in good
  <2>1. k \in Nat /\ k + 1 \in 0..N
    BY <1>1
  <2>2. ASSUME NEW T \in SUBSET S, Cardinality(T) <= k + 1 PROVE T \in G
    <3>1. ASSUME NEW x \in T PROVE T \ {x} \in G
      <4>1. Cardinality(T \ {x}) = Cardinality(T) - 1
        BY <1>1, FS_RemoveElement
      <4>2. Cardinality(T \ {x}) <= k /\ T \ {x} \in SUBSET S
        BY <1>1, <2>1, <2>2, <4>1
      <4> QED
        BY <1>4, <4>2
    <3> QED
      BY <3>1
  <2> QED
    BY <2>1, <2>2
<1> HIDE DEF good
<1>5. N \in good
  BY <1>1, <1>3, <1>4, UpToNumber
<1> QED
  BY <1>1, <1>5 DEF good

(* The results of a fold over the subsets of S: one element after another  *)
(* is taken out, in the order that C chooses.                              *)
IsFold(f, S, base, C, F) ==
  \A T \in SUBSET S : f[T] = IF T = {} THEN base ELSE F[<<C[T], f[T \ {C[T]}]>>]

(* The same for the function that a fold defines over the subsets of a     *)
(* finite set.                                                             *)
LEMMA FoldHasResults ==
  ASSUME NEW S, IsFiniteSet(S), NEW V, NEW base \in V,
         NEW C, \A T \in SUBSET S : T # {} => C[T] \in T,
         NEW F \in [S \X V -> V]
  PROVE  \E f \in [SUBSET S -> V] : IsFold(f, S, base, C, F)
<1> DEFINE N == Cardinality(S)
           Result1(f, T) == IF T = {} THEN base ELSE F[<<C[T], f[T \ {C[T]}]>>]
           Upto(f, k) == \A T \in SUBSET S : Cardinality(T) <= k => f[T] = Result1(f, T)
           good == {k \in 0..N : \E f \in [SUBSET S -> V] : Upto(f, k)}
<1>1. /\ N \in Nat
      /\ \A T \in SUBSET S : IsFiniteSet(T) /\ Cardinality(T) \in Nat /\ Cardinality(T) <= N
  BY FS_CardinalityType, FS_Subset
<1>2. 0 \in 0..N /\ \A T \in SUBSET S : Cardinality(T) <= 0 => T = {}
  BY <1>1, FS_EmptySet
<1>3. 0 \in good
  <2>1. [T \in SUBSET S |-> base] \in [SUBSET S -> V]
    OBVIOUS
  <2>2. Upto([T \in SUBSET S |-> base], 0)
    BY <1>2
  <2>3. \E f \in [SUBSET S -> V] : Upto(f, 0)
    BY <2>1, <2>2
  <2> HIDE DEF Upto
  <2> QED
    BY <1>2, <2>3
<1>4. ASSUME NEW k \in 0..(N - 1), k \in good PROVE k + 1 \in good
  <2>1. k \in Nat /\ k + 1 \in 0..N
    BY <1>1
  <2>2. PICK f \in [SUBSET S -> V] : Upto(f, k)
    BY <1>4
  <2> DEFINE g == [T \in SUBSET S |-> IF Cardinality(T) <= k THEN f[T] ELSE Result1(f, T)]
  <2>3. g \in [SUBSET S -> V]
    <3>1. ASSUME NEW T \in SUBSET S PROVE Result1(f, T) \in V
      <4>1. CASE T # {}
        <5>1. C[T] \in S /\ T \ {C[T]} \in SUBSET S
          BY <4>1
        <5>2. <<C[T], f[T \ {C[T]}]>> \in S \X V
          BY <5>1
        <5> QED
          BY <4>1, <5>2
      <4> QED
        BY <4>1
    <3> HIDE DEF Result1
    <3> QED
      BY <3>1
  <2>4. ASSUME NEW T \in SUBSET S, Cardinality(T) <= k + 1 PROVE g[T] = Result1(g, T)
    <3>1. T # {} => T \ {C[T]} \in SUBSET S /\ g[T \ {C[T]}] = f[T \ {C[T]}]
      <4> SUFFICES ASSUME T # {} PROVE T \ {C[T]} \in SUBSET S /\ g[T \ {C[T]}] = f[T \ {C[T]}]
        OBVIOUS
      <4>1. C[T] \in T /\ Cardinality(T \ {C[T]}) = Cardinality(T) - 1
        BY <1>1, FS_RemoveElement
      <4>2. Cardinality(T \ {C[T]}) <= k
        BY <1>1, <2>1, <2>4, <4>1
      <4> QED
        BY <4>2
    <3>2. Result1(g, T) = Result1(f, T)
      <4> HIDE DEF g
      <4> QED
        BY <3>1
    <3>3. g[T] = Result1(f, T)
      <4>1. Cardinality(T) <= k => f[T] = Result1(f, T)
        BY <2>2
      <4> HIDE DEF Result1
      <4> QED
        BY <4>1
    <3> QED
      BY <3>2, <3>3
  <2> HIDE DEF g, Result1
  <2>5. Upto(g, k + 1)
    BY <2>4
  <2> QED
    BY <2>1, <2>3, <2>5
<1> HIDE DEF good
<1>5. N \in good
  BY <1>1, <1>3, <1>4, UpToNumber
<1> QED
  BY <1>1, <1>5 DEF good, IsFold

(* Numbers up to n have a greatest one.                                    *)
LEMMA GreatestNumber ==
  ASSUME NEW n \in Nat, NEW S \in SUBSET (1..n), S # {}
  PROVE  Max(S) \in S /\ \A k \in S : k <= Max(S)
<1> DEFINE down == {n - k : k \in S}
<1>1. down \in SUBSET Nat /\ down # {}
  <2>1. \A k \in S : n - k \in Nat
    OBVIOUS
  <2> QED
    BY <2>1, Zenon
<1>2. Min(down) \in down /\ \A m \in down : Min(down) <= m
  <2> HIDE DEF down
  <2> QED
    BY <1>1, LeastNumber
<1>3. PICK x \in S : Min(down) = n - x
  BY <1>2
<1>4. \A k \in S : k <= x
  <2> TAKE k \in S
  <2>1. n - x <= n - k
    <3>1. n - k \in down
      OBVIOUS
    <3> HIDE DEF down
    <3> QED
      BY <1>2, <1>3, <3>1
  <2>2. k \in Nat /\ x \in Nat
    OBVIOUS
  <2> QED
    BY <2>1, <2>2
<1>5. \E y \in S : \A k \in S : y >= k
  BY <1>4
<1>6. Max(S) \in S /\ \A k \in S : Max(S) >= k
  BY <1>5 DEF Max
<1> QED
  BY <1>6

(* Division of integers by a positive number, as minutes to days and       *)
(* slots.                                                                  *)
LEMMA Division ==
  ASSUME NEW a \in Int, NEW n \in Nat \ {0}
  PROVE  /\ a \div n \in Int /\ (a \div n) * n <= a /\ a < (a \div n) * n + n
         /\ a % n = a - (a \div n) * n
         /\ a \in Nat => a \div n \in Nat
  OBVIOUS

(* StudyScheduler: there are only so many places.                          *)
LEMMA ImageIsFinite ==
  ASSUME NEW S, IsFiniteSet(S), NEW f
  PROVE  IsFiniteSet({f[x] : x \in S})
<1> DEFINE T == {f[x] : x \in S}
           g == [x \in S |-> f[x]]
<1>1. g \in Surjection(S, T)
  BY DEF Surjection
<1> HIDE DEF g, T
<1>2. IsFiniteSet(T)
  BY <1>1, FS_Surjection
<1> QED
  BY <1>2 DEF T

(* A finite union of finite sets is finite.                                *)
LEMMA UnionIsFinite ==
  ASSUME NEW S, IsFiniteSet(S), NEW f, \A x \in S : IsFiniteSet(f[x])
  PROVE  IsFiniteSet(UNION {f[x] : x \in S})
<1>1. IsFiniteSet({f[x] : x \in S})
  BY ImageIsFinite
<1>2. \A T \in {f[x] : x \in S} : IsFiniteSet(T)
  OBVIOUS
<1> QED
  BY <1>1, <1>2, FS_UNION

--------------------------------------------------------------------------------
(* PlanDrafting: the invariant.                                            *)

(* Until the first solve the run has no schedule, neither in its payload   *)
(* nor in what a request has read of it.                                   *)
DraftIsBare ==
  /\ run = "DRAFT" =>
       /\ payload.sessions = {} /\ plan.status = "none"
       /\ \A r \in Requests : memory[r].sessions = {}
  /\ run \in {"PLAN_READY", "AWAITING_APPROVAL", "APPROVED"} => plan.status # "none"
  /\ plan.status = "none" => plan.sessions = {}

(* A calendar load begins before the first solve: what it puts back has no *)
(* sessions, however late.                                                 *)
LoadsAreBare == \A r \in Requests : pc[r] = "loading" => memory[r].sessions = {}

(* The inductive invariant.                                                *)
IInv ==
  /\ TypeOK
  /\ DraftIsBare
  /\ LoadsAreBare
  /\ FrozenIsPlanned
  /\ CopiesAgree

--------------------------------------------------------------------------------
(* Sets of slots.                                                          *)

LEMMA SlotsAreFinite ==
  ASSUME NEW sessions \in SUBSET Slots
  PROVE  IsFiniteSet(sessions) /\ Cardinality(sessions) \in Nat
<1>1. IsFiniteSet(Slots)
  BY FS_Interval, PlanAssumption DEF Slots
<1>2. IsFiniteSet(sessions)
  BY <1>1, FS_Subset
<1> QED
  BY <1>2, FS_CardinalityType

LEMMA FewerSlots ==
  ASSUME NEW sessions \in SUBSET Slots, NEW locked \in SUBSET sessions
  PROVE  Cardinality(locked) <= Cardinality(sessions)
  BY SlotsAreFinite, FS_Subset

LEMMA NeedIsNumber ==
  ASSUME NEW in \in Payloads
  PROVE  in.need \in Nat
<1>1. in.need \in Needs \cup {0}
  BY DEF Payloads
<1>2. \A n \in Needs \cup {0} : n \in Nat
  BY PlanAssumption
<1> QED
  BY <1>1, <1>2

(* What a solve adds leaves room for the locked sessions.                  *)
LEMMA SolveFits ==
  ASSUME NEW in \in Payloads, NEW new \in NewSessions(in),
         Cardinality(in.locked) <= in.need, in.locked \cap in.busy = {}
  PROVE  /\ in.locked \cup new \in SUBSET Slots
         /\ Cardinality(in.locked \cup new) <= in.need
         /\ (in.locked \cup new) \cap in.busy = {}
<1>1. in.locked \in SUBSET Slots /\ in.need \in Nat
  BY NeedIsNumber DEF Payloads
<1>2. new \in SUBSET Slots /\ new \cap in.busy = {}
      /\ (new = {} \/ Cardinality(new) + Cardinality(in.locked) <= in.need)
  BY DEF NewSessions
<1>3. Cardinality(in.locked \cup new) <= in.need
  <2>1. CASE new = {}
    <3>1. in.locked \cup new = in.locked
      BY <2>1
    <3> QED
      BY <3>1
  <2>2. CASE Cardinality(new) + Cardinality(in.locked) <= in.need
    <3>1. Cardinality(in.locked \cup new)
            = Cardinality(in.locked) + Cardinality(new) - Cardinality(in.locked \cap new)
      BY <1>1, <1>2, SlotsAreFinite, FS_Union
    <3>2. in.locked \cap new \in SUBSET Slots
      BY <1>1
    <3>3. /\ Cardinality(in.locked) \in Nat /\ Cardinality(new) \in Nat
          /\ Cardinality(in.locked \cap new) \in Nat
      BY <1>1, <1>2, <3>2, SlotsAreFinite
    <3> QED
      BY <1>1, <2>2, <3>1, <3>3
  <2> QED
    BY <1>2, <2>1, <2>2
<1> QED
  BY <1>1, <1>2, <1>3

--------------------------------------------------------------------------------
(* Payloads.                                                               *)

LEMMA EmptyIsPayload == Empty \in Payloads
  BY DEF Empty, Payloads

LEMMA PayloadUpdates ==
  ASSUME NEW in \in Payloads, NEW x \in SUBSET Slots, NEW y \in SUBSET Slots
  PROVE  /\ [in EXCEPT !.busy = x] \in Payloads
         /\ [in EXCEPT !.sessions = x] \in Payloads
         /\ [in EXCEPT !.sessions = x, !.locked = y] \in Payloads
  BY DEF Payloads

--------------------------------------------------------------------------------
(* The invariant holds at the start.                                       *)

LEMMA InvariantInit == Init => IInv
<1> SUFFICES ASSUME Init PROVE IInv
  OBVIOUS
<1>1. TypeOK
  <2>1. Empty \in Payloads /\ Empty.locked = {} /\ 0 \in Slots
    BY EmptyIsPayload, PlanAssumption DEF Empty, Slots
  <2>2. payload \in Payloads /\ memory \in [Requests -> Payloads] /\ about \in [Requests -> Slots]
        /\ payload.locked = {} /\ \A r \in Requests : memory[r].locked = {}
    BY <2>1 DEF Init
  <2> QED
    BY <2>2 DEF Init, TypeOK, NoPlan, WorkflowStatus
<1>2. DraftIsBare /\ LoadsAreBare /\ FrozenIsPlanned /\ CopiesAgree
  BY DEF Init, Empty, NoPlan, DraftIsBare, LoadsAreBare, FrozenIsPlanned, CopiesAgree
<1> QED
  BY <1>1, <1>2 DEF IInv

--------------------------------------------------------------------------------
(* Each action keeps the inductive invariant.                              *)

LEMMA SetupKeepsInvariant ==
  ASSUME IInv, NEW need \in Needs, Setup(need)
  PROVE  IInv'
<1> USE PlanAssumption
    DEF IInv, TypeOK, Payloads, request,
        Setup, Empty
<1>1. TypeOK'
  BY DEF Slots, WorkflowStatus
<1>2. DraftIsBare' /\ LoadsAreBare'
  BY DEF DraftIsBare, LoadsAreBare
<1>3. FrozenIsPlanned'
  BY DEF FrozenIsPlanned
<1>4. CopiesAgree'
  BY DEF CopiesAgree, DraftIsBare, LoadsAreBare
<1> QED
  BY <1>1, <1>2, <1>3, <1>4

LEMMA LoadAvailabilityKeepsInvariant ==
  ASSUME IInv, NEW busy \in Calendars \cup {{}}, LoadAvailability(busy)
  PROVE  IInv'
<1> USE PlanAssumption
    DEF IInv, TypeOK, Payloads, request,
        LoadAvailability
<1>1. TypeOK'
  BY DEF Slots, WorkflowStatus
<1>2. DraftIsBare' /\ LoadsAreBare'
  BY DEF DraftIsBare, LoadsAreBare
<1>3. FrozenIsPlanned'
  BY DEF FrozenIsPlanned
<1>4. CopiesAgree'
  BY DEF CopiesAgree, DraftIsBare, LoadsAreBare
<1> QED
  BY <1>1, <1>2, <1>3, <1>4

LEMMA RefreshTokenKeepsInvariant ==
  ASSUME IInv, NEW r \in Requests, RefreshToken(r)
  PROVE  IInv'
<1> USE PlanAssumption
    DEF IInv, TypeOK, Payloads, request,
        RefreshToken, Begin
<1>1. TypeOK'
  BY DEF Slots, WorkflowStatus
<1>2. DraftIsBare' /\ LoadsAreBare'
  BY DEF DraftIsBare, LoadsAreBare
<1>3. FrozenIsPlanned'
  BY DEF FrozenIsPlanned
<1>4. CopiesAgree'
  BY DEF CopiesAgree, DraftIsBare, LoadsAreBare
<1> QED
  BY <1>1, <1>2, <1>3, <1>4

LEMMA LoadEndKeepsInvariant ==
  ASSUME IInv, NEW r \in Requests, NEW busy \in Calendars, LoadEnd(r, busy)
  PROVE  IInv'
<1> USE PlanAssumption
    DEF IInv, TypeOK, Payloads, request,
        LoadEnd, PutBack, End, Empty
<1>1. TypeOK'
  <2>1. Empty \in Payloads /\ 0 \in Slots
    BY EmptyIsPayload DEF Slots, Empty
  <2>2. payload' \in Payloads /\ payload'.locked \subseteq payload'.sessions
    <3>1. memory[r] \in Payloads /\ busy \in SUBSET Slots
      OBVIOUS
    <3>2. payload' = [memory[r] EXCEPT !.busy = busy]
      OBVIOUS
    <3>3. /\ payload'.locked = memory[r].locked /\ payload'.sessions = memory[r].sessions
          /\ memory[r].locked \subseteq memory[r].sessions
      BY <3>1, <3>2
    <3>4. payload' \in Payloads
      BY ONLY <3>1, <3>2, PayloadUpdates
    <3> QED
      BY ONLY <3>3, <3>4
  <2>3. memory' \in [Requests -> Payloads] /\ about' \in [Requests -> Slots]
        /\ \A q \in Requests : memory'[q].locked \subseteq memory'[q].sessions
    BY <2>1
  <2>4. pc' \in [Requests -> {"idle", "loading", "locking", "releasing", "exporting"}]
        /\ overwritten' \in BOOLEAN /\ UNCHANGED <<run, plan, frozen>>
    OBVIOUS
  <2> QED
    BY <2>2, <2>3, <2>4
<1>2. DraftIsBare' /\ LoadsAreBare'
  BY DEF DraftIsBare, LoadsAreBare
<1>3. FrozenIsPlanned'
  BY DEF FrozenIsPlanned
<1>4. CopiesAgree'
  BY DEF CopiesAgree, DraftIsBare, LoadsAreBare
<1> QED
  BY <1>1, <1>2, <1>3, <1>4

LEMMA SolveKeepsInvariant ==
  ASSUME IInv, NEW new \in NewSessions(payload), Solve(new)
  PROVE  IInv'
<1> DEFINE all == payload.locked \cup new
<1>1. /\ payload \in Payloads /\ new \in SUBSET Slots
      /\ payload.locked \in SUBSET payload.sessions /\ payload.locked \in SUBSET Slots
      /\ payload.sessions \in SUBSET Slots /\ payload.need \in Nat
  BY NeedIsNumber DEF IInv, TypeOK, Payloads, NewSessions
<1>2. /\ run \in {"DRAFT", "PLAN_READY"} /\ run' = "PLAN_READY"
      /\ plan' = [status |-> SolvedStatus(payload, new), sessions |-> all]
      /\ payload' = [payload EXCEPT !.sessions = all]
      /\ UNCHANGED <<frozen, pc, memory, about, overwritten>>
  BY DEF Solve, request
<1>3. SolvedStatus(payload, new) \in {"OPTIMAL", "INFEASIBLE"}
  BY DEF SolvedStatus
<1>4. /\ payload' \in Payloads /\ payload'.sessions = all /\ payload'.locked = payload.locked
      /\ payload'.busy = payload.busy /\ payload'.need = payload.need
  <2>1. all \in SUBSET Slots
    BY <1>1
  <2>2. payload' \in Payloads
    BY <1>1, <1>2, <2>1, PayloadUpdates
  <2> QED
    BY <1>1, <1>2, <2>2 DEF Payloads
<1>5. TypeOK'
  <2>1. payload'.locked \subseteq payload'.sessions
    BY <1>4
  <2>2. plan' \in [status : {"none", "OPTIMAL", "INFEASIBLE"}, sessions : SUBSET Slots]
    BY <1>1, <1>2, <1>3
  <2> QED
    BY <1>2, <1>4, <2>1, <2>2 DEF IInv, TypeOK, WorkflowStatus
<1>6. DraftIsBare' /\ LoadsAreBare'
  <2>1. plan'.status # "none"
    BY <1>2, <1>3
  <2> QED
    BY <1>2, <2>1 DEF IInv, DraftIsBare, LoadsAreBare
<1>7. FrozenIsPlanned'
  BY <1>2 DEF FrozenIsPlanned
<1>8. CopiesAgree'
  <2>1. SUFFICES ASSUME ~overwritten
                 PROVE  /\ Cardinality(all) <= payload.need
                        /\ all \cap payload.busy = {}
    BY <1>2, <1>4 DEF CopiesAgree
  <2>2. Cardinality(payload.locked) <= payload.need /\ payload.locked \cap payload.busy = {}
    <3>1. CASE run = "DRAFT"
      <4>1. payload.locked = {}
        BY <1>1, <3>1 DEF IInv, DraftIsBare
      <4> QED
        BY <1>1, <4>1, FS_EmptySet
    <3>2. CASE run = "PLAN_READY"
      <4>1. /\ plan.sessions = payload.sessions /\ plan.sessions \cap payload.busy = {}
            /\ Cardinality(plan.sessions) <= payload.need
        BY <2>1, <3>2 DEF IInv, DraftIsBare, CopiesAgree
      <4>2. Cardinality(payload.locked) <= Cardinality(payload.sessions)
        BY <1>1, FewerSlots
      <4>3. Cardinality(payload.locked) \in Nat /\ Cardinality(payload.sessions) \in Nat
        BY <1>1, SlotsAreFinite
      <4> QED
        BY <1>1, <4>1, <4>2, <4>3
    <3> QED
      BY <1>2, <3>1, <3>2
  <2> QED
    BY <1>1, <2>2, SolveFits
<1> QED
  BY <1>5, <1>6, <1>7, <1>8 DEF IInv

LEMMA AdjustAllKeepsInvariant ==
  ASSUME IInv, NEW sessions \in SUBSET Slots, NEW locked \in SUBSET sessions,
         AdjustAll(sessions, locked)
  PROVE  IInv'
<1> USE PlanAssumption
    DEF IInv, TypeOK, Payloads, request,
        AdjustAll, Adjust, Adjustable, Valid, AdjustedPayload, AdjustedStatus
<1>1. TypeOK'
  BY DEF Slots, WorkflowStatus
<1>2. DraftIsBare' /\ LoadsAreBare'
  BY DEF DraftIsBare, LoadsAreBare
<1>3. FrozenIsPlanned'
  BY DEF FrozenIsPlanned
<1>4. CopiesAgree'
  BY DEF CopiesAgree, DraftIsBare, LoadsAreBare
<1> QED
  BY <1>1, <1>2, <1>3, <1>4

LEMMA LockBeginKeepsInvariant ==
  ASSUME IInv, NEW r \in Requests, NEW x \in Slots, LockBegin(r, x)
  PROVE  IInv'
<1> USE PlanAssumption
    DEF IInv, TypeOK, Payloads, request,
        LockBegin, Begin, List, Empty
<1>1. TypeOK'
  <2>1. /\ memory'[r] \in Payloads /\ memory'[r].locked \subseteq memory'[r].sessions
        /\ memory' = [memory EXCEPT ![r] = memory'[r]]
    BY DEF Slots
  <2>2. memory' \in [Requests -> Payloads]
        /\ \A q \in Requests : memory'[q].locked \subseteq memory'[q].sessions
    BY <2>1
  <2>3. about' \in [Requests -> Slots] /\ UNCHANGED <<run, payload, plan, frozen, overwritten>>
        /\ pc' \in [Requests -> {"idle", "loading", "locking", "releasing", "exporting"}]
    OBVIOUS
  <2> QED
    BY <2>2, <2>3
<1>2. DraftIsBare' /\ LoadsAreBare'
  BY DEF DraftIsBare, LoadsAreBare
<1>3. FrozenIsPlanned'
  BY DEF FrozenIsPlanned
<1>4. CopiesAgree'
  BY DEF CopiesAgree, DraftIsBare, LoadsAreBare
<1> QED
  BY <1>1, <1>2, <1>3, <1>4

LEMMA UnlockBeginKeepsInvariant ==
  ASSUME IInv, NEW r \in Requests, NEW x \in Slots, UnlockBegin(r, x)
  PROVE  IInv'
<1> USE PlanAssumption
    DEF IInv, TypeOK, Payloads, request,
        UnlockBegin, Begin, List, Empty
<1>1. TypeOK'
  BY DEF Slots, WorkflowStatus
<1>2. DraftIsBare' /\ LoadsAreBare'
  BY DEF DraftIsBare, LoadsAreBare
<1>3. FrozenIsPlanned'
  BY DEF FrozenIsPlanned
<1>4. CopiesAgree'
  BY DEF CopiesAgree, DraftIsBare, LoadsAreBare
<1> QED
  BY <1>1, <1>2, <1>3, <1>4

LEMMA RemoveBeginKeepsInvariant ==
  ASSUME IInv, NEW r \in Requests, NEW x \in Slots, RemoveBegin(r, x)
  PROVE  IInv'
<1> USE PlanAssumption
    DEF IInv, TypeOK, Payloads, request,
        RemoveBegin, Begin, List, Empty
<1>1. TypeOK'
  BY DEF Slots, WorkflowStatus
<1>2. DraftIsBare' /\ LoadsAreBare'
  BY DEF DraftIsBare, LoadsAreBare
<1>3. FrozenIsPlanned'
  BY DEF FrozenIsPlanned
<1>4. CopiesAgree'
  BY DEF CopiesAgree, DraftIsBare, LoadsAreBare
<1> QED
  BY <1>1, <1>2, <1>3, <1>4

LEMMA AdjustEndKeepsInvariant ==
  ASSUME IInv, NEW r \in Requests, AdjustEnd(r)
  PROVE  IInv'
<1> USE PlanAssumption
    DEF IInv, TypeOK, Payloads, request,
        AdjustEnd, Adjust, Adjustable, Valid, AdjustedPayload, AdjustedStatus, End, Empty
<1>1. TypeOK'
  <2>1. Empty \in Payloads /\ 0 \in Slots
    BY EmptyIsPayload DEF Slots, Empty
  <2>2. /\ payload' \in Payloads /\ payload'.locked \subseteq payload'.sessions
        /\ memory[r].sessions \in SUBSET Slots
    BY PayloadUpdates
  <2>3. memory' \in [Requests -> Payloads] /\ about' \in [Requests -> Slots]
        /\ \A q \in Requests : memory'[q].locked \subseteq memory'[q].sessions
    BY <2>1
  <2>4. pc' \in [Requests -> {"idle", "loading", "locking", "releasing", "exporting"}]
        /\ UNCHANGED <<run, frozen, overwritten>>
    OBVIOUS
  <2>5. plan' \in [status : {"none", "OPTIMAL", "INFEASIBLE"}, sessions : SUBSET Slots]
    BY <2>2
  <2> QED
    BY <2>2, <2>3, <2>4, <2>5
<1>2. DraftIsBare' /\ LoadsAreBare'
  BY DEF DraftIsBare, LoadsAreBare
<1>3. FrozenIsPlanned'
  BY DEF FrozenIsPlanned
<1>4. CopiesAgree'
  BY DEF CopiesAgree, DraftIsBare, LoadsAreBare
<1> QED
  BY <1>1, <1>2, <1>3, <1>4

LEMMA ExportBeginKeepsInvariant ==
  ASSUME IInv, NEW r \in Requests, ExportBegin(r)
  PROVE  IInv'
<1> USE PlanAssumption
    DEF IInv, TypeOK, Payloads, request,
        ExportBegin, Begin
<1>1. TypeOK'
  BY DEF Slots, WorkflowStatus
<1>2. DraftIsBare' /\ LoadsAreBare'
  BY DEF DraftIsBare, LoadsAreBare
<1>3. FrozenIsPlanned'
  BY DEF FrozenIsPlanned
<1>4. CopiesAgree'
  BY DEF CopiesAgree, DraftIsBare, LoadsAreBare
<1> QED
  BY <1>1, <1>2, <1>3, <1>4

LEMMA ExportEndKeepsInvariant ==
  ASSUME IInv, NEW r \in Requests, ExportEnd(r)
  PROVE  IInv'
<1> USE PlanAssumption
    DEF IInv, TypeOK, Payloads, request,
        ExportEnd, PutBack, End, Empty
<1>1. TypeOK'
  BY DEF Slots, WorkflowStatus
<1>2. DraftIsBare' /\ LoadsAreBare'
  BY DEF DraftIsBare, LoadsAreBare
<1>3. FrozenIsPlanned'
  BY DEF FrozenIsPlanned
<1>4. CopiesAgree'
  BY DEF CopiesAgree, DraftIsBare, LoadsAreBare
<1> QED
  BY <1>1, <1>2, <1>3, <1>4

LEMMA RequestFailsKeepsInvariant ==
  ASSUME IInv, NEW r \in Requests, RequestFails(r)
  PROVE  IInv'
<1> USE PlanAssumption
    DEF IInv, TypeOK, Payloads, request,
        RequestFails, End, Empty
<1>1. TypeOK'
  BY DEF Slots, WorkflowStatus
<1>2. DraftIsBare' /\ LoadsAreBare'
  BY DEF DraftIsBare, LoadsAreBare
<1>3. FrozenIsPlanned'
  BY DEF FrozenIsPlanned
<1>4. CopiesAgree'
  BY DEF CopiesAgree, DraftIsBare, LoadsAreBare
<1> QED
  BY <1>1, <1>2, <1>3, <1>4

LEMMA RequestApprovalKeepsInvariant ==
  ASSUME IInv, RequestApproval
  PROVE  IInv'
<1> USE PlanAssumption
    DEF IInv, TypeOK, Payloads, request,
        RequestApproval, FrozenSessions
<1>1. TypeOK'
  BY DEF Slots, WorkflowStatus
<1>2. DraftIsBare' /\ LoadsAreBare'
  BY DEF DraftIsBare, LoadsAreBare
<1>3. FrozenIsPlanned'
  BY DEF FrozenIsPlanned
<1>4. CopiesAgree'
  BY DEF CopiesAgree, DraftIsBare, LoadsAreBare
<1> QED
  BY <1>1, <1>2, <1>3, <1>4

LEMMA ResolveKeepsInvariant ==
  ASSUME IInv, NEW status \in {"APPROVED", "REJECTED"}, Resolve(status)
  PROVE  IInv'
<1> USE PlanAssumption
    DEF IInv, TypeOK, Payloads, request,
        Resolve
<1>1. TypeOK'
  BY DEF Slots, WorkflowStatus
<1>2. DraftIsBare' /\ LoadsAreBare'
  BY DEF DraftIsBare, LoadsAreBare
<1>3. FrozenIsPlanned'
  BY DEF FrozenIsPlanned
<1>4. CopiesAgree'
  BY DEF CopiesAgree, DraftIsBare, LoadsAreBare
<1> QED
  BY <1>1, <1>2, <1>3, <1>4

LEMMA CancelKeepsInvariant ==
  ASSUME IInv, Cancel
  PROVE  IInv'
<1> USE PlanAssumption
    DEF IInv, TypeOK, Payloads, request,
        Cancel
<1>1. TypeOK'
  BY DEF Slots, WorkflowStatus
<1>2. DraftIsBare' /\ LoadsAreBare'
  BY DEF DraftIsBare, LoadsAreBare
<1>3. FrozenIsPlanned'
  BY DEF FrozenIsPlanned
<1>4. CopiesAgree'
  BY DEF CopiesAgree, DraftIsBare, LoadsAreBare
<1> QED
  BY <1>1, <1>2, <1>3, <1>4

LEMMA NextKeepsInvariant == IInv /\ Next => IInv'
  BY SetupKeepsInvariant, LoadAvailabilityKeepsInvariant, RefreshTokenKeepsInvariant,
     LoadEndKeepsInvariant, SolveKeepsInvariant, AdjustAllKeepsInvariant,
     LockBeginKeepsInvariant, UnlockBeginKeepsInvariant, RemoveBeginKeepsInvariant,
     AdjustEndKeepsInvariant, ExportBeginKeepsInvariant, ExportEndKeepsInvariant,
     RequestFailsKeepsInvariant, RequestApprovalKeepsInvariant, ResolveKeepsInvariant,
     CancelKeepsInvariant DEF Next

LEMMA StutterKeepsInvariant == IInv /\ UNCHANGED vars => IInv'
  BY DEF vars, request, IInv, TypeOK, DraftIsBare, LoadsAreBare, FrozenIsPlanned, CopiesAgree

(* The inductive invariant holds in every state that can be reached. *)
THEOREM Invariance == Spec => []IInv
  BY InvariantInit, NextKeepsInvariant, StutterKeepsInvariant, PTL DEF Spec

--------------------------------------------------------------------------------
(* Every variable holds a value of its type, and what is locked is one of  *)
(* the sessions, in the run's payload and in whatever a lock, a removal,   *)
(* an export or a load is about to write (study_plan/service.py).          *)
THEOREM TypeCorrect == Spec => []TypeOK
<1>1. IInv => TypeOK
  BY DEF IInv
<1> QED
  BY Invariance, <1>1, PTL

(* What awaits approval or is approved is the schedule the user sees, and  *)
(* neither empty nor infeasible (request_approval).                        *)
THEOREM FrozenPlan == Spec => []FrozenIsPlanned
<1>1. IInv => FrozenIsPlanned
  BY DEF IInv
<1> QED
  BY Invariance, <1>1, PTL

(* The schedule is the one the next solve starts from, keeps clear of the  *)
(* busy intervals and schedules no more than there is to do, unless an     *)
(* export or a load has put an older payload back.                         *)
THEOREM PlanCopies == Spec => []CopiesAgree
<1>1. IInv => CopiesAgree
  BY DEF IInv
<1> QED
  BY Invariance, <1>1, PTL

(* Once approval was asked for, no request begun before, no calendar load  *)
(* and no export changes the schedule or what was frozen of it.            *)
THEOREM ReviewIsStable == Spec => ReviewedPlanStands
<1>1. Next /\ PastReview => PastReview' /\ UNCHANGED <<plan, frozen>>
  BY DEF Next, PastReview, WorkflowStatus, Setup, LoadAvailability, RefreshToken, Begin, LoadEnd,
         PutBack, Solve, AdjustAll, Adjust, Adjustable, LockBegin, UnlockBegin, RemoveBegin,
         AdjustEnd, ExportBegin, ExportEnd, RequestFails, RequestApproval, Resolve, Cancel
<1>2. [Next]_vars => [PastReview => PastReview' /\ UNCHANGED <<plan, frozen>>]_vars
  BY <1>1
<1> QED
  BY <1>2, PTL DEF Spec, ReviewedPlanStands

--------------------------------------------------------------------------------
(* StudyScheduler: free time.                                              *)

(* Intervals of minutes.                                                   *)
Timed(sessions) == \A s \in sessions : s.start \in Int /\ s.end \in Int

(* The minutes of a set of sessions are those of one of them and those of  *)
(* the others.                                                             *)
LEMMA MinutesFold ==
  ASSUME NEW S, IsFiniteSet(S), Timed(S)
  PROVE  \E f \in [SUBSET S -> Int] :
           /\ Minutes(S) = f[S] /\ f[{}] = 0
           /\ \A T \in SUBSET S : T # {} => \E x \in T : f[T] = f[T \ {x}] + x.end - x.start
<1> DEFINE C == [T \in SUBSET S |-> CHOOSE x \in T : TRUE]
           F == [p \in S \X Int |-> p[2] + p[1].end - p[1].start]
           Step(f) == [T \in SUBSET S |->
                         IF T = {} THEN 0
                         ELSE LET x == CHOOSE x \in T : TRUE IN f[T \ {x}] + x.end - x.start]
           iter == CHOOSE f : f = Step(f)
<1>1. \A T \in SUBSET S : T # {} => C[T] \in T
  OBVIOUS
<1>2. F \in [S \X Int -> Int]
  BY DEF Timed
<1>3. PICK f \in [SUBSET S -> Int] : IsFold(f, S, 0, C, F)
  <2>1. 0 \in Int
    OBVIOUS
  <2> HIDE DEF C, F
  <2> QED
    BY <1>1, <1>2, <2>1, FoldHasResults, Zenon
<1>4. f = Step(f)
  <2>1. \A T \in SUBSET S : f[T] = Step(f)[T]
    <3> TAKE T \in SUBSET S
    <3>1. CASE T = {}
      BY <1>3, <3>1 DEF IsFold
    <3>2. CASE T # {}
      <4>1. C[T] \in S /\ T \ {C[T]} \in SUBSET S /\ C[T] = CHOOSE x \in T : TRUE
        BY <1>1, <3>2
      <4>2. F[<<C[T], f[T \ {C[T]}]>>] = f[T \ {C[T]}] + C[T].end - C[T].start
        <5> HIDE DEF C
        <5>1. <<C[T], f[T \ {C[T]}]>> \in S \X Int
          BY <4>1
        <5> QED
          BY <5>1
      <4>3. f[T] = F[<<C[T], f[T \ {C[T]}]>>]
        <5> HIDE DEF C, F
        <5> QED
          BY <1>3, <3>2 DEF IsFold
      <4> HIDE DEF F
      <4> QED
        BY <3>2, <4>1, <4>2, <4>3
    <3> QED
      BY <3>1, <3>2
  <2> HIDE DEF Step
  <2>2. f = [T \in SUBSET S |-> f[T]] /\ Step(f) = [T \in SUBSET S |-> Step(f)[T]]
    BY DEF Step
  <2> QED
    BY <2>1, <2>2
<1>5. iter = Step(iter)
  <2> HIDE DEF Step
  <2> QED
    BY <1>4
<1>6. Minutes(S) = iter[S]
  BY DEF Minutes, FoldSet, MapThenFoldSet
<1>7. \A T \in SUBSET S : iter[T] = Step(iter)[T]
  <2> HIDE DEF iter, Step
  <2> QED
    BY <1>5
<1> HIDE DEF iter
<1>8. \A T \in SUBSET S :
        iter[T] = IF T = {} THEN 0
                  ELSE LET x == CHOOSE x \in T : TRUE IN iter[T \ {x}] + x.end - x.start
  BY <1>7
<1> HIDE DEF Step
<1> DEFINE G == {T \in SUBSET S : iter[T] \in Int}
<1>9. iter[{}] = 0 /\ {} \in G
  <2>1. iter[{}] = 0
    BY <1>8, Zenon
  <2> QED
    BY <2>1
<1>10. ASSUME NEW T \in SUBSET S, T # {}
       PROVE  \E x \in T : iter[T] = iter[T \ {x}] + x.end - x.start
  BY <1>8, <1>10
<1>11. \A T \in SUBSET S : T # {} /\ (\A x \in T : T \ {x} \in G) => T \in G
  <2> SUFFICES ASSUME NEW T \in SUBSET S, T # {}, \A x \in T : T \ {x} \in G
               PROVE  iter[T] \in Int
    OBVIOUS
  <2>1. PICK x \in T : iter[T] = iter[T \ {x}] + x.end - x.start
    BY <1>10
  <2>2. iter[T \ {x}] \in Int
    OBVIOUS
  <2>3. x.start \in Int /\ x.end \in Int
    BY DEF Timed
  <2> QED
    BY <2>1, <2>2, <2>3
<1>12. \A T \in SUBSET S : T \in G
  <2> HIDE DEF G
  <2> QED
    BY <1>9, <1>11, UpToSet, Zenon
<1> DEFINE g == [T \in SUBSET S |-> iter[T]]
<1>13. g \in [SUBSET S -> Int] /\ \A T \in SUBSET S : g[T] = iter[T]
  BY <1>12
<1>14. Minutes(S) = g[S] /\ g[{}] = 0
  BY <1>6, <1>9, <1>13
<1>15. ASSUME NEW T \in SUBSET S, T # {}
       PROVE  \E x \in T : g[T] = g[T \ {x}] + x.end - x.start
  BY <1>10, <1>13, <1>15
<1> HIDE DEF g
<1> QED
  BY <1>13, <1>14, <1>15

(* Sessions have a whole number of minutes, none without sessions, and     *)
(* some with sessions that last.                                           *)
LEMMA MinutesOf ==
  ASSUME NEW S, IsFiniteSet(S), Timed(S)
  PROVE  /\ Minutes(S) \in Int
         /\ S = {} => Minutes(S) = 0
         /\ S # {} /\ (\A s \in S : s.start < s.end) => Minutes(S) >= 1
<1>1. PICK f \in [SUBSET S -> Int] :
        /\ Minutes(S) = f[S] /\ f[{}] = 0
        /\ \A T \in SUBSET S : T # {} => \E x \in T : f[T] = f[T \ {x}] + x.end - x.start
  BY MinutesFold
<1>2. ASSUME S # {}, \A s \in S : s.start < s.end PROVE f[S] >= 1
  <2> DEFINE G == {T \in SUBSET S : f[T] >= 0}
  <2>1. {} \in G
    BY <1>1
  <2>2. ASSUME NEW T \in SUBSET S, T # {}, \A x \in T : T \ {x} \in G PROVE f[T] >= 1
    <3>1. PICK x \in T : f[T] = f[T \ {x}] + x.end - x.start
      BY <1>1, <2>2
    <3>2. /\ f[T \ {x}] >= 0 /\ f[T \ {x}] \in Int
          /\ x.start < x.end /\ x.start \in Int /\ x.end \in Int
      BY <1>2, <2>2 DEF Timed
    <3> QED
      BY <3>1, <3>2
  <2>3. \A T \in SUBSET S : T # {} /\ (\A x \in T : T \ {x} \in G) => T \in G
    BY <2>2
  <2>4. \A T \in SUBSET S : T \in G
    <3> HIDE DEF G
    <3> QED
      BY <2>1, <2>3, UpToSet, Zenon
  <2> HIDE DEF G
  <2> QED
    BY <1>2, <2>2, <2>4
<1> QED
  BY <1>1, <1>2

(* The grid is rounded to from above and from below.                       *)
LEMMA ToSlot ==
  ASSUME NEW t \in Int
  PROVE  /\ CeilToSlot(t) \in Int /\ t <= CeilToSlot(t)
         /\ FloorToSlot(t) \in Int /\ FloorToSlot(t) <= t
<1>1. Slot \in Nat \ {0}
  BY SchedulerAssumption
<1>2. \A a \in Int : /\ a \div Slot \in Int /\ (a \div Slot) * Slot <= a
                     /\ a < (a \div Slot) * Slot + Slot
  BY <1>1
<1>3. ((t + Slot - 1) \div Slot) * Slot > (t + Slot - 1) - Slot
  BY <1>1, <1>2
<1> QED
  BY <1>1, <1>2, <1>3 DEF CeilToSlot, FloorToSlot

(* The windows solve() works with, and that one lies in another.           *)
Span == [start : Int, end : Int]

Within(u, w) == w.start <= u.start /\ u.end <= w.end

(* What one interval leaves of the free windows lies in them and off it.   *)
LEMMA SubtractLeaves ==
  ASSUME NEW W \in SUBSET Span, NEW b, b.start \in Int, b.end \in Int
  PROVE  /\ Subtract(W, b) \in SUBSET Span
         /\ \A u \in Subtract(W, b) : ~Overlaps(u, b) /\ \E w \in W : Within(u, w)
<1>1. ASSUME NEW u \in Subtract(W, b)
      PROVE  u \in Span /\ ~Overlaps(u, b) /\ \E w \in W : Within(u, w)
  <2>1. PICK w \in W : u \in IF Overlaps(w, b) THEN {Before(w, b), After(w, b)} ELSE {w}
    BY DEF Subtract, NonEmpty
  <2>2. w.start \in Int /\ w.end \in Int
    BY DEF Span
  <2>3. CASE u = w /\ ~Overlaps(w, b)
    BY <2>2, <2>3 DEF Within
  <2>4. CASE u = Before(w, b)
    <3>1. /\ u = Window(w.start, Lesser(w.end, FloorToSlot(b.start)))
          /\ FloorToSlot(b.start) \in Int /\ FloorToSlot(b.start) <= b.start
      BY <2>4, ToSlot DEF Before
    <3> QED
      BY <2>2, <3>1 DEF Window, Lesser, Span, Overlaps, Within
  <2>5. CASE u = After(w, b)
    <3>1. /\ u = Window(Greater(w.start, CeilToSlot(b.end)), w.end)
          /\ CeilToSlot(b.end) \in Int /\ b.end <= CeilToSlot(b.end)
      BY <2>5, ToSlot DEF After
    <3> QED
      BY <2>2, <3>1 DEF Window, Greater, Span, Overlaps, Within
  <2> QED
    BY <2>1, <2>3, <2>4, <2>5
<1> QED
  BY <1>1

(* Taking intervals out of the free windows takes them one at a time.      *)
LEMMA SubtractFold ==
  ASSUME NEW W \in SUBSET Span, NEW S, IsFiniteSet(S), Timed(S)
  PROVE  \E f \in [SUBSET S -> SUBSET Span] :
           /\ SubtractAll(W, S) = f[S] /\ f[{}] = W
           /\ \A T \in SUBSET S : T # {} => \E x \in T : f[T] = Subtract(f[T \ {x}], x)
<1> DEFINE V == SUBSET Span
           C == [T \in SUBSET S |-> CHOOSE x \in T : TRUE]
           F == [p \in S \X V |-> Subtract(p[2], p[1])]
           Step(f) == [T \in SUBSET S |->
                         IF T = {} THEN W
                         ELSE LET x == CHOOSE x \in T : TRUE IN Subtract(f[T \ {x}], x)]
           iter == CHOOSE f : f = Step(f)
<1>1. \A T \in SUBSET S : T # {} => C[T] \in T
  OBVIOUS
<1>2. F \in [S \X V -> V]
  <2>1. \A p \in S \X V : Subtract(p[2], p[1]) \in V
    BY SubtractLeaves DEF Timed
  <2> HIDE DEF V
  <2> QED
    BY <2>1
<1>3. PICK f \in [SUBSET S -> V] : IsFold(f, S, W, C, F)
  <2>1. W \in V
    OBVIOUS
  <2> HIDE DEF C, F, V
  <2> QED
    BY <1>1, <1>2, <2>1, FoldHasResults, Zenon
<1> HIDE DEF V
<1>4. f = Step(f)
  <2>1. \A T \in SUBSET S : f[T] = Step(f)[T]
    <3> TAKE T \in SUBSET S
    <3>1. CASE T = {}
      BY <1>3, <3>1 DEF IsFold
    <3>2. CASE T # {}
      <4>1. C[T] \in S /\ T \ {C[T]} \in SUBSET S /\ C[T] = CHOOSE x \in T : TRUE
        BY <1>1, <3>2
      <4>2. F[<<C[T], f[T \ {C[T]}]>>] = Subtract(f[T \ {C[T]}], C[T])
        <5> HIDE DEF C
        <5>1. <<C[T], f[T \ {C[T]}]>> \in S \X V
          BY <4>1
        <5> QED
          BY <5>1
      <4>3. f[T] = F[<<C[T], f[T \ {C[T]}]>>]
        <5> HIDE DEF C, F
        <5> QED
          BY <1>3, <3>2 DEF IsFold
      <4> HIDE DEF F
      <4> QED
        BY <3>2, <4>1, <4>2, <4>3
    <3> QED
      BY <3>1, <3>2
  <2> HIDE DEF Step
  <2>2. f = [T \in SUBSET S |-> f[T]] /\ Step(f) = [T \in SUBSET S |-> Step(f)[T]]
    BY DEF Step
  <2> QED
    BY <2>1, <2>2
<1>5. iter = Step(iter)
  <2> HIDE DEF Step
  <2> QED
    BY <1>4
<1>6. SubtractAll(W, S) = iter[S]
  BY DEF SubtractAll, FoldSet, MapThenFoldSet
<1>7. \A T \in SUBSET S : iter[T] = Step(iter)[T]
  <2> HIDE DEF iter, Step
  <2> QED
    BY <1>5
<1> HIDE DEF iter
<1>8. \A T \in SUBSET S :
        iter[T] = IF T = {} THEN W
                  ELSE LET x == CHOOSE x \in T : TRUE IN Subtract(iter[T \ {x}], x)
  BY <1>7
<1> HIDE DEF Step
<1> DEFINE G == {T \in SUBSET S : iter[T] \in V}
<1>9. iter[{}] = W /\ {} \in G
  <2>1. iter[{}] = W
    BY <1>8, Zenon
  <2> QED
    BY <2>1 DEF V
<1>10. ASSUME NEW T \in SUBSET S, T # {}
       PROVE  \E x \in T : iter[T] = Subtract(iter[T \ {x}], x)
  BY <1>8, <1>10
<1>11. \A T \in SUBSET S : T # {} /\ (\A x \in T : T \ {x} \in G) => T \in G
  <2> SUFFICES ASSUME NEW T \in SUBSET S, T # {}, \A x \in T : T \ {x} \in G
               PROVE  iter[T] \in V
    OBVIOUS
  <2>1. PICK x \in T : iter[T] = Subtract(iter[T \ {x}], x)
    BY <1>10
  <2>2. iter[T \ {x}] \in SUBSET Span
    BY DEF V
  <2>3. x.start \in Int /\ x.end \in Int
    BY DEF Timed
  <2> QED
    <3>1. Subtract(iter[T \ {x}], x) \in SUBSET Span
      BY ONLY <2>2, <2>3, SubtractLeaves
    <3> QED
      BY <2>1, <3>1 DEF V
<1>12. \A T \in SUBSET S : T \in G
  <2> HIDE DEF G
  <2> QED
    BY <1>9, <1>11, UpToSet, Zenon
<1> DEFINE g == [T \in SUBSET S |-> iter[T]]
<1>13. g \in [SUBSET S -> SUBSET Span] /\ \A T \in SUBSET S : g[T] = iter[T]
  BY <1>12 DEF V
<1>14. SubtractAll(W, S) = g[S] /\ g[{}] = W
  BY <1>6, <1>9, <1>13
<1>15. ASSUME NEW T \in SUBSET S, T # {}
       PROVE  \E x \in T : g[T] = Subtract(g[T \ {x}], x)
  BY <1>10, <1>13, <1>15
<1> HIDE DEF g
<1> QED
  BY <1>13, <1>14, <1>15

(* What all of them leave lies in the windows there were, and off them all.*)
LEMMA SubtractAllLeaves ==
  ASSUME NEW W \in SUBSET Span, NEW S, IsFiniteSet(S), Timed(S)
  PROVE  /\ SubtractAll(W, S) \in SUBSET Span
         /\ \A u \in SubtractAll(W, S) :
              (\A b \in S : ~Overlaps(u, b)) /\ \E w \in W : Within(u, w)
<1>1. PICK f \in [SUBSET S -> SUBSET Span] :
           /\ SubtractAll(W, S) = f[S] /\ f[{}] = W
           /\ \A T \in SUBSET S : T # {} => \E x \in T : f[T] = Subtract(f[T \ {x}], x)
  BY SubtractFold
<1> DEFINE Fits(u, T) == (\A b \in T : ~Overlaps(u, b)) /\ \E w \in W : Within(u, w)
           G == {T \in SUBSET S : \A u \in f[T] : Fits(u, T)}
<1>2. {} \in G
  <2>1. \A u \in f[{}] : Fits(u, {})
    BY <1>1 DEF Within, Span
  <2> QED
    BY <2>1
<1>3. ASSUME NEW T \in SUBSET S, T # {}, \A x \in T : T \ {x} \in G PROVE T \in G
  <2>1. PICK x \in T : f[T] = Subtract(f[T \ {x}], x)
    BY <1>1, <1>3
  <2>2. T \ {x} \in SUBSET S /\ f[T \ {x}] \in SUBSET Span
    OBVIOUS
  <2>3. x.start \in Int /\ x.end \in Int
    BY DEF Timed
  <2>4. ASSUME NEW u \in f[T] PROVE Fits(u, T)
    <3>1. u \in Span /\ ~Overlaps(u, x)
      BY <2>1, <2>2, <2>3, SubtractLeaves
    <3>2. PICK v \in f[T \ {x}] : Within(u, v)
      BY <2>1, <2>2, <2>3, SubtractLeaves
    <3>3. v \in Span /\ Fits(v, T \ {x})
      BY <1>3, <2>2
    <3>4. PICK w \in W : Within(v, w)
      BY <3>3
    <3>5. Within(u, w)
      BY <3>1, <3>2, <3>3, <3>4 DEF Within, Span
    <3>6. ASSUME NEW b \in T PROVE ~Overlaps(u, b)
      <4>1. b # x => ~Overlaps(v, b)
        BY <3>3
      <4>2. b.start \in Int /\ b.end \in Int
        BY DEF Timed
      <4> QED
        BY <3>1, <3>2, <3>3, <4>1, <4>2 DEF Within, Overlaps, Span
    <3> QED
      BY <3>5, <3>6
  <2> HIDE DEF Fits
  <2> QED
    BY <2>4
<1>4. \A T \in SUBSET S : T # {} /\ (\A x \in T : T \ {x} \in G) => T \in G
  BY <1>3
<1>5. \A T \in SUBSET S : T \in G
  <2> HIDE DEF G
  <2> QED
    BY <1>2, <1>4, UpToSet, Zenon
<1>6. \A u \in f[S] : Fits(u, S)
  <2> HIDE DEF Fits
  <2> QED
    BY <1>5
<1> QED
  BY <1>1, <1>6

(* A time between two midnights is of the day between them.                *)
LEMMA DayOf ==
  ASSUME NEW d \in Int, NEW m \in Int, d * Day <= m, m < d * Day + Day
  PROVE  m \div Day = d /\ m % Day = m - d * Day
<1>1. Day \in Nat \ {0}
  BY SchedulerAssumption
<1> DEFINE q == m \div Day
<1>2. q \in Int /\ q * Day <= m /\ m < q * Day + Day /\ m % Day = m - q * Day
  BY <1>1, Division
<1> HIDE DEF q
<1>3. \A e \in Int : e >= 1 => e * Day >= Day
  BY <1>1
<1>4. q - d < 1
  <2>1. (q - d) * Day < Day /\ q - d \in Int
    BY <1>1, <1>2
  <2> QED
    BY <1>1, <1>3, <2>1
<1>5. d - q < 1
  <2>1. (d - q) * Day < Day /\ d - q \in Int
    BY <1>1, <1>2
  <2> QED
    BY <1>1, <1>3, <2>1
<1>6. q = d
  BY <1>2, <1>4, <1>5
<1> QED
  BY <1>2, <1>6 DEF q

(* The types of a problem.                                                 *)
LEMMA ProblemTyped ==
  ASSUME problem \in Problems
  PROVE  /\ problem.from \in Int /\ problem.to \in Int
         /\ problem.preferred \in Nat \ {0} /\ problem.maximum \in Nat \ {0}
         /\ Target \in Nat \ {0} /\ Target <= problem.maximum
         /\ IsFiniteSet(problem.tasks) /\ IsFiniteSet(problem.busy) /\ IsFiniteSet(problem.locked)
         /\ \A t \in problem.tasks : t.estimate \in Nat /\ t.deadline \in Int
         /\ \A t, u \in problem.tasks : t.name = u.name => t = u
         /\ Timed(problem.busy) /\ Timed(problem.locked)
         /\ \A b \in problem.busy \cup problem.locked : b.start < b.end
<1>1. /\ problem.preferred \in Nat \ {0} /\ problem.maximum \in Nat \ {0}
      /\ problem.preferred <= problem.maximum
  BY ProblemsAssumption
<1>2. Target \in Nat \ {0} /\ Target <= problem.maximum
  BY <1>1 DEF Target, Lesser
<1> QED
  BY <1>2, ProblemsAssumption DEF Timed

(* The windows searched lie between the start and the end of the schedule. *)
LEMMA WindowsFit ==
  ASSUME problem \in Problems
  PROVE  /\ Windows \in SUBSET Span
         /\ \A w \in Windows : problem.from <= w.start /\ w.end <= problem.to
<1> SUFFICES ASSUME NEW w \in Windows
             PROVE  w \in Span /\ problem.from <= w.start /\ w.end <= problem.to
  OBVIOUS
<1>1. PICK d \in DaysOf(problem.from, problem.to) :
        w = Window(Greater(problem.from, d * Day), Lesser(problem.to, (d + 1) * Day))
  BY DEF Windows, NonEmpty
<1>2. Day \in Nat /\ problem.from \in Int /\ problem.to \in Int /\ d \in Int
  BY SchedulerAssumption, ProblemTyped DEF DaysOf
<1>3. d * Day \in Int /\ (d + 1) * Day \in Int
  BY <1>2
<1> QED
  BY <1>1, <1>2, <1>3 DEF Window, Greater, Lesser, Span

(* Between the first and the last minute to study on a day.                *)
InHours(u) == \E d \in Int : d * Day + Earliest <= u.start /\ u.end <= d * Day + Latest

(* Clipped to the hours of study, each lies in the hours of one day.       *)
LEMMA ClippedFits ==
  ASSUME problem \in Problems
  PROVE  /\ Clipped \in SUBSET Span
         /\ \A u \in Clipped : InHours(u) /\ \E w \in Windows : Within(u, w)
<1> DEFINE inside(w, d) ==
             Window(Greater(w.start, d * Day + Earliest), Lesser(w.end, d * Day + Latest))
<1> SUFFICES ASSUME NEW u \in Clipped
             PROVE  u \in Span /\ InHours(u) /\ \E w \in Windows : Within(u, w)
  OBVIOUS
<1>1. PICK w \in Windows : \E d \in DaysOf(w.start, w.end) :
        u = Window(CeilToSlot(inside(w, d).start), FloorToSlot(inside(w, d).end))
  BY DEF Clipped, NonEmpty
<1>2. PICK d \in DaysOf(w.start, w.end) :
        u = Window(CeilToSlot(inside(w, d).start), FloorToSlot(inside(w, d).end))
  BY <1>1
<1>3. w \in Span /\ w.start \in Int /\ w.end \in Int /\ d \in Int
  BY WindowsFit DEF Span, DaysOf
<1>4. /\ Earliest \in Int /\ Latest \in Int /\ Day \in Int
      /\ d * Day + Earliest \in Int /\ d * Day + Latest \in Int
  BY <1>3, SchedulerAssumption
<1>5. /\ inside(w, d).start \in Int /\ inside(w, d).end \in Int
      /\ w.start <= inside(w, d).start /\ d * Day + Earliest <= inside(w, d).start
      /\ inside(w, d).end <= w.end /\ inside(w, d).end <= d * Day + Latest
  BY <1>3, <1>4 DEF Window, Greater, Lesser
<1> HIDE DEF inside
<1>6. /\ CeilToSlot(inside(w, d).start) \in Int
      /\ inside(w, d).start <= CeilToSlot(inside(w, d).start)
      /\ FloorToSlot(inside(w, d).end) \in Int
      /\ FloorToSlot(inside(w, d).end) <= inside(w, d).end
  BY <1>5, ToSlot
<1>7. /\ u.start \in Int /\ u.end \in Int /\ u \in Span
      /\ w.start <= u.start /\ d * Day + Earliest <= u.start
      /\ u.end <= w.end /\ u.end <= d * Day + Latest
  BY <1>2, <1>3, <1>4, <1>5, <1>6 DEF Window, Span
<1> QED
  BY <1>3, <1>7 DEF InHours, Within

(* The free time: the clipped windows without busy and locked intervals.   *)
FreeTime == SubtractAll(SubtractAll(Clipped, problem.busy), problem.locked)

(* What solve() places sessions in.                                        *)
FreeFits(u) ==
  /\ InHours(u) /\ \E w \in Windows : Within(u, w)
  /\ \A b \in problem.busy \cup problem.locked : ~Overlaps(u, b)

(* Free time is in the window, in the hours of a day, and free of the busy *)
(* and locked intervals.                                                   *)
LEMMA FreeTimeFits ==
  ASSUME problem \in Problems
  PROVE  FreeTime \in SUBSET Span /\ \A u \in FreeTime : FreeFits(u)
<1> DEFINE some == SubtractAll(Clipped, problem.busy)
<1>1. /\ Timed(problem.busy) /\ Timed(problem.locked)
      /\ IsFiniteSet(problem.busy) /\ IsFiniteSet(problem.locked)
  BY ProblemTyped
<1>2. /\ some \in SUBSET Span
      /\ \A u \in some :
           (\A b \in problem.busy : ~Overlaps(u, b)) /\ \E w \in Clipped : Within(u, w)
  BY <1>1, ClippedFits, SubtractAllLeaves
<1> HIDE DEF some
<1>3. /\ FreeTime \in SUBSET Span
      /\ \A u \in FreeTime :
           (\A b \in problem.locked : ~Overlaps(u, b)) /\ \E v \in some : Within(u, v)
  BY <1>1, <1>2, SubtractAllLeaves DEF FreeTime, some
<1>4. ASSUME NEW u \in FreeTime PROVE FreeFits(u)
  <2>1. PICK v \in some : Within(u, v)
    BY <1>3
  <2>2. PICK w \in Clipped : Within(v, w)
    BY <1>2
  <2>3. u \in Span /\ v \in Span /\ w \in Span
    BY <1>2, <1>3, ClippedFits
  <2>4. Within(u, w)
    BY <2>1, <2>2, <2>3 DEF Within, Span
  <2>5. InHours(u)
    <3>1. PICK d \in Int : d * Day + Earliest <= w.start /\ w.end <= d * Day + Latest
      BY ClippedFits DEF InHours
    <3>2. d * Day + Earliest \in Int /\ d * Day + Latest \in Int
      BY SchedulerAssumption
    <3> QED
      BY <2>3, <2>4, <3>1, <3>2 DEF Within, Span, InHours
  <2>6. \E x \in Windows : Within(u, x)
    <3>1. PICK x \in Windows : Within(w, x)
      BY ClippedFits
    <3>2. x \in Span
      BY WindowsFit
    <3> QED
      BY <2>3, <2>4, <3>1, <3>2 DEF Within, Span
  <2>7. \A b \in problem.busy : ~Overlaps(u, b)
    <3> TAKE b \in problem.busy
    <3>1. ~Overlaps(v, b) /\ b.start \in Int /\ b.end \in Int
      BY <1>1, <1>2 DEF Timed
    <3> QED
      BY <2>1, <2>3, <3>1 DEF Within, Span, Overlaps
  <2> QED
    BY <1>3, <2>5, <2>6, <2>7 DEF FreeFits
<1> QED
  BY <1>3, <1>4

(* The sum of the pieces a task is split into.                             *)
SumOf(pieces) == FoldLeft(LAMBDA a, b : a + b, 0, pieces)

(* f[k] is the sum of the first k pieces.                                  *)
AreSums(f, pieces, n) == f[0] = 0 /\ \A k \in 1..n : f[k] = f[k - 1] + pieces[k]

(* The sums of the pieces up to each of them.                              *)
LEMMA SumOfPieces ==
  ASSUME NEW n \in Nat, NEW pieces, DOMAIN pieces = 1..n, \A k \in 1..n : pieces[k] \in Int
  PROVE  \E f \in [0..n -> Int] :
           SumOf(pieces) = f[n] /\ AreSums(f, pieces, n)
<1> DEFINE S == 1..n
           C == [T \in SUBSET S |-> Max(T)]
           F == [p \in S \X Int |-> p[2] + pieces[p[1]]]
           Step(f) == [T \in SUBSET S |->
                         IF T = {} THEN 0
                         ELSE LET x == Max(T) IN f[T \ {x}] + pieces[x]]
           iter == CHOOSE f : f = Step(f)
<1>1. \A T \in SUBSET S : T # {} => C[T] \in T
  BY GreatestNumber
<1>2. F \in [S \X Int -> Int]
  OBVIOUS
<1>3. PICK f \in [SUBSET S -> Int] : IsFold(f, S, 0, C, F)
  <2>1. 0 \in Int /\ IsFiniteSet(S)
    BY FS_Interval
  <2> HIDE DEF C, F, S
  <2> QED
    BY <1>1, <1>2, <2>1, FoldHasResults, Zenon
<1>4. f = Step(f)
  <2> HIDE DEF S
  <2>1. \A T \in SUBSET S : f[T] = Step(f)[T]
    <3> TAKE T \in SUBSET S
    <3>1. CASE T = {}
      BY <1>3, <3>1 DEF IsFold
    <3>2. CASE T # {}
      <4>1. C[T] \in S /\ T \ {C[T]} \in SUBSET S /\ C[T] = Max(T)
        BY <1>1, <3>2
      <4>2. F[<<C[T], f[T \ {C[T]}]>>] = f[T \ {C[T]}] + pieces[C[T]]
        <5> HIDE DEF C
        <5>1. <<C[T], f[T \ {C[T]}]>> \in S \X Int
          BY <4>1
        <5> QED
          BY <5>1
      <4>3. f[T] = F[<<C[T], f[T \ {C[T]}]>>]
        <5> HIDE DEF C, F
        <5> QED
          BY <1>3, <3>2 DEF IsFold
      <4> HIDE DEF F
      <4> QED
        BY <3>2, <4>1, <4>2, <4>3
    <3> QED
      BY <3>1, <3>2
  <2> HIDE DEF Step
  <2>2. f = [T \in SUBSET S |-> f[T]] /\ Step(f) = [T \in SUBSET S |-> Step(f)[T]]
    BY DEF Step
  <2> QED
    BY <2>1, <2>2
<1>5. iter = Step(iter)
  <2> HIDE DEF Step
  <2> QED
    BY <1>4
<1>6. SumOf(pieces) = iter[S]
  BY DEF SumOf, FoldLeft, MapThenFoldSet
<1>7. \A T \in SUBSET S : iter[T] = Step(iter)[T]
  <2> HIDE DEF iter, Step, S
  <2> QED
    BY <1>5
<1> HIDE DEF iter
<1>8. \A T \in SUBSET S :
        iter[T] = IF T = {} THEN 0 ELSE iter[T \ {Max(T)}] + pieces[Max(T)]
  BY <1>7
<1> HIDE DEF Step
<1> DEFINE g == [k \in 0..n |-> iter[1..k]]
<1>9. \A k \in 0..n : 1..k \in SUBSET S /\ g[k] = iter[1..k]
  OBVIOUS
<1>10. g[0] = 0
  <2>1. 1..0 = {} /\ 1..0 \in SUBSET S /\ g[0] = iter[1..0]
    BY <1>9
  <2> HIDE DEF g, S
  <2> QED
    BY <1>8, <2>1
<1>11. ASSUME NEW k \in 1..n PROVE g[k] = g[k - 1] + pieces[k]
  <2>1. 1..k \in SUBSET S /\ 1..k # {}
    OBVIOUS
  <2>2. k \in 0..n /\ k - 1 \in 0..n
    OBVIOUS
  <2>3. g[k] = iter[1..k] /\ g[k - 1] = iter[1..(k - 1)]
    BY <1>9, <2>2
  <2>4. Max(1..k) = k
    <3>1. k \in 1..k /\ k \in Nat /\ 1..k \in SUBSET (1..k)
      OBVIOUS
    <3>2. Max(1..k) \in 1..k /\ k <= Max(1..k)
      BY <2>1, <3>1, GreatestNumber
    <3> QED
      BY <3>1, <3>2
  <2>5. (1..k) \ {k} = 1..(k - 1)
    OBVIOUS
  <2> HIDE DEF g, S
  <2> QED
    BY <1>8, <2>1, <2>3, <2>4, <2>5
<1>12. g \in [0..n -> Int]
  <2> DEFINE G == {k \in 0..n : g[k] \in Int}
  <2>1. 0 \in G
    BY <1>10
  <2>2. ASSUME NEW k \in 0..(n - 1), k \in G PROVE k + 1 \in G
    <3>1. k + 1 \in 1..n /\ (k + 1) - 1 = k /\ k + 1 \in 0..n
      OBVIOUS
    <3>2. g[k + 1] = g[k] + pieces[k + 1]
      BY <1>11, <3>1
    <3> HIDE DEF g
    <3> QED
      BY <2>2, <3>1, <3>2
  <2>3. \A k \in 0..n : k \in G
    <3> HIDE DEF G
    <3> QED
      BY <2>1, <2>2, UpToNumber
  <2> QED
    BY <2>3
<1>13. SumOf(pieces) = g[n]
  <2>1. n \in 0..n /\ S = 1..n
    OBVIOUS
  <2> HIDE DEF S
  <2>2. g[n] = iter[S]
    BY <1>9, <2>1
  <2> HIDE DEF g
  <2> QED
    BY <1>6, <2>2, Zenon
<1> HIDE DEF g
<1> QED
  BY <1>10, <1>11, <1>12, <1>13 DEF AreSums

(* All chunks but the last are as long as they should be.                  *)
LEMMA ChunksFit ==
  ASSUME problem \in Problems, NEW total \in Nat \ {0}
  PROVE  \E full \in Nat, last \in 1..Target :
           /\ total = full * Target + last
           /\ Chunks(total) = [k \in 1..full + 1 |-> IF k <= full THEN Target ELSE last]
           /\ Len(Chunks(total)) = full + 1
<1> DEFINE full == (total - 1) \div Target
           last == total - full * Target
<1>1. Target \in Nat \ {0}
  BY ProblemTyped
<1>2. full \in Nat /\ full * Target <= total - 1 /\ total - 1 < full * Target + Target
  <2>1. total - 1 \in Int /\ total - 1 \in Nat
    OBVIOUS
  <2> QED
    BY <1>1, <2>1, Division
<1>3. Chunks(total) = [k \in 1..full + 1 |-> IF k <= full THEN Target ELSE last]
  BY DEF Chunks
<1> HIDE DEF full
<1>4. full * Target \in Int
  BY <1>1, <1>2
<1>5. last \in 1..Target /\ total = full * Target + last
  BY <1>1, <1>2, <1>4
<1> HIDE DEF last
<1>6. Chunks(total) \in Seq(Int) /\ Len(Chunks(total)) = full + 1
  BY <1>1, <1>2, <1>3, <1>5
<1> QED
  BY <1>2, <1>3, <1>5, <1>6

(* How the pieces of some work can look.                                   *)
SplitInto(pieces, n, total) ==
  /\ n \in Nat /\ DOMAIN pieces = 1..n /\ \A k \in 1..n : pieces[k] \in Int
  /\ SumOf(pieces) = total
  /\ Target >= Slot => \A k \in 1..n : pieces[k] \in 1..problem.maximum
  /\ Target >= 2 * Slot - 1 => \A k \in 1..n : pieces[k] >= Lesser(Slot, total)

(* Pieces of one length add up to a multiple of it.                        *)
LEMMA EqualPieces ==
  ASSUME NEW j \in Nat, NEW length \in Int, NEW n \in Nat, j <= n,
         NEW pieces, NEW f \in [0..n -> Int], AreSums(f, pieces, n),
         \A k \in 1..j : pieces[k] = length
  PROVE  f[j] = j * length
<1> DEFINE G == {k \in 0..j : f[k] = k * length}
<1>1. 0 \in G
  BY DEF AreSums
<1>2. ASSUME NEW k \in 0..(j - 1), k \in G PROVE k + 1 \in G
  <2>1. k + 1 \in 1..j /\ k + 1 \in 1..n /\ (k + 1) - 1 = k /\ k \in Int
    OBVIOUS
  <2>2. f[k + 1] = k * length + length
    BY <1>2, <2>1 DEF AreSums
  <2>3. (k + 1) * length = k * length + length
    BY <2>1
  <2> QED
    BY <2>1, <2>2, <2>3
<1>3. \A k \in 0..j : k \in G
  <2> HIDE DEF G
  <2> QED
    BY <1>1, <1>2, UpToNumber
<1> QED
  BY <1>3

(* _fragments() splits every total into pieces of legal length that add up *)
(* to it.                                                                  *)
LEMMA FragmentsFit ==
  ASSUME problem \in Problems, NEW total \in Nat
  PROVE  \E n \in Nat : SplitInto(Fragments(total), n, total)
<1>1. /\ Target \in Nat \ {0} /\ Slot \in Nat \ {0} /\ problem.maximum \in Nat
      /\ Target <= problem.maximum
  BY ProblemTyped, SchedulerAssumption
<1>2. CASE total = 0
  <2>1. Fragments(total) = <<>> /\ DOMAIN Fragments(total) = 1..0
    BY <1>2 DEF Fragments
  <2>2. PICK f \in [0..0 -> Int] : SumOf(Fragments(total)) = f[0] /\ AreSums(f, Fragments(total), 0)
    <3>1. 0 \in Nat /\ \A k \in 1..0 : Fragments(total)[k] \in Int
      OBVIOUS
    <3> QED
      BY <2>1, <3>1, SumOfPieces, Zenon
  <2> QED
    BY <1>2, <2>1, <2>2 DEF SplitInto, AreSums
<1>3. CASE total # 0
  <2>1. PICK full \in Nat, last \in 1..Target :
           /\ total = full * Target + last
           /\ Chunks(total) = [k \in 1..full + 1 |-> IF k <= full THEN Target ELSE last]
           /\ Len(Chunks(total)) = full + 1
    BY <1>3, ChunksFit
  <2> DEFINE chunks == Chunks(total)
             n == full + 1
             pieces == Fragments(total)
  <2>2. /\ n \in Nat /\ full = n - 1
        /\ \A k \in 1..full : chunks[k] = Target
        /\ chunks[n] = last /\ DOMAIN chunks = 1..n /\ Len(chunks) = n
        /\ n \in 1..n /\ \A k \in 1..n : k \in 1..full \/ k = n
        /\ \A k \in 1..full : k \in 1..n
    BY <1>1, <2>1
  <2>3. pieces =
          IF n < 2 \/ chunks[n] >= Slot THEN chunks
          ELSE IF chunks[n - 1] + chunks[n] <= problem.maximum
               THEN [k \in 1..n - 1 |-> IF k = n - 1 THEN chunks[k] + chunks[n] ELSE chunks[k]]
          ELSE Borrow(chunks, n)
    BY <1>3, <2>2 DEF Fragments
  <2>4. /\ full * Target \in Int /\ (full = 0 => full * Target = 0)
        /\ full # 0 => (full - 1) * Target = full * Target - Target
    BY <1>1, <2>1
  <2> HIDE DEF n, chunks, pieces
  <2>5. CASE n < 2 \/ last >= Slot
    <3>1. pieces = chunks
      BY <2>2, <2>3, <2>5
    <3>2. PICK f \in [0..n -> Int] : SumOf(pieces) = f[n] /\ AreSums(f, pieces, n)
      <4>1. \A k \in 1..n : pieces[k] \in Int
        BY <1>1, <2>2, <3>1
      <4> QED
        BY <2>2, <3>1, <4>1, SumOfPieces, Zenon
    <3>3. f[full] = full * Target
      <4>1. full \in Nat /\ n \in Nat /\ full <= n /\ Target \in Int
        BY <1>1, <2>2
      <4>2. \A k \in 1..full : pieces[k] = Target
        BY <2>2, <3>1
      <4> QED
        BY ONLY <3>2, <4>1, <4>2, EqualPieces
    <3>4. f[n] = total
      <4>1. f[n] = f[full] + last /\ f[full] \in Int
        BY <2>2, <3>1, <3>2 DEF AreSums
      <4> QED
        BY <2>1, <3>2, <3>3, <4>1
    <3>5. \A k \in 1..n : pieces[k] = Target \/ (k = n /\ pieces[k] = last)
      BY <2>2, <3>1
    <3>6. Target >= 2 * Slot - 1 => \A k \in 1..n : pieces[k] >= Lesser(Slot, total)
      <4>1. last >= Slot \/ last = total
        BY <2>1, <2>2, <2>4, <2>5
      <4> QED
        BY <1>1, <3>5, <4>1 DEF Lesser
    <3>7. \A k \in 1..n : pieces[k] \in 1..problem.maximum
      BY <1>1, <3>5
    <3> QED
      BY <2>2, <3>1, <3>2, <3>4, <3>6, <3>7 DEF SplitInto, pieces
  <2>6. CASE ~(n < 2 \/ last >= Slot) /\ Target + last <= problem.maximum
    <3>1. n - 1 = full /\ full \in 1..full /\ full \in Nat /\ full # 0
      BY <2>2, <2>6
    <3>2. pieces = [k \in 1..full |-> IF k = full THEN Target + last ELSE Target]
      BY <2>2, <2>3, <2>6, <3>1
    <3>3. /\ DOMAIN pieces = 1..full /\ pieces[full] = Target + last
          /\ \A k \in 1..(full - 1) : pieces[k] = Target
      BY <3>1, <3>2
    <3>4. \A k \in 1..full : pieces[k] \in {Target, Target + last}
      BY <3>2
    <3>5. PICK f \in [0..full -> Int] : SumOf(pieces) = f[full] /\ AreSums(f, pieces, full)
      <4>1. \A k \in 1..full : pieces[k] \in Int
        BY <1>1, <3>4
      <4> QED
        BY <3>1, <3>3, <4>1, SumOfPieces, Zenon
    <3>6. f[full - 1] = (full - 1) * Target
      <4>1. full - 1 \in Nat /\ full \in Nat /\ full - 1 <= full /\ Target \in Int
        BY <1>1, <3>1
      <4> QED
        BY ONLY <3>3, <3>5, <4>1, EqualPieces
    <3>7. f[full] = total
      <4>1. f[full] = f[full - 1] + (Target + last)
        BY <3>1, <3>3, <3>5 DEF AreSums
      <4> QED
        BY <1>1, <2>1, <2>4, <3>1, <3>6, <4>1
    <3>8. Target >= 2 * Slot - 1 => \A k \in 1..full : pieces[k] >= Lesser(Slot, total)
      BY <1>1, <3>4 DEF Lesser
    <3>9. \A k \in 1..full : pieces[k] \in 1..problem.maximum
      BY <1>1, <2>6, <3>4
    <3> QED
      BY <1>1, <3>1, <3>3, <3>4, <3>5, <3>7, <3>8, <3>9 DEF SplitInto, pieces
  <2>7. CASE ~(n < 2 \/ last >= Slot) /\ ~(Target + last <= problem.maximum)
    <3>1. n - 1 = full /\ full \in 1..full /\ full \in Nat /\ full # 0
      BY <2>2, <2>7
    <3>2. pieces = Borrow(chunks, n)
      BY <2>2, <2>3, <2>7, <3>1
    <3> DEFINE short == Target - (Slot - last)
    <3>3. /\ DOMAIN pieces = 1..n /\ pieces[n] = Slot /\ pieces[full] = short
          /\ \A k \in 1..(full - 1) : pieces[k] = Target
      BY <2>2, <3>1, <3>2 DEF Borrow
    <3>4. \A k \in 1..n : pieces[k] \in {Target, short, Slot}
      <4>1. \A k \in 1..n : k \in 1..(full - 1) \/ k = full \/ k = n
        BY <2>2, <3>1
      <4> QED
        BY <3>3, <4>1
    <3>5. PICK f \in [0..n -> Int] : SumOf(pieces) = f[n] /\ AreSums(f, pieces, n)
      <4>1. \A k \in 1..n : pieces[k] \in Int
        BY <1>1, <3>4
      <4> QED
        BY <2>2, <3>3, <4>1, SumOfPieces, Zenon
    <3>6. f[full - 1] = (full - 1) * Target
      <4>1. full - 1 \in Nat /\ n \in Nat /\ full - 1 <= n /\ Target \in Int
        BY <1>1, <2>2, <3>1
      <4> QED
        BY ONLY <3>3, <3>5, <4>1, EqualPieces
    <3>7. f[n] = total
      <4>1. f[full] = f[full - 1] + short /\ f[n] = f[full] + Slot
        BY <2>2, <3>1, <3>3, <3>5 DEF AreSums
      <4> QED
        BY <1>1, <2>1, <2>4, <3>1, <3>6, <4>1
    <3>8. Target >= 2 * Slot - 1 => \A k \in 1..n : pieces[k] >= Lesser(Slot, total)
      BY <1>1, <2>1, <3>4 DEF Lesser
    <3>9. Target >= Slot => \A k \in 1..n : pieces[k] \in 1..problem.maximum
      <4> SUFFICES ASSUME Target >= Slot PROVE \A k \in 1..n : pieces[k] \in 1..problem.maximum
        OBVIOUS
      <4>1. /\ Target \in 1..problem.maximum /\ Slot \in 1..problem.maximum
            /\ last < Slot
        BY <1>1, <2>1, <2>7
      <4>2. short \in 1..problem.maximum
        BY <1>1, <2>1, <4>1
      <4> HIDE DEF short
      <4> QED
        BY <3>4, <4>1, <4>2
    <3> QED
      BY <1>1, <2>2, <3>3, <3>4, <3>5, <3>7, <3>8, <3>9 DEF SplitInto, pieces
  <2> QED
    BY <2>5, <2>6, <2>7
<1> QED
  BY <1>2, <1>3

(* The work of a task is what the locked sessions leave of it.             *)
LEMMA RequirementIs ==
  ASSUME problem \in Problems, NEW t \in problem.tasks
  PROVE  /\ Minutes(LockedOf(t)) \in Int /\ t.estimate \in Nat
         /\ Requirement(t) \in Nat
         /\ Requirement(t) = IF t.estimate - Minutes(LockedOf(t)) > 0
                             THEN t.estimate - Minutes(LockedOf(t)) ELSE 0
         /\ problem.locked = {} => Requirement(t) = t.estimate
<1>1. /\ LockedOf(t) \subseteq problem.locked /\ IsFiniteSet(problem.locked)
      /\ Timed(problem.locked) /\ t.estimate \in Nat
  BY ProblemTyped DEF LockedOf
<1>2. IsFiniteSet(LockedOf(t)) /\ Timed(LockedOf(t))
  BY <1>1, FS_Subset DEF Timed
<1>3. Minutes(LockedOf(t)) \in Int /\ (LockedOf(t) = {} => Minutes(LockedOf(t)) = 0)
  BY <1>2, MinutesOf
<1> QED
  BY <1>1, <1>3 DEF Requirement, Greater

(* The work is split without loss into pieces of allowed lengths.          *)
LEMMA WorkSplits ==
  ASSUME problem \in Problems
  PROVE  WorkIsSplit
<1> SUFFICES ASSUME NEW t \in problem.tasks
             PROVE  LET pieces == Fragments(Requirement(t))
                        lengths == {pieces[k] : k \in DOMAIN pieces}
                    IN  /\ FoldLeft(LAMBDA a, b : a + b, 0, pieces) = Requirement(t)
                        /\ Target >= Slot => lengths \subseteq 1..problem.maximum
                        /\ Target >= 2 * Slot - 1 =>
                             \A l \in lengths : l >= Lesser(Slot, Requirement(t))
  BY DEF WorkIsSplit
<1> DEFINE pieces == Fragments(Requirement(t))
<1>1. Requirement(t) \in Nat
  BY RequirementIs
<1>2. PICK n \in Nat : SplitInto(pieces, n, Requirement(t))
  BY <1>1, FragmentsFit
<1>3. FoldLeft(LAMBDA a, b : a + b, 0, pieces) = Requirement(t)
  BY <1>2 DEF SplitInto, SumOf
<1> HIDE DEF pieces
<1>4. /\ Target >= Slot => \A k \in DOMAIN pieces : pieces[k] \in 1..problem.maximum
      /\ Target >= 2 * Slot - 1 =>
            \A k \in DOMAIN pieces : pieces[k] >= Lesser(Slot, Requirement(t))
  BY <1>2 DEF SplitInto
<1> QED
  BY <1>3, <1>4 DEF pieces

(* Where a session can be.                                                 *)
PlaceFits(c) ==
  /\ DOMAIN c = {"task", "fragment", "start", "end"}
  /\ c.start \in Int /\ c.end \in Int
  /\ problem.from <= c.start
  /\ \E t \in problem.tasks : t.name = c.task /\ c.end <= t.deadline
  /\ \E u \in Span : FreeFits(u) /\ Within(c, u)
  /\ Target >= Slot => c.end - c.start <= problem.maximum

(* Every place offered to a fragment, at any stride, is legal.             *)
LEMMA PlacesFit ==
  ASSUME problem \in Problems, free = FreeTime, NEW stride, NEW c \in CandidateSlots(stride)
  PROVE  PlaceFits(c)
<1>1. PICK t \in problem.tasks :
        \E k \in DOMAIN Fragments(Requirement(t)), w \in free : c \in Places(t, k, w, stride)
  BY DEF CandidateSlots
<1>2. PICK k \in DOMAIN Fragments(Requirement(t)), w \in free : c \in Places(t, k, w, stride)
  BY <1>1
<1> DEFINE length == Fragments(Requirement(t))[k]
           first == CeilToSlot(Greater(w.start, problem.from))
           last == Lesser(w.end, t.deadline) - length
<1>3. PICK s \in first..last :
        c = [task |-> t.name, fragment |-> k, start |-> s, end |-> s + length]
  BY <1>2 DEF Places
<1>4. length \in Int /\ (Target >= Slot => length <= problem.maximum)
  <2>1. PICK n \in Nat : SplitInto(Fragments(Requirement(t)), n, Requirement(t))
    BY RequirementIs, FragmentsFit
  <2>2. k \in 1..n /\ problem.maximum \in Nat
    BY <2>1, ProblemTyped DEF SplitInto
  <2> QED
    BY <2>1, <2>2 DEF SplitInto
<1>5. w \in Span /\ FreeFits(w)
  BY FreeTimeFits
<1>6. w.start \in Int /\ w.end \in Int /\ problem.from \in Int /\ t.deadline \in Int
  BY <1>5, ProblemTyped DEF Span
<1>7. first \in Int /\ w.start <= first /\ problem.from <= first
  <2>1. /\ Greater(w.start, problem.from) \in Int
        /\ w.start <= Greater(w.start, problem.from)
        /\ problem.from <= Greater(w.start, problem.from)
    BY <1>6 DEF Greater
  <2>2. /\ CeilToSlot(Greater(w.start, problem.from)) \in Int
        /\ Greater(w.start, problem.from) <= CeilToSlot(Greater(w.start, problem.from))
    BY <2>1, ToSlot
  <2> QED
    BY <1>6, <2>1, <2>2
<1> HIDE DEF length, first
<1>8. last \in Int /\ last + length <= w.end /\ last + length <= t.deadline
  BY <1>4, <1>6 DEF Lesser
<1> HIDE DEF last
<1>9. s \in Int /\ first <= s /\ s <= last
  BY <1>3, <1>7, <1>8
<1>10. /\ c.task = t.name /\ c.start = s /\ c.end = s + length
       /\ c.start \in Int /\ c.end \in Int
       /\ DOMAIN c = {"task", "fragment", "start", "end"}
  BY <1>3, <1>4, <1>9
<1>11. /\ w.start <= c.start /\ problem.from <= c.start
       /\ c.end <= w.end /\ c.end <= t.deadline /\ c.end - c.start = length
  BY <1>4, <1>6, <1>7, <1>8, <1>9, <1>10
<1> QED
  BY <1>4, <1>5, <1>10, <1>11 DEF PlaceFits, Within

(* So is every candidate, whichever stride was used.                       *)
LEMMA OfferedFit ==
  ASSUME problem \in Problems, free = FreeTime, NEW c \in Offered
  PROVE  PlaceFits(c)
<1>1. \E stride : c \in CandidateSlots(stride)
  BY DEF Offered
<1> QED
  BY <1>1, PlacesFit

--------------------------------------------------------------------------------
(* What the solver chooses from is finite, so that minutes can be added    *)
(* up: there are finitely many days,                                       *)
LEMMA DaysAreFinite ==
  ASSUME NEW a \in Int, NEW b \in Int
  PROVE  IsFiniteSet(DaysOf(a, b))
<1>1. Day \in Nat \ {0}
  BY SchedulerAssumption
<1>2. a \div Day \in Int /\ b \div Day \in Int
  BY <1>1, Division
<1> QED
  BY <1>2, FS_Interval DEF DaysOf

(* windows that are not empty,                                             *)
LEMMA NonEmptyIsFinite ==
  ASSUME NEW W, IsFiniteSet(W)
  PROVE  IsFiniteSet(NonEmpty(W))
  BY FS_Subset DEF NonEmpty

(* windows to search,                                                      *)
LEMMA WindowsAreFinite ==
  ASSUME problem \in Problems
  PROVE  IsFiniteSet(Windows)
<1> DEFINE days == DaysOf(problem.from, problem.to)
           f == [d \in days |->
                   Window(Greater(problem.from, d * Day), Lesser(problem.to, (d + 1) * Day))]
           all == {f[d] : d \in days}
<1>1. IsFiniteSet(days)
  BY ProblemTyped, DaysAreFinite
<1>2. IsFiniteSet(all)
  <2> HIDE DEF f, days
  <2> QED
    BY <1>1, ImageIsFinite
<1>3. Windows = NonEmpty(all)
  BY DEF Windows
<1> HIDE DEF all
<1> QED
  BY <1>2, <1>3, NonEmptyIsFinite

(* clipped windows,                                                        *)
LEMMA ClippedIsFinite ==
  ASSUME problem \in Problems
  PROVE  IsFiniteSet(Clipped)
<1> DEFINE inside(w, d) ==
             Window(Greater(w.start, d * Day + Earliest), Lesser(w.end, d * Day + Latest))
           of == [w \in Windows |-> {inside(w, d) : d \in DaysOf(w.start, w.end)}]
           all == UNION {of[w] : w \in Windows}
           parts == NonEmpty(all)
           rounded == [p \in parts |-> Window(CeilToSlot(p.start), FloorToSlot(p.end))]
           grid == {rounded[p] : p \in parts}
<1>1. IsFiniteSet(Windows)
  BY WindowsAreFinite
<1>2. ASSUME NEW w \in Windows PROVE IsFiniteSet(of[w])
  <2> DEFINE days == DaysOf(w.start, w.end)
             f == [d \in days |-> inside(w, d)]
  <2>1. w.start \in Int /\ w.end \in Int
    BY WindowsFit DEF Span
  <2>2. IsFiniteSet(days)
    BY <2>1, DaysAreFinite
  <2>3. IsFiniteSet({f[d] : d \in days})
    <3> HIDE DEF f, days
    <3> QED
      BY <2>2, ImageIsFinite
  <2>4. of[w] = {f[d] : d \in days}
    OBVIOUS
  <2> QED
    BY <2>3, <2>4
<1>3. IsFiniteSet(all)
  <2> HIDE DEF of
  <2> QED
    BY <1>1, <1>2, UnionIsFinite
<1>4. IsFiniteSet(parts)
  <2> HIDE DEF all
  <2> QED
    BY <1>3, NonEmptyIsFinite
<1>5. IsFiniteSet(grid)
  <2> HIDE DEF parts, rounded
  <2> QED
    BY <1>4, ImageIsFinite
<1>6. Clipped = NonEmpty(grid)
  <2>1. all = UNION {{inside(w, d) : d \in DaysOf(w.start, w.end)} : w \in Windows}
    <3>1. {of[w] : w \in Windows} = {{inside(w, d) : d \in DaysOf(w.start, w.end)} : w \in Windows}
      <4> HIDE DEF inside
      <4> QED
        OBVIOUS
    <3> HIDE DEF of, inside
    <3> QED
      BY <3>1, Zenon
  <2>2. grid = {Window(CeilToSlot(p.start), FloorToSlot(p.end)) : p \in parts}
    <3> HIDE DEF parts
    <3> QED
      BY Zenon
  <2> HIDE DEF all, grid
  <2> QED
    BY <2>1, <2>2 DEF Clipped
<1> HIDE DEF grid
<1> QED
  BY <1>5, <1>6, NonEmptyIsFinite

(* windows left by one interval,                                           *)
LEMMA SubtractIsFinite ==
  ASSUME NEW W, IsFiniteSet(W), NEW b
  PROVE  IsFiniteSet(Subtract(W, b))
<1> DEFINE f == [w \in W |-> IF Overlaps(w, b) THEN {Before(w, b), After(w, b)} ELSE {w}]
           all == UNION {f[w] : w \in W}
<1>1. \A w \in W : IsFiniteSet(f[w])
  <2> TAKE w \in W
  <2>1. IsFiniteSet({w}) /\ IsFiniteSet({Before(w, b)} \cup {After(w, b)})
    BY FS_Singleton, FS_Union
  <2>2. {Before(w, b)} \cup {After(w, b)} = {Before(w, b), After(w, b)}
    OBVIOUS
  <2> QED
    BY <2>1, <2>2
<1>2. IsFiniteSet(all)
  <2> HIDE DEF f
  <2> QED
    BY <1>1, UnionIsFinite
<1>3. Subtract(W, b) = NonEmpty(all)
  BY Zenon DEF Subtract
<1> HIDE DEF all
<1> QED
  BY <1>2, <1>3, NonEmptyIsFinite

(* windows left by all of them,                                            *)
LEMMA SubtractAllIsFinite ==
  ASSUME NEW W \in SUBSET Span, IsFiniteSet(W), NEW S, IsFiniteSet(S), Timed(S)
  PROVE  IsFiniteSet(SubtractAll(W, S))
<1>1. PICK f \in [SUBSET S -> SUBSET Span] :
           /\ SubtractAll(W, S) = f[S] /\ f[{}] = W
           /\ \A T \in SUBSET S : T # {} => \E x \in T : f[T] = Subtract(f[T \ {x}], x)
  BY SubtractFold
<1> DEFINE G == {T \in SUBSET S : IsFiniteSet(f[T])}
<1>2. {} \in G
  BY <1>1
<1>3. ASSUME NEW T \in SUBSET S, T # {}, \A x \in T : T \ {x} \in G PROVE T \in G
  <2>1. PICK x \in T : f[T] = Subtract(f[T \ {x}], x)
    BY <1>1, <1>3
  <2>2. IsFiniteSet(f[T \ {x}])
    BY <1>3
  <2> QED
    BY <2>1, <2>2, SubtractIsFinite
<1>4. \A T \in SUBSET S : T # {} /\ (\A x \in T : T \ {x} \in G) => T \in G
  BY <1>3
<1>5. \A T \in SUBSET S : T \in G
  <2> HIDE DEF G
  <2> QED
    BY <1>2, <1>4, UpToSet, Zenon
<1> QED
  BY <1>1, <1>5

(* and candidates.                                                         *)
LEMMA OfferedIsFinite ==
  ASSUME problem \in Problems, free = FreeTime
  PROVE  IsFiniteSet(Offered)
<1>1. IsFiniteSet(free)
  <2> DEFINE some == SubtractAll(Clipped, problem.busy)
  <2>1. /\ Timed(problem.busy) /\ Timed(problem.locked)
        /\ IsFiniteSet(problem.busy) /\ IsFiniteSet(problem.locked)
    BY ProblemTyped
  <2>2. some \in SUBSET Span /\ IsFiniteSet(some)
    BY <2>1, ClippedFits, ClippedIsFinite, SubtractAllLeaves, SubtractAllIsFinite
  <2> HIDE DEF some
  <2> QED
    BY <2>1, <2>2, SubtractAllIsFinite DEF FreeTime, some
<1>2. ASSUME NEW stride PROVE IsFiniteSet(CandidateSlots(stride))
  <2> DEFINE both(t) == (DOMAIN Fragments(Requirement(t))) \X free
             f(t) == [p \in both(t) |-> Places(t, p[1], p[2], stride)]
             h == [t \in problem.tasks |-> UNION {f(t)[p] : p \in both(t)}]
             all == UNION {h[t] : t \in problem.tasks}
  <2>1. ASSUME NEW t \in problem.tasks PROVE IsFiniteSet(h[t])
    <3> DEFINE pieces == Fragments(Requirement(t))
    <3>1. PICK n \in Nat : SplitInto(pieces, n, Requirement(t))
      BY RequirementIs, FragmentsFit
    <3>2. DOMAIN pieces = 1..n /\ \A k \in DOMAIN pieces : pieces[k] \in Int
      BY <3>1 DEF SplitInto
    <3>3. IsFiniteSet(DOMAIN pieces)
      <4>1. IsFiniteSet(1..n)
        BY FS_Interval
      <4> HIDE DEF pieces
      <4> QED
        BY <3>2, <4>1
    <3>4. IsFiniteSet(both(t))
      BY <1>1, <3>3, FS_Product
    <3>5. ASSUME NEW k \in DOMAIN pieces, NEW w \in free PROVE IsFiniteSet(Places(t, k, w, stride))
      <4> DEFINE first == CeilToSlot(Greater(w.start, problem.from))
                 last == Lesser(w.end, t.deadline) - pieces[k]
                 starts == {s \in first..last : (s - first) % stride = 0}
                 g == [s \in starts |->
                         [task |-> t.name, fragment |-> k, start |-> s, end |-> s + pieces[k]]]
      <4>1. /\ w.start \in Int /\ w.end \in Int /\ problem.from \in Int /\ t.deadline \in Int
            /\ pieces[k] \in Int
        BY <3>2, FreeTimeFits, ProblemTyped DEF Span
      <4>2. first \in Int /\ last \in Int
        <5> HIDE DEF pieces
        <5>1. Greater(w.start, problem.from) \in Int /\ Lesser(w.end, t.deadline) \in Int
          BY <4>1 DEF Greater, Lesser
        <5> QED
          BY <4>1, <5>1, ToSlot
      <4>3. IsFiniteSet(starts)
        <5> HIDE DEF first, last
        <5> QED
          BY <4>2, FS_Interval, FS_Subset
      <4>4. IsFiniteSet({g[s] : s \in starts})
        <5> HIDE DEF g, starts
        <5> QED
          BY <4>3, ImageIsFinite
      <4>5. Places(t, k, w, stride) = {g[s] : s \in starts}
        <5>1. Places(t, k, w, stride) =
                {[task |-> t.name, fragment |-> k, start |-> s, end |-> s + pieces[k]] :
                   s \in starts}
          BY Zenon DEF Places
        <5> HIDE DEF starts, pieces
        <5> QED
          BY <5>1
      <4> QED
        BY <4>4, <4>5
    <3>6. \A p \in both(t) : IsFiniteSet(f(t)[p])
      <4> TAKE p \in both(t)
      <4>1. p[1] \in DOMAIN pieces /\ p[2] \in free
        OBVIOUS
      <4> QED
        BY <3>5, <4>1
    <3> HIDE DEF f, both
    <3>7. IsFiniteSet(UNION {f(t)[p] : p \in both(t)})
      BY <3>4, <3>6, UnionIsFinite
    <3> QED
      BY <3>7
  <2>2. IsFiniteSet(all)
    <3> HIDE DEF h
    <3> QED
      BY <2>1, ProblemTyped, UnionIsFinite
  <2>3. ASSUME NEW c \in CandidateSlots(stride) PROVE c \in all
    <3>1. PICK t \in problem.tasks :
            \E k \in DOMAIN Fragments(Requirement(t)), w \in free : c \in Places(t, k, w, stride)
      BY DEF CandidateSlots
    <3>2. PICK k \in DOMAIN Fragments(Requirement(t)), w \in free : c \in Places(t, k, w, stride)
      BY <3>1
    <3>3. <<k, w>> \in both(t) /\ c \in f(t)[<<k, w>>]
      BY <3>2
    <3>4. c \in h[t]
      <4> HIDE DEF f, both
      <4> QED
        BY <3>3
    <3> HIDE DEF h
    <3> QED
      BY <3>4
  <2> HIDE DEF all
  <2> QED
    BY <2>2, <2>3, FS_Subset
<1> QED
  BY <1>2 DEF Offered

--------------------------------------------------------------------------------
(* StudyScheduler: the invariant.                                          *)

(* What a selection leaves of the work of a task.                          *)
Remaining(t, selection) ==
  Greater(0, t.estimate - Minutes(LockedOf(t)) - Minutes({s \in selection : s.task = t.name}))

(* What each step of solve() leaves to the next.                           *)
SchedulerIInv ==
  /\ problem \in Problems
  /\ step \in {"posed", "clipped", "free", "offered", "solved", "raised"}
  /\ step = "clipped" => free = Clipped
  /\ step = "free" => free = FreeTime
  /\ \A c \in candidates : PlaceFits(c)
  /\ step # "solved" => chosen = {}
  /\ chosen \subseteq candidates /\ IsFiniteSet(candidates)
  /\ step = "solved" =>
       /\ Feasible(chosen) /\ Constructible(chosen)
       /\ \A t \in problem.tasks : result.unscheduled[t.name] = Remaining(t, chosen)

(* What a state is made of stays as long as the problem does.              *)
LEMMA ProblemStays ==
  ASSUME problem' = problem
  PROVE  /\ Clipped' = Clipped /\ FreeTime' = FreeTime
         /\ \A c : PlaceFits(c)' <=> PlaceFits(c)
         /\ \A selection : Feasible(selection)' <=> Feasible(selection)
         /\ \A t, selection : Remaining(t, selection)' = Remaining(t, selection)
<1>1. Windows' = Windows /\ Target' = Target
  BY DEF Windows, Target
<1>2. Clipped' = Clipped
  BY <1>1 DEF Clipped
<1>3. FreeTime' = FreeTime
  BY <1>2 DEF FreeTime
<1>4. \A u : FreeFits(u)' <=> FreeFits(u)
  BY <1>1 DEF FreeFits
<1>5. \A c : PlaceFits(c)' <=> PlaceFits(c)
  BY <1>1, <1>4 DEF PlaceFits
<1>6. \A t : LockedOf(t)' = LockedOf(t) /\ Requirement(t)' = Requirement(t)
  BY DEF LockedOf, Requirement
<1>7. \A selection : Feasible(selection)' <=> Feasible(selection)
  BY <1>6 DEF Feasible
<1>8. \A t, selection : Remaining(t, selection)' = Remaining(t, selection)
  BY <1>6 DEF Remaining
<1> QED
  BY <1>2, <1>3, <1>5, <1>7, <1>8

(* Choosing no session breaks no constraint: some selection always exists. *)
LEMMA NothingIsFeasible ==
  ASSUME problem \in Problems
  PROVE  Feasible({}) /\ Constructible({})
<1>1. \A t \in problem.tasks : Minutes({s \in {} : s.task = t.name}) <= Requirement(t)
  <2> TAKE t \in problem.tasks
  <2>1. {s \in {} : s.task = t.name} = {}
    OBVIOUS
  <2>2. Minutes({}) = 0
    <3>1. IsFiniteSet({}) /\ Timed({})
      BY FS_EmptySet DEF Timed
    <3> QED
      BY <3>1, MinutesOf
  <2> QED
    BY <2>1, <2>2, RequirementIs
<1> QED
  BY <1>1 DEF Feasible, Constructible

(* The result names what is left of each task.                             *)
LEMMA ResultCounts ==
  ASSUME problem \in Problems, NEW new, NEW status, NEW t \in problem.tasks
  PROVE  Result(new, status).unscheduled[t.name] = Remaining(t, new)
<1> DEFINE left == [n \in {u.name : u \in problem.tasks} |->
                     Remaining(CHOOSE u \in problem.tasks : u.name = n, new)]
<1>1. \A u \in problem.tasks : u.name = t.name => u = t
  BY ProblemTyped
<1>2. (CHOOSE u \in problem.tasks : u.name = t.name) = t
  BY <1>1
<1>3. left[t.name] = Remaining(t, new)
  BY <1>2
<1>4. ASSUME NEW u \in problem.tasks PROVE (CHOOSE v \in problem.tasks : v.name = u.name) = u
  BY ProblemTyped
<1>5. Result(new, status).unscheduled = left
  BY <1>4 DEF Result, Remaining
<1> QED
  BY <1>3, <1>5

(* An optimum is one of the feasible selections of the candidates.         *)
LEMMA OptimaAreFeasible ==
  ASSUME NEW selection \in Optima
  PROVE  selection \subseteq candidates /\ Feasible(selection)
<1> DEFINE valued == {<<s, Value(s)>> : s \in {s \in SUBSET candidates : Feasible(s)}}
<1>1. PICK v \in valued : selection = v[1]
  BY Zenon DEF Optima
<1>2. PICK s \in SUBSET candidates : Feasible(s) /\ v = <<s, Value(s)>>
  BY Zenon DEF valued
<1> QED
  BY <1>1, <1>2

(* The invariant of the scheduler holds when a problem is given,           *)
LEMMA SchedulerStart ==
  SchedulerInit => SchedulerIInv
  BY FS_EmptySet DEF SchedulerInit, SchedulerIInv

(* and every step of solve() keeps it.                                     *)
LEMMA SchedulerStep ==
  SchedulerIInv /\ [SchedulerNext]_schedulerVars => SchedulerIInv'
<1> SUFFICES ASSUME SchedulerIInv, [SchedulerNext]_schedulerVars PROVE SchedulerIInv'
  OBVIOUS
<1>0. /\ problem' = problem /\ problem' \in Problems
      /\ Clipped' = Clipped /\ FreeTime' = FreeTime /\ \A c : PlaceFits(c)' <=> PlaceFits(c)
      /\ \A selection : Feasible(selection)' <=> Feasible(selection)
      /\ \A t, selection : Remaining(t, selection)' = Remaining(t, selection)
  <2>1. problem' = problem
    BY DEF SchedulerNext, schedulerVars, Clip, TakeOut, Offer, SelectsBest, SelectsAny, Selected,
           SolvesNothing, Raises
  <2> QED
    BY <2>1, ProblemStays DEF SchedulerIInv
<1>1. CASE Clip
  BY <1>0, <1>1 DEF Clip, SchedulerIInv
<1>2. CASE TakeOut
  <2>1. free' = FreeTime
    BY <1>2 DEF TakeOut, SchedulerIInv, FreeTime
  <2> QED
    BY <1>0, <1>2, <2>1 DEF TakeOut, SchedulerIInv
<1>3. CASE Offer
  <2>1. problem \in Problems /\ free = FreeTime /\ candidates' = Offered
    BY <1>3 DEF Offer, SchedulerIInv
  <2>2. IsFiniteSet(candidates') /\ \A c \in candidates' : PlaceFits(c)
    BY <2>1, OfferedFit, OfferedIsFinite
  <2> QED
    BY <1>0, <1>3, <2>2 DEF Offer, SchedulerIInv
<1>4. ASSUME NEW selection, NEW status, selection \subseteq candidates, Feasible(selection),
             Selected(selection, status)
      PROVE  SchedulerIInv'
  <2>1. /\ step' = "solved" /\ chosen' = selection /\ candidates' = candidates
        /\ result' = Result(selection, status) /\ Constructible(selection)
    BY <1>4 DEF Selected
  <2>2. \A t \in problem.tasks : result'.unscheduled[t.name] = Remaining(t, selection)
    BY <2>1, ResultCounts DEF SchedulerIInv
  <2> QED
    BY <1>0, <1>4, <2>1, <2>2 DEF SchedulerIInv
<1>5. CASE SelectsBest
  <2>1. PICK selection \in Optima : Selected(selection, "OPTIMAL")
    BY <1>5 DEF SelectsBest
  <2>2. selection \subseteq candidates /\ Feasible(selection)
    BY OptimaAreFeasible
  <2> QED
    BY <1>4, <2>1, <2>2
<1>6. ASSUME NEW selection \in SUBSET candidates, SelectsAny(selection) PROVE SchedulerIInv'
  BY <1>4, <1>6 DEF SelectsAny
<1>7. CASE SolvesNothing
  <2>1. /\ step' = "solved" /\ chosen' = {} /\ candidates' = candidates
        /\ result' = Result({}, "INFEASIBLE")
    BY <1>7 DEF SolvesNothing, SchedulerIInv
  <2>2. \A t \in problem.tasks : result'.unscheduled[t.name] = Remaining(t, {})
    BY <2>1, ResultCounts DEF SchedulerIInv
  <2>3. Feasible({}) /\ Constructible({})
    BY NothingIsFeasible DEF SchedulerIInv
  <2> QED
    BY <1>0, <2>1, <2>2, <2>3 DEF SchedulerIInv
<1>8. CASE Raises
  BY <1>0, <1>8 DEF Raises, SchedulerIInv
<1>9. CASE UNCHANGED schedulerVars
  BY <1>0, <1>9 DEF schedulerVars, SchedulerIInv
<1> QED
  BY <1>1, <1>2, <1>3, <1>5, <1>6, <1>7, <1>8, <1>9 DEF SchedulerNext

(* A place that lies in the free time, minute by minute.                   *)
LEMMA PlaceKeepsHours ==
  ASSUME problem \in Problems, NEW s, PlaceFits(s), s.start < s.end
  PROVE  /\ s.start \in Int /\ s.end \in Int /\ problem.from <= s.start
         /\ \A t \in problem.tasks : t.name = s.task => s.end <= t.deadline
         /\ \E t \in problem.tasks : t.name = s.task /\ s.end <= t.deadline
         /\ \E w \in Windows : w.start <= s.start /\ s.end <= w.end
         /\ \A b \in problem.busy \cup problem.locked : ~Overlaps(s, b)
         /\ s.start \div Day = s.end \div Day
         /\ Earliest <= s.start % Day /\ s.end % Day <= Latest
         /\ \A m \in s.start..s.end - 1 :
              m < problem.to /\ Earliest <= m % Day /\ m % Day < Latest
<1>1. /\ s.start \in Int /\ s.end \in Int /\ problem.from <= s.start
      /\ \E t \in problem.tasks : t.name = s.task /\ s.end <= t.deadline
  BY DEF PlaceFits
<1>2. \A t \in problem.tasks : t.name = s.task => s.end <= t.deadline
  BY <1>1, ProblemTyped
<1>3. PICK u \in Span : FreeFits(u) /\ Within(s, u)
  BY DEF PlaceFits
<1>4. u.start \in Int /\ u.end \in Int /\ u.start <= s.start /\ s.end <= u.end
  BY <1>3 DEF Within, Span
<1>5. PICK w \in Windows : Within(u, w)
  BY <1>3 DEF FreeFits
<1>6. /\ w.start \in Int /\ w.end \in Int /\ w.end <= problem.to /\ problem.to \in Int
      /\ w.start <= s.start /\ s.end <= w.end
  BY <1>1, <1>4, <1>5, WindowsFit, ProblemTyped DEF Within, Span
<1>7. \A b \in problem.busy \cup problem.locked : ~Overlaps(s, b)
  <2> TAKE b \in problem.busy \cup problem.locked
  <2>1. ~Overlaps(u, b) /\ b.start \in Int /\ b.end \in Int
    BY <1>3, ProblemTyped DEF FreeFits, Timed
  <2> QED
    BY <1>1, <1>4, <2>1 DEF Overlaps
<1>8. PICK d \in Int : d * Day + Earliest <= u.start /\ u.end <= d * Day + Latest
  BY <1>3 DEF FreeFits, InHours
<1>9. /\ Day \in Nat /\ Earliest \in Nat /\ Latest \in Nat /\ Latest < Day
      /\ d * Day \in Int
  BY SchedulerAssumption
<1>10. d * Day + Earliest <= s.start /\ s.end <= d * Day + Latest
  BY <1>1, <1>4, <1>8, <1>9
<1>11. ASSUME NEW m \in Int, s.start <= m, m <= s.end
       PROVE  m \div Day = d /\ m % Day = m - d * Day
  <2>1. d * Day <= m /\ m < d * Day + Day
    BY <1>1, <1>9, <1>10, <1>11
  <2> QED
    BY <2>1, DayOf
<1>12. /\ s.start \div Day = s.end \div Day
       /\ Earliest <= s.start % Day /\ s.end % Day <= Latest
  <2>1. /\ s.start \div Day = d /\ s.start % Day = s.start - d * Day
        /\ s.end \div Day = d /\ s.end % Day = s.end - d * Day
    BY <1>1, <1>11
  <2> QED
    BY <1>1, <1>9, <1>10, <2>1
<1>13. ASSUME NEW m \in s.start..s.end - 1
       PROVE  m < problem.to /\ Earliest <= m % Day /\ m % Day < Latest
  <2>1. m \in Int /\ s.start <= m /\ m <= s.end /\ m < s.end
    BY <1>1
  <2>2. m % Day = m - d * Day
    BY <1>11, <2>1
  <2> QED
    BY <1>1, <1>6, <1>9, <1>10, <2>1, <2>2
<1> QED
  BY <1>1, <1>2, <1>6, <1>7, <1>12, <1>13

(* What is selected of the places.                                         *)
Selection(selection) ==
  /\ Feasible(selection) /\ Constructible(selection) /\ IsFiniteSet(selection)
  /\ \A s \in selection : PlaceFits(s)

(* Selected sessions are a break apart.                                    *)
LEMMA SelectedRest ==
  ASSUME NEW selection, Selection(selection),
         NEW a \in selection, NEW b \in selection, a # b
  PROVE  a.end + Break <= b.start \/ b.end + Break <= a.start
<1>1. Break \in Nat
  BY SchedulerAssumption
<1>2. ASSUME NEW l \in selection, NEW r \in selection, l # r, l.start <= r.start
      PROVE  l.end + Break <= r.start
  <2>1. /\ l.start \in Int /\ l.end \in Int /\ r.start \in Int /\ r.end \in Int
        /\ l.start < l.end /\ r.start < r.end
        /\ DOMAIN l = {"task", "fragment", "start", "end"}
    BY DEF Selection, PlaceFits, Constructible
  <2>2. ~Conflict(l, r)
    BY <1>2 DEF Selection, Feasible
  <2>3. Rested(l).start = l.start /\ Rested(l).end = l.end + Break
    BY <2>1 DEF Rested
  <2>4. ~Near(l, r) \/ ~Overlaps(Rested(l), r)
    BY <1>2, <2>2 DEF Conflict
  <2>5. CASE ~Near(l, r)
    BY <1>1, <2>1, <2>5 DEF Near
  <2>6. CASE ~Overlaps(Rested(l), r)
    <3>1. ~(l.start < r.end) \/ ~(r.start < l.end + Break)
      BY <2>3, <2>6 DEF Overlaps
    <3>2. l.start < r.end
      BY <1>2, <2>1
    <3> QED
      BY <1>1, <2>1, <3>1, <3>2
  <2> QED
    BY <2>4, <2>5, <2>6
<1>3. a.start \in Int /\ b.start \in Int
  BY DEF Selection, PlaceFits
<1> QED
  BY <1>2, <1>3

(* No task gets more time than it needs.                                   *)
LEMMA SelectedWork ==
  ASSUME problem \in Problems, NEW selection, Selection(selection), NEW t \in problem.tasks
  PROVE  LET new == Minutes({s \in selection : s.task = t.name})
             done == Minutes(LockedOf(t)) + new
         IN  /\ (\E s \in selection : s.task = t.name) => done <= t.estimate
             /\ Remaining(t, selection) = IF done > t.estimate THEN 0 ELSE t.estimate - done
             /\ problem.locked = {} => new <= t.estimate
<1> DEFINE own == {s \in selection : s.task = t.name}
           new == Minutes(own)
           locked == Minutes(LockedOf(t))
<1>1. IsFiniteSet(own) /\ Timed(own) /\ \A s \in own : s.start < s.end
  <2>1. IsFiniteSet(own)
    BY FS_Subset DEF Selection
  <2> QED
    BY <2>1 DEF Selection, PlaceFits, Constructible, Timed
<1>2. /\ locked \in Int /\ t.estimate \in Nat
      /\ Requirement(t) = IF t.estimate - locked > 0 THEN t.estimate - locked ELSE 0
      /\ problem.locked = {} => Requirement(t) = t.estimate
  BY RequirementIs
<1>3. new <= Requirement(t)
  BY DEF Selection, Feasible
<1>4. Remaining(t, selection) = Greater(0, t.estimate - locked - new)
  BY DEF Remaining
<1> HIDE DEF own, locked
<1>5. new \in Int /\ (own # {} => new >= 1)
  BY <1>1, MinutesOf
<1> HIDE DEF new
<1>6. own # {} => locked + new <= t.estimate
  BY <1>2, <1>3, <1>5
<1>7. Remaining(t, selection) = IF locked + new > t.estimate THEN 0 ELSE t.estimate - (locked + new)
  BY <1>2, <1>4, <1>5 DEF Greater
<1>8. problem.locked = {} => new <= t.estimate
  BY <1>2, <1>3
<1> QED
  BY <1>6, <1>7, <1>8 DEF own, new, locked

(* The user's own changes are judged by rules that what is selected keeps. *)
LEMMA SelectedIsValid ==
  ASSUME problem \in Problems, NEW selection, Selection(selection),
         problem.locked = {}, Target >= Slot
  PROVE  AdjustmentValid(selection)
<1>1. ASSUME NEW s \in selection
      PROVE  /\ \E t \in problem.tasks : t.name = s.task /\ s.end <= t.deadline
             /\ s.end - s.start <= problem.maximum
             /\ \E w \in Windows : w.start <= s.start /\ s.end <= w.end
             /\ s.start \div Day = s.end \div Day
             /\ Earliest <= s.start % Day /\ s.end % Day <= Latest
             /\ ~\E b \in problem.busy : Overlaps(s, b)
  <2>1. PlaceFits(s) /\ s.start < s.end
    BY DEF Selection, Constructible
  <2> QED
    BY <2>1, PlaceKeepsHours DEF PlaceFits
<1>2. \A t \in problem.tasks : Minutes({s \in selection : s.task = t.name}) <= t.estimate
  BY SelectedWork
<1>3. ASSUME NEW a \in selection, NEW b \in selection, a # b, a.start <= b.start
      PROVE  b.start - a.end >= Break
  <2>1. /\ a.start \in Int /\ a.end \in Int /\ b.start \in Int /\ b.end \in Int
        /\ b.start < b.end /\ Break \in Nat
    BY SchedulerAssumption DEF Selection, PlaceFits, Constructible
  <2> QED
    BY <1>3, <2>1, SelectedRest
<1> QED
  BY <1>1, <1>2, <1>3 DEF AdjustmentValid

(* The invariant says that the schedule returned keeps the rules.          *)
LEMMA SchedulerRules ==
  SchedulerIInv => RulesKept
<1> SUFFICES ASSUME SchedulerIInv, step = "solved" PROVE RulesKept
  BY DEF RulesKept
<1>1. problem \in Problems /\ Selection(chosen)
  BY FS_Subset DEF SchedulerIInv, Selection
<1>2. ASSUME NEW s \in chosen
      PROVE  /\ s.start < s.end /\ problem.from <= s.start
             /\ \A t \in problem.tasks : t.name = s.task => s.end <= t.deadline
             /\ \A m \in s.start..s.end - 1 :
                  /\ m < problem.to /\ Earliest <= m % Day /\ m % Day < Latest
                  /\ ~\E b \in problem.busy \cup problem.locked : During(m, b)
             /\ \A r \in chosen \ {s} : r.end + Break <= s.start \/ s.end + Break <= r.start
  <2>1. PlaceFits(s) /\ s.start < s.end
    BY <1>1 DEF Selection, Constructible
  <2>2. /\ s.start \in Int /\ s.end \in Int /\ problem.from <= s.start
        /\ \A t \in problem.tasks : t.name = s.task => s.end <= t.deadline
        /\ \A b \in problem.busy \cup problem.locked : ~Overlaps(s, b)
        /\ \A m \in s.start..s.end - 1 :
             m < problem.to /\ Earliest <= m % Day /\ m % Day < Latest
    BY <1>1, <2>1, PlaceKeepsHours
  <2>3. ASSUME NEW m \in s.start..s.end - 1, NEW b \in problem.busy \cup problem.locked
        PROVE  ~During(m, b)
    <3>1. b.start \in Int /\ b.end \in Int /\ ~Overlaps(s, b)
      BY <1>1, <2>2, ProblemTyped DEF Timed
    <3> QED
      BY <2>2, <3>1 DEF Overlaps, During
  <2>4. \A r \in chosen \ {s} : r.end + Break <= s.start \/ s.end + Break <= r.start
    BY <1>1, SelectedRest
  <2> QED
    BY <2>1, <2>2, <2>3, <2>4
<1>3. ASSUME NEW t \in problem.tasks
      PROVE  LET done == Minutes(LockedOf(t)) + Minutes({s \in chosen : s.task = t.name})
             IN  /\ (\E s \in chosen : s.task = t.name) => done <= t.estimate
                 /\ result.unscheduled[t.name] =
                      IF done > t.estimate THEN 0 ELSE t.estimate - done
  <2>1. result.unscheduled[t.name] = Remaining(t, chosen)
    BY DEF SchedulerIInv
  <2> QED
    BY <1>1, <2>1, SelectedWork
<1>4. problem.locked = {} /\ Target >= Slot => AdjustmentValid(chosen)
  BY <1>1, SelectedIsValid
<1> QED
  BY <1>2, <1>3, <1>4 DEF RulesKept

(* The inductive invariant of solve(): what each stage hands to the next   *)
(* is finite, lies in the free time and obeys the constraints of the model *)
(* it is built with.                                                       *)
THEOREM SchedulerInductive == SchedulerSpec => []SchedulerIInv
<1>1. SchedulerInit => SchedulerIInv
  BY SchedulerStart
<1>2. SchedulerIInv /\ [SchedulerNext]_schedulerVars => SchedulerIInv'
  BY SchedulerStep
<1> QED
  BY <1>1, <1>2, PTL DEF SchedulerSpec

(* Whatever the problem, the grid and the answer of the solver, optimal or *)
(* only found in time: every minute of work is split into pieces of legal  *)
(* length, and each session that solve() adds lies in the planning window, *)
(* in the study hours of one day, off everything busy or locked, before    *)
(* its deadline and a break away from the others; no task gets more than   *)
(* its estimate; and where nothing was locked the validator of the         *)
(* adjustments takes the schedule as it is.                                *)
THEOREM SchedulesKeepRules == SchedulerSpec => []ScheduleKeepsRules
<1>1. SchedulerIInv => ScheduleKeepsRules
  BY SchedulerRules, WorkSplits DEF ScheduleKeepsRules, SchedulerIInv
<1> QED
  BY <1>1, SchedulerInductive, PTL

--------------------------------------------------------------------------------
(* MeetingPlanning: the invariant.                                         *)

(* What analyze and request_approval have read of the project.             *)
FactsRead == [members : [MemberIds -> Persons \cup {NoMember}], repository : BOOLEAN,
              database : BOOLEAN, schema : Schemas \cup {NoSchema}]

(* The texts and what was read of the project have their types, and        *)
(* nothing is there before the step that makes it.                         *)
MeetingInOrder ==
  /\ lines \in Transcripts /\ day \in MeetingDays
  /\ seen \in FactsRead /\ read \in FactsRead
  /\ segments = IF stage = "uploaded" THEN <<>> ELSE Parsed
  /\ stage \in {"uploaded", "transcript_ready", "analyzing"} => drafts = <<>>
  /\ drafts \in Seq(Range(drafts))
  /\ stage # "proposed" => actions = {} /\ skipped = {}

(* Between the reading of the members and the proposal every login that    *)
(* was read is one the project had.                                        *)
LoginsHeld == stage \in {"asking", "proposed"} => Logins(read.members) \subseteq held

(* A refused request for approval comes back to the same drafts.           *)
DraftsStayGrounded ==
  stage \in {"plan_ready", "asking"} /\ edits = 0 =>
    \A k \in DOMAIN drafts : Grounded(drafts[k])

(* The inductive invariant.                                                *)
MeetingIInv ==
  /\ MeetingTypeOK
  /\ MeetingInOrder
  /\ LoginsHeld
  /\ DraftsStayGrounded
  /\ ActionsAreGrounded

--------------------------------------------------------------------------------
(* The next such day, today or after today.                                *)
LEMMA NextWeekday ==
  ASSUME day \in Nat, NEW d \in 0..6
  PROVE  LET soon == day + DaysUntil(d)
             next == day + (IF DaysUntil(d) = 0 THEN 7 ELSE DaysUntil(d))
         IN  /\ soon \in Nat /\ soon >= day /\ Weekday(soon) = d
             /\ \A e \in day..(soon - 1) : Weekday(e) # d
             /\ next \in Nat /\ next >= day + 1 /\ Weekday(next) = d
             /\ \A e \in (day + 1)..(next - 1) : Weekday(e) # d
  BY DEF Weekday, DaysUntil

(* resolve_relative_date() gives a date that fits the phrase, or none.     *)
LEMMA RelativeDateFits ==
  ASSUME NEW phrase, day \in Nat,
         phrase # NoPhrase /\ ~phrase.by => phrase.of.n \in Nat,
         phrase # NoPhrase /\ phrase.of.when \in {"weekday", "next weekday"} /\ ~phrase.by =>
           phrase.of.n \in 0..6
  PROVE  /\ RelativeDate(phrase) \in Nat \cup {NoDate}
         /\ RelativeDate(phrase) # NoDate => DateFits(phrase, RelativeDate(phrase))
<1>1. CASE phrase = NoPhrase \/ phrase.by
  BY <1>1 DEF RelativeDate
<1>2. CASE phrase # NoPhrase /\ ~phrase.by /\ phrase.of.when = "weekday"
  <2>1. RelativeDate(phrase) = day + DaysUntil(phrase.of.n)
    BY <1>2 DEF RelativeDate
  <2>2. phrase.of.n \in 0..6
    BY <1>2
  <2>3. /\ RelativeDate(phrase) \in Nat /\ RelativeDate(phrase) >= day
        /\ Weekday(RelativeDate(phrase)) = phrase.of.n
        /\ \A e \in day..(RelativeDate(phrase) - 1) : Weekday(e) # phrase.of.n
    BY ONLY day \in Nat, <2>1, <2>2, NextWeekday
  <2> QED
    BY ONLY <1>2, <2>3 DEF DateFits
<1>3. CASE phrase # NoPhrase /\ ~phrase.by /\ phrase.of.when = "next weekday"
  <2>1. RelativeDate(phrase) =
          day + (IF DaysUntil(phrase.of.n) = 0 THEN 7 ELSE DaysUntil(phrase.of.n))
    BY <1>3 DEF RelativeDate
  <2>2. phrase.of.n \in 0..6
    BY <1>3
  <2>3. /\ RelativeDate(phrase) \in Nat /\ RelativeDate(phrase) >= day + 1
        /\ Weekday(RelativeDate(phrase)) = phrase.of.n
        /\ \A e \in (day + 1)..(RelativeDate(phrase) - 1) : Weekday(e) # phrase.of.n
    BY ONLY day \in Nat, <2>1, <2>2, NextWeekday
  <2> QED
    BY ONLY <1>3, <2>3 DEF DateFits
<1>4. CASE phrase # NoPhrase /\ ~phrase.by /\ ~(phrase.of.when \in {"weekday", "next weekday"})
  <2>1. RelativeDate(phrase) \in {day, day + 1, day + 7, day + phrase.of.n, NoDate}
    BY <1>4 DEF RelativeDate
  <2>2. phrase.of.n \in Nat
    BY <1>4
  <2>3. RelativeDate(phrase) \in Nat \cup {NoDate}
    BY ONLY day \in Nat, <2>1, <2>2
  <2> QED
    BY ONLY <1>4, <2>3 DEF DateFits
<1> QED
  BY <1>1, <1>2, <1>3, <1>4

(* A member found for a name is the only one called so.                    *)
LEMMA ResolvedIsOnlyOne ==
  ASSUME NEW owner, NEW table
  PROVE  LET m == Identity(owner, table).member IN
         /\ m \in MemberIds \cup {NoMember}
         /\ m # NoMember => OnlyOne(owner, m, table)
<1> DEFINE found == Candidates(owner, table)
<1>1. CASE owner # NoName /\ Resolves(found)
  <2>1. found \subseteq MemberIds /\ IsFiniteSet(found)
    BY FS_Subset, MeetingAssumption DEF Candidates
  <2>2. PICK m : found = {m}
    BY <1>1, <2>1, FS_Singleton DEF Resolves
  <2>3. Identity(owner, table).member = m
    BY <1>1, <2>2 DEF Identity
  <2>4. OnlyOne(owner, m, table)
    BY <2>1, <2>2 DEF Candidates, OnlyOne
  <2> QED
    BY <2>1, <2>2, <2>3, <2>4
<1>2. CASE ~(owner # NoName /\ Resolves(found))
  BY <1>2 DEF Identity
<1> QED
  BY <1>1, <1>2

--------------------------------------------------------------------------------
(* What is put up for approval.                                            *)

(* A wanted action is that of a place among the destinations of a draft.   *)
LEMMA WantedPlaces ==
  ASSUME MeetingTypeOK, NEW w \in Wanted
  PROVE  /\ w = <<w[1], w[2]>> /\ w[1] \in DOMAIN drafts /\ w[2] \in DOMAIN drafts[w[1]].to
         /\ PlannedAction(Draft(w)) /\ Destination(w) \in {"notion", "github"}
<1>1. PICK k \in DOMAIN drafts : w \in {k} \X DOMAIN drafts[k].to
  BY DEF Wanted
<1>2. w = <<w[1], w[2]>> /\ w[1] \in DOMAIN drafts /\ w[2] \in DOMAIN drafts[w[1]].to
  BY <1>1
<1>3. PlannedAction(Draft(w))
  BY <1>2 DEF MeetingTypeOK, Draft
<1>4. Draft(w).to \in Seq({"notion", "github"}) /\ w[2] \in DOMAIN Draft(w).to
  BY <1>2, <1>3 DEF PlannedAction, Draft
<1>5. Destination(w) \in {"notion", "github"}
  BY <1>4 DEF Destination
<1> QED
  BY <1>2, <1>3, <1>5

(* At most one action is built for a place.                                *)
LEMMA BuiltOnce ==
  ASSUME NEW w, Destination(w) \in {"notion", "github"}, NEW facts, NEW schema
  PROVE  /\ \A a \in Built(w, facts, schema) :
              a.draft = w[1] /\ a.place = w[2] /\ a.to = Destination(w)
         /\ \A a, b \in Built(w, facts, schema) : a = b
<1>1. CASE Destination(w) = "notion"
  BY <1>1 DEF Built, Task
<1>2. CASE Destination(w) = "github"
  <2>1. Built(w, facts, schema) = OnGitHub(w, facts)
    BY <1>2 DEF Built
  <2>2. \/ OnGitHub(w, facts) = {}
        \/ \E b : /\ OnGitHub(w, facts) = {b}
                 /\ b.draft = w[1] /\ b.place = w[2] /\ b.to = "github"
    <3>1. CASE ~read.repository
      BY <3>1 DEF OnGitHub
    <3>2. CASE read.repository /\ Draft(w).category = "REVIEW_REQUEST"
      BY <3>2 DEF OnGitHub
    <3>3. CASE read.repository /\ Draft(w).category # "REVIEW_REQUEST"
      <4> DEFINE b == [draft |-> w[1], place |-> w[2], to |-> "github", kind |-> "issue",
                       person |-> IF Login(Draft(w)) \in facts.logins THEN Login(Draft(w))
                                  ELSE NoLogin,
                       labels |-> Draft(w).labels \cap facts.labels, columns |-> {}]
      <4>1. OnGitHub(w, facts) = {b}
        BY <3>3 DEF OnGitHub
      <4>2. b.draft = w[1] /\ b.place = w[2] /\ b.to = "github"
        OBVIOUS
      <4> QED
        BY <4>1, <4>2
    <3> QED
      BY <3>1, <3>2, <3>3
  <2> QED
    BY <1>2, <2>1, <2>2
<1> QED
  BY <1>1, <1>2

(* A GitHub login put in an action was held by its member when it was      *)
(* read.                                                                   *)
LEMMA LoginIsHeld ==
  ASSUME NEW draft, Logins(read.members) \subseteq held, Login(draft) # NoLogin
  PROVE  <<draft.member, Login(draft)>> \in held
<1>1. MemberOf(draft) # NoMember /\ Login(draft) = MemberOf(draft).github
  BY DEF Login
<1>2. draft.member \in MemberIds /\ MemberOf(draft) = read.members[draft.member]
  BY <1>1 DEF MemberOf
<1> QED
  BY <1>1, <1>2 DEF Logins

(* What an action is allowed to name.                                      *)
Supported(a, schema) ==
  /\ a.kind \in {"task", "issue", "review"}
  /\ a.person # NoLogin => <<drafts[a.draft].member, a.person>> \in held
  /\ a.kind = "task" => drafts[a.draft].date # Unreadable
  /\ a.kind = "issue" =>
       /\ drafts[a.draft].title = "fits" /\ a.person \in Collaborators \cup {NoLogin}
       /\ a.labels \subseteq RepositoryLabels
  /\ a.kind = "review" => a.person # NoLogin /\ drafts[a.draft].pull > 0
  /\ schema # NoSchema => \A c \in a.columns : schema[c] # "missing"

(* An action built for a place names nothing that was not read of the      *)
(* member, the repository and the database, and nothing that raises.       *)
LEMMA BuiltIsSupported ==
  ASSUME NEW w, PlannedAction(Draft(w)), Destination(w) \in {"notion", "github"},
         ~Unbuildable(w), NEW schema,
         NEW facts, facts.logins \subseteq Collaborators, facts.labels \subseteq RepositoryLabels,
         Logins(read.members) \subseteq held,
         NEW a \in Built(w, facts, schema)
  PROVE  Supported(a, schema)
<1>0. Draft(w) = drafts[w[1]]
  BY DEF Draft
<1>1. CASE Destination(w) = "notion"
  <2>1. /\ a.draft = w[1] /\ a.kind = "task" /\ a.person = NoLogin /\ read.database
        /\ a.columns = WrittenColumns(Draft(w), schema)
    BY <1>1 DEF Built, Task
  <2>2. schema # NoSchema => \A c \in a.columns : schema[c] # "missing"
    BY <2>1 DEF WrittenColumns
  <2>3. Draft(w).date # Unreadable
    BY <1>1, <2>1 DEF Unbuildable
  <2> QED
    BY <1>0, <2>1, <2>2, <2>3 DEF Supported
<1>2. CASE Destination(w) = "github" /\ Draft(w).category = "REVIEW_REQUEST"
  <2>1. /\ a.draft = w[1] /\ a.kind = "review" /\ a.person = Login(Draft(w)) /\ a.columns = {}
        /\ read.repository /\ Login(Draft(w)) # NoLogin /\ Draft(w).pull # 0
    BY <1>2 DEF Built, OnGitHub
  <2>2. Draft(w).pull > 0
    BY <1>2, <2>1 DEF Unbuildable, PlannedAction
  <2> QED
    BY <1>0, <2>1, <2>2, LoginIsHeld DEF Supported
<1>3. CASE Destination(w) = "github" /\ Draft(w).category # "REVIEW_REQUEST"
  <2>1. /\ a.draft = w[1] /\ a.kind = "issue" /\ a.columns = {} /\ read.repository
        /\ (a.person \in facts.logins /\ a.person = Login(Draft(w))) \/ a.person = NoLogin
        /\ a.labels \subseteq facts.labels
    BY <1>3 DEF Built, OnGitHub
  <2>2. Draft(w).title = "fits"
    BY <1>3, <2>1 DEF Unbuildable
  <2> QED
    BY <1>0, <2>1, <2>2, LoginIsHeld DEF Supported
<1> QED
  BY <1>1, <1>2, <1>3

(* The facts of a repository are its own, or nothing when they could not   *)
(* be listed.                                                              *)
LEMMA FactsAreListed ==
  ASSUME NEW listed
  PROVE  /\ RepositoryFacts(listed).logins \subseteq Collaborators
         /\ RepositoryFacts(listed).labels \subseteq RepositoryLabels
  BY DEF RepositoryFacts

(* Proposing actions grounds each in what was just read.                   *)
LEMMA ProposeGrounds ==
  ASSUME MeetingIInv, NEW listed, NEW schema \in DatabaseSchemas,
         Propose(RepositoryFacts(listed), schema)
  PROVE  ActionsAreGrounded' /\ (actions' # {} => \A a \in actions' : Supported(a, schema))
<1> DEFINE facts == RepositoryFacts(listed)
           built == UNION {Built(w, facts, schema) : w \in Wanted}
<1> HIDE DEF facts
<1>1. CASE built = {} \/ \E w \in Wanted : Unbuildable(w)
  BY <1>1 DEF Propose, ActionsAreGrounded, MeetingIInv, MeetingInOrder, facts
<1>2. CASE built # {} /\ \A w \in Wanted : ~Unbuildable(w)
  <2>1. /\ stage' = "proposed" /\ actions' = built /\ stage = "asking"
        /\ skipped' = {w \in Wanted : Built(w, facts, schema) = {}}
        /\ read' = [read EXCEPT !.schema = schema]
        /\ drafts' = drafts /\ held' = held /\ edits' = edits
    BY <1>2 DEF Propose, facts
  <2>2. Wanted' = Wanted
    BY <2>1 DEF Wanted
  <2>3. read'.schema = schema
    BY <2>1 DEF MeetingIInv, MeetingInOrder, FactsRead
  <2>4. Logins(read.members) \subseteq held
    BY <2>1 DEF MeetingIInv, LoginsHeld
  <2>5. \A w \in Wanted : /\ w = <<w[1], w[2]>> /\ w[1] \in DOMAIN drafts
                          /\ w[2] \in DOMAIN drafts[w[1]].to
                          /\ PlannedAction(Draft(w)) /\ Destination(w) \in {"notion", "github"}
    BY WantedPlaces DEF MeetingIInv
  <2>6. ASSUME NEW a \in built
        PROVE  /\ <<a.draft, a.place>> \in Wanted
               /\ a \in Built(<<a.draft, a.place>>, facts, schema)
               /\ a.to = drafts[a.draft].to[a.place] /\ Supported(a, schema)
    <3>1. PICK w \in Wanted : a \in Built(w, facts, schema)
      OBVIOUS
    <3>2. a.draft = w[1] /\ a.place = w[2] /\ a.to = Destination(w)
      BY <2>5, <3>1, BuiltOnce
    <3>3. w = <<a.draft, a.place>>
      BY <2>5, <3>2
    <3>4. Supported(a, schema)
      BY <1>2, <2>4, <2>5, <3>1, FactsAreListed, BuiltIsSupported DEF facts
    <3>5. a.to = drafts[a.draft].to[a.place]
      BY <3>2 DEF Destination, Draft
    <3> QED
      BY <3>1, <3>3, <3>4, <3>5
  <2>7. ASSUME NEW w \in Wanted
        PROVE  Cardinality({a \in built : <<a.draft, a.place>> = w}) =
                 (IF Built(w, facts, schema) = {} THEN 0 ELSE 1)
    <3>1. {a \in built : <<a.draft, a.place>> = w} = Built(w, facts, schema)
      <4>1. ASSUME NEW a \in built, <<a.draft, a.place>> = w
            PROVE  a \in Built(w, facts, schema)
        BY <2>6, <4>1
      <4>2. ASSUME NEW a \in Built(w, facts, schema)
            PROVE  a \in built /\ <<a.draft, a.place>> = w
        <5>1. a.draft = w[1] /\ a.place = w[2]
          BY <2>5, BuiltOnce
        <5> QED
          BY <2>5, <5>1
      <4> QED
        BY <4>1, <4>2
    <3>2. CASE Built(w, facts, schema) = {}
      BY <3>1, <3>2, FS_EmptySet
    <3>3. CASE Built(w, facts, schema) # {}
      <4>1. PICK a : a \in Built(w, facts, schema)
        BY <3>3
      <4>2. \A b, c \in Built(w, facts, schema) : b = c
        BY <2>5, BuiltOnce
      <4>3. Built(w, facts, schema) = {a}
        BY <4>1, <4>2
      <4> QED
        BY <3>1, <4>3, FS_Singleton
    <3> QED
      BY <3>2, <3>3
  <2>8. \A w \in Wanted : Cardinality({a \in actions' : <<a.draft, a.place>> = w}) =
                           (IF w \in skipped' THEN 0 ELSE 1)
    BY <2>1, <2>7
  <2>9. \A a \in actions' : /\ Supported(a, schema) /\ <<a.draft, a.place>> \in Wanted
                            /\ a.to = drafts[a.draft].to[a.place]
    BY <2>1, <2>6
  <2>10. ASSUME edits = 0, NEW a \in built, NEW b \in built, a.draft = b.draft, a.to = b.to
         PROVE  a = b
    <3> DEFINE w == <<a.draft, a.place>>
               v == <<b.draft, b.place>>
    <3>1. /\ w \in Wanted /\ a \in Built(w, facts, schema)
          /\ v \in Wanted /\ b \in Built(v, facts, schema)
      BY <2>6
    <3>2. /\ a.draft \in DOMAIN drafts
          /\ a.place \in DOMAIN drafts[a.draft].to /\ b.place \in DOMAIN drafts[a.draft].to
      BY <2>5, <2>10, <3>1
    <3>3. drafts[a.draft].to[a.place] = drafts[a.draft].to[b.place]
      BY <2>6, <2>10
    <3>4. Grounded(drafts[a.draft])
      BY <2>1, <2>10, <3>2 DEF MeetingIInv, DraftsStayGrounded
    <3>5. a.place = b.place
      BY <3>2, <3>3, <3>4 DEF Grounded
    <3> HIDE DEF built
    <3> QED
      BY <2>5, <2>10, <3>1, <3>5, BuiltOnce
  <2> HIDE DEF built
  <2> QED
    BY <1>2, <2>1, <2>2, <2>3, <2>8, <2>9, <2>10 DEF ActionsAreGrounded, Supported
<1> QED
  BY <1>1, <1>2

--------------------------------------------------------------------------------
(* The transcript.                                                         *)

(* Who may be speaking, what a turn is, what the loop of                   *)
(* parse_transcript() keeps, and what it starts from.                      *)
Speakers == {lines[n].who : n \in 1..Len(lines)} \cup {NoName}

Segments == [speaker : Speakers, stamped : BOOLEAN, words : Seq(1..Len(lines))]

Readings == [done : Seq(Segments), speaker : Speakers, stamped : BOOLEAN,
             words : Seq(1..Len(lines))]

NothingRead == [done |-> <<>>, speaker |-> NoName, stamped |-> FALSE, words |-> <<>>]

(* A transcript has finitely many lines of known form.                     *)
LEMMA TextLines ==
  ASSUME lines \in Transcripts
  PROVE  /\ Len(lines) \in Nat /\ DOMAIN lines = 1..Len(lines)
         /\ \A n \in 1..Len(lines) :
              /\ lines[n].form \in {"blank", "stamp", "spoken", "plain", "label"}
              /\ lines[n].says.pull \in Nat
<1>1. lines \in Seq(Range(lines))
  BY MeetingAssumption
<1>2. Len(lines) \in Nat /\ DOMAIN lines = 1..Len(lines)
  BY <1>1
<1> QED
  BY <1>2, MeetingAssumption

(* Closing the turn being read, and reading a line, keep the types.        *)
LEMMA FlushedType ==
  ASSUME NEW t \in Readings
  PROVE  Flushed(t) \in Readings
<1> DEFINE turn == [speaker |-> t.speaker, stamped |-> t.stamped, words |-> t.words]
<1>1. turn \in Segments /\ Append(t.done, turn) \in Seq(Segments)
  BY DEF Readings, Segments
<1>2. CASE t.words # <<>>
  <2>1. Flushed(t) = [done |-> Append(t.done, turn), speaker |-> t.speaker,
                      stamped |-> t.stamped, words |-> <<>>]
    BY <1>2 DEF Flushed, Readings
  <2> QED
    BY <1>1, <2>1 DEF Readings
<1> QED
  BY <1>2 DEF Flushed

LEMMA ReadLineType ==
  ASSUME lines \in Transcripts, NEW t \in Readings, NEW n \in 1..Len(lines)
  PROVE  ReadLine(t, n) \in Readings
<1>1. lines[n].form \in {"blank", "stamp", "spoken", "plain", "label"}
  BY TextLines
<1>2. lines[n].who \in Speakers /\ NoName \in Speakers /\ <<n>> \in Seq(1..Len(lines))
  BY DEF Speakers
<1>3. Append(t.words, n) \in Seq(1..Len(lines))
  BY DEF Readings
<1> QED
  BY <1>1, <1>2, <1>3, FlushedType DEF ReadLine, Readings

(* The loop of parse_transcript() over the lines: it starts with nothing   *)
(* and reads one line after another.                                       *)
LEMMA ReadingDef ==
  ASSUME lines \in Transcripts
  PROVE  /\ Len(lines) \in Nat
         /\ Reading \in [0..Len(lines) -> Readings]
         /\ Reading[0] = NothingRead
         /\ \A n \in 1..Len(lines) : Reading[n] = ReadLine(Reading[n - 1], n)
<1> DEFINE N == Len(lines)
           F == [p \in (1..N) \X Readings |-> ReadLine(p[2], p[1])]
           Step(f) == [n \in 0..N |-> IF n = 0 THEN NothingRead ELSE ReadLine(f[n - 1], n)]
<1>1. N \in Nat
  BY TextLines
<1>2. F \in [(1..N) \X Readings -> Readings]
  BY ReadLineType
<1>3. NothingRead \in Readings
  BY DEF NothingRead, Readings, Speakers
<1>4. PICK f \in [0..N -> Readings] : IsLoop(f, N, NothingRead, F)
  <2> HIDE DEF F, N
  <2> QED
    BY <1>1, <1>2, <1>3, LoopHasStates
<1>5. f = Step(f)
  <2>1. ASSUME NEW n \in 0..N, n # 0 PROVE F[<<n, f[n - 1]>>] = ReadLine(f[n - 1], n)
    <3>1. n \in 1..N /\ f[n - 1] \in Readings /\ <<n, f[n - 1]>> \in (1..N) \X Readings
      BY <1>1, <2>1
    <3> QED
      BY <3>1
  <2> QED
    BY <1>4, <2>1 DEF IsLoop
<1>6. Reading = Step(Reading)
  BY <1>5 DEF Reading, NothingRead
<1>7. \A n \in 0..N : Reading[n] = IF n = 0 THEN NothingRead ELSE ReadLine(Reading[n - 1], n)
  BY <1>6
<1>8. \A n \in 0..N : Reading[n] \in Readings
  <2> DEFINE good == {n \in 0..N : Reading[n] \in Readings}
  <2>1. 0 \in good
    BY <1>1, <1>3, <1>7
  <2>2. ASSUME NEW n \in 0..(N - 1), n \in good PROVE n + 1 \in good
    <3>1. n + 1 \in 1..N /\ n + 1 \in 0..N /\ (n + 1) - 1 = n
      BY <1>1
    <3>2. Reading[n + 1] = ReadLine(Reading[n], n + 1)
      BY <1>7, <3>1
    <3> QED
      BY <2>2, <3>1, <3>2, ReadLineType
  <2> HIDE DEF good
  <2>3. \A n \in 0..N : n \in good
    BY <1>1, <2>1, <2>2, UpToNumber
  <2> QED
    BY <2>3 DEF good
<1>9. Reading \in [0..N -> Readings]
  BY <1>6, <1>8
<1> QED
  BY <1>1, <1>7, <1>9

(* A line that marks a turn begins it, any other one goes on with the last.*)
LEMMA TurnOfStep ==
  ASSUME lines \in Transcripts
  PROVE  /\ TurnOf(0) = 0
         /\ \A n \in 1..Len(lines) :
              TurnOf(n) =
                IF lines[n].form \in {"blank", "stamp", "spoken"} THEN n ELSE TurnOf(n - 1)
<1> DEFINE marks(n) == {m \in 1..n : lines[m].form \in {"blank", "stamp", "spoken"}}
<1>1. TurnOf(0) = 0
  BY DEF TurnOf
<1>2. ASSUME NEW n \in 1..Len(lines)
      PROVE  TurnOf(n) = IF lines[n].form \in {"blank", "stamp", "spoken"} THEN n ELSE TurnOf(n - 1)
  <2>1. n \in Nat /\ \A m \in 1..n : m <= n /\ (m \in 1..(n - 1) \/ m = n)
    BY TextLines
  <2>2. CASE lines[n].form \in {"blank", "stamp", "spoken"}
    <3>1. n \in marks(n) /\ \A m \in marks(n) : n >= m /\ (m >= n => m = n)
      BY <2>1, <2>2
    <3>2. Max(marks(n)) = n
      BY <3>1 DEF Max
    <3> QED
      BY <2>2, <3>1, <3>2 DEF TurnOf
  <2>3. CASE lines[n].form \notin {"blank", "stamp", "spoken"}
    <3>1. marks(n) = marks(n - 1)
      BY <2>1, <2>3
    <3> QED
      BY <2>3, <3>1 DEF TurnOf
  <2> QED
    BY <2>2, <2>3
<1> QED
  BY <1>1, <1>2

(* A line belongs to a turn that began at it or before it.                 *)
LEMMA TurnOfBound ==
  ASSUME lines \in Transcripts, NEW n \in 0..Len(lines)
  PROVE  TurnOf(n) \in 0..n
<1> DEFINE good == {k \in 0..Len(lines) : TurnOf(k) \in 0..k}
<1>1. 0 \in good
  BY TextLines, TurnOfStep
<1>2. ASSUME NEW k \in 0..(Len(lines) - 1), k \in good PROVE k + 1 \in good
  <2>1. k + 1 \in 1..Len(lines) /\ (k + 1) - 1 = k
    BY TextLines
  <2>2. TurnOf(k + 1) \in {k + 1, TurnOf(k)}
    BY <2>1, TurnOfStep
  <2> QED
    BY <1>2, <2>1, <2>2
<1> HIDE DEF good
<1>3. n \in good
  BY <1>1, <1>2, TextLines, UpToNumber
<1> QED
  BY <1>3 DEF good

(* Every segment under its turn's speaker, one for each turn, in order.    *)
InOrder(segs) ==
  \A j, k \in DOMAIN segs :
    \A a \in DOMAIN segs[j].words, b \in DOMAIN segs[k].words :
      LET v == segs[j].words[a]
          w == segs[k].words[b]
      IN  /\ (j < k \/ (j = k /\ a < b)) => v < w
          /\ TurnOf(v) = TurnOf(w) <=> j = k
          /\ j = k => segs[j].speaker = SpeakerOf(v)

(* The words of segs are text among the first n lines and come before      *)
(* what is read later.                                                     *)
Earlier(segs, n, turn) ==
  \A k \in DOMAIN segs : \A a \in DOMAIN segs[k].words :
    LET v == segs[k].words[a] IN v \in 1..n /\ Words(v) /\ TurnOf(v) < turn

(* The turns hold line v.                                                  *)
Holds(segs, v) == \E k \in DOMAIN segs : \E a \in DOMAIN segs[k].words : segs[k].words[a] = v

(* What has been read of the first n lines.                                *)
TurnRead(t, n) ==
  /\ InOrder(t.done)
  /\ Earlier(t.done, n, TurnOf(n))
  /\ t.speaker = SpeakerOf(n)
  /\ \A i \in DOMAIN t.words :
       /\ t.words[i] \in 1..n /\ Words(t.words[i]) /\ TurnOf(t.words[i]) = TurnOf(n)
       /\ \A j \in DOMAIN t.words : i < j => t.words[i] < t.words[j]
       /\ \A k \in DOMAIN t.done : \A a \in DOMAIN t.done[k].words :
            t.done[k].words[a] < t.words[i]
  /\ \A v \in 1..n : Words(v) =>
       Holds(t.done, v) \/ \E i \in DOMAIN t.words : t.words[i] = v

(* After the turn being read is closed, every line with words is in a      *)
(* turn, in order, and no turn mixes lines of two.                         *)
LEMMA FlushedKeepsTurns ==
  ASSUME lines \in Transcripts, NEW n \in 0..Len(lines), NEW t \in Readings, TurnRead(t, n)
  PROVE  /\ InOrder(Flushed(t).done)
         /\ Earlier(Flushed(t).done, n, TurnOf(n) + 1)
         /\ \A v \in 1..n : Words(v) => Holds(Flushed(t).done, v)
         /\ Flushed(t).words = <<>>
<1> DEFINE segs == t.done
           turn == [speaker |-> t.speaker, stamped |-> t.stamped, words |-> t.words]
           all == Append(segs, turn)
<1>1. /\ n \in Nat /\ TurnOf(n) \in Int /\ \A v \in 1..n : TurnOf(v) \in Int
  BY TextLines, TurnOfBound
<1>2. CASE t.words = <<>>
  <2>1. Flushed(t) = t
    BY <1>2 DEF Flushed
  <2>2. Earlier(t.done, n, TurnOf(n) + 1)
    BY <1>1 DEF TurnRead, Earlier
  <2> QED
    BY <1>2, <2>1, <2>2 DEF TurnRead
<1>3. CASE t.words # <<>>
  <2>1. Flushed(t).done = all /\ Flushed(t).words = <<>>
    BY <1>3 DEF Flushed, Readings
  <2>2. /\ segs \in Seq(Segments) /\ Len(segs) \in Nat /\ DOMAIN segs = 1..Len(segs)
        /\ DOMAIN all = 1..(Len(segs) + 1) /\ all[Len(segs) + 1] = turn
        /\ \A k \in 1..Len(segs) : all[k] = segs[k]
        /\ turn.words = t.words /\ turn.speaker = t.speaker
    BY DEF Readings
  <2> DEFINE last == Len(segs) + 1
  <2> HIDE DEF all, segs, turn
  <2>3. \A j \in DOMAIN all : (j \in DOMAIN segs /\ j < last /\ all[j] = segs[j])
                              \/ (j = last /\ all[j] = turn)
    BY <2>2
  <2>4. \A k \in DOMAIN segs : \A a \in DOMAIN segs[k].words :
          /\ segs[k].words[a] \in 1..n /\ Words(segs[k].words[a])
          /\ TurnOf(segs[k].words[a]) < TurnOf(n)
          /\ \A i \in DOMAIN turn.words : segs[k].words[a] < turn.words[i]
    BY <2>2 DEF TurnRead, Earlier, segs
  <2>5. \A i \in DOMAIN turn.words :
          /\ turn.words[i] \in 1..n /\ Words(turn.words[i]) /\ TurnOf(turn.words[i]) = TurnOf(n)
          /\ \A j \in DOMAIN turn.words : i < j => turn.words[i] < turn.words[j]
          /\ turn.speaker = SpeakerOf(turn.words[i])
    <3>1. \A v \in 1..n : TurnOf(v) = TurnOf(n) => SpeakerOf(v) = SpeakerOf(n)
      BY DEF SpeakerOf
    <3> QED
      BY <2>2, <3>1 DEF TurnRead
  <2>6. InOrder(all)
    <3> SUFFICES ASSUME NEW j \in DOMAIN all, NEW k \in DOMAIN all,
                        NEW a \in DOMAIN all[j].words, NEW b \in DOMAIN all[k].words
                 PROVE  LET v == all[j].words[a]
                            w == all[k].words[b]
                        IN  /\ (j < k \/ (j = k /\ a < b)) => v < w
                            /\ TurnOf(v) = TurnOf(w) <=> j = k
                            /\ j = k => all[j].speaker = SpeakerOf(v)
      BY DEF InOrder
    <3>1. CASE j \in DOMAIN segs /\ k \in DOMAIN segs
      <4>1. InOrder(segs) /\ all[j] = segs[j] /\ all[k] = segs[k]
        BY <2>2, <2>3, <3>1 DEF TurnRead, segs
      <4> QED
        BY <3>1, <4>1 DEF InOrder
    <3>2. CASE j \in DOMAIN segs /\ k = last
      BY <1>1, <2>2, <2>3, <2>4, <2>5, <3>2
    <3>3. CASE j = last /\ k \in DOMAIN segs
      BY <1>1, <2>2, <2>3, <2>4, <2>5, <3>3
    <3>4. CASE j = last /\ k = last
      BY <1>1, <2>2, <2>3, <2>4, <2>5, <3>4
    <3> QED
      BY <2>3, <3>1, <3>2, <3>3, <3>4
  <2>7. Earlier(all, n, TurnOf(n) + 1)
    BY <1>1, <2>2, <2>3, <2>4, <2>5 DEF Earlier
  <2>8. ASSUME NEW v \in 1..n, Words(v) PROVE Holds(all, v)
    <3>1. CASE Holds(segs, v)
      BY <2>2, <3>1 DEF Holds
    <3>2. CASE \E i \in DOMAIN turn.words : turn.words[i] = v
      <4>1. last \in DOMAIN all /\ all[last] = turn
        BY <2>2
      <4> QED
        BY <3>2, <4>1 DEF Holds
    <3> QED
      BY <2>2, <2>8, <3>1, <3>2 DEF TurnRead, segs
  <2> QED
    BY <2>1, <2>6, <2>7, <2>8
<1> QED
  BY <1>2, <1>3

(* Reading one line more keeps what was read of the lines before.          *)
LEMMA ReadLineKeepsTurns ==
  ASSUME lines \in Transcripts, NEW m \in 1..Len(lines), NEW t \in Readings, TurnRead(t, m - 1)
  PROVE  TurnRead(ReadLine(t, m), m)
<1> DEFINE line == lines[m]
           n == m - 1
           next == ReadLine(t, m)
           f == Flushed(t)
<1> SUFFICES TurnRead(next, m)
  OBVIOUS
<1>1. /\ m \in Nat /\ n \in 0..Len(lines) /\ Len(lines) \in Nat
      /\ \A v \in 1..m : v \in 1..n \/ v = m
      /\ \A v \in 1..n : v < m /\ v \in 1..m
  BY TextLines
<1>2. TurnOf(n) \in Int /\ TurnOf(n) < m /\ \A v \in 1..n : TurnOf(v) \in Int
  BY <1>1, TurnOfBound
<1>3. CASE line.form \in {"blank", "stamp", "spoken"}
  <2>1. /\ InOrder(f.done) /\ Earlier(f.done, n, TurnOf(n) + 1)
        /\ \A v \in 1..n : Words(v) => Holds(f.done, v)
        /\ f.words = <<>> /\ f \in Readings
    BY <1>1, FlushedKeepsTurns, FlushedType
  <2>2. TurnOf(m) = m
    BY <1>3, TurnOfStep
  <2>3. /\ next.done = f.done
        /\ next.words = IF line.form = "spoken" THEN <<m>> ELSE <<>>
        /\ next.speaker = IF line.form = "blank" THEN NoName ELSE line.who
    BY <1>3, <2>1 DEF ReadLine, Readings
  <2>4. next.speaker = SpeakerOf(m)
    BY <1>1, <1>3, <2>2, <2>3 DEF SpeakerOf
  <2>5. Words(m) <=> line.form = "spoken"
    BY <1>3 DEF Words
  <2>6. Earlier(next.done, m, TurnOf(m))
    BY <1>1, <1>2, <2>1, <2>2, <2>3 DEF Earlier
  <2>7. \A k \in DOMAIN next.done : \A a \in DOMAIN next.done[k].words :
          next.done[k].words[a] < m
    BY <1>1, <2>1, <2>3 DEF Earlier
  <2> HIDE DEF next, f
  <2>8. \A v \in 1..m : Words(v) =>
          Holds(next.done, v) \/ \E i \in DOMAIN next.words : next.words[i] = v
    <3> SUFFICES ASSUME NEW v \in 1..m, Words(v)
                 PROVE  Holds(next.done, v) \/ \E i \in DOMAIN next.words : next.words[i] = v
      OBVIOUS
    <3>1. CASE v \in 1..n
      BY <2>1, <2>3, <3>1
    <3>2. CASE v = m
      <4>1. next.words = <<m>>
        BY <2>3, <2>5, <3>2
      <4>2. 1 \in DOMAIN next.words /\ next.words[1] = m
        BY <4>1
      <4> QED
        BY <3>2, <4>2
    <3> QED
      BY <1>1, <3>1, <3>2
  <2>9. \A i \in DOMAIN next.words :
          /\ next.words[i] \in 1..m /\ Words(next.words[i])
          /\ TurnOf(next.words[i]) = TurnOf(m)
          /\ \A j \in DOMAIN next.words : i < j => next.words[i] < next.words[j]
          /\ \A k \in DOMAIN next.done : \A a \in DOMAIN next.done[k].words :
               next.done[k].words[a] < next.words[i]
    <3>1. CASE line.form = "spoken"
      <4>1. next.words = <<m>>
        BY <2>3, <3>1
      <4>2. \A i \in DOMAIN next.words : i = 1 /\ next.words[i] = m
        BY <4>1
      <4> QED
        BY <1>1, <2>5, <2>7, <3>1, <4>2
    <3>2. CASE line.form # "spoken"
      <4>1. next.words = <<>>
        BY <2>3, <3>2
      <4> QED
        BY <4>1
    <3> QED
      BY <3>1, <3>2
  <2> QED
    BY <2>1, <2>3, <2>4, <2>6, <2>8, <2>9 DEF TurnRead
<1>4. CASE line.form \notin {"blank", "stamp", "spoken"}
  <2>1. line.form \in {"plain", "label"}
    BY <1>4, TextLines
  <2>2. TurnOf(m) = TurnOf(n) /\ Words(m)
    BY <1>4, <2>1, TurnOfStep DEF Words
  <2>3. SpeakerOf(m) = SpeakerOf(n)
    BY <2>2 DEF SpeakerOf
  <2>4. next = [t EXCEPT !.words = Append(@, m)]
    BY <2>1 DEF ReadLine
  <2>5. next.done = t.done /\ next.speaker = t.speaker /\ next.words = Append(t.words, m)
    BY <2>4 DEF Readings
  <2>6. /\ t.words \in Seq(1..Len(lines)) /\ Len(t.words) \in Nat
        /\ DOMAIN t.words = 1..Len(t.words) /\ DOMAIN next.words = 1..(Len(t.words) + 1)
        /\ next.words[Len(t.words) + 1] = m
        /\ \A i \in 1..Len(t.words) : next.words[i] = t.words[i]
    BY <2>5 DEF Readings
  <2> HIDE DEF next
  <2>7. \A i \in DOMAIN next.words :
          \/ i \in DOMAIN t.words /\ next.words[i] = t.words[i] /\ i < Len(t.words) + 1
          \/ i = Len(t.words) + 1 /\ next.words[i] = m
    <3> SUFFICES ASSUME NEW i \in 1..(Len(t.words) + 1)
                 PROVE  \/ i \in 1..Len(t.words) /\ i < Len(t.words) + 1
                        \/ i = Len(t.words) + 1
      BY <2>6
    <3> QED
      BY <2>6
  <2>8. Earlier(next.done, m, TurnOf(m))
    BY <1>1, <2>2, <2>5 DEF TurnRead, Earlier
  <2>9. \A v \in 1..m : Words(v) =>
          Holds(next.done, v) \/ \E i \in DOMAIN next.words : next.words[i] = v
    <3> SUFFICES ASSUME NEW v \in 1..m, Words(v)
                 PROVE  Holds(next.done, v) \/ \E i \in DOMAIN next.words : next.words[i] = v
      OBVIOUS
    <3>1. CASE v \in 1..n
      BY <2>5, <2>6, <3>1 DEF TurnRead
    <3>2. CASE v = m
      <4>1. Len(t.words) + 1 \in DOMAIN next.words
        BY <2>6
      <4> QED
        BY <2>6, <3>2, <4>1
    <3> QED
      BY <1>1, <3>1, <3>2
  <2>10. \A i \in DOMAIN t.words :
           /\ t.words[i] \in 1..n /\ Words(t.words[i]) /\ TurnOf(t.words[i]) = TurnOf(n)
           /\ \A j \in DOMAIN t.words : i < j => t.words[i] < t.words[j]
           /\ \A k \in DOMAIN t.done : \A a \in DOMAIN t.done[k].words :
                t.done[k].words[a] < t.words[i]
    BY DEF TurnRead
  <2>11. \A k \in DOMAIN t.done : \A a \in DOMAIN t.done[k].words : t.done[k].words[a] < m
    BY <1>1 DEF TurnRead, Earlier
  <2>12. \A i \in DOMAIN next.words :
           /\ next.words[i] \in 1..m /\ Words(next.words[i])
           /\ TurnOf(next.words[i]) = TurnOf(m)
           /\ \A j \in DOMAIN next.words : i < j => next.words[i] < next.words[j]
           /\ \A k \in DOMAIN next.done : \A a \in DOMAIN next.done[k].words :
                next.done[k].words[a] < next.words[i]
    <3> TAKE i \in DOMAIN next.words
    <3>1. CASE i \in DOMAIN t.words
      BY <1>1, <2>2, <2>5, <2>6, <2>7, <2>10, <3>1
    <3>2. CASE i = Len(t.words) + 1
      BY <1>1, <2>2, <2>5, <2>6, <2>7, <2>11, <3>2
    <3> QED
      BY <2>7, <3>1, <3>2
  <2> QED
    BY <2>3, <2>5, <2>8, <2>9, <2>12 DEF TurnRead
<1> QED
  BY <1>3, <1>4

(* So for the whole transcript: the turns hold the lines with words, each  *)
(* once and in order, under the speaker of the line that began them.       *)
LEMMA ParsedKeepsTurns ==
  ASSUME lines \in Transcripts
  PROVE  /\ Parsed \in Seq(Segments)
         /\ InOrder(Parsed)
         /\ UNION {Range(Parsed[k].words) : k \in DOMAIN Parsed} =
              {n \in DOMAIN lines : Words(n)}
<1> DEFINE N == Len(lines)
           good == {n \in 0..N : TurnRead(Reading[n], n)}
<1>1. 0 \in good
  <2>1. /\ Reading[0].done = <<>> /\ Reading[0].words = <<>> /\ Reading[0].speaker = NoName
        /\ N \in Nat /\ TurnOf(0) = 0
    BY ReadingDef, TurnOfStep DEF NothingRead
  <2>2. InOrder(<<>>) /\ Earlier(<<>>, 0, 0) /\ SpeakerOf(0) = NoName
    BY <2>1 DEF InOrder, Earlier, SpeakerOf
  <2> QED
    BY <2>1, <2>2 DEF TurnRead
<1>2. ASSUME NEW n \in 0..(N - 1), n \in good PROVE n + 1 \in good
  <2>1. n + 1 \in 1..N /\ (n + 1) - 1 = n /\ Reading[n] \in Readings
    BY ReadingDef
  <2>2. Reading[n + 1] = ReadLine(Reading[n], n + 1)
    BY <2>1, ReadingDef
  <2> QED
    BY <1>2, <2>1, <2>2, ReadLineKeepsTurns
<1> HIDE DEF good
<1>3. N \in Nat /\ N \in good
  <2>1. N \in Nat /\ N \in 0..N
    BY TextLines
  <2> HIDE DEF N
  <2> QED
    BY <1>1, <1>2, <2>1, UpToNumber
<1>4. TurnRead(Reading[N], N) /\ Reading[N] \in Readings
  BY <1>3, ReadingDef DEF good
<1>5. /\ InOrder(Parsed)
      /\ Earlier(Parsed, N, TurnOf(N) + 1)
      /\ \A v \in 1..N : Words(v) => Holds(Parsed, v)
      /\ Parsed \in Seq(Segments)
  <2>1. Flushed(Reading[N]) \in Readings /\ Parsed = Flushed(Reading[N]).done /\ N \in 0..N
    BY <1>3, <1>4, FlushedType DEF Parsed
  <2>2. Parsed \in Seq(Segments)
    BY <2>1 DEF Readings
  <2>3. /\ InOrder(Flushed(Reading[N]).done)
        /\ Earlier(Flushed(Reading[N]).done, N, TurnOf(N) + 1)
        /\ \A v \in 1..N : Words(v) => Holds(Flushed(Reading[N]).done, v)
    BY <1>4, <2>1, FlushedKeepsTurns
  <2> QED
    BY <2>1, <2>2, <2>3
<1>6. ASSUME NEW v
      PROVE  Holds(Parsed, v) <=> v \in UNION {Range(Parsed[k].words) : k \in DOMAIN Parsed}
  BY DEF Holds, Range
<1>7. \A v : Holds(Parsed, v) <=> v \in {n \in DOMAIN lines : Words(n)}
  BY <1>3, <1>5, TextLines DEF Holds, Earlier
<1> QED
  BY <1>5, <1>6, <1>7

(* What the plan is made of: a pull request by its number, and a day.      *)
Plannable(item) ==
  /\ item.pull \in Nat /\ item.title \in Titles /\ item.description \in Descriptions
  /\ item.due # NoPhrase /\ ~item.due.by => item.due.of.n \in Nat
  /\ item.due # NoPhrase /\ item.due.of.when \in {"weekday", "next weekday"} /\ ~item.due.by =>
       item.due.of.n \in 0..6

(* The fallback reads the commitments in the order of the turns.           *)
LEMMA CommittingType ==
  ASSUME Len(segments) \in Nat
  PROVE  Committing[Len(segments)] \in Seq(1..Len(segments))
<1> DEFINE N == Len(segments)
           V == Seq(1..N)
           new(n) == /\ Commits(segments[n])
                     /\ \A m \in 1..(n - 1) :
                          Commits(segments[m]) => ~SameItem(segments[m], segments[n])
           F == [p \in (1..N) \X V |-> IF new(p[1]) THEN Append(p[2], p[1]) ELSE p[2]]
           Step(f) == [n \in 0..N |-> IF n = 0 THEN <<>>
                                      ELSE IF new(n) THEN Append(f[n - 1], n) ELSE f[n - 1]]
<1> HIDE DEF new
<1>0. N \in Nat
  OBVIOUS
<1> HIDE DEF N
<1>1. F \in [(1..N) \X V -> V] /\ <<>> \in V
  <2>1. \A n \in 1..N, s \in V : Append(s, n) \in V
    OBVIOUS
  <2>2. \A p \in (1..N) \X V : p[1] \in 1..N /\ p[2] \in V
    OBVIOUS
  <2> HIDE DEF V
  <2>3. \A p \in (1..N) \X V : (IF new(p[1]) THEN Append(p[2], p[1]) ELSE p[2]) \in V
    BY <2>1, <2>2
  <2>4. <<>> \in V
    BY DEF V
  <2> QED
    BY <2>3, <2>4
<1>2. PICK f \in [0..N -> V] : IsLoop(f, N, <<>>, F)
  <2> HIDE DEF F, V
  <2> QED
    BY <1>0, <1>1, LoopHasStates
<1>3. f = Step(f)
  <2>1. ASSUME NEW n \in 0..N, n # 0
        PROVE  F[<<n, f[n - 1]>>] = IF new(n) THEN Append(f[n - 1], n) ELSE f[n - 1]
    <3>1. n \in 1..N /\ f[n - 1] \in V /\ <<n, f[n - 1]>> \in (1..N) \X V
      BY <1>0, <1>2, <2>1
    <3> QED
      BY <3>1
  <2> HIDE DEF F
  <2> QED
    BY <1>2, <2>1 DEF IsLoop
<1>4. Committing = Step(Committing)
  BY <1>3 DEF Committing, new, N
<1>5. \A n \in 0..N : Committing[n] =
        IF n = 0 THEN <<>> ELSE IF new(n) THEN Append(Committing[n - 1], n) ELSE Committing[n - 1]
  <2> HIDE DEF V
  <2> QED
    BY <1>4
<1> HIDE DEF V, F, Step
<1> DEFINE good == {n \in 0..N : Committing[n] \in V}
<1>6. 0 \in good
  <2>1. 0 \in 0..N
    BY <1>0
  <2>2. Committing[0] = <<>>
    BY <1>5, <2>1
  <2> QED
    BY <1>1, <2>1, <2>2
<1>7. ASSUME NEW n \in 0..(N - 1), n \in good PROVE n + 1 \in good
  <2>1. n + 1 \in 1..N /\ n + 1 \in 0..N /\ (n + 1) - 1 = n /\ n + 1 # 0
    BY <1>0
  <2>2. Committing[n + 1] \in {Append(Committing[n], n + 1), Committing[n]}
    BY <1>5, <2>1
  <2>3. Committing[n] \in V
    BY <1>7
  <2>4. \A s \in V : Append(s, n + 1) \in V
    BY <2>1 DEF V
  <2> QED
    BY <2>1, <2>2, <2>3, <2>4
<1> HIDE DEF good
<1>8. \A n \in 0..N : n \in good
  BY <1>0, <1>6, <1>7, UpToNumber
<1> QED
  BY <1>0, <1>8 DEF good, V, N

(* The rest of a sequence from its a-th element on.                        *)
LEMMA RestOf ==
  ASSUME NEW V, NEW s \in Seq(V), NEW a \in 1..Len(s)
  PROVE  /\ DOMAIN SubSeq(s, a, Len(s)) = 1..(Len(s) - a + 1)
         /\ \A k \in 1..(Len(s) - a + 1) :
              a + k - 1 \in DOMAIN s /\ SubSeq(s, a, Len(s))[k] = s[a + k - 1]
  OBVIOUS

(* What the fallback finds is what lines of the transcript say.            *)
LEMMA CommitmentLines ==
  ASSUME lines \in Transcripts, NEW segment \in Segments
  PROVE  /\ DOMAIN Commitment(segment) \subseteq Nat
         /\ \A k \in DOMAIN Commitment(segment) : Commitment(segment)[k].pull \in Nat
<1> DEFINE said == [k \in DOMAIN segment.words |-> lines[segment.words[k]].says]
           from == {k \in DOMAIN said : said[k].promises}
<1>1. /\ segment.words \in Seq(1..Len(lines)) /\ Len(segment.words) \in Nat
      /\ DOMAIN segment.words = 1..Len(segment.words)
  BY DEF Segments
<1>2. \A k \in DOMAIN said : said[k].pull \in Nat
  BY <1>1, TextLines
<1>3. DOMAIN said = 1..Len(segment.words)
  BY <1>1
<1>4. \/ Commitment(segment) = <<>>
      \/ from # {} /\ Commitment(segment) = SubSeq(said, Min(from), Len(said))
  BY DEF Commitment
<1>5. said \in Seq(Range(said)) /\ Len(said) = Len(segment.words)
  BY <1>1, <1>3 DEF Range
<1> HIDE DEF said
<1>6. CASE from # {} /\ Commitment(segment) = SubSeq(said, Min(from), Len(said))
  <2>1. from \in SUBSET Nat
    BY <1>3
  <2>2. Min(from) \in from /\ Min(from) \in 1..Len(said)
    BY <1>3, <1>5, <1>6, <2>1, LeastNumber
  <2>3. /\ DOMAIN Commitment(segment) = 1..(Len(said) - Min(from) + 1)
        /\ \A k \in DOMAIN Commitment(segment) :
             /\ Min(from) + k - 1 \in DOMAIN said
             /\ Commitment(segment)[k] = said[Min(from) + k - 1]
    BY ONLY <1>5, <1>6, <2>2, RestOf
  <2>4. DOMAIN Commitment(segment) \subseteq Nat
    BY <2>3
  <2> QED
    BY <1>2, <2>3, <2>4
<1> QED
  BY <1>4, <1>6

(* What the fallback makes of the turns can be planned,                    *)
LEMMA FallbackPlannable ==
  ASSUME lines \in Transcripts, segments \in Seq(Segments)
  PROVE  /\ FallbackItems \in Seq(Range(FallbackItems))
         /\ \A k \in DOMAIN FallbackItems : Plannable(FallbackItems[k])
<1> DEFINE first == Committing[Len(segments)]
<1>1. /\ Len(segments) \in Nat /\ DOMAIN segments = 1..Len(segments)
      /\ \A n \in 1..Len(segments) : segments[n] \in Segments
  OBVIOUS
<1>2. /\ first \in Seq(1..Len(segments)) /\ Len(first) \in Nat
      /\ DOMAIN first = 1..Len(first)
      /\ \A k \in DOMAIN first : first[k] \in 1..Len(segments)
  BY <1>1, CommittingType
<1> HIDE DEF first
<1>3. FallbackItems = [k \in DOMAIN first |-> FallbackItem(first[k])]
  BY DEF FallbackItems, first
<1>4. FallbackItems \in Seq(Range(FallbackItems))
  BY <1>2, <1>3 DEF Range
<1>5. ASSUME NEW n \in 1..Len(segments) PROVE Plannable(FallbackItem(n))
  <2> DEFINE body == Commitment(segments[n])
             numbers == {k \in DOMAIN body : body[k].pull # 0}
  <2>1. DOMAIN body \subseteq Nat /\ \A k \in DOMAIN body : body[k].pull \in Nat
    BY <1>1, CommitmentLines
  <2>2. PullNumber(body) \in Nat
    <3>1. numbers # {} => Min(numbers) \in numbers
      <4>1. numbers \in SUBSET Nat
        BY <2>1
      <4> HIDE DEF numbers
      <4> QED
        BY <4>1, LeastNumber
    <3> QED
      BY <2>1, <3>1 DEF PullNumber
  <2>3. /\ FallbackItem(n).pull = PullNumber(body) /\ FallbackItem(n).due = ExtractedDeadline(body)
        /\ FallbackItem(n).title \in Titles /\ FallbackItem(n).description \in Descriptions
    BY DEF FallbackItem, Titles, Descriptions
  <2>4. ExtractedDeadline(body) = NoPhrase \/ ExtractedDeadline(body).by = TRUE
    BY DEF ExtractedDeadline
  <2> QED
    BY <2>2, <2>3, <2>4 DEF Plannable
<1> QED
  BY <1>2, <1>3, <1>4, <1>5

(* and so can what the model answered, or the fallback in its place.       *)
LEMMA ItemsPlannable ==
  ASSUME lines \in Transcripts, segments \in Seq(Segments), NEW answer \in Answers
  PROVE  /\ ActionItems(answer) \in Seq(Range(ActionItems(answer)))
         /\ \A k \in DOMAIN ActionItems(answer) : Plannable(ActionItems(answer)[k])
<1>1. CASE answer.items = <<>>
  BY <1>1, FallbackPlannable DEF ActionItems
<1>2. CASE answer.items # <<>>
  <2>1. ActionItems(answer) = answer.items
    BY <1>2 DEF ActionItems
  <2> QED
    BY <2>1, MeetingAssumption DEF Plannable
<1> QED
  BY <1>1, <1>2

(* Planning grounds each item in the members, repository and day read.     *)
LEMMA PlannedIsGrounded ==
  ASSUME day \in Nat, NEW item, Plannable(item), item.refs \subseteq DOMAIN segments
  PROVE  /\ PlannedAction(Planned(item, seen)) /\ Grounded(Planned(item, seen))
         /\ Planned(item, seen).refs \subseteq DOMAIN segments
<1> DEFINE d == Planned(item, seen)
<1>1. /\ DOMAIN d = {"owner", "category", "refs", "member", "identity", "due", "date", "to",
                      "labels", "pull", "title", "description"}
      /\ d.owner = item.owner /\ d.category = item.category
      /\ d.refs = item.refs /\ d.member = Identity(item.owner, seen.members).member
      /\ d.due = item.due /\ d.date = RelativeDate(item.due)
      /\ d.to = DefaultDestinations(item.category, item.pull, seen.repository)
      /\ d.pull = item.pull /\ d.title = item.title /\ d.description = item.description
  BY DEF Planned
<1> HIDE DEF d
<1>2. /\ d.to \in {<<>>, <<"github">>, <<"notion">>, <<"notion", "github">>}
      /\ d.category = "REVIEW_REQUEST" /\ d.to # <<>> => d.pull # 0
  BY <1>1 DEF DefaultDestinations
<1>3. d.to \in Seq({"notion", "github"}) /\ \A i, j \in DOMAIN d.to : d.to[i] = d.to[j] => i = j
  <2>1. CASE d.to = <<>>
    BY <2>1
  <2>2. CASE d.to = <<"github">>
    BY <2>2
  <2>3. CASE d.to = <<"notion">>
    BY <2>3
  <2>4. CASE d.to = <<"notion", "github">>
    BY <2>4
  <2> QED
    BY <1>2, <2>1, <2>2, <2>3, <2>4
<1>4. d.date \in Nat \cup {NoDate, Unreadable} /\ (d.date # NoDate => DateFits(d.due, d.date))
  <2>1. /\ item.due # NoPhrase /\ ~item.due.by => item.due.of.n \in Nat
        /\ item.due # NoPhrase /\ item.due.of.when \in {"weekday", "next weekday"}
             /\ ~item.due.by => item.due.of.n \in 0..6
    BY DEF Plannable
  <2>2. /\ RelativeDate(item.due) \in Nat \cup {NoDate}
        /\ RelativeDate(item.due) # NoDate => DateFits(item.due, RelativeDate(item.due))
    BY <2>1, RelativeDateFits
  <2> QED
    BY <1>1, <2>2
<1>5. d.member # NoMember => OnlyOne(d.owner, d.member, seen.members)
  BY <1>1, ResolvedIsOnlyOne
<1>6. PlannedAction(d) /\ d.refs \subseteq DOMAIN segments
  <2>1. item.pull \in Nat /\ item.title \in Titles /\ item.description \in Descriptions
    BY DEF Plannable
  <2>2. d.pull \in Int /\ d.title \in Titles /\ d.description \in Descriptions
    BY ONLY <1>1, <2>1
  <2>3. PlannedAction(d)
    BY ONLY <1>1, <1>3, <1>4, <2>2 DEF PlannedAction
  <2> QED
    BY <1>1, <2>3
<1>7. Grounded(d)
  BY <1>2, <1>3, <1>4, <1>5 DEF Grounded
<1> QED
  BY <1>6, <1>7 DEF d

(* What clients send has the field types of PlannedAction, and no more.    *)
LEMMA SentTyped ==
  ASSUME NEW items \in Sent
  PROVE  /\ items \in Seq(Range(items))
         /\ \A k \in DOMAIN items : PlannedAction(items[k])
  BY MeetingAssumption

--------------------------------------------------------------------------------
(* What is known of the constants.                                         *)
LEMMA MeetingConstants ==
  /\ MeetingDays \subseteq Nat /\ MaxChanges \in Nat /\ MaxEdits \in Nat
  /\ Rosters \subseteq [MemberIds -> Persons \cup {NoMember}]
  /\ NoMember \notin MemberIds /\ NoMember \notin Persons /\ NoSchema \notin Schemas
  BY MeetingAssumption

(* A draft is as grounded after a step as before it, if the step leaves    *)
(* the day of the meeting and what was read of the members.                *)
LEMMA GroundedStays ==
  ASSUME day' = day, seen' = seen, NEW k \in DOMAIN drafts', Grounded(drafts'[k])
  PROVE  Grounded(drafts[k])'
<1>1. OnlyOne(drafts[k].owner, drafts[k].member, seen.members)'
        <=> OnlyOne(drafts'[k].owner, drafts'[k].member, seen.members)
  BY DEF OnlyOne
<1>2. DateFits(drafts[k].due, drafts[k].date)' <=> DateFits(drafts'[k].due, drafts'[k].date)
  BY DEF DateFits, Weekday
<1> QED
  BY <1>1, <1>2 DEF Grounded

(* So a plan stays grounded as long as nobody edits it.                    *)
LEMMA PlanStaysGrounded ==
  ASSUME DraftsStayGrounded, day' = day, seen' = seen, drafts' = drafts, edits' = edits,
         stage' \in {"plan_ready", "asking"} => stage \in {"plan_ready", "asking"}
  PROVE  DraftsStayGrounded'
<1> SUFFICES ASSUME stage' \in {"plan_ready", "asking"}, edits' = 0, NEW k \in DOMAIN drafts'
             PROVE  Grounded(drafts[k])'
  BY DEF DraftsStayGrounded
<1>1. Grounded(drafts'[k])
  BY DEF DraftsStayGrounded
<1> QED
  BY <1>1, GroundedStays

(* The invariant holds when the transcript is uploaded,                    *)
LEMMA MeetingStart ==
  MeetingInit => MeetingIInv
<1> SUFFICES ASSUME MeetingInit PROVE MeetingIInv
  OBVIOUS
<1>1. /\ lines \in Transcripts /\ day \in MeetingDays
      /\ stage = "uploaded" /\ segments = <<>> /\ drafts = <<>>
      /\ members \in Rosters /\ repository = TRUE /\ database = TRUE
      /\ seen = Current /\ read = Current
      /\ actions = {} /\ skipped = {} /\ held = {} /\ changes = 0 /\ edits = 0
  BY DEF MeetingInit
<1>2. members \in [MemberIds -> Persons \cup {NoMember}]
  BY <1>1, MeetingConstants
<1>3. Current \in FactsRead
  BY <1>1, <1>2 DEF Current, FactsRead
<1>4. changes \in 0..MaxChanges /\ edits \in 0..MaxEdits
  BY ONLY <1>1, MeetingConstants
<1>5. DOMAIN drafts = {} /\ drafts \in Seq(Range(drafts))
  BY <1>1
<1>6. MeetingTypeOK
  BY <1>1, <1>2, <1>4, <1>5 DEF MeetingTypeOK
<1>7. MeetingInOrder
  BY <1>1, <1>3, <1>5 DEF MeetingInOrder
<1> QED
  BY <1>1, <1>6, <1>7
  DEF MeetingIInv, LoginsHeld, DraftsStayGrounded, ActionsAreGrounded

(* What was parsed stays what the text says.                               *)
LEMMA ParsedStays ==
  ASSUME lines' = lines
  PROVE  Parsed' = Parsed
<1>1. Reading' = Reading
  BY SMT DEF Reading, ReadLine, Flushed
<1> QED
  BY <1>1 DEF Parsed, Flushed

(* and is kept by parsing it,                                              *)
LEMMA MeetingParse ==
  ASSUME MeetingIInv, Parse PROVE MeetingIInv'
<1>1. /\ lines' = lines /\ day' = day
      /\ stage = "uploaded" /\ stage' \in {"failed", "transcript_ready"}
      /\ segments' = Parsed /\ drafts' = drafts /\ drafts = <<>>
      /\ members' = members /\ repository' = repository /\ database' = database
      /\ seen' = seen /\ read' = read
      /\ actions' = {} /\ skipped' = {} /\ held' = held /\ changes' = changes /\ edits' = edits
  BY DEF Parse, MeetingIInv, MeetingInOrder, project
<1>2. Parsed' = Parsed
  BY <1>1, ParsedStays
<1>3. MeetingTypeOK'
  BY <1>1 DEF MeetingIInv, MeetingTypeOK
<1>4. MeetingInOrder'
  BY <1>1, <1>2 DEF MeetingIInv, MeetingInOrder
<1> QED
  BY <1>1, <1>3, <1>4 DEF MeetingIInv, LoginsHeld, DraftsStayGrounded, ActionsAreGrounded

(* by reading the project before the analysis,                             *)
LEMMA MeetingAnalyzeBegin ==
  ASSUME MeetingIInv, AnalyzeBegin PROVE MeetingIInv'
<1>1. /\ lines' = lines /\ day' = day /\ stage = "transcript_ready" /\ stage' = "analyzing"
      /\ segments' = segments /\ drafts' = drafts /\ drafts = <<>>
      /\ members' = members /\ repository' = repository /\ database' = database
      /\ seen' = Current /\ read' = read
      /\ actions' = {} /\ skipped' = {} /\ held' = held /\ changes' = changes /\ edits' = edits
  BY DEF AnalyzeBegin, MeetingIInv, MeetingInOrder, project
<1>2. Parsed' = Parsed
  BY <1>1, ParsedStays
<1>3. Current \in FactsRead
  BY DEF Current, FactsRead, MeetingIInv, MeetingTypeOK
<1>4. MeetingTypeOK'
  BY <1>1 DEF MeetingIInv, MeetingTypeOK
<1>5. MeetingInOrder'
  BY <1>1, <1>2, <1>3 DEF MeetingIInv, MeetingInOrder
<1> QED
  BY <1>1, <1>4, <1>5 DEF MeetingIInv, LoginsHeld, DraftsStayGrounded, ActionsAreGrounded

(* by the answer of the model, however late,                               *)
LEMMA MeetingAnalyzeDone ==
  ASSUME MeetingIInv, NEW answer \in Answers, AnalyzeDone(answer) PROVE MeetingIInv'
<1>1. /\ lines' = lines /\ day' = day /\ stage = "analyzing" /\ stage' \in {"plan_ready", "failed"}
      /\ segments' = segments /\ segments = Parsed
      /\ members' = members /\ repository' = repository /\ database' = database
      /\ seen' = seen /\ read' = read /\ actions = {} /\ skipped = {}
      /\ actions' = {} /\ skipped' = {} /\ held' = held /\ changes' = changes /\ edits' = edits
  BY DEF AnalyzeDone, MeetingIInv, MeetingInOrder, project
<1>2. Parsed' = Parsed /\ lines \in Transcripts /\ day \in Nat
  BY <1>1, ParsedStays, MeetingConstants DEF MeetingIInv, MeetingInOrder
<1> DEFINE items == ActionItems(answer)
<1>3. /\ drafts' \in Seq(Range(drafts'))
      /\ \A k \in DOMAIN drafts' :
           /\ PlannedAction(drafts'[k]) /\ drafts'[k].refs \subseteq DOMAIN segments
           /\ stage' = "plan_ready" => Grounded(drafts'[k])
  <2>1. CASE ~ReferencesValid(answer)
    <3>1. drafts' = <<>>
      BY <1>1, <2>1 DEF AnalyzeDone, MeetingIInv, MeetingInOrder
    <3> QED
      BY <3>1
  <2>2. CASE ReferencesValid(answer)
    <3>1. segments \in Seq(Segments)
      BY <1>1, <1>2, ParsedKeepsTurns
    <3>2. items \in Seq(Range(items)) /\ \A k \in DOMAIN items : Plannable(items[k])
      BY <1>2, <3>1, ItemsPlannable
    <3>3. \A k \in DOMAIN items : items[k].refs \subseteq DOMAIN segments
      BY <2>2 DEF ReferencesValid
    <3>4. drafts' = [k \in DOMAIN items |-> Planned(items[k], seen)]
      BY <2>2 DEF AnalyzeDone
    <3> HIDE DEF items
    <3>5. Len(items) \in Nat /\ DOMAIN drafts' = 1..Len(items)
      BY <3>2, <3>4
    <3>6. drafts' \in [1..Len(items) -> Range(drafts')]
      BY <3>4, <3>5 DEF Range
    <3>7. drafts' \in Seq(Range(drafts'))
      BY <3>5, <3>6
    <3>8. \A k \in DOMAIN drafts' : /\ PlannedAction(drafts'[k]) /\ Grounded(drafts'[k])
                                    /\ drafts'[k].refs \subseteq DOMAIN segments
      BY <1>2, <3>2, <3>3, <3>4, PlannedIsGrounded
    <3> QED
      BY <3>7, <3>8
  <2> QED
    BY <2>1, <2>2
<1>4. MeetingTypeOK'
  <2>1. \A k \in DOMAIN drafts' : PlannedAction(drafts[k])'
    BY <1>3 DEF PlannedAction
  <2> QED
    BY <1>1, <1>3, <2>1 DEF MeetingIInv, MeetingTypeOK
<1>5. MeetingInOrder'
  BY <1>1, <1>2, <1>3 DEF MeetingIInv, MeetingInOrder
<1>6. DraftsStayGrounded'
  <2> SUFFICES ASSUME stage' = "plan_ready", NEW k \in DOMAIN drafts'
               PROVE  Grounded(drafts[k])'
    BY <1>1 DEF DraftsStayGrounded
  <2>1. Grounded(drafts'[k])
    BY <1>3
  <2> QED
    BY <1>1, <2>1, GroundedStays
<1> QED
  BY <1>1, <1>4, <1>5, <1>6 DEF MeetingIInv, LoginsHeld, ActionsAreGrounded

(* by whatever drafts the client sends,                                    *)
LEMMA MeetingUpdateActionItems ==
  ASSUME MeetingIInv, NEW items \in Sent, UpdateActionItems(items)
  PROVE  MeetingIInv'
<1>1. /\ lines' = lines /\ day' = day /\ stage = "plan_ready" /\ stage' = "plan_ready"
      /\ segments' = segments /\ drafts' = items /\ edits < MaxEdits /\ edits' = edits + 1
      /\ members' = members /\ repository' = repository /\ database' = database
      /\ seen' = seen /\ read' = read
      /\ actions' = {} /\ skipped' = {} /\ held' = held /\ changes' = changes
  BY DEF UpdateActionItems, MeetingIInv, MeetingInOrder, project
<1>2. Parsed' = Parsed
  BY <1>1, ParsedStays
<1>3. items \in Seq(Range(items)) /\ \A k \in DOMAIN items : PlannedAction(items[k])
  BY SentTyped
<1>4. edits' \in 1..MaxEdits /\ edits' # 0
  BY <1>1, MeetingConstants DEF MeetingIInv, MeetingTypeOK
<1>5. MeetingTypeOK'
  <2>1. \A k \in DOMAIN drafts' : PlannedAction(drafts[k])'
    BY <1>1, <1>3 DEF PlannedAction
  <2> QED
    BY <1>1, <1>4, <2>1 DEF MeetingIInv, MeetingTypeOK
<1>6. MeetingInOrder'
  BY <1>1, <1>2, <1>3 DEF MeetingIInv, MeetingInOrder
<1> QED
  BY <1>1, <1>4, <1>5, <1>6
  DEF MeetingIInv, LoginsHeld, DraftsStayGrounded, ActionsAreGrounded

(* by reading the project before the proposal,                             *)
LEMMA MeetingAskApproval ==
  ASSUME MeetingIInv, AskApproval PROVE MeetingIInv'
<1>1. /\ lines' = lines /\ day' = day /\ stage = "plan_ready" /\ stage' = "asking"
      /\ segments' = segments /\ drafts' = drafts
      /\ members' = members /\ repository' = repository /\ database' = database
      /\ seen' = seen /\ read' = Current
      /\ actions' = {} /\ skipped' = {} /\ held' = Logins(members)
      /\ changes' = changes /\ edits' = edits
  BY DEF AskApproval, ReadAgain, MeetingIInv, MeetingInOrder, project
<1>2. Parsed' = Parsed
  BY <1>1, ParsedStays
<1>3. Current \in FactsRead /\ Current.members = members
  BY DEF Current, FactsRead, MeetingIInv, MeetingTypeOK
<1>4. MeetingTypeOK'
  BY <1>1 DEF MeetingIInv, MeetingTypeOK
<1>5. MeetingInOrder'
  BY <1>1, <1>2, <1>3 DEF MeetingIInv, MeetingInOrder
<1>6. LoginsHeld'
  BY <1>1, <1>3 DEF LoginsHeld, Logins
<1>7. DraftsStayGrounded'
  BY <1>1, PlanStaysGrounded DEF MeetingIInv
<1> QED
  BY <1>1, <1>4, <1>5, <1>6, <1>7 DEF MeetingIInv, ActionsAreGrounded

(* by the proposal,                                                        *)
LEMMA MeetingPropose ==
  ASSUME MeetingIInv, NEW listed, NEW schema \in DatabaseSchemas,
         Propose(RepositoryFacts(listed), schema)
  PROVE  MeetingIInv'
<1>1. /\ lines' = lines /\ day' = day /\ stage = "asking" /\ stage' \in {"plan_ready", "proposed"}
      /\ segments' = segments /\ drafts' = drafts
      /\ members' = members /\ repository' = repository /\ database' = database
      /\ seen' = seen /\ changes' = changes /\ edits' = edits
      /\ actions = {} /\ skipped = {}
  BY DEF Propose, MeetingIInv, MeetingInOrder, project
<1>2. Parsed' = Parsed /\ Wanted' = Wanted
  BY <1>1, ParsedStays DEF Wanted
<1>3. \/ /\ stage' = "plan_ready" /\ read' = read /\ actions' = {} /\ skipped' = {}
      \/ /\ stage' = "proposed" /\ read' = [read EXCEPT !.schema = schema] /\ held' = held
         /\ skipped' \subseteq Wanted
  BY <1>1 DEF Propose
<1>4. read' \in FactsRead /\ read'.members = read.members
  <2>1. schema \in Schemas \cup {NoSchema} /\ read \in FactsRead
    BY DEF DatabaseSchemas, MeetingIInv, MeetingInOrder
  <2> QED
    BY <1>3, <2>1 DEF FactsRead
<1>5. ActionsAreGrounded' /\ (actions' # {} => \A a \in actions' : Supported(a, schema))
  BY ProposeGrounds
<1>6. \A a \in actions' : /\ <<a.draft, a.place>> \in Wanted'
                          /\ a.kind \in {"task", "issue", "review"}
  <2>1. CASE stage' = "plan_ready"
    BY <1>3, <2>1
  <2>2. CASE stage' = "proposed"
    BY <1>5, <2>2 DEF ActionsAreGrounded, Supported
  <2> QED
    BY <1>1, <2>1, <2>2
<1>7. MeetingTypeOK'
  BY <1>1, <1>2, <1>3, <1>6 DEF MeetingIInv, MeetingTypeOK
<1>8. MeetingInOrder'
  BY <1>1, <1>2, <1>3, <1>4 DEF MeetingIInv, MeetingInOrder
<1>9. LoginsHeld'
  BY <1>1, <1>3, <1>4 DEF MeetingIInv, LoginsHeld, Logins
<1>10. DraftsStayGrounded'
  BY <1>1, PlanStaysGrounded DEF MeetingIInv
<1> QED
  BY <1>5, <1>7, <1>8, <1>9, <1>10 DEF MeetingIInv

(* An edit of the project leaves the run alone, and what it had before     *)
(* stays among what the project had.                                       *)
LEMMA MeetingChange ==
  ASSUME MeetingIInv, Change, members' \in [MemberIds -> Persons \cup {NoMember}],
         repository' \in BOOLEAN, database' \in BOOLEAN
  PROVE  MeetingIInv'
<1>1. /\ lines' = lines /\ day' = day /\ stage' = stage
      /\ segments' = segments /\ drafts' = drafts
      /\ seen' = seen /\ read' = read /\ actions' = actions /\ skipped' = skipped
      /\ changes < MaxChanges /\ changes' = changes + 1 /\ edits' = edits
      /\ held \subseteq held' /\ (stage = "proposed" => held' = held)
  BY DEF Change
<1>2. Parsed' = Parsed /\ Wanted' = Wanted
  BY <1>1, ParsedStays DEF Wanted
<1>3. changes' \in 0..MaxChanges
  BY <1>1, MeetingConstants DEF MeetingIInv, MeetingTypeOK
<1>4. MeetingTypeOK'
  BY <1>1, <1>2, <1>3 DEF MeetingIInv, MeetingTypeOK
<1>5. MeetingInOrder'
  BY <1>1, <1>2 DEF MeetingIInv, MeetingInOrder
<1>6. LoginsHeld'
  BY <1>1 DEF MeetingIInv, LoginsHeld, Logins
<1>7. DraftsStayGrounded'
  BY <1>1, PlanStaysGrounded DEF MeetingIInv
<1>8. ActionsAreGrounded'
  BY <1>1, <1>2 DEF MeetingIInv, ActionsAreGrounded
<1> QED
  BY <1>4, <1>5, <1>6, <1>7, <1>8 DEF MeetingIInv

(* and by nothing at all.                                                  *)
LEMMA MeetingStutter ==
  ASSUME MeetingIInv, UNCHANGED meetingVars PROVE MeetingIInv'
<1>1. /\ lines' = lines /\ day' = day /\ stage' = stage
      /\ segments' = segments /\ drafts' = drafts
      /\ members' = members /\ repository' = repository /\ database' = database
      /\ seen' = seen /\ read' = read /\ actions' = actions /\ skipped' = skipped
      /\ changes' = changes /\ edits' = edits /\ held' = held
  BY DEF meetingVars, project
<1>2. Parsed' = Parsed /\ Wanted' = Wanted
  BY <1>1, ParsedStays DEF Wanted
<1>3. MeetingTypeOK' /\ MeetingInOrder'
  BY <1>1, <1>2 DEF MeetingIInv, MeetingTypeOK, MeetingInOrder
<1>4. LoginsHeld' /\ ActionsAreGrounded'
  BY <1>1, <1>2 DEF MeetingIInv, LoginsHeld, Logins, ActionsAreGrounded
<1>5. DraftsStayGrounded'
  BY <1>1, PlanStaysGrounded DEF MeetingIInv
<1> QED
  BY <1>3, <1>4, <1>5 DEF MeetingIInv

(* Every step keeps the invariant.                                         *)
LEMMA MeetingStep ==
  MeetingIInv /\ [MeetingNext]_meetingVars => MeetingIInv'
<1> SUFFICES ASSUME MeetingIInv, [MeetingNext]_meetingVars PROVE MeetingIInv'
  OBVIOUS
<1>0. /\ members \in [MemberIds -> Persons \cup {NoMember}]
      /\ repository \in BOOLEAN /\ database \in BOOLEAN
  BY DEF MeetingIInv, MeetingTypeOK
<1>1. CASE Parse
  BY <1>1, MeetingParse
<1>2. CASE AnalyzeBegin
  BY <1>2, MeetingAnalyzeBegin
<1>3. ASSUME NEW answer \in Answers, AnalyzeDone(answer) PROVE MeetingIInv'
  BY <1>3, MeetingAnalyzeDone
<1>4. ASSUME NEW items \in Sent, UpdateActionItems(items) PROVE MeetingIInv'
  BY <1>4, MeetingUpdateActionItems
<1>5. CASE AskApproval
  BY <1>5, MeetingAskApproval
<1>6. ASSUME NEW listed \in BOOLEAN, NEW schema \in DatabaseSchemas,
             Propose(RepositoryFacts(listed), schema)
      PROVE  MeetingIInv'
  BY <1>6, MeetingPropose
<1>7. ASSUME NEW m \in MemberIds, NEW person \in Persons, AddMember(m, person) PROVE MeetingIInv'
  BY <1>0, <1>7, MeetingChange DEF AddMember
<1>8. ASSUME NEW m \in MemberIds, NEW person \in Persons, UpdateMember(m, person)
      PROVE  MeetingIInv'
  BY <1>0, <1>8, MeetingChange DEF UpdateMember
<1>9. ASSUME NEW m \in MemberIds, RemoveMember(m) PROVE MeetingIInv'
  BY <1>0, <1>9, MeetingChange DEF RemoveMember
<1>10. ASSUME NEW hasRepository \in BOOLEAN, NEW hasDatabase \in BOOLEAN,
              UpdateProject(hasRepository, hasDatabase)
       PROVE  MeetingIInv'
  BY <1>0, <1>10, MeetingChange DEF UpdateProject
<1>11. CASE UNCHANGED meetingVars
  BY <1>11, MeetingStutter
<1> QED
  BY <1>1, <1>2, <1>3, <1>4, <1>5, <1>6, <1>7, <1>8, <1>9, <1>10, <1>11 DEF MeetingNext

(* The inductive invariant of the meeting analysis: the turns are those of *)
(* the text, drafts and actions stay grounded, and every login in use was  *)
(* held by its member.                                                     *)
THEOREM MeetingInductive == MeetingSpec => []MeetingIInv
<1>1. MeetingInit => MeetingIInv
  BY MeetingStart
<1>2. MeetingIInv /\ [MeetingNext]_meetingVars => MeetingIInv'
  BY MeetingStep
<1> QED
  BY <1>1, <1>2, PTL DEF MeetingSpec

(* Every field of the workflow has its type in every state that is         *)
(* reached, whatever the client sends; the turns a planned draft cites     *)
(* exist, those of a draft the client has sent need not.                   *)
THEOREM MeetingTypeCorrect == MeetingSpec => []MeetingTypeOK
<1>1. MeetingIInv => MeetingTypeOK
  BY DEF MeetingIInv
<1> QED
  BY <1>1, MeetingInductive, PTL

(* However uploads, answers, edits and changes of the project follow each  *)
(* other: the turns keep every line with words once, in order and under    *)
(* the speaker of its turn; and in a plan shown for review, as analyze()   *)
(* left it, a draft has a member only when nobody else has the name, a     *)
(* date only where the phrase puts it, and GitHub as the destination of a  *)
(* review only with a pull request to review.                              *)
THEOREM PlansAreGrounded == MeetingSpec => []PlanIsGrounded
<1>1. MeetingIInv => PlanIsGrounded
  <2> SUFFICES ASSUME MeetingIInv PROVE PlanIsGrounded
    OBVIOUS
  <2>1. CASE stage = "uploaded"
    <3>1. segments = <<>>
      BY <2>1 DEF MeetingIInv, MeetingInOrder
    <3> QED
      BY <2>1, <3>1 DEF PlanIsGrounded, TurnsAreKept
  <2>2. CASE stage # "uploaded"
    <3>1. segments = Parsed /\ lines \in Transcripts
      BY <2>2 DEF MeetingIInv, MeetingInOrder
    <3>2. TurnsAreKept
      BY <2>2, <3>1, ParsedKeepsTurns DEF TurnsAreKept, InOrder
    <3> QED
      BY <3>2 DEF PlanIsGrounded, MeetingIInv, DraftsStayGrounded
  <2> QED
    BY <2>1, <2>2
<1> QED
  BY <1>1, MeetingInductive, PTL

(* However the members, the repository and the database change meanwhile,  *)
(* and whatever drafts the client has sent: each destination in a draft's  *)
(* list, as often as it is listed, becomes one action or is reported as    *)
(* skipped, and a plan nobody has edited lists none twice; a login in it   *)
(* belonged to the draft's member since approval was asked for; no action  *)
(* is there that the connectors' payloads refuse; issues name only what    *)
(* the repository has, and no column is written that the database lacks.   *)
THEOREM ProposalsAreGrounded == MeetingSpec => []ActionsAreGrounded
<1>1. MeetingIInv => ActionsAreGrounded
  BY DEF MeetingIInv
<1> QED
  BY <1>1, MeetingInductive, PTL
================================================================================
