---------------------- MODULE ProviderAdmission_proofs ----------------------
(***************************************************************************)
(* Proofs about ProviderAdmission, for every set of reviewers, every       *)
(* grouping and every value of the limits.                                 *)
(***************************************************************************)
EXTENDS ProviderAdmission, FiniteSetTheorems, SequenceTheorems, TLAPS

\* The queue holds waiting reviewers, each at most once.
QueueSound ==
  /\ \A i \in 1..Len(queue) : pc[queue[i]] = "queued"
  /\ \A i, j \in 1..Len(queue) : queue[i] = queue[j] => i = j

\* The inductive invariant: the counters are right because a slot is granted
\* only to a reviewer that is queued, hence holds none, and because a release
\* closure runs only while the slot is still held.
IInv == TypeOK /\ SlotsAccounted /\ SlotsHaveOwners /\ QueueSound

USE DEF slots, breaker, vars

-----------------------------------------------------------------------------
\* Removing one entry of a sequence: what is left are other entries of it, in
\* order.
LEMMA RemoveAtProperties ==
  ASSUME NEW S, NEW s \in Seq(S), NEW k \in 1..Len(s)
  PROVE  /\ RemoveAt(s, k) \in Seq(S)
         /\ Len(RemoveAt(s, k)) = Len(s) - 1
         /\ \A i \in 1..Len(s)-1 :
              RemoveAt(s, k)[i] = IF i < k THEN s[i] ELSE s[i+1]
<1> DEFINE a == SubSeq(s, 1, k-1)
           b == SubSeq(s, k+1, Len(s))
<1>1. a \in Seq(S) /\ Len(a) = k-1 /\ \A i \in 1..k-1 : a[i] = s[i]
  OBVIOUS
<1>2. b \in Seq(S) /\ Len(b) = Len(s)-k /\ \A i \in 1..Len(s)-k : b[i] = s[k+i]
  OBVIOUS
<1>3. RemoveAt(s, k) = a \o b
  BY DEF RemoveAt
<1> HIDE DEF a, b
<1>4. Len(a \o b) = Len(s) - 1 /\ a \o b \in Seq(S)
  <2>1. a \o b \in Seq(S)
    BY <1>1, <1>2
  <2>2. Len(a \o b) = Len(a) + Len(b)
    BY <1>1, <1>2, ConcatProperties
  <2>3. Len(s) \in Nat
    OBVIOUS
  <2>4. QED
    BY <1>1, <1>2, <2>1, <2>2, <2>3
<1>5. ASSUME NEW i \in 1..Len(s)-1
      PROVE  (a \o b)[i] = IF i < k THEN s[i] ELSE s[i+1]
  <2>1. CASE i < k
    BY <1>1, <1>2, <2>1
  <2>2. CASE ~(i < k)
    <3>1. i - (k-1) \in 1..Len(s)-k /\ k + (i - (k-1)) = i + 1
      BY <2>2
    <3>2. (a \o b)[i] = b[i - (k-1)]
      BY <1>1, <1>2, <2>2, <3>1
    <3>3. b[i - (k-1)] = s[k + (i - (k-1))]
      BY <1>2, <3>1
    <3>4. QED
      BY <2>2, <3>1, <3>2, <3>3
  <2>3. QED
    BY <2>1, <2>2
<1>6. QED
  BY <1>3, <1>4, <1>5

-----------------------------------------------------------------------------
(* The counters.                                                           *)

LEMMA HoldersFinite ==
  /\ IsFiniteSet(Holders) /\ Cardinality(Holders) \in Nat
  /\ \A g \in Groups : IsFiniteSet(HoldersOf(g)) /\ Cardinality(HoldersOf(g)) \in Nat
<1>1. Holders \in SUBSET Reviewers /\ \A g \in Groups : HoldersOf(g) \in SUBSET Reviewers
  BY DEF Holders, HoldersOf
<1>2. QED
  BY <1>1, ReviewersAssumption, FS_Subset, FS_CardinalityType

\* Giving a held slot back keeps counters and holders in step.
LEMMA ReleaseKeepsAccount ==
  ASSUME TypeOK, SlotsAccounted, NEW r \in Reviewers, Release(r)
  PROVE  /\ SlotsAccounted'
         /\ slot' = [slot EXCEPT ![r] = IF @ = "held" THEN "free" ELSE @]
         /\ executionActive' \in Nat
         /\ providerActive' \in [Groups -> Nat]
         /\ cursor' \in Nat
         /\ queue' = queue
<1>1. CASE slot[r] # "held"
  <2>1. UNCHANGED slots
    BY <1>1 DEF Release
  <2>2. Holders' = Holders /\ \A g \in Groups : HoldersOf(g)' = HoldersOf(g)
    BY <2>1 DEF Holders, HoldersOf
  <2>3. QED
    BY <1>1, <2>1, <2>2 DEF TypeOK, SlotsAccounted
<1>2. CASE slot[r] = "held"
  <2> DEFINE g0 == GroupOf[r]
  <2>1. /\ slot' = [slot EXCEPT ![r] = "free"]
        /\ executionActive' = executionActive - 1
        /\ providerActive' = [providerActive EXCEPT ![g0] = @ - 1]
        /\ cursor' \in Nat
        /\ queue' = queue
    BY <1>2 DEF Release
  <2>2. g0 \in Groups
    BY GroupAssumption
  <2>3. r \in Holders /\ r \in HoldersOf(g0)
    BY <1>2 DEF Holders, HoldersOf
  <2>4. Holders' = Holders \ {r}
    BY <2>1, <2>3 DEF Holders, TypeOK
  <2>5. ASSUME NEW g \in Groups
        PROVE  HoldersOf(g)' = IF g = g0 THEN HoldersOf(g) \ {r} ELSE HoldersOf(g)
    BY <2>4 DEF HoldersOf
  <2>6. Cardinality(Holders') = Cardinality(Holders) - 1
    BY <2>3, <2>4, HoldersFinite, FS_RemoveElement
  <2>7. ASSUME NEW g \in Groups
        PROVE  Cardinality(HoldersOf(g)') =
                 IF g = g0 THEN Cardinality(HoldersOf(g)) - 1
                           ELSE Cardinality(HoldersOf(g))
    BY <2>3, <2>5, HoldersFinite, FS_RemoveElement
  <2>8. Cardinality(Holders) > 0 /\ Cardinality(HoldersOf(g0)) > 0
    BY <2>2, <2>3, HoldersFinite, FS_EmptySet
  <2>9. executionActive' \in Nat /\ providerActive' \in [Groups -> Nat]
    BY <2>1, <2>2, <2>8, HoldersFinite DEF TypeOK, SlotsAccounted
  <2>10. SlotsAccounted'
    <3>1. executionActive' = Cardinality(Holders') /\ executionActive' <= MaxConcurrency
      BY <2>1, <2>6, <2>8, HoldersFinite, LimitAssumption DEF SlotsAccounted
    <3>2. ASSUME NEW g \in Groups
          PROVE  /\ providerActive'[g] = Cardinality(HoldersOf(g)')
                 /\ providerActive'[g] <= ProviderLimit[g]
      <4>1. /\ providerActive[g] = Cardinality(HoldersOf(g))
            /\ providerActive[g] <= ProviderLimit[g]
            /\ providerActive[g] \in Nat /\ ProviderLimit[g] \in Nat
        BY LimitAssumption DEF SlotsAccounted, TypeOK
      <4>2. providerActive'[g] =
              IF g = g0 THEN providerActive[g] - 1 ELSE providerActive[g]
        BY <2>1, <2>2 DEF TypeOK
      <4>3. QED
        BY <2>7, <4>1, <4>2
    <3>3. QED
      BY <3>1, <3>2 DEF SlotsAccounted
  <2>11. QED
    BY <1>2, <2>1, <2>9, <2>10
<1>3. QED
  BY <1>1, <1>2

\* Admitting a reviewer that holds no slot, where there is room.
LEMMA AdmitKeepsAccount ==
  ASSUME TypeOK, SlotsAccounted, NEW r \in Reviewers, slot[r] = "free", ~Full(r),
         slot' = [slot EXCEPT ![r] = "held"],
         executionActive' = executionActive + 1,
         providerActive' = [providerActive EXCEPT ![GroupOf[r]] = @ + 1]
  PROVE  /\ SlotsAccounted'
         /\ executionActive' \in Nat
         /\ providerActive' \in [Groups -> Nat]
<1> DEFINE g0 == GroupOf[r]
<1>1. g0 \in Groups
  BY GroupAssumption
<1>2. r \notin Holders /\ Holders' = Holders \cup {r}
  BY DEF Holders, TypeOK
<1>3. ASSUME NEW g \in Groups
      PROVE  /\ r \notin HoldersOf(g)
             /\ HoldersOf(g)' = IF g = g0 THEN HoldersOf(g) \cup {r} ELSE HoldersOf(g)
  BY <1>2 DEF HoldersOf
<1>4. Cardinality(Holders') = Cardinality(Holders) + 1
  BY <1>2, HoldersFinite, FS_AddElement
<1>5. ASSUME NEW g \in Groups
      PROVE  Cardinality(HoldersOf(g)') =
               IF g = g0 THEN Cardinality(HoldersOf(g)) + 1
                         ELSE Cardinality(HoldersOf(g))
  BY <1>3, HoldersFinite, FS_AddElement
<1>6. executionActive < MaxConcurrency /\ providerActive[g0] < ProviderLimit[g0]
  <2>1. /\ executionActive \in Nat /\ MaxConcurrency \in Nat
        /\ providerActive[g0] \in Nat /\ ProviderLimit[g0] \in Nat
    BY <1>1, LimitAssumption DEF TypeOK
  <2>2. ~(executionActive >= MaxConcurrency) /\ ~(providerActive[g0] >= ProviderLimit[g0])
    BY DEF Full
  <2>3. QED
    BY <2>1, <2>2
<1>7. executionActive' \in Nat /\ providerActive' \in [Groups -> Nat]
  BY <1>1 DEF TypeOK
<1>8. executionActive' = Cardinality(Holders') /\ executionActive' <= MaxConcurrency
  BY <1>4, <1>6, LimitAssumption DEF SlotsAccounted, TypeOK
<1>9. ASSUME NEW g \in Groups
      PROVE  /\ providerActive'[g] = Cardinality(HoldersOf(g)')
             /\ providerActive'[g] <= ProviderLimit[g]
  <2>1. /\ providerActive[g] = Cardinality(HoldersOf(g))
        /\ providerActive[g] <= ProviderLimit[g]
        /\ providerActive[g] \in Nat /\ ProviderLimit[g] \in Nat
    BY LimitAssumption DEF SlotsAccounted, TypeOK
  <2>2. providerActive'[g] =
          IF g = g0 THEN providerActive[g] + 1 ELSE providerActive[g]
    BY <1>1 DEF TypeOK
  <2>3. QED
    BY <1>5, <1>6, <2>1, <2>2
<1>10. QED
  BY <1>7, <1>8, <1>9 DEF SlotsAccounted

\* A step that leaves slots and counters alone leaves the account alone.
LEMMA SameSlotsSameAccount ==
  ASSUME SlotsAccounted, UNCHANGED <<slot, executionActive, providerActive>>
  PROVE  SlotsAccounted'
<1>1. Holders' = Holders /\ \A g \in Groups : HoldersOf(g)' = HoldersOf(g)
  BY DEF Holders, HoldersOf
<1>2. QED
  BY <1>1 DEF SlotsAccounted

-----------------------------------------------------------------------------
(* Types of the circuit operators.                                         *)

LEMMA CircuitOperatorTypes ==
  ASSUME NEW c \in CircuitType, NEW r \in Reviewers
  PROVE  /\ Reserved(c, r) \in CircuitType
         /\ \A qualifying \in BOOLEAN : AfterFailure(c, r, qualifying) \in CircuitType
         /\ Closed \in CircuitType
         /\ [c EXCEPT !.cooled = TRUE] \in CircuitType
<1>1. c.failures + 1 \in Nat
  BY DEF CircuitType
<1>2. QED
  BY <1>1 DEF Reserved, AfterFailure, Reopened, Closed, CircuitType

LEMMA SetCircuitType ==
  ASSUME TypeOK, NEW r \in Reviewers, NEW c \in CircuitType, SetCircuit(r, c)
  PROVE  circuit' \in [Groups -> CircuitType]
BY GroupAssumption DEF SetCircuit, TypeOK

LEMMA OneCircuitType ==
  ASSUME TypeOK, NEW r \in Reviewers
  PROVE  Circuit(r) \in CircuitType
BY GroupAssumption DEF Circuit, TypeOK

\* Waking the waiters changes only who sleeps.
LEMMA WokenPhases ==
  ASSUME NEW p \in [Reviewers -> Phases]
  PROVE  /\ Woken(p) \in [Reviewers -> Phases]
         /\ \A r \in Reviewers :
              /\ p[r] # "sleeping" => Woken(p)[r] = p[r]
              /\ p[r] = "sleeping" => Woken(p)[r] = "checking"
BY DEF Woken, Phases

-----------------------------------------------------------------------------
(* The invariant is inductive.                                             *)

LEMMA IInvInit == Init => IInv
<1> SUFFICES ASSUME Init PROVE IInv
  OBVIOUS
<1>1. TypeOK
  <2>1. Closed \in CircuitType
    BY DEF Closed, CircuitType
  <2>2. circuit \in [Groups -> CircuitType] /\ queue \in Seq(Reviewers)
    BY <2>1 DEF Init
  <2>3. QED
    BY <2>2 DEF Init, TypeOK, Phases
<1>2. Holders = {} /\ \A g \in Groups : HoldersOf(g) = {}
  BY DEF Init, Holders, HoldersOf
<1>3. SlotsAccounted
  <2>1. executionActive = 0 /\ \A g \in Groups : providerActive[g] = 0
    BY DEF Init
  <2>2. 0 <= MaxConcurrency /\ \A g \in Groups : 0 <= ProviderLimit[g]
    BY LimitAssumption
  <2>3. QED
    BY <1>2, <2>1, <2>2, FS_EmptySet DEF SlotsAccounted
<1>4. SlotsHaveOwners /\ QueueSound
  BY DEF Init, SlotsHaveOwners, QueueSound
<1>5. QED
  BY <1>1, <1>3, <1>4 DEF IInv

\* What catch and finally do to the invariant, from whichever phase.
LEMMA SettleKeepsIInv ==
  ASSUME IInv, NEW r \in Reviewers, NEW qualifying \in BOOLEAN, NEW again \in BOOLEAN,
         pc[r] \in {"probing", "running", "rejected"},
         Settle(r, qualifying, again)
  PROVE  IInv'
<1> USE DEF IInv
<1> DEFINE p == [pc EXCEPT ![r] = "settled"]
<1>1. Release(r) /\ SetCircuit(r, AfterFailure(Circuit(r), r, qualifying))
  BY DEF Settle
<1>2. p \in [Reviewers -> Phases] /\ p[r] = "settled" /\ \A s \in Reviewers : s # r => p[s] = pc[s]
  BY DEF TypeOK, Phases
<1>3. pc' = p \/ pc' = Woken(p)
  BY DEF Settle
<1>4. /\ pc' \in [Reviewers -> Phases]
      /\ \A s \in Reviewers :
           pc[s] # "sleeping" => pc'[s] = IF s = r THEN "settled" ELSE pc[s]
      /\ \A s \in Reviewers :
           pc[s] = "sleeping" => pc'[s] \in {"sleeping", "checking"}
  <2> HIDE DEF p
  <2>1. /\ Woken(p) \in [Reviewers -> Phases]
        /\ \A s \in Reviewers :
             /\ p[s] # "sleeping" => Woken(p)[s] = p[s]
             /\ p[s] = "sleeping" => Woken(p)[s] = "checking"
    BY <1>2, WokenPhases
  <2>2. QED
    BY <1>2, <1>3, <2>1
<1>5. /\ SlotsAccounted'
      /\ slot' = [slot EXCEPT ![r] = IF @ = "held" THEN "free" ELSE @]
      /\ executionActive' \in Nat /\ providerActive' \in [Groups -> Nat]
      /\ cursor' \in Nat /\ queue' = queue
  BY <1>1, ReleaseKeepsAccount
<1>6. circuit' \in [Groups -> CircuitType]
  BY <1>1, OneCircuitType, CircuitOperatorTypes, SetCircuitType
<1>7. TypeOK'
  <2>1. stale' \in [Reviewers -> BOOLEAN] /\ retryable' \in [Reviewers -> BOOLEAN]
    BY DEF Settle, MarkStale, TypeOK
  <2>2. slot' \in [Reviewers -> {"free", "held", "lost"}]
    BY <1>5 DEF TypeOK
  <2>3. UNCHANGED <<attempt, expired, cancelled, queueReason, wakeAt>>
    BY DEF Settle
  <2>4. QED
    BY <1>4, <1>5, <1>6, <2>1, <2>2, <2>3 DEF TypeOK
<1>8. SlotsHaveOwners'
  <2>1. ASSUME NEW s \in Reviewers
        PROVE  /\ slot'[s] = "held" => pc'[s] \in {"granted", "running", "reporting", "rejected"}
               /\ pc'[s] \in {"granted", "running", "reporting"} => slot'[s] = "held"
               /\ slot'[s] = "lost" => cancelled'
    BY <1>4, <1>5 DEF SlotsHaveOwners, TypeOK, Settle
  <2>2. QED
    BY <2>1 DEF SlotsHaveOwners
<1>9. QueueSound'
  <2>1. \A i \in 1..Len(queue) : queue[i] \in Reviewers
    BY DEF TypeOK
  <2>2. QED
    BY <1>4, <1>5, <2>1 DEF QueueSound
<1>10. QED
  BY <1>5, <1>7, <1>8, <1>9

\* A step that moves one reviewer which is not queued, holds what it held and
\* does not reach a phase in which it must hold a slot.
LEMMA MoveKeepsSlots ==
  ASSUME IInv, NEW r \in Reviewers, NEW x \in Phases,
         pc[r] # "queued", x # "queued",
         slot[r] = "held" => x \in {"granted", "running", "reporting", "rejected"},
         x \in {"granted", "running", "reporting"} => slot[r] = "held",
         pc' = [pc EXCEPT ![r] = x] \/ pc' = Woken([pc EXCEPT ![r] = x]),
         UNCHANGED <<slots, cancelled>>
  PROVE  /\ pc' \in [Reviewers -> Phases]
         /\ SlotsAccounted' /\ SlotsHaveOwners' /\ QueueSound'
<1> USE DEF IInv
<1> DEFINE p == [pc EXCEPT ![r] = x]
<1>1. p \in [Reviewers -> Phases] /\ p[r] = x /\ \A s \in Reviewers : s # r => p[s] = pc[s]
  BY DEF TypeOK
<1>2. pc' = p \/ pc' = Woken(p)
  OBVIOUS
<1>3. /\ pc' \in [Reviewers -> Phases]
      /\ \A s \in Reviewers :
           IF p[s] # "sleeping" THEN pc'[s] = p[s] ELSE pc'[s] \in {"sleeping", "checking"}
  <2> HIDE DEF p
  <2>1. QED
    BY <1>1, <1>2, WokenPhases
<1> HIDE DEF p
<1>4. SlotsAccounted'
  BY SameSlotsSameAccount
<1>5. SlotsHaveOwners'
  <2>1. ASSUME NEW s \in Reviewers
        PROVE  /\ slot'[s] = "held" => pc'[s] \in {"granted", "running", "reporting", "rejected"}
               /\ pc'[s] \in {"granted", "running", "reporting"} => slot'[s] = "held"
               /\ slot'[s] = "lost" => cancelled'
    <3>1. CASE s = r
      BY <1>1, <1>3, <3>1 DEF SlotsHaveOwners
    <3>2. CASE s # r
      BY <1>1, <1>3, <3>2 DEF SlotsHaveOwners
    <3>3. QED
      BY <3>1, <3>2
  <2>2. QED
    BY <2>1 DEF SlotsHaveOwners
<1>6. QueueSound'
  <2>1. \A i \in 1..Len(queue) : queue[i] \in Reviewers /\ queue[i] # r
    BY DEF TypeOK, QueueSound
  <2>2. QED
    BY <1>1, <1>3, <2>1 DEF QueueSound
<1>7. QED
  BY <1>3, <1>4, <1>5, <1>6

\* An entry leaves the queue and its reviewer leaves the phase "queued".
LEMMA RemovalKeepsQueue ==
  ASSUME IInv, NEW k \in 1..Len(queue), NEW y \in Phases,
         queue' = RemoveAt(queue, k),
         pc' = [pc EXCEPT ![queue[k]] = y]
  PROVE  queue' \in Seq(Reviewers) /\ QueueSound'
<1> USE DEF IInv
<1>1. queue \in Seq(Reviewers) /\ Len(queue) \in Nat /\ pc \in [Reviewers -> Phases]
  BY DEF TypeOK
<1>2. /\ queue' \in Seq(Reviewers)
      /\ Len(queue') = Len(queue) - 1
      /\ \A i \in 1..Len(queue)-1 :
           queue'[i] = IF i < k THEN queue[i] ELSE queue[i+1]
  BY <1>1, RemoveAtProperties
<1>3. ASSUME NEW i \in 1..Len(queue')
      PROVE  \E a \in 1..Len(queue) :
               a # k /\ a = (IF i < k THEN i ELSE i+1) /\ queue'[i] = queue[a]
  <2> DEFINE a == IF i < k THEN i ELSE i+1
  <2> HIDE DEF IInv
  <2>1. i \in 1..Len(queue)-1 /\ k \in 1..Len(queue)
    BY <1>2
  <2>2. a \in 1..Len(queue) /\ a # k
    BY <1>1, <2>1
  <2>3. queue'[i] = queue[a]
    BY <1>2, <2>1
  <2>4. QED
    BY <2>2, <2>3
<1>4. ASSUME NEW i \in 1..Len(queue') PROVE pc'[queue'[i]] = "queued"
  <2>1. PICK a \in 1..Len(queue) : a # k /\ queue'[i] = queue[a]
    BY <1>3
  <2>2. queue[a] # queue[k] /\ queue[a] \in Reviewers /\ pc[queue[a]] = "queued"
    BY <1>1, <2>1 DEF QueueSound
  <2>3. QED
    BY <1>1, <2>1, <2>2
<1>5. ASSUME NEW i \in 1..Len(queue'), NEW j \in 1..Len(queue'), queue'[i] = queue'[j]
      PROVE  i = j
  <2>1. PICK a \in 1..Len(queue) : a = (IF i < k THEN i ELSE i+1) /\ queue'[i] = queue[a]
    BY <1>3
  <2>2. PICK b \in 1..Len(queue) : b = (IF j < k THEN j ELSE j+1) /\ queue'[j] = queue[b]
    BY <1>3
  <2>3. a = b
    BY <1>5, <2>1, <2>2 DEF QueueSound
  <2>4. QED
    BY <1>1, <1>2, <2>1, <2>2, <2>3
<1>6. QED
  BY <1>2, <1>4, <1>5 DEF QueueSound

\* One turn of the event loop for one reviewer.
LEMMA StepKeepsIInv ==
  ASSUME IInv, NEW r \in Reviewers, Step(r)
  PROVE  IInv'
<1> USE DEF IInv
<1>1. CASE BeginAttempt(r)
  <2>1. PICK x \in {"done", "probing"} : pc' = [pc EXCEPT ![r] = x]
    BY <1>1 DEF BeginAttempt
  <2>2. pc' \in [Reviewers -> Phases] /\ SlotsAccounted' /\ SlotsHaveOwners' /\ QueueSound'
    BY <1>1, <2>1, MoveKeepsSlots DEF BeginAttempt, Phases, SlotsHaveOwners
  <2>3. TypeOK'
    BY <1>1, <2>2 DEF BeginAttempt, TypeOK
  <2>4. QED
    BY <2>2, <2>3
<1>2. CASE ProbeReady(r)
  <2>1. pc' \in [Reviewers -> Phases] /\ SlotsAccounted' /\ SlotsHaveOwners' /\ QueueSound'
    BY <1>2, MoveKeepsSlots DEF ProbeReady, Phases, SlotsHaveOwners
  <2>2. QED
    BY <1>2, <2>1 DEF ProbeReady, TypeOK
<1>3. CASE CheckCircuit(r)
  <2>1. PICK x \in {"rejected", "passed", "announcing"} : pc' = [pc EXCEPT ![r] = x]
    BY <1>3 DEF CheckCircuit
  <2>2. pc' \in [Reviewers -> Phases] /\ SlotsAccounted' /\ SlotsHaveOwners' /\ QueueSound'
    BY <1>3, <2>1, MoveKeepsSlots DEF CheckCircuit, Phases, SlotsHaveOwners
  <2>3. circuit' \in [Groups -> CircuitType]
    BY <1>3, OneCircuitType, CircuitOperatorTypes, SetCircuitType DEF CheckCircuit, TypeOK
  <2>4. TypeOK'
    BY <1>3, <2>2, <2>3 DEF CheckCircuit, TypeOK
  <2>5. QED
    BY <2>2, <2>4
<1>4. CASE Announced(r)
  <2>1. PICK x \in {"rejected", "checking", "sleeping"} : pc' = [pc EXCEPT ![r] = x]
    BY <1>4 DEF Announced
  <2>2. pc' \in [Reviewers -> Phases] /\ SlotsAccounted' /\ SlotsHaveOwners' /\ QueueSound'
    BY <1>4, <2>1, MoveKeepsSlots DEF Announced, Phases, SlotsHaveOwners
  <2>3. TypeOK'
    BY <1>4, <2>2 DEF Announced, TypeOK
  <2>4. QED
    BY <2>2, <2>3
<1>5. CASE TimerWakes(r)
  <2>1. pc' \in [Reviewers -> Phases] /\ SlotsAccounted' /\ SlotsHaveOwners' /\ QueueSound'
    BY <1>5, MoveKeepsSlots DEF TimerWakes, Phases, SlotsHaveOwners
  <2>2. QED
    BY <1>5, <2>1 DEF TimerWakes, TypeOK
<1>6. CASE Enqueue(r)
  <2>1. /\ queue' = Append(queue, r) /\ pc' = [pc EXCEPT ![r] = "queued"] /\ pc[r] = "passed"
        /\ UNCHANGED <<slot, executionActive, providerActive, cancelled>>
    BY <1>6 DEF Enqueue
  <2>2. /\ queue \in Seq(Reviewers) /\ pc \in [Reviewers -> Phases]
        /\ \A i \in 1..Len(queue) : queue[i] \in Reviewers /\ queue[i] # r
    BY <2>1 DEF TypeOK, QueueSound
  <2>3. TypeOK'
    BY <1>6, <2>1, <2>2 DEF Enqueue, TypeOK, Phases
  <2>4. SlotsAccounted'
    BY <2>1, SameSlotsSameAccount
  <2>5. SlotsHaveOwners'
    BY <2>1, <2>2 DEF SlotsHaveOwners
  <2>6. QueueSound'
    <3>1. /\ Len(queue') = Len(queue) + 1
          /\ \A i \in 1..Len(queue') :
               queue'[i] = IF i <= Len(queue) THEN queue[i] ELSE r
      BY <2>1, <2>2
    <3>2. Len(queue) \in Nat
      BY <2>2
    <3>3. QED
      BY <2>1, <2>2, <3>1, <3>2 DEF QueueSound
  <2>7. QED
    BY <2>3, <2>4, <2>5, <2>6
<1>7. CASE QueueTimeout(r)
  <2>1. PICK k \in 1..Len(queue) : queue[k] = r /\ queue' = RemoveAt(queue, k)
    BY <1>7 DEF QueueTimeout
  <2>2. /\ pc' = [pc EXCEPT ![r] = "rejected"] /\ pc[r] = "queued" /\ "rejected" \in Phases
        /\ UNCHANGED <<slot, executionActive, providerActive, cancelled, cursor>>
    BY <1>7 DEF QueueTimeout, Phases
  <2>3. queue' \in Seq(Reviewers) /\ QueueSound'
    BY <2>1, <2>2, RemovalKeepsQueue
  <2>4. TypeOK'
    BY <1>7, <2>2, <2>3 DEF QueueTimeout, TypeOK
  <2>5. SlotsAccounted'
    BY <2>2, SameSlotsSameAccount
  <2>6. SlotsHaveOwners'
    BY <2>2 DEF SlotsHaveOwners, TypeOK
  <2>7. QED
    BY <2>3, <2>4, <2>5, <2>6
<1>8. CASE Resume(r)
  <2>1. CASE UNCHANGED slots
    <3>1. PICK x \in {"rejected", "running"} : pc' = [pc EXCEPT ![r] = x]
      <4>1. slot[r] = "held" /\ pc[r] = "granted"
        BY <1>8 DEF Resume, SlotsHaveOwners
      <4>2. ~Release(r)
        BY <2>1, <4>1 DEF Release, TypeOK
      <4>3. QED
        BY <1>8, <4>2 DEF Resume
    <3>2. pc' \in [Reviewers -> Phases] /\ SlotsAccounted' /\ SlotsHaveOwners' /\ QueueSound'
      BY <1>8, <2>1, <3>1, MoveKeepsSlots DEF Resume, Phases, SlotsHaveOwners
    <3>3. circuit' \in [Groups -> CircuitType]
      BY <1>8, OneCircuitType, CircuitOperatorTypes, SetCircuitType DEF Resume, TypeOK
    <3>4. TypeOK'
      BY <1>8, <2>1, <3>2, <3>3 DEF Resume, TypeOK
    <3>5. QED
      BY <3>2, <3>4
  <2>2. CASE ~UNCHANGED slots
    <3>1. /\ Release(r) /\ pc[r] = "granted" /\ pc' = [pc EXCEPT ![r] = "checking"]
          /\ UNCHANGED <<circuit, queueReason, attempt, retryable, expired,
                         cancelled, stale, wakeAt>>
      BY <1>8, <2>2 DEF Resume
    <3>2. /\ SlotsAccounted'
          /\ slot' = [slot EXCEPT ![r] = IF @ = "held" THEN "free" ELSE @]
          /\ executionActive' \in Nat /\ providerActive' \in [Groups -> Nat]
          /\ cursor' \in Nat /\ queue' = queue
      BY <3>1, ReleaseKeepsAccount
    <3>3. slot[r] = "held"
      BY <3>1 DEF SlotsHaveOwners
    <3>4. TypeOK'
      BY <3>1, <3>2 DEF TypeOK, Phases
    <3>5. SlotsHaveOwners'
      BY <3>1, <3>2, <3>3 DEF SlotsHaveOwners, TypeOK
    <3>6. QueueSound'
      BY <3>1, <3>2 DEF QueueSound, TypeOK
    <3>7. QED
      BY <3>2, <3>4, <3>5, <3>6
  <2>3. QED
    BY <2>1, <2>2
<1>9. CASE RequestSucceeds(r)
  <2>1. pc' \in [Reviewers -> Phases] /\ SlotsAccounted' /\ SlotsHaveOwners' /\ QueueSound'
    BY <1>9, MoveKeepsSlots DEF RequestSucceeds, Phases, SlotsHaveOwners
  <2>2. circuit' \in [Groups -> CircuitType]
    BY <1>9, OneCircuitType, CircuitOperatorTypes, SetCircuitType DEF RequestSucceeds
  <2>3. stale' \in [Reviewers -> BOOLEAN]
    BY <1>9 DEF RequestSucceeds, MarkStale, TypeOK
  <2>4. TypeOK'
    BY <1>9, <2>1, <2>2, <2>3 DEF RequestSucceeds, TypeOK
  <2>5. QED
    BY <2>1, <2>4
<1>10. CASE ReportingDone(r)
  <2>1. /\ Release(r) /\ pc[r] = "reporting" /\ pc' = [pc EXCEPT ![r] = "done"]
        /\ UNCHANGED <<attempt, retryable, expired, cancelled, queueReason,
                       circuit, stale, wakeAt>>
    BY <1>10 DEF ReportingDone
  <2>2. /\ SlotsAccounted'
        /\ slot' = [slot EXCEPT ![r] = IF @ = "held" THEN "free" ELSE @]
        /\ executionActive' \in Nat /\ providerActive' \in [Groups -> Nat]
        /\ cursor' \in Nat /\ queue' = queue
    BY <2>1, ReleaseKeepsAccount
  <2>3. TypeOK'
    BY <2>1, <2>2 DEF TypeOK, Phases
  <2>4. SlotsHaveOwners'
    BY <2>1, <2>2 DEF SlotsHaveOwners, TypeOK
  <2>5. QueueSound'
    BY <2>1, <2>2 DEF QueueSound, TypeOK
  <2>6. QED
    BY <2>2, <2>3, <2>4, <2>5
<1>11. CASE SettleRejected(r)
  BY <1>11, SettleKeepsIInv DEF SettleRejected
<1>12. CASE Decide(r)
  <2>1. PICK x \in {"backoff", "done"} : pc' = [pc EXCEPT ![r] = x]
    BY <1>12 DEF Decide
  <2>2. pc' \in [Reviewers -> Phases] /\ SlotsAccounted' /\ SlotsHaveOwners' /\ QueueSound'
    BY <1>12, <2>1, MoveKeepsSlots DEF Decide, Phases, SlotsHaveOwners
  <2>3. TypeOK'
    BY <1>12, <2>2 DEF Decide, TypeOK
  <2>4. QED
    BY <2>2, <2>3
<1>13. CASE \E qualifying, again \in BOOLEAN : ProbeFails(r, qualifying, again)
  BY <1>13, SettleKeepsIInv DEF ProbeFails
<1>14. CASE \E qualifying, again \in BOOLEAN : RequestFails(r, qualifying, again)
  BY <1>14, SettleKeepsIInv DEF RequestFails
<1>15. QED
  BY <1>1, <1>2, <1>3, <1>4, <1>5, <1>6, <1>7, <1>8, <1>9, <1>10, <1>11, <1>12,
     <1>13, <1>14 DEF Step

\* One entry of the queue is scanned.
LEMMA ScanStepKeepsIInv ==
  ASSUME IInv, ScanStep
  PROVE  IInv'
<1> USE DEF IInv
<1> DEFINE r == queue[cursor]
<1>1. cursor \in 1..Len(queue) /\ r \in Reviewers /\ pc[r] = "queued"
  BY DEF ScanStep, TypeOK, QueueSound
<1>2. UNCHANGED <<attempt, retryable, expired, cancelled, breaker>>
  BY DEF ScanStep
<1>3. ScanRejects(r) \/ ScanSkips(r) \/ ScanAdmits(r)
  BY DEF ScanStep
<1>4. CASE ScanRejects(r)
  <2>1. /\ queue' = RemoveAt(queue, cursor) /\ pc' = [pc EXCEPT ![r] = "rejected"]
        /\ UNCHANGED <<slot, executionActive, providerActive, queueReason, cursor>>
        /\ "rejected" \in Phases
    BY <1>4 DEF ScanRejects, Phases
  <2>2. queue' \in Seq(Reviewers) /\ QueueSound'
    BY <1>1, <2>1, RemovalKeepsQueue
  <2>3. TypeOK'
    BY <1>2, <2>1, <2>2 DEF TypeOK
  <2>4. SlotsAccounted'
    BY <2>1, SameSlotsSameAccount
  <2>5. SlotsHaveOwners'
    BY <1>1, <1>2, <2>1 DEF SlotsHaveOwners, TypeOK
  <2>6. QED
    BY <2>2, <2>3, <2>4, <2>5
<1>5. CASE ScanSkips(r)
  <2>1. /\ queueReason' = [queueReason EXCEPT ![r] = "limit"] /\ cursor' = cursor + 1
        /\ UNCHANGED <<pc, queue, slot, executionActive, providerActive>>
    BY <1>5 DEF ScanSkips
  <2>2. TypeOK'
    BY <1>1, <1>2, <2>1 DEF TypeOK
  <2>3. SlotsAccounted'
    BY <2>1, SameSlotsSameAccount
  <2>4. SlotsHaveOwners' /\ QueueSound'
    BY <1>2, <2>1 DEF SlotsHaveOwners, QueueSound
  <2>5. QED
    BY <2>2, <2>3, <2>4
<1>6. CASE ScanAdmits(r)
  <2>1. /\ queue' = RemoveAt(queue, cursor) /\ pc' = [pc EXCEPT ![r] = "granted"]
        /\ slot' = [slot EXCEPT ![r] = "held"]
        /\ executionActive' = executionActive + 1
        /\ providerActive' = [providerActive EXCEPT ![GroupOf[r]] = @ + 1]
        /\ UNCHANGED <<queueReason, cursor>>
        /\ ~cancelled /\ ~Full(r) /\ "granted" \in Phases
    BY <1>6 DEF ScanAdmits, Phases
  <2>2. queue' \in Seq(Reviewers) /\ QueueSound'
    BY <1>1, <2>1, RemovalKeepsQueue
  <2>3. slot[r] = "free"
    BY <1>1, <2>1 DEF SlotsHaveOwners, TypeOK
  <2>4. SlotsAccounted' /\ executionActive' \in Nat /\ providerActive' \in [Groups -> Nat]
    BY <1>1, <2>1, <2>3, AdmitKeepsAccount
  <2>5. TypeOK'
    BY <1>2, <2>1, <2>2, <2>4 DEF TypeOK
  <2>6. SlotsHaveOwners'
    BY <1>1, <1>2, <2>1 DEF SlotsHaveOwners, TypeOK
  <2>7. QED
    BY <2>2, <2>4, <2>5, <2>6
<1>7. QED
  BY <1>3, <1>4, <1>5, <1>6

\* The run is aborted: queue and waiters are rejected at once.
LEMMA AbortKeepsIInv ==
  ASSUME IInv, Cancel \/ \E r \in Reviewers : PersistenceFails(r)
  PROVE  IInv'
<1> USE DEF IInv
<1>1. /\ cancelled' = TRUE /\ queue' = <<>>
      /\ UNCHANGED <<attempt, retryable, expired, queueReason, cursor,
                     executionActive, providerActive, breaker>>
  BY DEF Cancel, PersistenceFails, AbortAll
<1>2. /\ pc' \in [Reviewers -> Phases]
      /\ slot' \in [Reviewers -> {"free", "held", "lost"}]
      /\ \A s \in Reviewers :
           /\ pc'[s] \in {pc[s], "rejected"}
           /\ slot'[s] \in {slot[s], "lost"}
           /\ slot'[s] # slot[s] => pc[s] = "granted" /\ pc'[s] = "rejected"
  <2>1. CASE Cancel
    <3>1. slot' = slot /\ pc' = [s \in Reviewers |-> IF pc[s] \in {"queued", "sleeping"}
                                             THEN "rejected" ELSE pc[s]]
      BY <2>1 DEF Cancel, AbortAll
    <3>2. QED
      BY <3>1 DEF TypeOK, Phases
  <2>2. ASSUME NEW r \in Reviewers, PersistenceFails(r)
        PROVE  <1>2!1 /\ <1>2!2 /\ <1>2!3
    <3> DEFINE p == [pc EXCEPT ![r] = "rejected"]
    <3>1. /\ slot' = [slot EXCEPT ![r] = IF pc[r] = "granted" THEN "lost" ELSE @]
          /\ pc' = [s \in Reviewers |-> IF p[s] \in {"queued", "sleeping"}
                                             THEN "rejected" ELSE p[s]]
      BY <2>2 DEF PersistenceFails, AbortAll
    <3>2. QED
      BY <3>1 DEF TypeOK, Phases
  <2>3. QED
    BY <2>1, <2>2
<1>3. TypeOK'
  BY <1>1, <1>2 DEF TypeOK
<1>4. SlotsAccounted'
  <2>1. Holders' = Holders /\ \A g \in Groups : HoldersOf(g)' = HoldersOf(g)
    <3>1. ASSUME NEW s \in Reviewers PROVE slot'[s] = "free" <=> slot[s] = "free"
      BY <1>2 DEF SlotsHaveOwners
    <3>2. QED
      BY <3>1 DEF Holders, HoldersOf
  <2>2. QED
    BY <1>1, <2>1 DEF SlotsAccounted
<1>5. SlotsHaveOwners'
  <2>1. ASSUME NEW s \in Reviewers
        PROVE  /\ slot'[s] = "held" => pc'[s] \in {"granted", "running", "reporting", "rejected"}
               /\ pc'[s] \in {"granted", "running", "reporting"} => slot'[s] = "held"
               /\ slot'[s] = "lost" => cancelled'
    BY <1>1, <1>2 DEF SlotsHaveOwners
  <2>2. QED
    BY <2>1 DEF SlotsHaveOwners
<1>6. QueueSound'
  BY <1>1 DEF QueueSound
<1>7. QED
  BY <1>3, <1>4, <1>5, <1>6

LEMMA IInvStep == IInv /\ [Next]_vars => IInv'
<1> SUFFICES ASSUME IInv, [Next]_vars PROVE IInv'
  OBVIOUS
<1> USE DEF IInv
<1>1. ASSUME NEW r \in Reviewers, Step(r) PROVE IInv'
  BY <1>1, StepKeepsIInv
<1>2. ASSUME NEW r \in Reviewers, BoundaryPasses(r) PROVE IInv'
  <2>1. /\ expired' = [expired EXCEPT ![r] = TRUE]
        /\ UNCHANGED <<pc, attempt, retryable, cancelled, queueReason, slots,
                       breaker>>
    BY <1>2 DEF BoundaryPasses
  <2>2. TypeOK'
    BY <2>1 DEF TypeOK
  <2>3. SlotsAccounted'
    BY <2>1, SameSlotsSameAccount
  <2>4. QED
    BY <2>1, <2>2, <2>3 DEF SlotsHaveOwners, QueueSound
<1>3. ASSUME NEW r \in Reviewers, PersistenceFails(r) PROVE IInv'
  BY <1>3, AbortKeepsIInv
<1>4. ASSUME NEW g \in Groups, CooldownElapses(g) PROVE IInv'
  <2>1. /\ circuit' = [circuit EXCEPT ![g].cooled = TRUE]
        /\ UNCHANGED <<pc, attempt, retryable, expired, cancelled, queueReason,
                       slots, stale, wakeAt>>
    BY <1>4 DEF CooldownElapses
  <2>2. circuit[g] \in CircuitType
    BY DEF TypeOK
  <2>3. [circuit[g] EXCEPT !.cooled = TRUE] \in CircuitType
    BY <2>2 DEF CircuitType
  <2>4. TypeOK'
    BY <2>1, <2>3 DEF TypeOK
  <2>5. SlotsAccounted'
    BY <2>1, SameSlotsSameAccount
  <2>6. QED
    BY <2>1, <2>4, <2>5 DEF SlotsHaveOwners, QueueSound
<1>5. CASE ScanStep
  BY <1>5, ScanStepKeepsIInv
<1>6. CASE ScanEnds
  <2>1. /\ cursor' = 0
        /\ UNCHANGED <<pc, attempt, retryable, expired, cancelled, queueReason,
                       queue, slot, executionActive, providerActive, breaker>>
    BY <1>6 DEF ScanEnds
  <2>2. TypeOK'
    BY <2>1 DEF TypeOK
  <2>3. SlotsAccounted'
    BY <2>1, SameSlotsSameAccount
  <2>4. QED
    BY <2>1, <2>2, <2>3 DEF SlotsHaveOwners, QueueSound
<1>7. CASE Cancel
  BY <1>7, AbortKeepsIInv
<1>8. CASE UNCHANGED vars
  <2>1. SlotsAccounted'
    BY <1>8, SameSlotsSameAccount
  <2>2. QED
    BY <1>8, <2>1 DEF TypeOK, SlotsHaveOwners, QueueSound
<1>9. QED
  BY <1>1, <1>2, <1>3, <1>4, <1>5, <1>6, <1>7, <1>8 DEF Next

\* The invariant holds of every behaviour of the specification.
THEOREM Invariance == Spec => []IInv
BY IInvInit, IInvStep, PTL DEF Spec

\* Every variable keeps its type: in particular no counter goes below zero,
\* so the Math.max(0, ...) in the release closure never hides anything.
THEOREM TypeCorrect == Spec => []TypeOK
<1>1. IInv => TypeOK
  BY DEF IInv
<1>2. QED
  BY <1>1, Invariance, PTL

\* The counters of acquireAdmission's release closures and of drainAdmissions
\* equal the slots in use and respect both limits, for any number of reviewers.
THEOREM SlotSafety == Spec => []SlotsAccounted
<1>1. IInv => SlotsAccounted
  BY DEF IInv
<1>2. QED
  BY <1>1, Invariance, PTL

\* No slot outlives the attempt that was given it, unless the run was aborted.
THEOREM SlotOwnership == Spec => []SlotsHaveOwners
<1>1. IInv => SlotsHaveOwners
  BY DEF IInv
<1>2. QED
  BY <1>1, Invariance, PTL

-----------------------------------------------------------------------------
(* The circuit breaker.                                                    *)

\* Only Resume starts a request.
LEMMA OnlyResumeStarts ==
  ASSUME TypeOK, [Next]_vars, NEW s \in Reviewers, Starts(s)
  PROVE  Resume(s) /\ Allowed(Circuit(s), s)
<1>1. pc[s] # "running" /\ pc'[s] = "running"
  BY DEF Starts
<1>2. ASSUME NEW r \in Reviewers, NEW x \in Phases, x # "running",
             pc' = [pc EXCEPT ![r] = x] \/ pc' = Woken([pc EXCEPT ![r] = x])
      PROVE  FALSE
  BY <1>1, <1>2 DEF Woken, TypeOK
<1>3. ASSUME NEW r \in Reviewers, Step(r) PROVE Resume(r)
  <2>1. ASSUME NEW qualifying, NEW again, Settle(r, qualifying, again) PROVE FALSE
    BY <1>2, <2>1 DEF Settle, Phases
  <2>2. ~BeginAttempt(r) /\ ~ProbeReady(r) /\ ~CheckCircuit(r) /\ ~Announced(r)
    BY <1>2 DEF BeginAttempt, ProbeReady, CheckCircuit, Announced, Phases
  <2>3. ~TimerWakes(r) /\ ~Enqueue(r) /\ ~QueueTimeout(r) /\ ~Decide(r)
    BY <1>2 DEF TimerWakes, Enqueue, QueueTimeout, Decide, Phases
  <2>4. ~RequestSucceeds(r) /\ ~ReportingDone(r)
    BY <1>2 DEF RequestSucceeds, ReportingDone, Phases
  <2>5. QED
    BY <1>3, <2>1, <2>2, <2>3, <2>4 DEF Step, ProbeFails, RequestFails, SettleRejected
<1>4. ~ScanStep
  <2>1. ASSUME ScanStep PROVE FALSE
    <3>1. queue[cursor] \in Reviewers
      BY <2>1 DEF ScanStep, TypeOK
    <3>2. ~ScanRejects(queue[cursor]) /\ ~ScanAdmits(queue[cursor])
      BY <1>2, <3>1 DEF ScanRejects, ScanAdmits, Phases
    <3>3. ~ScanSkips(queue[cursor])
      BY <1>1 DEF ScanSkips
    <3>4. QED
      BY <2>1, <3>2, <3>3 DEF ScanStep
  <2>2. QED
    BY <2>1
<1>5. ~Cancel /\ \A r \in Reviewers : ~PersistenceFails(r)
  BY <1>1 DEF Cancel, PersistenceFails, AbortAll, TypeOK
<1>6. PICK r \in Reviewers : Resume(r)
  BY <1>1, <1>3, <1>4, <1>5
     DEF Next, BoundaryPasses, CooldownElapses, ScanEnds
<1>7. r = s
  BY <1>1, <1>6 DEF Resume, TypeOK
<1>8. QED
  BY <1>1, <1>6, <1>7 DEF Resume, TypeOK

\* A request starts only in a step in which its provider's circuit admits it,
\* whatever happened since the reviewer queued.
THEOREM StartsRespectCircuit == Spec => StartRespectsCircuit
<1>1. TypeOK /\ [Next]_vars =>
        [\A r \in Reviewers : Starts(r) => Allowed(Circuit(r), r)]_vars
  BY OnlyResumeStarts
<1>2. QED
  BY <1>1, TypeCorrect, PTL DEF Spec, StartRespectsCircuit

Reserving == {"passed", "queued", "granted", "running", "rejected"}

\* A step that leaves the circuits alone and moves a reviewer that cannot own
\* a reservation, or keeps it on its way.
LEMMA MoveKeepsReservation ==
  ASSUME TypeOK, ReservationIsLive, NEW r \in Reviewers, NEW x,
         pc[r] \notin Reserving \/ x \in Reserving,
         pc' = [pc EXCEPT ![r] = x], UNCHANGED circuit
  PROVE  ReservationIsLive'
BY DEF TypeOK, ReservationIsLive, Reserving

\* The end of an attempt gives its reservation up.
LEMMA SettleKeepsReservation ==
  ASSUME TypeOK, ReservationIsLive, NEW r \in Reviewers, NEW qualifying \in BOOLEAN,
         NEW again \in BOOLEAN, Settle(r, qualifying, again)
  PROVE  ReservationIsLive'
<1> DEFINE c == Circuit(r)
           p == [pc EXCEPT ![r] = "settled"]
<1>1. circuit' = [circuit EXCEPT ![GroupOf[r]] = AfterFailure(c, r, qualifying)]
  BY DEF Settle, SetCircuit
<1>2. pc' = p \/ pc' = Woken(p)
  BY DEF Settle
<1>3. \A s \in Reviewers : s # r /\ pc[s] \in Reserving => pc'[s] = pc[s]
  BY <1>2 DEF TypeOK, Woken, Reserving
<1>4. SUFFICES ASSUME NEW g \in Groups, circuit'[g].state = "half_open"
               PROVE  \E s \in Reviewers :
                        /\ circuit'[g].owner = s /\ GroupOf[s] = g
                        /\ pc'[s] \in Reserving
  BY DEF ReservationIsLive, Reserving
<1>5. CASE g # GroupOf[r]
  <2>1. circuit'[g] = circuit[g]
    BY <1>1, <1>5 DEF TypeOK
  <2>2. PICK s \in Reviewers : circuit[g].owner = s /\ GroupOf[s] = g /\ pc[s] \in Reserving
    BY <1>4, <2>1 DEF ReservationIsLive, Reserving
  <2>3. QED
    BY <1>3, <1>5, <2>1, <2>2
<1>6. CASE g = GroupOf[r]
  <2>1. circuit'[g] = AfterFailure(c, r, qualifying) /\ c = circuit[g] /\ c \in CircuitType
    BY <1>1, <1>6 DEF TypeOK, Circuit
  <2>2. ~qualifying /\ ~OwnedBy(c, r) /\ circuit'[g] = circuit[g]
    BY <1>4, <2>1 DEF AfterFailure, Reopened, CircuitType
  <2>3. PICK s \in Reviewers : circuit[g].owner = s /\ GroupOf[s] = g /\ pc[s] \in Reserving
    BY <1>4, <2>2 DEF ReservationIsLive, Reserving
  <2>4. s # r
    BY <1>4, <2>1, <2>2, <2>3 DEF OwnedBy
  <2>5. QED
    BY <1>3, <2>2, <2>3, <2>4
<1>7. QED
  BY <1>5, <1>6

\* A reservation made by a reviewer that goes on to its slot or its request.
LEMMA ReserveKeepsReservation ==
  ASSUME TypeOK, ReservationIsLive, NEW r \in Reviewers, NEW x \in Reserving,
         SetCircuit(r, Reserved(Circuit(r), r)), pc' = [pc EXCEPT ![r] = x]
  PROVE  ReservationIsLive'
<1>1. SUFFICES ASSUME NEW g \in Groups, circuit'[g].state = "half_open"
               PROVE  \E s \in Reviewers :
                        /\ circuit'[g].owner = s /\ GroupOf[s] = g
                        /\ pc'[s] \in Reserving
  BY DEF ReservationIsLive, Reserving
<1>2. \A s \in Reviewers : pc[s] \in Reserving => pc'[s] \in Reserving
  BY DEF TypeOK
<1>3. CASE circuit'[g] = circuit[g]
  BY <1>1, <1>2, <1>3 DEF ReservationIsLive, Reserving
<1>4. CASE circuit'[g] # circuit[g]
  <2>1. g = GroupOf[r]
    BY <1>4 DEF SetCircuit, TypeOK
  <2>2. circuit'[g] = Reserved(circuit[g], r) /\ circuit[g] \in CircuitType
    BY <2>1 DEF SetCircuit, Circuit, TypeOK
  <2>3. circuit'[g].owner = r
    BY <1>4, <2>2 DEF Reserved, CircuitType
  <2>4. pc'[r] \in Reserving
    BY DEF TypeOK
  <2>5. QED
    BY <2>1, <2>3, <2>4
<1>5. QED
  BY <1>3, <1>4

LEMMA ReservationStep ==
  TypeOK /\ ReservationIsLive /\ [Next]_vars => ReservationIsLive'
<1> SUFFICES ASSUME TypeOK, ReservationIsLive, [Next]_vars
             PROVE  ReservationIsLive'
  OBVIOUS
<1>1. ASSUME NEW r \in Reviewers, Step(r) PROVE ReservationIsLive'
  <2>1. CASE BeginAttempt(r)
    BY <2>1, MoveKeepsReservation DEF BeginAttempt, Reserving
  <2>2. CASE ProbeReady(r)
    BY <2>2, MoveKeepsReservation DEF ProbeReady, Reserving
  <2>3. CASE CheckCircuit(r)
    <3>1. CASE SetCircuit(r, Reserved(Circuit(r), r)) /\ pc' = [pc EXCEPT ![r] = "passed"]
      BY <3>1, ReserveKeepsReservation DEF Reserving
    <3>2. CASE UNCHANGED circuit
      <4>1. PICK x : pc' = [pc EXCEPT ![r] = x]
        BY <2>3 DEF CheckCircuit
      <4>2. pc[r] \notin Reserving
        BY <2>3 DEF CheckCircuit, Reserving
      <4>3. QED
        BY <3>2, <4>1, <4>2, MoveKeepsReservation
    <3>3. QED
      BY <2>3, <3>1, <3>2 DEF CheckCircuit
  <2>4. CASE Announced(r)
    <3>1. PICK x : pc' = [pc EXCEPT ![r] = x]
      BY <2>4 DEF Announced
    <3>2. QED
      BY <2>4, <3>1, MoveKeepsReservation DEF Announced, Reserving
  <2>5. CASE TimerWakes(r)
    BY <2>5, MoveKeepsReservation DEF TimerWakes, Reserving
  <2>6. CASE Enqueue(r)
    BY <2>6, MoveKeepsReservation DEF Enqueue, Reserving
  <2>7. CASE QueueTimeout(r)
    BY <2>7, MoveKeepsReservation DEF QueueTimeout, Reserving
  <2>8. CASE Resume(r)
    <3>1. CASE SetCircuit(r, Reserved(Circuit(r), r)) /\ pc' = [pc EXCEPT ![r] = "running"]
      BY <3>1, ReserveKeepsReservation DEF Reserving
    <3>2. CASE UNCHANGED circuit /\ pc' = [pc EXCEPT ![r] = "rejected"]
      BY <3>2, MoveKeepsReservation DEF Reserving
    <3>3. CASE ~Allowed(Circuit(r), r) /\ UNCHANGED circuit /\ pc' = [pc EXCEPT ![r] = "checking"]
      <4>1. \A s \in Reviewers : s # r => pc'[s] = pc[s]
        BY <3>3 DEF TypeOK
      <4>2. ASSUME NEW g \in Groups, circuit[g].state = "half_open" PROVE circuit[g].owner # r \/ GroupOf[r] # g
        BY <3>3, <4>2 DEF Allowed, Circuit
      <4>3. QED
        BY <3>3, <4>1, <4>2 DEF ReservationIsLive
    <3>4. QED
      BY <2>8, <3>1, <3>2, <3>3 DEF Resume
  <2>9. CASE RequestSucceeds(r)
    <3>1. \A s \in Reviewers : s # r /\ pc[s] \in Reserving => pc'[s] = pc[s]
      BY <2>9 DEF RequestSucceeds, Woken, TypeOK, Reserving
    <3>2. \A g \in Groups : circuit'[g] = IF g = GroupOf[r] THEN Closed ELSE circuit[g]
      BY <2>9 DEF RequestSucceeds, SetCircuit, TypeOK
    <3>3. SUFFICES ASSUME NEW g \in Groups, circuit'[g].state = "half_open"
                   PROVE  \E s \in Reviewers :
                            /\ circuit'[g].owner = s /\ GroupOf[s] = g
                            /\ pc'[s] \in Reserving
      BY DEF ReservationIsLive, Reserving
    <3>4. g # GroupOf[r] /\ circuit'[g] = circuit[g]
      BY <3>2, <3>3 DEF Closed
    <3>5. PICK s \in Reviewers : circuit[g].owner = s /\ GroupOf[s] = g /\ pc[s] \in Reserving
      BY <3>3, <3>4 DEF ReservationIsLive, Reserving
    <3>6. QED
      BY <3>1, <3>4, <3>5
  <2>10. CASE ReportingDone(r)
    BY <2>10, MoveKeepsReservation DEF ReportingDone, Reserving
  <2>11. CASE Decide(r)
    <3>1. PICK x : pc' = [pc EXCEPT ![r] = x]
      BY <2>11 DEF Decide
    <3>2. QED
      BY <2>11, <3>1, MoveKeepsReservation DEF Decide, Reserving
  <2>12. CASE \/ SettleRejected(r)
              \/ \E qualifying, again \in BOOLEAN : ProbeFails(r, qualifying, again)
              \/ \E qualifying, again \in BOOLEAN : RequestFails(r, qualifying, again)
    BY <2>12, SettleKeepsReservation DEF SettleRejected, ProbeFails, RequestFails
  <2>13. QED
    BY <1>1, <2>1, <2>2, <2>3, <2>4, <2>5, <2>6, <2>7, <2>8, <2>9, <2>10, <2>11,
       <2>12 DEF Step
<1>2. ASSUME NEW g \in Groups, CooldownElapses(g) PROVE ReservationIsLive'
  <2>1. \A h \in Groups : circuit'[h].state = "half_open" => circuit'[h] = circuit[h]
    BY <1>2 DEF CooldownElapses, TypeOK, CircuitType
  <2>2. pc' = pc
    BY <1>2 DEF CooldownElapses
  <2>3. QED
    BY <2>1, <2>2 DEF ReservationIsLive
<1>3. CASE ScanStep
  <2> DEFINE r == queue[cursor]
  <2>1. r \in Reviewers /\ circuit' = circuit
    BY <1>3 DEF ScanStep, TypeOK
  <2>2. pc' = pc \/ pc' = [pc EXCEPT ![r] = "rejected"] \/ pc' = [pc EXCEPT ![r] = "granted"]
    BY <1>3 DEF ScanStep, ScanRejects, ScanSkips, ScanAdmits
  <2> HIDE DEF r
  <2>3. QED
    BY <2>1, <2>2, MoveKeepsReservation DEF ReservationIsLive, Reserving
<1>4. CASE Cancel \/ \E r \in Reviewers : PersistenceFails(r)
  <2>1. circuit' = circuit
    BY <1>4 DEF Cancel, PersistenceFails
  <2>2. \A s \in Reviewers : pc[s] \in Reserving => pc'[s] \in Reserving
    BY <1>4 DEF Cancel, PersistenceFails, AbortAll, TypeOK, Reserving
  <2>3. QED
    BY <2>1, <2>2 DEF ReservationIsLive, Reserving
<1>5. CASE ScanEnds \/ UNCHANGED vars \/ \E r \in Reviewers : BoundaryPasses(r)
  BY <1>5 DEF ScanEnds, BoundaryPasses, ReservationIsLive
<1>6. QED
  BY <1>1, <1>2, <1>3, <1>4, <1>5 DEF Next

\* A half-open reservation always belongs to a reviewer of that provider that
\* is on its way to the request or in it: no path of execute() leaks it.
THEOREM ReservationsAreLive == Spec => []ReservationIsLive
<1>1. Init => ReservationIsLive
  BY DEF Init, ReservationIsLive, Closed
<1>2. QED
  BY <1>1, ReservationStep, TypeCorrect, PTL DEF Spec

-----------------------------------------------------------------------------
(* Asleep on a circuit.                                                    *)

\* Who relies on being woken, and what will wake it.
Rests(s) == pc[s] = "sleeping" \/ (pc[s] = "announcing" /\ ~stale[s] /\ ~cancelled)
WillWake(s) ==
  \/ wakeAt[s] = "cooldown" /\ Circuit(s).state # "closed"
  \/ Circuit(s).state = "half_open" /\ Circuit(s).owner # s

LEMMA SleeperIsRests == SleeperWillWake <=> \A s \in Reviewers : Rests(s) => WillWake(s)
BY DEF SleeperWillWake, Rests, WillWake

\* A change of the circuits that closes none and hands no reservation over
\* leaves everyone's wake-up as it was.
Keeps(s) ==
  \/ Circuit(s)'.state = Circuit(s).state /\ Circuit(s)'.owner = Circuit(s).owner
  \/ Circuit(s).state = "open" /\ Circuit(s)'.state = "half_open"

LEMMA WakeIsKept ==
  ASSUME NEW s \in Reviewers, WillWake(s), wakeAt'[s] = wakeAt[s], Keeps(s)
  PROVE  WillWake(s)'
BY DEF WillWake, Keeps

\* Whoever rests after one of its own steps rested before, or has just found
\* its circuit closed to it.
LEMMA RestsMoves ==
  ASSUME TypeOK, NEW r \in Reviewers, NEW x \in Phases,
         pc' = [pc EXCEPT ![r] = x], x \notin {"sleeping", "announcing"},
         UNCHANGED <<stale, cancelled>>,
         NEW s \in Reviewers, Rests(s)'
  PROVE  Rests(s) /\ s # r
BY DEF Rests, TypeOK

\* notifyCircuit leaves nobody at rest.
LEMMA WokenRests ==
  ASSUME TypeOK, NEW r \in Reviewers, NEW x \in Phases, x \notin {"sleeping", "announcing"},
         pc' = Woken([pc EXCEPT ![r] = x]), MarkStale,
         NEW s \in Reviewers
  PROVE  ~Rests(s)'
<1>1. pc'[s] # "sleeping"
  BY DEF Woken, TypeOK, Phases
<1>2. pc'[s] = "announcing" => pc[s] = "announcing"
  BY DEF Woken, TypeOK, Phases
<1>3. pc[s] = "announcing" => stale'[s]
  BY DEF MarkStale
<1>4. QED
  BY <1>1, <1>2, <1>3 DEF Rests

\* The reservation of one reviewer, seen by the others.
LEMMA ReservedKeeps ==
  ASSUME TypeOK, NEW r \in Reviewers, SetCircuit(r, Reserved(Circuit(r), r)),
         NEW s \in Reviewers
  PROVE  Keeps(s)
<1>1. /\ circuit \in [Groups -> CircuitType] /\ GroupOf[r] \in Groups /\ GroupOf[s] \in Groups
      /\ circuit' = [circuit EXCEPT ![GroupOf[r]] = Reserved(circuit[GroupOf[r]], r)]
  BY GroupAssumption DEF TypeOK, SetCircuit, Circuit
<1>2. CASE GroupOf[s] = GroupOf[r]
  <2>1. circuit[GroupOf[r]] \in CircuitType
    BY <1>1
  <2>2. circuit'[GroupOf[s]] = Reserved(circuit[GroupOf[r]], r)
    BY <1>1, <1>2
  <2>3. QED
    BY <1>2, <2>1, <2>2 DEF Keeps, Circuit, Reserved, CircuitType
<1>3. CASE GroupOf[s] # GroupOf[r]
  BY <1>1, <1>3 DEF Keeps, Circuit
<1>4. QED
  BY <1>2, <1>3

LEMMA SameCircuitKeeps ==
  ASSUME circuit' = circuit, NEW s \in Reviewers
  PROVE  Keeps(s)
BY DEF Keeps, Circuit

LEMMA SettleKeepsSleepers ==
  ASSUME TypeOK, SleeperWillWake, NEW r \in Reviewers,
         NEW qualifying \in BOOLEAN, NEW again \in BOOLEAN,
         Settle(r, qualifying, again)
  PROVE  SleeperWillWake'
<1> SUFFICES ASSUME NEW s \in Reviewers, Rests(s)' PROVE WillWake(s)'
  BY DEF SleeperWillWake, Rests, WillWake
<1>1. "settled" \in Phases \ {"sleeping", "announcing"}
  BY DEF Phases
<1>2. ~(qualifying \/ OwnedBy(Circuit(r), r))
  BY <1>1, WokenRests DEF Settle
<1>3. pc' = [pc EXCEPT ![r] = "settled"] /\ UNCHANGED <<stale, cancelled, wakeAt>>
  BY <1>2 DEF Settle
<1>4. Rests(s)
  BY <1>1, <1>3, RestsMoves
<1>5. circuit' = circuit
  <2>1. AfterFailure(Circuit(r), r, qualifying) = Circuit(r)
    BY <1>2 DEF AfterFailure
  <2>2. circuit' = [circuit EXCEPT ![GroupOf[r]] = circuit[GroupOf[r]]]
    BY <2>1 DEF Settle, SetCircuit, Circuit
  <2>3. QED
    BY <2>2, GroupAssumption DEF TypeOK
<1>6. WillWake(s)
  BY <1>4, SleeperIsRests
<1>7. QED
  BY <1>3, <1>5, <1>6, SameCircuitKeeps, WakeIsKept

\* One turn of the event loop for one reviewer.
LEMMA StepKeepsSleepers ==
  ASSUME TypeOK, SleeperWillWake, NEW r \in Reviewers, Step(r)
  PROVE  SleeperWillWake'
<1> SUFFICES ASSUME NEW s \in Reviewers, Rests(s)' PROVE WillWake(s)'
  BY DEF SleeperWillWake, Rests, WillWake
<1>a. Rests(s) => WillWake(s)
  BY SleeperIsRests
\* Steps after which the reviewer is at work, and no circuit was touched.
<1>1. CASE BeginAttempt(r) \/ ProbeReady(r) \/ TimerWakes(r) \/ Enqueue(r)
           \/ QueueTimeout(r) \/ ReportingDone(r) \/ Decide(r)
  <2>1. PICK x \in Phases \ {"sleeping", "announcing"} : pc' = [pc EXCEPT ![r] = x]
    BY <1>1 DEF BeginAttempt, ProbeReady, TimerWakes, Enqueue, QueueTimeout,
                ReportingDone, Decide, Phases
  <2>2. UNCHANGED <<stale, cancelled, wakeAt, circuit>>
    BY <1>1 DEF BeginAttempt, ProbeReady, TimerWakes, Enqueue, QueueTimeout,
                ReportingDone, Decide
  <2>3. Rests(s)
    BY <2>1, <2>2, RestsMoves
  <2>4. QED
    BY <1>a, <2>2, <2>3, SameCircuitKeeps, WakeIsKept
<1>2. CASE CheckCircuit(r)
  <2>1. CASE pc' = [pc EXCEPT ![r] = "announcing"] /\ pc[r] = "checking" /\ ~Allowed(Circuit(r), r)
             /\ wakeAt' = [wakeAt EXCEPT ![r] = IF Circuit(r).state = "open" THEN "cooldown"
                                                                            ELSE "boundary"]
             /\ stale' = [stale EXCEPT ![r] = FALSE] /\ UNCHANGED <<circuit, cancelled>>
    <3>1. CASE s = r
      <4>1. Circuit(r)' = Circuit(r) /\ Circuit(r).state \in {"open", "closed", "half_open"}
        BY <2>1, GroupAssumption DEF Circuit, TypeOK, CircuitType
      <4>2. wakeAt'[r] = IF Circuit(r).state = "open" THEN "cooldown" ELSE "boundary"
        BY <2>1 DEF TypeOK
      <4>3. Circuit(r).state # "closed" /\ (Circuit(r).state = "half_open" => Circuit(r).owner # r)
        BY <2>1 DEF Allowed
      <4>4. QED
        BY <3>1, <4>1, <4>2, <4>3 DEF WillWake
    <3>2. CASE s # r
      <4>1. Rests(s) /\ wakeAt'[s] = wakeAt[s]
        BY <2>1, <3>2 DEF Rests, TypeOK
      <4>2. QED
        BY <1>a, <2>1, <4>1, SameCircuitKeeps, WakeIsKept
    <3>3. QED
      BY <3>1, <3>2
  <2>2. CASE /\ pc' = [pc EXCEPT ![r] = "passed"] /\ UNCHANGED <<stale, cancelled, wakeAt>>
             /\ SetCircuit(r, Reserved(Circuit(r), r))
    <3>1. Rests(s)
      BY <2>2, RestsMoves DEF Phases
    <3>2. QED
      BY <1>a, <2>2, <3>1, ReservedKeeps, WakeIsKept
  <2>3. CASE pc' = [pc EXCEPT ![r] = "rejected"] /\ UNCHANGED <<breaker, cancelled>>
    <3>1. Rests(s)
      BY <2>3, RestsMoves DEF Phases
    <3>2. QED
      BY <1>a, <2>3, <3>1, SameCircuitKeeps, WakeIsKept
  <2>4. QED
    BY <1>2, <2>1, <2>2, <2>3 DEF CheckCircuit
<1>3. CASE Announced(r)
  <2>1. Rests(s)
    BY <1>3 DEF Announced, Rests, TypeOK
  <2>2. UNCHANGED <<circuit, wakeAt>>
    BY <1>3 DEF Announced
  <2>3. QED
    BY <1>a, <2>1, <2>2, SameCircuitKeeps, WakeIsKept
<1>4. CASE Resume(r)
  <2>1. PICK x \in Phases \ {"sleeping", "announcing"} : pc' = [pc EXCEPT ![r] = x]
    BY <1>4 DEF Resume, Phases
  <2>2. UNCHANGED <<stale, cancelled, wakeAt>>
    BY <1>4 DEF Resume
  <2>3. Rests(s)
    BY <2>1, <2>2, RestsMoves
  <2>4. circuit' = circuit \/ SetCircuit(r, Reserved(Circuit(r), r))
    BY <1>4 DEF Resume
  <2>5. QED
    BY <1>a, <2>2, <2>3, <2>4, SameCircuitKeeps, ReservedKeeps, WakeIsKept
<1>5. CASE RequestSucceeds(r)
  <2>1. pc' = Woken([pc EXCEPT ![r] = "reporting"]) /\ MarkStale
    BY <1>5 DEF RequestSucceeds
  <2>2. QED
    BY <2>1, WokenRests DEF Phases
<1>6. CASE \/ SettleRejected(r)
           \/ \E qualifying, again \in BOOLEAN : ProbeFails(r, qualifying, again)
           \/ \E qualifying, again \in BOOLEAN : RequestFails(r, qualifying, again)
  <2>1. PICK qualifying, again \in BOOLEAN : Settle(r, qualifying, again)
    BY <1>6 DEF SettleRejected, ProbeFails, RequestFails
  <2>2. SleeperWillWake'
    BY <2>1, SettleKeepsSleepers
  <2>3. QED
    BY <2>2 DEF SleeperWillWake, Rests, WillWake
<1>7. QED
  BY <1>1, <1>2, <1>3, <1>4, <1>5, <1>6 DEF Step

LEMMA NextKeepsSleepers == TypeOK /\ SleeperWillWake /\ [Next]_vars => SleeperWillWake'
<1> SUFFICES ASSUME TypeOK, SleeperWillWake, [Next]_vars,
                    NEW s \in Reviewers, Rests(s)'
             PROVE  WillWake(s)'
  BY DEF SleeperWillWake, Rests, WillWake
<1>a. Rests(s) => WillWake(s)
  BY SleeperIsRests
<1>1. ASSUME NEW r \in Reviewers, BoundaryPasses(r) PROVE WillWake(s)'
  <2>1. UNCHANGED <<pc, cancelled, breaker>>
    BY <1>1 DEF BoundaryPasses
  <2>2. QED
    BY <1>a, <2>1, SameCircuitKeeps, WakeIsKept DEF Rests
<1>2. ASSUME Cancel \/ \E r \in Reviewers : PersistenceFails(r) PROVE FALSE
  <2>1. cancelled'
    BY <1>2 DEF Cancel, PersistenceFails, AbortAll
  <2>2. pc'[s] # "sleeping"
    BY <1>2 DEF Cancel, PersistenceFails, AbortAll
  <2>3. QED
    BY <2>1, <2>2 DEF Rests
<1>3. ASSUME NEW g \in Groups, CooldownElapses(g) PROVE WillWake(s)'
  <2>1. /\ circuit' = [circuit EXCEPT ![g].cooled = TRUE]
        /\ UNCHANGED <<pc, cancelled, stale, wakeAt>>
    BY <1>3 DEF CooldownElapses
  <2>2. circuit[g] \in CircuitType /\ circuit \in [Groups -> CircuitType] /\ GroupOf[s] \in Groups
    BY GroupAssumption DEF TypeOK
  <2>3. Keeps(s)
    BY <2>1, <2>2 DEF Keeps, Circuit, CircuitType
  <2>4. QED
    BY <1>a, <2>1, <2>3, WakeIsKept DEF Rests
<1>4. CASE ScanStep
  <2>1. /\ UNCHANGED <<cancelled, breaker>>
        /\ pc'[s] = pc[s] \/ pc'[s] \in {"rejected", "granted"}
    BY <1>4 DEF ScanStep, ScanRejects, ScanSkips, ScanAdmits, TypeOK
  <2>2. QED
    BY <1>a, <2>1, SameCircuitKeeps, WakeIsKept DEF Rests
<1>5. CASE ScanEnds \/ UNCHANGED vars
  <2>1. UNCHANGED <<pc, cancelled, breaker>>
    BY <1>5 DEF ScanEnds
  <2>2. QED
    BY <1>a, <2>1, SameCircuitKeeps, WakeIsKept DEF Rests
<1>6. ASSUME NEW r \in Reviewers, Step(r) PROVE WillWake(s)'
  <2>1. SleeperWillWake'
    BY <1>6, StepKeepsSleepers
  <2>2. QED
    BY <2>1 DEF SleeperWillWake, Rests, WillWake
<1>7. QED
  BY <1>1, <1>2, <1>3, <1>4, <1>5, <1>6 DEF Next

\* No wake-up of waitForCircuit is lost, for any number of reviewers: whoever
\* sleeps has an armed cooldown timer or another's reservation to wait for.
THEOREM SleepersWake == Spec => []SleeperWillWake
<1>1. Init => SleeperWillWake
  BY DEF Init, SleeperWillWake
<1>2. QED
  BY <1>1, NextKeepsSleepers, TypeCorrect, PTL DEF Spec

-----------------------------------------------------------------------------
(* Waiting for a slot.                                                     *)

\* What a scan under way has established so far: the entries it has passed
\* cannot be admitted.  Between two scans this holds of the whole queue.
PassedOver(i) == cursor = 0 \/ i < cursor
ScanIsRight == \A i \in 1..Len(queue) : PassedOver(i) => expired[queue[i]] \/ Full(queue[i])

\* Nobody waits outside the queue.
QueueIsWhole == \A r \in Reviewers : pc[r] = "queued" => \E i \in 1..Len(queue) : queue[i] = r

ServedInv == ScanIsRight /\ QueueIsWhole

LEMMA QueueFacts ==
  ASSUME TypeOK
  PROVE  Len(queue) \in Nat /\ \A i \in 1..Len(queue) : queue[i] \in Reviewers
BY DEF TypeOK

\* Neither the queue nor the counters move.
LEMMA StillScanIsRight ==
  ASSUME TypeOK, ScanIsRight,
         UNCHANGED <<queue, cursor, executionActive, providerActive>>,
         \A r \in Reviewers : expired[r] => expired'[r]
  PROVE  ScanIsRight'
BY QueueFacts DEF ScanIsRight, PassedOver, Full

\* A scan that begins has promised nothing yet.
LEMMA FreshScanIsRight == ASSUME cursor' = 1 PROVE ScanIsRight'
BY DEF ScanIsRight, PassedOver

LEMMA ReleaseKeepsScan ==
  ASSUME TypeOK, ScanIsRight, NEW r \in Reviewers, Release(r), UNCHANGED expired
  PROVE  ScanIsRight' /\ UNCHANGED queue
<1>1. CASE slot[r] # "held"
  BY <1>1, StillScanIsRight DEF Release
<1>2. CASE slot[r] = "held" /\ queue # <<>>
  BY <1>2, FreshScanIsRight DEF Release
<1>3. CASE slot[r] = "held" /\ queue = <<>>
  BY <1>3 DEF Release, ScanIsRight
<1>4. QED
  BY <1>1, <1>2, <1>3

\* Nobody joins the waiters and the queue stays.
LEMMA StillWhole ==
  ASSUME QueueIsWhole, UNCHANGED queue,
         \A r \in Reviewers : pc'[r] = "queued" => pc[r] = "queued"
  PROVE  QueueIsWhole'
BY DEF QueueIsWhole

\* An entry leaves the queue together with its reviewer; the others stay, and
\* those the scan had passed keep their verdict while no slot comes free.
LEMMA RemovalServes ==
  ASSUME TypeOK, ServedInv, NEW k \in 1..Len(queue), NEW y \in Phases \ {"queued"},
         queue' = RemoveAt(queue, k), pc' = [pc EXCEPT ![queue[k]] = y],
         UNCHANGED <<cursor, expired>>, cursor = 0 \/ cursor = k,
         \A r \in Reviewers : Full(r) => Full(r)'
  PROVE  ServedInv'
<1> USE DEF ServedInv
<1>1. /\ queue \in Seq(Reviewers) /\ Len(queue) \in Nat /\ pc \in [Reviewers -> Phases]
      /\ \A i \in 1..Len(queue) : queue[i] \in Reviewers
  BY DEF TypeOK
<1>2. /\ Len(queue') = Len(queue) - 1
      /\ \A i \in 1..Len(queue)-1 : queue'[i] = IF i < k THEN queue[i] ELSE queue[i+1]
  BY <1>1, RemoveAtProperties
<1>3. ASSUME NEW i \in 1..Len(queue'), PassedOver(i)'
      PROVE  (expired[queue[i]] \/ Full(queue[i]))'
  <2> DEFINE a == IF i < k THEN i ELSE i+1
  <2>1. a \in 1..Len(queue) /\ queue'[i] = queue[a]
    BY <1>1, <1>2
  <2>2. PassedOver(a)
    BY <1>3 DEF PassedOver
  <2> HIDE DEF a
  <2>3. expired[queue[a]] \/ Full(queue[a])
    BY <2>1, <2>2 DEF ScanIsRight
  <2>4. PICK r \in Reviewers : r = queue[a]
    BY <1>1, <2>1
  <2>5. expired[r] \/ Full(r)
    BY <2>3, <2>4 DEF Full
  <2>6. expired'[r] \/ Full(r)'
    BY <2>5
  <2>7. queue'[i] = r
    BY <2>1, <2>4
  <2>8. QED
    BY <2>6, <2>7 DEF Full
<1>4. ASSUME NEW r \in Reviewers, pc'[r] = "queued"
      PROVE  \E i \in 1..Len(queue') : queue'[i] = r
  <2>1. pc[r] = "queued" /\ r # queue[k]
    BY <1>1, <1>4
  <2>2. PICK a \in 1..Len(queue) : queue[a] = r
    BY <2>1 DEF QueueIsWhole
  <2>3. a # k
    BY <2>1, <2>2
  <2>4. CASE a < k
    <3>1. a \in 1..Len(queue') /\ queue'[a] = r
      BY <1>1, <1>2, <2>2, <2>4
    <3>2. QED
      BY <3>1
  <2>5. CASE a > k
    <3>1. a-1 \in 1..Len(queue') /\ ~(a-1 < k) /\ (a-1)+1 = a
      BY <1>1, <1>2, <2>5
    <3>2. queue'[a-1] = r
      BY <1>2, <2>2, <3>1
    <3>3. QED
      BY <3>1, <3>2
  <2>6. QED
    BY <1>1, <2>3, <2>4, <2>5
<1>5. QED
  BY <1>3, <1>4 DEF ScanIsRight, QueueIsWhole

LEMMA StepServes ==
  ASSUME TypeOK, ServedInv, NEW r \in Reviewers, Step(r)
  PROVE  ServedInv'
<1> USE DEF ServedInv
<1>0. pc \in [Reviewers -> Phases]
  BY DEF TypeOK
\* Steps that touch neither the queue nor a slot.
<1>1. CASE BeginAttempt(r) \/ ProbeReady(r) \/ CheckCircuit(r) \/ Announced(r)
           \/ TimerWakes(r) \/ RequestSucceeds(r) \/ Decide(r)
  <2>1. UNCHANGED <<queue, cursor, executionActive, providerActive, expired>>
    BY <1>1 DEF BeginAttempt, ProbeReady, CheckCircuit, Announced, TimerWakes,
                RequestSucceeds, Decide
  <2>2. PICK x \in Phases \ {"queued"} :
          pc' = [pc EXCEPT ![r] = x] \/ pc' = Woken([pc EXCEPT ![r] = x])
    BY <1>1 DEF BeginAttempt, ProbeReady, CheckCircuit, Announced, TimerWakes,
                RequestSucceeds, Decide, Phases
  <2>3. \A s \in Reviewers : pc'[s] = "queued" => pc[s] = "queued"
    BY <1>0, <2>2 DEF Woken
  <2>4. QED
    BY <2>1, <2>3, StillScanIsRight, StillWhole
\* Steps that may give a slot back.
<1>2. CASE \/ ReportingDone(r) \/ Resume(r) \/ SettleRejected(r)
           \/ \E qualifying, again \in BOOLEAN : ProbeFails(r, qualifying, again)
           \/ \E qualifying, again \in BOOLEAN : RequestFails(r, qualifying, again)
  <2>1. (Release(r) \/ UNCHANGED slots) /\ UNCHANGED expired
    BY <1>2 DEF ReportingDone, Resume, SettleRejected, ProbeFails, RequestFails, Settle
  <2>2. PICK x \in Phases \ {"queued"} :
          pc' = [pc EXCEPT ![r] = x] \/ pc' = Woken([pc EXCEPT ![r] = x])
    BY <1>2 DEF ReportingDone, Resume, SettleRejected, ProbeFails, RequestFails, Settle,
                Phases
  <2>3. \A s \in Reviewers : pc'[s] = "queued" => pc[s] = "queued"
    BY <1>0, <2>2 DEF Woken
  <2>4. ScanIsRight' /\ UNCHANGED queue
    BY <2>1, ReleaseKeepsScan, StillScanIsRight
  <2>5. QED
    BY <2>3, <2>4, StillWhole
<1>3. CASE Enqueue(r)
  <2>1. cursor' = 1 /\ queue' = Append(queue, r) /\ pc' = [pc EXCEPT ![r] = "queued"]
    BY <1>3 DEF Enqueue
  <2>2. /\ Len(queue') = Len(queue) + 1 /\ queue'[Len(queue) + 1] = r
        /\ \A i \in 1..Len(queue) : queue'[i] = queue[i]
    BY <2>1 DEF TypeOK
  <2>3. ASSUME NEW s \in Reviewers, pc'[s] = "queued"
        PROVE  \E i \in 1..Len(queue') : queue'[i] = s
    <3>1. CASE s = r
      BY <2>2, <3>1, QueueFacts
    <3>2. CASE s # r
      <4>1. PICK i \in 1..Len(queue) : queue[i] = s
        BY <1>0, <2>1, <2>3, <3>2 DEF QueueIsWhole
      <4>2. QED
        BY <2>2, <4>1, QueueFacts
    <3>3. QED
      BY <3>1, <3>2
  <2>4. QED
    BY <2>1, <2>3, FreshScanIsRight DEF QueueIsWhole
<1>4. CASE QueueTimeout(r)
  <2>1. PICK k \in 1..Len(queue) : queue[k] = r /\ queue' = RemoveAt(queue, k)
    BY <1>4 DEF QueueTimeout
  <2>2. "rejected" \in Phases \ {"queued"}
    BY DEF Phases
  <2>3. /\ pc' = [pc EXCEPT ![queue[k]] = "rejected"] /\ cursor = 0
        /\ UNCHANGED <<cursor, expired, executionActive, providerActive>>
    BY <1>4, <2>1 DEF QueueTimeout, Idle
  <2>4. \A s \in Reviewers : Full(s) => Full(s)'
    BY <2>3 DEF Full
  <2>5. QED
    BY <2>1, <2>2, <2>3, <2>4, RemovalServes
<1>5. QED
  BY <1>1, <1>2, <1>3, <1>4 DEF Step

\* A scan only takes slots.
LEMMA FullStays ==
  ASSUME TypeOK, ScanStep
  PROVE  \A s \in Reviewers : Full(s) => Full(s)'
<1> DEFINE r == queue[cursor]
<1>1. r \in Reviewers /\ (ScanRejects(r) \/ ScanSkips(r) \/ ScanAdmits(r))
  BY QueueFacts DEF ScanStep
<1>2. CASE ScanRejects(r) \/ ScanSkips(r)
  BY <1>2 DEF ScanRejects, ScanSkips, Full
<1>3. CASE ScanAdmits(r)
  <2>1. /\ executionActive' = executionActive + 1
        /\ providerActive' = [providerActive EXCEPT ![GroupOf[r]] = @ + 1]
        /\ executionActive \in Nat /\ MaxConcurrency \in Nat
        /\ providerActive \in [Groups -> Nat] /\ ProviderLimit \in [Groups -> Nat]
        /\ \A s \in Reviewers : GroupOf[s] \in Groups
    BY <1>3, LimitAssumption, GroupAssumption DEF ScanAdmits, TypeOK
  <2>2. ASSUME NEW s \in Reviewers, Full(s) PROVE Full(s)'
    <3>1. providerActive'[GroupOf[s]] \in {providerActive[GroupOf[s]],
                                           providerActive[GroupOf[s]] + 1}
      BY <2>1
    <3>2. providerActive[GroupOf[s]] \in Nat /\ ProviderLimit[GroupOf[s]] \in Nat
      BY <2>1
    <3>3. QED
      BY <2>1, <2>2, <3>1, <3>2 DEF Full
  <2>3. QED
    BY <2>2
<1>4. QED
  BY <1>1, <1>2, <1>3

LEMMA ScanServes ==
  ASSUME TypeOK, ServedInv, ScanStep
  PROVE  ServedInv'
<1> USE DEF ServedInv
<1> DEFINE r == queue[cursor]
<1>1. /\ cursor \in 1..Len(queue) /\ r \in Reviewers /\ UNCHANGED expired
      /\ ScanRejects(r) \/ ScanSkips(r) \/ ScanAdmits(r)
      /\ cursor \in Nat
  BY QueueFacts DEF ScanStep, TypeOK
<1>2. CASE ScanRejects(r) \/ ScanAdmits(r)
  <2>1. \A s \in Reviewers : Full(s) => Full(s)'
    BY FullStays
  <2>2. PICK y \in Phases \ {"queued"} : pc' = [pc EXCEPT ![queue[cursor]] = y]
    BY <1>2 DEF ScanRejects, ScanAdmits, Phases
  <2>3. queue' = RemoveAt(queue, cursor) /\ UNCHANGED cursor
    BY <1>2 DEF ScanRejects, ScanAdmits
  <2>4. QED
    BY <1>1, <2>1, <2>2, <2>3, RemovalServes
<1>3. CASE ScanSkips(r)
  <2>1. /\ Full(queue[cursor]) /\ cursor' = cursor + 1
        /\ UNCHANGED <<pc, queue, executionActive, providerActive>>
    BY <1>3 DEF ScanSkips
  <2>2. ASSUME NEW i \in 1..Len(queue'), PassedOver(i)'
        PROVE  (expired[queue[i]] \/ Full(queue[i]))'
    <3>1. i = cursor \/ PassedOver(i)
      BY <1>1, <2>1, <2>2 DEF PassedOver
    <3>2. expired[queue[i]] \/ Full(queue[i])
      BY <2>1, <3>1 DEF ScanIsRight
    <3>3. QED
      BY <1>1, <2>1, <3>2 DEF Full
  <2>3. QED
    BY <2>1, <2>2, StillWhole DEF ScanIsRight
<1>4. QED
  BY <1>1, <1>2, <1>3

LEMMA NextServes == TypeOK /\ ServedInv /\ [Next]_vars => ServedInv'
<1> SUFFICES ASSUME TypeOK, ServedInv, [Next]_vars PROVE ServedInv'
  OBVIOUS
<1> USE DEF ServedInv
<1>1. CASE Cancel \/ \E r \in Reviewers : PersistenceFails(r)
  <2>1. queue' = <<>> /\ \A s \in Reviewers : pc'[s] # "queued"
    BY <1>1 DEF Cancel, PersistenceFails, AbortAll
  <2>2. QED
    BY <2>1 DEF ScanIsRight, QueueIsWhole
<1>2. CASE \/ \E r \in Reviewers : BoundaryPasses(r)
           \/ \E g \in Groups : CooldownElapses(g)
           \/ UNCHANGED vars
  <2>1. UNCHANGED <<pc, queue, cursor, executionActive, providerActive>>
    BY <1>2 DEF BoundaryPasses, CooldownElapses
  <2>2. \A s \in Reviewers : expired[s] => expired'[s]
    BY <1>2 DEF BoundaryPasses, CooldownElapses, TypeOK
  <2>3. QED
    BY <2>1, <2>2, StillScanIsRight, StillWhole
<1>3. CASE ScanEnds
  <2>1. /\ cursor > Len(queue)
        /\ UNCHANGED <<pc, queue, executionActive, providerActive, expired>>
    BY <1>3 DEF ScanEnds
  <2>2. \A i \in 1..Len(queue) : PassedOver(i)
    BY <2>1, QueueFacts DEF PassedOver, TypeOK
  <2>3. ScanIsRight'
    BY <2>1, <2>2 DEF ScanIsRight, Full
  <2>4. QED
    BY <2>1, <2>3, StillWhole
<1>4. QED
  BY <1>1, <1>2, <1>3, StepServes, ScanServes DEF Next

\* Nobody is forgotten in the admission queue, and between two turns of the
\* event loop nobody in it waits for a slot that is free, for any number of
\* reviewers and whatever the limits.
THEOREM WaitersServed == Spec => []WaitersAreServed
<1>1. Init => ServedInv
  BY DEF Init, ServedInv, ScanIsRight, QueueIsWhole
<1>2. IInv => TypeOK /\ QueueSound
  BY DEF IInv
<1>3. IInv /\ ServedInv => WaitersAreServed
  <2> SUFFICES ASSUME IInv, ServedInv PROVE WaitersAreServed
    OBVIOUS
  <2>1. QueueIsWaiters
    BY DEF IInv, QueueSound, ServedInv, QueueIsWhole, QueueIsWaiters
  <2>2. NoIdleSlot
    BY DEF ServedInv, ScanIsRight, PassedOver, NoIdleSlot, Idle
  <2>3. QED
    BY <2>1, <2>2 DEF IInv, WaitersAreServed
<1>4. QED
  BY <1>1, <1>2, <1>3, NextServes, Invariance, PTL DEF Spec

-----------------------------------------------------------------------------
(* Refinement: the queue implements the slot pool and its line.            *)

\* Whoever a scan has passed finds no slot free, and none comes free before the
\* scan is over.
PassedAreFull == \A i \in 1..Len(queue) : i < cursor => Full(queue[i])

LEMMA PassedStep == TypeOK /\ PassedAreFull /\ [Next]_vars => PassedAreFull'
<1> SUFFICES ASSUME TypeOK, PassedAreFull, [Next]_vars PROVE PassedAreFull'
  OBVIOUS
<1>1. CASE ScanStep
  <2> DEFINE r == queue[cursor]
  <2>1. /\ cursor \in 1..Len(queue) /\ queue \in Seq(Reviewers) /\ Len(queue) \in Nat
        /\ \A i \in 1..Len(queue) : queue[i] \in Reviewers
        /\ ScanRejects(r) \/ ScanSkips(r) \/ ScanAdmits(r)
    BY <1>1, QueueFacts DEF ScanStep, TypeOK
  <2>2. \A x \in Reviewers : Full(x) => Full(x)'
    BY <1>1, FullStays
  <2>3. CASE ScanSkips(r)
    <3>1. /\ Full(queue[cursor]) /\ cursor' = cursor + 1
          /\ UNCHANGED <<queue, executionActive, providerActive>>
      BY <2>3 DEF ScanSkips
    <3>2. ASSUME NEW i \in 1..Len(queue'), i < cursor' PROVE Full(queue[i])'
      <4>1. i = cursor \/ i < cursor
        BY <2>1, <3>1, <3>2
      <4>2. Full(queue[i])
        BY <3>1, <4>1 DEF PassedAreFull
      <4>3. QED
        BY <3>1, <4>2 DEF Full
    <3>3. QED
      BY <3>2 DEF PassedAreFull
  <2>4. CASE ScanRejects(r) \/ ScanAdmits(r)
    <3>1. queue' = RemoveAt(queue, cursor) /\ cursor' = cursor
      BY <2>4 DEF ScanRejects, ScanAdmits
    <3>2. /\ Len(queue') = Len(queue) - 1
          /\ \A i \in 1..Len(queue)-1 :
               queue'[i] = IF i < cursor THEN queue[i] ELSE queue[i+1]
      BY <2>1, <3>1, RemoveAtProperties
    <3>3. ASSUME NEW i \in 1..Len(queue'), i < cursor' PROVE Full(queue[i])'
      <4>1. i \in 1..Len(queue) /\ i < cursor /\ queue'[i] = queue[i]
        BY <2>1, <3>1, <3>2, <3>3
      <4>2. PICK x \in Reviewers : x = queue[i] /\ x = queue'[i]
        BY <2>1, <4>1
      <4>3. Full(x)
        BY <4>1, <4>2 DEF PassedAreFull
      <4>4. Full(x)'
        BY <2>2, <4>3
      <4>5. QED
        BY <4>2, <4>4 DEF Full
    <3>4. QED
      BY <3>3 DEF PassedAreFull
  <2>5. QED
    BY <2>1, <2>3, <2>4
\* Every other step begins a scan, ends it, or has none under way.
<1>2. CASE cursor' \in {0, 1}
  BY <1>2 DEF PassedAreFull
<1>3. CASE UNCHANGED vars
  BY <1>3 DEF PassedAreFull, Full
<1>4. cursor' \in {0, 1} \/ ScanStep \/ UNCHANGED vars
  <2>1. ASSUME NEW r \in Reviewers, Release(r), Idle PROVE cursor' \in {0, 1}
    BY <2>1 DEF Release, Idle
  <2>2. ASSUME NEW r \in Reviewers, Step(r) PROVE cursor' \in {0, 1}
    BY <2>1, <2>2 DEF Step, BeginAttempt, ProbeReady, CheckCircuit, Announced, TimerWakes,
       Enqueue, QueueTimeout, Resume, RequestSucceeds, ReportingDone, SettleRejected,
       Decide, ProbeFails, RequestFails, Settle, Idle
  <2>3. QED
    BY <2>2 DEF Next, BoundaryPasses, CooldownElapses, ScanEnds, Cancel, PersistenceFails,
                Idle
<1>5. QED
  BY <1>1, <1>2, <1>3, <1>4

LEMMA PoolInit == Init => Pool!Init /\ PassedAreFull
BY DEF Init, Pool!Init, Holders, PassedAreFull

\* The pool counts as the module does, and takes from a line as it does.
LEMMA PoolCounts ==
  /\ \A S : Pool!Cardinality(S) = Cardinality(S)
  /\ \A q, k : Pool!RemoveAt(q, k) = RemoveAt(q, k)
BY DEF Pool!Cardinality, Cardinality, Pool!RemoveAt, RemoveAt

\* The counters say exactly who fits into the pool.
LEMMA FullOrFits ==
  ASSUME TypeOK, SlotsAccounted, NEW r \in Reviewers
  PROVE  Pool!Fits(r) <=> ~Full(r)
<1>1. GroupOf[r] \in Groups /\ Pool!InGroup(GroupOf[r]) = HoldersOf(GroupOf[r])
  BY GroupAssumption DEF Pool!InGroup, HoldersOf
<1>2. /\ executionActive = Cardinality(Holders) /\ executionActive \in Nat
      /\ providerActive[GroupOf[r]] = Cardinality(HoldersOf(GroupOf[r]))
      /\ providerActive[GroupOf[r]] \in Nat
  BY <1>1 DEF SlotsAccounted, TypeOK
<1>3. MaxConcurrency \in Nat /\ ProviderLimit[GroupOf[r]] \in Nat
  BY <1>1, LimitAssumption
<1>4. QED
  BY <1>1, <1>2, <1>3, PoolCounts DEF Pool!Fits, Full

LEMMA PoolGiveBack ==
  ASSUME TypeOK, NEW r \in Reviewers, Release(r)
  PROVE  Pool!GiveBack(r) \/ UNCHANGED <<Holders, queue>>
<1>1. CASE slot[r] = "held"
  <2>1. slot' = [slot EXCEPT ![r] = "free"] /\ r \in Holders /\ UNCHANGED queue
    BY <1>1 DEF Release, Holders
  <2>2. Holders' = Holders \ {r}
    BY <2>1 DEF Holders, TypeOK
  <2>3. QED
    BY <2>1, <2>2 DEF Pool!GiveBack
<1>2. CASE slot[r] # "held"
  BY <1>2 DEF Release, Holders
<1>3. QED
  BY <1>1, <1>2

\* One turn of the event loop: join the line, leave it, or give a slot back.
LEMMA PoolTurn ==
  ASSUME IInv, NEW r \in Reviewers, Step(r)
  PROVE  Pool!Next \/ UNCHANGED <<Holders, queue>>
<1> USE DEF IInv
<1>1. CASE Enqueue(r)
  <2>1. pc[r] = "passed" /\ queue' = Append(queue, r) /\ Holders' = Holders
    BY <1>1 DEF Enqueue, Holders
  <2>2. \A i \in 1..Len(queue) : queue[i] # r
    BY <2>1 DEF QueueSound
  <2>3. QED
    BY <2>1, <2>2 DEF Pool!Join, Pool!Next
<1>2. CASE QueueTimeout(r)
  <2>1. PICK k \in 1..Len(queue) : queue' = RemoveAt(queue, k)
    BY <1>2 DEF QueueTimeout
  <2>2. Holders' = Holders
    BY <1>2 DEF QueueTimeout, Holders
  <2>3. Pool!Leave(k)
    BY <2>1, <2>2, PoolCounts DEF Pool!Leave
  <2>4. QED
    BY <2>3 DEF Pool!Next
<1>3. CASE Release(r)
  BY <1>3, PoolGiveBack DEF Pool!Next
<1>4. CASE UNCHANGED <<slot, queue>>
  BY <1>4 DEF Holders
<1>5. Enqueue(r) \/ QueueTimeout(r) \/ Release(r) \/ UNCHANGED <<slot, queue>>
  BY DEF Step, BeginAttempt, ProbeReady, CheckCircuit, Announced, TimerWakes, Resume,
         RequestSucceeds, ReportingDone, SettleRejected, Decide, ProbeFails, RequestFails,
         Settle
<1>6. QED
  BY <1>1, <1>2, <1>3, <1>4, <1>5

\* One entry scanned: it leaves the line, is passed, or is granted a slot before
\* which nobody fitted.
LEMMA PoolScan ==
  ASSUME IInv, PassedAreFull, ScanStep
  PROVE  Pool!Next \/ UNCHANGED <<Holders, queue>>
<1> USE DEF IInv
<1> DEFINE r == queue[cursor]
<1>1. /\ cursor \in 1..Len(queue) /\ r \in Reviewers /\ pc[r] = "queued"
      /\ Len(queue) \in Nat /\ \A i \in 1..Len(queue) : queue[i] \in Reviewers
      /\ ScanRejects(r) \/ ScanSkips(r) \/ ScanAdmits(r)
  BY QueueFacts DEF ScanStep, QueueSound
<1>2. CASE ScanRejects(r)
  <2>1. queue' = RemoveAt(queue, cursor) /\ Holders' = Holders
    BY <1>2 DEF ScanRejects, Holders
  <2>2. Pool!Leave(cursor)
    BY <2>1, PoolCounts DEF Pool!Leave
  <2>3. QED
    BY <1>1, <2>2 DEF Pool!Next
<1>3. CASE ScanSkips(r)
  BY <1>3 DEF ScanSkips, Holders
<1>4. CASE ScanAdmits(r)
  <2>1. /\ slot' = [slot EXCEPT ![r] = "held"] /\ ~Full(r) /\ ~cancelled
        /\ queue' = RemoveAt(queue, cursor)
    BY <1>4 DEF ScanAdmits
  <2>2. r \notin Holders
    BY <1>1, <2>1 DEF SlotsHaveOwners, Holders, TypeOK
  <2>3. Holders' = Holders \cup {r}
    BY <1>1, <2>1 DEF Holders, TypeOK
  <2>4. Pool!Fits(queue[cursor])
    BY <1>1, <2>1, FullOrFits
  <2>5. ASSUME NEW i \in 1..cursor-1 PROVE ~Pool!Fits(queue[i])
    <3>1. i \in 1..Len(queue) /\ i < cursor
      BY <1>1
    <3>2. Full(queue[i]) /\ queue[i] \in Reviewers
      BY <1>1, <3>1 DEF PassedAreFull
    <3>3. QED
      BY <3>2, FullOrFits
  <2>6. Pool!Grant(cursor)
    BY <2>1, <2>2, <2>3, <2>4, <2>5, PoolCounts DEF Pool!Grant
  <2>7. QED
    BY <1>1, <2>6 DEF Pool!Next
<1>5. QED
  BY <1>1, <1>2, <1>3, <1>4

LEMMA PoolStep ==
  IInv /\ PassedAreFull /\ [Next]_vars => [Pool!Next]_<<Holders, queue>>
<1> SUFFICES ASSUME IInv, PassedAreFull, [Next]_vars
             PROVE  Pool!Next \/ UNCHANGED <<Holders, queue>>
  OBVIOUS
<1>1. ASSUME NEW r \in Reviewers, Step(r)
      PROVE  Pool!Next \/ UNCHANGED <<Holders, queue>>
  BY <1>1, PoolTurn
<1>2. CASE ScanStep
  BY <1>2, PoolScan
<1>3. ASSUME Cancel \/ \E r \in Reviewers : PersistenceFails(r) PROVE Pool!Next
  <2>1. queue' = <<>>
    BY <1>3 DEF Cancel, PersistenceFails, AbortAll
  <2>2. Holders' = Holders
    <3>1. CASE Cancel
      BY <3>1 DEF Cancel, Holders
    <3>2. CASE \E r \in Reviewers : PersistenceFails(r)
      <4>1. PICK r \in Reviewers : PersistenceFails(r)
        BY <3>2
      <4>2. slot' = [slot EXCEPT ![r] = IF pc[r] = "granted" THEN "lost" ELSE @]
        BY <4>1 DEF PersistenceFails
      <4>3. pc[r] = "granted" => slot[r] = "held"
        BY DEF IInv, SlotsHaveOwners
      <4>4. QED
        BY <4>2, <4>3 DEF Holders, IInv, TypeOK
    <3>3. QED
      BY <1>3, <3>1, <3>2
  <2>3. QED
    BY <2>1, <2>2 DEF Pool!Disband, Pool!Next
<1>4. CASE UNCHANGED <<slot, queue>>
  BY <1>4 DEF Holders
<1>5. QED
  BY <1>1, <1>2, <1>3, <1>4 DEF Next, BoundaryPasses, CooldownElapses, ScanEnds

\* Every behaviour of the admission queue is a behaviour of the pool and its line:
\* a slot is granted below both limits only, to the first in line that fits, and is
\* given back at most once, for any number of reviewers and whatever the limits.
THEOREM QueueImplementsPool == Spec => PoolSpec
<1>1. PoolSpec <=> Pool!Init /\ [][Pool!Next]_<<Holders, queue>>
  BY DEF PoolSpec, Pool!Spec, Pool!poolVars
<1>2. IInv => TypeOK
  BY DEF IInv
<1>3. QED
  BY <1>1, <1>2, PoolInit, PoolStep, PassedStep, Invariance, PTL DEF Spec
=============================================================================
