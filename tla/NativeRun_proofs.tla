-------------------------- MODULE NativeRun_proofs --------------------------
(***************************************************************************)
(* Proofs about NativeRun, for any number of lenses, reviewers and         *)
(* provider groups, any limits and any policy.                             *)
(***************************************************************************)
EXTENDS NativeRun, FiniteSetTheorems, SequenceTheorems, WellFoundedInduction, TLAPS

Marks == {"queued", "running", "completed", "incomplete", "skipped"}
Ended == {"completed", "incomplete", "skipped"}
Results == {"none", "pass4", "fail4", "pass2", "fail2"}
Weights == {"none", "unadjudicated"} \cup Decisions

\* What TypeOK does not say of the variables that have a value for each lens.
Shapes ==
  /\ DOMAIN at = Lenses /\ DOMAIN source = Lenses /\ DOMAIN passes = Lenses
  /\ DOMAIN terminals = Lenses /\ DOMAIN status = Lenses
  /\ DOMAIN result = Lenses /\ DOMAIN finding = Lenses
  /\ \A l \in Lenses : /\ status[l] \in [Members(l) -> Marks]
                       /\ result[l] \in [Members(l) -> Results]
                       /\ finding[l] \in [Members(l) -> Weights]

-----------------------------------------------------------------------------
(* The slots.                                                              *)

Holding(p) == {l \in Lenses : p.slot[l]}
Sharing(p, g) == {l \in Holding(p) : Group(l) = g}

\* The books of a pool are right: its counters count those who hold a slot, within
\* the limits, and each reviewer that waits waits once and holds none.
Booked(p) ==
  /\ IsFiniteSet(Holding(p))
  /\ p.active = Cardinality(Holding(p)) /\ p.active <= MaxConcurrency
  /\ \A g \in Groups : /\ p.groups[g] = Cardinality(Sharing(p, g))
                       /\ p.groups[g] <= ProviderLimit[g]
  /\ \A i, j \in DOMAIN p.waiting : i # j => p.waiting[i] # p.waiting[j]
  /\ \A l \in ToSet(p.waiting) : ~p.slot[l] /\ at[l] \in Members(l)
  /\ \A l \in Holding(p) : at[l] \in Members(l)

\* Who waits, and who holds a slot.
PoolSound ==
  /\ Booked(Pool)
  /\ ToSet(waiting) = {l \in Lenses : pc[l] = "queued" /\ ~Cut(l)}
  /\ \A l \in ToSet(waiting) : ~Free(Pool, l)
  /\ \A l \in Holders : pc[l] \in {"granted", "reviewing", "settling", "cleaning", "unwinding"}

-----------------------------------------------------------------------------
(* The chains.                                                             *)

\* Where a chain stands: before its position every reviewer has ended and has been
\* recorded once, behind it nobody has begun.
Walked(l) ==
  /\ pc[l] # "idle" => Started(l)
  /\ pc[l] = "done" => at[l] = End(l)
  /\ pc[l] \notin {"idle", "done"} => at[l] \in Members(l)
  /\ \A i \in Members(l) :
       /\ i < at[l] => status[l][i] \in Ended /\ terminals[l][i] = 1
       /\ i = at[l] =>
            /\ pc[l] \in {"idle", "queued", "granted"} => status[l][i] = "queued"
            /\ pc[l] \in {"reviewing", "settling"} => status[l][i] = "running"
            /\ pc[l] = "cleaning" => status[l][i] \in Ended /\ terminals[l][i] = 1
            /\ pc[l] \notin {"cleaning", "unwinding", "thrown"} =>
                 terminals[l][i] = 0 /\ finding[l][i] = "none"
       /\ i > at[l] =>
            status[l][i] = "queued" /\ terminals[l][i] = 0 /\ finding[l][i] = "none"

\* A session is open until it has ended, and an execution begins with a signal of
\* its own.
SessionSound(l) ==
  /\ pc[l] \in {"idle", "queued", "granted", "reviewing"} => session[l] = "open"
  /\ pc[l] = "idle" => ~cut[l]

\* What a completed reviewer has returned, at any time a review, and behind the
\* position of the finding to adjudicate an adjudication.
ResultsSound(l) ==
  /\ source[l] # 0 => /\ Adjudicated[l] /\ source[l] < at[l]
                      /\ status[l][source[l]] = "completed" /\ result[l][source[l]] = "fail4"
  /\ \A i \in Completed(l) :
       /\ result[l][i] # "none"
       /\ result[l][i] \in {"pass2", "fail2"} => source[l] # 0 /\ source[l] < i
       /\ result[l][i] \in {"pass4", "fail4"} => source[l] = 0 \/ i <= source[l]

\* The completed passes the chain has passed.
Passed(l) == {i \in Completed(l) : i < at[l] /\ result[l][i] = "pass4"}

\* Why a lens has passed or has findings.
Reason(l) ==
  \/ Satisfied(l, Passed(l))
  \/ \E i \in Completed(l) : result[l][i] = "fail4" /\ ~Adjudicated[l]
  \/ \E i, j \in Completed(l) :
       i < j /\ result[l][i] = "fail4" /\ result[l][j] \in {"pass2", "fail2"}

VerdictSound(l) ==
  /\ passes[l] = Passed(l)
  /\ lensState[l] \in {"passed", "findings"} => Reason(l)
  /\ strict /\ pc[l] = "done" /\ lensState[l] \in {"passed", "findings"} =>
       Completed(l) = Members(l)

ChainSound(l) == Walked(l) /\ SessionSound(l) /\ ResultsSound(l) /\ VerdictSound(l)

\* The run ends as its chains have.
EndSound ==
  /\ main = "starting" => \A l \in Lenses : ~Started(l)
  /\ outcome # "open" => main = "finished"
  /\ main = "finished" => \A l \in Lenses : pc[l] = "done"
  /\ outcome \in {"clear", "gate_findings"} =>
       \A l \in Lenses : lensState[l] \notin {"incomplete", "not_evaluated"}
  /\ outcome = "clear" => ~Gating

NInv ==
  /\ TypeOK /\ Shapes /\ PoolSound
  /\ \A l \in Lenses : ChainSound(l)
  /\ EndSound

-----------------------------------------------------------------------------
(* Numbers, queues and functions defined by recursion.                     *)

\* A set of natural numbers has a least element.
LEMMA Least ==
  ASSUME NEW S \in SUBSET Nat, S # {}
  PROVE  \E n \in S : \A m \in S : n <= m
<1>1. PICK R : R = OpToRel(<, Nat)
  OBVIOUS
<1>2. IsWellFoundedOn(R, Nat)
  BY <1>1, NatLessThanWellFounded
<1>3. R = {ss \in Nat \X Nat : ss[1] < ss[2]}
  BY <1>1 DEF OpToRel
<1>4. PICK n \in S : \A m \in S : <<m, n>> \notin R
  BY <1>2, WFMin
<1>5. ASSUME NEW m \in S PROVE n <= m
  <2>1. <<m, n>> \in Nat \X Nat /\ <<m, n>>[1] = m /\ <<m, n>>[2] = n
    OBVIOUS
  <2>2. ~(m < n)
    BY <1>3, <1>4, <2>1
  <2>3. QED
    BY <2>2
<1>6. QED
  BY <1>5

\* Induction over the natural numbers, for a set of them.
LEMMA ByInduction ==
  ASSUME NEW S \in SUBSET Nat, 0 \in S, \A n \in S : n + 1 \in S
  PROVE  S = Nat
<1> SUFFICES ASSUME Nat \ S # {}
             PROVE  FALSE
  OBVIOUS
<1>1. PICK n \in Nat \ S : \A m \in Nat \ S : n <= m
  BY Least
<1>2. n # 0 /\ n - 1 \in Nat
  BY <1>1
<1>3. n - 1 \in S
  BY <1>1, <1>2
<1>4. (n - 1) + 1 \in S
  BY <1>3
<1>5. QED
  BY <1>1, <1>2, <1>4

LEMMA MembersAre ==
  ASSUME NEW l \in Lenses
  PROVE  /\ Count[l] \in Nat \ {0} /\ Members(l) = 1..Count[l] /\ End(l) = Count[l] + 1
         /\ \A i \in Members(l) : i \in Nat /\ i # 0 /\ i < End(l)
         /\ End(l) \notin Members(l)
BY NativeCountAssumption DEF Members, End

OnceEach(q) == \A i, j \in DOMAIN q : i # j => q[i] # q[j]

\* The others keep their places in a queue somebody leaves.
LEMMA LeaveIs ==
  ASSUME NEW q \in Seq(Lenses), OnceEach(q), NEW l
  PROVE  Leave(q, l) \in Seq(Lenses) /\ OnceEach(Leave(q, l)) /\ ToSet(Leave(q, l)) = ToSet(q) \ {l}
<1>1. CASE l \notin ToSet(q)
  BY <1>1 DEF Leave
<1>2. CASE l \in ToSet(q)
  <2>1. PICK k : k = CHOOSE i \in DOMAIN q : q[i] = l
    OBVIOUS
  <2>2. \E i \in DOMAIN q : q[i] = l
    BY <1>2 DEF ToSet
  <2>3. k \in 1..Len(q) /\ q[k] = l /\ Len(q) \in Nat /\ DOMAIN q = 1..Len(q)
    BY <2>1, <2>2
  <2>4. PICK r : r = RemoveAt(q, k)
    OBVIOUS
  <2>5. Leave(q, l) = r
    BY <1>2, <2>1, <2>4 DEF Leave
  <2>6. PICK a, b : a = SubSeq(q, 1, k - 1) /\ b = SubSeq(q, k + 1, Len(q))
    OBVIOUS
  <2>7. a \in Seq(Lenses) /\ Len(a) = k - 1 /\ \A i \in 1..(k - 1) : a[i] = q[i]
    BY <2>3, <2>6
  <2>8. b \in Seq(Lenses) /\ Len(b) = Len(q) - k /\ \A i \in 1..(Len(q) - k) : b[i] = q[k + i]
    <3>1. b \in Seq(Lenses) /\ Len(b) = Len(q) - k
      <4>1. PICK m, n : m = k + 1 /\ n = Len(q)
        OBVIOUS
      <4>2. m \in Int /\ n \in Int /\ (\A i \in m..n : q[i] \in Lenses)
            /\ (IF m <= n THEN n - m + 1 ELSE 0) = Len(q) - k
        <5>1. k \in Int /\ n \in Nat /\ 1 <= k /\ k <= n
          BY <2>3, <4>1
        <5>2. \A i \in m..n : i \in 1..Len(q)
          BY <4>1, <5>1
        <5>3. \A i \in 1..Len(q) : q[i] \in Lenses
          OBVIOUS
        <5>4. (IF m <= n THEN n - m + 1 ELSE 0) = n - k
          BY <4>1, <5>1
        <5>5. QED
          BY <4>1, <5>1, <5>2, <5>3, <5>4
      <4>3. SubSeq(q, m, n) \in Seq(Lenses)
            /\ Len(SubSeq(q, m, n)) = IF m <= n THEN n - m + 1 ELSE 0
        BY <4>2, SubSeqProperties
      <4>4. QED
        BY <2>6, <4>1, <4>2, <4>3
    <3>2. \A i \in 1..(Len(q) - k) : b[i] = q[k + i]
      BY <2>3, <2>6
    <3>3. QED
      BY <3>1, <3>2
  <2>9. r = a \o b
    BY <2>4, <2>6 DEF RemoveAt
  <2>10. r \in Seq(Lenses) /\ Len(r) = Len(q) - 1
    <3>1. r \in Seq(Lenses)
      BY <2>7, <2>8, <2>9
    <3>2. Len(r) = Len(a) + Len(b)
      BY <2>7, <2>8, <2>9, ConcatProperties
    <3>3. QED
      BY <2>3, <2>7, <2>8, <3>1, <3>2
  <2>11. ASSUME NEW i \in 1..(Len(q) - 1)
         PROVE  r[i] = IF i < k THEN q[i] ELSE q[i + 1]
    <3>1. CASE i < k
      BY <2>3, <2>7, <2>8, <2>9, <3>1
    <3>2. CASE ~(i < k)
      <4>1. i - (k - 1) \in 1..(Len(q) - k) /\ k + (i - (k - 1)) = i + 1
        BY <2>3, <3>2
      <4>2. r[i] = b[i - (k - 1)]
        BY <2>3, <2>7, <2>8, <2>9, <3>2, <4>1
      <4>3. b[i - (k - 1)] = q[k + (i - (k - 1))]
        BY <2>8, <4>1
      <4>4. QED
        BY <3>2, <4>1, <4>2, <4>3
    <3>3. QED
      BY <3>1, <3>2
  <2>12. DOMAIN r = 1..(Len(q) - 1)
    BY <2>10
  <2>13. OnceEach(r)
    <3>1. ASSUME NEW i \in DOMAIN r, NEW j \in DOMAIN r, i # j PROVE r[i] # r[j]
      <4>1. PICK m, n : m = (IF i < k THEN i ELSE i + 1) /\ n = (IF j < k THEN j ELSE j + 1)
        OBVIOUS
      <4>2. m \in DOMAIN q /\ n \in DOMAIN q /\ m # n
        BY <2>3, <2>12, <3>1, <4>1
      <4>3. r[i] = q[m] /\ r[j] = q[n]
        BY <2>11, <2>12, <4>1
      <4>4. QED
        BY <4>2, <4>3 DEF OnceEach
    <3>2. QED
      BY <3>1 DEF OnceEach
  <2>14. ToSet(r) = ToSet(q) \ {l}
    <3>1. ASSUME NEW i \in DOMAIN r PROVE r[i] \in ToSet(q) \ {l}
      <4>1. PICK m : m = (IF i < k THEN i ELSE i + 1)
        OBVIOUS
      <4>2. m \in DOMAIN q /\ m # k
        BY <2>3, <2>12, <4>1
      <4>3. r[i] = q[m]
        BY <2>11, <2>12, <4>1
      <4>4. QED
        BY <2>3, <4>2, <4>3 DEF OnceEach, ToSet
    <3>2. ASSUME NEW m \in DOMAIN q, q[m] # l PROVE q[m] \in ToSet(r)
      <4>1. PICK i : i = (IF m < k THEN m ELSE m - 1)
        OBVIOUS
      <4>2. m # k
        BY <2>3, <3>2
      <4>3. i \in DOMAIN r /\ m = (IF i < k THEN i ELSE i + 1)
        BY <2>3, <2>12, <4>1, <4>2
      <4>4. r[i] = q[m]
        BY <2>11, <2>12, <4>3
      <4>5. QED
        BY <4>3, <4>4 DEF ToSet
    <3>3. QED
      BY <3>1, <3>2 DEF ToSet
  <2>15. QED
    BY <2>5, <2>10, <2>13, <2>14
<1>3. QED
  BY <1>1, <1>2

\* The function a wake computes, which exists by induction over the length of the
\* queue.
IsChecked(f, p, w, N) ==
  f = [n \in 0..N |-> IF n = 0 THEN p ELSE Check(f[n - 1], w[n])]

LEMMA CheckedExists ==
  ASSUME NEW p, NEW w, NEW N \in Nat
  PROVE  \E f : IsChecked(f, p, w, N)
<1> DEFINE Good(N0) == \E f : f = [n \in 0..N0 |-> IF n = 0 THEN p ELSE Check(f[n - 1], w[n])]
<1>1. Good(0)
  <2>1. PICK f : f = [n \in 0..0 |-> p]
    OBVIOUS
  <2>2. f = [n \in 0..0 |-> IF n = 0 THEN p ELSE Check(f[n - 1], w[n])]
    BY <2>1
  <2>3. QED
    BY <2>2
<1>2. ASSUME NEW k \in Nat, Good(k) PROVE Good(k + 1)
  <2>1. PICK f : f = [n \in 0..k |-> IF n = 0 THEN p ELSE Check(f[n - 1], w[n])]
    BY <1>2
  <2>2. PICK g : g = [n \in 0..(k + 1) |-> IF n \in 0..k THEN f[n] ELSE Check(f[k], w[k + 1])]
    OBVIOUS
  <2>3. ASSUME NEW n \in 0..(k + 1)
        PROVE  g[n] = IF n = 0 THEN p ELSE Check(g[n - 1], w[n])
    <3>1. CASE n = k + 1
      <4>1. g[n] = Check(f[k], w[k + 1]) /\ g[k] = f[k] /\ n - 1 = k /\ n # 0
        BY <2>2, <3>1
      <4>2. QED
        BY <3>1, <4>1
    <3>2. CASE n \in 0..k /\ n # 0
      <4>1. g[n] = f[n] /\ n - 1 \in 0..k /\ g[n - 1] = f[n - 1]
        BY <2>2, <3>2
      <4>2. f[n] = Check(f[n - 1], w[n])
        BY <2>1, <3>2
      <4>3. QED
        BY <3>2, <4>1, <4>2
    <3>3. CASE n = 0
      <4>1. n \in 0..k /\ g[n] = f[n] /\ f[n] = p
        BY <2>1, <2>2, <3>3
      <4>2. QED
        BY <3>3, <4>1
    <3>4. QED
      BY <3>1, <3>2, <3>3
  <2>4. g = [n \in 0..(k + 1) |-> IF n = 0 THEN p ELSE Check(g[n - 1], w[n])]
    BY <2>2, <2>3
  <2>5. QED
    BY <2>4
<1>3. PICK S : S = {n \in Nat : Good(n)}
  OBVIOUS
<1> HIDE DEF Good
<1>4. S = Nat
  <2>1. S \in SUBSET Nat /\ 0 \in S /\ \A n \in S : n + 1 \in S
    BY <1>1, <1>2, <1>3
  <2>2. QED
    BY <2>1, ByInduction
<1>5. Good(N)
  BY <1>3, <1>4
<1>6. QED
  BY <1>5 DEF Good, IsChecked

LEMMA WakeIs ==
  ASSUME NEW p, p.waiting \in Seq(Lenses)
  PROVE  \E f : IsChecked(f, p, p.waiting, Len(p.waiting)) /\ Wake(p) = f[Len(p.waiting)]
<1>1. PICK N, w : N = Len(p.waiting) /\ w = p.waiting
  OBVIOUS
<1>2. N \in Nat
  BY <1>1
<1>3. \E f : IsChecked(f, p, w, N)
  BY <1>2, CheckedExists
<1>4. PICK f : f = CHOOSE g : IsChecked(g, p, w, N)
  OBVIOUS
<1>5. IsChecked(f, p, w, N)
  BY <1>3, <1>4
<1>6. Wake(p) = f[N]
  BY <1>1, <1>4 DEF Wake, IsChecked
<1>7. QED
  BY <1>1, <1>5, <1>6

-----------------------------------------------------------------------------
(* What check() and wake() do to a pool whose books are right.             *)

TypedPool(p) ==
  p \in [waiting : Seq(Lenses), active : Nat, groups : [Groups -> Nat],
         slot : [Lenses -> BOOLEAN]]

LEMMA GroupIs ==
  ASSUME NEW l \in Lenses, at[l] \in Members(l)
  PROVE  /\ Group(l) \in Groups
         /\ ProviderLimit[Group(l)] \in Nat
BY NativeGroupsAssumption DEF Group, Groups, Range

\* A check of somebody who waits: one slot is given, or nothing changes; who could
\* not have one still cannot.
CheckEffect(p, l, q) ==
  /\ TypedPool(q) /\ Booked(q)
  /\ ToSet(q.waiting) = {m \in ToSet(p.waiting) : ~q.slot[m]}
  /\ \A m \in Lenses : q.slot[m] <=> p.slot[m] \/ (m = l /\ Free(p, l))
  /\ l \in ToSet(q.waiting) => ~Free(q, l)
  /\ \A m \in ToSet(p.waiting) : ~Free(p, m) => ~Free(q, m)

LEMMA CheckIs ==
  ASSUME NEW p, TypedPool(p), Booked(p), NEW l \in ToSet(p.waiting)
  PROVE  CheckEffect(p, l, Check(p, l))
<1>1. /\ p.waiting \in Seq(Lenses) /\ p.active \in Nat /\ p.groups \in [Groups -> Nat]
      /\ p.slot \in [Lenses -> BOOLEAN] /\ MaxConcurrency \in Nat
  BY NativeLimitAssumption DEF TypedPool
<1>2. /\ IsFiniteSet(Holding(p))
      /\ p.active = Cardinality(Holding(p)) /\ p.active <= MaxConcurrency
      /\ \A g \in Groups : /\ p.groups[g] = Cardinality(Sharing(p, g))
                           /\ p.groups[g] <= ProviderLimit[g]
      /\ OnceEach(p.waiting)
      /\ \A m \in ToSet(p.waiting) : ~p.slot[m] /\ at[m] \in Members(m)
      /\ \A m \in Holding(p) : at[m] \in Members(m)
  BY DEF Booked, OnceEach
<1>3. ToSet(p.waiting) \subseteq Lenses
  BY <1>1 DEF ToSet
<1>4. PICK q, g : q = Check(p, l) /\ g = Group(l)
  OBVIOUS
<1>5. CASE ~Free(p, l)
  <2>1. q = p
    BY <1>4, <1>5 DEF Check
  <2>2. QED
    BY <1>2, <1>4, <1>5, <2>1 DEF CheckEffect
<1>6. CASE Free(p, l)
  <2>1. /\ q.waiting = Leave(p.waiting, l) /\ q.active = p.active + 1
        /\ q.groups = [p.groups EXCEPT ![g] = @ + 1] /\ q.slot = [p.slot EXCEPT ![l] = TRUE]
        /\ q = [waiting |-> q.waiting, active |-> q.active, groups |-> q.groups,
                slot |-> q.slot]
    BY <1>4, <1>6 DEF Check
  <2>2. l \in Lenses /\ g \in Groups /\ ProviderLimit[g] \in Nat
    BY <1>2, <1>3, <1>4, GroupIs
  <2>3. p.active < MaxConcurrency /\ p.groups[g] < ProviderLimit[g]
    BY <1>4, <1>6 DEF Free
  <2>4. /\ q.waiting \in Seq(Lenses) /\ OnceEach(q.waiting)
        /\ ToSet(q.waiting) = ToSet(p.waiting) \ {l}
    BY <1>1, <1>2, <2>1, LeaveIs
  <2>5. /\ q.slot \in [Lenses -> BOOLEAN]
        /\ \A m \in Lenses : q.slot[m] <=> p.slot[m] \/ m = l
    BY <1>1, <2>1, <2>2
  <2>6. /\ q.groups \in [Groups -> Nat] /\ q.groups[g] = p.groups[g] + 1
        /\ \A h \in Groups \ {g} : q.groups[h] = p.groups[h]
    BY <1>1, <2>1, <2>2
  <2>7. TypedPool(q)
    <3>1. PICK queue, n, groups, slots :
            queue = q.waiting /\ n = q.active /\ groups = q.groups /\ slots = q.slot
      OBVIOUS
    <3>2. q = [waiting |-> queue, active |-> n, groups |-> groups, slot |-> slots]
      BY <2>1, <3>1
    <3>3. queue \in Seq(Lenses) /\ n \in Nat /\ groups \in [Groups -> Nat]
          /\ slots \in [Lenses -> BOOLEAN]
      BY <1>1, <2>1, <2>4, <2>5, <2>6, <3>1
    <3>4. QED
      BY <3>2, <3>3 DEF TypedPool
  <2>8. Holding(q) = Holding(p) \cup {l} /\ l \notin Holding(p)
    BY <1>2, <2>2, <2>5 DEF Holding
  <2>9. /\ IsFiniteSet(Holding(q)) /\ Cardinality(Holding(q)) = Cardinality(Holding(p)) + 1
    BY <1>2, <2>8, FS_AddElement
  <2>10. q.active = Cardinality(Holding(q)) /\ q.active <= MaxConcurrency
    BY <1>1, <1>2, <2>1, <2>3, <2>9
  <2>11. ASSUME NEW h \in Groups
         PROVE  q.groups[h] = Cardinality(Sharing(q, h)) /\ q.groups[h] <= ProviderLimit[h]
    <3>1. IsFiniteSet(Sharing(p, h))
      BY <1>2, FS_Subset DEF Sharing
    <3>2. CASE h = g
      <4>1. Sharing(q, h) = Sharing(p, h) \cup {l} /\ l \notin Sharing(p, h)
        BY <1>4, <2>8, <3>2 DEF Sharing
      <4>2. Cardinality(Sharing(q, h)) = Cardinality(Sharing(p, h)) + 1
        BY <3>1, <4>1, FS_AddElement
      <4>3. QED
        BY <1>1, <1>2, <2>2, <2>3, <2>6, <3>2, <4>2
    <3>3. CASE h # g
      <4>1. Sharing(q, h) = Sharing(p, h)
        BY <1>4, <2>8, <3>3 DEF Sharing
      <4>2. QED
        BY <1>2, <2>6, <3>3, <4>1
    <3>4. QED
      BY <3>2, <3>3
  <2>12. /\ \A m \in ToSet(q.waiting) : ~q.slot[m] /\ at[m] \in Members(m)
         /\ \A m \in Holding(q) : at[m] \in Members(m)
    BY <1>2, <1>3, <2>4, <2>5, <2>8
  <2>13. Booked(q)
    BY <2>4, <2>9, <2>10, <2>11, <2>12 DEF Booked, OnceEach
  <2>14. ASSUME NEW m \in ToSet(p.waiting), ~Free(p, m) PROVE ~Free(q, m)
    <3>1. PICK h : h = Group(m)
      OBVIOUS
    <3>2. h \in Groups /\ ProviderLimit[h] \in Nat
      BY <1>2, <1>3, <3>1, GroupIs
    <3>3. ~(p.active < MaxConcurrency) \/ ~(p.groups[h] < ProviderLimit[h])
      BY <2>14, <3>1 DEF Free
    <3>4. p.groups[h] \in Nat /\ (q.groups[h] = p.groups[h] \/ q.groups[h] = p.groups[h] + 1)
      BY <1>1, <2>6, <3>2
    <3>5. ~(q.active < MaxConcurrency) \/ ~(q.groups[h] < ProviderLimit[h])
      BY <1>1, <2>1, <3>2, <3>3, <3>4
    <3>6. QED
      BY <3>1, <3>5 DEF Free
  <2>15. ToSet(q.waiting) = {m \in ToSet(p.waiting) : ~q.slot[m]}
    BY <1>2, <1>3, <2>4, <2>5
  <2>16. QED
    BY <1>4, <1>6, <2>4, <2>5, <2>7, <2>13, <2>14, <2>15 DEF CheckEffect
<1>7. QED
  BY <1>5, <1>6

\* Behind a wake nobody waits beside a slot he could have.
WakeEffect(p, q) ==
  /\ TypedPool(q) /\ Booked(q)
  /\ ToSet(q.waiting) = {m \in ToSet(p.waiting) : ~q.slot[m]}
  /\ \A m \in Lenses : /\ p.slot[m] => q.slot[m]
                       /\ q.slot[m] => p.slot[m] \/ m \in ToSet(p.waiting)
  /\ \A m \in ToSet(q.waiting) : ~Free(q, m)

\* A wake after its first n checks.
WokenUpTo(p, q, n) ==
  /\ TypedPool(q) /\ Booked(q)
  /\ ToSet(q.waiting) = {m \in ToSet(p.waiting) : ~q.slot[m]}
  /\ \A m \in Lenses : /\ p.slot[m] => q.slot[m]
                       /\ q.slot[m] => p.slot[m] \/ \E k \in 1..n : m = p.waiting[k]
  /\ \A k \in 1..n : p.waiting[k] \in ToSet(q.waiting) => ~Free(q, p.waiting[k])

LEMMA WakeSound ==
  ASSUME NEW p, TypedPool(p), Booked(p)
  PROVE  WakeEffect(p, Wake(p))
<1>1. PICK N, w : N = Len(p.waiting) /\ w = p.waiting
  OBVIOUS
<1>2. /\ w \in Seq(Lenses) /\ N \in Nat /\ DOMAIN w = 1..N
      /\ \A i, j \in 1..N : i # j => w[i] # w[j]
      /\ \A m \in ToSet(w) : ~p.slot[m]
      /\ ToSet(w) = {w[k] : k \in 1..N}
  BY <1>1 DEF TypedPool, Booked, ToSet
<1>3. PICK f : IsChecked(f, p, w, N) /\ Wake(p) = f[N]
  BY <1>1, <1>2, WakeIs
<1>4. f[0] = p /\ \A n \in 0..N : n # 0 => f[n] = Check(f[n - 1], w[n])
  BY <1>2, <1>3 DEF IsChecked
<1>5. WokenUpTo(p, p, 0)
  BY <1>1, <1>2 DEF WokenUpTo
<1>6. ASSUME NEW n \in Nat, n + 1 <= N, WokenUpTo(p, f[n], n)
      PROVE  WokenUpTo(p, f[n + 1], n + 1)
  <2>1. PICK a, b, l : a = f[n] /\ b = f[n + 1] /\ l = w[n + 1]
    OBVIOUS
  <2>2. n + 1 \in 1..N /\ n + 1 \in 0..N /\ n + 1 # 0 /\ (n + 1) - 1 = n
    BY <1>2, <1>6
  <2>3. b = Check(a, l)
    BY <1>4, <2>1, <2>2
  <2>4. /\ TypedPool(a) /\ Booked(a)
        /\ ToSet(a.waiting) = {m \in ToSet(w) : ~a.slot[m]}
        /\ \A m \in Lenses : /\ p.slot[m] => a.slot[m]
                             /\ a.slot[m] => p.slot[m] \/ \E k \in 1..n : m = w[k]
        /\ \A k \in 1..n : w[k] \in ToSet(a.waiting) => ~Free(a, w[k])
    BY <1>1, <1>6, <2>1 DEF WokenUpTo
  <2>5. l \in ToSet(a.waiting)
    <3>1. l \in ToSet(w) /\ l \in Lenses
      BY <1>2, <2>1, <2>2
    <3>2. \A k \in 1..n : l # w[k]
      BY <1>2, <2>1, <2>2
    <3>3. ~a.slot[l]
      BY <1>2, <2>4, <3>1, <3>2
    <3>4. QED
      BY <2>4, <3>1, <3>3
  <2>6. /\ TypedPool(b) /\ Booked(b)
        /\ ToSet(b.waiting) = {m \in ToSet(a.waiting) : ~b.slot[m]}
        /\ \A m \in Lenses : b.slot[m] <=> a.slot[m] \/ (m = l /\ Free(a, l))
        /\ l \in ToSet(b.waiting) => ~Free(b, l)
        /\ \A m \in ToSet(a.waiting) : ~Free(a, m) => ~Free(b, m)
    BY <2>3, <2>4, <2>5, CheckIs DEF CheckEffect
  <2>7. \A m \in ToSet(w) : m \in Lenses
    BY <1>2 DEF ToSet
  <2>8. ToSet(b.waiting) = {m \in ToSet(w) : ~b.slot[m]}
    BY <2>4, <2>6, <2>7
  <2>9. ASSUME NEW m \in Lenses
        PROVE  /\ p.slot[m] => b.slot[m]
               /\ b.slot[m] => p.slot[m] \/ \E k \in 1..(n + 1) : m = w[k]
    <3>1. \A k \in 1..n : k \in 1..(n + 1)
      OBVIOUS
    <3>2. n + 1 \in 1..(n + 1)
      OBVIOUS
    <3>3. QED
      BY <2>1, <2>4, <2>6, <3>1, <3>2
  <2>10. ASSUME NEW k \in 1..(n + 1), w[k] \in ToSet(b.waiting)
         PROVE  ~Free(b, w[k])
    <3>1. k = n + 1 \/ k \in 1..n
      OBVIOUS
    <3>2. CASE k = n + 1
      BY <2>1, <2>6, <2>10, <3>2
    <3>3. CASE k \in 1..n
      BY <2>4, <2>6, <2>10, <3>3
    <3>4. QED
      BY <3>1, <3>2, <3>3
  <2>11. QED
    BY <1>1, <2>1, <2>6, <2>8, <2>9, <2>10 DEF WokenUpTo
<1>7. PICK S : S = {n \in Nat : n <= N => WokenUpTo(p, f[n], n)}
  OBVIOUS
<1>8. S = Nat
  <2>1. S \in SUBSET Nat /\ 0 \in S
    BY <1>4, <1>5, <1>7
  <2>2. ASSUME NEW n \in S PROVE n + 1 \in S
    BY <1>2, <1>6, <1>7
  <2>3. QED
    BY <2>1, <2>2, ByInduction
<1>9. WokenUpTo(p, f[N], N)
  BY <1>2, <1>7, <1>8
<1>10. PICK q : q = f[N]
  OBVIOUS
<1>11. \A m \in ToSet(q.waiting) : m \in ToSet(w) /\ \E k \in 1..N : m = w[k]
  BY <1>1, <1>2, <1>9, <1>10 DEF WokenUpTo
<1>12. \A k \in 1..N : w[k] \in ToSet(w)
  BY <1>2
<1>13. WakeEffect(p, q)
  BY <1>1, <1>9, <1>10, <1>11, <1>12 DEF WokenUpTo, WakeEffect
<1>14. QED
  BY <1>3, <1>10, <1>13

-----------------------------------------------------------------------------
(* What a step may do to a lens.                                           *)

States == {"none", "incomplete", "not_evaluated", "not_applicable", "passed", "findings"}

TypedLens(l) ==
  /\ pc[l] \in Phases /\ lensState[l] \in States
  /\ cut[l] \in BOOLEAN /\ quiet[l] \in BOOLEAN /\ answered[l] \in BOOLEAN
  /\ session[l] \in {"open", "clean", "broken"}
  /\ at[l] \in 1..End(l) /\ source[l] \in 0..Count[l] /\ passes[l] \subseteq Members(l)
  /\ terminals[l] \in [Members(l) -> Nat]
  /\ status[l] \in [Members(l) -> Marks]
  /\ result[l] \in [Members(l) -> Results]
  /\ finding[l] \in [Members(l) -> Weights]

\* The variables with a value for each lens are functions on the lenses.
Domains ==
  /\ DOMAIN pc = Lenses /\ DOMAIN lensState = Lenses /\ DOMAIN cut = Lenses
  /\ DOMAIN quiet = Lenses /\ DOMAIN answered = Lenses /\ DOMAIN session = Lenses
  /\ DOMAIN at = Lenses /\ DOMAIN source = Lenses /\ DOMAIN passes = Lenses
  /\ DOMAIN terminals = Lenses /\ DOMAIN status = Lenses
  /\ DOMAIN result = Lenses /\ DOMAIN finding = Lenses

\* Those of them that are functions by their own definition in the code's steps.
Functional ==
  /\ pc = [m \in Lenses |-> pc[m]] /\ lensState = [m \in Lenses |-> lensState[m]]
  /\ cut = [m \in Lenses |-> cut[m]] /\ quiet = [m \in Lenses |-> quiet[m]]
  /\ answered = [m \in Lenses |-> answered[m]] /\ session = [m \in Lenses |-> session[m]]

LEMMA TypesOfLens ==
  ASSUME TypeOK, Shapes
  PROVE  Domains /\ Functional /\ \A l \in Lenses : TypedLens(l)
BY DEF TypeOK, Shapes, Domains, Functional, TypedLens, States

\* Putting a value at one place of one lens.
Put(f, g, l, i, v) ==
  /\ DOMAIN g = Lenses /\ g[l][i] = v
  /\ \A j \in Members(l) \ {i} : g[l][j] = f[l][j]
  /\ \A m \in Lenses \ {l} : g[m] = f[m]

LEMMA PutIs ==
  ASSUME NEW f, DOMAIN f = Lenses, NEW l \in Lenses, NEW S, f[l] \in [Members(l) -> S],
         NEW i \in Members(l), NEW v \in S, NEW g, g = [f EXCEPT ![l][i] = v]
  PROVE  Put(f, g, l, i, v) /\ g[l] \in [Members(l) -> S]
<1>1. PICK h : h = [f[l] EXCEPT ![i] = v]
  OBVIOUS
<1>2. h \in [Members(l) -> S] /\ h[i] = v /\ \A j \in Members(l) \ {i} : h[j] = f[l][j]
  BY <1>1
<1>3. g = [f EXCEPT ![l] = h]
  BY <1>1
<1>4. DOMAIN g = Lenses /\ g[l] = h /\ \A m \in Lenses \ {l} : g[m] = f[m]
  BY <1>3
<1>5. QED
  BY <1>2, <1>4 DEF Put

\* A chain is left as it is, but that its reviewer may be granted a slot.
Resting(m) ==
  /\ at'[m] = at[m] /\ source'[m] = source[m] /\ passes'[m] = passes[m]
  /\ lensState'[m] = lensState[m] /\ session'[m] = session[m]
  /\ status'[m] = status[m] /\ result'[m] = result[m] /\ finding'[m] = finding[m]
  /\ terminals'[m] = terminals[m] /\ (pc[m] = "idle" => cut'[m] = cut[m])
  /\ pc'[m] = pc[m] \/ (pc[m] = "queued" /\ pc'[m] = "granted")

LEMMA RestingKeeps ==
  ASSUME NEW m \in Lenses, Resting(m), strict' = strict, ChainSound(m)
  PROVE  ChainSound(m)'
<1>1. Walked(m)'
  BY DEF Resting, ChainSound, Walked, Started, Members, End
<1>2. Completed(m)' = Completed(m)
  BY DEF Resting, Completed, Members
<1>3. SessionSound(m)' /\ ResultsSound(m)'
  BY <1>2 DEF Resting, ChainSound, SessionSound, ResultsSound
<1>4. Passed(m)' = Passed(m)
  BY <1>2 DEF Resting, Passed
<1>5. Reason(m)' = Reason(m)
  BY <1>2, <1>4 DEF Resting, Reason, Satisfied
<1>6. VerdictSound(m)'
  BY <1>2, <1>4, <1>5 DEF Resting, ChainSound, VerdictSound, Members
<1>7. QED
  BY <1>1, <1>3, <1>6 DEF ChainSound

\* A lens is left as it is.
Same(m) ==
  Resting(m) /\ cut'[m] = cut[m] /\ quiet'[m] = quiet[m] /\ answered'[m] = answered[m]

LEMMA SameKeeps ==
  ASSUME NEW m \in Lenses, Same(m), strict' = strict, TypedLens(m), ChainSound(m)
  PROVE  TypedLens(m)' /\ ChainSound(m)'
<1>1. TypedLens(m)'
  BY DEF Same, Resting, TypedLens, Members, End, Phases
<1>2. QED
  BY <1>1, RestingKeeps DEF Same

\* A step of the lens l alone.
Moved(l) ==
  /\ UNCHANGED <<strict, main, cancelled, halted, outcome>> /\ poisoned' \in BOOLEAN
  /\ pc[l] # "done" /\ Started(l) /\ Started(l)'
  /\ Domains' /\ Functional' /\ TypedLens(l)'
  /\ \A m \in Lenses \ {l} : Same(m)

\* The pool after a step, when its books are right and it agrees with the chains.
PoolIs(p) ==
  /\ TypedPool(p) /\ Booked(p) /\ \A m \in ToSet(p.waiting) : ~Free(p, m)
  /\ waiting' = p.waiting /\ active' = p.active /\ activeGroups' = p.groups /\ slot' = p.slot
  /\ \A m \in Lenses : p.slot[m] \/ m \in ToSet(p.waiting) => at'[m] = at[m]
  /\ ToSet(p.waiting) = {m \in Lenses : pc'[m] = "queued" /\ ~Cut(m)'}
  /\ \A m \in Lenses : p.slot[m] =>
       pc'[m] \in {"granted", "reviewing", "settling", "cleaning", "unwinding"}

TypedSlots ==
  /\ waiting \in Seq(Lenses) /\ active \in Nat /\ activeGroups \in [Groups -> Nat]
  /\ slot \in [Lenses -> BOOLEAN]

LEMMA PoolMoves ==
  ASSUME NEW p, PoolIs(p)
  PROVE  TypedSlots' /\ PoolSound'
<1>1. /\ waiting' = p.waiting /\ active' = p.active /\ activeGroups' = p.groups
      /\ slot' = p.slot /\ TypedPool(p) /\ Booked(p)
      /\ \A m \in Lenses : p.slot[m] \/ m \in ToSet(p.waiting) => at'[m] = at[m]
  BY DEF PoolIs
<1>2. TypedSlots'
  BY <1>1 DEF TypedSlots, TypedPool
<1>3. ToSet(p.waiting) \subseteq Lenses
  BY <1>1 DEF TypedPool, ToSet
<1>4. PICK q : q = Pool'
  OBVIOUS
<1>5. /\ q.waiting = p.waiting /\ q.active = p.active /\ q.groups = p.groups
      /\ q.slot = p.slot
  BY <1>1, <1>4 DEF Pool
<1>6. Holders' = Holding(p)
  BY <1>1 DEF Holders, Holding
<1>7. \A m \in Lenses : p.slot[m] \/ m \in ToSet(p.waiting) => Group(m)' = Group(m)
  BY <1>1 DEF Group
<1>8. ASSUME NEW g
      PROVE  {m \in Holding(p) : Group(m)' = g} = Sharing(p, g)
  BY <1>7 DEF Sharing, Holding
<1>9. Booked(Pool)'
  <2>1. Holding(Pool)' = Holding(p)
    BY <1>4, <1>5 DEF Holding
  <2>2. \A g \in Groups : Sharing(Pool, g)' = Sharing(p, g)
    BY <1>8, <2>1 DEF Sharing
  <2>3. \A m \in ToSet(p.waiting) \cup Holding(p) : at'[m] = at[m]
    BY <1>1, <1>3 DEF Holding
  <2>4. QED
    BY <1>1, <1>4, <1>5, <2>1, <2>2, <2>3 DEF Booked, Members, Groups
<1>10. \A m \in ToSet(p.waiting) : ~Free(Pool, m)'
  BY <1>3, <1>4, <1>5, <1>7 DEF PoolIs, Free
<1>11. ToSet(waiting)' = {m \in Lenses : pc'[m] = "queued" /\ ~Cut(m)'}
  BY <1>1 DEF PoolIs
<1>12. QED
  BY <1>1, <1>2, <1>6, <1>9, <1>10, <1>11 DEF PoolSound, PoolIs, Holding

\* The invariant behind a step of one lens.
LEMMA MovedKeeps ==
  ASSUME NInv, NEW l \in Lenses, Moved(l), ChainSound(l)', NEW p, PoolIs(p)
  PROVE  NInv'
<1>1. /\ TypeOK /\ Shapes /\ PoolSound /\ EndSound
      /\ \A m \in Lenses : ChainSound(m) /\ TypedLens(m)
  BY TypesOfLens DEF NInv
<1>2. TypedSlots' /\ PoolSound'
  BY PoolMoves
<1>3. \A m \in Lenses : TypedLens(m)' /\ ChainSound(m)'
  BY <1>1, SameKeeps DEF Moved
<1>4. TypeOK'
  BY <1>1, <1>2, <1>3 DEF TypeOK, TypedSlots, TypedLens, Moved, Functional, States
<1>5. Shapes'
  BY <1>3 DEF Shapes, TypedLens, Moved, Domains, Members
<1>6. EndSound'
  <2>1. outcome' = "open" /\ main' # "finished" /\ main' # "starting" /\ outcome' = outcome
    BY <1>1 DEF EndSound, Moved, TypeOK
  <2>2. QED
    BY <2>1 DEF EndSound
<1>7. QED
  BY <1>2, <1>3, <1>4, <1>5, <1>6 DEF NInv

\* More passes satisfy what fewer do.
LEMMA SatisfiedGrows ==
  ASSUME NEW l \in Lenses, NEW S \in SUBSET Members(l), NEW T \in SUBSET S, Satisfied(l, T)
  PROVE  Satisfied(l, S)
<1>1. IsFiniteSet(S) /\ IsFiniteSet(T)
  <2>1. PICK n : n \in Int /\ 1 \in Int /\ Members(l) = 1..n
    BY MembersAre
  <2>2. IsFiniteSet(Members(l))
    BY <2>1, FS_Interval
  <2>3. IsFiniteSet(S)
    BY <2>2, FS_Subset
  <2>4. QED
    BY <2>3, FS_Subset
<1>2. PICK G, H : G = {GroupOf[l][i] : i \in S} /\ H = {GroupOf[l][i] : i \in T}
  OBVIOUS
<1>3. IsFiniteSet(G)
  <2>1. PICK F : F = [i \in S |-> GroupOf[l][i]]
    OBVIOUS
  <2>2. F \in Surjection(S, G)
    BY <1>2, <2>1 DEF Surjection
  <2>3. QED
    BY <1>1, <2>2, FS_Surjection
<1>4. H \in SUBSET G
  BY <1>2
<1>5. /\ Cardinality(T) <= Cardinality(S) /\ Cardinality(T) \in Nat /\ Cardinality(S) \in Nat
      /\ Cardinality(H) <= Cardinality(G) /\ Cardinality(H) \in Nat /\ Cardinality(G) \in Nat
  BY <1>1, <1>3, <1>4, FS_Subset, FS_CardinalityType
<1>6. /\ PassQuorum[l] \in Nat /\ MinGroups[l] \in Nat
      /\ Cardinality(T) >= PassQuorum[l] /\ Cardinality(H) >= MinGroups[l]
  BY <1>2, NativePolicyAssumption DEF Satisfied
<1>7. QED
  BY <1>2, <1>5, <1>6 DEF Satisfied


-----------------------------------------------------------------------------
(* The chain of the lens that moves.                                       *)

\* What a reviewer's end leaves of it: its status, and a record or a broken artifact.
TerminateEffect(l, how, next, thrown) ==
  /\ Put(status, status', l, at[l], how) /\ status'[l] \in [Members(l) -> Marks]
  /\ DOMAIN terminals' = Lenses /\ terminals'[l] \in [Members(l) -> Nat]
  /\ \A m \in Lenses \ {l} : terminals'[m] = terminals[m] /\ pc'[m] = pc[m]
  /\ \A i \in Members(l) : i # at[l] => terminals'[l][i] = terminals[l][i]
  /\ \/ pc'[l] = next /\ terminals'[l][at[l]] = terminals[l][at[l]] + 1 /\ ~poisoned'
     \/ pc'[l] = thrown /\ poisoned'
  /\ poisoned' \in BOOLEAN /\ pc'[l] \in {next, thrown}
  /\ pc' = [m \in Lenses |-> pc'[m]]

LEMMA TerminateIs ==
  ASSUME TypeOK, Domains, Functional, NEW l \in Lenses, TypedLens(l), at[l] \in Members(l),
         NEW how \in Marks, NEW next \in Phases, NEW thrown \in Phases,
         Terminate(l, how, next, thrown)
  PROVE  TerminateEffect(l, how, next, thrown)
<1>1. PICK i : i = at[l]
  OBVIOUS
<1>2. /\ DOMAIN status = Lenses /\ status[l] \in [Members(l) -> Marks]
      /\ DOMAIN terminals = Lenses /\ terminals[l] \in [Members(l) -> Nat]
      /\ DOMAIN pc = Lenses /\ pc = [m \in Lenses |-> pc[m]] /\ i \in Members(l)
      /\ poisoned \in BOOLEAN
  BY <1>1 DEF TypeOK, Domains, Functional, TypedLens
<1>3. Put(status, status', l, i, how) /\ status'[l] \in [Members(l) -> Marks]
  <2>1. status' = [status EXCEPT ![l][i] = how]
    BY <1>1 DEF Terminate
  <2>2. QED
    BY <1>2, <2>1, PutIs
<1>4. CASE /\ ~poisoned /\ UNCHANGED poisoned
           /\ terminals' = [terminals EXCEPT ![l][at[l]] = @ + 1]
           /\ pc' = [pc EXCEPT ![l] = next]
  <2>1. PICK n : n = terminals[l][i] + 1
    OBVIOUS
  <2>2. n \in Nat /\ terminals' = [terminals EXCEPT ![l][i] = n]
    BY <1>1, <1>2, <1>4, <2>1
  <2>3. Put(terminals, terminals', l, i, n) /\ terminals'[l] \in [Members(l) -> Nat]
    BY <1>2, <2>2, PutIs
  <2>4. /\ pc'[l] = next /\ \A m \in Lenses \ {l} : pc'[m] = pc[m]
        /\ pc' = [m \in Lenses |-> pc'[m]]
    BY <1>2, <1>4
  <2>5. QED
    <3>1. /\ DOMAIN terminals' = Lenses /\ \A m \in Lenses \ {l} : terminals'[m] = terminals[m]
          /\ \A j \in Members(l) : j # at[l] => terminals'[l][j] = terminals[l][j]
          /\ terminals'[l][at[l]] = terminals[l][at[l]] + 1
      BY <1>1, <2>1, <2>3 DEF Put
    <3>2. ~poisoned' /\ poisoned' \in BOOLEAN
      BY <1>2, <1>4
    <3>3. QED
      BY <1>1, <1>3, <2>3, <2>4, <3>1, <3>2 DEF TerminateEffect
<1>5. CASE poisoned' = TRUE /\ pc' = [pc EXCEPT ![l] = thrown] /\ UNCHANGED terminals
  <2>1. /\ pc'[l] = thrown /\ \A m \in Lenses \ {l} : pc'[m] = pc[m]
        /\ pc' = [m \in Lenses |-> pc'[m]]
    BY <1>2, <1>5
  <2>2. QED
    BY <1>1, <1>2, <1>3, <1>5, <2>1 DEF TerminateEffect
<1>6. QED
  BY <1>4, <1>5 DEF Terminate

\* The reason of a verdict stays one while its lens goes on.
LEMMA ReasonStays ==
  ASSUME NEW l \in Lenses, Reason(l), Passed(l)' \subseteq Members(l),
         \A i \in Completed(l) : i \in Completed(l)' /\ result'[l][i] = result[l][i],
         Passed(l) \subseteq Passed(l)'
  PROVE  Reason(l)'
<1>1. CASE Satisfied(l, Passed(l))
  <2>1. PICK S, T : S = Passed(l)' /\ T = Passed(l)
    OBVIOUS
  <2>2. Satisfied(l, S)
    BY <1>1, <2>1, SatisfiedGrows
  <2>3. QED
    BY <2>1, <2>2 DEF Reason, Satisfied
<1>2. CASE \E i \in Completed(l) : result[l][i] = "fail4" /\ ~Adjudicated[l]
  BY <1>2 DEF Reason
<1>3. CASE \E i, j \in Completed(l) :
             i < j /\ result[l][i] = "fail4" /\ result[l][j] \in {"pass2", "fail2"}
  BY <1>3 DEF Reason
<1>4. QED
  BY <1>1, <1>2, <1>3 DEF Reason

\* A reviewer that ends without completing: its chain has not earned anything by it.
EndsWithout(l, how) ==
  /\ how \in {"incomplete", "skipped"}
  /\ source'[l] = source[l] /\ passes'[l] = passes[l] /\ lensState'[l] = lensState[l]
  /\ result'[l] = result[l] /\ \A i \in Members(l) : i > at[l] => finding'[l][i] = finding[l][i]
  /\ \/ /\ pc[l] = "idle" /\ at'[l] = at[l] + 1
        /\ session'[l] = session[l] /\ cut'[l] = cut[l]
        /\ TerminateEffect(l, how, "idle", "thrown") /\ ~poisoned'
     \/ /\ pc[l] = "idle" /\ at'[l] = at[l]
        /\ TerminateEffect(l, how, "idle", "thrown") /\ poisoned'
     \/ /\ pc[l] \in {"queued", "granted", "reviewing", "settling"} /\ at'[l] = at[l]
        /\ TerminateEffect(l, how, "cleaning", "unwinding")

LEMMA EndsWithoutKeeps ==
  ASSUME NEW l \in Lenses, TypedLens(l), ChainSound(l), strict' = strict, Started(l),
         at[l] \in Members(l), NEW how, EndsWithout(l, how)
  PROVE  ChainSound(l)'
<1>1. PICK i : i = at[l]
  OBVIOUS
<1>2. i \in Members(l) /\ i \in Nat /\ \A j \in Members(l) : j \in Nat
  BY <1>1, MembersAre
<1>3. /\ Put(status, status', l, i, how) /\ how \in {"incomplete", "skipped"}
      /\ status[l][i] \in {"queued", "running"}
      /\ \A j \in Members(l) \ {i} : terminals'[l][j] = terminals[l][j]
      /\ terminals[l][i] = 0
  BY <1>1, <1>2 DEF EndsWithout, TerminateEffect, ChainSound, Walked
<1>4. Completed(l)' = Completed(l) /\ i \notin Completed(l)
  BY <1>2, <1>3 DEF Put, Completed, Members
<1>5. ResultsSound(l)'
  <2>1. source'[l] = source[l] /\ result'[l] = result[l] /\ at'[l] \in {i, i + 1}
    BY <1>1 DEF EndsWithout
  <2>2. source[l] # 0 => /\ Adjudicated[l] /\ source[l] < i /\ source[l] \in Nat
                         /\ source[l] \in Completed(l) /\ result[l][source[l]] = "fail4"
    BY <1>1, MembersAre DEF ChainSound, ResultsSound, TypedLens, Completed
  <2>3. source[l] # 0 => source[l] < at'[l] /\ status'[l][source[l]] = "completed"
    BY <1>2, <1>4, <2>1, <2>2 DEF Completed
  <2>4. QED
    BY <1>4, <2>1, <2>2, <2>3 DEF ChainSound, ResultsSound
<1>6. Passed(l)' = Passed(l)
  <2>1. result'[l] = result[l] /\ at'[l] \in {i, i + 1} /\ at[l] = i
    BY <1>1 DEF EndsWithout
  <2>2. \A j \in Completed(l) : j \in Nat /\ j # i
    BY <1>2, <1>4 DEF Completed
  <2>3. \A j \in Completed(l) : j < at'[l] <=> j < at[l]
    <3>1. \A j \in Nat : j # i => (j < i + 1 <=> j < i)
      BY <1>2
    <3>2. QED
      BY <2>1, <2>2, <3>1
  <2>4. QED
    BY <1>4, <2>1, <2>3 DEF Passed
<1>7. Reason(l)' = Reason(l)
  BY <1>4, <1>6 DEF EndsWithout, Reason, Satisfied
<1>8. VerdictSound(l)'
  BY <1>4, <1>6, <1>7 DEF EndsWithout, ChainSound, VerdictSound, TerminateEffect
<1>9. SessionSound(l)'
  <2>1. pc'[l] = "idle" => session'[l] = session[l] /\ cut'[l] = cut[l] /\ pc[l] = "idle"
    <3>1. CASE pc[l] = "idle" /\ session'[l] = session[l] /\ cut'[l] = cut[l]
      BY <3>1
    <3>2. CASE TerminateEffect(l, how, "idle", "thrown") /\ poisoned'
      BY <3>2 DEF TerminateEffect
    <3>3. CASE TerminateEffect(l, how, "cleaning", "unwinding")
      BY <3>3 DEF TerminateEffect
    <3>4. QED
      BY <3>1, <3>2, <3>3 DEF EndsWithout
  <2>2. pc'[l] \in {"idle", "thrown", "cleaning", "unwinding"}
    BY DEF EndsWithout, TerminateEffect
  <2>3. QED
    BY <2>1, <2>2 DEF ChainSound, SessionSound
<1>10. Walked(l)'
  <2>1. Started(l)' /\ pc'[l] # "done" /\ at'[l] \in 1..End(l)
    BY <1>1, <1>2, MembersAre DEF EndsWithout, TerminateEffect, Started
  <2>2. pc'[l] # "idle" => at'[l] \in Members(l)
    BY <1>1, <1>2 DEF EndsWithout, TerminateEffect
  <2>3. ASSUME NEW j \in Members(l), j < i
        PROVE  status'[l][j] \in Ended /\ terminals'[l][j] = 1
    BY <1>1, <1>2, <1>3, <2>3 DEF ChainSound, Walked, Put
  <2>4. ASSUME NEW j \in Members(l), j > i
        PROVE  status'[l][j] = "queued" /\ terminals'[l][j] = 0 /\ finding'[l][j] = "none"
    BY <1>1, <1>2, <1>3, <2>4 DEF ChainSound, Walked, Put, EndsWithout
  <2>5. status'[l][i] \in Ended /\ (pc'[l] \in {"idle", "cleaning"} => terminals'[l][i] = 1)
    BY <1>1, <1>3 DEF EndsWithout, TerminateEffect, Put, Ended
  <2>6. /\ at'[l] = i \/ (at'[l] = i + 1 /\ pc'[l] = "idle")
        /\ at'[l] = i => pc'[l] \in {"thrown", "cleaning", "unwinding"}
    BY <1>1, <1>2 DEF EndsWithout, TerminateEffect
  <2>7. ASSUME NEW j \in Members(l), j < at'[l]
        PROVE  status'[l][j] \in Ended /\ terminals'[l][j] = 1
    <3>1. CASE at'[l] = i
      BY <2>3, <2>7, <3>1
    <3>2. CASE at'[l] = i + 1 /\ pc'[l] = "idle"
      <4>1. j \in Nat /\ j < i + 1
        BY <1>2, <2>7, <3>2
      <4>2. j < i \/ j = i
        BY <1>2, <4>1
      <4>3. QED
        BY <2>3, <2>5, <3>2, <4>2
    <3>3. QED
      BY <2>6, <3>1, <3>2
  <2>8. ASSUME NEW j \in Members(l), j > at'[l]
        PROVE  status'[l][j] = "queued" /\ terminals'[l][j] = 0 /\ finding'[l][j] = "none"
    <3>1. j > i
      BY <1>2, <2>6, <2>8
    <3>2. QED
      BY <2>4, <3>1
  <2>9. ASSUME NEW j \in Members(l), j = at'[l]
        PROVE  \/ /\ pc'[l] = "idle"
                  /\ status'[l][j] = "queued" /\ terminals'[l][j] = 0 /\ finding'[l][j] = "none"
               \/ /\ pc'[l] \in {"thrown", "cleaning", "unwinding"}
                  /\ pc'[l] = "cleaning" => status'[l][j] \in Ended /\ terminals'[l][j] = 1
    <3>1. CASE at'[l] = i
      BY <2>5, <2>6, <2>9, <3>1
    <3>2. CASE at'[l] = i + 1 /\ pc'[l] = "idle"
      BY <1>2, <2>4, <2>9, <3>2
    <3>3. QED
      BY <2>6, <3>1, <3>2
  <2>10. Members(l)' = Members(l) /\ End(l)' = End(l)
    BY DEF Members, End
  <2>11. QED
    BY <2>1, <2>2, <2>7, <2>8, <2>9, <2>10 DEF Walked
<1>11. QED
  BY <1>5, <1>8, <1>9, <1>10 DEF ChainSound

\* The pool behind a step that does not touch it.
PoolStays(l) ==
  /\ UNCHANGED <<waiting, active, activeGroups, slot, main, cancelled, halted>>
  /\ \A m \in Lenses \ {l} : at'[m] = at[m] /\ pc'[m] = pc[m] /\ cut'[m] = cut[m]
  /\ pc[l] = "idle" => pc'[l] \in {"idle", "thrown", "done"}
  /\ pc[l] = "queued" => Cut(l)
  /\ pc[l] # "idle" => /\ at'[l] = at[l]
                       /\ pc'[l] \in {"reviewing", "settling", "cleaning", "unwinding"}

LEMMA PoolStaysSound ==
  ASSUME TypeOK, PoolSound, NEW l \in Lenses, PoolStays(l)
  PROVE  PoolIs(Pool)
<1>1. PICK p : p = Pool
  OBVIOUS
<1>2. p.waiting = waiting /\ p.active = active /\ p.groups = activeGroups /\ p.slot = slot
  BY <1>1 DEF Pool
<1>3. TypedPool(p)
  BY <1>1 DEF TypedPool, TypeOK, Pool
<1>4. /\ Booked(p) /\ ToSet(waiting) = {m \in Lenses : pc[m] = "queued" /\ ~Cut(m)}
      /\ \A m \in ToSet(waiting) : ~Free(p, m)
      /\ \A m \in Lenses : slot[m] =>
           pc[m] \in {"granted", "reviewing", "settling", "cleaning", "unwinding"}
  BY <1>1 DEF PoolSound, Holders
<1>5. \A m \in Lenses \ {l} : Cut(m)' = Cut(m)
  BY DEF PoolStays, Cut, Aborted
<1>6. ToSet(waiting) = {m \in Lenses : pc'[m] = "queued" /\ ~Cut(m)'}
  <2>1. pc'[l] # "queued" /\ ~(pc[l] = "queued" /\ ~Cut(l))
    BY DEF PoolStays
  <2>2. \A m \in Lenses \ {l} : pc'[m] = pc[m]
    BY DEF PoolStays
  <2>3. QED
    BY <1>4, <1>5, <2>1, <2>2
<1>7. \A m \in Lenses : slot[m] => 
        /\ at'[m] = at[m]
        /\ pc'[m] \in {"granted", "reviewing", "settling", "cleaning", "unwinding"}
  BY <1>4 DEF PoolStays
<1>8. \A m \in ToSet(waiting) : at'[m] = at[m]
  <2>1. \A m \in ToSet(waiting) : m \in Lenses \ {l}
    BY <1>4 DEF PoolStays
  <2>2. QED
    BY <2>1 DEF PoolStays
<1>9. QED
  BY <1>1, <1>2, <1>3, <1>4, <1>6, <1>7, <1>8 DEF PoolIs, PoolStays

-----------------------------------------------------------------------------
(* Every step of a chain.                                                  *)

LEMMA LensFacts ==
  ASSUME NInv, NEW l \in Lenses
  PROVE  /\ TypeOK /\ Domains /\ Functional /\ TypedLens(l) /\ ChainSound(l) /\ PoolSound
         /\ EndSound /\ (pc[l] # "idle" => Started(l)) /\ (pc[l] = "done" => at[l] = End(l))
         /\ pc[l] \notin {"idle", "done"} => at[l] \in Members(l)
BY TypesOfLens DEF NInv, ChainSound, Walked

\* The findings of a step that concerns one lens, and nothing behind its position.
FindingIs(l) ==
  /\ DOMAIN finding' = Lenses /\ finding'[l] \in [Members(l) -> Weights]
  /\ \A m \in Lenses \ {l} : finding'[m] = finding[m]
  /\ \A i \in Members(l) : i > at[l] => finding'[l][i] = finding[l][i]

\* A reviewer that ends incomplete.
LEMMA IncompleteKeeps ==
  ASSUME NInv, NEW l \in Lenses, Incomplete(l),
         pc[l] \in {"queued", "granted", "reviewing", "settling"}, pc[l] = "queued" => Cut(l),
         UNCHANGED <<strict, main, aborts, pool, exec, chain, result, outcome>>, FindingIs(l)
  PROVE  NInv'
<1>1. /\ TypeOK /\ Domains /\ Functional /\ TypedLens(l) /\ ChainSound(l) /\ PoolSound
      /\ Started(l) /\ at[l] \in Members(l)
  BY LensFacts
<1>2. TerminateEffect(l, "incomplete", "cleaning", "unwinding")
  <2>1. "incomplete" \in Marks /\ "cleaning" \in Phases /\ "unwinding" \in Phases
    BY DEF Marks, Phases
  <2>2. Terminate(l, "incomplete", "cleaning", "unwinding")
    BY DEF Incomplete
  <2>3. QED
    BY <1>1, <2>1, <2>2, TerminateIs
<1>3. EndsWithout(l, "incomplete")
  BY <1>2 DEF EndsWithout, chain, FindingIs
<1>4. ChainSound(l)'
  BY <1>1, <1>3, EndsWithoutKeeps
<1>5. PoolStays(l)
  BY <1>2 DEF PoolStays, pool, aborts, chain, exec, TerminateEffect
<1>6. PoolIs(Pool)
  BY <1>1, <1>5, PoolStaysSound
<1>7. Moved(l)
  <2>1. /\ UNCHANGED <<strict, main, cancelled, halted, outcome>> /\ poisoned' \in BOOLEAN
        /\ pc[l] # "done" /\ Started(l) /\ Started(l)'
    BY <1>1, <1>2 DEF aborts, chain, Started, TerminateEffect
  <2>2. Domains' /\ Functional'
    BY <1>1, <1>2 DEF Domains, Functional, TerminateEffect, Put, FindingIs, chain, exec
  <2>3. TypedLens(l)'
    BY <1>1, <1>2 DEF TypedLens, TerminateEffect, FindingIs, chain, exec, Members, End, Phases
  <2>4. ASSUME NEW m \in Lenses \ {l} PROVE Same(m)
    BY <1>2 DEF Same, Resting, TerminateEffect, Put, FindingIs, chain, exec
  <2>5. QED
    BY <2>1, <2>2, <2>3, <2>4 DEF Moved
<1>8. QED
  BY <1>4, <1>6, <1>7, MovedKeeps

\* A reviewer that is skipped.
LEMMA SkipKeeps ==
  ASSUME NInv, NEW l \in Lenses, Skip(l)
  PROVE  NInv'
<1>1. /\ TypeOK /\ Domains /\ Functional /\ TypedLens(l) /\ ChainSound(l) /\ PoolSound
      /\ Started(l) /\ at[l] \in Members(l) /\ pc[l] = "idle"
  BY LensFacts DEF Skip
<1>2. TerminateEffect(l, "skipped", "idle", "thrown")
  <2>1. "skipped" \in Marks /\ "idle" \in Phases /\ "thrown" \in Phases
    BY DEF Marks, Phases
  <2>2. Terminate(l, "skipped", "idle", "thrown")
    BY DEF Skip
  <2>3. QED
    BY <1>1, <2>1, <2>2, TerminateIs
<1>3. /\ DOMAIN at' = Lenses /\ \A m \in Lenses \ {l} : at'[m] = at[m]
      /\ at'[l] = IF poisoned' THEN at[l] ELSE at[l] + 1
  BY <1>1 DEF Skip, Domains
<1>4. EndsWithout(l, "skipped")
  BY <1>1, <1>2, <1>3 DEF EndsWithout, Skip, exec
<1>5. ChainSound(l)'
  BY <1>1, <1>4, EndsWithoutKeeps DEF Skip
<1>6. PoolStays(l)
  BY <1>1, <1>2, <1>3 DEF PoolStays, Skip, pool, aborts, exec, TerminateEffect
<1>7. PoolIs(Pool)
  BY <1>1, <1>6, PoolStaysSound
<1>8. Moved(l)
  <2>1. /\ UNCHANGED <<strict, main, cancelled, halted, outcome>> /\ poisoned' \in BOOLEAN
        /\ pc[l] # "done" /\ Started(l) /\ Started(l)'
    BY <1>1, <1>2 DEF aborts, Skip, Started, TerminateEffect
  <2>2. Domains' /\ Functional'
    BY <1>1, <1>2, <1>3 DEF Domains, Functional, TerminateEffect, Put, Skip, exec
  <2>3. at'[l] \in 1..End(l)
    BY <1>1, <1>3, MembersAre
  <2>4. TypedLens(l)'
    BY <1>1, <1>2, <2>3 DEF TypedLens, TerminateEffect, Skip, exec, Members, End, Phases
  <2>5. ASSUME NEW m \in Lenses \ {l} PROVE Same(m)
    BY <1>2, <1>3 DEF Same, Resting, TerminateEffect, Put, Skip, exec
  <2>6. QED
    BY <2>1, <2>2, <2>4, <2>5 DEF Moved
<1>9. QED
  BY <1>5, <1>7, <1>8, MovedKeeps

\* A step of the session or of its timers before it ends.
LEMMA StirKeeps ==
  ASSUME NInv, NEW l \in Lenses, pc[l] = "reviewing", Domains', Functional',
         UNCHANGED <<strict, main, aborts, poisoned, pool, session, jobs, chain, pc, outcome>>,
         cut'[l] \in BOOLEAN, quiet'[l] \in BOOLEAN, answered'[l] \in BOOLEAN,
         \A m \in Lenses \ {l} :
           cut'[m] = cut[m] /\ quiet'[m] = quiet[m] /\ answered'[m] = answered[m]
  PROVE  NInv'
<1>1. /\ TypeOK /\ TypedLens(l) /\ ChainSound(l) /\ PoolSound /\ Started(l)
  BY LensFacts
<1>2. ASSUME NEW m \in Lenses PROVE Resting(m)
  BY DEF Resting, jobs, chain
<1>3. ChainSound(l)'
  BY <1>1, <1>2, RestingKeeps
<1>4. PoolStays(l)
  BY DEF PoolStays, pool, aborts, chain
<1>5. PoolIs(Pool)
  BY <1>1, <1>4, PoolStaysSound
<1>6. TypedLens(l)'
  BY <1>1 DEF TypedLens, jobs, chain, Members, End
<1>7. Moved(l)
  BY <1>1, <1>2, <1>6 DEF Moved, Same, aborts, chain, Started, TypeOK
<1>8. QED
  BY <1>3, <1>5, <1>7, MovedKeeps

LEMMA SessionStirsKeeps ==
  ASSUME NInv, NEW l \in Lenses, Silence(l) \/ Activity(l) \/ Answer(l)
  PROVE  NInv'
<1>1. /\ Domains /\ Functional /\ TypedLens(l)
  BY LensFacts
<1>2. CASE Silence(l)
  <2>1. quiet' = [quiet EXCEPT ![l] = TRUE] /\ UNCHANGED <<cut, answered>>
    BY <1>2 DEF Silence
  <2>2. Domains' /\ Functional' /\ cut'[l] \in BOOLEAN /\ quiet'[l] \in BOOLEAN
        /\ answered'[l] \in BOOLEAN
        /\ \A m \in Lenses \ {l} :
             cut'[m] = cut[m] /\ quiet'[m] = quiet[m] /\ answered'[m] = answered[m]
    BY <1>1, <1>2, <2>1 DEF Silence, Domains, Functional, TypedLens, jobs, chain
  <2>3. QED
    BY <1>2, <2>2, StirKeeps DEF Silence
<1>3. CASE Activity(l)
  <2>1. cut' = [cut EXCEPT ![l] = TRUE] /\ quiet' = [quiet EXCEPT ![l] = FALSE]
        /\ UNCHANGED answered
    BY <1>3 DEF Activity
  <2>2. Domains' /\ Functional' /\ cut'[l] \in BOOLEAN /\ quiet'[l] \in BOOLEAN
        /\ answered'[l] \in BOOLEAN
        /\ \A m \in Lenses \ {l} :
             cut'[m] = cut[m] /\ quiet'[m] = quiet[m] /\ answered'[m] = answered[m]
    BY <1>1, <1>3, <2>1 DEF Activity, Domains, Functional, TypedLens, jobs, chain
  <2>3. QED
    BY <1>3, <2>2, StirKeeps DEF Activity
<1>4. CASE Answer(l)
  <2>1. answered' = [answered EXCEPT ![l] = TRUE] /\ quiet' = [quiet EXCEPT ![l] = FALSE]
        /\ UNCHANGED cut
    BY <1>4 DEF Answer
  <2>2. Domains' /\ Functional' /\ cut'[l] \in BOOLEAN /\ quiet'[l] \in BOOLEAN
        /\ answered'[l] \in BOOLEAN
        /\ \A m \in Lenses \ {l} :
             cut'[m] = cut[m] /\ quiet'[m] = quiet[m] /\ answered'[m] = answered[m]
    BY <1>1, <1>4, <2>1 DEF Answer, Domains, Functional, TypedLens, jobs, chain
  <2>3. QED
    BY <1>4, <2>2, StirKeeps DEF Answer
<1>5. QED
  BY <1>2, <1>3, <1>4


LEMMA AbandonKeeps ==
  ASSUME NInv, NEW l \in Lenses, Abandon(l)
  PROVE  NInv'
<1>1. /\ Domains /\ TypedLens(l) /\ FindingIs(l)
  BY LensFacts DEF Abandon, FindingIs, Domains, TypedLens
<1>2. pc[l] \in {"queued", "granted", "reviewing", "settling"} /\ (pc[l] = "queued" => Cut(l))
  BY DEF Abandon
<1>3. QED
  BY <1>1, <1>2, IncompleteKeeps DEF Abandon

\* The reviewer goes on from one phase of its execution to the next.
Advances(l, next) ==
  /\ UNCHANGED <<strict, main, aborts, poisoned, pool, cut, quiet, answered, outcome>>
  /\ UNCHANGED <<result, terminals, finding, chain>>
  /\ pc' = [pc EXCEPT ![l] = next]
  /\ DOMAIN session' = Lenses /\ session' = [m \in Lenses |-> session'[m]]
  /\ session'[l] \in {"open", "clean", "broken"}
  /\ \A m \in Lenses \ {l} : session'[m] = session[m]
  /\ status'[l] \in [Members(l) -> Marks] /\ DOMAIN status' = Lenses
  /\ \A m \in Lenses \ {l} : status'[m] = status[m]
  /\ \A i \in Members(l) : i # at[l] => status'[l][i] = status[l][i]
  /\ status'[l][at[l]] = "running"
  /\ \/ pc[l] = "granted" /\ next = "reviewing" /\ session'[l] = "open"
     \/ pc[l] = "reviewing" /\ next = "settling"

LEMMA AdvanceKeeps ==
  ASSUME NInv, NEW l \in Lenses, NEW next, Advances(l, next)
  PROVE  NInv'
<1>1. /\ TypeOK /\ Domains /\ Functional /\ TypedLens(l) /\ ChainSound(l) /\ PoolSound
      /\ Started(l) /\ at[l] \in Members(l)
  BY LensFacts DEF Advances
<1>2. PICK i : i = at[l]
  OBVIOUS
<1>3. /\ i \in Members(l) /\ i \in Nat /\ \A j \in Members(l) : j \in Nat
      /\ status[l][i] \in {"queued", "running"} /\ terminals[l][i] = 0 /\ finding[l][i] = "none"
  BY <1>1, <1>2, MembersAre DEF ChainSound, Walked, Advances
<1>4. /\ pc'[l] = next /\ next \in Phases /\ next \in {"reviewing", "settling"}
      /\ \A m \in Lenses \ {l} : pc'[m] = pc[m]
      /\ pc' = [m \in Lenses |-> pc'[m]] /\ DOMAIN pc' = Lenses
  BY <1>1 DEF Advances, Domains, Functional, Phases
<1>5. Completed(l)' = Completed(l)
  BY <1>2, <1>3 DEF Advances, Completed, Members
<1>6. ResultsSound(l)'
  <2>1. source[l] # 0 => source[l] \in Completed(l)
    BY <1>1, MembersAre DEF ChainSound, ResultsSound, TypedLens, Completed
  <2>2. source[l] # 0 => status'[l][source[l]] = "completed"
    BY <1>5, <2>1 DEF Completed
  <2>3. QED
    BY <1>1, <1>5, <2>2 DEF Advances, chain, ChainSound, ResultsSound
<1>7. Passed(l)' = Passed(l)
  BY <1>5 DEF Advances, Passed, chain
<1>8. Reason(l)' = Reason(l)
  BY <1>5, <1>7 DEF Advances, Reason, Satisfied
<1>9. VerdictSound(l)'
  BY <1>1, <1>4, <1>7, <1>8 DEF Advances, chain, ChainSound, VerdictSound
<1>10. SessionSound(l)'
  BY <1>4 DEF Advances, SessionSound
<1>11. Walked(l)'
  <2>1. Started(l)' /\ at'[l] = i
    BY <1>1, <1>2 DEF Advances, chain, Started
  <2>2. ASSUME NEW j \in Members(l), j < i
        PROVE  status'[l][j] \in Ended /\ terminals'[l][j] = 1
    BY <1>1, <1>2, <1>3, <2>2 DEF ChainSound, Walked, Advances
  <2>3. ASSUME NEW j \in Members(l), j > i
        PROVE  status'[l][j] = "queued" /\ terminals'[l][j] = 0 /\ finding'[l][j] = "none"
    BY <1>1, <1>2, <1>3, <2>3 DEF ChainSound, Walked, Advances
  <2>4. status'[l][i] = "running" /\ terminals'[l][i] = 0 /\ finding'[l][i] = "none"
    BY <1>2, <1>3 DEF Advances
  <2>5. Members(l)' = Members(l)
    BY DEF Members
  <2>6. QED
    BY <1>3, <1>4, <2>1, <2>2, <2>3, <2>4, <2>5 DEF Walked
<1>12. ChainSound(l)'
  BY <1>6, <1>9, <1>10, <1>11 DEF ChainSound
<1>13. PoolStays(l)
  BY <1>4 DEF PoolStays, Advances, pool, aborts, chain
<1>14. PoolIs(Pool)
  BY <1>1, <1>13, PoolStaysSound
<1>15. Moved(l)
  <2>1. /\ UNCHANGED <<strict, main, cancelled, halted, outcome>> /\ poisoned' \in BOOLEAN
        /\ pc[l] # "done" /\ Started(l) /\ Started(l)'
    BY <1>1 DEF Advances, aborts, chain, Started, TypeOK
  <2>2. Domains' /\ Functional'
    BY <1>1, <1>4 DEF Domains, Functional, Advances, chain
  <2>3. TypedLens(l)'
    BY <1>1, <1>4 DEF TypedLens, Advances, chain, Members, End
  <2>4. ASSUME NEW m \in Lenses \ {l} PROVE Same(m)
    BY <1>4 DEF Same, Resting, Advances, chain
  <2>5. QED
    BY <2>1, <2>2, <2>3, <2>4 DEF Moved
<1>16. QED
  BY <1>12, <1>14, <1>15, MovedKeeps

LEMMA ProbeKeeps ==
  ASSUME NInv, NEW l \in Lenses, NEW available \in BOOLEAN, Probe(l, available)
  PROVE  NInv'
<1>1. /\ Domains /\ Functional /\ TypedLens(l) /\ ChainSound(l) /\ at[l] \in Members(l)
      /\ pc[l] = "granted"
  BY LensFacts DEF Probe
<1>2. CASE available /\ ~poisoned
  <2>1. /\ pc' = [pc EXCEPT ![l] = "reviewing"] /\ UNCHANGED <<terminals, poisoned>>
        /\ status' = [status EXCEPT ![l][at[l]] = "running"]
        /\ UNCHANGED <<strict, main, aborts, pool, exec, result, finding, chain, outcome>>
    BY <1>2 DEF Probe
  <2>2. Put(status, status', l, at[l], "running") /\ status'[l] \in [Members(l) -> Marks]
    <3>1. "running" \in Marks /\ DOMAIN status = Lenses /\ status[l] \in [Members(l) -> Marks]
      BY <1>1 DEF Marks, Domains, TypedLens
    <3>2. QED
      BY <1>1, <2>1, <3>1, PutIs
  <2>3. session'[l] = "open" /\ UNCHANGED session
    BY <1>1, <2>1 DEF exec, ChainSound, SessionSound
  <2>4. Advances(l, "reviewing")
    BY <1>1, <2>1, <2>2, <2>3 DEF Advances, Put, Domains, Functional, exec
  <2>5. QED
    BY <2>4, AdvanceKeeps
<1>3. CASE ~(available /\ ~poisoned)
  <2>1. /\ Incomplete(l)
        /\ UNCHANGED <<strict, main, aborts, pool, exec, result, finding, chain, outcome>>
    BY <1>3 DEF Probe
  <2>2. FindingIs(l)
    BY <1>1, <2>1 DEF FindingIs, Domains, TypedLens
  <2>3. QED
    BY <1>1, <2>1, <2>2, IncompleteKeeps
<1>4. QED
  BY <1>2, <1>3

LEMMA SessionEndsKeeps ==
  ASSUME NInv, NEW l \in Lenses, NEW how \in {"clean", "broken"}, SessionEnds(l, how)
  PROVE  NInv'
<1>1. /\ Domains /\ Functional /\ TypedLens(l) /\ ChainSound(l) /\ at[l] \in Members(l)
      /\ pc[l] = "reviewing"
  BY LensFacts DEF SessionEnds
<1>2. CASE ~answered[l]
  <2>1. /\ Incomplete(l)
        /\ UNCHANGED <<strict, main, aborts, pool, exec, result, finding, chain, outcome>>
    BY <1>2 DEF SessionEnds, exec
  <2>2. FindingIs(l)
    BY <1>1, <2>1 DEF FindingIs, Domains, TypedLens
  <2>3. QED
    BY <1>1, <2>1, <2>2, IncompleteKeeps
<1>3. CASE answered[l]
  <2>1. /\ session' = [session EXCEPT ![l] = how] /\ pc' = [pc EXCEPT ![l] = "settling"]
        /\ UNCHANGED <<status, terminals, poisoned>>
        /\ UNCHANGED <<strict, main, aborts, pool, cut, quiet, answered, result, finding,
                       chain, outcome>>
    BY <1>3 DEF SessionEnds
  <2>2. /\ DOMAIN session' = Lenses /\ session' = [m \in Lenses |-> session'[m]]
        /\ session'[l] \in {"open", "clean", "broken"}
        /\ \A m \in Lenses \ {l} : session'[m] = session[m]
    BY <1>1, <2>1 DEF Domains, Functional
  <2>3. status[l][at[l]] = "running" /\ status[l] \in [Members(l) -> Marks]
    BY <1>1 DEF ChainSound, Walked, TypedLens
  <2>4. Advances(l, "settling")
    BY <1>1, <2>1, <2>2, <2>3 DEF Advances, Domains
  <2>5. QED
    BY <2>4, AdvanceKeeps
<1>4. QED
  BY <1>2, <1>3


\* What a result does to the findings: those of the other lenses and of later
\* reviewers stay, and in a strict run those that gate stay what they are.
LEMMA FoundIs ==
  ASSUME NInv, NEW l \in Lenses, pc[l] = "settling", NEW verdict \in Verdicts(l),
         NEW decision \in Decisions, finding' = [finding EXCEPT ![l] = Found(l, verdict, decision)]
  PROVE  /\ FindingIs(l)
         /\ strict => \A i \in Members(l) : finding[l][i] = "strong" => finding'[l][i] = "strong"
<1>1. /\ Domains /\ TypedLens(l) /\ ChainSound(l) /\ at[l] \in Members(l)
  BY LensFacts
<1>2. PICK i, s, f : i = at[l] /\ s = source[l] /\ f = finding[l]
  OBVIOUS
<1>3. /\ i \in Members(l) /\ \A j \in Members(l) : j \in Nat
      /\ f \in [Members(l) -> Weights] /\ f[i] = "none" /\ DOMAIN finding = Lenses
  BY <1>1, <1>2, MembersAre DEF ChainSound, Walked, TypedLens, Domains
<1>4. s # 0 => s \in Members(l) /\ s < i
  BY <1>1, <1>2, MembersAre DEF ChainSound, ResultsSound, TypedLens
<1>5. decision \in Weights /\ "unadjudicated" \in Weights
  BY DEF Weights
<1>6. PICK g : g = Found(l, verdict, decision)
  OBVIOUS
<1>7. /\ DOMAIN finding' = Lenses /\ finding'[l] = g
      /\ \A m \in Lenses \ {l} : finding'[m] = finding[m]
  BY <1>3, <1>6
<1>8. CASE verdict = "fail4"
  <2>1. g = [f EXCEPT ![i] = "unadjudicated"] \/ g = [f EXCEPT ![i] = decision]
    BY <1>2, <1>6, <1>8 DEF Found
  <2>2. g \in [Members(l) -> Weights] /\ \A j \in Members(l) : j # i => g[j] = f[j]
    BY <1>3, <1>5, <2>1
  <2>3. QED
    BY <1>2, <1>3, <1>7, <2>2 DEF FindingIs
<1>9. CASE verdict \in {"pass2", "fail2"}
  <2>1. s # 0
    BY <1>2, <1>9 DEF Verdicts
  <2>2. PICK v : v = Revised(f[s], decision)
    OBVIOUS
  <2>3. g = [f EXCEPT ![s] = v]
    BY <1>2, <1>6, <1>9, <2>2 DEF Found
  <2>4. v \in {f[s], decision} /\ (strict /\ f[s] = "strong" => v = "strong")
    BY <2>2 DEF Revised, Accepted
  <2>5. /\ g \in [Members(l) -> Weights] /\ g[s] = v
        /\ \A j \in Members(l) : j # s => g[j] = f[j]
    BY <1>3, <1>4, <1>5, <2>1, <2>3, <2>4
  <2>6. \A j \in Members(l) : j > i => j # s
    BY <1>3, <1>4, <2>1
  <2>7. QED
    BY <1>2, <1>7, <2>4, <2>5, <2>6 DEF FindingIs
<1>10. CASE verdict = "pass4"
  <2>1. g = f
    BY <1>2, <1>6, <1>10 DEF Found
  <2>2. QED
    BY <1>2, <1>3, <1>7, <2>1 DEF FindingIs
<1>11. QED
  BY <1>8, <1>9, <1>10 DEF Verdicts

\* A reviewer that completes with a verdict.
LEMMA CompletesKeeps ==
  ASSUME NInv, NEW l \in Lenses, NEW verdict \in Verdicts(l), pc[l] = "settling",
         Terminate(l, "completed", "cleaning", "unwinding"), FindingIs(l),
         result' = [result EXCEPT ![l][at[l]] = verdict],
         UNCHANGED <<strict, main, aborts, pool, exec, chain, outcome>>
  PROVE  NInv'
<1>1. /\ TypeOK /\ Domains /\ Functional /\ TypedLens(l) /\ ChainSound(l) /\ PoolSound
      /\ Started(l) /\ at[l] \in Members(l)
  BY LensFacts
<1>2. TerminateEffect(l, "completed", "cleaning", "unwinding")
  <2>1. "completed" \in Marks /\ "cleaning" \in Phases /\ "unwinding" \in Phases
    BY DEF Marks, Phases
  <2>2. QED
    BY <1>1, <2>1, TerminateIs
<1>3. PICK i, s : i = at[l] /\ s = source[l]
  OBVIOUS
<1>4. verdict \in Results /\ verdict # "none"
  BY DEF Verdicts, Results
<1>5. Put(result, result', l, i, verdict) /\ result'[l] \in [Members(l) -> Results]
  BY <1>1, <1>3, <1>4, PutIs DEF Domains, TypedLens
<1>6. /\ i \in Members(l) /\ \A j \in Members(l) : j \in Nat
      /\ status[l][i] = "running" /\ terminals[l][i] = 0
      /\ at'[l] = i /\ source'[l] = s /\ passes' = passes /\ lensState' = lensState
  BY <1>1, <1>3, MembersAre DEF ChainSound, Walked, chain
<1>7. /\ status'[l][i] = "completed" /\ \A j \in Members(l) \ {i} : status'[l][j] = status[l][j]
      /\ result'[l][i] = verdict /\ \A j \in Members(l) \ {i} : result'[l][j] = result[l][j]
  BY <1>2, <1>3, <1>5 DEF TerminateEffect, Put
<1>8. Completed(l)' = Completed(l) \cup {i} /\ i \notin Completed(l)
  BY <1>6, <1>7 DEF Completed, Members
<1>9. s # 0 => /\ s \in Members(l) /\ s < i /\ Adjudicated[l]
               /\ status[l][s] = "completed" /\ result[l][s] = "fail4"
  BY <1>1, <1>3, MembersAre DEF ChainSound, ResultsSound, TypedLens
<1>10. ResultsSound(l)'
  <2>1. s # 0 => /\ Adjudicated[l] /\ s < i
                 /\ status'[l][s] = "completed" /\ result'[l][s] = "fail4"
    BY <1>6, <1>7, <1>9
  <2>2. ASSUME NEW j \in Completed(l)
        PROVE  /\ result'[l][j] # "none"
               /\ result'[l][j] \in {"pass2", "fail2"} => s # 0 /\ s < j
               /\ result'[l][j] \in {"pass4", "fail4"} => s = 0 \/ j <= s
    <3>1. result'[l][j] = result[l][j]
      BY <1>7, <1>8 DEF Completed
    <3>2. QED
      BY <1>1, <1>3, <3>1 DEF ChainSound, ResultsSound
  <2>3. /\ verdict \in {"pass2", "fail2"} => s # 0 /\ s < i
        /\ verdict \in {"pass4", "fail4"} => s = 0
    BY <1>3, <1>9 DEF Verdicts
  <2>4. QED
    BY <1>4, <1>6, <1>7, <1>8, <2>1, <2>2, <2>3 DEF ResultsSound
<1>11. Passed(l)' = Passed(l)
  <2>1. \A j \in Completed(l) : j # i /\ result'[l][j] = result[l][j]
    BY <1>7, <1>8 DEF Completed
  <2>2. ~(i < i)
    BY <1>6
  <2>3. QED
    BY <1>3, <1>6, <1>8, <2>1, <2>2 DEF Passed
<1>12. Reason(l) => Reason(l)'
  <2>1. Passed(l)' \subseteq Members(l)
    BY <1>11 DEF Passed, Completed
  <2>2. \A j \in Completed(l) : j \in Completed(l)' /\ result'[l][j] = result[l][j]
    BY <1>7, <1>8 DEF Completed
  <2>3. QED
    BY <1>11, <2>1, <2>2, ReasonStays
<1>13. VerdictSound(l)'
  BY <1>1, <1>2, <1>6, <1>11, <1>12 DEF ChainSound, VerdictSound, TerminateEffect
<1>14. SessionSound(l)'
  BY <1>2 DEF SessionSound, TerminateEffect
<1>15. Walked(l)'
  <2>1. Started(l)' /\ pc'[l] \in {"cleaning", "unwinding"} /\ status'[l][i] \in Ended
        /\ (pc'[l] = "cleaning" => terminals'[l][i] = 1)
    BY <1>1, <1>2, <1>3, <1>6, <1>7 DEF Started, TerminateEffect, Ended
  <2>2. ASSUME NEW j \in Members(l), j < i
        PROVE  status'[l][j] \in Ended /\ terminals'[l][j] = 1
    BY <1>1, <1>2, <1>3, <1>6, <1>7, <2>2 DEF ChainSound, Walked, TerminateEffect
  <2>3. ASSUME NEW j \in Members(l), j > i
        PROVE  status'[l][j] = "queued" /\ terminals'[l][j] = 0 /\ finding'[l][j] = "none"
    BY <1>1, <1>2, <1>3, <1>6, <1>7, <2>3 DEF ChainSound, Walked, TerminateEffect, FindingIs
  <2>4. Members(l)' = Members(l)
    BY DEF Members
  <2>5. QED
    BY <1>6, <2>1, <2>2, <2>3, <2>4 DEF Walked
<1>16. ChainSound(l)'
  BY <1>10, <1>13, <1>14, <1>15 DEF ChainSound
<1>17. PoolIs(Pool)
  <2>1. PoolStays(l)
    BY <1>2 DEF PoolStays, pool, aborts, chain, exec, TerminateEffect
  <2>2. QED
    BY <1>1, <2>1, PoolStaysSound
<1>18. Moved(l)
  <2>1. /\ UNCHANGED <<strict, main, cancelled, halted, outcome>> /\ poisoned' \in BOOLEAN
        /\ pc[l] # "done" /\ Started(l) /\ Started(l)'
    BY <1>1, <1>2 DEF aborts, chain, Started, TerminateEffect
  <2>2. Domains' /\ Functional'
    BY <1>1, <1>2, <1>5 DEF Domains, Functional, TerminateEffect, Put, FindingIs, chain, exec
  <2>3. TypedLens(l)'
    BY <1>1, <1>2, <1>5 DEF TypedLens, TerminateEffect, FindingIs, chain, exec, Members, End, Phases
  <2>4. ASSUME NEW m \in Lenses \ {l} PROVE Same(m)
    BY <1>2, <1>5 DEF Same, Resting, TerminateEffect, Put, FindingIs, chain, exec
  <2>5. QED
    BY <2>1, <2>2, <2>3, <2>4 DEF Moved
<1>19. QED
  BY <1>16, <1>17, <1>18, MovedKeeps

LEMMA SettleKeeps ==
  ASSUME NInv, NEW l \in Lenses, NEW verdict \in Verdicts(l), NEW decision \in Decisions,
         NEW whole \in BOOLEAN, Settle(l, verdict, decision, whole)
  PROVE  NInv'
<1>1. FindingIs(l) /\ pc[l] = "settling"
  BY FoundIs DEF Settle
<1>2. CASE session[l] = "clean" /\ (whole \/ source[l] = 0)
  BY <1>1, <1>2, CompletesKeeps DEF Settle
<1>3. CASE ~(session[l] = "clean" /\ (whole \/ source[l] = 0))
  <2>1. /\ Incomplete(l)
        /\ UNCHANGED <<strict, main, aborts, pool, exec, chain, result, outcome>>
    BY <1>3 DEF Settle, Incomplete
  <2>2. QED
    BY <1>1, <2>1, IncompleteKeeps
<1>4. QED
  BY <1>2, <1>3


LEMMA ChainEndsKeeps ==
  ASSUME NInv, NEW l \in Lenses, ChainEnds(l)
  PROVE  NInv'
<1>1. /\ TypeOK /\ Domains /\ Functional /\ TypedLens(l) /\ ChainSound(l) /\ PoolSound
      /\ Started(l) /\ pc[l] = "idle" /\ at[l] = End(l)
  BY LensFacts DEF ChainEnds
<1>2. /\ UNCHANGED <<strict, main, aborts, poisoned, pool, exec, jobs, at, source, passes, outcome>>
      /\ pc' = [pc EXCEPT ![l] = "done"]
      /\ lensState' \in {lensState, [lensState EXCEPT ![l] = "incomplete"]}
      /\ strict /\ lensState[l] \in {"passed", "findings"} =>
           \/ \A i \in Members(l) : status[l][i] = "completed"
           \/ lensState' = [lensState EXCEPT ![l] = "incomplete"]
  BY DEF ChainEnds
<1>3. /\ pc'[l] = "done" /\ \A m \in Lenses \ {l} : pc'[m] = pc[m]
      /\ pc' = [m \in Lenses |-> pc'[m]] /\ DOMAIN pc' = Lenses
  BY <1>1, <1>2 DEF Domains, Functional
<1>4. /\ lensState'[l] \in {lensState[l], "incomplete"}
      /\ \A m \in Lenses \ {l} : lensState'[m] = lensState[m]
      /\ lensState' = [m \in Lenses |-> lensState'[m]] /\ DOMAIN lensState' = Lenses
      /\ strict /\ lensState'[l] \in {"passed", "findings"} =>
           \A i \in Members(l) : status[l][i] = "completed"
  BY <1>1, <1>2 DEF Domains, Functional
<1>5. Completed(l)' = Completed(l) /\ Passed(l)' = Passed(l) /\ Reason(l)' = Reason(l)
  <2>1. Completed(l)' = Completed(l)
    BY <1>2 DEF jobs, Completed, Members
  <2>2. Passed(l)' = Passed(l)
    BY <1>2, <2>1 DEF jobs, Passed
  <2>3. QED
    BY <1>2, <2>1, <2>2 DEF jobs, Reason, Satisfied
<1>6. ResultsSound(l)' /\ SessionSound(l)'
  BY <1>1, <1>2, <1>3, <1>5 DEF ChainSound, ResultsSound, SessionSound, jobs
<1>7. VerdictSound(l)'
  <2>1. passes'[l] = passes[l] /\ status' = status
    BY <1>2 DEF jobs
  <2>2. strict' /\ lensState'[l] \in {"passed", "findings"} => Completed(l) = Members(l)
    BY <1>2, <1>4 DEF Completed
  <2>3. Members(l)' = Members(l)
    BY DEF Members
  <2>4. QED
    BY <1>1, <1>4, <1>5, <2>1, <2>2, <2>3 DEF ChainSound, VerdictSound
<1>8. Walked(l)'
  <2>1. Started(l)' /\ at'[l] = End(l)
    BY <1>1, <1>2, <1>4 DEF Started
  <2>2. \A i \in Members(l) : i < End(l) /\ ~(i = End(l)) /\ ~(i > End(l))
    BY MembersAre
  <2>3. \A i \in Members(l) : status'[l][i] \in Ended /\ terminals'[l][i] = 1
    BY <1>1, <1>2, <2>2 DEF ChainSound, Walked, jobs
  <2>4. Members(l)' = Members(l) /\ End(l)' = End(l)
    BY DEF Members, End
  <2>5. QED
    BY <1>3, <2>1, <2>2, <2>3, <2>4 DEF Walked
<1>9. ChainSound(l)'
  BY <1>6, <1>7, <1>8 DEF ChainSound
<1>10. PoolIs(Pool)
  <2>1. PoolStays(l)
    BY <1>1, <1>2, <1>3 DEF PoolStays, pool, aborts, exec
  <2>2. QED
    BY <1>1, <2>1, PoolStaysSound
<1>11. Moved(l)
  <2>1. /\ UNCHANGED <<strict, main, cancelled, halted, outcome>> /\ poisoned' \in BOOLEAN
        /\ pc[l] # "done" /\ Started(l) /\ Started(l)'
    BY <1>1, <1>2, <1>4 DEF aborts, Started, TypeOK
  <2>2. Domains' /\ Functional'
    BY <1>1, <1>2, <1>3, <1>4 DEF Domains, Functional, jobs, exec
  <2>3. TypedLens(l)'
    BY <1>1, <1>2, <1>3, <1>4 DEF TypedLens, jobs, exec, Members, End, Phases, States
  <2>4. ASSUME NEW m \in Lenses \ {l} PROVE Same(m)
    BY <1>2, <1>3, <1>4 DEF Same, Resting, jobs, exec
  <2>5. QED
    BY <2>1, <2>2, <2>3, <2>4 DEF Moved
<1>12. QED
  BY <1>9, <1>10, <1>11, MovedKeeps

\* Somebody leaves the queue of a pool.
LeftBy(p, l, q) ==
  /\ TypedPool(q) /\ Booked(q) /\ ToSet(q.waiting) = ToSet(p.waiting) \ {l}
  /\ q.waiting = Leave(p.waiting, l)
  /\ q.active = p.active /\ q.groups = p.groups /\ q.slot = p.slot

LEMMA QueueLeaves ==
  ASSUME NEW p, TypedPool(p), Booked(p), NEW l
  PROVE  \E q : LeftBy(p, l, q)
<1>1. PICK w, n, groups, slots :
        w = Leave(p.waiting, l) /\ n = p.active /\ groups = p.groups /\ slots = p.slot
  OBVIOUS
<1>2. p.waiting \in Seq(Lenses) /\ OnceEach(p.waiting)
  BY DEF TypedPool, Booked, OnceEach
<1>3. w \in Seq(Lenses) /\ OnceEach(w) /\ ToSet(w) = ToSet(p.waiting) \ {l}
  BY <1>1, <1>2, LeaveIs
<1>4. PICK q : q = [waiting |-> w, active |-> n, groups |-> groups, slot |-> slots]
  OBVIOUS
<1>5. n \in Nat /\ groups \in [Groups -> Nat] /\ slots \in [Lenses -> BOOLEAN]
  BY <1>1 DEF TypedPool
<1>6. /\ q.waiting = w /\ q.active = p.active /\ q.groups = p.groups /\ q.slot = p.slot
      /\ TypedPool(q)
  BY <1>1, <1>3, <1>4, <1>5 DEF TypedPool
<1>7. Holding(q) = Holding(p) /\ \A g : Sharing(q, g) = Sharing(p, g)
  BY <1>6 DEF Holding, Sharing
<1>8. Booked(q)
  BY <1>3, <1>6, <1>7 DEF Booked, OnceEach
<1>9. QED
  BY <1>1, <1>3, <1>6, <1>8 DEF LeftBy

LEMMA PoolFacts ==
  ASSUME TypeOK, PoolSound
  PROVE  /\ TypedPool(Pool) /\ Booked(Pool)
         /\ Pool.waiting = waiting /\ Pool.active = active /\ Pool.groups = activeGroups
         /\ Pool.slot = slot
         /\ ToSet(waiting) = {m \in Lenses : pc[m] = "queued" /\ ~Cut(m)}
         /\ \A m \in ToSet(waiting) : ~Free(Pool, m)
         /\ \A m \in Lenses : slot[m] =>
              pc[m] \in {"granted", "reviewing", "settling", "cleaning", "unwinding"}
BY DEF TypeOK, PoolSound, Pool, TypedPool, Holders

LEMMA TimeOutKeeps ==
  ASSUME NInv, NEW l \in Lenses, TimeOut(l)
  PROVE  NInv'
<1>1. /\ TypeOK /\ Domains /\ Functional /\ TypedLens(l) /\ ChainSound(l) /\ PoolSound
      /\ Started(l) /\ pc[l] \in {"queued", "granted", "reviewing"} /\ at[l] \in Members(l)
  BY LensFacts DEF TimeOut
<1>2. /\ UNCHANGED <<strict, main, aborts, poisoned, active, activeGroups, slot, answered, session,
                     jobs, chain, pc, outcome>>
      /\ cut' = [cut EXCEPT ![l] = TRUE] /\ quiet' = [quiet EXCEPT ![l] = FALSE]
      /\ waiting' = Leave(waiting, l)
  BY DEF TimeOut
<1>3. /\ cut'[l] = TRUE /\ quiet'[l] = FALSE
      /\ \A m \in Lenses \ {l} : cut'[m] = cut[m] /\ quiet'[m] = quiet[m]
      /\ DOMAIN cut' = Lenses /\ DOMAIN quiet' = Lenses
      /\ cut' = [m \in Lenses |-> cut'[m]] /\ quiet' = [m \in Lenses |-> quiet'[m]]
  BY <1>1, <1>2 DEF Domains, Functional
<1>4. ASSUME NEW m \in Lenses PROVE Resting(m)
  BY <1>1, <1>2, <1>3 DEF Resting, jobs, chain
<1>5. ChainSound(l)'
  BY <1>1, <1>2, <1>4, RestingKeeps
<1>6. PICK p : p = Pool
  OBVIOUS
<1>7. /\ TypedPool(p) /\ Booked(p) /\ p.waiting = waiting /\ p.active = active
      /\ p.groups = activeGroups /\ p.slot = slot
      /\ ToSet(waiting) = {m \in Lenses : pc[m] = "queued" /\ ~Cut(m)}
      /\ \A m \in ToSet(waiting) : ~Free(p, m)
      /\ \A m \in Lenses : slot[m] =>
           pc[m] \in {"granted", "reviewing", "settling", "cleaning", "unwinding"}
  BY <1>1, <1>6, PoolFacts
<1>8. PICK q : LeftBy(p, l, q)
  BY <1>7, QueueLeaves
<1>9. /\ TypedPool(q) /\ Booked(q) /\ ToSet(q.waiting) = ToSet(waiting) \ {l}
      /\ q.waiting = waiting' /\ q.active = active /\ q.groups = activeGroups /\ q.slot = slot
  BY <1>2, <1>7, <1>8 DEF LeftBy
<1>10. PoolIs(q)
  <2>1. \A m \in Lenses \ {l} : Cut(m)' = Cut(m)
    BY <1>2, <1>3 DEF aborts, Cut, Aborted
  <2>2. Cut(l)'
    BY <1>3 DEF Cut
  <2>3. ToSet(q.waiting) = {m \in Lenses : pc'[m] = "queued" /\ ~Cut(m)'}
    BY <1>2, <1>7, <1>9, <2>1, <2>2
  <2>4. \A m \in ToSet(q.waiting) : ~Free(q, m)
    BY <1>7, <1>9 DEF Free
  <2>5. at' = at /\ pc' = pc /\ active' = active /\ activeGroups' = activeGroups /\ slot' = slot
    BY <1>2 DEF chain
  <2>6. QED
    BY <1>7, <1>9, <2>3, <2>4, <2>5 DEF PoolIs
<1>11. Moved(l)
  <2>1. /\ UNCHANGED <<strict, main, cancelled, halted, outcome>> /\ poisoned' \in BOOLEAN
        /\ pc[l] # "done" /\ Started(l) /\ Started(l)'
    BY <1>1, <1>2 DEF aborts, chain, Started, TypeOK
  <2>2. Domains' /\ Functional'
    BY <1>1, <1>2, <1>3 DEF Domains, Functional, chain, jobs
  <2>3. TypedLens(l)'
    BY <1>1, <1>2, <1>3 DEF TypedLens, chain, jobs, Members, End
  <2>4. ASSUME NEW m \in Lenses \ {l} PROVE Same(m)
    BY <1>2, <1>3, <1>4 DEF Same
  <2>5. QED
    BY <2>1, <2>2, <2>3, <2>4 DEF Moved
<1>12. QED
  BY <1>5, <1>10, <1>11, MovedKeeps


\* Somebody joins the queue of a pool.
JoinedBy(p, l, q) ==
  /\ TypedPool(q) /\ Booked(q) /\ ToSet(q.waiting) = ToSet(p.waiting) \cup {l}
  /\ q.active = p.active /\ q.groups = p.groups /\ q.slot = p.slot

LEMMA QueueJoins ==
  ASSUME NEW p, TypedPool(p), Booked(p), NEW l \in Lenses, l \notin ToSet(p.waiting),
         ~p.slot[l], at[l] \in Members(l)
  PROVE  JoinedBy(p, l, [p EXCEPT !.waiting = Append(@, l)])
<1>1. PICK w, n, groups, slots :
        w = Append(p.waiting, l) /\ n = p.active /\ groups = p.groups /\ slots = p.slot
  OBVIOUS
<1>2. p.waiting \in Seq(Lenses) /\ OnceEach(p.waiting) /\ Len(p.waiting) \in Nat
  BY DEF TypedPool, Booked, OnceEach
<1>3. /\ w \in Seq(Lenses) /\ DOMAIN w = 1..(Len(p.waiting) + 1)
      /\ w[Len(p.waiting) + 1] = l /\ \A i \in 1..Len(p.waiting) : w[i] = p.waiting[i]
      /\ DOMAIN p.waiting = 1..Len(p.waiting)
  BY <1>1, <1>2
<1>4. \A i \in 1..Len(p.waiting) : p.waiting[i] # l
  BY <1>3 DEF ToSet
<1>5. OnceEach(w) /\ ToSet(w) = ToSet(p.waiting) \cup {l}
  <2>1. OnceEach(w)
    BY <1>2, <1>3, <1>4 DEF OnceEach
  <2>2. \A i \in DOMAIN w : i \in 1..Len(p.waiting) \/ i = Len(p.waiting) + 1
    BY <1>2, <1>3
  <2>3. \A i \in DOMAIN w : w[i] \in ToSet(p.waiting) \cup {l}
    BY <1>3, <2>2 DEF ToSet
  <2>4. \A m \in ToSet(p.waiting) \cup {l} : \E i \in DOMAIN w : w[i] = m
    BY <1>2, <1>3 DEF ToSet
  <2>5. QED
    BY <2>1, <2>3, <2>4 DEF ToSet
<1>6. PICK q : q = [p EXCEPT !.waiting = Append(@, l)]
  OBVIOUS
<1>7. q = [waiting |-> w, active |-> n, groups |-> groups, slot |-> slots]
  BY <1>1, <1>6 DEF TypedPool
<1>8. n \in Nat /\ groups \in [Groups -> Nat] /\ slots \in [Lenses -> BOOLEAN]
  BY <1>1 DEF TypedPool
<1>9. /\ q.waiting = w /\ q.active = p.active /\ q.groups = p.groups /\ q.slot = p.slot
      /\ TypedPool(q)
  BY <1>1, <1>5, <1>3, <1>7, <1>8 DEF TypedPool
<1>10. Holding(q) = Holding(p) /\ \A g : Sharing(q, g) = Sharing(p, g)
  BY <1>9 DEF Holding, Sharing
<1>11. Booked(q)
  BY <1>5, <1>9, <1>10 DEF Booked, OnceEach
<1>12. QED
  BY <1>5, <1>6, <1>9, <1>11 DEF JoinedBy

LEMMA ExecuteKeeps ==
  ASSUME NInv, NEW l \in Lenses, Execute(l)
  PROVE  NInv'
<1>1. /\ TypeOK /\ Domains /\ Functional /\ TypedLens(l) /\ ChainSound(l) /\ PoolSound
      /\ Started(l) /\ pc[l] = "idle" /\ at[l] \in Members(l) /\ ~Aborted /\ ~cut[l]
  BY LensFacts DEF Execute, Skipped, ChainSound, SessionSound
<1>2. PICK p, r, q : p = Pool /\ r = [p EXCEPT !.waiting = Append(@, l)] /\ q = Check(r, l)
  OBVIOUS
<1>3. /\ UNCHANGED <<strict, main, aborts, poisoned, exec, jobs, chain, outcome>>
      /\ waiting' = q.waiting /\ active' = q.active /\ activeGroups' = q.groups
      /\ slot' = q.slot
      /\ pc' = [pc EXCEPT ![l] = IF q.slot[l] THEN "granted" ELSE "queued"]
  BY <1>2 DEF Execute
<1>4. /\ TypedPool(p) /\ Booked(p) /\ p.waiting = waiting /\ p.active = active
      /\ p.groups = activeGroups /\ p.slot = slot
      /\ ToSet(waiting) = {m \in Lenses : pc[m] = "queued" /\ ~Cut(m)}
      /\ \A m \in ToSet(waiting) : ~Free(p, m)
      /\ \A m \in Lenses : slot[m] =>
           pc[m] \in {"granted", "reviewing", "settling", "cleaning", "unwinding"}
  BY <1>1, <1>2, PoolFacts
<1>5. l \notin ToSet(waiting) /\ ~slot[l]
  BY <1>1, <1>4
<1>6. /\ TypedPool(r) /\ Booked(r) /\ ToSet(r.waiting) = ToSet(waiting) \cup {l}
      /\ r.active = p.active /\ r.groups = p.groups /\ r.slot = slot
  <2>1. JoinedBy(p, l, [p EXCEPT !.waiting = Append(@, l)])
    BY <1>1, <1>4, <1>5, QueueJoins
  <2>2. JoinedBy(p, l, r)
    BY <1>2, <2>1
  <2>3. QED
    BY <1>4, <2>2 DEF JoinedBy
<1>7. /\ TypedPool(q) /\ Booked(q)
      /\ ToSet(q.waiting) = {m \in ToSet(waiting) \cup {l} : ~q.slot[m]}
      /\ \A m \in Lenses \ {l} : q.slot[m] <=> slot[m]
      /\ l \in ToSet(q.waiting) => ~Free(q, l)
      /\ \A m \in ToSet(waiting) \cup {l} : ~Free(r, m) => ~Free(q, m)
  <2>1. CheckEffect(r, l, q)
    BY <1>2, <1>6, CheckIs
  <2>2. QED
    BY <1>6, <2>1 DEF CheckEffect
<1>8. /\ pc'[l] = (IF q.slot[l] THEN "granted" ELSE "queued")
      /\ \A m \in Lenses \ {l} : pc'[m] = pc[m]
      /\ pc' = [m \in Lenses |-> pc'[m]] /\ DOMAIN pc' = Lenses
  BY <1>1, <1>3 DEF Domains, Functional
<1>9. pc'[l] \in {"granted", "queued"}
  BY <1>8
<1>10. PoolIs(q)
  <2>1. \A m \in Lenses : Cut(m)' = Cut(m)
    BY <1>3 DEF aborts, exec, Cut, Aborted
  <2>2. ~Cut(l)
    BY <1>1 DEF Cut
  <2>3. \A m \in Lenses \ {l} : m \in ToSet(q.waiting) <=> m \in ToSet(waiting)
    BY <1>4, <1>7
  <2>4. l \in ToSet(q.waiting) <=> ~q.slot[l]
    BY <1>7
  <2>5. ToSet(q.waiting) = {m \in Lenses : pc'[m] = "queued" /\ ~Cut(m)'}
    <3>1. \A m \in Lenses \ {l} : m \in ToSet(q.waiting) <=> pc'[m] = "queued" /\ ~Cut(m)'
      BY <1>4, <1>8, <2>1, <2>3
    <3>2. l \in ToSet(q.waiting) <=> pc'[l] = "queued" /\ ~Cut(l)'
      BY <1>8, <2>1, <2>2, <2>4
    <3>3. \A m \in ToSet(q.waiting) : m \in Lenses
      BY <1>4, <1>7
    <3>4. QED
      BY <3>1, <3>2, <3>3
  <2>6. ASSUME NEW m \in ToSet(q.waiting) PROVE ~Free(q, m)
    <3>1. CASE m = l
      BY <1>7, <2>6, <3>1
    <3>2. CASE m # l
      <4>1. m \in ToSet(waiting)
        BY <1>7, <2>6, <3>2
      <4>2. ~Free(r, m)
        BY <1>4, <1>6, <4>1 DEF Free
      <4>3. QED
        BY <1>7, <4>1, <4>2
    <3>3. QED
      BY <3>1, <3>2
  <2>7. \A m \in Lenses : q.slot[m] =>
          pc'[m] \in {"granted", "reviewing", "settling", "cleaning", "unwinding"}
    BY <1>4, <1>7, <1>8
  <2>8. at' = at
    BY <1>3 DEF chain
  <2>9. QED
    BY <1>3, <1>7, <2>5, <2>6, <2>7, <2>8 DEF PoolIs
<1>11. ChainSound(l)'
  <2>1. /\ Members(l)' = Members(l) /\ at' = at /\ lensState' = lensState /\ source' = source
        /\ passes' = passes /\ status' = status /\ result' = result /\ finding' = finding
        /\ terminals' = terminals /\ session' = session
    BY <1>3 DEF Members, chain, jobs, exec
  <2>2. Walked(l)'
    BY <1>1, <1>9, <2>1 DEF ChainSound, Walked, Started
  <2>3. Completed(l)' = Completed(l)
    BY <2>1 DEF Completed
  <2>4. Passed(l)' = Passed(l)
    BY <2>1, <2>3 DEF Passed
  <2>5. Reason(l)' = Reason(l)
    BY <2>1, <2>3, <2>4 DEF Reason, Satisfied
  <2>6. VerdictSound(l)'
    BY <1>1, <1>9, <2>1, <2>4, <2>5 DEF ChainSound, VerdictSound
  <2>7. ResultsSound(l)' /\ SessionSound(l)'
    BY <1>1, <1>9, <2>1, <2>3 DEF ChainSound, ResultsSound, SessionSound
  <2>8. QED
    BY <2>2, <2>6, <2>7 DEF ChainSound
<1>12. Moved(l)
  <2>1. /\ UNCHANGED <<strict, main, cancelled, halted, outcome>> /\ poisoned' \in BOOLEAN
        /\ pc[l] # "done" /\ Started(l) /\ Started(l)'
    BY <1>1, <1>3 DEF aborts, chain, Started, TypeOK
  <2>2. Domains' /\ Functional'
    BY <1>1, <1>3, <1>8 DEF Domains, Functional, chain, jobs, exec
  <2>3. TypedLens(l)'
    BY <1>1, <1>3, <1>9 DEF TypedLens, chain, jobs, exec, Members, End, Phases
  <2>4. ASSUME NEW m \in Lenses \ {l} PROVE Same(m)
    BY <1>3, <1>8 DEF Same, Resting, chain, jobs, exec
  <2>5. QED
    BY <2>1, <2>2, <2>3, <2>4 DEF Moved
<1>13. QED
  BY <1>10, <1>11, <1>12, MovedKeeps


\* Behind a release the reviewer holds nothing, those who got its slot had waited, and
\* nobody waits beside a slot he could have.
ReleasedEffect(l, q) ==
  /\ TypedPool(q) /\ Booked(q) /\ ~q.slot[l]
  /\ ToSet(q.waiting) = {m \in ToSet(waiting) : ~q.slot[m]}
  /\ \A m \in Lenses \ {l} : /\ slot[m] => q.slot[m]
                             /\ q.slot[m] => slot[m] \/ m \in ToSet(waiting)
  /\ \A m \in ToSet(q.waiting) : ~Free(q, m)

LEMMA ReleasedIs ==
  ASSUME TypeOK, PoolSound, NEW l \in Lenses, l \notin ToSet(waiting)
  PROVE  ReleasedEffect(l, Released(l))
<1>1. PICK p, q, g : p = Pool /\ q = Released(l) /\ g = Group(l)
  OBVIOUS
<1>2. /\ TypedPool(p) /\ Booked(p) /\ p.waiting = waiting /\ p.active = active
      /\ p.groups = activeGroups /\ p.slot = slot
      /\ ToSet(waiting) = {m \in Lenses : pc[m] = "queued" /\ ~Cut(m)}
      /\ \A m \in ToSet(waiting) : ~Free(p, m)
  BY <1>1, PoolFacts
<1>3. CASE ~slot[l]
  <2>1. q = p
    BY <1>1, <1>3 DEF Released
  <2>2. \A m \in ToSet(waiting) : ~slot[m]
    BY <1>2 DEF Booked
  <2>3. QED
    BY <1>1, <1>2, <1>3, <2>1, <2>2 DEF ReleasedEffect
<1>4. CASE slot[l]
  <2>1. PICK r : r = [p EXCEPT !.active = @ - 1, !.groups[g] = @ - 1, !.slot[l] = FALSE]
    OBVIOUS
  <2>2. q = Wake(r)
    BY <1>1, <1>4, <2>1 DEF Released
  <2>3. PICK w, n, groups, slots :
          /\ w = p.waiting /\ n = p.active - 1 /\ groups = [p.groups EXCEPT ![g] = @ - 1]
          /\ slots = [p.slot EXCEPT ![l] = FALSE]
    OBVIOUS
  <2>4. r = [waiting |-> w, active |-> n, groups |-> groups, slot |-> slots]
    BY <1>2, <2>1, <2>3 DEF TypedPool
  <2>5. /\ p.waiting \in Seq(Lenses) /\ p.active \in Nat /\ p.groups \in [Groups -> Nat]
        /\ p.slot \in [Lenses -> BOOLEAN] /\ MaxConcurrency \in Nat
    BY <1>2, NativeLimitAssumption DEF TypedPool
  <2>6. /\ IsFiniteSet(Holding(p)) /\ l \in Holding(p)
        /\ p.active = Cardinality(Holding(p)) /\ p.active <= MaxConcurrency
        /\ \A h \in Groups : /\ p.groups[h] = Cardinality(Sharing(p, h))
                             /\ p.groups[h] <= ProviderLimit[h]
        /\ OnceEach(p.waiting)
        /\ \A m \in ToSet(p.waiting) : ~p.slot[m] /\ at[m] \in Members(m)
        /\ \A m \in Holding(p) : at[m] \in Members(m)
    BY <1>2, <1>4 DEF Booked, OnceEach, Holding
  <2>7. g \in Groups /\ \A h \in Groups : ProviderLimit[h] \in Nat
    BY <1>1, <2>6, GroupIs, NativeGroupsAssumption
  <2>8. /\ r.waiting = w /\ r.active = n /\ r.groups = groups /\ r.slot = slots
    BY <2>4
  <2>9. slots \in [Lenses -> BOOLEAN] /\ ~slots[l] /\ \A m \in Lenses \ {l} : slots[m] = p.slot[m]
    BY <2>3, <2>5
  <2>10. Holding(r) = Holding(p) \ {l}
    BY <2>8, <2>9 DEF Holding
  <2>11. IsFiniteSet(Holding(r)) /\ Cardinality(Holding(r)) = Cardinality(Holding(p)) - 1
         /\ Cardinality(Holding(r)) \in Nat
    BY <2>6, <2>10, FS_RemoveElement, FS_CardinalityType
  <2>12. n \in Nat /\ n = Cardinality(Holding(r)) /\ n <= MaxConcurrency
    BY <2>3, <2>5, <2>6, <2>11
  <2>13. /\ groups[g] = p.groups[g] - 1
         /\ \A h \in Groups \ {g} : groups[h] = p.groups[h]
         /\ DOMAIN groups = Groups /\ groups = [h \in Groups |-> groups[h]]
    BY <2>3, <2>5, <2>7
  <2>14. ASSUME NEW h \in Groups
         PROVE  /\ groups[h] = Cardinality(Sharing(r, h)) /\ groups[h] <= ProviderLimit[h]
                /\ groups[h] \in Nat
    <3>1. IsFiniteSet(Sharing(p, h))
      BY <2>6, FS_Subset DEF Sharing
    <3>2. CASE h = g
      <4>1. Sharing(r, h) = Sharing(p, h) \ {l} /\ l \in Sharing(p, h)
        BY <1>1, <2>6, <2>10, <3>2 DEF Sharing
      <4>2. Cardinality(Sharing(r, h)) = Cardinality(Sharing(p, h)) - 1
            /\ IsFiniteSet(Sharing(r, h)) /\ Cardinality(Sharing(r, h)) \in Nat
        BY <3>1, <4>1, FS_RemoveElement, FS_CardinalityType
      <4>3. p.groups[h] \in Nat /\ ProviderLimit[h] \in Nat
        BY <2>5, <2>7
      <4>4. QED
        BY <2>6, <2>13, <3>2, <4>2, <4>3
    <3>3. CASE h # g
      <4>1. Sharing(r, h) = Sharing(p, h)
        BY <1>1, <2>10, <3>3 DEF Sharing
      <4>2. QED
        BY <2>5, <2>6, <2>13, <3>3, <4>1
    <3>4. QED
      BY <3>2, <3>3
  <2>15. groups \in [Groups -> Nat]
    <3>1. p.groups[g] - 1 \in Nat
      BY <2>7, <2>13, <2>14
    <3>2. QED
      BY <2>3, <2>5, <2>7, <3>1
  <2>16. TypedPool(r)
    BY <2>3, <2>4, <2>5, <2>9, <2>12, <2>15 DEF TypedPool
  <2>17. l \notin ToSet(p.waiting)
    BY <1>2
  <2>18. Booked(r)
    <3>1. \A m \in ToSet(r.waiting) : ~r.slot[m] /\ at[m] \in Members(m)
      <4>1. \A m \in ToSet(p.waiting) : m \in Lenses \ {l}
        BY <1>2, <2>17
      <4>2. QED
        BY <2>3, <2>6, <2>8, <2>9, <4>1
    <3>2. \A m \in Holding(r) : at[m] \in Members(m)
      BY <2>6, <2>10
    <3>3. QED
      BY <2>3, <2>6, <2>8, <2>11, <2>12, <2>14, <3>1, <3>2 DEF Booked, OnceEach
  <2>19. WakeEffect(r, q)
    BY <2>2, <2>16, <2>18, WakeSound
  <2>20. /\ TypedPool(q) /\ Booked(q) /\ ToSet(q.waiting) = {m \in ToSet(waiting) : ~q.slot[m]}
         /\ \A m \in Lenses : /\ slots[m] => q.slot[m]
                              /\ q.slot[m] => slots[m] \/ m \in ToSet(waiting)
         /\ \A m \in ToSet(q.waiting) : ~Free(q, m)
    BY <1>2, <2>3, <2>8, <2>19 DEF WakeEffect
  <2>21. ~q.slot[l]
    BY <1>2, <2>9, <2>17, <2>20
  <2>22. QED
    BY <1>1, <1>2, <2>9, <2>20, <2>21 DEF ReleasedEffect
<1>5. QED
  BY <1>3, <1>4

LEMMA CleanupPool ==
  ASSUME NInv, NEW l \in Lenses, Cleanup(l)
  PROVE  PoolIs(Released(l)) /\ \A m \in Lenses \ {l} : 
           pc'[m] = pc[m] \/ (pc[m] = "queued" /\ pc'[m] = "granted")
<1>1. /\ TypeOK /\ Domains /\ Functional /\ TypedLens(l) /\ PoolSound
      /\ pc[l] \in {"cleaning", "unwinding"}
  BY LensFacts DEF Cleanup
<1>2. PICK p, q : p = Pool /\ q = Released(l)
  OBVIOUS
<1>3. /\ ToSet(waiting) = {m \in Lenses : pc[m] = "queued" /\ ~Cut(m)}
      /\ \A m \in Lenses : slot[m] =>
           pc[m] \in {"granted", "reviewing", "settling", "cleaning", "unwinding"}
  BY <1>1, PoolFacts
<1>4. /\ TypedPool(q) /\ Booked(q) /\ ~q.slot[l]
      /\ ToSet(q.waiting) = {m \in ToSet(waiting) : ~q.slot[m]}
      /\ \A m \in Lenses \ {l} : /\ slot[m] => q.slot[m]
                                 /\ q.slot[m] => slot[m] \/ m \in ToSet(waiting)
      /\ \A m \in ToSet(q.waiting) : ~Free(q, m)
  <2>1. l \notin ToSet(waiting)
    BY <1>1, <1>3
  <2>2. QED
    BY <1>1, <1>2, <2>1, ReleasedIs DEF ReleasedEffect
<1>5. /\ waiting' = q.waiting /\ active' = q.active /\ activeGroups' = q.groups
      /\ slot' = q.slot /\ UNCHANGED <<main, cancelled, halted>>
      /\ pc'[l] \in {"idle", "thrown"}
      /\ \A m \in Lenses \ {l} :
           pc'[m] = IF q.slot[m] /\ ~slot[m] THEN "granted" ELSE pc[m]
      /\ at' \in {at, [at EXCEPT ![l] = @ + 1]}
      /\ cut' = [cut EXCEPT ![l] = FALSE]
  BY <1>2 DEF Cleanup, Forget, aborts
<1>6. \A m \in Lenses \ {l} : at'[m] = at[m] /\ cut'[m] = cut[m] /\ Cut(m)' = Cut(m)
  BY <1>1, <1>5 DEF Domains, Cut, Aborted
<1>7. ASSUME NEW m \in Lenses \ {l}
      PROVE  /\ m \in ToSet(q.waiting) <=> pc'[m] = "queued" /\ ~Cut(m)'
             /\ q.slot[m] =>
                  pc'[m] \in {"granted", "reviewing", "settling", "cleaning", "unwinding"}
             /\ pc'[m] = pc[m] \/ (pc[m] = "queued" /\ pc'[m] = "granted")
  <2>1. CASE q.slot[m] /\ ~slot[m]
    BY <1>3, <1>4, <1>5, <2>1
  <2>2. CASE q.slot[m] /\ slot[m]
    BY <1>3, <1>4, <1>5, <2>2
  <2>3. CASE ~q.slot[m]
    BY <1>3, <1>4, <1>5, <1>6, <2>3
  <2>4. QED
    BY <2>1, <2>2, <2>3
<1>8. ToSet(q.waiting) = {m \in Lenses : pc'[m] = "queued" /\ ~Cut(m)'}
  <2>1. l \notin ToSet(q.waiting) /\ pc'[l] # "queued"
    BY <1>1, <1>3, <1>4, <1>5
  <2>2. \A m \in ToSet(q.waiting) : m \in Lenses
    BY <1>3, <1>4
  <2>3. QED
    BY <1>7, <2>1, <2>2
<1>9. \A m \in Lenses : q.slot[m] \/ m \in ToSet(q.waiting) => at'[m] = at[m]
  <2>1. l \notin ToSet(q.waiting)
    BY <1>1, <1>3, <1>4
  <2>2. QED
    BY <1>4, <1>6, <2>1
<1>10. PoolIs(q)
  BY <1>4, <1>5, <1>7, <1>8, <1>9 DEF PoolIs
<1>11. QED
  BY <1>2, <1>7, <1>10


\* The position of a chain behind a cleanup, and what it then makes of the reviewer.
Behind(l, i) ==
  /\ \/ /\ pc'[l] = "idle" /\ at'[l] = i + 1 /\ pc[l] = "cleaning"
     \/ /\ pc'[l] = "thrown" /\ at'[l] = i /\ pc[l] = "unwinding"
  /\ UNCHANGED <<strict, jobs>>

LEMMA CleanupWalks ==
  ASSUME NEW l \in Lenses, TypedLens(l), ChainSound(l), NEW i \in Members(l), i = at[l],
         Behind(l, i), Started(l), lensState'[l] \in {lensState[l], "passed", "findings"}
  PROVE  Walked(l)'
<1>1. i \in Nat /\ (\A j \in Members(l) : j \in Nat) /\ Members(l)' = Members(l) /\ Started(l)'
  BY MembersAre DEF Members, Started
<1>2. /\ \A j \in Members(l) : j < i => status'[l][j] \in Ended /\ terminals'[l][j] = 1
      /\ \A j \in Members(l) : j > i => 
           status'[l][j] = "queued" /\ terminals'[l][j] = 0 /\ finding'[l][j] = "none"
      /\ pc[l] = "cleaning" => status'[l][i] \in Ended /\ terminals'[l][i] = 1
  BY DEF ChainSound, Walked, Behind, jobs
<1>3. CASE pc'[l] = "thrown" /\ at'[l] = i
  BY <1>1, <1>2, <1>3 DEF Walked
<1>4. CASE pc'[l] = "idle" /\ at'[l] = i + 1 /\ pc[l] = "cleaning"
  <2>1. \A j \in Members(l) : j < i + 1 => status'[l][j] \in Ended /\ terminals'[l][j] = 1
    <3>1. \A j \in Members(l) : j < i + 1 => j < i \/ j = i
      <4>1. \A m, n \in Nat : m < n + 1 => m < n \/ m = n
        OBVIOUS
      <4>2. QED
        BY <1>1, <4>1
    <3>2. QED
      BY <1>2, <1>4, <3>1
  <2>2. \A j \in Members(l) : j >= i + 1 =>
           status'[l][j] = "queued" /\ terminals'[l][j] = 0 /\ finding'[l][j] = "none"
    <3>1. \A j \in Members(l) : j >= i + 1 => j > i
      <4>1. \A m, n \in Nat : m >= n + 1 => m > n
        OBVIOUS
      <4>2. QED
        BY <1>1, <4>1
    <3>2. QED
      BY <1>2, <3>1
  <2>3. QED
    BY <1>1, <1>4, <2>1, <2>2 DEF Walked
<1>5. QED
  BY <1>3, <1>4 DEF Behind

\* The chain's books are unchanged if its reviewer did not complete, and agree with
\* what it says of a lens if it did.
Followed(l, i) ==
  \/ /\ status[l][i] # "completed" \/ pc[l] = "unwinding"
     /\ source'[l] = source[l] /\ passes'[l] = passes[l] /\ lensState'[l] = lensState[l]
  \/ /\ status[l][i] = "completed" /\ pc[l] = "cleaning"
     /\ \/ /\ result[l][i] \in {"pass2", "fail2"} /\ lensState'[l] \in {"passed", "findings"}
           /\ source'[l] = source[l] /\ passes'[l] = passes[l]
        \/ /\ result[l][i] = "fail4" /\ Adjudicated[l] /\ source'[l] = i
           /\ passes'[l] = passes[l] /\ lensState'[l] = lensState[l]
        \/ /\ result[l][i] = "fail4" /\ ~Adjudicated[l] /\ lensState'[l] = "findings"
           /\ source'[l] = source[l] /\ passes'[l] = passes[l]
        \/ /\ result[l][i] = "pass4" /\ passes'[l] = passes[l] \cup {i}
           /\ \/ lensState'[l] = lensState[l]
              \/ Satisfied(l, passes[l] \cup {i}) /\ lensState'[l] = "passed"
           /\ source'[l] = source[l]

LEMMA CleanupDecides ==
  ASSUME NEW l \in Lenses, TypedLens(l), ChainSound(l), NEW i \in Members(l), i = at[l],
         Behind(l, i), Followed(l, i)
  PROVE  ResultsSound(l)' /\ VerdictSound(l)'
<1>1. i \in Nat /\ (\A j \in Members(l) : j \in Nat) /\ Members(l)' = Members(l)
  BY MembersAre DEF Members
<1>2. status' = status /\ result' = result /\ strict' = strict /\ Completed(l)' = Completed(l)
  BY <1>1 DEF Behind, jobs, Completed
<1>3. \A j \in Completed(l) : j \in Members(l) /\ (j < i \/ j = i)
  BY <1>1 DEF ChainSound, Walked, Completed
<1>4. i \in Completed(l) <=> status[l][i] = "completed"
  BY DEF Completed
<1>5. /\ source[l] # 0 => /\ Adjudicated[l] /\ source[l] < i /\ source[l] \in Completed(l)
                          /\ source[l] \in Nat /\ result[l][source[l]] = "fail4"
      /\ \A j \in Completed(l) :
           /\ result[l][j] # "none"
           /\ result[l][j] \in {"pass2", "fail2"} => source[l] # 0 /\ source[l] < j
           /\ result[l][j] \in {"pass4", "fail4"} => source[l] = 0 \/ j <= source[l]
  BY MembersAre DEF ChainSound, ResultsSound, TypedLens, Completed
<1>6. at'[l] \in {i, i + 1} /\ (pc[l] = "cleaning" => at'[l] = i + 1)
      /\ (pc[l] = "unwinding" => at'[l] = i) /\ pc[l] \in {"cleaning", "unwinding"}
      /\ pc'[l] \in {"idle", "thrown"}
  BY DEF Behind
<1>7. /\ passes[l] = Passed(l)
      /\ lensState[l] \in {"passed", "findings"} => Reason(l)
  BY DEF ChainSound, VerdictSound
<1>8. Passed(l) = {j \in Completed(l) : j < i /\ result[l][j] = "pass4"}
  BY DEF Passed
<1>9. Passed(l)' = {j \in Completed(l) : j < at'[l] /\ result[l][j] = "pass4"}
  BY <1>2 DEF Passed
<1>10. Passed(l) \subseteq Passed(l)' /\ Passed(l)' \subseteq Members(l)
  <2>1. \A j \in Members(l) : j < i => j < at'[l]
    BY <1>1, <1>6
  <2>2. QED
    BY <1>3, <1>8, <1>9, <2>1
<1>11. Reason(l) => Reason(l)'
  BY <1>2, <1>10, ReasonStays
<1>12. CASE /\ status[l][i] # "completed" \/ pc[l] = "unwinding"
            /\ source'[l] = source[l] /\ passes'[l] = passes[l] /\ lensState'[l] = lensState[l]
  <2>1. Passed(l)' = Passed(l)
    <3>1. ASSUME NEW j \in Completed(l) PROVE j < at'[l] <=> j < i
      <4>1. j \in Nat
        BY <1>1, <1>3
      <4>2. CASE at'[l] = i
        BY <4>2
      <4>3. CASE at'[l] # i
        <5>1. j # i /\ at'[l] = i + 1
          BY <1>4, <1>6, <1>12, <4>3
        <5>2. QED
          BY <1>1, <4>1, <5>1
      <4>4. QED
        BY <4>2, <4>3
    <3>2. QED
      BY <1>8, <1>9, <3>1
  <2>2. VerdictSound(l)'
    BY <1>6, <1>7, <1>11, <1>12, <2>1 DEF VerdictSound
  <2>3. source[l] # 0 => source[l] < at'[l] /\ status[l][source[l]] = "completed"
    BY <1>1, <1>5, <1>6 DEF Completed
  <2>4. ResultsSound(l)'
    BY <1>2, <1>5, <1>12, <2>3 DEF ResultsSound
  <2>5. QED
    BY <2>2, <2>4
<1>13. CASE status[l][i] = "completed" /\ pc[l] = "cleaning"
  <2>1. i \in Completed(l) /\ at'[l] = i + 1 /\ pc'[l] # "done"
    BY <1>4, <1>6, <1>13
  <2>2. source[l] # 0 => source[l] < at'[l] /\ status[l][source[l]] = "completed"
    BY <1>1, <1>5, <2>1 DEF Completed
  <2>3. source'[l] = source[l] => ResultsSound(l)'
    BY <1>2, <1>5, <2>2 DEF ResultsSound
  <2>4. result[l][i] # "pass4" => Passed(l)' = Passed(l)
    <3>1. \A j \in Completed(l) : j < at'[l] <=> j < i \/ j = i
      <4>1. \A j \in Members(l) : j < i + 1 <=> j < i \/ j = i
        BY <1>1
      <4>2. QED
        BY <1>3, <2>1, <4>1
    <3>2. QED
      BY <1>8, <1>9, <3>1
  <2>5. CASE /\ result[l][i] \in {"pass2", "fail2"} /\ lensState'[l] \in {"passed", "findings"}
             /\ source'[l] = source[l] /\ passes'[l] = passes[l]
    <3>1. source[l] \in Completed(l) /\ source[l] < i /\ result[l][source[l]] = "fail4"
      BY <1>5, <2>1, <2>5
    <3>2. Reason(l)'
      BY <1>2, <2>1, <2>5, <3>1 DEF Reason
    <3>3. VerdictSound(l)'
      BY <1>7, <2>1, <2>4, <2>5, <3>2 DEF VerdictSound
    <3>4. QED
      BY <2>3, <2>5, <3>3
  <2>6. CASE /\ result[l][i] = "fail4" /\ Adjudicated[l] /\ source'[l] = i
             /\ passes'[l] = passes[l] /\ lensState'[l] = lensState[l]
    <3>1. source[l] = 0
      BY <1>1, <1>5, <2>1, <2>6
    <3>2. ASSUME NEW j \in Completed(l)
          PROVE  result[l][j] \notin {"pass2", "fail2"} /\ j <= i
      <4>1. j <= i
        <5>1. i \in Nat /\ j \in Nat /\ (j < i \/ j = i)
          BY <1>1, <1>3
        <5>2. QED
          BY <5>1
      <4>2. QED
        BY <1>5, <3>1, <4>1
    <3>3. i # 0 /\ i < at'[l]
      BY <1>1, <2>1, MembersAre
    <3>4. ResultsSound(l)'
      BY <1>2, <1>5, <2>1, <2>6, <1>13, <3>2, <3>3 DEF ResultsSound
    <3>5. VerdictSound(l)'
      BY <1>7, <1>11, <2>1, <2>4, <2>6 DEF VerdictSound
    <3>6. QED
      BY <3>4, <3>5
  <2>7. CASE /\ result[l][i] = "fail4" /\ ~Adjudicated[l] /\ lensState'[l] = "findings"
             /\ source'[l] = source[l] /\ passes'[l] = passes[l]
    <3>1. Reason(l)'
      BY <1>2, <2>1, <2>7 DEF Reason
    <3>2. VerdictSound(l)'
      BY <1>7, <2>1, <2>4, <2>7, <3>1 DEF VerdictSound
    <3>3. QED
      BY <2>3, <2>7, <3>2
  <2>8. CASE /\ result[l][i] = "pass4" /\ passes'[l] = passes[l] \cup {i}
             /\ \/ lensState'[l] = lensState[l]
                \/ Satisfied(l, passes[l] \cup {i}) /\ lensState'[l] = "passed"
             /\ source'[l] = source[l]
    <3>1. Passed(l)' = Passed(l) \cup {i}
      <4>1. \A j \in Members(l) : j < i + 1 <=> j < i \/ j = i
        BY <1>1
      <4>2. \A j \in Completed(l) : j < at'[l] <=> j < i \/ j = i
        BY <1>3, <2>1, <4>1
      <4>3. QED
        BY <1>8, <1>9, <2>1, <2>8, <4>2
    <3>2. Satisfied(l, passes[l] \cup {i}) => Reason(l)'
      BY <1>7, <3>1 DEF Reason, Satisfied
    <3>3. VerdictSound(l)'
      BY <1>7, <1>11, <2>1, <2>8, <3>1, <3>2 DEF VerdictSound
    <3>4. QED
      BY <2>3, <2>8, <3>3
  <2>9. QED
    BY <1>13, <2>5, <2>6, <2>7, <2>8 DEF Followed
<1>14. QED
  BY <1>12, <1>13 DEF Followed


\* The variables that follow() assigns, behind a cleanup.
Books(l) ==
  /\ DOMAIN source' = Lenses /\ DOMAIN passes' = Lenses /\ DOMAIN lensState' = Lenses
  /\ lensState' = [m \in Lenses |-> lensState'[m]]
  /\ \A m \in Lenses \ {l} : /\ source'[m] = source[m] /\ passes'[m] = passes[m]
                             /\ lensState'[m] = lensState[m]

LEMMA FollowIs ==
  ASSUME Domains, Functional, NEW l \in Lenses, NEW i, i = at[l],
         status[l][i] = "completed", pc[l] = "cleaning", Follow(l)
  PROVE  Books(l) /\ Followed(l, i)
<1>1. /\ DOMAIN source = Lenses /\ DOMAIN passes = Lenses /\ DOMAIN lensState = Lenses
      /\ lensState = [m \in Lenses |-> lensState[m]]
  BY DEF Domains, Functional
<1>2. CASE result[l][i] = "fail2" /\ lensState' = [lensState EXCEPT ![l] = "findings"]
           /\ UNCHANGED <<source, passes>>
  BY <1>1, <1>2 DEF Books, Followed
<1>3. CASE result[l][i] = "pass2" /\ lensState' = [lensState EXCEPT ![l] = "passed"]
           /\ UNCHANGED <<source, passes>>
  BY <1>1, <1>3 DEF Books, Followed
<1>4. CASE /\ result[l][i] = "fail4" /\ Adjudicated[l] /\ source' = [source EXCEPT ![l] = i]
           /\ UNCHANGED <<passes, lensState>>
  BY <1>1, <1>4 DEF Books, Followed
<1>5. CASE /\ result[l][i] = "fail4" /\ ~Adjudicated[l]
           /\ lensState' = [lensState EXCEPT ![l] = "findings"] /\ UNCHANGED <<source, passes>>
  BY <1>1, <1>5 DEF Books, Followed
<1>6. CASE /\ result[l][i] = "pass4" /\ passes' = [passes EXCEPT ![l] = passes[l] \cup {i}]
           /\ IF Satisfied(l, passes[l] \cup {i})
                THEN lensState' = [lensState EXCEPT ![l] = "passed"] ELSE UNCHANGED lensState
           /\ UNCHANGED source
  <2>1. /\ result[l][i] = "pass4" /\ DOMAIN passes' = Lenses /\ passes'[l] = passes[l] \cup {i}
        /\ \A m \in Lenses \ {l} : passes'[m] = passes[m]
        /\ source' = source /\ DOMAIN source' = Lenses
    BY <1>1, <1>6
  <2>2. \/ lensState' = lensState
        \/ Satisfied(l, passes[l] \cup {i}) /\ lensState' = [lensState EXCEPT ![l] = "passed"]
    BY <1>6
  <2>3. /\ DOMAIN lensState' = Lenses /\ lensState' = [m \in Lenses |-> lensState'[m]]
        /\ \A m \in Lenses \ {l} : lensState'[m] = lensState[m]
        /\ \/ lensState'[l] = lensState[l]
           \/ Satisfied(l, passes[l] \cup {i}) /\ lensState'[l] = "passed"
    BY <1>1, <2>2
  <2>4. Books(l)
    BY <2>1, <2>3 DEF Books
  <2>5. QED
    BY <2>1, <2>3, <2>4 DEF Followed
<1>7. QED
  BY <1>2, <1>3, <1>4, <1>5, <1>6 DEF Follow

LEMMA CleanupKeeps ==
  ASSUME NInv, NEW l \in Lenses, Cleanup(l)
  PROVE  NInv'
<1>1. /\ TypeOK /\ Domains /\ Functional /\ TypedLens(l) /\ ChainSound(l) /\ PoolSound
      /\ Started(l) /\ pc[l] \in {"cleaning", "unwinding"} /\ at[l] \in Members(l)
  BY LensFacts DEF Cleanup
<1>2. PICK i : i = at[l] /\ i \in Members(l)
  BY <1>1
<1>3. /\ UNCHANGED <<strict, main, aborts, poisoned, jobs, outcome>>
      /\ pc' = [m \in Lenses |->
                 IF m = l THEN IF pc[l] = "cleaning" THEN "idle" ELSE "thrown"
                 ELSE IF Released(l).slot[m] /\ ~slot[m] THEN "granted" ELSE pc[m]]
      /\ at' = IF pc[l] = "cleaning" THEN [at EXCEPT ![l] = @ + 1] ELSE at
      /\ cut' = [cut EXCEPT ![l] = FALSE] /\ quiet' = [quiet EXCEPT ![l] = FALSE]
      /\ answered' = [answered EXCEPT ![l] = FALSE] /\ session' = [session EXCEPT ![l] = "open"]
  BY DEF Cleanup, Forget
<1>4. /\ PoolIs(Released(l))
      /\ \A m \in Lenses \ {l} : pc'[m] = pc[m] \/ (pc[m] = "queued" /\ pc'[m] = "granted")
  BY CleanupPool
<1>5. Books(l) /\ Followed(l, i)
  <2>1. CASE pc[l] = "cleaning" /\ status[l][i] = "completed"
    <3>1. Follow(l)
      BY <1>2, <2>1 DEF Cleanup
    <3>2. QED
      BY <1>1, <1>2, <2>1, <3>1, FollowIs
  <2>2. CASE ~(pc[l] = "cleaning" /\ status[l][i] = "completed")
    <3>1. UNCHANGED <<source, passes, lensState>>
      BY <1>2, <2>2 DEF Cleanup
    <3>2. QED
      BY <1>1, <2>2, <3>1 DEF Books, Followed, Domains, Functional
  <2>3. QED
    BY <2>1, <2>2
<1>6. /\ DOMAIN pc' = Lenses /\ pc' = [m \in Lenses |-> pc'[m]]
      /\ pc'[l] = IF pc[l] = "cleaning" THEN "idle" ELSE "thrown"
  BY <1>3
<1>7. /\ DOMAIN at' = Lenses /\ \A m \in Lenses \ {l} : at'[m] = at[m]
      /\ at'[l] = IF pc[l] = "cleaning" THEN i + 1 ELSE i
  BY <1>1, <1>2, <1>3 DEF Domains
<1>8. /\ DOMAIN cut' = Lenses /\ cut' = [m \in Lenses |-> cut'[m]] /\ cut'[l] = FALSE
      /\ DOMAIN quiet' = Lenses /\ quiet' = [m \in Lenses |-> quiet'[m]] /\ quiet'[l] = FALSE
      /\ \A m \in Lenses \ {l} : cut'[m] = cut[m] /\ quiet'[m] = quiet[m]
  BY <1>1, <1>3 DEF Domains, Functional
<1>9. /\ DOMAIN answered' = Lenses /\ answered' = [m \in Lenses |-> answered'[m]]
      /\ answered'[l] = FALSE
      /\ DOMAIN session' = Lenses /\ session' = [m \in Lenses |-> session'[m]]
      /\ session'[l] = "open"
      /\ \A m \in Lenses \ {l} : answered'[m] = answered[m] /\ session'[m] = session[m]
  BY <1>1, <1>3 DEF Domains, Functional
<1>10. Behind(l, i)
  BY <1>1, <1>3, <1>6, <1>7 DEF Behind
<1>11. lensState'[l] \in {lensState[l], "passed", "findings"}
  BY <1>5 DEF Followed
<1>12. ChainSound(l)'
  <2>1. Walked(l)'
    BY <1>1, <1>2, <1>10, <1>11, CleanupWalks
  <2>2. ResultsSound(l)' /\ VerdictSound(l)'
    BY <1>1, <1>2, <1>5, <1>10, CleanupDecides
  <2>3. SessionSound(l)'
    BY <1>8, <1>9 DEF SessionSound
  <2>4. QED
    BY <2>1, <2>2, <2>3 DEF ChainSound
<1>13. Moved(l)
  <2>1. /\ UNCHANGED <<strict, main, cancelled, halted, outcome>> /\ poisoned' \in BOOLEAN
        /\ pc[l] # "done" /\ Started(l) /\ Started(l)'
    BY <1>1, <1>3, <1>11 DEF aborts, Started, TypeOK
  <2>2. Domains' /\ Functional'
    BY <1>1, <1>3, <1>5, <1>6, <1>7, <1>8, <1>9 DEF Domains, Functional, Books, jobs
  <2>3. /\ at'[l] \in 1..End(l) /\ source'[l] \in 0..Count[l] /\ passes'[l] \subseteq Members(l)
    <3>1. at'[l] \in 1..End(l)
      BY <1>1, <1>2, <1>7, MembersAre
    <3>2. source'[l] \in {source[l], i} /\ passes'[l] \in {passes[l], passes[l] \cup {i}}
      BY <1>5 DEF Followed
    <3>3. QED
      BY <1>1, <1>2, <3>1, <3>2, MembersAre DEF TypedLens
  <2>4. TypedLens(l)'
    BY <1>1, <1>3, <1>6, <1>8, <1>9, <1>11, <2>3
    DEF TypedLens, jobs, Members, End, Phases, States
  <2>5. ASSUME NEW m \in Lenses \ {l} PROVE Same(m)
    BY <1>3, <1>4, <1>5, <1>7, <1>8, <1>9 DEF Same, Resting, Books, jobs
  <2>6. QED
    BY <2>1, <2>2, <2>4, <2>5 DEF Moved
<1>14. QED
  BY <1>4, <1>12, <1>13, MovedKeeps


-----------------------------------------------------------------------------
(* The steps of the run.                                                   *)

\* The invariant behind a step that concerns no chain or all of them.
LEMMA AllKeep ==
  ASSUME NEW p, PoolIs(p), Domains', Functional',
         \A l \in Lenses : TypedLens(l)' /\ ChainSound(l)', EndSound',
         strict' \in BOOLEAN, cancelled' \in BOOLEAN, halted' \in BOOLEAN, poisoned' \in BOOLEAN,
         main' \in {"starting", "reviewing", "finished", "failed"},
         outcome' \in {"open", "cancelled", "inconclusive", "gate_findings", "clear"}
  PROVE  NInv'
<1>1. TypedSlots' /\ PoolSound'
  BY PoolMoves
<1>2. TypeOK'
  BY <1>1 DEF TypeOK, TypedSlots, TypedLens, Functional, States
<1>3. Shapes'
  BY DEF Shapes, TypedLens, Domains, Members
<1>4. QED
  BY <1>1, <1>2, <1>3 DEF NInv

\* Every chain is as it was.
StandingStill == UNCHANGED <<strict, exec, jobs, chain, pc>>

LEMMA StandingStillKeeps ==
  ASSUME NInv, StandingStill
  PROVE  /\ Domains' /\ Functional' /\ \A l \in Lenses : TypedLens(l)' /\ ChainSound(l)'
         /\ strict' \in BOOLEAN
<1>1. /\ TypeOK /\ Domains /\ Functional /\ \A l \in Lenses : TypedLens(l) /\ ChainSound(l)
  BY TypesOfLens DEF NInv
<1>2. \A l \in Lenses : Same(l)
  BY DEF StandingStill, Same, Resting, exec, jobs, chain
<1>3. strict' = strict /\ strict \in BOOLEAN
  BY <1>1 DEF StandingStill, TypeOK
<1>4. \A l \in Lenses : TypedLens(l)' /\ ChainSound(l)'
  BY <1>1, <1>2, <1>3, SameKeeps
<1>5. Domains' /\ Functional'
  BY <1>1 DEF StandingStill, exec, jobs, chain, Domains, Functional
<1>6. QED
  BY <1>3, <1>4, <1>5

\* An abort empties the queue.
LEMMA AbortKeeps ==
  ASSUME NInv, Abort, Aborted', cancelled' \in BOOLEAN, halted' \in BOOLEAN, poisoned' \in BOOLEAN,
         \/ UNCHANGED main
         \/ main = "reviewing" /\ main' = "failed"
  PROVE  NInv'
<1>1. TypeOK /\ PoolSound /\ EndSound
  BY DEF NInv
<1>2. StandingStill
  BY DEF Abort, StandingStill
<1>3. PICK p : p = Pool
  OBVIOUS
<1>4. /\ TypedPool(p) /\ Booked(p) /\ p.waiting = waiting /\ p.active = active
      /\ p.groups = activeGroups /\ p.slot = slot
      /\ \A m \in Lenses : slot[m] =>
           pc[m] \in {"granted", "reviewing", "settling", "cleaning", "unwinding"}
  BY <1>1, <1>3, PoolFacts
<1>5. PICK n, groups, slots : n = active /\ groups = activeGroups /\ slots = slot
  OBVIOUS
<1>6. PICK q : q = [waiting |-> <<>>, active |-> n, groups |-> groups, slot |-> slots]
  OBVIOUS
<1>7. /\ q.waiting = <<>> /\ q.active = p.active /\ q.groups = p.groups /\ q.slot = p.slot
      /\ TypedPool(q) /\ ToSet(q.waiting) = {} /\ DOMAIN q.waiting = {}
  <2>1. <<>> \in Seq(Lenses) /\ n \in Nat /\ groups \in [Groups -> Nat]
        /\ slots \in [Lenses -> BOOLEAN] /\ DOMAIN <<>> = {}
    BY <1>1, <1>5 DEF TypeOK
  <2>2. QED
    BY <1>4, <1>5, <1>6, <2>1 DEF TypedPool, ToSet
<1>8. Booked(q)
  <2>1. Holding(q) = Holding(p) /\ \A g : Sharing(q, g) = Sharing(p, g)
    BY <1>7 DEF Holding, Sharing
  <2>2. QED
    BY <1>4, <1>7, <2>1 DEF Booked
<1>9. PoolIs(q)
  <2>1. at' = at /\ pc' = pc /\ active' = active /\ activeGroups' = activeGroups /\ slot' = slot
        /\ waiting' = <<>>
    BY DEF Abort, chain
  <2>2. \A m \in Lenses : Cut(m)'
    BY DEF Cut
  <2>3. QED
    BY <1>4, <1>7, <1>8, <2>1, <2>2 DEF PoolIs
<1>10. EndSound'
  <2>1. lensState' = lensState /\ pc' = pc /\ finding' = finding /\ outcome' = outcome
    BY DEF Abort, chain, jobs
  <2>2. main' = main \/ outcome = "open"
    BY <1>1 DEF EndSound
  <2>3. QED
    BY <1>1, <2>1, <2>2 DEF EndSound, Started, Gating, Members
<1>11. outcome' = outcome /\ main' \in {"starting", "reviewing", "finished", "failed"}
  BY <1>1 DEF Abort, TypeOK
<1>12. QED
  BY <1>1, <1>2, <1>9, <1>10, <1>11, StandingStillKeeps, AllKeep DEF TypeOK

LEMMA AbortsKeep ==
  ASSUME NInv, Cancel \/ RunDeadline \/ EventRefused \/ Fails
  PROVE  NInv'
<1>1. TypeOK
  BY DEF NInv
<1>2. CASE Cancel
  BY <1>1, <1>2, AbortKeeps DEF Cancel, Aborted, TypeOK
<1>3. CASE RunDeadline
  BY <1>1, <1>3, AbortKeeps DEF RunDeadline, Aborted, TypeOK
<1>4. CASE EventRefused
  BY <1>1, <1>4, AbortKeeps DEF EventRefused, Aborted, TypeOK
<1>5. CASE Fails
  BY <1>1, <1>5, AbortKeeps DEF Fails, Aborted, TypeOK, aborts
<1>6. QED
  BY <1>2, <1>3, <1>4, <1>5


\* The pool of a run none of whose reviewers waits or holds a slot.
LEMMA PoolAtRest ==
  ASSUME NInv, UNCHANGED <<pool, pc, at>>, \A l \in Lenses : pc[l] \in {"idle", "done"}
  PROVE  PoolIs(Pool)
<1>1. TypeOK /\ PoolSound
  BY DEF NInv
<1>2. PICK p : p = Pool
  OBVIOUS
<1>3. /\ TypedPool(p) /\ Booked(p) /\ p.waiting = waiting /\ p.active = active
      /\ p.groups = activeGroups /\ p.slot = slot
      /\ ToSet(waiting) = {m \in Lenses : pc[m] = "queued" /\ ~Cut(m)}
      /\ \A m \in Lenses : slot[m] =>
           pc[m] \in {"granted", "reviewing", "settling", "cleaning", "unwinding"}
  BY <1>1, <1>2, PoolFacts
<1>4. ToSet(waiting) = {} /\ \A m \in Lenses : ~slot[m] /\ pc'[m] # "queued"
  BY <1>3
<1>5. PoolIs(p)
  BY <1>3, <1>4 DEF PoolIs, pool
<1>6. QED
  BY <1>2, <1>5

LEMMA StartKeeps ==
  ASSUME NInv, Start
  PROVE  NInv'
<1>1. /\ TypeOK /\ PoolSound /\ EndSound /\ Domains /\ Functional
      /\ \A l \in Lenses : TypedLens(l) /\ ChainSound(l)
      /\ main = "starting" /\ outcome = "open"
  BY TypesOfLens DEF NInv, Start, EndSound
<1>2. \A l \in Lenses : ~Started(l) /\ pc[l] = "idle" /\ lensState[l] = "none"
  BY <1>1 DEF EndSound, ChainSound, Walked, Started
<1>3. /\ UNCHANGED <<strict, aborts, pool, exec, jobs, at, source, passes, pc, outcome>>
      /\ \/ main' = "failed" /\ poisoned' = TRUE /\ UNCHANGED lensState
         \/ /\ main' = "reviewing" /\ UNCHANGED poisoned
            /\ lensState' \in [Lenses -> {"incomplete", "not_evaluated", "not_applicable"}]
  BY DEF Start
<1>4. PoolIs(Pool)
  <2>1. UNCHANGED <<pool, pc, at>>
    BY <1>3
  <2>2. QED
    BY <1>2, <2>1, PoolAtRest
<1>5. /\ DOMAIN lensState' = Lenses /\ lensState' = [m \in Lenses |-> lensState'[m]]
      /\ \A l \in Lenses : lensState'[l] \in {"none", "incomplete", "not_evaluated", "not_applicable"}
  BY <1>1, <1>2, <1>3 DEF Domains, Functional
<1>6. Domains' /\ Functional'
  BY <1>1, <1>3, <1>5 DEF Domains, Functional, exec, jobs
<1>7. ASSUME NEW l \in Lenses PROVE TypedLens(l)' /\ ChainSound(l)'
  <2>1. /\ Members(l)' = Members(l) /\ End(l)' = End(l) /\ at' = at /\ source' = source
        /\ passes' = passes /\ status' = status /\ result' = result /\ finding' = finding
        /\ terminals' = terminals /\ session' = session /\ cut' = cut /\ quiet' = quiet
        /\ answered' = answered /\ pc' = pc
    BY <1>3 DEF Members, End, jobs, exec
  <2>2. TypedLens(l) /\ ChainSound(l) /\ pc'[l] = "idle"
    BY <1>1, <1>2, <2>1
  <2>3. TypedLens(l)'
    BY <1>5, <2>1, <2>2 DEF TypedLens, States, Phases
  <2>4. Walked(l)'
    BY <2>1, <2>2 DEF ChainSound, Walked
  <2>5. Completed(l)' = Completed(l)
    BY <2>1 DEF Completed
  <2>6. Passed(l)' = Passed(l)
    BY <2>1, <2>5 DEF Passed
  <2>7. VerdictSound(l)'
    BY <1>5, <2>1, <2>2, <2>6 DEF ChainSound, VerdictSound
  <2>8. ResultsSound(l)' /\ SessionSound(l)'
    BY <2>1, <2>2, <2>5 DEF ChainSound, ResultsSound, SessionSound
  <2>9. QED
    BY <2>3, <2>4, <2>7, <2>8 DEF ChainSound
<1>8. EndSound'
  BY <1>1, <1>3 DEF EndSound
<1>9. /\ strict' \in BOOLEAN /\ cancelled' \in BOOLEAN /\ halted' \in BOOLEAN
      /\ poisoned' \in BOOLEAN /\ main' \in {"starting", "reviewing", "finished", "failed"}
      /\ outcome' \in {"open", "cancelled", "inconclusive", "gate_findings", "clear"}
  BY <1>1, <1>3 DEF TypeOK, aborts
<1>10. QED
  BY <1>4, <1>6, <1>7, <1>8, <1>9, AllKeep

LEMMA SummariseKeeps ==
  ASSUME NInv, NEW marred \in BOOLEAN, NEW late \in BOOLEAN, Summarise(marred, late)
  PROVE  NInv'
<1>1. TypeOK /\ EndSound /\ main = "reviewing" /\ \A l \in Lenses : pc[l] = "done"
  BY DEF NInv, Summarise
<1>2. outcome = "open"
  BY <1>1 DEF EndSound
<1>3. StandingStill /\ UNCHANGED <<pool, pc, at, aborts, poisoned>>
  BY DEF Summarise, StandingStill, chain
<1>4. PoolIs(Pool)
  BY <1>1, <1>3, PoolAtRest
<1>5. PICK partial \in BOOLEAN :
        partial = (\/ marred
                   \/ \E l \in Lenses : lensState[l] \in {"incomplete", "not_evaluated"})
  OBVIOUS
<1>6. \/ main' = "failed" /\ UNCHANGED outcome
      \/ /\ main' = "finished"
         /\ outcome' = IF cancelled \/ (halted /\ late) THEN "cancelled"
                       ELSE IF partial THEN "inconclusive"
                       ELSE IF Gating THEN "gate_findings" ELSE "clear"
  BY <1>5 DEF Summarise
<1>7. EndSound'
  <2>1. lensState' = lensState /\ pc' = pc /\ finding' = finding
    BY <1>3 DEF StandingStill, chain, jobs
  <2>2. Gating' = Gating
    BY <2>1 DEF Gating, Members
  <2>3. CASE main' = "failed" /\ UNCHANGED outcome
    BY <1>2, <2>3 DEF EndSound
  <2>4. CASE /\ main' = "finished"
             /\ outcome' = IF cancelled \/ (halted /\ late) THEN "cancelled"
                           ELSE IF partial THEN "inconclusive"
                           ELSE IF Gating THEN "gate_findings" ELSE "clear"
    <3>1. outcome' \in {"clear", "gate_findings"} => ~partial
      BY <2>4
    <3>2. outcome' = "clear" => ~Gating
      BY <2>4
    <3>3. QED
      BY <1>1, <1>5, <2>1, <2>2, <2>4, <3>1, <3>2 DEF EndSound
  <2>5. QED
    BY <1>6, <2>3, <2>4
<1>8. /\ cancelled' \in BOOLEAN /\ halted' \in BOOLEAN
      /\ poisoned' \in BOOLEAN /\ main' \in {"starting", "reviewing", "finished", "failed"}
      /\ outcome' \in {"open", "cancelled", "inconclusive", "gate_findings", "clear"}
  BY <1>1, <1>3, <1>6 DEF TypeOK, aborts
<1>9. QED
  BY <1>3, <1>4, <1>7, <1>8, StandingStillKeeps, AllKeep

-----------------------------------------------------------------------------
(* The invariant.                                                          *)

LEMMA InitialState ==
  ASSUME Init
  PROVE  NInv
<1>1. \A l \in Lenses : Members(l) \subseteq Nat /\ 1 \in 1..End(l) /\ 0 \in 0..Count[l]
  BY MembersAre
<1>2. Domains /\ Functional /\ \A l \in Lenses : TypedLens(l)
  <2>1. Domains /\ Functional
    BY DEF Init, Domains, Functional
  <2>2. ASSUME NEW l \in Lenses PROVE TypedLens(l)
    <3>1. /\ pc[l] = "idle" /\ lensState[l] = "none" /\ cut[l] = FALSE /\ quiet[l] = FALSE
          /\ answered[l] = FALSE /\ session[l] = "open" /\ at[l] = 1 /\ source[l] = 0
          /\ passes[l] = {} /\ terminals[l] = [i \in Members(l) |-> 0]
          /\ status[l] = [i \in Members(l) |-> "queued"]
          /\ result[l] = [i \in Members(l) |-> "none"]
          /\ finding[l] = [i \in Members(l) |-> "none"]
      BY DEF Init
    <3>2. QED
      <4>1. /\ terminals[l] \in [Members(l) -> Nat] /\ status[l] \in [Members(l) -> Marks]
            /\ result[l] \in [Members(l) -> Results] /\ finding[l] \in [Members(l) -> Weights]
        BY <3>1 DEF Marks, Results, Weights
      <4>2. QED
        BY <1>1, <3>1, <4>1 DEF TypedLens, Phases, States
  <2>3. QED
    BY <2>1, <2>2
<1>3. TypeOK
  <2>1. <<>> \in Seq(Lenses)
    OBVIOUS
  <2>2. QED
    BY <1>2, <2>1 DEF Init, TypeOK, TypedLens, Functional, States
<1>4. Shapes
  BY <1>2 DEF Shapes, Domains, TypedLens
<1>5. PoolSound
  <2>1. PICK p : p = Pool
    OBVIOUS
  <2>2. /\ p.waiting = <<>> /\ p.active = 0 /\ p.groups = [g \in Groups |-> 0]
        /\ p.slot = [l \in Lenses |-> FALSE] /\ waiting = <<>>
    BY <2>1 DEF Init, Pool
  <2>3. ToSet(<<>>) = {} /\ DOMAIN <<>> = {}
    BY DEF ToSet
  <2>4. Holding(p) = {} /\ Holders = {}
    BY <2>2 DEF Holding, Holders, Init
  <2>5. \A g : Sharing(p, g) = {}
    BY <2>4 DEF Sharing
  <2>6. IsFiniteSet({}) /\ Cardinality({}) = 0
    BY FS_EmptySet
  <2>7. MaxConcurrency \in Nat /\ \A g \in Groups : ProviderLimit[g] \in Nat
    BY NativeLimitAssumption, NativeGroupsAssumption
  <2>8. Booked(p)
    <3>1. p.active = Cardinality(Holding(p)) /\ p.active <= MaxConcurrency
          /\ IsFiniteSet(Holding(p))
      BY <2>2, <2>4, <2>6, <2>7
    <3>2. ASSUME NEW g \in Groups
          PROVE  p.groups[g] = Cardinality(Sharing(p, g)) /\ p.groups[g] <= ProviderLimit[g]
      <4>1. p.groups[g] = 0
        BY <2>2
      <4>2. ProviderLimit[g] \in Nat /\ Cardinality(Sharing(p, g)) = 0
        BY <2>5, <2>6, <2>7
      <4>3. QED
        BY <4>1, <4>2
    <3>3. DOMAIN p.waiting = {} /\ ToSet(p.waiting) = {}
      BY <2>2, <2>3
    <3>4. QED
      BY <2>4, <3>1, <3>2, <3>3 DEF Booked
  <2>9. \A l \in Lenses : pc[l] # "queued"
    BY DEF Init
  <2>10. QED
    BY <2>1, <2>2, <2>3, <2>4, <2>8, <2>9 DEF PoolSound
<1>6. ASSUME NEW l \in Lenses PROVE ChainSound(l)
  <2>1. /\ pc[l] = "idle" /\ at[l] = 1 /\ source[l] = 0 /\ passes[l] = {} /\ lensState[l] = "none"
        /\ session[l] = "open" /\ ~cut[l]
        /\ \A i \in Members(l) :
             status[l][i] = "queued" /\ terminals[l][i] = 0 /\ finding[l][i] = "none"
    BY DEF Init
  <2>2. \A i \in Members(l) : ~(i < 1)
    BY MembersAre
  <2>3. Completed(l) = {} /\ Passed(l) = {}
    BY <2>1 DEF Completed, Passed
  <2>4. Walked(l)
    BY <2>1, <2>2 DEF Walked
  <2>5. QED
    BY <2>1, <2>3, <2>4 DEF ChainSound, SessionSound, ResultsSound, VerdictSound
<1>7. EndSound
  BY DEF Init, EndSound, Started
<1>8. QED
  BY <1>3, <1>4, <1>5, <1>6, <1>7 DEF NInv

LEMMA NextKeeps ==
  ASSUME NInv, [Next]_vars
  PROVE  NInv'
<1>1. CASE UNCHANGED vars
  <2>1. TypeOK' /\ Shapes' /\ EndSound'
    BY <1>1 DEF vars, aborts, pool, exec, jobs, chain, NInv, TypeOK, Shapes, EndSound,
         Members, End, Started, Gating
  <2>2. \A l \in Lenses : ChainSound(l)'
    BY <1>1, StandingStillKeeps DEF vars, StandingStill
  <2>3. PoolSound'
    <3>1. Pool' = Pool /\ at' = at /\ waiting' = waiting /\ pc' = pc /\ slot' = slot
          /\ cut' = cut /\ Aborted' = Aborted
      BY <1>1 DEF vars, pool, aborts, exec, chain, Pool, Aborted
    <3>2. Holding(Pool)' = Holding(Pool) /\ Holders' = Holders
      BY <3>1 DEF Holding, Holders
    <3>3. \A g : Sharing(Pool, g)' = Sharing(Pool, g)
      BY <3>1, <3>2 DEF Sharing, Group
    <3>4. Booked(Pool)' = Booked(Pool)
      BY <3>1, <3>2, <3>3 DEF Booked, Members, Groups
    <3>5. \A l \in Lenses : Cut(l)' = Cut(l) /\ Free(Pool, l)' = Free(Pool, l)
      BY <3>1 DEF Cut, Free, Group
    <3>6. ToSet(waiting) \subseteq Lenses
      BY DEF NInv, PoolSound
    <3>7. QED
      BY <3>1, <3>2, <3>4, <3>5, <3>6 DEF NInv, PoolSound
  <2>4. QED
    BY <2>1, <2>2, <2>3 DEF NInv
<1>2. CASE Next
  <2>1. ASSUME NEW l \in Lenses, Proceed(l) PROVE NInv'
    <3>1. CASE Skip(l) \/ Execute(l) \/ Abandon(l) \/ TimeOut(l)
      BY <3>1, SkipKeeps, ExecuteKeeps, AbandonKeeps, TimeOutKeeps
    <3>2. CASE Cut(l) /\ SessionEnds(l, "broken")
      BY <3>2, SessionEndsKeeps
    <3>3. CASE \E verdict \in Verdicts(l), decision \in Decisions, whole \in BOOLEAN :
                 Settle(l, verdict, decision, whole)
      BY <3>3, SettleKeeps
    <3>4. CASE Cleanup(l) \/ ChainEnds(l)
      BY <3>4, CleanupKeeps, ChainEndsKeeps
    <3>5. QED
      BY <2>1, <3>1, <3>2, <3>3, <3>4 DEF Proceed
  <2>2. ASSUME NEW l \in Lenses, Adapter(l) PROVE NInv'
    <3>1. CASE \E available \in BOOLEAN : Probe(l, available)
      BY <3>1, ProbeKeeps
    <3>2. CASE Silence(l) \/ Activity(l) \/ Answer(l)
      BY <3>2, SessionStirsKeeps
    <3>3. CASE \E how \in {"clean", "broken"} : SessionEnds(l, how)
      BY <3>3, SessionEndsKeeps
    <3>4. QED
      BY <2>2, <3>1, <3>2, <3>3 DEF Adapter
  <2>3. CASE Cancel \/ RunDeadline \/ EventRefused \/ Fails
    BY <2>3, AbortsKeep
  <2>4. CASE Start
    BY <2>4, StartKeeps
  <2>5. CASE \E marred, late \in BOOLEAN : Summarise(marred, late)
    BY <2>5, SummariseKeeps
  <2>6. QED
    BY <1>2, <2>1, <2>2, <2>3, <2>4, <2>5 DEF Next
<1>3. QED
  BY <1>1, <1>2

\* The invariant holds throughout a native run.
THEOREM NativeInvariant == Spec => []NInv
<1>1. Init => NInv
  BY InitialState
<1>2. NInv /\ [Next]_vars => NInv'
  BY NextKeeps
<1>3. QED
  BY <1>1, <1>2, PTL DEF Spec


-----------------------------------------------------------------------------
(* What follows from it.                                                   *)

LEMMA SlotsAreAccounted ==
  ASSUME NInv
  PROVE  Accounted
<1>1. TypeOK /\ PoolSound /\ Booked(Pool)
  BY DEF NInv, PoolSound
<1>2. Holders = Holding(Pool)
  BY DEF Holders, Holding, Pool
<1>3. \A g : {l \in Holders : Group(l) = g} = Sharing(Pool, g)
  BY <1>2 DEF Sharing
<1>4. active = Cardinality(Holders) /\ active <= MaxConcurrency
  BY <1>1, <1>2 DEF Booked, Pool
<1>5. \A g \in Groups : /\ activeGroups[g] = Cardinality({l \in Holders : Group(l) = g})
                        /\ activeGroups[g] <= ProviderLimit[g]
  BY <1>1, <1>3 DEF Booked, Pool
<1>6. \A l \in Holders : pc[l] \in Phases \ {"idle", "queued", "done", "thrown"}
  BY <1>1 DEF PoolSound, Phases
<1>7. QED
  BY <1>1, <1>4, <1>5, <1>6 DEF Accounted, PoolSound

LEMMA EndIsEarned ==
  ASSUME NInv
  PROVE  VerdictIsEarned
<1> SUFFICES ASSUME main = "finished"
             PROVE  /\ \A l \in Lenses : \A i \in Members(l) :
                         /\ terminals[l][i] = 1
                         /\ status[l][i] \in {"completed", "incomplete", "skipped"}
                    /\ outcome \in {"clear", "gate_findings"} => \A l \in Lenses : Earned(l)
                    /\ outcome = "clear" => ~Gating
  BY DEF VerdictIsEarned
<1>1. TypeOK /\ EndSound /\ \A l \in Lenses : ChainSound(l) /\ pc[l] = "done"
  BY DEF NInv, EndSound
<1>2. ASSUME NEW l \in Lenses, NEW i \in Members(l)
      PROVE  i < at[l] /\ terminals[l][i] = 1 /\ status[l][i] \in {"completed", "incomplete", "skipped"}
  BY <1>1, MembersAre DEF ChainSound, Walked, Ended
<1>3. ASSUME NEW l \in Lenses, outcome \in {"clear", "gate_findings"} PROVE Earned(l)
  <2>1. lensState[l] \in {"passed", "findings", "not_applicable"}
    BY <1>1, <1>3 DEF EndSound, TypeOK, ChainSound, Walked, Started
  <2>2. CASE lensState[l] = "not_applicable"
    BY <2>2 DEF Earned
  <2>3. CASE lensState[l] \in {"passed", "findings"}
    <3>1. Reason(l) /\ (strict => Completed(l) = Members(l))
      BY <1>1, <2>3 DEF ChainSound, VerdictSound
    <3>2. Passed(l) = {i \in Completed(l) : result[l][i] = "pass4"}
      BY <1>2 DEF Passed, Completed
    <3>3. QED
      BY <3>1, <3>2 DEF Reason, Earned
  <2>4. QED
    BY <2>1, <2>2, <2>3
<1>4. QED
  BY <1>1, <1>2, <1>3 DEF EndSound

\* A run accounts for every slot while it goes on and for every reviewer at its end,
\* and exit codes 0 and 1 are those of runs whose every lens has earned its state.
THEOREM RunStaysAccounted == Spec => []RunIsAccounted
<1>1. NInv => RunIsAccounted
  BY SlotsAreAccounted, EndIsEarned DEF RunIsAccounted
<1>2. QED
  BY <1>1, NativeInvariant, PTL

\* No step but a settlement changes a finding.
LEMMA OnlySettleFinds ==
  ASSUME [Next]_vars, finding' # finding
  PROVE  \E l \in Lenses : \E verdict \in Verdicts(l), decision \in Decisions, whole \in BOOLEAN :
           Settle(l, verdict, decision, whole)
<1>1. Next
  BY DEF vars, jobs
<1>2. CASE Cancel \/ RunDeadline \/ EventRefused \/ Fails
  BY <1>2 DEF Cancel, RunDeadline, EventRefused, Fails, Abort, jobs
<1>3. CASE Start \/ \E marred, late \in BOOLEAN : Summarise(marred, late)
  BY <1>3 DEF Start, Summarise, jobs
<1>4. ASSUME NEW l \in Lenses, Adapter(l) PROVE FALSE
  BY <1>4 DEF Adapter, Probe, Silence, Activity, Answer, SessionEnds, jobs
<1>5. ASSUME NEW l \in Lenses, Proceed(l)
      PROVE  \E verdict \in Verdicts(l), decision \in Decisions, whole \in BOOLEAN :
               Settle(l, verdict, decision, whole)
  BY <1>5 DEF Proceed, Skip, Execute, Abandon, TimeOut, SessionEnds, Cleanup, ChainEnds, jobs
<1>6. QED
  BY <1>1, <1>2, <1>3, <1>4, <1>5 DEF Next

LEMMA FindingsStay ==
  ASSUME NInv, [Next]_vars, strict, NEW l \in Lenses, NEW i \in Members(l),
         finding[l][i] = "strong"
  PROVE  finding'[l][i] = "strong"
<1>1. CASE finding' = finding
  BY <1>1
<1>2. CASE finding' # finding
  <2>1. PICK m \in Lenses : \E verdict \in Verdicts(m), decision \in Decisions, whole \in BOOLEAN :
                              Settle(m, verdict, decision, whole)
    BY <1>2, OnlySettleFinds
  <2>2. PICK verdict \in Verdicts(m), decision \in Decisions, whole \in BOOLEAN :
          Settle(m, verdict, decision, whole)
    BY <2>1
  <2>3. /\ FindingIs(m)
        /\ \A j \in Members(m) : finding[m][j] = "strong" => finding'[m][j] = "strong"
    BY <2>2, FoundIs DEF Settle
  <2>4. QED
    BY <2>3 DEF FindingIs
<1>3. QED
  BY <1>1, <1>2

\* What a step may do to the session of a lens.
LateStep(l) ==
  /\ pc[l] = "reviewing" /\ Cut(l) => session'[l] # "clean"
  /\ quiet[l] /\ pc'[l] = "reviewing" => quiet'[l] \/ cut'[l] \/ answered'[l]
  /\ Completed(l)' # Completed(l) => session[l] = "clean"

Untouched(l) == session'[l] = session[l] /\ quiet'[l] = quiet[l] /\ Completed(l)' = Completed(l)

LEMMA OthersAreUntouched ==
  ASSUME Domains, NEW l \in Lenses, NEW m \in Lenses \ {l}, Proceed(m) \/ Adapter(m)
  PROVE  Untouched(l)
<1>1. DOMAIN session = Lenses /\ DOMAIN quiet = Lenses /\ DOMAIN status = Lenses
  BY DEF Domains
<1>2. SUFFICES session'[l] = session[l] /\ quiet'[l] = quiet[l] /\ status'[l] = status[l]
  BY DEF Untouched, Completed, Members
<1>3. ASSUME NEW how, NEW next, NEW thrown, Terminate(m, how, next, thrown)
      PROVE  status'[l] = status[l]
  BY <1>1, <1>3 DEF Terminate
<1>4. CASE Skip(m) \/ Abandon(m) \/ \E available \in BOOLEAN : Probe(m, available)
  BY <1>1, <1>3, <1>4 DEF Skip, Abandon, Probe, Incomplete, exec
<1>5. CASE Execute(m) \/ TimeOut(m) \/ ChainEnds(m)
  BY <1>1, <1>5 DEF Execute, TimeOut, ChainEnds, exec, jobs
<1>6. CASE \E how \in {"clean", "broken"} : SessionEnds(m, how)
  BY <1>1, <1>3, <1>6 DEF SessionEnds, Incomplete
<1>7. CASE \E verdict \in Verdicts(m), decision \in Decisions, whole \in BOOLEAN :
             Settle(m, verdict, decision, whole)
  BY <1>3, <1>7 DEF Settle, exec
<1>8. CASE Cleanup(m)
  BY <1>1, <1>8 DEF Cleanup, Forget, jobs
<1>9. CASE Silence(m) \/ Activity(m) \/ Answer(m)
  BY <1>1, <1>9 DEF Silence, Activity, Answer, jobs
<1>10. QED
  BY <1>4, <1>5, <1>6, <1>7, <1>8, <1>9 DEF Proceed, Adapter


\* A reviewer that ends without completing is none that completed.
LEMMA EndingCompletesNobody ==
  ASSUME NInv, NEW l \in Lenses, at[l] \in Members(l),
         pc[l] \in {"idle", "queued", "granted", "reviewing", "settling"},
         NEW how \in {"incomplete", "skipped", "running"},
         status' = [status EXCEPT ![l][at[l]] = how]
  PROVE  Completed(l)' = Completed(l)
<1>1. Domains /\ TypedLens(l) /\ ChainSound(l)
  BY LensFacts
<1>2. how \in Marks /\ how # "completed"
  BY DEF Marks
<1>3. PICK i : i = at[l]
  OBVIOUS
<1>4. Put(status, status', l, i, how)
  BY <1>1, <1>2, <1>3, PutIs DEF Domains, TypedLens
<1>5. status[l][i] # "completed"
  BY <1>1, <1>3 DEF ChainSound, Walked
<1>6. QED
  BY <1>2, <1>3, <1>4, <1>5 DEF Put, Completed, Members

LEMMA LateKept ==
  ASSUME NInv, [Next]_vars, NEW l \in Lenses
  PROVE  LateStep(l)
<1>1. /\ Domains /\ TypedLens(l) /\ ChainSound(l)
      /\ pc[l] \notin {"idle", "done"} => at[l] \in Members(l)
      /\ pc[l] = "reviewing" => session[l] = "open"
  BY LensFacts DEF ChainSound, SessionSound
<1>2. ASSUME Untouched(l) PROVE LateStep(l)
  BY <1>1, <1>2 DEF Untouched, LateStep
<1>3. CASE UNCHANGED vars
  BY <1>2, <1>3 DEF vars, exec, jobs, Untouched, Completed, Members
<1>4. CASE Cancel \/ RunDeadline \/ EventRefused \/ Fails
  <2>1. UNCHANGED <<exec, jobs>>
    BY <1>4 DEF Cancel, RunDeadline, EventRefused, Fails, Abort
  <2>2. QED
    BY <1>2, <2>1 DEF exec, jobs, Untouched, Completed, Members
<1>5. CASE Start \/ \E marred, late \in BOOLEAN : Summarise(marred, late)
  <2>1. UNCHANGED <<exec, jobs>>
    BY <1>5 DEF Start, Summarise
  <2>2. QED
    BY <1>2, <2>1 DEF exec, jobs, Untouched, Completed, Members
<1>6. ASSUME NEW m \in Lenses \ {l}, Proceed(m) \/ Adapter(m) PROVE LateStep(l)
  BY <1>1, <1>2, <1>6, OthersAreUntouched
<1>7. CASE Skip(l) \/ Abandon(l) \/ \E available \in BOOLEAN : Probe(l, available)
  <2>1. /\ session' = session /\ quiet' = quiet
        /\ at[l] \in Members(l) /\ pc[l] \in {"idle", "queued", "granted", "reviewing", "settling"}
    BY <1>1, <1>7 DEF Skip, Abandon, Probe, exec
  <2>2. \E how \in {"incomplete", "skipped", "running"} : status' = [status EXCEPT ![l][at[l]] = how]
    BY <1>7 DEF Skip, Abandon, Probe, Incomplete, Terminate
  <2>3. Completed(l)' = Completed(l)
    BY <2>1, <2>2, EndingCompletesNobody
  <2>4. QED
    BY <1>2, <2>1, <2>3 DEF Untouched
<1>8. CASE Execute(l) \/ ChainEnds(l)
  BY <1>2, <1>8 DEF Execute, ChainEnds, exec, jobs, Untouched, Completed, Members
<1>9. CASE TimeOut(l) \/ Activity(l) \/ Silence(l) \/ Answer(l)
  <2>1. session' = session /\ Completed(l)' = Completed(l)
    BY <1>9 DEF TimeOut, Activity, Silence, Answer, jobs, Completed, Members
  <2>2. DOMAIN cut = Lenses /\ DOMAIN quiet = Lenses /\ DOMAIN answered = Lenses
    BY <1>1 DEF Domains
  <2>3. quiet'[l] \/ cut'[l] \/ answered'[l]
    <3>1. CASE TimeOut(l) \/ Activity(l)
      <4>1. cut' = [cut EXCEPT ![l] = TRUE]
        BY <3>1 DEF TimeOut, Activity
      <4>2. QED
        BY <2>2, <4>1
    <3>2. CASE Silence(l)
      BY <2>2, <3>2 DEF Silence
    <3>3. CASE Answer(l)
      BY <2>2, <3>3 DEF Answer
    <3>4. QED
      BY <1>9, <3>1, <3>2, <3>3
  <2>4. QED
    BY <1>1, <2>1, <2>3 DEF LateStep
<1>10. CASE \E how \in {"clean", "broken"} : SessionEnds(l, how)
  <2>1. PICK how \in {"clean", "broken"} : SessionEnds(l, how)
    BY <1>10
  <2>2. /\ pc[l] = "reviewing" /\ quiet' = quiet /\ (Cut(l) => how = "broken")
        /\ DOMAIN session = Lenses
    BY <1>1, <2>1 DEF SessionEnds, Domains
  <2>3. session'[l] = session[l] \/ session'[l] = how
    BY <2>1, <2>2 DEF SessionEnds
  <2>4. Completed(l)' = Completed(l)
    <3>1. CASE status' = status
      BY <3>1 DEF Completed, Members
    <3>2. CASE status' = [status EXCEPT ![l][at[l]] = "incomplete"]
      BY <1>1, <2>2, <3>2, EndingCompletesNobody
    <3>3. QED
      BY <2>1, <3>1, <3>2 DEF SessionEnds, Incomplete, Terminate
  <2>5. QED
    BY <1>1, <2>2, <2>3, <2>4 DEF LateStep
<1>11. CASE \E verdict \in Verdicts(l), decision \in Decisions, whole \in BOOLEAN :
              Settle(l, verdict, decision, whole)
  <2>1. pc[l] = "settling" /\ quiet' = quiet
    BY <1>11 DEF Settle, exec
  <2>2. session[l] # "clean" => Completed(l)' = Completed(l)
    <3>1. SUFFICES ASSUME session[l] # "clean"
                   PROVE  Completed(l)' = Completed(l)
      OBVIOUS
    <3>2. status' = [status EXCEPT ![l][at[l]] = "incomplete"]
      BY <1>11, <3>1 DEF Settle, Terminate
    <3>3. QED
      BY <1>1, <2>1, <3>2, EndingCompletesNobody
  <2>3. QED
    BY <2>1, <2>2 DEF LateStep
<1>12. CASE Cleanup(l)
  <2>1. /\ pc[l] # "reviewing" /\ pc'[l] # "reviewing" /\ Completed(l)' = Completed(l)
    BY <1>12 DEF Cleanup, jobs, Completed, Members
  <2>2. QED
    BY <2>1 DEF LateStep
<1>13. ASSUME Proceed(l) \/ Adapter(l) PROVE LateStep(l)
  BY <1>7, <1>8, <1>9, <1>10, <1>11, <1>12, <1>13 DEF Proceed, Adapter
<1>14. QED
  BY <1>3, <1>4, <1>5, <1>6, <1>13 DEF Next

\* Neither a later reviewer nor a late event changes what has been decided: a finding
\* that gates a strict run goes on to, and no reviewer whose session was cut off while
\* it was open completes.
THEOREM DecisionsStand == Spec => DecidedStays
<1>1. NInv /\ [Next]_vars =>
        [strict => \A l \in Lenses : \A i \in Members(l) :
           finding[l][i] = "strong" => finding'[l][i] = "strong"]_vars
  BY FindingsStay
<1>2. NInv /\ [Next]_vars =>
        [\A l \in Lenses :
           /\ pc[l] = "reviewing" /\ Cut(l) => session'[l] # "clean"
           /\ quiet[l] /\ pc'[l] = "reviewing" => quiet'[l] \/ cut'[l] \/ answered'[l]
           /\ Completed(l)' # Completed(l) => session[l] = "clean"]_vars
  BY LateKept DEF LateStep
<1>3. QED
  BY <1>1, <1>2, NativeInvariant, PTL DEF Spec, DecidedStays, AcceptedStays, LateIsFinal

=============================================================================
