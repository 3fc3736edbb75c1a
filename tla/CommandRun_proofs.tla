------------------------- MODULE CommandRun_proofs -------------------------
(***************************************************************************)
(* Proofs about a command-adapter run: about LensChain, for every policy   *)
(* of quorum and adjudication and chains of any length; and about          *)
(* EventDelivery, for every set of chains and any number of events and     *)
(* heartbeats.                                                             *)
(***************************************************************************)
EXTENDS LensChain, EventDelivery, FiniteSetTheorems, FunctionTheorems, SequenceTheorems,
        WellFoundedInduction, TLAPS

Over == {"completed", "incomplete", "skipped"}
Decided == {"passed", "findings", "not_evaluated", "not_applicable"}
Marks == {"queued", "running", "completed", "incomplete", "skipped"}

\* The variables of the lenses are functions on the lenses.
Shapes ==
  /\ DOMAIN inherited = Lenses /\ DOMAIN status = Lenses /\ DOMAIN result = Lenses
  /\ DOMAIN at = Lenses /\ DOMAIN source = Lenses /\ DOMAIN passes = Lenses

\* The chain has walked to its position: before it every reviewer has ended, behind
\* it nobody has begun, and what is inherited is complete.
Walked(l) ==
  \A i \in Members(l) :
    /\ i \in inherited[l] => status[l][i] = "completed"
    /\ i < at[l] => status[l][i] \in Over
    /\ i = at[l] => i \notin inherited[l] /\ status[l][i] \in {"queued", "running"}
    /\ i > at[l] /\ i \notin inherited[l] => status[l][i] = "queued"

\* A lens has a state when its chain has begun, and is decided at its end only.
Staged(l) ==
  /\ lensState[l] = "none" <=> at[l] = 0
  /\ lensState[l] \in Decided => at[l] = End(l)
  /\ lensState[l] \in {"incomplete", "passed", "findings"} => kind[l] = "evaluated"
  /\ lensState[l] = "not_applicable" => kind[l] = "irrelevant"

\* An adjudication adjudicates a finding that has been recorded.
Adjudges(l) ==
  /\ Completed(l, "pass2") \cup Completed(l, "fail2") # {} =>
       Adjudicated[l] /\ Completed(l, "fail4") # {}
  /\ source[l] # 0 => Adjudicated[l] /\ source[l] \in Completed(l, "fail4")

\* What is known of an undecided lens: its quorum is not there and no finding
\* stands; and what its state says of a decided one.
Judged(l) ==
  /\ lensState[l] = "incomplete" =>
       /\ Completed(l, "fail2") = {}
       /\ source[l] = 0 => /\ Completed(l, "fail4") = {}
                           /\ passes[l] = Completed(l, "pass4")
                           /\ ~Satisfied(l, passes[l])
  /\ lensState[l] = "passed" => Earned(l)
  /\ lensState[l] = "findings" => FindingStands(l)

Rest(l, k) == {j \in Members(l) \ inherited[l] : j >= k}

\* What was announced unreachable cannot be reached by the reviewers that are left.
Unreached(l) ==
  l \in unreachable =>
    /\ at[l] # 0
    /\ lensState[l] = "passed" => Completed(l, "fail4") # {}
    /\ lensState[l] = "incomplete" /\ source[l] = 0 =>
         ~Satisfied(l, passes[l] \cup Rest(l, at[l]))

\* What the parent had decided.
Kept(l, r) == {i \in inherited[l] : result[l][i] = r}
KeptSound(l) ==
  at[l] # 0 /\ kind[l] = "evaluated" =>
    /\ Kept(l, "fail4") = {} /\ Quorum(l, Kept(l, "pass4")) => lensState[l] = "passed"
    /\ Kept(l, "fail2") # {} => lensState[l] = "findings"

LensSound(l) ==
  Walked(l) /\ Staged(l) /\ Adjudges(l) /\ Judged(l) /\ Unreached(l) /\ KeptSound(l)

\* The summary is made when every chain has ended.
SummarySound ==
  /\ outcome # Open => \A l \in Lenses : at[l] = End(l)
  /\ outcome.exit \in {"clear", "findings"} =>
       outcome # Open /\ \A l \in Lenses : lensState[l] \notin {"incomplete", "not_evaluated"}

LInv == TypeOK /\ Shapes /\ (\A l \in Lenses : LensSound(l)) /\ SummarySound

-----------------------------------------------------------------------------

(* Numbers, positions and quorums.                                         *)

\* A set of natural numbers has a least element.
LEMMA Least ==
  ASSUME NEW S \in SUBSET Nat, S # {}
  PROVE  \E n \in S : \A m \in S : n <= m
<1>1. PICK R : R = OpToRel(<, Nat)
  OBVIOUS
<1>2. IsWellFoundedOn(R, Nat)
  BY <1>1, NatLessThanWellFounded
<1>3. R = {ss \in Nat \X Nat : ss[1] < ss[2]}
  BY <1>1 DEF OpToRel
<1>4. PICK n \in S : \A m \in S : <<m, n>> \notin R
  BY <1>2, WFMin
<1>5. ASSUME NEW m \in S PROVE n <= m
  <2>1. <<m, n>> \in Nat \X Nat /\ <<m, n>>[1] = m /\ <<m, n>>[2] = n
    OBVIOUS
  <2>2. ~(m < n)
    BY <1>3, <1>4, <2>1
  <2>3. QED
    BY <2>2
<1>6. QED
  BY <1>5

\* LastOf is the greatest position of a set of positions.
LEMMA LastIs ==
  ASSUME NEW n \in Nat, NEW S \in SUBSET (1..n)
  PROVE  /\ S = {} => LastOf(S) = 0
         /\ S # {} => LastOf(S) \in S
<1>1. ASSUME S # {} PROVE LastOf(S) \in S
  <2>1. PICK D : D = {n - j : j \in S}
    OBVIOUS
  <2>2. D \in SUBSET Nat /\ D # {}
    <3>1. \A j \in S : j \in 1..n /\ n - j \in Nat
      OBVIOUS
    <3>2. QED
      BY <1>1, <2>1, <3>1
  <2>3. PICK d \in D : \A e \in D : d <= e
    BY <2>2, Least
  <2>4. PICK i \in S : d = n - i
    BY <2>1
  <2>5. \A j \in S : j <= i
    <3>1. ASSUME NEW j \in S PROVE j <= i
      <4>1. n - j \in D /\ n - i <= n - j
        BY <2>1, <2>3, <2>4
      <4>2. QED
        BY <4>1
    <3>2. QED
      BY <3>1
  <2>6. QED
    BY <1>1, <2>5 DEF LastOf
<1>2. QED
  BY <1>1 DEF LastOf

LEMMA MembersAre ==
  ASSUME NEW l \in Lenses
  PROVE  /\ Count[l] \in Nat \ {0} /\ Members(l) = 1..Count[l] /\ End(l) = Count[l] + 1
         /\ End(l) \in Nat \ {0} /\ End(l) \notin Members(l) /\ 0 \notin Members(l)
         /\ PassQuorum[l] \in Nat \ {0} /\ MinGroups[l] \in Nat \ {0}
         /\ IsFiniteSet(Members(l))
<1>1. Count[l] \in Nat \ {0}
  BY CountAssumption
<1>2. IsFiniteSet(1..Count[l])
  BY <1>1, FS_Interval
<1>3. QED
  BY <1>1, <1>2, PolicyAssumption DEF Members, End

\* Following is the next reviewer that is not inherited, or the end.
LEMMA FollowingIs ==
  ASSUME NEW l \in Lenses, NEW i \in 0..Count[l], NEW j, j = Following(l, i)
  PROVE  /\ j \in (i + 1)..End(l)
         /\ j = End(l) \/ j \notin inherited[l]
         /\ \A k \in (i + 1)..(j - 1) : k \in inherited[l]
<1>1. Count[l] \in Nat /\ End(l) = Count[l] + 1 /\ i \in Nat
  BY MembersAre
<1>2. PICK S : S = {k \in (i + 1)..End(l) : k = End(l) \/ k \notin inherited[l]}
  OBVIOUS
<1>3. S \in SUBSET Nat /\ End(l) \in S
  BY <1>1, <1>2
<1>4. PICK n \in S : \A m \in S : n <= m
  BY <1>3, Least
<1>5. \A k \in (i + 1)..(n - 1) : k \in inherited[l]
  <2>1. ASSUME NEW k \in (i + 1)..(n - 1), k \notin inherited[l] PROVE FALSE
    <3>1. n \in (i + 1)..End(l) /\ k \in (i + 1)..End(l) /\ k < n
      BY <1>1, <1>2, <2>1
    <3>2. k \in S
      BY <1>2, <2>1, <3>1
    <3>3. QED
      BY <1>4, <3>1, <3>2
  <2>2. QED
    BY <2>1
<1>6. \E k \in (i + 1)..End(l) :
        /\ k = End(l) \/ k \notin inherited[l]
        /\ \A h \in (i + 1)..(k - 1) : h \in inherited[l]
  BY <1>2, <1>5
<1>7. QED
  BY <1>6 DEF Following

\* What evaluatePassQuorum counts is a quorum: that many passes, and among them one
\* of each of that many groups.
LEMMA QuorumIsSatisfied ==
  ASSUME NEW l \in Lenses, NEW S \in SUBSET Members(l)
  PROVE  Satisfied(l, S) <=> Quorum(l, S)
<1> DEFINE G == Groups(l, S)
           m == MinGroups[l]
<1>1. IsFiniteSet(S) /\ m \in Nat
  BY MembersAre, FS_Subset
<1>2. IsFiniteSet(G)
  <2>1. PICK F : F = [i \in S |-> GroupOf[l][i]]
    OBVIOUS
  <2>2. F \in Surjection(S, G)
    BY <2>1 DEF Surjection, Groups
  <2>3. QED
    BY <1>1, <2>2, FS_Surjection
<1>3. Cardinality(G) \in Nat /\ ExistsBijection(1..Cardinality(G), G)
  BY <1>2, FS_CardinalityType
<1>4. ASSUME Cardinality(G) >= m
      PROVE  \E T \in SUBSET S : /\ Cardinality(T) = m
                                 /\ \A i, j \in T : i # j => GroupOf[l][i] # GroupOf[l][j]
  <2>1. PICK f \in Bijection(1..Cardinality(G), G) : TRUE
    BY <1>3 DEF ExistsBijection
  <2>2. /\ f \in [1..Cardinality(G) -> G]
        /\ \A k, h \in 1..Cardinality(G) : f[k] = f[h] => k = h
    BY <2>1 DEF Bijection, Injection, IsInjective
  <2>3. \A k \in 1..m : k \in 1..Cardinality(G) /\ \E i \in S : GroupOf[l][i] = f[k]
    <3>1. ASSUME NEW k \in 1..m PROVE k \in 1..Cardinality(G) /\ \E i \in S : GroupOf[l][i] = f[k]
      <4>1. k \in 1..Cardinality(G)
        BY <1>1, <1>3, <1>4
      <4>2. f[k] \in G
        BY <2>2, <4>1
      <4>3. QED
        BY <4>1, <4>2 DEF Groups
    <3>2. QED
      BY <3>1
  <2>4. PICK h : h = [k \in 1..m |-> CHOOSE i \in S : GroupOf[l][i] = f[k]]
    OBVIOUS
  <2>5. \A k \in 1..m : h[k] \in S /\ GroupOf[l][h[k]] = f[k]
    BY <2>3, <2>4
  <2>6. PICK T : T = {h[k] : k \in 1..m}
    OBVIOUS
  <2>7. h \in Bijection(1..m, T)
    <3>1. h \in [1..m -> T]
      BY <2>4, <2>6
    <3>2. \A k, n \in 1..m : h[k] = h[n] => k = n
      BY <2>2, <2>3, <2>5
    <3>3. \A t \in T : \E k \in 1..m : h[k] = t
      BY <2>6
    <3>4. QED
      BY <3>1, <3>2, <3>3 DEF Bijection, Injection, Surjection, IsInjective
  <2>8. Cardinality(T) = m
    <3>1. IsFiniteSet(1..m) /\ Cardinality(1..m) = m
      BY <1>1, FS_Interval
    <3>2. ExistsBijection(1..m, T)
      BY <2>7 DEF ExistsBijection
    <3>3. QED
      BY <3>1, <3>2, FS_Bijection
  <2>9. \A i, j \in T : i # j => GroupOf[l][i] # GroupOf[l][j]
    <3>1. ASSUME NEW i \in T, NEW j \in T, GroupOf[l][i] = GroupOf[l][j] PROVE i = j
      <4>1. PICK k, n \in 1..m : i = h[k] /\ j = h[n]
        BY <2>6
      <4>2. f[k] = f[n]
        BY <2>5, <3>1, <4>1
      <4>3. QED
        BY <2>2, <2>3, <4>1, <4>2
    <3>2. QED
      BY <3>1
  <2>10. QED
    BY <2>5, <2>6, <2>8, <2>9
<1>5. ASSUME NEW T \in SUBSET S, Cardinality(T) = m,
             \A i, j \in T : i # j => GroupOf[l][i] # GroupOf[l][j]
      PROVE  Cardinality(G) >= m
  <2>1. PICK F : F = [i \in T |-> GroupOf[l][i]]
    OBVIOUS
  <2>2. F \in Injection(T, G)
    BY <1>5, <2>1 DEF Injection, IsInjective, Groups
  <2>3. QED
    BY <1>2, <1>3, <1>5, <2>2, FS_Injection
<1>6. QED
  BY <1>4, <1>5 DEF Satisfied, Quorum

LEMMA SatisfiedGrows ==
  ASSUME NEW l \in Lenses, NEW S \in SUBSET Members(l), NEW T \in SUBSET S, Satisfied(l, T)
  PROVE  Satisfied(l, S)
<1>1. Quorum(l, T)
  BY QuorumIsSatisfied
<1>2. IsFiniteSet(S) /\ IsFiniteSet(T)
  BY MembersAre, FS_Subset
<1>3. /\ Cardinality(S) \in Nat /\ Cardinality(T) \in Nat /\ Cardinality(T) <= Cardinality(S)
      /\ PassQuorum[l] \in Nat
  BY <1>2, FS_Subset, FS_CardinalityType, MembersAre
<1>4. Quorum(l, S)
  BY <1>1, <1>3 DEF Quorum
<1>5. QED
  BY <1>4, QuorumIsSatisfied

-----------------------------------------------------------------------------
(* What a step of a chain does to its lens.                                *)

TypedLens(l) ==
  /\ inherited[l] \subseteq Members(l)
  /\ status[l] \in [Members(l) -> Marks]
  /\ result[l] \in [Members(l) -> Results]
  /\ at[l] \in 0..End(l)
  /\ source[l] \in 0..Count[l]
  /\ passes[l] \subseteq Members(l)

\* A lens is left as it is.
Same(l) ==
  /\ kind'[l] = kind[l] /\ inherited'[l] = inherited[l] /\ status'[l] = status[l]
  /\ result'[l] = result[l] /\ at'[l] = at[l] /\ source'[l] = source[l]
  /\ passes'[l] = passes[l] /\ lensState'[l] = lensState[l]
  /\ (l \in unreachable') = (l \in unreachable)

\* Only one lens is concerned.
Alone(l) ==
  /\ UNCHANGED <<kind, runs, inherited, stop, outcome>>
  /\ Shapes' /\ lensState' \in [Lenses -> LensStates] /\ unreachable' \subseteq Lenses
  /\ \A m \in Lenses \ {l} : Same(m)

\* The others of the lens are left alone but skipped behind a decision.
Skips(l) ==
  /\ at'[l] = End(l)
  /\ \A j \in Members(l) \ {at[l]} :
       status'[l][j] = IF j > at[l] /\ j \notin inherited[l] THEN "skipped" ELSE status[l][j]

Goes(l) ==
  /\ at'[l] = Following(l, at[l])
  /\ \A j \in Members(l) \ {at[l]} : status'[l][j] = status[l][j]

\* The reviewer at the chain's position ends, with a result.
Marked(l, mark, r) ==
  /\ at[l] \in Members(l)
  /\ status'[l][at[l]] = mark /\ result'[l][at[l]] = r
  /\ \A j \in Members(l) \ {at[l]} : result'[l][j] = result[l][j]

\* What a chain keeps of its own.
KeepsOwn(l) == source'[l] = source[l] /\ passes'[l] = passes[l]
KeepsUnreachable(l) == (l \in unreachable') = (l \in unreachable)

LEMMA TypesOfLens ==
  ASSUME TypeOK, NEW l \in Lenses
  PROVE  TypedLens(l)
BY DEF TypeOK, TypedLens, Marks

StartEffect(l) ==
  /\ at[l] = 0 /\ result'[l] = result[l] /\ KeepsUnreachable(l)
  /\ \/ /\ Skips(l) /\ KeepsOwn(l)
        /\ \/ kind[l] = "missing_input" /\ lensState'[l] = "not_evaluated"
           \/ kind[l] = "irrelevant" /\ lensState'[l] = "not_applicable"
     \/ /\ kind[l] = "evaluated" /\ passes'[l] = InheritedPasses(l)
        /\ \/ /\ FinalFindings(l) # {} /\ Skips(l) /\ source'[l] = source[l]
              /\ lensState'[l] = "findings"
           \/ /\ FinalFindings(l) = {} /\ source'[l] = LastOf(OpenFindings(l))
              /\ source'[l] = 0 /\ Satisfied(l, InheritedPasses(l))
              /\ Skips(l) /\ lensState'[l] = "passed"
           \/ /\ FinalFindings(l) = {} /\ source'[l] = LastOf(OpenFindings(l))
              /\ source'[l] # 0 \/ ~Satisfied(l, InheritedPasses(l))
              /\ Goes(l) /\ lensState'[l] = "incomplete"

\* Where a chain is sent, and how its lens is marked by a decision.
LEMMA DecideIs ==
  ASSUME TypeOK, Shapes, NEW l \in Lenses, NEW i \in 0..Count[l], at[l] = i,
         NEW state \in LensStates, NEW done \in [Members(l) -> Marks],
         \A j \in Members(l) \ {i} : done[j] = status[l][j],
         Decide(l, i, state, done)
  PROVE  /\ Skips(l) /\ lensState'[l] = state
         /\ lensState' \in [Lenses -> LensStates] /\ DOMAIN status' = Lenses /\ DOMAIN at' = Lenses
         /\ status'[l] \in [Members(l) -> Marks] /\ at'[l] \in 0..End(l)
         /\ i \in Members(l) => status'[l][i] = done[i]
         /\ \A m \in Lenses \ {l} :
              status'[m] = status[m] /\ at'[m] = at[m] /\ lensState'[m] = lensState[m]
<1>1. PICK marks : marks = [j \in Members(l) |-> IF j > i /\ j \notin inherited[l] THEN "skipped"
                                                 ELSE done[j]]
  OBVIOUS
<1>2. marks \in [Members(l) -> Marks]
  BY <1>1 DEF Marks
<1>3. status' = [status EXCEPT ![l] = marks]
  BY <1>1 DEF Decide, SkipBehind
<1>4. at' = [at EXCEPT ![l] = End(l)] /\ lensState' = [lensState EXCEPT ![l] = state]
  BY DEF Decide
<1>5. /\ DOMAIN status' = Lenses /\ status'[l] = marks
      /\ \A m \in Lenses \ {l} : status'[m] = status[m]
  BY <1>3 DEF Shapes
<1>6. /\ DOMAIN at' = Lenses /\ at'[l] = End(l) /\ \A m \in Lenses \ {l} : at'[m] = at[m]
  BY <1>4 DEF Shapes
<1>7. /\ lensState' \in [Lenses -> LensStates] /\ lensState'[l] = state
      /\ \A m \in Lenses \ {l} : lensState'[m] = lensState[m]
  BY <1>4 DEF TypeOK
<1>8. i \in Members(l) => marks[i] = done[i]
  BY <1>1, MembersAre
<1>9. Skips(l)
  BY <1>1, <1>5, <1>6 DEF Skips
<1>10. at'[l] \in 0..End(l)
  BY <1>6, MembersAre
<1>11. QED
  BY <1>2, <1>5, <1>6, <1>7, <1>8, <1>9, <1>10

\* The same where the chain goes on.
LEMMA GoIs ==
  ASSUME TypeOK, Shapes, NEW l \in Lenses, NEW i \in 0..Count[l], at[l] = i,
         NEW done \in [Members(l) -> Marks],
         \A j \in Members(l) \ {i} : done[j] = status[l][j],
         at' = [at EXCEPT ![l] = Following(l, i)], status' = [status EXCEPT ![l] = done]
  PROVE  /\ Goes(l) /\ DOMAIN status' = Lenses /\ DOMAIN at' = Lenses
         /\ status'[l] \in [Members(l) -> Marks] /\ at'[l] \in 0..End(l)
         /\ i \in Members(l) => status'[l][i] = done[i]
         /\ \A m \in Lenses \ {l} : status'[m] = status[m] /\ at'[m] = at[m]
<1>1. /\ DOMAIN status' = Lenses /\ status'[l] = done
      /\ \A m \in Lenses \ {l} : status'[m] = status[m]
  BY DEF Shapes
<1>2. PICK j : j = Following(l, i)
  OBVIOUS
<1>3. /\ DOMAIN at' = Lenses /\ at'[l] = j /\ \A m \in Lenses \ {l} : at'[m] = at[m]
  BY <1>2 DEF Shapes
<1>4. j \in 0..End(l)
  BY <1>2, FollowingIs, MembersAre
<1>5. QED
  BY <1>1, <1>2, <1>3, <1>4 DEF Goes

LEMMA StartCases ==
  ASSUME TypeOK, Shapes, NEW l \in Lenses, StartLens(l)
  PROVE  Alone(l) /\ TypedLens(l)' /\ StartEffect(l) /\ outcome = Open
<1>1. /\ at[l] = 0 /\ outcome = Open
      /\ UNCHANGED <<kind, runs, inherited, unreachable, result, stop, outcome>>
  BY DEF StartLens
<1>2. TypedLens(l)
  BY TypesOfLens
<1>3. 0 \in 0..Count[l] /\ 0 \notin Members(l)
  BY MembersAre
<1>4. OpenFindings(l) \in SUBSET (1..Count[l]) /\ InheritedPasses(l) \subseteq Members(l)
  BY <1>2, MembersAre DEF OpenFindings, InheritedPasses, TypedLens
<1>5. LastOf(OpenFindings(l)) \in 0..Count[l]
  <2>1. PICK S, n : S = OpenFindings(l) /\ n = Count[l]
    OBVIOUS
  <2>2. n \in Nat /\ S \in SUBSET (1..n)
    BY <1>4, <2>1, MembersAre
  <2>3. LastOf(S) = 0 \/ LastOf(S) \in 1..n
    BY <2>2, LastIs
  <2>4. QED
    BY <2>1, <2>2, <2>3
<1>6. status[l] \in [Members(l) -> Marks]
  BY <1>2 DEF TypedLens
<1>7. /\ DOMAIN source = Lenses /\ DOMAIN passes = Lenses /\ DOMAIN inherited = Lenses
      /\ DOMAIN result = Lenses /\ unreachable \subseteq Lenses
      /\ lensState \in [Lenses -> LensStates]
  BY DEF Shapes, TypeOK
<1>8. ASSUME NEW state \in LensStates, Decide(l, 0, state, status[l])
      PROVE  /\ Skips(l) /\ lensState'[l] = state
             /\ lensState' \in [Lenses -> LensStates] /\ DOMAIN status' = Lenses
             /\ DOMAIN at' = Lenses
             /\ status'[l] \in [Members(l) -> Marks] /\ at'[l] \in 0..End(l)
             /\ \A m \in Lenses \ {l} :
                  status'[m] = status[m] /\ at'[m] = at[m] /\ lensState'[m] = lensState[m]
  <2>1. PICK done : done = status[l]
    OBVIOUS
  <2>2. QED
    BY <1>1, <1>3, <1>6, <1>8, <2>1, DecideIs
<1>9. CASE /\ UNCHANGED <<source, passes>>
           /\ \/ kind[l] = "missing_input" /\ Decide(l, 0, "not_evaluated", status[l])
              \/ kind[l] = "irrelevant" /\ Decide(l, 0, "not_applicable", status[l])
  <2>1. PICK state \in LensStates :
          /\ Decide(l, 0, state, status[l])
          /\ \/ kind[l] = "missing_input" /\ state = "not_evaluated"
             \/ kind[l] = "irrelevant" /\ state = "not_applicable"
    BY <1>9 DEF LensStates
  <2>2. Alone(l)
    BY <1>1, <1>7, <1>8, <1>9, <2>1 DEF Alone, Same, Shapes
  <2>3. TypedLens(l)'
    BY <1>1, <1>2, <1>8, <1>9, <2>1 DEF TypedLens, Members, End
  <2>4. StartEffect(l)
    BY <1>1, <1>8, <1>9, <2>1 DEF StartEffect, KeepsOwn, KeepsUnreachable
  <2>5. QED
    BY <1>1, <2>2, <2>3, <2>4
<1>10. CASE /\ kind[l] = "evaluated" /\ passes' = [passes EXCEPT ![l] = InheritedPasses(l)]
            /\ FinalFindings(l) # {} /\ Decide(l, 0, "findings", status[l])
            /\ UNCHANGED source
  <2>1. /\ DOMAIN passes' = Lenses /\ passes'[l] = InheritedPasses(l)
        /\ \A m \in Lenses \ {l} : passes'[m] = passes[m]
    BY <1>7, <1>10
  <2>2. "findings" \in LensStates
    BY DEF LensStates
  <2>3. Alone(l)
    BY <1>1, <1>7, <1>8, <1>10, <2>1, <2>2 DEF Alone, Same, Shapes
  <2>4. TypedLens(l)'
    BY <1>1, <1>2, <1>4, <1>8, <1>10, <2>1, <2>2 DEF TypedLens, Members, End
  <2>5. StartEffect(l)
    BY <1>1, <1>8, <1>10, <2>1, <2>2 DEF StartEffect, KeepsUnreachable
  <2>6. QED
    BY <1>1, <2>3, <2>4, <2>5
<1>11. CASE /\ kind[l] = "evaluated" /\ passes' = [passes EXCEPT ![l] = InheritedPasses(l)]
            /\ FinalFindings(l) = {}
            /\ source' = [source EXCEPT ![l] = LastOf(OpenFindings(l))]
            /\ IF LastOf(OpenFindings(l)) = 0 /\ Satisfied(l, InheritedPasses(l))
                 THEN Decide(l, 0, "passed", status[l])
                 ELSE /\ lensState' = [lensState EXCEPT ![l] = "incomplete"]
                      /\ at' = [at EXCEPT ![l] = Following(l, 0)]
                      /\ UNCHANGED status
  <2>1. /\ DOMAIN passes' = Lenses /\ passes'[l] = InheritedPasses(l)
        /\ \A m \in Lenses \ {l} : passes'[m] = passes[m]
    BY <1>7, <1>11
  <2>2. /\ DOMAIN source' = Lenses /\ source'[l] = LastOf(OpenFindings(l))
        /\ \A m \in Lenses \ {l} : source'[m] = source[m]
    BY <1>7, <1>11
  <2>3. CASE LastOf(OpenFindings(l)) = 0 /\ Satisfied(l, InheritedPasses(l))
    <3>1. "passed" \in LensStates /\ Decide(l, 0, "passed", status[l])
      BY <1>11, <2>3 DEF LensStates
    <3>2. Alone(l)
      BY <1>1, <1>7, <1>8, <2>1, <2>2, <3>1 DEF Alone, Same, Shapes
    <3>3. TypedLens(l)'
      BY <1>1, <1>2, <1>4, <1>5, <1>8, <2>1, <2>2, <3>1 DEF TypedLens, Members, End
    <3>4. StartEffect(l)
      BY <1>1, <1>8, <1>11, <2>1, <2>2, <2>3, <3>1 DEF StartEffect, KeepsUnreachable
    <3>5. QED
      BY <1>1, <3>2, <3>3, <3>4
  <2>4. CASE ~(LastOf(OpenFindings(l)) = 0 /\ Satisfied(l, InheritedPasses(l)))
    <3>1. /\ lensState' = [lensState EXCEPT ![l] = "incomplete"]
          /\ at' = [at EXCEPT ![l] = Following(l, 0)]
          /\ status' = status
      BY <1>11, <2>4
    <3>2. /\ lensState' \in [Lenses -> LensStates] /\ lensState'[l] = "incomplete"
          /\ \A m \in Lenses \ {l} : lensState'[m] = lensState[m]
      BY <1>7, <3>1 DEF LensStates
    <3>3. PICK j : j = Following(l, 0)
      OBVIOUS
    <3>4. j \in 0..End(l)
      BY <1>3, <3>3, FollowingIs, MembersAre
    <3>5. /\ Goes(l) /\ DOMAIN status' = Lenses /\ DOMAIN at' = Lenses
          /\ status'[l] \in [Members(l) -> Marks] /\ at'[l] \in 0..End(l)
          /\ \A m \in Lenses \ {l} : status'[m] = status[m] /\ at'[m] = at[m]
      BY <1>1, <1>6, <3>1, <3>3, <3>4 DEF Goes, Shapes
    <3>6. Alone(l)
      BY <1>1, <1>7, <2>1, <2>2, <3>2, <3>5 DEF Alone, Same, Shapes
    <3>7. TypedLens(l)'
      BY <1>1, <1>2, <1>4, <1>5, <2>1, <2>2, <3>5 DEF TypedLens, Members, End
    <3>8. StartEffect(l)
      BY <1>1, <1>11, <2>1, <2>2, <2>4, <3>2, <3>5 DEF StartEffect, KeepsUnreachable
    <3>9. QED
      BY <1>1, <3>6, <3>7, <3>8
  <2>5. QED
    BY <2>3, <2>4
<1>12. QED
  BY <1>9, <1>10, <1>11 DEF StartLens

ReachEffect(l) ==
  /\ at[l] \in Members(l) /\ status[l][at[l]] = "queued"
  /\ result'[l] = result[l] /\ KeepsOwn(l) /\ KeepsUnreachable(l) /\ lensState'[l] = lensState[l]
  /\ \/ Goes(l) /\ status'[l][at[l]] = "skipped"
     \/ /\ at'[l] = at[l] /\ status'[l][at[l]] = "running"
        /\ \A j \in Members(l) \ {at[l]} : status'[l][j] = status[l][j]

LEMMA ReachCases ==
  ASSUME TypeOK, Shapes, NEW l \in Lenses, Reach(l)
  PROVE  Alone(l) /\ TypedLens(l)' /\ ReachEffect(l)
<1>1. /\ UNCHANGED <<kind, runs, inherited, source, passes, lensState, unreachable, result,
                     stop, outcome>>
      /\ at[l] \in Members(l) /\ status[l][at[l]] = "queued"
  BY DEF Reach
<1>2. TypedLens(l)
  BY TypesOfLens
<1>3. PICK i : i = at[l]
  OBVIOUS
<1>4. i \in Members(l) /\ i \in 0..Count[l]
  BY <1>1, <1>3, MembersAre
<1>5. /\ DOMAIN source = Lenses /\ DOMAIN passes = Lenses /\ DOMAIN inherited = Lenses
      /\ DOMAIN result = Lenses /\ unreachable \subseteq Lenses
      /\ lensState \in [Lenses -> LensStates] /\ DOMAIN status = Lenses /\ DOMAIN at = Lenses
  BY DEF Shapes, TypeOK
<1>6. ASSUME NEW mark \in Marks
      PROVE  /\ [status[l] EXCEPT ![i] = mark] \in [Members(l) -> Marks]
             /\ [status[l] EXCEPT ![i] = mark][i] = mark
             /\ \A j \in Members(l) \ {i} : [status[l] EXCEPT ![i] = mark][j] = status[l][j]
  BY <1>2, <1>4 DEF TypedLens
<1>7. CASE Stopped(l)
  <2>1. PICK done : done = [status[l] EXCEPT ![i] = "skipped"]
    OBVIOUS
  <2>2. /\ done \in [Members(l) -> Marks] /\ done[i] = "skipped"
        /\ \A j \in Members(l) \ {i} : done[j] = status[l][j]
    BY <1>6, <2>1 DEF Marks
  <2>3. status' = [status EXCEPT ![l] = done] /\ at' = [at EXCEPT ![l] = Following(l, i)]
    BY <1>3, <1>7, <2>1 DEF Reach
  <2>4. /\ Goes(l) /\ DOMAIN status' = Lenses /\ DOMAIN at' = Lenses
        /\ status'[l] \in [Members(l) -> Marks] /\ at'[l] \in 0..End(l)
        /\ status'[l][i] = "skipped"
        /\ \A m \in Lenses \ {l} : status'[m] = status[m] /\ at'[m] = at[m]
    BY <1>3, <1>4, <2>2, <2>3, GoIs
  <2>5. Alone(l)
    BY <1>1, <1>5, <2>4 DEF Alone, Same, Shapes
  <2>6. TypedLens(l)'
    BY <1>1, <1>2, <2>4 DEF TypedLens, Members, End
  <2>7. ReachEffect(l)
    BY <1>1, <1>3, <2>4 DEF ReachEffect, KeepsOwn, KeepsUnreachable
  <2>8. QED
    BY <2>5, <2>6, <2>7
<1>8. CASE ~Stopped(l)
  <2>1. PICK done : done = [status[l] EXCEPT ![i] = "running"]
    OBVIOUS
  <2>2. /\ done \in [Members(l) -> Marks] /\ done[i] = "running"
        /\ \A j \in Members(l) \ {i} : done[j] = status[l][j]
    BY <1>6, <2>1 DEF Marks
  <2>3. status' = [status EXCEPT ![l] = done] /\ at' = at
    BY <1>3, <1>8, <2>1 DEF Reach
  <2>4. DOMAIN status' = Lenses /\ status'[l] = done
        /\ \A m \in Lenses \ {l} : status'[m] = status[m]
    BY <1>5, <2>3
  <2>5. Alone(l)
    BY <1>1, <1>5, <2>3, <2>4 DEF Alone, Same, Shapes
  <2>6. TypedLens(l)'
    BY <1>1, <1>2, <2>2, <2>3, <2>4 DEF TypedLens, Members, End
  <2>7. ReachEffect(l)
    BY <1>1, <1>3, <2>2, <2>3, <2>4 DEF ReachEffect, KeepsOwn, KeepsUnreachable
  <2>8. QED
    BY <2>5, <2>6, <2>7
<1>9. QED
  BY <1>7, <1>8

\* A result changes at one position of one lens.
LEMMA ResultIs ==
  ASSUME TypeOK, Shapes, NEW l \in Lenses, at[l] \in Members(l), NEW r \in Results,
         result' = [result EXCEPT ![l][at[l]] = r]
  PROVE  /\ DOMAIN result' = Lenses /\ result'[l] \in [Members(l) -> Results]
         /\ result'[l][at[l]] = r
         /\ \A j \in Members(l) \ {at[l]} : result'[l][j] = result[l][j]
         /\ \A m \in Lenses \ {l} : result'[m] = result[m]
<1>1. PICK i : i = at[l]
  OBVIOUS
<1>2. PICK f : f = [result[l] EXCEPT ![i] = r]
  OBVIOUS
<1>3. result[l] \in [Members(l) -> Results]
  BY TypesOfLens DEF TypedLens
<1>4. /\ f \in [Members(l) -> Results] /\ f[i] = r
      /\ \A j \in Members(l) \ {i} : f[j] = result[l][j]
  BY <1>1, <1>2, <1>3
<1>5. result' = [result EXCEPT ![l] = f]
  BY <1>1, <1>2
<1>6. DOMAIN result' = Lenses /\ result'[l] = f /\ \A m \in Lenses \ {l} : result'[m] = result[m]
  BY <1>5 DEF Shapes
<1>7. QED
  BY <1>1, <1>4, <1>6

FailEffect(l, left) ==
  /\ Marked(l, "incomplete", left) /\ status[l][at[l]] = "running"
  /\ KeepsOwn(l) /\ lensState'[l] = lensState[l]
  /\ \/ KeepsUnreachable(l) /\ Reachable(l, passes[l], at[l])
     \/ l \in unreachable' /\ ~Reachable(l, passes[l], at[l])
  /\ Skips(l) \/ Goes(l)

LEMMA FailsCases ==
  ASSUME TypeOK, Shapes, NEW l \in Lenses, NEW fallback \in BOOLEAN, NEW left \in Remains(l),
         Fails(l, fallback, left)
  PROVE  Alone(l) /\ TypedLens(l)' /\ FailEffect(l, left)
<1>1. /\ UNCHANGED <<kind, runs, inherited, source, passes, lensState, stop, outcome>>
      /\ at[l] \in Members(l) /\ status[l][at[l]] = "running"
      /\ result' = [result EXCEPT ![l][at[l]] = left]
      /\ unreachable' = IF Reachable(l, passes[l], at[l]) THEN unreachable
                                                           ELSE unreachable \cup {l}
  BY DEF Fails, Running
<1>2. TypedLens(l) /\ left \in Results
  BY TypesOfLens DEF Remains, Results
<1>3. PICK i : i = at[l]
  OBVIOUS
<1>4. i \in Members(l) /\ i \in 0..Count[l]
  BY <1>1, <1>3, MembersAre
<1>5. /\ DOMAIN source = Lenses /\ DOMAIN passes = Lenses /\ DOMAIN inherited = Lenses
      /\ lensState \in [Lenses -> LensStates]
  BY DEF Shapes, TypeOK
<1>6. PICK done : done = [status[l] EXCEPT ![i] = "incomplete"]
  OBVIOUS
<1>7. /\ done \in [Members(l) -> Marks] /\ done[i] = "incomplete"
      /\ \A j \in Members(l) \ {i} : done[j] = status[l][j]
  BY <1>2, <1>4, <1>6 DEF TypedLens, Marks
<1>8. /\ DOMAIN result' = Lenses /\ result'[l] \in [Members(l) -> Results]
      /\ result'[l][i] = left
      /\ \A j \in Members(l) \ {i} : result'[l][j] = result[l][j]
      /\ \A m \in Lenses \ {l} : result'[m] = result[m]
  BY <1>1, <1>2, <1>3, ResultIs
<1>9. /\ unreachable' \subseteq Lenses
      /\ \A m \in Lenses \ {l} : (m \in unreachable') = (m \in unreachable)
      /\ \/ KeepsUnreachable(l) /\ Reachable(l, passes[l], at[l])
         \/ l \in unreachable' /\ ~Reachable(l, passes[l], at[l])
  BY <1>1 DEF TypeOK, KeepsUnreachable
<1>10. /\ Skips(l) \/ Goes(l)
       /\ DOMAIN status' = Lenses /\ DOMAIN at' = Lenses
       /\ status'[l] \in [Members(l) -> Marks] /\ at'[l] \in 0..End(l)
       /\ status'[l][i] = "incomplete"
       /\ \A m \in Lenses \ {l} : status'[m] = status[m] /\ at'[m] = at[m]
  <2>1. CASE fallback
    <3>1. status' = [status EXCEPT ![l] = done] /\ at' = [at EXCEPT ![l] = Following(l, i)]
      BY <1>3, <1>6, <2>1 DEF Fails
    <3>2. QED
      BY <1>3, <1>4, <1>7, <3>1, GoIs
  <2>2. CASE ~fallback
    <3>1. status' = SkipBehind(l, i, done) /\ at' = [at EXCEPT ![l] = End(l)]
      BY <1>3, <1>6, <2>2 DEF Fails
    <3>2. PICK state : state = lensState[l]
      OBVIOUS
    <3>3. state \in LensStates /\ lensState' = [lensState EXCEPT ![l] = state]
      BY <1>1, <1>5, <3>2
    <3>4. Decide(l, i, state, done)
      BY <3>1, <3>3 DEF Decide
    <3>5. QED
      BY <1>3, <1>4, <1>7, <3>3, <3>4, DecideIs
  <2>3. QED
    BY <2>1, <2>2
<1>11. Alone(l)
  BY <1>1, <1>5, <1>8, <1>9, <1>10 DEF Alone, Same, Shapes
<1>12. TypedLens(l)'
  BY <1>1, <1>2, <1>8, <1>10 DEF TypedLens, Members, End
<1>13. FailEffect(l, left)
  BY <1>1, <1>3, <1>8, <1>9, <1>10 DEF FailEffect, Marked, KeepsOwn
<1>14. QED
  BY <1>11, <1>12, <1>13

CompleteEffect(l, r) ==
  /\ Marked(l, "completed", r) /\ status[l][at[l]] = "running" /\ KeepsUnreachable(l)
  /\ \/ /\ source[l] # 0 /\ KeepsOwn(l) /\ Skips(l)
        /\ \/ r = "fail2" /\ lensState'[l] = "findings"
           \/ r = "pass2" /\ lensState'[l] = "passed"
     \/ /\ source[l] = 0 /\ r = "fail4" /\ Adjudicated[l]
        /\ source'[l] = at[l] /\ passes'[l] = passes[l] /\ Goes(l)
        /\ lensState'[l] = lensState[l]
     \/ /\ source[l] = 0 /\ r = "fail4" /\ ~Adjudicated[l] /\ KeepsOwn(l) /\ Skips(l)
        /\ lensState'[l] = "findings"
     \/ /\ source[l] = 0 /\ r = "pass4" /\ source'[l] = source[l]
        /\ passes'[l] = passes[l] \cup {at[l]}
        /\ \/ /\ Satisfied(l, passes[l] \cup {at[l]}) /\ Skips(l)
              /\ lensState'[l] = "passed"
           \/ /\ ~Satisfied(l, passes[l] \cup {at[l]}) /\ Goes(l)
              /\ lensState'[l] = lensState[l]

LEMMA CompletesCases ==
  ASSUME TypeOK, Shapes, NEW l \in Lenses, NEW verdict \in {"pass", "fail"},
         Completes(l, verdict)
  PROVE  /\ Alone(l) /\ TypedLens(l)'
         /\ \E r \in {"pass4", "fail4", "pass2", "fail2"} : CompleteEffect(l, r)
<1>1. PICK i, r : /\ i = at[l]
                  /\ r = IF source[l] # 0
                           THEN IF verdict = "fail" THEN "fail2" ELSE "pass2"
                           ELSE IF verdict = "fail" THEN "fail4" ELSE "pass4"
  OBVIOUS
<1>2. PICK done : done = [status[l] EXCEPT ![i] = "completed"]
  OBVIOUS
<1>3. PICK counted : counted = passes[l] \cup {i}
  OBVIOUS
<1>4. /\ UNCHANGED <<kind, runs, inherited, unreachable, stop, outcome>>
      /\ i \in Members(l) /\ status[l][i] = "running"
      /\ result' = [result EXCEPT ![l][i] = r]
      /\ \/ /\ source[l] # 0
            /\ Decide(l, i, IF r = "fail2" THEN "findings" ELSE "passed", done)
            /\ UNCHANGED <<source, passes>>
         \/ /\ source[l] = 0 /\ r = "fail4" /\ Adjudicated[l]
            /\ source' = [source EXCEPT ![l] = i]
            /\ at' = [at EXCEPT ![l] = Following(l, i)]
            /\ status' = [status EXCEPT ![l] = done]
            /\ UNCHANGED <<passes, lensState>>
         \/ /\ source[l] = 0 /\ r = "fail4" /\ ~Adjudicated[l]
            /\ Decide(l, i, "findings", done)
            /\ UNCHANGED <<source, passes>>
         \/ /\ source[l] = 0 /\ r = "pass4"
            /\ passes' = [passes EXCEPT ![l] = counted]
            /\ UNCHANGED source
            /\ \/ Satisfied(l, counted) /\ Decide(l, i, "passed", done)
               \/ /\ ~Satisfied(l, counted)
                  /\ at' = [at EXCEPT ![l] = Following(l, i)]
                  /\ status' = [status EXCEPT ![l] = done]
                  /\ UNCHANGED lensState
  BY <1>1, <1>2, <1>3 DEF Completes, Running
<1>5. TypedLens(l) /\ r \in Results /\ r \in {"pass4", "fail4", "pass2", "fail2"}
  BY <1>1, TypesOfLens DEF Results
<1>6. i \in 0..Count[l]
  BY <1>4, MembersAre
<1>7. /\ DOMAIN source = Lenses /\ DOMAIN passes = Lenses /\ DOMAIN inherited = Lenses
      /\ lensState \in [Lenses -> LensStates] /\ unreachable \subseteq Lenses
  BY DEF Shapes, TypeOK
<1>8. /\ done \in [Members(l) -> Marks] /\ done[i] = "completed"
      /\ \A j \in Members(l) \ {i} : done[j] = status[l][j]
  BY <1>2, <1>4, <1>5 DEF TypedLens, Marks
<1>9. /\ DOMAIN result' = Lenses /\ result'[l] \in [Members(l) -> Results]
      /\ result'[l][i] = r
      /\ \A j \in Members(l) \ {i} : result'[l][j] = result[l][j]
      /\ \A m \in Lenses \ {l} : result'[m] = result[m]
  BY <1>1, <1>4, <1>5, ResultIs
<1>10. ASSUME NEW state \in LensStates, Decide(l, i, state, done)
       PROVE  /\ Skips(l) /\ lensState'[l] = state
              /\ lensState' \in [Lenses -> LensStates] /\ DOMAIN status' = Lenses
              /\ DOMAIN at' = Lenses
              /\ status'[l] \in [Members(l) -> Marks] /\ at'[l] \in 0..End(l)
              /\ status'[l][i] = "completed"
              /\ \A m \in Lenses \ {l} :
                   status'[m] = status[m] /\ at'[m] = at[m] /\ lensState'[m] = lensState[m]
  BY <1>1, <1>4, <1>6, <1>8, <1>10, DecideIs
<1>11. ASSUME at' = [at EXCEPT ![l] = Following(l, i)],
              status' = [status EXCEPT ![l] = done], lensState' = lensState
       PROVE  /\ Goes(l) /\ DOMAIN status' = Lenses /\ DOMAIN at' = Lenses
              /\ lensState' \in [Lenses -> LensStates]
              /\ status'[l] \in [Members(l) -> Marks] /\ at'[l] \in 0..End(l)
              /\ status'[l][i] = "completed"
              /\ \A m \in Lenses \ {l} :
                   status'[m] = status[m] /\ at'[m] = at[m] /\ lensState'[m] = lensState[m]
  <2>1. /\ Goes(l) /\ DOMAIN status' = Lenses /\ DOMAIN at' = Lenses
        /\ status'[l] \in [Members(l) -> Marks] /\ at'[l] \in 0..End(l)
        /\ status'[l][i] = "completed"
        /\ \A m \in Lenses \ {l} : status'[m] = status[m] /\ at'[m] = at[m]
    BY <1>1, <1>4, <1>6, <1>8, <1>11, GoIs
  <2>2. QED
    BY <1>7, <1>11, <2>1
<1>12. "findings" \in LensStates /\ "passed" \in LensStates
  BY DEF LensStates
<1>13. /\ DOMAIN status' = Lenses /\ DOMAIN at' = Lenses
       /\ lensState' \in [Lenses -> LensStates]
       /\ status'[l] \in [Members(l) -> Marks] /\ at'[l] \in 0..End(l)
       /\ status'[l][i] = "completed"
       /\ \A m \in Lenses \ {l} :
            status'[m] = status[m] /\ at'[m] = at[m] /\ lensState'[m] = lensState[m]
  <2>1. \/ \E state \in LensStates : Decide(l, i, state, done)
        \/ /\ at' = [at EXCEPT ![l] = Following(l, i)]
           /\ status' = [status EXCEPT ![l] = done] /\ lensState' = lensState
    BY <1>4, <1>12
  <2>2. CASE \E state \in LensStates : Decide(l, i, state, done)
    BY <1>10, <2>2
  <2>3. CASE /\ at' = [at EXCEPT ![l] = Following(l, i)]
             /\ status' = [status EXCEPT ![l] = done] /\ lensState' = lensState
    BY <1>11, <2>3
  <2>4. QED
    BY <2>1, <2>2, <2>3
<1>14. /\ DOMAIN source' = Lenses /\ DOMAIN passes' = Lenses
       /\ source'[l] \in 0..Count[l] /\ passes'[l] \subseteq Members(l)
       /\ \A m \in Lenses \ {l} : source'[m] = source[m] /\ passes'[m] = passes[m]
  <2>1. source' = source \/ source' = [source EXCEPT ![l] = i]
    BY <1>4
  <2>2. passes' = passes \/ passes' = [passes EXCEPT ![l] = counted]
    BY <1>4
  <2>3. counted \subseteq Members(l) /\ passes[l] \subseteq Members(l) /\ source[l] \in 0..Count[l]
    BY <1>3, <1>4, <1>5 DEF TypedLens
  <2>4. DOMAIN source' = Lenses /\ source'[l] \in 0..Count[l]
        /\ \A m \in Lenses \ {l} : source'[m] = source[m]
    BY <1>6, <1>7, <2>1, <2>3
  <2>5. DOMAIN passes' = Lenses /\ passes'[l] \subseteq Members(l)
        /\ \A m \in Lenses \ {l} : passes'[m] = passes[m]
    BY <1>7, <2>2, <2>3
  <2>6. QED
    BY <2>4, <2>5
<1>15. Alone(l)
  BY <1>4, <1>7, <1>9, <1>13, <1>14 DEF Alone, Same, Shapes
<1>16. TypedLens(l)'
  BY <1>4, <1>5, <1>9, <1>13, <1>14 DEF TypedLens, Members, End
<1>17. Marked(l, "completed", r) /\ status[l][at[l]] = "running" /\ KeepsUnreachable(l)
  BY <1>1, <1>4, <1>9, <1>13 DEF Marked, KeepsUnreachable
<1>18. CompleteEffect(l, r)
  <2>1. CASE /\ source[l] # 0
             /\ Decide(l, i, IF r = "fail2" THEN "findings" ELSE "passed", done)
             /\ UNCHANGED <<source, passes>>
    <3>1. r \in {"fail2", "pass2"}
      BY <1>1, <2>1
    <3>2. CASE r = "fail2"
      BY <1>10, <1>12, <1>17, <2>1, <3>2 DEF CompleteEffect, KeepsOwn
    <3>3. CASE r = "pass2"
      BY <1>10, <1>12, <1>17, <2>1, <3>3 DEF CompleteEffect, KeepsOwn
    <3>4. QED
      BY <3>1, <3>2, <3>3
  <2>2. CASE /\ source[l] = 0 /\ r = "fail4" /\ Adjudicated[l]
             /\ source' = [source EXCEPT ![l] = i]
             /\ at' = [at EXCEPT ![l] = Following(l, i)]
             /\ status' = [status EXCEPT ![l] = done]
             /\ UNCHANGED <<passes, lensState>>
    <3>1. source'[l] = at[l]
      BY <1>1, <1>7, <2>2
    <3>2. QED
      BY <1>11, <1>17, <2>2, <3>1 DEF CompleteEffect
  <2>3. CASE /\ source[l] = 0 /\ r = "fail4" /\ ~Adjudicated[l]
             /\ Decide(l, i, "findings", done)
             /\ UNCHANGED <<source, passes>>
    BY <1>10, <1>12, <1>17, <2>3 DEF CompleteEffect, KeepsOwn
  <2>4. CASE /\ source[l] = 0 /\ r = "pass4"
             /\ passes' = [passes EXCEPT ![l] = counted]
             /\ UNCHANGED source
             /\ \/ Satisfied(l, counted) /\ Decide(l, i, "passed", done)
                \/ /\ ~Satisfied(l, counted)
                   /\ at' = [at EXCEPT ![l] = Following(l, i)]
                   /\ status' = [status EXCEPT ![l] = done]
                   /\ UNCHANGED lensState
    <3>1. passes'[l] = counted /\ counted = passes[l] \cup {at[l]}
      BY <1>1, <1>3, <1>7, <2>4
    <3>2. CASE Satisfied(l, counted) /\ Decide(l, i, "passed", done)
      BY <1>10, <1>12, <1>17, <2>4, <3>1, <3>2 DEF CompleteEffect
    <3>3. CASE ~(Satisfied(l, counted) /\ Decide(l, i, "passed", done))
      BY <1>11, <1>17, <2>4, <3>1, <3>3 DEF CompleteEffect
    <3>4. QED
      BY <3>2, <3>3
  <2>5. QED
    BY <1>4, <2>1, <2>2, <2>3, <2>4
<1>19. QED
  BY <1>5, <1>15, <1>16, <1>18

-----------------------------------------------------------------------------
(* A step leaves its lens sound.                                           *)

LEMMA WalkedMoves ==
  ASSUME NEW l \in Lenses, TypedLens(l), Walked(l), inherited' = inherited,
         at[l] \in 0..Count[l], Skips(l) \/ Goes(l),
         at[l] \in Members(l) => status'[l][at[l]] \in Over
  PROVE  Walked(l)' /\ at'[l] # 0
<1>1. PICK i, k : i = at[l] /\ k = at'[l]
  OBVIOUS
<1>2. /\ Members(l) = 1..Count[l] /\ End(l) = Count[l] + 1 /\ Count[l] \in Nat
      /\ i \in 0..Count[l]
  BY <1>1, MembersAre
<1>3. \A j \in Members(l) :
        /\ j \in inherited[l] => status[l][j] = "completed"
        /\ j < i => status[l][j] \in Over
        /\ j = i => j \notin inherited[l]
        /\ j > i /\ j \notin inherited[l] => status[l][j] = "queued"
  BY <1>1 DEF Walked
<1>4. i \in Members(l) => status'[l][i] \in Over
  BY <1>1
<1>5. CASE Skips(l)
  <2>1. /\ k = End(l)
        /\ \A j \in Members(l) \ {i} :
             status'[l][j] = IF j > i /\ j \notin inherited[l] THEN "skipped" ELSE status[l][j]
    BY <1>1, <1>5 DEF Skips
  <2>2. ASSUME NEW j \in Members(l)
        PROVE  /\ j \in inherited[l] => status'[l][j] = "completed"
               /\ status'[l][j] \in Over /\ j < k /\ ~(j = k) /\ ~(j > k)
    BY <1>2, <1>3, <1>4, <2>1 DEF Over
  <2>3. k # 0
    BY <1>2, <2>1
  <2>4. QED
    BY <1>1, <1>2, <2>2, <2>3 DEF Walked, Members
<1>6. CASE Goes(l)
  <2>1. k = Following(l, i) /\ \A j \in Members(l) \ {i} : status'[l][j] = status[l][j]
    BY <1>1, <1>6 DEF Goes
  <2>2. /\ k \in (i + 1)..End(l) /\ (k = End(l) \/ k \notin inherited[l])
        /\ \A j \in (i + 1)..(k - 1) : j \in inherited[l]
    BY <1>2, <2>1, FollowingIs
  <2>3. ASSUME NEW j \in Members(l)
        PROVE  /\ j \in inherited[l] => status'[l][j] = "completed"
               /\ j < k => status'[l][j] \in Over
               /\ j = k => j \notin inherited[l] /\ status'[l][j] = "queued"
               /\ j > k /\ j \notin inherited[l] => status'[l][j] = "queued"
    <3>1. CASE j = i
      BY <1>2, <1>3, <1>4, <2>2, <3>1
    <3>2. CASE j < i
      BY <1>2, <1>3, <2>1, <2>2, <3>2
    <3>3. CASE j > i /\ j < k
      <4>1. j \in (i + 1)..(k - 1)
        BY <1>2, <2>2, <3>3
      <4>2. QED
        BY <1>2, <1>3, <2>1, <2>2, <3>3, <4>1 DEF Over
    <3>4. CASE j > i /\ j >= k
      BY <1>2, <1>3, <2>1, <2>2, <3>4
    <3>5. QED
      BY <1>2, <2>2, <3>1, <3>2, <3>3, <3>4
  <2>4. k # 0
    BY <1>2, <2>2
  <2>5. QED
    BY <1>1, <2>3, <2>4 DEF Walked, Members
<1>7. QED
  BY <1>5, <1>6

\* What is complete after a step of the chain: what was, and the reviewer it marks so.
LEMMA CompletedGrows ==
  ASSUME NEW l \in Lenses, TypedLens(l), Walked(l), at[l] \in Members(l),
         status[l][at[l]] \in {"queued", "running"},
         Skips(l) \/ Goes(l), NEW mark, NEW r, Marked(l, mark, r), NEW q
  PROVE  Completed(l, q)' = Completed(l, q) \cup {j \in {at[l]} : mark = "completed" /\ r = q}
<1>1. PICK i : i = at[l]
  OBVIOUS
<1>2. /\ i \in Members(l) /\ status[l][i] # "completed" /\ status'[l][i] = mark
      /\ result'[l][i] = r
      /\ \A j \in Members(l) \ {i} : result'[l][j] = result[l][j]
  BY <1>1 DEF Marked
<1>3. ASSUME NEW j \in Members(l) \ {i}
      PROVE  status'[l][j] = "completed" <=> status[l][j] = "completed"
  <2>1. i \in Nat /\ j \in Nat
    BY <1>2, <1>3, MembersAre
  <2>2. CASE Skips(l)
    <3>1. status'[l][j] = IF j > i /\ j \notin inherited[l] THEN "skipped" ELSE status[l][j]
      BY <1>1, <1>3, <2>2 DEF Skips
    <3>2. j > i /\ j \notin inherited[l] => status[l][j] = "queued"
      BY <1>1, <1>3 DEF Walked
    <3>3. QED
      BY <3>1, <3>2
  <2>3. CASE Goes(l)
    BY <1>1, <1>3, <2>3 DEF Goes
  <2>4. QED
    BY <2>2, <2>3
<1>4. Completed(l, q)' = {j \in Members(l) : status'[l][j] = "completed" /\ result'[l][j] = q}
  BY DEF Completed, Members
<1>5. QED
  BY <1>1, <1>2, <1>3, <1>4 DEF Completed

\* Before the chain begins, what is complete is what is inherited, and its beginning
\* completes nothing.
LEMMA CompletedStarts ==
  ASSUME NEW l \in Lenses, TypedLens(l), Walked(l), at[l] = 0, NEW q
  PROVE  /\ Completed(l, q) = {i \in inherited[l] : result[l][i] = q}
         /\ (Skips(l) \/ Goes(l)) /\ result'[l] = result[l] => Completed(l, q)' = Completed(l, q)
<1>1. Members(l) = 1..Count[l] /\ Count[l] \in Nat
  BY MembersAre
<1>2. \A i \in Members(l) :
        /\ i \in inherited[l] => status[l][i] = "completed"
        /\ i \notin inherited[l] => status[l][i] = "queued"
  BY <1>1 DEF Walked
<1>3. Completed(l, q) = {i \in inherited[l] : result[l][i] = q}
  BY <1>2 DEF Completed, TypedLens
<1>4. ASSUME Skips(l) \/ Goes(l), result'[l] = result[l]
      PROVE  Completed(l, q)' = Completed(l, q)
  <2>1. ASSUME NEW j \in Members(l)
        PROVE  status'[l][j] = "completed" <=> status[l][j] = "completed"
    <3>1. j # 0 /\ j > 0
      BY <1>1, <2>1
    <3>2. CASE Skips(l)
      BY <1>2, <2>1, <3>1, <3>2 DEF Skips
    <3>3. CASE Goes(l)
      BY <2>1, <3>1, <3>3 DEF Goes
    <3>4. QED
      BY <1>4, <3>2, <3>3
  <2>2. Completed(l, q)' = {j \in Members(l) : status'[l][j] = "completed" /\ result'[l][j] = q}
    BY DEF Completed, Members
  <2>3. QED
    BY <1>4, <2>1, <2>2 DEF Completed
<1>5. QED
  BY <1>3, <1>4

LEMMA SameKeeps ==
  ASSUME NEW l \in Lenses, Same(l), LensSound(l)
  PROVE  LensSound(l)'
<1>1. \A r : Completed(l, r)' = Completed(l, r) /\ Kept(l, r)' = Kept(l, r)
  BY DEF Same, Completed, Kept, Members
<1>2. Walked(l)'
  BY DEF Same, LensSound, Walked, Members
<1>3. Staged(l)'
  BY DEF Same, LensSound, Staged, End
<1>4. Adjudges(l)'
  BY <1>1 DEF Same, LensSound, Adjudges
<1>5. Judged(l)'
  BY <1>1 DEF Same, LensSound, Judged, Earned, FindingStands, Satisfied, Groups, Quorum
<1>6. Unreached(l)'
  BY <1>1 DEF Same, LensSound, Unreached, Rest, Satisfied, Groups, Members
<1>7. KeptSound(l)'
  BY <1>1 DEF Same, LensSound, KeptSound, Quorum
<1>8. QED
  BY <1>2, <1>3, <1>4, <1>5, <1>6, <1>7 DEF LensSound

\* The beginning of a chain, whatever it inherits.
LEMMA StartSound ==
  ASSUME NEW l \in Lenses, TypedLens(l), LensSound(l), Alone(l), StartEffect(l)
  PROVE  LensSound(l)'
<1>1. /\ Walked(l) /\ Staged(l) /\ Adjudges(l) /\ Judged(l) /\ Unreached(l)
      /\ at[l] = 0 /\ result'[l] = result[l] /\ inherited' = inherited /\ kind' = kind
      /\ Skips(l) \/ Goes(l)
  BY DEF LensSound, StartEffect, Alone
<1>2. at[l] \in 0..Count[l] /\ at[l] \notin Members(l)
  BY <1>1, MembersAre
<1>3. Walked(l)' /\ at'[l] # 0
  BY <1>1, <1>2, WalkedMoves
<1>4. /\ \A q : Completed(l, q) = Kept(l, q) /\ Completed(l, q)' = Completed(l, q)
      /\ \A q : Kept(l, q)' = Kept(l, q)
  BY <1>1, CompletedStarts DEF Kept
<1>5. l \notin unreachable'
  BY <1>1 DEF Unreached, StartEffect, KeepsUnreachable
<1>6. Unreached(l)'
  BY <1>5 DEF Unreached
<1>7. /\ FinalFindings(l) = Kept(l, "fail2") \cup {i \in Kept(l, "fail4") : ~Adjudicated[l]}
      /\ OpenFindings(l) = {i \in Kept(l, "fail4") : Adjudicated[l]}
      /\ InheritedPasses(l) = Kept(l, "pass4") \cup Kept(l, "pass2")
  BY DEF FinalFindings, OpenFindings, InheritedPasses, Passing, Kept
<1>8. Kept(l, "pass2") \cup Kept(l, "fail2") # {} => Adjudicated[l] /\ Kept(l, "fail4") # {}
  BY <1>1, <1>4 DEF Adjudges
<1>9. \A q : Kept(l, q) \subseteq Members(l)
  BY DEF Kept, TypedLens
<1>10. /\ OpenFindings(l) = {} => LastOf(OpenFindings(l)) = 0
       /\ OpenFindings(l) # {} =>
            LastOf(OpenFindings(l)) \in OpenFindings(l) /\ LastOf(OpenFindings(l)) # 0
  <2>1. PICK S, n : S = OpenFindings(l) /\ n = Count[l]
    OBVIOUS
  <2>2. n \in Nat /\ S \in SUBSET (1..n)
    BY <1>7, <1>9, <2>1, MembersAre
  <2>3. S = {} => LastOf(S) = 0
    BY <2>2, LastIs
  <2>4. S # {} => LastOf(S) \in S
    BY <2>2, LastIs
  <2>5. QED
    BY <2>1, <2>2, <2>3, <2>4
<1>11. CASE /\ Skips(l) /\ KeepsOwn(l)
            /\ \/ kind[l] = "missing_input" /\ lensState'[l] = "not_evaluated"
               \/ kind[l] = "irrelevant" /\ lensState'[l] = "not_applicable"
  <2>1. Staged(l)'
    BY <1>1, <1>3, <1>11 DEF Staged, Skips, Decided, End
  <2>2. Adjudges(l)'
    BY <1>1, <1>4, <1>11 DEF Adjudges, KeepsOwn
  <2>3. Judged(l)'
    BY <1>11 DEF Judged
  <2>4. KeptSound(l)'
    BY <1>1, <1>11 DEF KeptSound
  <2>5. QED
    BY <1>3, <1>6, <2>1, <2>2, <2>3, <2>4 DEF LensSound
<1>12. CASE /\ kind[l] = "evaluated" /\ FinalFindings(l) # {} /\ Skips(l)
            /\ source'[l] = source[l] /\ lensState'[l] = "findings"
  <2>1. Staged(l)'
    BY <1>1, <1>3, <1>12 DEF Staged, Skips, Decided, End
  <2>2. Adjudges(l)'
    BY <1>1, <1>4, <1>12 DEF Adjudges
  <2>3. Judged(l)'
    <3>1. FindingStands(l)'
      BY <1>4, <1>7, <1>12 DEF FindingStands
    <3>2. QED
      BY <1>12, <3>1 DEF Judged
  <2>4. KeptSound(l)'
    <3>1. Kept(l, "fail4") # {}
      BY <1>7, <1>8, <1>12
    <3>2. QED
      BY <1>4, <1>12, <3>1 DEF KeptSound
  <2>5. QED
    BY <1>3, <1>6, <2>1, <2>2, <2>3, <2>4 DEF LensSound
<1>13. CASE /\ kind[l] = "evaluated" /\ FinalFindings(l) = {} /\ passes'[l] = InheritedPasses(l)
            /\ source'[l] = LastOf(OpenFindings(l))
            /\ source'[l] = 0 /\ Satisfied(l, InheritedPasses(l))
            /\ Skips(l) /\ lensState'[l] = "passed"
  <2>1. Kept(l, "fail4") = {} /\ Kept(l, "fail2") = {} /\ Kept(l, "pass2") = {}
    BY <1>7, <1>8, <1>10, <1>13
  <2>2. Staged(l)'
    BY <1>1, <1>3, <1>13 DEF Staged, Skips, Decided, End
  <2>3. Adjudges(l)'
    BY <1>4, <1>13, <2>1 DEF Adjudges
  <2>4. Judged(l)'
    <3>1. PICK S : S = Kept(l, "pass4")
      OBVIOUS
    <3>2. Satisfied(l, S) /\ S \in SUBSET Members(l)
      BY <1>7, <1>9, <1>13, <2>1, <3>1
    <3>3. Quorum(l, S)
      BY <3>2, QuorumIsSatisfied
    <3>4. Earned(l)'
      BY <1>4, <2>1, <3>1, <3>3 DEF Earned, Quorum
    <3>5. QED
      BY <1>13, <3>4 DEF Judged
  <2>5. KeptSound(l)'
    BY <1>4, <1>13, <2>1 DEF KeptSound
  <2>6. QED
    BY <1>3, <1>6, <2>2, <2>3, <2>4, <2>5 DEF LensSound
<1>14. CASE /\ kind[l] = "evaluated" /\ FinalFindings(l) = {} /\ passes'[l] = InheritedPasses(l)
            /\ source'[l] = LastOf(OpenFindings(l))
            /\ source'[l] # 0 \/ ~Satisfied(l, InheritedPasses(l))
            /\ Goes(l) /\ lensState'[l] = "incomplete"
  <2>1. Kept(l, "fail2") = {} /\ (Kept(l, "fail4") = {} => source'[l] = 0)
        /\ (source'[l] = 0 => Kept(l, "fail4") = {})
        /\ (source'[l] # 0 => source'[l] \in Kept(l, "fail4") /\ Adjudicated[l])
    BY <1>7, <1>8, <1>10, <1>14
  <2>2. Staged(l)'
    BY <1>1, <1>3, <1>14 DEF Staged, Decided
  <2>3. Adjudges(l)'
    BY <1>4, <1>8, <2>1 DEF Adjudges
  <2>4. source'[l] = 0 => passes'[l] = Kept(l, "pass4")
    BY <1>7, <1>8, <1>14, <2>1
  <2>5. Judged(l)'
    <3>1. PICK S : S = InheritedPasses(l)
      OBVIOUS
    <3>2. source'[l] = 0 => ~Satisfied(l, S) /\ passes'[l] = S
      BY <1>14, <3>1
    <3>3. source'[l] = 0 => ~Satisfied(l, passes[l])'
      BY <3>2 DEF Satisfied, Groups
    <3>4. QED
      BY <1>4, <1>14, <2>1, <2>4, <3>3 DEF Judged
  <2>6. KeptSound(l)'
    <3>1. ASSUME Kept(l, "fail4") = {}, Quorum(l, Kept(l, "pass4")) PROVE FALSE
      <4>1. PICK S, T : S = InheritedPasses(l) /\ T = Kept(l, "pass4")
        OBVIOUS
      <4>2. ~Satisfied(l, S)
        BY <1>14, <2>1, <3>1, <4>1
      <4>3. S \in SUBSET Members(l) /\ T \in SUBSET S
        BY <1>7, <1>9, <4>1
      <4>4. Satisfied(l, T)
        BY <3>1, <4>1, <4>3, QuorumIsSatisfied
      <4>5. QED
        BY <4>2, <4>3, <4>4, SatisfiedGrows
    <3>2. QED
      BY <1>4, <2>1, <3>1 DEF KeptSound, Quorum
  <2>7. QED
    BY <1>3, <1>6, <2>2, <2>3, <2>5, <2>6 DEF LensSound
<1>15. QED
  BY <1>11, <1>12, <1>13, <1>14 DEF StartEffect

\* An undecided chain at one of its reviewers.
LEMMA AtReviewer ==
  ASSUME NEW l \in Lenses, TypedLens(l), LensSound(l), at[l] \in Members(l),
         lensState[l] \in LensStates
  PROVE  /\ lensState[l] = "incomplete" /\ kind[l] = "evaluated" /\ at[l] # 0
         /\ at[l] \in 0..Count[l] /\ at[l] \notin inherited[l]
         /\ status[l][at[l]] \in {"queued", "running"}
         /\ ~(Kept(l, "fail4") = {} /\ Quorum(l, Kept(l, "pass4"))) /\ Kept(l, "fail2") = {}
         /\ Completed(l, "fail2") = {}
         /\ source[l] = 0 => /\ Completed(l, "fail4") = {}
                             /\ passes[l] = Completed(l, "pass4")
                             /\ ~Satisfied(l, passes[l])
<1>1. at[l] # 0 /\ at[l] # End(l) /\ at[l] \in 0..Count[l]
  BY MembersAre
<1>2. lensState[l] = "incomplete" /\ kind[l] = "evaluated"
  BY <1>1 DEF LensSound, Staged, LensStates, Decided
<1>3. at[l] \notin inherited[l] /\ status[l][at[l]] \in {"queued", "running"}
  BY DEF LensSound, Walked
<1>4. ~(Kept(l, "fail4") = {} /\ Quorum(l, Kept(l, "pass4"))) /\ Kept(l, "fail2") = {}
  BY <1>1, <1>2 DEF LensSound, KeptSound
<1>5. QED
  BY <1>1, <1>2, <1>3, <1>4 DEF LensSound, Judged

\* What is inherited is not touched where the chain stands at a reviewer.
LEMMA KeptStays ==
  ASSUME NEW l \in Lenses, TypedLens(l), at[l] \notin inherited[l], inherited' = inherited,
         \A j \in Members(l) \ {at[l]} : result'[l][j] = result[l][j], NEW q
  PROVE  Kept(l, q)' = Kept(l, q)
BY DEF Kept, TypedLens

\* Who is left behind a later position was left before.
LEMMA RestShrinks ==
  ASSUME NEW l \in Lenses, TypedLens(l), at[l] \in Members(l), at[l] \notin inherited[l],
         inherited' = inherited, Skips(l) \/ Goes(l)
  PROVE  /\ Rest(l, at[l])' \subseteq {j \in Members(l) \ inherited[l] : j > at[l]}
         /\ {j \in Members(l) \ inherited[l] : j > at[l]} \subseteq Rest(l, at[l])
         /\ at[l] \in Rest(l, at[l])
         /\ Rest(l, at[l]) \subseteq Members(l)
<1>1. PICK i, k : i = at[l] /\ k = at'[l]
  OBVIOUS
<1>2. /\ Members(l) = 1..Count[l] /\ Count[l] \in Nat /\ End(l) = Count[l] + 1
      /\ i \in Members(l) /\ i \in 0..Count[l]
  BY <1>1, MembersAre
<1>3. k \in Nat /\ k > i
  <2>1. CASE Skips(l)
    BY <1>1, <1>2, <2>1 DEF Skips
  <2>2. CASE Goes(l)
    <3>1. k = Following(l, i)
      BY <1>1, <2>2 DEF Goes
    <3>2. k \in (i + 1)..End(l)
      BY <1>2, <3>1, FollowingIs
    <3>3. QED
      BY <1>2, <3>2
  <2>3. QED
    BY <2>1, <2>2
<1>4. Rest(l, at[l])' = {j \in Members(l) \ inherited[l] : j >= k}
  BY <1>1 DEF Rest, Members
<1>5. QED
  BY <1>1, <1>2, <1>3, <1>4 DEF Rest

LEMMA Unsatisfied ==
  ASSUME NEW l \in Lenses, NEW T \in SUBSET Members(l), NEW S \in SUBSET T, ~Satisfied(l, T)
  PROVE  ~Satisfied(l, S)
BY SatisfiedGrows

\* A reviewer that ends without a completed result leaves its lens as undecided as
\* it was.
LEMMA UndecidedStays ==
  ASSUME NEW l \in Lenses, TypedLens(l), LensSound(l), lensState[l] \in LensStates,
         Alone(l), at[l] \in Members(l), NEW mark, NEW r, Marked(l, mark, r),
         mark \in Over \ {"completed"}, Skips(l) \/ Goes(l),
         KeepsOwn(l), lensState'[l] = lensState[l],
         KeepsUnreachable(l) \/ ~Reachable(l, passes[l], at[l])
  PROVE  LensSound(l)'
<1>1. /\ Walked(l) /\ Staged(l) /\ Adjudges(l) /\ Judged(l) /\ Unreached(l)
      /\ inherited' = inherited /\ kind' = kind
  BY DEF LensSound, Alone
<1>2. /\ lensState[l] = "incomplete" /\ kind[l] = "evaluated" /\ at[l] # 0
      /\ at[l] \in 0..Count[l] /\ at[l] \notin inherited[l]
      /\ status[l][at[l]] \in {"queued", "running"}
      /\ ~(Kept(l, "fail4") = {} /\ Quorum(l, Kept(l, "pass4"))) /\ Kept(l, "fail2") = {}
  BY AtReviewer
<1>3. status'[l][at[l]] \in Over
  BY DEF Marked
<1>4. Walked(l)' /\ at'[l] # 0
  BY <1>1, <1>2, <1>3, WalkedMoves
<1>5. ASSUME NEW q PROVE Completed(l, q)' = Completed(l, q)
  <2>1. Completed(l, q)' = Completed(l, q) \cup {j \in {at[l]} : mark = "completed" /\ r = q}
    BY <1>1, <1>2, CompletedGrows
  <2>2. QED
    BY <2>1
<1>6. \A q : Kept(l, q)' = Kept(l, q)
  BY <1>1, <1>2, KeptStays DEF Marked
<1>7. Staged(l)'
  BY <1>1, <1>2, <1>4 DEF Staged, Decided
<1>8. Adjudges(l)'
  BY <1>1, <1>5 DEF Adjudges, KeepsOwn
<1>9. Judged(l)'
  <2>1. Satisfied(l, passes[l])' = Satisfied(l, passes[l])
    BY DEF KeepsOwn, Satisfied, Groups
  <2>2. QED
    BY <1>1, <1>2, <1>5, <2>1 DEF Judged, KeepsOwn
<1>10. Unreached(l)'
  <2>1. ASSUME l \in unreachable', source[l] = 0
        PROVE  ~Satisfied(l, passes[l] \cup Rest(l, at[l]))'
    <3>1. PICK S, M, T : /\ S = passes[l] \cup Rest(l, at[l])'
                         /\ M = passes[l] \cup {j \in Members(l) \ inherited[l] : j > at[l]}
                         /\ T = passes[l] \cup Rest(l, at[l])
      OBVIOUS
    <3>2. /\ S \subseteq M /\ M \subseteq T /\ T \subseteq Members(l)
      BY <1>1, <1>2, <3>1, RestShrinks DEF TypedLens
    <3>3. ~Satisfied(l, M) \/ ~Satisfied(l, T)
      BY <1>1, <1>2, <2>1, <3>1 DEF Unreached, KeepsUnreachable, Reachable
    <3>4. ~Satisfied(l, S)
      BY <3>2, <3>3, Unsatisfied
    <3>5. (passes[l] \cup Rest(l, at[l]))' = S
      BY <3>1 DEF KeepsOwn
    <3>6. QED
      BY <3>4, <3>5 DEF Satisfied, Groups
  <2>2. QED
    BY <1>2, <1>4, <2>1 DEF Unreached, KeepsOwn
<1>11. KeptSound(l)'
  BY <1>2, <1>6 DEF KeptSound, Quorum
<1>12. QED
  BY <1>4, <1>7, <1>8, <1>9, <1>10, <1>11 DEF LensSound

LEMMA ReachSound ==
  ASSUME NEW l \in Lenses, TypedLens(l), LensSound(l), lensState[l] \in LensStates,
         Alone(l), ReachEffect(l)
  PROVE  LensSound(l)'
<1>1. /\ at[l] \in Members(l) /\ status[l][at[l]] = "queued" /\ result'[l] = result[l]
      /\ KeepsOwn(l) /\ KeepsUnreachable(l) /\ lensState'[l] = lensState[l]
      /\ inherited' = inherited /\ kind' = kind
  BY DEF ReachEffect, Alone
<1>2. CASE Goes(l) /\ status'[l][at[l]] = "skipped"
  <2>1. PICK r : r = result[l][at[l]]
    OBVIOUS
  <2>2. Marked(l, "skipped", r)
    BY <1>1, <1>2, <2>1 DEF Marked
  <2>3. QED
    BY <1>1, <1>2, <2>2, UndecidedStays DEF Over
<1>3. CASE /\ at'[l] = at[l] /\ status'[l][at[l]] = "running"
           /\ \A j \in Members(l) \ {at[l]} : status'[l][j] = status[l][j]
  <2>1. \A q : Completed(l, q)' = Completed(l, q)
    BY <1>1, <1>3 DEF Completed, Members
  <2>2. \A q : Kept(l, q)' = Kept(l, q)
    BY <1>1 DEF Kept
  <2>3. Walked(l)'
    <3>1. PICK i : i = at[l]
      OBVIOUS
    <3>2. i \in Nat /\ \A j \in Members(l) : j \in Nat
      BY <1>1, <3>1, MembersAre
    <3>3. \A j \in Members(l) :
            /\ j \in inherited[l] => status[l][j] = "completed"
            /\ j < i => status[l][j] \in Over
            /\ j = i => j \notin inherited[l]
            /\ j > i /\ j \notin inherited[l] => status[l][j] = "queued"
      BY <3>1 DEF LensSound, Walked
    <3>4. ASSUME NEW j \in Members(l)
          PROVE  /\ j \in inherited[l] => status'[l][j] = "completed"
                 /\ j < i => status'[l][j] \in Over
                 /\ j = i => j \notin inherited[l] /\ status'[l][j] \in {"queued", "running"}
                 /\ j > i /\ j \notin inherited[l] => status'[l][j] = "queued"
      BY <1>3, <3>1, <3>2, <3>3
    <3>5. QED
      BY <1>1, <1>3, <3>1, <3>4 DEF Walked, Members
  <2>4. Staged(l)'
    BY <1>1, <1>3 DEF LensSound, Staged, End
  <2>5. Adjudges(l)'
    BY <1>1, <2>1 DEF LensSound, Adjudges, KeepsOwn
  <2>6. Judged(l)'
    BY <1>1, <2>1 DEF LensSound, Judged, KeepsOwn, Satisfied, Groups, Earned, Quorum,
                      FindingStands
  <2>7. Unreached(l)'
    BY <1>1, <1>3, <2>1 DEF LensSound, Unreached, KeepsOwn, KeepsUnreachable, Rest, Members,
                            Satisfied, Groups
  <2>8. KeptSound(l)'
    BY <1>1, <1>3, <2>2 DEF LensSound, KeptSound, Quorum
  <2>9. QED
    BY <2>3, <2>4, <2>5, <2>6, <2>7, <2>8 DEF LensSound
<1>4. QED
  BY <1>2, <1>3 DEF ReachEffect

LEMMA FailSound ==
  ASSUME NEW l \in Lenses, TypedLens(l), LensSound(l), lensState[l] \in LensStates,
         Alone(l), NEW left, FailEffect(l, left)
  PROVE  LensSound(l)'
<1>1. /\ Marked(l, "incomplete", left) /\ KeepsOwn(l) /\ lensState'[l] = lensState[l]
      /\ Skips(l) \/ Goes(l)
      /\ KeepsUnreachable(l) \/ ~Reachable(l, passes[l], at[l])
  BY DEF FailEffect
<1>2. at[l] \in Members(l) /\ "incomplete" \in Over \ {"completed"}
  BY <1>1 DEF Marked, Over
<1>3. QED
  BY <1>1, <1>2, UndecidedStays

\* A result decides its lens rightly, or leaves it rightly undecided.
LEMMA CompleteSound ==
  ASSUME NEW l \in Lenses, TypedLens(l), LensSound(l), lensState[l] \in LensStates,
         Alone(l), NEW r \in {"pass4", "fail4", "pass2", "fail2"}, CompleteEffect(l, r)
  PROVE  LensSound(l)'
<1>1. /\ Walked(l) /\ Staged(l) /\ Adjudges(l) /\ Judged(l) /\ Unreached(l)
      /\ inherited' = inherited /\ kind' = kind
  BY DEF LensSound, Alone
<1>2. /\ Marked(l, "completed", r) /\ KeepsUnreachable(l) /\ at[l] \in Members(l)
      /\ Skips(l) \/ Goes(l)
  BY DEF CompleteEffect, Marked
<1>3. /\ lensState[l] = "incomplete" /\ kind[l] = "evaluated" /\ at[l] # 0
      /\ at[l] \in 0..Count[l] /\ at[l] \notin inherited[l]
      /\ status[l][at[l]] \in {"queued", "running"}
      /\ ~(Kept(l, "fail4") = {} /\ Quorum(l, Kept(l, "pass4"))) /\ Kept(l, "fail2") = {}
      /\ Completed(l, "fail2") = {}
      /\ source[l] = 0 => /\ Completed(l, "fail4") = {}
                          /\ passes[l] = Completed(l, "pass4")
                          /\ ~Satisfied(l, passes[l])
  BY <1>2, AtReviewer
<1>4. Walked(l)' /\ at'[l] # 0
  <2>1. status'[l][at[l]] \in Over
    BY <1>2 DEF Marked, Over
  <2>2. QED
    BY <1>1, <1>2, <1>3, <2>1, WalkedMoves
<1>5. ASSUME NEW q
      PROVE  Completed(l, q)' = Completed(l, q) \cup {j \in {at[l]} : r = q}
  <2>1. PICK mark : mark = "completed"
    OBVIOUS
  <2>2. Marked(l, mark, r)
    BY <1>2, <2>1
  <2>3. Completed(l, q)' = Completed(l, q) \cup {j \in {at[l]} : mark = "completed" /\ r = q}
    BY <1>1, <1>2, <1>3, <2>2, CompletedGrows
  <2>4. QED
    BY <2>1, <2>3
<1>6. \A q : Kept(l, q)' = Kept(l, q)
  BY <1>1, <1>2, <1>3, KeptStays DEF Marked
<1>7. KeptSound(l)'
  BY <1>3, <1>6 DEF KeptSound, Quorum
<1>8. CASE /\ source[l] # 0 /\ KeepsOwn(l) /\ Skips(l)
           /\ \/ r = "fail2" /\ lensState'[l] = "findings"
              \/ r = "pass2" /\ lensState'[l] = "passed"
  <2>1. Adjudicated[l] /\ source[l] \in Completed(l, "fail4")
    BY <1>1, <1>8 DEF Adjudges
  <2>2. Completed(l, "fail4")' # {} /\ source[l] \in Completed(l, "fail4")'
    BY <1>5, <2>1
  <2>3. Staged(l)'
    BY <1>1, <1>3, <1>4, <1>8 DEF Staged, Decided, Skips, End
  <2>4. Adjudges(l)'
    BY <1>8, <2>1, <2>2 DEF Adjudges, KeepsOwn
  <2>5. Judged(l)'
    <3>1. CASE r = "fail2"
      <4>1. at[l] \in Completed(l, "fail2")'
        BY <1>5, <3>1
      <4>2. FindingStands(l)'
        BY <4>1 DEF FindingStands
      <4>3. QED
        BY <1>8, <3>1, <4>2 DEF Judged
    <3>2. CASE r = "pass2"
      <4>1. at[l] \in Completed(l, "pass2")' /\ Completed(l, "fail2")' = {}
        BY <1>3, <1>5, <3>2
      <4>2. Earned(l)'
        BY <2>1, <2>2, <4>1 DEF Earned
      <4>3. QED
        BY <1>8, <3>2, <4>2 DEF Judged
    <3>3. QED
      BY <1>8, <3>1, <3>2
  <2>6. Unreached(l)'
    BY <1>4, <1>8, <2>2 DEF Unreached
  <2>7. QED
    BY <1>4, <1>7, <2>3, <2>4, <2>5, <2>6 DEF LensSound
<1>9. CASE /\ source[l] = 0 /\ r = "fail4" /\ Adjudicated[l]
           /\ source'[l] = at[l] /\ passes'[l] = passes[l] /\ Goes(l)
           /\ lensState'[l] = lensState[l]
  <2>1. at[l] \in Completed(l, "fail4")'
    BY <1>5, <1>9
  <2>2. Staged(l)'
    BY <1>1, <1>3, <1>4, <1>9 DEF Staged, Decided
  <2>3. Adjudges(l)'
    BY <1>9, <2>1 DEF Adjudges
  <2>4. Judged(l)'
    <3>1. Completed(l, "fail2")' = {}
      BY <1>3, <1>5, <1>9
    <3>2. QED
      BY <1>3, <1>9, <3>1 DEF Judged
  <2>5. Unreached(l)'
    BY <1>3, <1>4, <1>9 DEF Unreached
  <2>6. QED
    BY <1>4, <1>7, <2>2, <2>3, <2>4, <2>5 DEF LensSound
<1>10. CASE /\ source[l] = 0 /\ r = "fail4" /\ ~Adjudicated[l] /\ KeepsOwn(l) /\ Skips(l)
            /\ lensState'[l] = "findings"
  <2>1. at[l] \in Completed(l, "fail4")'
    BY <1>5, <1>10
  <2>2. Staged(l)'
    BY <1>1, <1>3, <1>4, <1>10 DEF Staged, Decided, Skips, End
  <2>3. Adjudges(l)'
    <3>1. Completed(l, "pass2")' = Completed(l, "pass2")
          /\ Completed(l, "fail2")' = Completed(l, "fail2")
      BY <1>5, <1>10
    <3>2. QED
      BY <1>1, <1>10, <2>1, <3>1 DEF Adjudges, KeepsOwn
  <2>4. Judged(l)'
    <3>1. FindingStands(l)'
      BY <1>10, <2>1 DEF FindingStands
    <3>2. QED
      BY <1>10, <3>1 DEF Judged
  <2>5. Unreached(l)'
    BY <1>4, <1>10 DEF Unreached
  <2>6. QED
    BY <1>4, <1>7, <2>2, <2>3, <2>4, <2>5 DEF LensSound
<1>11. CASE /\ source[l] = 0 /\ r = "pass4" /\ source'[l] = source[l]
            /\ passes'[l] = passes[l] \cup {at[l]}
            /\ \/ /\ Satisfied(l, passes[l] \cup {at[l]}) /\ Skips(l)
                  /\ lensState'[l] = "passed"
               \/ /\ ~Satisfied(l, passes[l] \cup {at[l]}) /\ Goes(l)
                  /\ lensState'[l] = lensState[l]
  <2>1. PICK S : S = passes[l] \cup {at[l]}
    OBVIOUS
  <2>2. S \in SUBSET Members(l) /\ passes'[l] = S
    BY <1>2, <1>11, <2>1 DEF TypedLens
  <2>3. /\ Completed(l, "pass4")' = S
        /\ Completed(l, "fail4")' = {} /\ Completed(l, "fail2")' = {}
        /\ Completed(l, "pass2")' = Completed(l, "pass2")
    <3>1. PICK i : i = at[l]
      OBVIOUS
    <3>2. \A q : Completed(l, q)' = Completed(l, q) \cup {j \in {i} : r = q}
      BY <1>5, <3>1
    <3>3. {j \in {i} : r = "pass4"} = {i} /\ \A q : q # "pass4" => {j \in {i} : r = q} = {}
      BY <1>11
    <3>4. Completed(l, "pass4")' = Completed(l, "pass4") \cup {i}
      BY <3>2, <3>3
    <3>5. \A q : q # "pass4" => Completed(l, q)' = Completed(l, q)
      BY <3>2, <3>3
    <3>6. QED
      BY <1>3, <1>11, <2>1, <3>1, <3>4, <3>5
  <2>4. Staged(l)'
    BY <1>1, <1>3, <1>4, <1>11 DEF Staged, Decided, Skips, End
  <2>5. Adjudges(l)'
    BY <1>1, <1>3, <1>11, <2>3 DEF Adjudges
  <2>6. Judged(l)'
    <3>1. CASE Satisfied(l, S) /\ lensState'[l] = "passed"
      <4>1. Quorum(l, S)
        BY <2>2, <3>1, QuorumIsSatisfied
      <4>2. Earned(l)'
        BY <2>3, <4>1 DEF Earned, Quorum
      <4>3. QED
        BY <3>1, <4>2 DEF Judged
    <3>2. CASE ~Satisfied(l, S) /\ lensState'[l] = lensState[l]
      <4>1. ~Satisfied(l, passes[l])'
        BY <2>2, <3>2 DEF Satisfied, Groups
      <4>2. QED
        BY <1>3, <2>2, <2>3, <3>2, <4>1 DEF Judged
    <3>3. QED
      BY <1>11, <2>1, <3>1, <3>2
  <2>7. Unreached(l)'
    <3>1. ASSUME l \in unreachable'
          PROVE  /\ ~Satisfied(l, S)
                 /\ ~Satisfied(l, passes[l] \cup Rest(l, at[l]))'
      <4>1. PICK T, R : /\ T = passes[l] \cup Rest(l, at[l])
                        /\ R = passes'[l] \cup Rest(l, at[l])'
        OBVIOUS
      <4>2. ~Satisfied(l, T)
        BY <1>1, <1>2, <1>3, <1>11, <3>1, <4>1 DEF Unreached, KeepsUnreachable
      <4>3. S \subseteq T /\ R \subseteq T /\ T \subseteq Members(l)
        BY <1>1, <1>2, <1>3, <2>1, <2>2, <4>1, RestShrinks DEF TypedLens
      <4>4. ~Satisfied(l, S) /\ ~Satisfied(l, R)
        BY <4>2, <4>3, Unsatisfied
      <4>5. QED
        BY <4>1, <4>4 DEF Satisfied, Groups
    <3>2. l \in unreachable' => lensState'[l] # "passed"
      BY <1>3, <1>11, <2>1, <3>1
    <3>3. QED
      BY <1>4, <3>1, <3>2 DEF Unreached
  <2>8. QED
    BY <1>4, <1>7, <2>4, <2>5, <2>6, <2>7 DEF LensSound
<1>12. QED
  BY <1>8, <1>9, <1>10, <1>11 DEF CompleteEffect

-----------------------------------------------------------------------------
(* Every step.                                                             *)

Chained(l) == Alone(l) /\ TypedLens(l)' /\ LensSound(l)'

LEMMA ChainStep ==
  ASSUME LInv, NEW l \in Lenses, Step(l)
  PROVE  Chained(l) /\ outcome = Open
<1>1. TypeOK /\ Shapes /\ TypedLens(l) /\ LensSound(l) /\ lensState[l] \in LensStates
      /\ SummarySound
  BY TypesOfLens DEF LInv, TypeOK
<1>2. at[l] \in Members(l) => outcome = Open
  BY <1>1, MembersAre DEF SummarySound
<1>3. CASE StartLens(l)
  BY <1>1, <1>3, StartCases, StartSound DEF Chained
<1>4. CASE Reach(l)
  <2>1. Alone(l) /\ TypedLens(l)' /\ ReachEffect(l)
    BY <1>1, <1>4, ReachCases
  <2>2. QED
    BY <1>1, <1>2, <2>1, ReachSound DEF Chained, ReachEffect
<1>5. CASE \E verdict \in {"pass", "fail"} : Completes(l, verdict)
  <2>1. PICK verdict \in {"pass", "fail"} : Completes(l, verdict)
    BY <1>5
  <2>2. PICK r \in {"pass4", "fail4", "pass2", "fail2"} :
          Alone(l) /\ TypedLens(l)' /\ CompleteEffect(l, r)
    BY <1>1, <2>1, CompletesCases
  <2>3. QED
    BY <1>1, <1>2, <2>2, CompleteSound DEF Chained, CompleteEffect, Marked
<1>6. CASE \E fallback \in BOOLEAN, left \in Remains(l) : Fails(l, fallback, left)
  <2>1. PICK fallback \in BOOLEAN, left \in Remains(l) : Fails(l, fallback, left)
    BY <1>6
  <2>2. Alone(l) /\ TypedLens(l)' /\ FailEffect(l, left)
    BY <1>1, <2>1, FailsCases
  <2>3. QED
    BY <1>1, <1>2, <2>2, FailSound DEF Chained, FailEffect, Marked
<1>7. QED
  BY <1>3, <1>4, <1>5, <1>6 DEF Step

LEMMA ChainKeeps ==
  ASSUME LInv, NEW l \in Lenses, Step(l)
  PROVE  LInv'
<1>1. Alone(l) /\ TypedLens(l)' /\ LensSound(l)' /\ outcome = Open
  BY ChainStep DEF Chained
<1>2. /\ UNCHANGED <<kind, runs, inherited, stop, outcome>>
      /\ Shapes' /\ lensState' \in [Lenses -> LensStates] /\ unreachable' \subseteq Lenses
      /\ \A m \in Lenses \ {l} : Same(m)
  BY <1>1 DEF Alone
<1>3. ASSUME NEW m \in Lenses PROVE LensSound(m)' /\ TypedLens(m)'
  <2>1. CASE m = l
    BY <1>1, <2>1
  <2>2. CASE m # l
    <3>1. Same(m) /\ LensSound(m) /\ TypedLens(m)
      BY <1>2, <2>2, TypesOfLens DEF LInv
    <3>2. TypedLens(m)'
      BY <3>1 DEF Same, TypedLens, Members, End
    <3>3. QED
      BY <3>1, <3>2, SameKeeps
  <2>3. QED
    BY <2>1, <2>2
<1>4. TypeOK'
  BY <1>2, <1>3 DEF LInv, TypeOK, TypedLens, Marks, stop, Members, End
<1>5. SummarySound'
  BY <1>1, <1>2 DEF SummarySound, Open
<1>6. QED
  BY <1>2, <1>3, <1>4, <1>5 DEF LInv

\* Cancellations, deadlines and the summary leave the lenses alone.
LEMMA OtherKeeps ==
  ASSUME LInv,
         \/ Cancel \/ RunDeadline \/ Summarise
         \/ UNCHANGED vars
         \/ \E l \in Lenses : LensDeadline(l)
  PROVE  LInv' /\ UNCHANGED <<kind, runs, inherited, chain, jobs>>
<1>1. UNCHANGED <<kind, runs, inherited, chain, jobs>>
  BY DEF Cancel, RunDeadline, Summarise, vars, LensDeadline
<1>2. \A m \in Lenses : Same(m)
  BY <1>1 DEF Same, chain, jobs
<1>3. \A m \in Lenses : LensSound(m)'
  BY <1>2, SameKeeps DEF LInv
<1>4. Shapes'
  BY <1>1 DEF LInv, Shapes, chain, jobs
<1>5. /\ cancelled' \in BOOLEAN /\ deadline' \in BOOLEAN /\ expired' \in [Lenses -> BOOLEAN]
  BY DEF LInv, TypeOK, Cancel, RunDeadline, Summarise, vars, LensDeadline, stop
<1>6. /\ outcome' \in [exit : {"open", "clear", "findings", "inconclusive", "cancelled"},
                       coverage : {"none", "complete", "partial"}]
      /\ SummarySound'
  <2>1. CASE outcome' = outcome
    BY <1>1, <2>1 DEF LInv, TypeOK, SummarySound, chain, Open, End
  <2>2. CASE Summarise
    <3>1. PICK gate \in BOOLEAN :
            outcome' = [exit |-> IF cancelled THEN "cancelled"
                                 ELSE IF Partial THEN "inconclusive"
                                 ELSE IF gate THEN "findings" ELSE "clear",
                        coverage |-> IF Partial THEN "partial" ELSE "complete"]
      BY <2>2 DEF Summarise
    <3>2. /\ outcome'.exit \in {"clear", "findings", "inconclusive", "cancelled"}
          /\ outcome'.coverage \in {"complete", "partial"}
          /\ outcome' = [exit |-> outcome'.exit, coverage |-> outcome'.coverage]
      BY <3>1
    <3>3. outcome'.exit \in {"clear", "findings"} =>
            \A l \in Lenses : lensState[l] \notin {"incomplete", "not_evaluated"}
      BY <3>1 DEF Partial
    <3>4. \A l \in Lenses : at[l] = End(l)
      BY <2>2 DEF Summarise
    <3>5. outcome' # Open
      BY <3>2 DEF Open
    <3>6. outcome' \in [exit : {"open", "clear", "findings", "inconclusive", "cancelled"},
                        coverage : {"none", "complete", "partial"}]
      BY <3>2
    <3>7. SummarySound'
      BY <1>1, <3>3, <3>4, <3>5 DEF SummarySound, chain, End, Open
    <3>8. QED
      BY <3>6, <3>7
  <2>3. QED
    BY <2>1, <2>2 DEF Cancel, RunDeadline, vars, LensDeadline
<1>7. TypeOK'
  BY <1>1, <1>5, <1>6 DEF LInv, TypeOK, chain, jobs, Members, End
<1>8. QED
  BY <1>1, <1>3, <1>4, <1>6, <1>7 DEF LInv

\* A chain that is to begin is sound when what it inherits is complete and an
\* adjudication comes with its finding.
LEMMA FreshSound ==
  ASSUME NEW l \in Lenses, at'[l] = 0, source'[l] = 0, lensState'[l] = "none",
         unreachable' = {},
         \A i \in Members(l) :
           status'[l][i] = IF i \in inherited'[l] THEN "completed" ELSE "queued",
         Completed(l, "pass2")' \cup Completed(l, "fail2")' # {} =>
           Adjudicated[l] /\ Completed(l, "fail4")' # {}
  PROVE  LensSound(l)'
<1>1. Members(l) = 1..Count[l] /\ Count[l] \in Nat
  BY MembersAre
<1>2. ASSUME NEW i \in Members(l)
      PROVE  /\ i \in inherited'[l] => status'[l][i] = "completed"
             /\ ~(i < 0) /\ i # 0
             /\ i \notin inherited'[l] => status'[l][i] = "queued"
  BY <1>1
<1>3. Walked(l)'
  BY <1>2 DEF Walked, Members
<1>4. Staged(l)' /\ Adjudges(l)' /\ Judged(l)' /\ Unreached(l)' /\ KeptSound(l)'
  BY DEF Staged, Adjudges, Judged, Unreached, KeptSound, Decided
<1>5. QED
  BY <1>3, <1>4 DEF LensSound

\* What a retry inherits.
Inherits(l, exact) == IF exact THEN {i \in Members(l) : status[l][i] = "completed"} ELSE {}

\* What a retry changes.
RetryEffect(exact) ==
  /\ runs' = runs + 1 /\ runs < MaxRuns
  /\ kind' = kind \/ kind' \in [Lenses -> Kinds]
  /\ inherited' = [l \in Lenses |-> Inherits(l, exact)]
  /\ status' = [l \in Lenses |-> [i \in Members(l) |->
                  IF i \in Inherits(l, exact) THEN "completed" ELSE "queued"]]
  /\ result' = [l \in Lenses |-> [i \in Members(l) |->
                  IF i \in Inherits(l, exact) THEN result[l][i] ELSE "none"]]
  /\ at' = [l \in Lenses |-> 0] /\ source' = [l \in Lenses |-> 0]
  /\ passes' = [l \in Lenses |-> {}] /\ lensState' = [l \in Lenses |-> "none"]
  /\ unreachable' = {} /\ cancelled' = FALSE /\ deadline' = FALSE
  /\ expired' = [l \in Lenses |-> FALSE] /\ outcome' = Open

LEMMA RetryCases ==
  ASSUME NEW selected, NEW exact, Retry(selected, exact)
  PROVE  RetryEffect(exact)
BY DEF Retry, RetryEffect, Inherits

LEMMA RetryKeeps ==
  ASSUME LInv, NEW selected \in SUBSET Lenses, NEW exact \in BOOLEAN, Retry(selected, exact)
  PROVE  LInv' /\ runs' # runs
<1>1. /\ kind \in [Lenses -> Kinds] /\ runs \in 1..MaxRuns /\ MaxRuns \in Nat
      /\ \A l \in Lenses : TypedLens(l) /\ Adjudges(l)
  BY RunsAssumption, TypesOfLens DEF LInv, LensSound, TypeOK
<1>2. RetryEffect(exact)
  BY RetryCases
<1>3. kind' \in [Lenses -> Kinds] /\ runs' \in 1..MaxRuns /\ runs' # runs
  <2>1. kind' = kind \/ kind' \in [Lenses -> Kinds]
    BY <1>2 DEF RetryEffect
  <2>2. runs' = runs + 1 /\ runs < MaxRuns
    BY <1>2 DEF RetryEffect
  <2>3. QED
    BY <1>1, <2>1, <2>2
<1>4. Shapes'
  BY <1>2 DEF RetryEffect, Shapes
<1>5. /\ lensState' \in [Lenses -> LensStates] /\ unreachable' \subseteq Lenses
      /\ cancelled' \in BOOLEAN /\ deadline' \in BOOLEAN /\ expired' \in [Lenses -> BOOLEAN]
  BY <1>2 DEF RetryEffect, LensStates
<1>6. ASSUME NEW l \in Lenses
      PROVE  /\ at'[l] = 0 /\ source'[l] = 0 /\ passes'[l] = {} /\ lensState'[l] = "none"
             /\ inherited'[l] = Inherits(l, exact) /\ unreachable' = {}
  BY <1>2 DEF RetryEffect
<1>7. ASSUME NEW l \in Lenses
      PROVE  /\ status'[l] = [i \in Members(l) |->
                  IF i \in Inherits(l, exact) THEN "completed" ELSE "queued"]
             /\ result'[l] = [i \in Members(l) |->
                  IF i \in Inherits(l, exact) THEN result[l][i] ELSE "none"]
  BY <1>2 DEF RetryEffect
<1>8. ASSUME NEW l \in Lenses, NEW i \in Members(l)
      PROVE  /\ status'[l][i] = IF i \in Inherits(l, exact) THEN "completed" ELSE "queued"
             /\ result'[l][i] = IF i \in Inherits(l, exact) THEN result[l][i] ELSE "none"
  BY <1>7
<1>9. \A l \in Lenses : Inherits(l, exact) \subseteq Members(l)
  BY DEF Inherits
<1>10. ASSUME NEW l \in Lenses PROVE TypedLens(l)'
  <2>1. status'[l] \in [Members(l) -> Marks]
    BY <1>7 DEF Marks
  <2>2. result'[l] \in [Members(l) -> Results]
    <3>1. \A i \in Members(l) : result[l][i] \in Results
      BY <1>1 DEF TypedLens
    <3>2. "none" \in Results
      BY DEF Results
    <3>3. ASSUME NEW i \in Members(l)
          PROVE  (IF i \in Inherits(l, exact) THEN result[l][i] ELSE "none") \in Results
      BY <3>1, <3>2
    <3>4. result'[l] = [i \in Members(l) |->
                         IF i \in Inherits(l, exact) THEN result[l][i] ELSE "none"]
      BY <1>7
    <3>5. QED
      BY <3>3, <3>4
  <2>3. at'[l] \in 0..End(l) /\ source'[l] \in 0..Count[l]
    <3>1. at'[l] = 0 /\ source'[l] = 0
      BY <1>6
    <3>2. 0 \in 0..End(l) /\ 0 \in 0..Count[l]
      BY MembersAre
    <3>3. QED
      BY <3>1, <3>2
  <2>4. inherited'[l] \subseteq Members(l) /\ passes'[l] \subseteq Members(l)
    BY <1>6, <1>9
  <2>5. QED
    BY <2>1, <2>2, <2>3, <2>4 DEF TypedLens, Members, End
<1>11. ASSUME NEW l \in Lenses PROVE LensSound(l)'
  <2>1. ASSUME NEW q
        PROVE  Completed(l, q)' = {i \in Inherits(l, exact) : result[l][i] = q}
    <3>1. Completed(l, q)' = {i \in Members(l) : status'[l][i] = "completed" /\ result'[l][i] = q}
      BY DEF Completed, Members
    <3>2. \A i \in Members(l) :
            /\ status'[l][i] = "completed" <=> i \in Inherits(l, exact)
            /\ i \in Inherits(l, exact) => result'[l][i] = result[l][i]
      BY <1>8
    <3>3. QED
      BY <1>9, <3>1, <3>2
  <2>2. Completed(l, "pass2")' \cup Completed(l, "fail2")' # {} =>
          Adjudicated[l] /\ Completed(l, "fail4")' # {}
    <3>1. CASE exact
      <4>1. \A q : Completed(l, q)' = Completed(l, q)
        BY <2>1, <3>1 DEF Completed, Inherits
      <4>2. QED
        BY <1>1, <4>1 DEF Adjudges
    <3>2. CASE ~exact
      <4>1. \A q : Completed(l, q)' = {}
        BY <2>1, <3>2 DEF Inherits
      <4>2. QED
        BY <4>1
    <3>3. QED
      BY <3>1, <3>2
  <2>3. \A i \in Members(l) :
          status'[l][i] = IF i \in inherited'[l] THEN "completed" ELSE "queued"
    BY <1>6, <1>8
  <2>4. QED
    BY <1>6, <2>2, <2>3, FreshSound
<1>12. /\ outcome' = Open /\ Open.exit = "open" /\ SummarySound'
       /\ outcome' \in [exit : {"open", "clear", "findings", "inconclusive", "cancelled"},
                        coverage : {"none", "complete", "partial"}]
  BY <1>2 DEF RetryEffect, Open, SummarySound
<1>13. TypeOK'
  BY <1>3, <1>5, <1>10, <1>12 DEF TypeOK, TypedLens, Marks, Members, End
<1>14. QED
  BY <1>3, <1>4, <1>11, <1>12, <1>13 DEF LInv

LEMMA Starts ==
  ASSUME Init
  PROVE  LInv
<1>1. \A l \in Lenses : /\ inherited[l] = {} /\ at[l] = 0 /\ source[l] = 0 /\ passes[l] = {}
                        /\ lensState[l] = "none"
                        /\ status[l] = [i \in Members(l) |-> "queued"]
                        /\ result[l] = [i \in Members(l) |-> "none"]
  BY DEF Init, FreshLens
<1>2. Shapes
  BY DEF Init, FreshLens, Shapes
<1>3. ASSUME NEW l \in Lenses PROVE TypedLens(l)
  <2>1. 0 \in 0..End(l) /\ 0 \in 0..Count[l]
    BY MembersAre
  <2>2. QED
    BY <1>1, <2>1 DEF TypedLens, Marks, Results
<1>4. TypeOK
  <2>1. 1 \in 1..MaxRuns
    BY RunsAssumption
  <2>2. /\ kind \in [Lenses -> Kinds] /\ runs = 1 /\ unreachable = {}
        /\ cancelled \in BOOLEAN /\ deadline \in BOOLEAN /\ expired \in [Lenses -> BOOLEAN]
        /\ lensState \in [Lenses -> LensStates]
        /\ outcome \in [exit : {"open", "clear", "findings", "inconclusive", "cancelled"},
                        coverage : {"none", "complete", "partial"}]
    BY DEF Init, LensStates, Open
  <2>3. QED
    BY <1>3, <2>1, <2>2 DEF TypeOK, TypedLens, Marks
<1>5. ASSUME NEW l \in Lenses PROVE LensSound(l)
  <2>1. /\ inherited[l] = {} /\ at[l] = 0 /\ source[l] = 0 /\ lensState[l] = "none"
        /\ \A i \in Members(l) : status[l][i] = "queued"
        /\ l \notin unreachable
    BY <1>1 DEF Init
  <2>2. \A r : Completed(l, r) = {}
    BY <2>1 DEF Completed
  <2>3. Walked(l)
    <3>1. \A i \in Members(l) : ~(i < 0) /\ i # 0
      BY MembersAre
    <3>2. QED
      BY <2>1, <3>1 DEF Walked
  <2>4. Staged(l) /\ Adjudges(l) /\ Judged(l) /\ Unreached(l) /\ KeptSound(l)
    BY <2>1, <2>2 DEF Staged, Adjudges, Judged, Unreached, KeptSound, Decided
  <2>5. QED
    BY <2>3, <2>4 DEF LensSound
<1>6. SummarySound
  BY DEF Init, SummarySound, Open
<1>7. QED
  BY <1>2, <1>4, <1>5, <1>6 DEF LInv

\* The chains are sound, whatever they meet: by induction over the steps.
THEOREM ChainInvariant == Spec => []LInv
<1>1. Init => LInv
  BY Starts
<1>2. LInv /\ [Next]_vars => LInv'
  <2> SUFFICES ASSUME LInv, [Next]_vars
               PROVE  LInv'
    OBVIOUS
  <2>1. ASSUME NEW l \in Lenses, Step(l) PROVE LInv'
    BY <2>1, ChainKeeps
  <2>2. ASSUME NEW l \in Lenses, LensDeadline(l) PROVE LInv'
    BY <2>2, OtherKeeps
  <2>3. ASSUME Cancel \/ RunDeadline \/ Summarise \/ UNCHANGED vars PROVE LInv'
    BY <2>3, OtherKeeps
  <2>4. ASSUME NEW selected \in SUBSET Lenses, NEW exact \in BOOLEAN, Retry(selected, exact)
        PROVE  LInv'
    BY <2>4, RetryKeeps
  <2>5. QED
    BY <2>1, <2>2, <2>3, <2>4 DEF Next
<1>3. QED
  BY <1>1, <1>2, PTL DEF Spec

\* A lens passes only by an earned quorum or adjudication, and not behind the
\* announcement that it could not pass.
THEOREM VerdictsStand == Spec => []VerdictsAreEarned
<1>1. LInv => VerdictsAreEarned
  <2> SUFFICES ASSUME LInv
               PROVE  VerdictsAreEarned
    OBVIOUS
  <2>1. PassedIsEarned
    BY DEF LInv, LensSound, Judged, PassedIsEarned
  <2>2. \A l \in unreachable : l \in Lenses
    BY DEF LInv, TypeOK
  <2>3. UnreachableIsTrue
    BY <2>2 DEF LInv, LensSound, Unreached, UnreachableIsTrue
  <2>4. QED
    BY <2>1, <2>3 DEF VerdictsAreEarned
<1>2. QED
  BY <1>1, ChainInvariant, PTL

\* Exit codes 0 and 1 have decided every lens that applies, and when the run ends
\* every reviewer has ended.
THEOREM ExitCodesAreHonest == Spec => []EndIsHonest
<1>1. LInv => EndIsHonest
  <2> SUFFICES ASSUME LInv
               PROVE  EndIsHonest
    OBVIOUS
  <2>1. TypeOK /\ SummarySound /\ \A l \in Lenses : LensSound(l)
    BY DEF LInv
  <2>2. ExitIsHonest
    <3>1. ASSUME outcome.exit \in {"clear", "findings"}, NEW l \in Lenses
          PROVE  \/ kind[l] = "irrelevant"
                 \/ kind[l] = "evaluated" /\ (Earned(l) \/ FindingStands(l))
      <4>1. lensState[l] \notin {"incomplete", "not_evaluated"} /\ at[l] = End(l)
        BY <2>1, <3>1 DEF SummarySound
      <4>2. lensState[l] # "none"
        BY <2>1, <4>1, MembersAre DEF LensSound, Staged
      <4>3. lensState[l] \in {"passed", "findings", "not_applicable"}
        BY <2>1, <4>1, <4>2 DEF TypeOK, LensStates
      <4>4. QED
        BY <2>1, <4>3 DEF LensSound, Staged, Judged
    <3>2. QED
      BY <3>1 DEF ExitIsHonest
  <2>3. EveryReviewerAccounted
    <3>1. ASSUME outcome # Open, NEW l \in Lenses, NEW i \in Members(l)
          PROVE  status[l][i] \in Over
      <4>1. at[l] = End(l) /\ i < End(l)
        BY <2>1, <3>1, MembersAre DEF SummarySound
      <4>2. QED
        BY <2>1, <4>1 DEF LensSound, Walked
    <3>2. QED
      BY <3>1 DEF EveryReviewerAccounted, Over
  <2>4. QED
    BY <2>1, <2>2, <2>3 DEF EndIsHonest
<1>2. QED
  BY <1>1, ChainInvariant, PTL

\* A retry keeps what its parent had decided.
THEOREM RetriesKeepVerdicts == Spec => []RetryKeepsVerdict
<1>1. LInv => RetryKeepsVerdict
  BY DEF LInv, LensSound, KeptSound, Kept, RetryKeepsVerdict
<1>2. QED
  BY <1>1, ChainInvariant, PTL

-----------------------------------------------------------------------------
(* What a step never does.                                                 *)

\* The step of a chain is at its beginning or at a reviewer, and it starts no
\* reviewer but that one.
LEMMA StepIsSomewhere ==
  ASSUME LInv, NEW l \in Lenses, Step(l)
  PROVE  /\ at[l] = 0 \/ at[l] \in Members(l)
         /\ \A i \in Members(l) :
              status[l][i] = "queued" /\ status'[l][i] = "running" => i = at[l]
<1>1. TypeOK /\ Shapes /\ TypedLens(l)
  BY TypesOfLens DEF LInv
<1>2. ASSUME Skips(l) \/ Goes(l) \/ \A j \in Members(l) \ {at[l]} : status'[l][j] = status[l][j],
             NEW i \in Members(l), status[l][i] = "queued", status'[l][i] = "running"
      PROVE  i = at[l]
  BY <1>2 DEF Skips, Goes
<1>3. CASE StartLens(l)
  <2>1. StartEffect(l)
    BY <1>1, <1>3, StartCases
  <2>2. QED
    BY <1>2, <2>1 DEF StartEffect
<1>4. CASE Reach(l)
  <2>1. ReachEffect(l)
    BY <1>1, <1>4, ReachCases
  <2>2. QED
    BY <1>2, <2>1 DEF ReachEffect
<1>5. CASE \E verdict \in {"pass", "fail"} : Completes(l, verdict)
  <2>1. PICK verdict \in {"pass", "fail"} : Completes(l, verdict)
    BY <1>5
  <2>2. PICK r \in {"pass4", "fail4", "pass2", "fail2"} : CompleteEffect(l, r)
    BY <1>1, <2>1, CompletesCases
  <2>3. QED
    BY <1>2, <2>2 DEF CompleteEffect, Marked
<1>6. CASE \E fallback \in BOOLEAN, left \in Remains(l) : Fails(l, fallback, left)
  <2>1. PICK fallback \in BOOLEAN, left \in Remains(l) : Fails(l, fallback, left)
    BY <1>6
  <2>2. FailEffect(l, left)
    BY <1>1, <2>1, FailsCases
  <2>3. QED
    BY <1>2, <2>2 DEF FailEffect, Marked
<1>7. QED
  BY <1>3, <1>4, <1>5, <1>6 DEF Step

\* A reviewer the chain stands at is asked for a lens nothing has decided.
LEMMA NothingDecidedHere ==
  ASSUME LInv, NEW l \in Lenses, at[l] \in Members(l)
  PROVE  /\ ~FindingStands(l)
         /\ Completed(l, "fail4") = {} => ~Quorum(l, Completed(l, "pass4"))
<1>1. TypedLens(l) /\ LensSound(l) /\ lensState[l] \in LensStates
  BY TypesOfLens DEF LInv, TypeOK
<1>2. /\ Completed(l, "fail2") = {}
      /\ source[l] = 0 => /\ Completed(l, "fail4") = {}
                          /\ passes[l] = Completed(l, "pass4")
                          /\ ~Satisfied(l, passes[l])
  BY <1>1, AtReviewer
<1>3. source[l] # 0 => Adjudicated[l] /\ source[l] \in Completed(l, "fail4")
  BY <1>1 DEF LensSound, Adjudges
<1>4. ~FindingStands(l)
  BY <1>2, <1>3 DEF FindingStands
<1>5. passes[l] \in SUBSET Members(l)
  BY <1>1 DEF TypedLens
<1>6. Satisfied(l, passes[l]) <=> Quorum(l, passes[l])
  BY <1>5, QuorumIsSatisfied
<1>7. QED
  BY <1>2, <1>3, <1>4, <1>6

\* A verdict ends its lens: it is not changed, and nobody is asked behind it.
THEOREM VerdictsEndTheirLens == Spec => NothingAfterVerdict
<1> DEFINE Final == \A l \in Lenses :
                      lensState[l] \notin {"none", "incomplete"} /\ runs' = runs =>
                        lensState'[l] = lensState[l]
           Needed == \A l \in Lenses : \A i \in Members(l) :
                       status[l][i] = "queued" /\ status'[l][i] = "running" =>
                         /\ ~FindingStands(l)
                         /\ Completed(l, "fail4") = {} => ~Quorum(l, Completed(l, "pass4"))
<1>1. LInv /\ [Next]_vars => Final /\ Needed
  <2> SUFFICES ASSUME LInv, [Next]_vars
               PROVE  Final /\ Needed
    OBVIOUS
  <2>1. ASSUME NEW l \in Lenses, Step(l) PROVE Final /\ Needed
    <3>1. \A m \in Lenses \ {l} : Same(m)
      BY <2>1, ChainStep DEF Chained, Alone
    <3>2. /\ at[l] = 0 \/ at[l] \in Members(l)
          /\ \A i \in Members(l) :
               status[l][i] = "queued" /\ status'[l][i] = "running" => i = at[l]
      BY <2>1, StepIsSomewhere
    <3>3. lensState[l] \in {"none", "incomplete"}
      <4>1. at[l] # End(l)
        BY <3>2, MembersAre
      <4>2. lensState[l] \notin Decided
        BY <4>1 DEF LInv, LensSound, Staged
      <4>3. QED
        BY <4>2 DEF LInv, TypeOK, LensStates, Decided
    <3>4. Final
      BY <3>1, <3>3 DEF Same
    <3>5. ASSUME NEW m \in Lenses, NEW i \in Members(m),
                 status[m][i] = "queued" /\ status'[m][i] = "running"
          PROVE  /\ ~FindingStands(m)
                 /\ Completed(m, "fail4") = {} => ~Quorum(m, Completed(m, "pass4"))
      <4>1. m = l
        BY <3>1, <3>5 DEF Same
      <4>2. at[m] \in Members(m)
        BY <3>2, <3>5, <4>1
      <4>3. QED
        BY <4>2, NothingDecidedHere
    <3>6. QED
      BY <3>4, <3>5
  <2>2. ASSUME UNCHANGED <<kind, runs, inherited, chain, jobs>> PROVE Final /\ Needed
    BY <2>2 DEF chain, jobs
  <2>3. ASSUME NEW l \in Lenses, LensDeadline(l) PROVE Final /\ Needed
    BY <2>2, <2>3, OtherKeeps
  <2>4. ASSUME Cancel \/ RunDeadline \/ Summarise \/ UNCHANGED vars PROVE Final /\ Needed
    BY <2>2, <2>4, OtherKeeps
  <2>5. ASSUME NEW selected \in SUBSET Lenses, NEW exact \in BOOLEAN, Retry(selected, exact)
        PROVE  Final /\ Needed
    <3>1. runs' # runs
      BY <2>5, RetryKeeps
    <3>2. \A l \in Lenses : \A i \in Members(l) : status'[l][i] # "running"
      <4>1. status' = [l \in Lenses |-> [i \in Members(l) |->
                         IF i \in Inherits(l, exact) THEN "completed" ELSE "queued"]]
        <5>1. RetryEffect(exact)
          BY <2>5, RetryCases
        <5>2. QED
          BY <5>1 DEF RetryEffect
      <4>2. QED
        BY <4>1
    <3>3. QED
      BY <3>1, <3>2
  <2>6. QED
    BY <2>1, <2>3, <2>4, <2>5 DEF Next
<1>2. LInv /\ [Next]_vars => [Final]_vars /\ [Needed]_vars
  BY <1>1
<1>3. Spec => [][Final]_vars /\ [][Needed]_vars
  BY <1>2, ChainInvariant, PTL DEF Spec
<1>4. QED
  BY <1>3 DEF NothingAfterVerdict, VerdictIsFinal, NoNeedlessReview

----------------------------------------------------------------------------
(* The delivery of events.                                                 *)

Early == {"reviewing", "recording_findings", "cleaning", "flushing"}
Ending == {"settling", "sealing", "sealed", "unsealed"}
Ended == {"terminal_pending", "failure_pending", "observing", "observing_failure"}

\* The operations of the queue belong to emitters that await them, one each.
QueueSound ==
  /\ \A i \in 1..Len(queue) : emitter[queue[i].from] = "awaiting"
  /\ \A i, j \in 1..Len(queue) : queue[i].from = queue[j].from => i = j
  /\ stage # "waiting" => queue # <<>>
  /\ terminal => queue = <<>>
  /\ main \in {"sealed", "unsealed"} => ahead = Len(queue)

\* Where the main line stands says what the writer and the artifact admit.
PhaseSound ==
  /\ main \in Early =>
       ~finalizing /\ ~terminal /\ ~artifactFinalizing /\ ~artifactClosed
  /\ main \in Ending => finalizing /\ ~terminal /\ artifactFinalizing
  /\ main \in Ended => terminal /\ artifactFinalizing
  /\ main \in Early \cup Ending \cup Ended => exit = NoExit /\ observed = "none"
  /\ main \in (Early \ {"reviewing"}) \cup Ending =>
       \A c \in Chains : emitter[c] = "done"
  /\ main \in {"sealed", "terminal_pending", "observing"} => published
  /\ artifactFinalizing => terminal \/ finalizing
  /\ artifactFinalizing => main = "settling" \/ ~Alive \/ artifactClosed
  /\ artifactClosed => artifactFinalizing \/ main = "exited" \/ ~Alive
  /\ published => artifactClosed /\ artifactFinalizing

\* No heartbeat that is to be recorded outlives the artifact.
HeartSound ==
  \A i \in 1..Len(queue) : queue[i].from = Heart /\ ~queue[i].quiet =>
    /\ ~artifactFinalizing
    /\ main = "closing" => i <= ahead
    /\ main # "exited"

\* The event at hand, once it has a sequence number and is not handed over; and
\* the one that the artifact has already.
Pending == IF stage \in {"recording", "ready"} THEN {cur} ELSE {}
Underway == IF stage = "ready" /\ ~Head1.quiet THEN {cur} ELSE {}

\* What the artifact holds and what the output took, as long as no delivery is
\* known to have failed.
NothingSkipped ==
  /\ stage # "waiting" => cur = seq /\ seq > 0
  /\ stage = "recording" => ~Head1.quiet
  /\ stage = "ready" /\ ~Head1.quiet => cur \in recorded
  /\ errorRecorded => deliveryFailure # "none"
  /\ ~broken \/ deliveryFailure = "none" =>
       recorded \subseteq Delivered \cup Underway
  /\ ~terminal /\ deliveryFailure = "none" => Delivered = (1..seq) \ Pending

\* The public stream, up to the line at hand.
StreamSound ==
  /\ Stream!LastSeq <= seq
  /\ stage \in {"recording", "ready"} => Stream!LastSeq < cur
  /\ Stream!Ended => terminal

\* The summary, the index and the exit code, once they are settled.
OutcomeSound ==
  /\ artifactFinalizing /\ artifactClosed /\ ~told => recorded \subseteq Delivered
  /\ main \in {"terminal_pending", "observing"} =>
       /\ EndsWith("completed")
       /\ recorded \subseteq Delivered
       /\ deliveryFailure = "none" => Delivered = 1..seq
  /\ observed # "none" => terminal
  /\ exit \in {0, 1} /\ Alive => terminal
  /\ IndexTellsFailure /\ CleanExit

\* The inductive invariant.
EInv ==
  /\ EventsTypeOK /\ QueueSound /\ PhaseSound /\ HeartSound
  /\ NothingSkipped /\ StreamSound /\ RecordedFirst /\ OutcomeSound
  /\ HeartbeatsHarmless

-----------------------------------------------------------------------------
(* Sequences.                                                              *)

\* One more line.
LEMMA LineProperties ==
  ASSUME EventsTypeOK, NEW n \in Nat,
         NEW k \in {"event", "heartbeat", "completed", "persistence_failed"},
         lines' = Line(k, n)
  PROVE  /\ lines' \in Seq([seq : Nat, kind : {"event", "heartbeat", "completed",
                                              "persistence_failed"}])
         /\ lines' # <<>> /\ Len(lines') = Len(lines) + 1
         /\ Last(lines') = [seq |-> n, kind |-> k]
         /\ \A i \in 1..Len(lines) : lines'[i] = lines[i]
         /\ Delivered' = Delivered \cup {n}
<1> DEFINE r == [seq |-> n, kind |-> k]
           T == [seq : Nat, kind : {"event", "heartbeat", "completed",
                                    "persistence_failed"}]
<1>1. r \in T /\ lines \in Seq(T)
  BY DEF EventsTypeOK
<1>2. lines' = Append(lines, r)
  BY DEF Line
<1>3. r.seq = n
  OBVIOUS
<1> HIDE DEF r, T
<1>4. /\ Append(lines, r) \in Seq(T)
      /\ Len(Append(lines, r)) = Len(lines) + 1
      /\ \A i \in 1..Len(lines) : Append(lines, r)[i] = lines[i]
      /\ Append(lines, r)[Len(lines) + 1] = r
  BY <1>1
<1>5. Len(lines) \in Nat
  BY <1>1
<1>6. lines' # <<>>
  BY <1>2, <1>4, <1>5
<1>7. Last(lines') = r
  BY <1>2, <1>4 DEF Last
<1>8. Delivered' = Delivered \cup {n}
  <2>1. Delivered' = {lines'[i].seq : i \in 1..Len(lines')}
    BY DEF Delivered
  <2>2. 1..Len(lines') = (1..Len(lines)) \cup {Len(lines) + 1}
    BY <1>2, <1>4, <1>5
  <2>3. \A i \in 1..Len(lines) : lines'[i].seq = lines[i].seq
    BY <1>2, <1>4
  <2>4. lines'[Len(lines) + 1].seq = n
    BY <1>2, <1>3, <1>4
  <2>5. QED
    BY <2>1, <2>2, <2>3, <2>4 DEF Delivered
<1>9. QED
  BY <1>2, <1>4, <1>6, <1>7, <1>8 DEF r, T

LEMMA QueueElements ==
  ASSUME EventsTypeOK
  PROVE  /\ Len(queue) \in Nat
         /\ \A i \in 1..Len(queue) :
              queue[i].from \in Emitters /\ queue[i].quiet \in BOOLEAN
<1>1. queue \in Seq([from : Emitters, quiet : BOOLEAN])
  BY DEF EventsTypeOK
<1>2. \A i \in 1..Len(queue) : queue[i] \in [from : Emitters, quiet : BOOLEAN]
  BY <1>1, ElementOfSeq
<1>3. QED
  BY <1>1, <1>2

\* The queue without its head.
LEMMA TailOfQueue ==
  ASSUME EventsTypeOK, queue # <<>>
  PROVE  /\ Head1 \in [from : Emitters, quiet : BOOLEAN] /\ Head1 = queue[1]
         /\ Len(queue) \in Nat /\ Len(queue) >= 1
         /\ Tail(queue) \in Seq([from : Emitters, quiet : BOOLEAN])
         /\ Len(Tail(queue)) = Len(queue) - 1
         /\ \A i \in 1..Len(Tail(queue)) :
              Tail(queue)[i] = queue[i + 1] /\ i + 1 \in 1..Len(queue)
<1> DEFINE T == [from : Emitters, quiet : BOOLEAN]
<1>1. queue \in Seq(T)
  BY DEF EventsTypeOK
<1> HIDE DEF T
<1>2. Len(queue) \in Nat /\ Len(queue) >= 1
  BY <1>1, EmptySeq
<1>3. Head(queue) \in T /\ Tail(queue) \in Seq(T)
      /\ Len(Tail(queue)) = Len(queue) - 1
      /\ \A i \in 1..Len(Tail(queue)) : Tail(queue)[i] = queue[i + 1]
  BY <1>1, HeadTailProperties
<1>4. Head(queue) = queue[1]
  BY <1>1, <1>2
<1>5. \A i \in 1..Len(Tail(queue)) : i + 1 \in 1..Len(queue)
  BY <1>2, <1>3
<1>6. QED
  BY <1>2, <1>3, <1>4, <1>5 DEF Head1, T

\* The queue with one more operation.
LEMMA AppendToQueue ==
  ASSUME EventsTypeOK, NEW e \in Emitters, NEW q \in BOOLEAN,
         queue' = Append(queue, [from |-> e, quiet |-> q])
  PROVE  /\ queue' \in Seq([from : Emitters, quiet : BOOLEAN])
         /\ Len(queue) \in Nat /\ Len(queue') = Len(queue) + 1 /\ queue' # <<>>
         /\ \A i \in 1..Len(queue) : queue'[i] = queue[i]
         /\ queue'[Len(queue) + 1] = [from |-> e, quiet |-> q]
<1> DEFINE T == [from : Emitters, quiet : BOOLEAN]
           r == [from |-> e, quiet |-> q]
<1>1. queue \in Seq(T) /\ r \in T /\ queue' = Append(queue, r)
  BY DEF EventsTypeOK
<1> HIDE DEF T, r
<1>2. Len(queue) \in Nat
  BY <1>1
<1>3. queue' \in Seq(T) /\ Len(queue') = Len(queue) + 1
      /\ (\A i \in 1..Len(queue) : queue'[i] = queue[i])
      /\ queue'[Len(queue) + 1] = r
  BY <1>1
<1>4. queue' # <<>>
  BY <1>2, <1>3
<1>5. QED
  BY <1>2, <1>3, <1>4 DEF T, r

-----------------------------------------------------------------------------
(* Steps of the operation at the head.                                     *)

\* What a rejected operation changes of the run.
LEMMA RejectsProperties ==
  ASSUME EventsTypeOK, NEW e \in Emitters, NEW f \in Failures, Rejects(e, f)
  PROVE  /\ deliveryFailure' \in Failures
         /\ outputFailure' = TRUE /\ errorRecorded' \in BOOLEAN
         /\ emitted' = emitted /\ artifactFinalizing' = artifactFinalizing
         /\ code' = code /\ told' = told
         /\ emitter' \in [Emitters -> {"free", "awaiting", "erring", "done", "threw"}]
         /\ \A x \in Emitters \ {e} : emitter'[x] = emitter[x]
         /\ \/ main' = main /\ exit' = exit
            \/ e = Heart /\ f = "event_persistence" /\ main # "flushing"
                /\ main' = "crashed" /\ exit' = 1
            \/ e = Heart /\ f = "event_persistence" /\ main = "flushing"
                /\ main' = "closing" /\ exit' = 3
<1>1. deliveryFailure' \in Failures
  BY DEF Rejects, FirstFailure, EventsTypeOK, Failures
<1>2. CASE f = "event_persistence"
  BY <1>1, <1>2 DEF Rejects, EventsTypeOK
<1>3. CASE f # "event_persistence"
  BY <1>1, <1>3 DEF Rejects, EventsTypeOK
<1>4. QED
  BY <1>2, <1>3

LEMMA EmittersAre == Chains \subseteq Emitters /\ Heart \in Emitters /\ Heart \notin Chains
BY DeliveryAssumption DEF Emitters

\* A step of the operation at the head moves it on, or ends it: well, or by one
\* of the failures.
Moves == UNCHANGED <<emitters, queue, ahead, deliveryFailure, run, main, exit>>
Ends ==
  /\ Dequeue
  /\ emitter' = [emitter EXCEPT ![Head1.from] = "free"]
  /\ UNCHANGED <<emitted, broken, deliveryFailure, run, main, exit>>
Breaks(f) ==
  /\ Dequeue
  /\ Rejects(Head1.from, f)
  /\ f = "event_persistence" =>
       stage = "recording" /\ poisoned' = (poisoned \/ ~artifactClosed)

LEMMA OperationCases ==
  ASSUME EventsTypeOK, Operation
  PROVE  /\ Alive /\ queue # <<>> /\ Head1.from \in Emitters
         /\ UNCHANGED <<terminal, finalizing, artifactClosed, published, observed>>
         /\ Moves \/ Ends \/ \E f \in Failures : Breaks(f)
<1>1. queue # <<>> /\ Alive
  BY DEF Operation, Materialize, RecordEvent, Write, Written
<1>2. Head1.from \in Emitters
  BY <1>1, TailOfQueue
<1>3. UNCHANGED <<terminal, finalizing, artifactClosed, published, observed>>
  BY DEF Operation, Materialize, RecordEvent, Write, Written, artifact
<1> SUFFICES Moves \/ Ends \/ \E f \in Failures : Breaks(f)
  BY <1>1, <1>2, <1>3
<1>4. CASE Materialize
  <2>1. Moves \/ Breaks("event_validation")
    BY <1>4 DEF Materialize, Moves, Breaks
  <2>2. QED
    BY <2>1 DEF Failures
<1>5. CASE RecordEvent
  <2>1. Moves \/ Breaks("event_persistence")
    BY <1>5 DEF RecordEvent, Moves, Breaks
  <2>2. QED
    BY <2>1 DEF Failures
<1>6. CASE Write
  <2>1. Moves \/ Breaks("output_write")
    BY <1>6 DEF Write, Moves, Breaks
  <2>2. QED
    BY <2>1 DEF Failures
<1>7. CASE Written
  <2>1. Ends \/ Breaks("output_write")
    BY <1>7 DEF Written, Ends, Breaks
  <2>2. QED
    BY <2>1 DEF Failures
<1>8. QED
  BY <1>4, <1>5, <1>6, <1>7 DEF Operation

-----------------------------------------------------------------------------
(* One conjunct of the inductive invariant at a time.                      *)

\* Every variable keeps its type.
LEMMA TypeStep ==
  ASSUME EventsTypeOK, [EventsNext]_eventVars
  PROVE  EventsTypeOK'
<1> USE EmittersAre DEF Phases, Stages, NoExit
<1>1. ASSUME NEW c \in Chains, Emit(c) PROVE EventsTypeOK'
  <2>1. queue' \in Seq([from : Emitters, quiet : BOOLEAN])
    BY <1>1, AppendToQueue DEF Emit
  <2>2. QED
    BY <1>1, <2>1 DEF Emit, EventsTypeOK, run, artifact
<1>2. ASSUME NEW c \in Chains, ChainEnds(c) PROVE EventsTypeOK'
  BY <1>2 DEF ChainEnds, EventsTypeOK, run, artifact, writer
<1>3. CASE Beat
  <2>1. queue' \in Seq([from : Emitters, quiet : BOOLEAN])
    BY <1>3, AppendToQueue DEF Beat, EventsTypeOK
  <2>2. emitted' \in [Emitters -> Nat]
    BY <1>3 DEF Beat, EventsTypeOK
  <2>3. emitter' \in [Emitters -> {"free", "awaiting", "erring", "done", "threw"}]
    BY <1>3 DEF Beat, EventsTypeOK
  <2>4. outputFailure' \in BOOLEAN
    BY <1>3 DEF Beat, EventsTypeOK
  <2>5. QED
    BY <1>3, <2>1, <2>2, <2>3, <2>4 DEF Beat, EventsTypeOK, artifact
<1>4. CASE Operation
  <2>1. /\ queue # <<>> /\ Head1.from \in Emitters
        /\ UNCHANGED <<terminal, finalizing, artifactClosed, published, observed>>
        /\ Moves \/ Ends \/ \E f \in Failures : Breaks(f)
    BY <1>4, OperationCases
  <2>2. /\ cur' \in Nat /\ seq' \in Nat /\ recorded' \in SUBSET Nat
        /\ poisoned' \in BOOLEAN /\ broken' \in BOOLEAN /\ stage' \in Stages
    <3>1. CASE Materialize
      BY <3>1 DEF Materialize, artifact, Dequeue, EventsTypeOK
    <3>2. CASE RecordEvent
      BY <3>2 DEF RecordEvent, Dequeue, EventsTypeOK
    <3>3. CASE Write
      BY <3>3 DEF Write, artifact, Dequeue, EventsTypeOK
    <3>4. CASE Written
      BY <3>4 DEF Written, artifact, Dequeue, EventsTypeOK
    <3>5. QED
      BY <1>4, <3>1, <3>2, <3>3, <3>4 DEF Operation
  <2>3. lines' \in Seq([seq : Nat, kind : {"event", "heartbeat", "completed",
                                           "persistence_failed"}])
    <3>1. CASE Write
      <4>1. CASE UNCHANGED lines
        BY <4>1 DEF EventsTypeOK
      <4>2. CASE lines' = Line(IF Head1.quiet THEN "heartbeat" ELSE "event", cur)
        BY <4>2, LineProperties DEF EventsTypeOK
      <4>3. QED
        BY <3>1, <4>1, <4>2 DEF Write
    <3>2. CASE Materialize \/ RecordEvent \/ Written
      BY <3>2 DEF Materialize, RecordEvent, Written, EventsTypeOK
    <3>3. QED
      BY <1>4, <3>1, <3>2 DEF Operation
  <2>4. CASE Moves
    BY <2>1, <2>2, <2>3, <2>4 DEF Moves, EventsTypeOK, run, emitters
  <2>5. Dequeue => /\ queue' \in Seq([from : Emitters, quiet : BOOLEAN])
                   /\ ahead' \in Nat
    BY <2>1, TailOfQueue DEF Dequeue, EventsTypeOK
  <2>6. CASE Ends
    BY <2>1, <2>2, <2>3, <2>5, <2>6 DEF Ends, EventsTypeOK, run
  <2>7. ASSUME NEW f \in Failures, Breaks(f) PROVE EventsTypeOK'
    <3>1. Dequeue /\ Rejects(Head1.from, f)
      BY <2>7 DEF Breaks
    <3>2. /\ deliveryFailure' \in Failures
          /\ outputFailure' = TRUE /\ errorRecorded' \in BOOLEAN
          /\ emitted' = emitted /\ artifactFinalizing' = artifactFinalizing
          /\ code' = code /\ told' = told
          /\ emitter' \in [Emitters -> {"free", "awaiting", "erring", "done", "threw"}]
      BY <2>1, <3>1, RejectsProperties
    <3>3. main' \in Phases /\ exit' \in {0, 1, 3, NoExit}
      BY <2>1, <3>1, RejectsProperties DEF EventsTypeOK
    <3>4. QED
      BY <2>1, <2>2, <2>3, <2>5, <3>1, <3>2, <3>3 DEF EventsTypeOK
  <2>8. QED
    BY <2>1, <2>4, <2>6, <2>7
<1>5. ASSUME NEW e \in Emitters, RecordError(e) PROVE EventsTypeOK'
  <2>1. emitter' \in [Emitters -> {"free", "awaiting", "erring", "done", "threw"}]
    BY <1>5 DEF RecordError, EventsTypeOK
  <2>2. main' \in Phases /\ exit' \in {0, 1, 3, NoExit} /\ poisoned' \in BOOLEAN
    BY <1>5 DEF RecordError, EventsTypeOK
  <2>3. QED
    BY <1>5, <2>1, <2>2 DEF RecordError, EventsTypeOK, writer, run
<1>6. CASE SinkBreaks
  BY <1>6 DEF SinkBreaks, EventsTypeOK, emitters, writer, run, artifact
<1>7. CASE SummariseReviews \/ ChainThrows \/ RecordFindings \/ CleanupEnds \/ Finish
  <2>1. /\ main' \in Phases /\ exit' \in {0, 1, 3, NoExit} /\ code' \in {0, 1, 3}
        /\ ahead' \in Nat /\ poisoned' \in BOOLEAN
        /\ artifactFinalizing' \in BOOLEAN /\ finalizing' \in BOOLEAN
    <3>1. CASE SummariseReviews
      BY <3>1 DEF SummariseReviews, EventsTypeOK, writer, artifact
    <3>2. CASE ChainThrows
      BY <3>2 DEF ChainThrows, Throws, AwaitTail, EventsTypeOK, run, artifact
    <3>3. CASE RecordFindings
      <4>1. UNCHANGED <<code, artifactFinalizing, finalizing>>
        BY <3>3 DEF RecordFindings, run
      <4>2. /\ main' \in {"cleaning", "closing"} /\ exit' \in {exit, 3}
            /\ ahead' \in {ahead, Len(queue)}
        BY <3>3 DEF RecordFindings, Throws, AwaitTail
      <4>3. poisoned' \in BOOLEAN
        BY <3>3 DEF RecordFindings, EventsTypeOK
      <4>4. QED
        BY <4>1, <4>2, <4>3 DEF EventsTypeOK
    <3>4. CASE CleanupEnds
      BY <3>4 DEF CleanupEnds, EventsTypeOK, writer, run, artifact
    <3>5. CASE Finish
      BY <3>5 DEF Finish, AwaitTail, EventsTypeOK, artifact
    <3>6. QED
      BY <1>7, <3>1, <3>2, <3>3, <3>4, <3>5
  <2>2. UNCHANGED <<emitters, queue, stage, cur, seq, terminal, deliveryFailure,
                    broken, outputFailure, errorRecorded, told, recorded,
                    artifactClosed, published, observed, lines>>
    BY <1>7 DEF SummariseReviews, ChainThrows, RecordFindings, CleanupEnds, Finish,
                writer, run, artifact
  <2>3. QED
    BY <2>1, <2>2 DEF EventsTypeOK, emitters
<1>8. CASE StartFinalize \/ FinalizeEnds \/ FailureWritten \/ Observe
             \/ ObserveFailure \/ Close
  <2>1. /\ main' \in Phases /\ exit' \in {0, 1, 3, NoExit}
        /\ ahead' \in Nat /\ told' \in BOOLEAN /\ broken' \in BOOLEAN
        /\ artifactClosed' \in BOOLEAN /\ published' \in BOOLEAN
        /\ observed' \in {"none", "planned", "failed"}
    <3>1. CASE StartFinalize
      BY <3>1 DEF StartFinalize, EventsTypeOK, writer
    <3>2. CASE FinalizeEnds
      <4>1. UNCHANGED <<exit, told, broken, artifactClosed, observed>>
        BY <3>2 DEF FinalizeEnds, run
      <4>2. /\ main' \in {"sealed", "unsealed"} /\ ahead' = Len(queue)
        BY <3>2 DEF FinalizeEnds, AwaitTail
      <4>3. published' \in BOOLEAN
        BY <3>2 DEF FinalizeEnds, EventsTypeOK
      <4>4. QED
        BY <4>1, <4>2, <4>3 DEF EventsTypeOK
    <3>3. CASE FailureWritten
      BY <3>3 DEF FailureWritten, EventsTypeOK, writer, run, artifact
    <3>4. CASE Observe
      BY <3>4 DEF Observe, EventsTypeOK, writer, run
    <3>5. CASE ObserveFailure
      BY <3>5 DEF ObserveFailure, EventsTypeOK, writer, run
    <3>6. CASE Close
      BY <3>6 DEF Close, EventsTypeOK, writer, run
    <3>7. QED
      BY <1>8, <3>1, <3>2, <3>3, <3>4, <3>5, <3>6
  <2>2. UNCHANGED <<emitters, queue, stage, cur, seq, terminal, finalizing,
                    deliveryFailure, outputFailure, errorRecorded,
                    artifactFinalizing, code, recorded, poisoned, lines>>
    BY <1>8 DEF StartFinalize, FinalizeEnds, FailureWritten, Observe, ObserveFailure,
                Close, writer, run, artifact
  <2>3. QED
    BY <2>1, <2>2 DEF EventsTypeOK, emitters
<1>9. CASE Complete \/ CompletedWritten \/ ReportFailure
  <2>1. lines' \in Seq([seq : Nat, kind : {"event", "heartbeat", "completed",
                                           "persistence_failed"}])
    <3>1. CASE UNCHANGED lines
      BY <3>1 DEF EventsTypeOK
    <3>2. CASE lines' = Line("completed", seq + 1) \/ lines' = Line("persistence_failed", seq + 1)
      BY <3>2, LineProperties DEF EventsTypeOK
    <3>3. QED
      BY <1>9, <3>1, <3>2 DEF Complete, CompletedWritten, ReportFailure, TerminalLine
  <2>2. /\ main' \in Phases /\ exit' \in {0, 1, 3, NoExit}
        /\ seq' \in Nat /\ terminal' \in BOOLEAN /\ finalizing' \in BOOLEAN
        /\ broken' \in BOOLEAN /\ deliveryFailure' \in Failures \cup {"none"}
    <3>1. CASE Complete
      <4>1. /\ main' \in {"terminal_pending", "observing_failure"} /\ exit' = exit
            /\ seq' \in {seq, seq + 1} /\ terminal' = TRUE /\ finalizing' = FALSE
        BY <3>1 DEF Complete, TerminalLine
      <4>2. broken' \in BOOLEAN
        BY <3>1 DEF Complete, TerminalLine, EventsTypeOK
      <4>3. deliveryFailure' \in {deliveryFailure, "event_validation", "output_write"}
        BY <3>1 DEF Complete, TerminalLine, FirstFailure
      <4>4. terminal' \in BOOLEAN /\ finalizing' \in BOOLEAN
        BY <4>1
      <4>5. seq' \in Nat
        BY <4>1 DEF EventsTypeOK
      <4>6. main' \in Phases /\ exit' \in {0, 1, 3, NoExit}
        BY <4>1 DEF EventsTypeOK
      <4>7. QED
        BY <4>3, <4>4, <4>2, <4>5, <4>6 DEF EventsTypeOK, Failures
    <3>2. CASE CompletedWritten
      BY <3>2 DEF CompletedWritten, FirstFailure, EventsTypeOK, Failures
    <3>3. CASE ReportFailure
      <4>1. /\ main' \in {"failure_pending", "closing"} /\ exit' \in {exit, 3}
            /\ seq' \in {seq, seq + 1} /\ terminal' = TRUE /\ finalizing' = FALSE
            /\ UNCHANGED deliveryFailure
        BY <3>3 DEF ReportFailure, TerminalLine
      <4>2. broken' \in BOOLEAN
        BY <3>3 DEF ReportFailure, TerminalLine, EventsTypeOK
      <4>3. terminal' \in BOOLEAN /\ finalizing' \in BOOLEAN
        BY <4>1
      <4>4. seq' \in Nat
        BY <4>1 DEF EventsTypeOK
      <4>5. QED
        BY <4>1, <4>2, <4>3, <4>4 DEF EventsTypeOK
    <3>4. QED
      BY <1>9, <3>1, <3>2, <3>3
  <2>3. UNCHANGED <<emitters, queue, stage, cur, ahead, run, artifact>>
    BY <1>9 DEF Complete, CompletedWritten, ReportFailure
  <2>4. QED
    BY <2>1, <2>2, <2>3 DEF EventsTypeOK, emitters, run, artifact
<1>10. CASE UNCHANGED eventVars
  BY <1>10 DEF EventsTypeOK, eventVars, emitters, writer, run, artifact
<1>11. QED
  BY <1>1, <1>2, <1>3, <1>4, <1>5, <1>6, <1>7, <1>8, <1>9, <1>10 DEF EventsNext, MainStep

\* The main line never touches the queue or an emitter.
LEMMA MainStepKeeps ==
  ASSUME MainStep
  PROVE  Alive /\ UNCHANGED <<emitters, queue, stage, cur>>
BY DEF MainStep, SummariseReviews, ChainThrows, RecordFindings, CleanupEnds, Finish,
       StartFinalize, FinalizeEnds, Complete, CompletedWritten, ReportFailure,
       FailureWritten, Observe, ObserveFailure, Close, emitters, writer

\* While the artifact is sealed no chain emits, and the timer only when the main
\* line awaits nothing of it.
LEMMA SealedIsQuiet ==
  ASSUME EventsTypeOK, QueueSound, PhaseSound, Alive,
         main \in (Early \ {"reviewing"}) \cup Ending
  PROVE  /\ \A i \in 1..Len(queue) : queue[i].from = Heart
         /\ emitter[Heart] = "free" => queue = <<>>
<1>1. ASSUME NEW i \in 1..Len(queue) PROVE queue[i].from = Heart
  <2>1. queue[i].from \in Emitters
    BY <1>1, QueueElements
  <2>2. emitter[queue[i].from] = "awaiting"
    BY <1>1 DEF QueueSound
  <2>3. \A c \in Chains : emitter[c] = "done"
    BY DEF PhaseSound
  <2>4. QED
    BY <2>1, <2>2, <2>3 DEF Emitters
<1>2. ASSUME queue # <<>>, emitter[Heart] = "free" PROVE FALSE
  <2>1. 1 \in 1..Len(queue)
    BY <1>2, TailOfQueue
  <2>2. QED
    BY <1>1, <1>2, <2>1 DEF QueueSound
<1>3. QED
  BY <1>1, <1>2

LEMMA QueueStep ==
  ASSUME EventsTypeOK, QueueSound, PhaseSound, [EventsNext]_eventVars
  PROVE  QueueSound'
<1> USE EmittersAre
<1>1. ASSUME NEW c \in Chains, Emit(c) PROVE QueueSound'
  <2>1. main \notin {"sealed", "unsealed"}
    BY <1>1 DEF Emit, PhaseSound, Ending
  <2>2. /\ Len(queue) \in Nat /\ Len(queue') = Len(queue) + 1 /\ queue' # <<>>
        /\ \A i \in 1..Len(queue) : queue'[i] = queue[i]
        /\ queue'[Len(queue) + 1] = [from |-> c, quiet |-> FALSE]
    BY <1>1, AppendToQueue DEF Emit
  <2>3. /\ \A i \in 1..Len(queue) : emitter[queue[i].from] = "awaiting" /\ queue[i].from # c
        /\ \A i \in 1..Len(queue) : queue[i].from \in Emitters
    BY <1>1, QueueElements DEF Emit, QueueSound
  <2>4. emitter' = [emitter EXCEPT ![c] = "awaiting"] /\ UNCHANGED <<main, terminal>>
        /\ ~terminal
    BY <1>1 DEF Emit
  <2>5. queue'[Len(queue) + 1].from = c
    BY <2>2
  <2>6. emitter'[c] = "awaiting" /\ \A x \in Emitters \ {c} : emitter'[x] = emitter[x]
    BY <2>4 DEF EventsTypeOK
  <2>7. \A i \in 1..Len(queue') : emitter'[queue'[i].from] = "awaiting"
    BY <2>2, <2>3, <2>5, <2>6
  <2>8. \A i, j \in 1..Len(queue') : queue'[i].from = queue'[j].from => i = j
    BY <2>2, <2>3, <2>5 DEF QueueSound
  <2>9. QED
    BY <2>1, <2>2, <2>4, <2>7, <2>8 DEF QueueSound
<1>2. ASSUME NEW c \in Chains, ChainEnds(c) PROVE QueueSound'
  <2>1. \A i \in 1..Len(queue) : queue[i].from # c
    BY <1>2 DEF ChainEnds, QueueSound
  <2>2. QED
    BY <1>2, <2>1 DEF ChainEnds, QueueSound, EventsTypeOK, writer
<1>3. CASE Beat
  <2>1. CASE terminal
    BY <1>3, <2>1 DEF Beat, QueueSound
  <2>2. CASE ~terminal
    <3>1. PICK q \in BOOLEAN : queue' = Append(queue, [from |-> Heart, quiet |-> q])
      BY <1>3, <2>2 DEF Beat, EventsTypeOK
    <3>2. /\ Len(queue) \in Nat /\ Len(queue') = Len(queue) + 1 /\ queue' # <<>>
          /\ \A i \in 1..Len(queue) : queue'[i] = queue[i]
          /\ queue'[Len(queue) + 1] = [from |-> Heart, quiet |-> q]
      BY <3>1, AppendToQueue
    <3>3. main \notin {"sealed", "unsealed"}
      <4>1. ASSUME main \in {"sealed", "unsealed"} PROVE FALSE
        <5>1. queue = <<>>
          BY <1>3, <4>1, SealedIsQuiet DEF Beat, Ending
        <5>2. ahead = 0
          BY <4>1, <5>1 DEF QueueSound
        <5>3. QED
          BY <1>3, <4>1, <5>2 DEF Beat, Proceeds
      <4>2. QED
        BY <4>1
    <3>4. /\ \A i \in 1..Len(queue) : emitter[queue[i].from] = "awaiting" /\ queue[i].from # Heart
          /\ \A i \in 1..Len(queue) : queue[i].from \in Emitters
      BY <1>3, QueueElements DEF Beat, QueueSound
    <3>5. emitter' = [emitter EXCEPT ![Heart] = "awaiting"] /\ UNCHANGED <<main, terminal>>
      BY <1>3, <2>2 DEF Beat
    <3>6. queue'[Len(queue) + 1].from = Heart
      BY <3>2
    <3>7. emitter'[Heart] = "awaiting"
           /\ \A x \in Emitters \ {Heart} : emitter'[x] = emitter[x]
      BY <3>5 DEF EventsTypeOK
    <3>8. \A i \in 1..Len(queue') : emitter'[queue'[i].from] = "awaiting"
      BY <3>2, <3>4, <3>6, <3>7
    <3>9. \A i, j \in 1..Len(queue') : queue'[i].from = queue'[j].from => i = j
      BY <3>2, <3>4, <3>6 DEF QueueSound
    <3>10. QED
      BY <2>2, <3>2, <3>3, <3>5, <3>8, <3>9 DEF QueueSound
  <2>3. QED
    BY <2>1, <2>2
<1>4. CASE Operation
  <2>1. /\ Alive /\ queue # <<>> /\ Head1.from \in Emitters
        /\ UNCHANGED <<terminal, finalizing, artifactClosed, published, observed>>
        /\ Moves \/ Ends \/ \E f \in Failures : Breaks(f)
    BY <1>4, OperationCases
  <2>2. ~terminal
    BY <2>1 DEF QueueSound
  <2>3. CASE Moves
    BY <2>1, <2>2, <2>3 DEF Moves, QueueSound, emitters
  <2>4. ASSUME Dequeue, main' = main \/ main' \in {"closing", "crashed"},
               \A x \in Emitters \ {Head1.from} : emitter'[x] = emitter[x]
        PROVE  QueueSound'
    <3>1. /\ Head1 = queue[1] /\ Len(queue) \in Nat /\ Len(queue) >= 1
          /\ queue' = Tail(queue) /\ Len(queue') = Len(queue) - 1
          /\ \A i \in 1..Len(queue') : queue'[i] = queue[i + 1] /\ i + 1 \in 1..Len(queue)
      BY <2>1, <2>4, TailOfQueue DEF Dequeue
    <3>2. \A i \in 1..Len(queue') :
            queue[i + 1].from \in Emitters \ {Head1.from}
      BY <3>1, QueueElements DEF QueueSound
    <3>3. \A i \in 1..Len(queue') : emitter'[queue'[i].from] = "awaiting"
      BY <2>4, <3>1, <3>2 DEF QueueSound
    <3>4. \A i, j \in 1..Len(queue') : queue'[i].from = queue'[j].from => i = j
      BY <3>1 DEF QueueSound
    <3>5. main' \in {"sealed", "unsealed"} => ahead' = Len(queue')
      BY <2>4, <3>1 DEF QueueSound, Dequeue
    <3>6. QED
      BY <2>1, <2>2, <2>4, <3>3, <3>4, <3>5 DEF QueueSound, Dequeue
  <2>5. CASE Ends
    BY <2>1, <2>4, <2>5 DEF Ends, EventsTypeOK
  <2>6. ASSUME NEW f \in Failures, Breaks(f) PROVE QueueSound'
    BY <2>1, <2>4, <2>6, RejectsProperties DEF Breaks
  <2>7. QED
    BY <2>1, <2>3, <2>5, <2>6
<1>5. ASSUME NEW e \in Emitters, RecordError(e) PROVE QueueSound'
  <2>1. \A i \in 1..Len(queue) : queue[i].from # e
    BY <1>5 DEF RecordError, QueueSound
  <2>2. /\ \A x \in Emitters \ {e} : emitter'[x] = emitter[x]
        /\ main' = main \/ main' \in {"closing", "crashed"}
        /\ UNCHANGED writer
    BY <1>5 DEF RecordError, EventsTypeOK
  <2>3. QED
    BY <2>1, <2>2, QueueElements DEF QueueSound, writer
<1>6. CASE SinkBreaks
  BY <1>6 DEF SinkBreaks, QueueSound, emitters, writer
<1>7. CASE MainStep
  <2>1. UNCHANGED <<emitter, queue, stage>>
    BY <1>7, MainStepKeeps DEF emitters
  <2>2. terminal' => queue = <<>>
    <3>1. CASE UNCHANGED terminal
      BY <3>1 DEF QueueSound
    <3>2. CASE main \in {"sealed", "unsealed"} /\ ahead = 0
      <4>1. Len(queue) = 0
        BY <3>2 DEF QueueSound
      <4>2. QED
        BY <4>1, EmptySeq DEF EventsTypeOK
    <3>3. QED
      BY <1>7, <3>1, <3>2 DEF MainStep, SummariseReviews, ChainThrows, RecordFindings,
         CleanupEnds, Finish, StartFinalize, FinalizeEnds, Complete, CompletedWritten,
         ReportFailure, FailureWritten, Observe, ObserveFailure, Close, writer
  <2>3. main' \in {"sealed", "unsealed"} => ahead' = Len(queue)
    BY <1>7 DEF MainStep, SummariseReviews, ChainThrows, RecordFindings,
       CleanupEnds, Finish, StartFinalize, FinalizeEnds, Complete, CompletedWritten,
       ReportFailure, FailureWritten, Observe, ObserveFailure, Close, Throws,
       TerminalLine, AwaitTail
  <2>4. QED
    BY <2>1, <2>2, <2>3 DEF QueueSound
<1>8. CASE UNCHANGED eventVars
  BY <1>8 DEF QueueSound, eventVars, emitters, writer
<1>9. QED
  BY <1>1, <1>2, <1>3, <1>4, <1>5, <1>6, <1>7, <1>8 DEF EventsNext

\* The steps beside the main line.
Aside ==
  \/ \E c \in Chains : Emit(c) \/ ChainEnds(c)
  \/ Beat
  \/ Operation
  \/ \E e \in Emitters : RecordError(e)
  \/ SinkBreaks

\* They leave it where it stands, unless a heartbeat could not be recorded, and
\* a chain that has ended stays so.
LEMMA AsideKeeps ==
  ASSUME EventsTypeOK, QueueSound, Aside
  PROVE  /\ Alive
         /\ UNCHANGED <<terminal, finalizing, artifactFinalizing, artifactClosed,
                        published, observed, code, told>>
         /\ \/ main' = main /\ exit' = exit
            \/ main' = "crashed" /\ exit' = 1
            \/ main = "flushing" /\ main' = "closing" /\ exit' = 3
         /\ \A c \in Chains : emitter[c] = "done" => emitter'[c] = "done"
<1> USE EmittersAre
<1>1. ASSUME NEW c \in Chains, Emit(c) \/ ChainEnds(c)
      PROVE  /\ Alive
             /\ UNCHANGED <<terminal, finalizing, artifactFinalizing, artifactClosed,
                            published, observed, code, told, main, exit>>
             /\ \A d \in Chains : emitter[d] = "done" => emitter'[d] = "done"
  BY <1>1 DEF Emit, ChainEnds, run, artifact, writer, EventsTypeOK
<1>2. ASSUME Beat
      PROVE  /\ Alive
             /\ UNCHANGED <<terminal, finalizing, artifactFinalizing, artifactClosed,
                            published, observed, code, told, main, exit>>
             /\ \A d \in Chains : emitter[d] = "done" => emitter'[d] = "done"
  <2>1. \A d \in Chains : emitter'[d] = emitter[d]
    BY <1>2 DEF Beat, EventsTypeOK
  <2>2. QED
    BY <1>2, <2>1 DEF Beat, artifact
<1>3. CASE Operation
  <2>1. /\ Alive /\ queue # <<>> /\ Head1.from \in Emitters
        /\ UNCHANGED <<terminal, finalizing, artifactClosed, published, observed>>
        /\ Moves \/ Ends \/ \E f \in Failures : Breaks(f)
    BY <1>3, OperationCases
  <2>2. emitter[Head1.from] = "awaiting"
    BY <2>1, TailOfQueue DEF QueueSound
  <2>3. CASE Moves \/ Ends
    BY <2>1, <2>2, <2>3 DEF Moves, Ends, emitters, run, EventsTypeOK
  <2>4. ASSUME NEW f \in Failures, Breaks(f)
        PROVE  /\ UNCHANGED <<artifactFinalizing, code, told>>
               /\ \/ main' = main /\ exit' = exit
                  \/ main' = "crashed" /\ exit' = 1
                  \/ main = "flushing" /\ main' = "closing" /\ exit' = 3
               /\ \A c \in Chains : emitter[c] = "done" => emitter'[c] = "done"
    BY <2>1, <2>2, <2>4, RejectsProperties DEF Breaks
  <2>5. QED
    BY <2>1, <2>3, <2>4
<1>4. ASSUME NEW e \in Emitters, RecordError(e)
      PROVE  /\ Alive
             /\ UNCHANGED <<terminal, finalizing, artifactFinalizing, artifactClosed,
                            published, observed, code, told>>
             /\ \/ main' = main /\ exit' = exit
                \/ main' = "crashed" /\ exit' = 1
                \/ main = "flushing" /\ main' = "closing" /\ exit' = 3
             /\ \A c \in Chains : emitter[c] = "done" => emitter'[c] = "done"
  <2>1. \A c \in Chains : emitter[c] = "done" => emitter'[c] = "done"
    BY <1>4 DEF RecordError, EventsTypeOK
  <2>2. Alive /\ UNCHANGED <<terminal, finalizing, artifactFinalizing, artifactClosed,
                             published, observed, code, told>>
    BY <1>4 DEF RecordError, writer, run
  <2>3. \/ main' = main /\ exit' = exit
        \/ main' = "crashed" /\ exit' = 1
        \/ main = "flushing" /\ main' = "closing" /\ exit' = 3
    BY <1>4 DEF RecordError
  <2>4. QED
    BY <2>1, <2>2, <2>3
<1>5. CASE SinkBreaks
  BY <1>5 DEF SinkBreaks, emitters, writer, run, artifact
<1>6. QED
  BY <1>1, <1>2, <1>3, <1>4, <1>5 DEF Aside

LEMMA PhaseStep ==
  ASSUME EventsTypeOK, QueueSound, PhaseSound, [EventsNext]_eventVars
  PROVE  PhaseSound'
<1> USE DEF Early, Ending, Ended, Alive
<1>1. CASE Aside
  <2>1. /\ Alive
        /\ UNCHANGED <<terminal, finalizing, artifactFinalizing, artifactClosed,
                        published, observed>>
        /\ \/ main' = main /\ exit' = exit
           \/ main' = "crashed" /\ exit' = 1
           \/ main = "flushing" /\ main' = "closing" /\ exit' = 3
        /\ \A c \in Chains : emitter[c] = "done" => emitter'[c] = "done"
    BY <1>1, AsideKeeps
  <2>2. CASE main' = main /\ exit' = exit
    BY <2>1, <2>2 DEF PhaseSound
  <2>3. CASE main' = "crashed"
    BY <2>1, <2>3 DEF PhaseSound
  <2>4. CASE main = "flushing" /\ main' = "closing"
    BY <2>1, <2>4 DEF PhaseSound
  <2>5. QED
    BY <2>1, <2>2, <2>3, <2>4
<1>2. CASE SummariseReviews \/ RecordFindings \/ CleanupEnds \/ ChainThrows
  <2>1. CASE SummariseReviews
    BY <2>1 DEF SummariseReviews, PhaseSound, emitters, writer, artifact
  <2>2. CASE RecordFindings
    BY <2>2 DEF RecordFindings, Throws, PhaseSound, emitters, run
  <2>3. CASE CleanupEnds
    BY <2>3 DEF CleanupEnds, PhaseSound, emitters, run, writer, artifact
  <2>4. CASE ChainThrows
    BY <2>4 DEF ChainThrows, Throws, PhaseSound, emitters, run, artifact
  <2>5. QED
    BY <1>2, <2>1, <2>2, <2>3, <2>4
<1>3. CASE Finish \/ StartFinalize \/ FinalizeEnds
  <2>1. CASE Finish
    BY <2>1 DEF Finish, PhaseSound, emitters, artifact
  <2>2. CASE StartFinalize
    BY <2>2 DEF StartFinalize, PhaseSound, emitters, writer
  <2>3. CASE FinalizeEnds
    BY <2>3 DEF FinalizeEnds, PhaseSound, emitters, run
  <2>4. QED
    BY <1>3, <2>1, <2>2, <2>3
<1>4. CASE Complete \/ CompletedWritten \/ ReportFailure \/ FailureWritten
  <2>1. CASE Complete
    BY <2>1 DEF Complete, TerminalLine, PhaseSound, run, artifact
  <2>2. CASE CompletedWritten
    BY <2>2 DEF CompletedWritten, PhaseSound, run, artifact
  <2>3. CASE ReportFailure
    BY <2>3 DEF ReportFailure, TerminalLine, PhaseSound, run, artifact
  <2>4. CASE FailureWritten
    BY <2>4 DEF FailureWritten, PhaseSound, writer, run, artifact
  <2>5. QED
    BY <1>4, <2>1, <2>2, <2>3, <2>4
<1>5. CASE Observe \/ ObserveFailure \/ Close
  <2>1. CASE Observe
    BY <2>1 DEF Observe, PhaseSound, writer, run
  <2>2. CASE ObserveFailure
    BY <2>2 DEF ObserveFailure, PhaseSound, writer, run
  <2>3. CASE Close
    BY <2>3 DEF Close, PhaseSound, writer, run
  <2>4. QED
    BY <1>5, <2>1, <2>2, <2>3
<1>6. CASE UNCHANGED eventVars
  BY <1>6 DEF PhaseSound, eventVars, emitters, writer, run, artifact
<1>7. QED
  BY <1>1, <1>2, <1>3, <1>4, <1>5, <1>6 DEF EventsNext, MainStep, Aside

\* No heartbeat that is to be recorded outlives the artifact: finish() waits for
\* the one that is pending and makes the others quiet, and a run that throws
\* closes the artifact behind those it still awaits.
LEMMA HeartStep ==
  ASSUME EventsTypeOK, QueueSound, PhaseSound, HeartSound, [EventsNext]_eventVars
  PROVE  HeartSound'
<1> USE EmittersAre
<1>1. ASSUME NEW e \in Emitters, NEW q \in BOOLEAN,
             queue' = Append(queue, [from |-> e, quiet |-> q]),
             UNCHANGED <<artifactFinalizing, main, ahead>>,
             e = Heart /\ ~q =>
               ~artifactFinalizing /\ main \notin {"closing", "exited"}
      PROVE  HeartSound'
  <2>1. /\ Len(queue) \in Nat /\ Len(queue') = Len(queue) + 1
        /\ \A i \in 1..Len(queue) : queue'[i] = queue[i]
        /\ queue'[Len(queue) + 1] = [from |-> e, quiet |-> q]
    BY <1>1, AppendToQueue
  <2>2. queue'[Len(queue) + 1].from = e /\ queue'[Len(queue) + 1].quiet = q
    BY <2>1
  <2>3. QED
    BY <1>1, <2>1, <2>2 DEF HeartSound
<1>2. ASSUME NEW c \in Chains, Emit(c) PROVE HeartSound'
  BY <1>1, <1>2 DEF Emit, run
<1>3. ASSUME NEW c \in Chains, ChainEnds(c) PROVE HeartSound'
  BY <1>3 DEF ChainEnds, HeartSound, writer, run
<1>4. CASE Beat
  <2>1. CASE terminal
    BY <1>4, <2>1 DEF Beat, HeartSound
  <2>2. CASE ~terminal
    BY <1>1, <1>4, <2>2 DEF Beat, PhaseSound, EventsTypeOK
  <2>3. QED
    BY <2>1, <2>2
<1>5. CASE Operation
  <2>1. /\ queue # <<>> /\ Head1.from \in Emitters
        /\ Moves \/ Ends \/ \E f \in Failures : Breaks(f)
    BY <1>5, OperationCases
  <2>2. CASE Moves
    BY <2>2 DEF Moves, HeartSound, run
  <2>3. ASSUME Dequeue, UNCHANGED artifactFinalizing,
               \/ main' \in {main, "crashed"}
               \/ main' = "closing" /\ Head1.from = Heart
        PROVE  HeartSound'
    <3>1. /\ Head1 = queue[1] /\ Len(queue) \in Nat /\ Len(queue) >= 1
          /\ queue' = Tail(queue) /\ Len(queue') = Len(queue) - 1
          /\ \A i \in 1..Len(queue') : queue'[i] = queue[i + 1] /\ i + 1 \in 1..Len(queue)
      BY <2>1, <2>3, TailOfQueue DEF Dequeue
    <3>2. CASE main' \in {main, "crashed"}
      <4>1. ASSUME NEW i \in 1..Len(queue'), main' = "closing", i + 1 <= ahead
            PROVE  i <= ahead'
        BY <2>3, <3>1, <4>1 DEF Dequeue, EventsTypeOK
      <4>2. QED
        BY <2>3, <3>1, <3>2, <4>1 DEF HeartSound
    <3>3. CASE Head1.from = Heart
      <4>1. \A i \in 1..Len(queue') : queue'[i].from # Heart
        BY <3>1, <3>3 DEF QueueSound
      <4>2. QED
        BY <4>1 DEF HeartSound
    <3>4. QED
      BY <2>3, <3>2, <3>3
  <2>4. CASE Ends
    BY <2>3, <2>4 DEF Ends, run
  <2>5. ASSUME NEW f \in Failures, Breaks(f) PROVE HeartSound'
    BY <2>1, <2>3, <2>5, RejectsProperties DEF Breaks
  <2>6. QED
    BY <2>1, <2>2, <2>4, <2>5
<1>6. ASSUME NEW e \in Emitters, RecordError(e) PROVE HeartSound'
  <2>1. CASE e = Heart
    <3>1. \A i \in 1..Len(queue) : queue[i].from # Heart
      BY <1>6, <2>1 DEF RecordError, QueueSound
    <3>2. QED
      BY <1>6, <3>1 DEF RecordError, HeartSound, writer
  <2>2. CASE e # Heart
    BY <1>6, <2>2 DEF RecordError, HeartSound, writer, run
  <2>3. QED
    BY <2>1, <2>2
<1>7. CASE SinkBreaks
  BY <1>7 DEF SinkBreaks, HeartSound, writer, run
<1>8. CASE Finish
  <2>1. \A i \in 1..Len(queue) : queue[i].from # Heart
    BY <1>8 DEF Finish, QueueSound
  <2>2. QED
    BY <1>8, <2>1 DEF Finish, HeartSound
<1>9. CASE ChainThrows
  BY <1>9 DEF ChainThrows, Throws, AwaitTail, HeartSound, run
<1>10. CASE RecordFindings
  <2>1. CASE main' = "cleaning"
    BY <1>10, <2>1 DEF RecordFindings, Throws, HeartSound, run
  <2>2. CASE Throws
    BY <1>10, <2>2 DEF RecordFindings, Throws, AwaitTail, HeartSound, run
  <2>3. QED
    BY <1>10, <2>1, <2>2 DEF RecordFindings
<1>11. CASE Close
  BY <1>11 DEF Close, HeartSound, writer, run
<1>12. CASE SummariseReviews \/ CleanupEnds \/ StartFinalize \/ FinalizeEnds
              \/ CompletedWritten \/ Complete
  <2>1. UNCHANGED <<queue, artifactFinalizing>> /\ main' \notin {"closing", "exited"}
    BY <1>12 DEF SummariseReviews, CleanupEnds, StartFinalize, FinalizeEnds,
       CompletedWritten, Complete, TerminalLine, writer, run
  <2>2. QED
    BY <2>1 DEF HeartSound
<1>13. CASE ReportFailure \/ FailureWritten \/ Observe \/ ObserveFailure
  <2>1. UNCHANGED <<queue, artifactFinalizing>> /\ artifactFinalizing
    BY <1>13 DEF ReportFailure, FailureWritten, Observe, ObserveFailure, writer, run,
       PhaseSound, Ending, Ended
  <2>2. QED
    BY <2>1 DEF HeartSound
<1>14. CASE UNCHANGED eventVars
  BY <1>14 DEF HeartSound, eventVars, writer, run
<1>15. QED
  BY <1>2, <1>3, <1>4, <1>5, <1>6, <1>7, <1>8, <1>9, <1>10, <1>11, <1>12, <1>13, <1>14
  DEF EventsNext, MainStep

LEMMA SkippedStep ==
  ASSUME EventsTypeOK, QueueSound, PhaseSound, NothingSkipped, [EventsNext]_eventVars
  PROVE  NothingSkipped'
<1> USE EmittersAre
<1>1. ASSUME UNCHANGED <<stage, cur, seq, recorded, errorRecorded, deliveryFailure,
                         broken, terminal, lines>>,
             queue # <<>> => queue' # <<>> /\ queue'[1] = queue[1]
      PROVE  NothingSkipped'
  <2>1. stage # "waiting" => Head1' = Head1
    BY <1>1, TailOfQueue DEF QueueSound, Head1
  <2>2. Delivered' = Delivered /\ Pending' = Pending /\ Underway' = Underway
    BY <1>1, <2>1 DEF Delivered, Pending, Underway
  <2>3. QED
    BY <1>1, <2>1, <2>2 DEF NothingSkipped
<1>2. ASSUME NEW c \in Chains, Emit(c) PROVE NothingSkipped'
  <2>1. queue # <<>> => queue' # <<>> /\ queue'[1] = queue[1]
    BY <1>2, AppendToQueue, TailOfQueue DEF Emit
  <2>2. QED
    BY <1>1, <1>2, <2>1 DEF Emit, run, artifact
<1>3. ASSUME NEW c \in Chains, ChainEnds(c) PROVE NothingSkipped'
  BY <1>1, <1>3 DEF ChainEnds, writer, run, artifact
<1>4. CASE Beat
  <2>1. queue # <<>> => queue' # <<>> /\ queue'[1] = queue[1]
    BY <1>4, AppendToQueue, TailOfQueue DEF Beat, EventsTypeOK
  <2>2. QED
    BY <1>1, <1>4, <2>1 DEF Beat, artifact
<1>5. CASE Materialize
  <2>1. queue # <<>> /\ stage = "waiting" /\ UNCHANGED <<broken, recorded, lines, terminal>>
    BY <1>5 DEF Materialize, artifact
  <2>2. Underway = {} /\ Pending = {} /\ Delivered' = Delivered
    BY <2>1 DEF Underway, Pending, Delivered
  <2>3. ASSUME seq' = seq + 1, cur' = seq + 1, queue' = queue,
               stage' = IF Head1.quiet THEN "ready" ELSE "recording",
               UNCHANGED <<deliveryFailure, errorRecorded>>
        PROVE  NothingSkipped'
    <3>1. Head1' = Head1 /\ Pending' = {seq + 1} /\ Underway' = {}
      BY <2>3 DEF Head1, Pending, Underway
    <3>2. stage' = "recording" => ~Head1.quiet
      BY <2>3
    <3>3. stage' = "ready" => Head1.quiet
      BY <2>3
    <3>4. ~broken \/ deliveryFailure = "none" => recorded \subseteq Delivered
      BY <2>2 DEF NothingSkipped
    <3>5. ~terminal /\ deliveryFailure = "none" => Delivered = (1..seq+1) \ {seq + 1}
      BY <2>2 DEF NothingSkipped, EventsTypeOK
    <3>6. cur' = seq' /\ seq' > 0
      BY <2>3 DEF EventsTypeOK
    <3>7. errorRecorded' => deliveryFailure' # "none"
      BY <2>3 DEF NothingSkipped
    <3>8. ~broken' \/ deliveryFailure' = "none" => recorded' \subseteq Delivered' \cup Underway'
      BY <2>1, <2>2, <2>3, <3>1, <3>4
    <3>9. ~terminal' /\ deliveryFailure' = "none" => Delivered' = (1..seq') \ Pending'
      BY <2>1, <2>2, <2>3, <3>1, <3>5
    <3>10. QED
      BY <3>1, <3>2, <3>3, <3>6, <3>7, <3>8, <3>9 DEF NothingSkipped
  <2>4. ASSUME stage' = "waiting", deliveryFailure' # "none"
        PROVE  NothingSkipped'
    <3>1. Underway' = {}
      BY <2>4 DEF Underway
    <3>2. ~broken => recorded \subseteq Delivered
      BY <2>2 DEF NothingSkipped
    <3>3. QED
      BY <2>1, <2>2, <2>4, <3>1, <3>2 DEF NothingSkipped
  <2>5. CASE Rejects(Head1.from, "event_validation") /\ Dequeue
    BY <2>1, <2>4, <2>5, TailOfQueue, RejectsProperties DEF Dequeue, Failures
  <2>6. QED
    BY <1>5, <2>3, <2>4, <2>5 DEF Materialize, run
<1>6. CASE RecordEvent
  <2>1. queue # <<>> /\ stage = "recording"
        /\ UNCHANGED <<broken, lines, terminal, cur, seq>>
    BY <1>6 DEF RecordEvent
  <2>2. Underway = {} /\ Pending = {cur} /\ Delivered' = Delivered
    BY <2>1 DEF Underway, Pending, Delivered
  <2>3. ASSUME recorded' = recorded \cup {cur}, stage' = "ready", queue' = queue,
               UNCHANGED <<deliveryFailure, errorRecorded>>
        PROVE  NothingSkipped'
    <3>1. Head1' = Head1
      BY <2>3 DEF Head1
    <3>2. ~Head1.quiet
      BY <2>1 DEF NothingSkipped
    <3>3. Pending' = {cur} /\ Underway' = {cur}
      BY <2>1, <2>3, <3>1, <3>2 DEF Pending, Underway
    <3>4. QED
      BY <2>1, <2>2, <2>3, <3>1, <3>2, <3>3 DEF NothingSkipped
  <2>4. CASE Rejects(Head1.from, "event_persistence") /\ Dequeue /\ UNCHANGED recorded
    <3>1. stage' = "waiting" /\ deliveryFailure' # "none"
      BY <2>1, <2>4, TailOfQueue, RejectsProperties DEF Dequeue, Failures
    <3>2. Underway' = {}
      BY <3>1 DEF Underway
    <3>3. ~broken => recorded \subseteq Delivered
      BY <2>2 DEF NothingSkipped
    <3>4. QED
      BY <2>1, <2>2, <2>4, <3>1, <3>2, <3>3 DEF NothingSkipped
  <2>5. QED
    BY <1>6, <2>3, <2>4 DEF RecordEvent, run
<1>7. CASE Write
  <2>1. queue # <<>> /\ stage = "ready" /\ UNCHANGED <<recorded, terminal, cur, seq>>
    BY <1>7 DEF Write, artifact
  <2>2. CASE ~broken /\ queue' = queue /\ stage' = "writing"
               /\ lines' = Line(IF Head1.quiet THEN "heartbeat" ELSE "event", cur)
               /\ UNCHANGED <<broken, deliveryFailure, errorRecorded>>
    <3>1. Delivered' = Delivered \cup {cur}
      BY <2>2, LineProperties DEF EventsTypeOK
    <3>2. Pending = {cur} /\ Pending' = {} /\ Underway' = {} /\ Underway \subseteq {cur}
      BY <2>1, <2>2 DEF Pending, Underway
    <3>3. cur = seq /\ seq > 0
      BY <2>1 DEF NothingSkipped
    <3>4. recorded \subseteq Delivered \cup {cur}
      BY <2>2, <3>2 DEF NothingSkipped
    <3>5. ~terminal /\ deliveryFailure = "none" => Delivered' = 1..seq
      BY <3>1, <3>2, <3>3 DEF NothingSkipped, EventsTypeOK
    <3>6. QED
      BY <2>1, <2>2, <3>1, <3>2, <3>3, <3>4, <3>5 DEF NothingSkipped
  <2>3. CASE Rejects(Head1.from, "output_write") /\ Dequeue /\ broken' = TRUE
    <3>1. stage' = "waiting" /\ deliveryFailure' # "none"
      BY <2>1, <2>3, TailOfQueue, RejectsProperties DEF Dequeue, Failures
    <3>2. QED
      BY <2>1, <2>3, <3>1 DEF NothingSkipped
  <2>4. QED
    BY <1>7, <2>2, <2>3 DEF Write, run
<1>8. CASE Written
  <2>1. queue # <<>> /\ stage = "writing" /\ stage' = "waiting"
        /\ UNCHANGED <<recorded, terminal, cur, seq, lines>>
    BY <1>8 DEF Written, Dequeue, artifact
  <2>2. Pending = {} /\ Pending' = {} /\ Underway' = {} /\ Underway = {}
        /\ Delivered' = Delivered
    BY <2>1 DEF Pending, Underway, Delivered
  <2>3. CASE UNCHANGED <<broken, deliveryFailure, errorRecorded>>
    BY <2>1, <2>2, <2>3 DEF NothingSkipped
  <2>4. CASE Rejects(Head1.from, "output_write") /\ broken' = TRUE
    <3>1. deliveryFailure' # "none"
      BY <2>1, <2>4, TailOfQueue, RejectsProperties DEF Failures
    <3>2. QED
      BY <2>1, <2>4, <3>1 DEF NothingSkipped
  <2>5. QED
    BY <1>8, <2>3, <2>4 DEF Written, run
<1>9. ASSUME NEW e \in Emitters, RecordError(e) PROVE NothingSkipped'
  BY <1>1, <1>9 DEF RecordError, writer, run
<1>10. CASE SinkBreaks
  <2>1. Delivered' = Delivered /\ Pending' = Pending /\ Underway' = Underway /\ Head1' = Head1
    BY <1>10 DEF SinkBreaks, writer, Delivered, Pending, Underway, Head1
  <2>2. ~broken' => ~broken
    BY <1>10 DEF SinkBreaks
  <2>3. UNCHANGED <<stage, cur, seq, recorded, errorRecorded, deliveryFailure, terminal>>
    BY <1>10 DEF SinkBreaks, writer, run, artifact
  <2>4. QED
    BY <2>1, <2>2, <2>3 DEF NothingSkipped
<1>11. CASE SummariseReviews \/ RecordFindings \/ CleanupEnds \/ ChainThrows \/ Finish
              \/ StartFinalize \/ FinalizeEnds \/ Observe \/ ObserveFailure \/ Close
  <2>1. UNCHANGED <<queue, stage, cur, seq, recorded, errorRecorded, deliveryFailure,
                    broken, terminal, lines>>
    BY <1>11 DEF SummariseReviews, RecordFindings, CleanupEnds, ChainThrows, Finish,
       StartFinalize, FinalizeEnds, Observe, ObserveFailure, Close, Throws,
       writer, run, artifact
  <2>2. QED
    BY <1>1, <2>1
<1>12. CASE FailureWritten
  <2>1. Delivered' = Delivered /\ Pending' = Pending /\ Underway' = Underway /\ Head1' = Head1
    BY <1>12 DEF FailureWritten, writer, Delivered, Pending, Underway, Head1
  <2>2. ~broken' => ~broken
    BY <1>12 DEF FailureWritten
  <2>3. UNCHANGED <<stage, cur, seq, recorded, errorRecorded, deliveryFailure, terminal>>
    BY <1>12 DEF FailureWritten, writer, run, artifact
  <2>4. QED
    BY <2>1, <2>2, <2>3 DEF NothingSkipped
<1>13. CASE CompletedWritten
  <2>1. UNCHANGED <<queue, stage, cur, seq, recorded, errorRecorded, terminal, lines>>
    BY <1>13 DEF CompletedWritten, run, artifact
  <2>2. CASE UNCHANGED <<broken, deliveryFailure>>
    BY <1>1, <2>1, <2>2
  <2>3. CASE broken' = TRUE /\ FirstFailure("output_write")
    <3>1. deliveryFailure' # "none"
      BY <2>3 DEF FirstFailure
    <3>2. Head1' = Head1
      BY <2>1 DEF Head1
    <3>3. QED
      BY <2>1, <2>3, <3>1, <3>2 DEF NothingSkipped
  <2>4. QED
    BY <1>13, <2>2, <2>3 DEF CompletedWritten
<1>14. CASE Complete \/ ReportFailure
  <2>1. queue = <<>>
    <3>1. main \in {"sealed", "unsealed"} /\ ahead = 0
      BY <1>14 DEF Complete, ReportFailure
    <3>2. Len(queue) = 0
      BY <3>1 DEF QueueSound
    <3>3. QED
      BY <3>2, EmptySeq DEF EventsTypeOK
  <2>2. stage = "waiting" /\ UNCHANGED <<stage, recorded, errorRecorded>> /\ terminal'
    BY <1>14, <2>1 DEF Complete, ReportFailure, TerminalLine, QueueSound, run, artifact
  <2>3. Delivered \subseteq Delivered' /\ (~broken' => ~broken)
    <3>1. CASE UNCHANGED <<lines, broken>> \/ (UNCHANGED lines /\ broken' = TRUE)
      BY <3>1 DEF Delivered
    <3>2. ASSUME NEW k \in {"completed", "persistence_failed"}, lines' = Line(k, seq + 1)
          PROVE  Delivered \subseteq Delivered'
      <4>1. seq + 1 \in Nat
        BY DEF EventsTypeOK
      <4>2. QED
        BY <3>2, <4>1, LineProperties
    <3>3. QED
      BY <1>14, <3>1, <3>2 DEF Complete, ReportFailure, TerminalLine
  <2>4. deliveryFailure' = "none" => deliveryFailure = "none"
    BY <1>14 DEF Complete, ReportFailure, TerminalLine, FirstFailure
  <2>5. Underway = {} /\ Underway' = {}
    BY <2>2 DEF Underway
  <2>6. QED
    BY <2>2, <2>3, <2>4, <2>5 DEF NothingSkipped
<1>15. CASE UNCHANGED eventVars
  BY <1>1, <1>15 DEF eventVars, writer, run, artifact
<1>16. QED
  BY <1>2, <1>3, <1>4, <1>5, <1>6, <1>7, <1>8, <1>9, <1>10, <1>11, <1>12, <1>13, <1>14,
     <1>15 DEF EventsNext, MainStep, Operation

-----------------------------------------------------------------------------
(* The public stream.                                                      *)

\* A step adds no line, or the one at hand, or the terminal line beside an empty
\* queue.
LEMMA LinesCases ==
  ASSUME EventsTypeOK, QueueSound, PhaseSound, NothingSkipped, [EventsNext]_eventVars
  PROVE  \/ UNCHANGED lines
         \/ /\ stage = "ready" /\ stage' = "writing" /\ ~terminal
            /\ lines' = Line(IF Head1.quiet THEN "heartbeat" ELSE "event", cur)
            /\ UNCHANGED <<seq, cur, recorded, terminal>>
         \/ /\ ~terminal /\ terminal' /\ stage' = "waiting"
            /\ seq' = seq + 1 /\ UNCHANGED recorded
            /\ \E k \in {"completed", "persistence_failed"} : lines' = Line(k, seq + 1)
<1>1. CASE Write
  <2>1. ~terminal
    BY <1>1 DEF Write, QueueSound
  <2>2. QED
    BY <1>1, <2>1 DEF Write, artifact
<1>2. CASE Complete \/ ReportFailure
  <2>1. queue = <<>> /\ ~terminal
    <3>1. main \in {"sealed", "unsealed"} /\ ahead = 0
      BY <1>2 DEF Complete, ReportFailure
    <3>2. Len(queue) = 0
      BY <3>1 DEF QueueSound
    <3>3. QED
      BY <3>1, <3>2, EmptySeq DEF EventsTypeOK, PhaseSound, Ending
  <2>2. stage = "waiting"
    BY <2>1 DEF QueueSound
  <2>3. CASE UNCHANGED lines
    BY <2>3
  <2>4. CASE ~UNCHANGED lines
    BY <1>2, <2>1, <2>2, <2>4 DEF Complete, ReportFailure, TerminalLine, artifact
  <2>5. QED
    BY <2>3, <2>4
<1>3. CASE Materialize \/ RecordEvent \/ Written
  BY <1>3 DEF Materialize, RecordEvent, Written
<1>4. CASE MainStep /\ ~Complete /\ ~ReportFailure
  BY <1>4 DEF MainStep, SummariseReviews, RecordFindings, CleanupEnds, ChainThrows,
     Finish, StartFinalize, FinalizeEnds, CompletedWritten, FailureWritten, Observe,
     ObserveFailure, Close
<1>5. CASE \/ \E c \in Chains : Emit(c) \/ ChainEnds(c)
           \/ Beat
           \/ \E e \in Emitters : RecordError(e)
           \/ SinkBreaks
  BY <1>5 DEF Emit, ChainEnds, Beat, RecordError, SinkBreaks
<1>6. CASE UNCHANGED eventVars
  BY <1>6 DEF eventVars
<1>7. QED
  BY <1>1, <1>2, <1>3, <1>4, <1>5, <1>6 DEF EventsNext, Operation, MainStep

\* What the sequence numbers do while no line is added.
LEMMA NumbersCases ==
  ASSUME EventsTypeOK, NothingSkipped, [EventsNext]_eventVars
  PROVE  /\ seq' \in Nat /\ seq <= seq'
         /\ terminal => terminal'
         /\ recorded \subseteq recorded'
         /\ \/ stage' \notin {"recording", "ready"}
            \/ stage \in {"recording", "ready"} /\ cur' = cur
            \/ cur' = seq + 1
<1>1. CASE Operation
  BY <1>1 DEF Operation, Materialize, RecordEvent, Write, Written, Dequeue, artifact,
     EventsTypeOK
<1>2. CASE Complete \/ ReportFailure
  BY <1>2 DEF Complete, ReportFailure, TerminalLine, artifact, EventsTypeOK
<1>3. ASSUME UNCHANGED <<seq, cur, stage, terminal, recorded>>
      PROVE  /\ seq' \in Nat /\ seq <= seq'
             /\ terminal => terminal'
             /\ recorded \subseteq recorded'
             /\ \/ stage' \notin {"recording", "ready"}
                \/ stage \in {"recording", "ready"} /\ cur' = cur
                \/ cur' = seq + 1
  BY <1>3 DEF EventsTypeOK
<1>4. CASE MainStep /\ ~Complete /\ ~ReportFailure
  <2>1. UNCHANGED <<seq, cur, stage, terminal, recorded>>
    BY <1>4 DEF MainStep, SummariseReviews, RecordFindings, CleanupEnds, ChainThrows,
       Finish, StartFinalize, FinalizeEnds, CompletedWritten, FailureWritten, Observe,
       ObserveFailure, Close, writer, artifact
  <2>2. QED
    BY <1>3, <2>1
<1>5. CASE \/ \E c \in Chains : Emit(c) \/ ChainEnds(c)
           \/ Beat
           \/ \E e \in Emitters : RecordError(e)
           \/ SinkBreaks
  <2>1. UNCHANGED <<seq, cur, stage, terminal, recorded>>
    BY <1>5 DEF Emit, ChainEnds, Beat, RecordError, SinkBreaks, writer, artifact
  <2>2. QED
    BY <1>3, <2>1
<1>6. CASE UNCHANGED eventVars
  BY <1>3, <1>6 DEF eventVars, writer, artifact
<1>7. QED
  BY <1>1, <1>2, <1>4, <1>5, <1>6 DEF EventsNext, MainStep

LEMMA LastSeqIsNat ==
  ASSUME EventsTypeOK
  PROVE  Stream!LastSeq \in Nat
<1> DEFINE T == [seq : Nat, kind : {"event", "heartbeat", "completed",
                                    "persistence_failed"}]
<1>1. lines \in Seq(T)
  BY DEF EventsTypeOK
<1>2. CASE lines = <<>>
  BY <1>2 DEF Stream!LastSeq
<1>3. CASE lines # <<>>
  <2>1. Len(lines) \in 1..Len(lines)
    BY <1>1, <1>3, EmptySeq
  <2>2. lines[Len(lines)] \in T
    BY <1>1, <2>1, ElementOfSeq
  <2>3. QED
    BY <1>3, <2>2 DEF Stream!LastSeq, Stream!Last
<1>4. QED
  BY <1>2, <1>3

LEMMA StreamStep ==
  ASSUME EventsTypeOK, QueueSound, PhaseSound, NothingSkipped, StreamSound,
         [EventsNext]_eventVars
  PROVE  StreamSound' /\ [Stream!Next]_lines
<1> USE DEF Stream!Terminal, Stream!Last, Last
<1>1. CASE UNCHANGED lines
  <2>1. Stream!LastSeq' = Stream!LastSeq /\ Stream!Ended' = Stream!Ended
    BY <1>1 DEF Stream!LastSeq, Stream!Ended
  <2>2. Stream!LastSeq \in Nat
    BY LastSeqIsNat
  <2>3. QED
    BY <1>1, <2>1, <2>2, NumbersCases DEF StreamSound, EventsTypeOK
<1>2. ASSUME NEW k \in {"event", "heartbeat", "completed", "persistence_failed"},
             NEW n \in Nat,
             lines' = Line(k, n), ~terminal, Stream!LastSeq < n
      PROVE  /\ Stream!LastSeq' = n /\ [Stream!Next]_lines
             /\ Stream!Ended' <=> k \in {"completed", "persistence_failed"}
  <2>1. /\ lines' # <<>> /\ Len(lines') = Len(lines) + 1
        /\ Last(lines') = [seq |-> n, kind |-> k]
        /\ \A i \in 1..Len(lines) : lines'[i] = lines[i]
    BY <1>2, LineProperties
  <2>2. Stream!LastSeq' = n /\ (Stream!Ended' <=> k \in {"completed", "persistence_failed"})
    BY <2>1 DEF Stream!LastSeq, Stream!Ended
  <2>3. Stream!Front(lines') = lines
    <3> DEFINE T == [seq : Nat, kind : {"event", "heartbeat", "completed",
                                        "persistence_failed"}]
    <3>1. lines \in Seq(T) /\ lines' \in Seq(T)
      BY <1>2, LineProperties DEF EventsTypeOK
    <3> HIDE DEF T
    <3>2. Len(lines) \in Nat
      BY <3>1
    <3>3. Stream!Front(lines') = SubSeq(lines', 1, Len(lines))
      BY <2>1, <3>2 DEF Stream!Front
    <3>4. /\ SubSeq(lines', 1, Len(lines)) \in Seq(T)
          /\ Len(SubSeq(lines', 1, Len(lines))) = Len(lines)
          /\ \A i \in 1..Len(lines) : SubSeq(lines', 1, Len(lines))[i] = lines'[i]
      BY <2>1, <3>1, <3>2
    <3>5. QED
      BY <2>1, <3>1, <3>3, <3>4, SeqEqual
  <2>4. ~Stream!Ended
    BY <1>2 DEF StreamSound
  <2>5. Last(lines').seq = n
    BY <2>1
  <2>6. Stream!Next
    BY <1>2, <2>1, <2>3, <2>4, <2>5 DEF Stream!Next
  <2>7. QED
    BY <2>2, <2>6
<1>3. CASE stage = "ready" /\ stage' = "writing" /\ ~terminal
           /\ lines' = Line(IF Head1.quiet THEN "heartbeat" ELSE "event", cur)
           /\ UNCHANGED <<seq, cur, recorded, terminal>>
  <2>1. Stream!LastSeq < cur /\ cur = seq /\ cur \in Nat
    BY <1>3 DEF StreamSound, NothingSkipped, EventsTypeOK
  <2>2. PICK k \in {"heartbeat", "event"} : lines' = Line(k, cur)
    BY <1>3
  <2>3. Stream!LastSeq' = cur /\ [Stream!Next]_lines /\ ~Stream!Ended'
    BY <1>2, <1>3, <2>1, <2>2
  <2>4. QED
    BY <1>3, <2>1, <2>3 DEF StreamSound
<1>4. CASE /\ ~terminal /\ terminal' /\ stage' = "waiting"
           /\ seq' = seq + 1
           /\ \E k \in {"completed", "persistence_failed"} : lines' = Line(k, seq + 1)
  <2>1. PICK k \in {"completed", "persistence_failed"} : lines' = Line(k, seq + 1)
    BY <1>4
  <2>2. seq + 1 \in Nat /\ Stream!LastSeq < seq + 1
    BY LastSeqIsNat DEF StreamSound, EventsTypeOK
  <2>3. Stream!LastSeq' = seq + 1 /\ [Stream!Next]_lines
    BY <1>2, <1>4, <2>1, <2>2
  <2>4. QED
    BY <1>4, <2>2, <2>3 DEF StreamSound
<1>5. QED
  BY <1>1, <1>3, <1>4, LinesCases

LEMMA RecordedStep ==
  ASSUME EventsTypeOK, QueueSound, PhaseSound, NothingSkipped, RecordedFirst,
         [EventsNext]_eventVars
  PROVE  RecordedFirst'
<1>1. recorded \subseteq recorded'
  BY NumbersCases
<1>2. CASE UNCHANGED lines
  BY <1>1, <1>2 DEF RecordedFirst
<1>3. ASSUME NEW k \in {"event", "heartbeat", "completed", "persistence_failed"},
             NEW n \in Nat,
             lines' = Line(k, n), k = "event" => n \in recorded
      PROVE  RecordedFirst'
  <2>1. /\ Len(lines') = Len(lines) + 1 /\ Len(lines) \in Nat
        /\ Last(lines') = [seq |-> n, kind |-> k]
        /\ \A i \in 1..Len(lines) : lines'[i] = lines[i]
    BY <1>3, LineProperties DEF EventsTypeOK
  <2>2. lines'[Len(lines) + 1].seq = n /\ lines'[Len(lines) + 1].kind = k
    BY <2>1 DEF Last
  <2>3. QED
    BY <1>1, <1>3, <2>1, <2>2 DEF RecordedFirst
<1>4. CASE stage = "ready"
           /\ lines' = Line(IF Head1.quiet THEN "heartbeat" ELSE "event", cur)
  <2>1. cur \in Nat /\ (~Head1.quiet => cur \in recorded)
    BY <1>4 DEF NothingSkipped, EventsTypeOK
  <2>2. CASE Head1.quiet
    BY <1>3, <1>4, <2>1, <2>2
  <2>3. CASE ~Head1.quiet
    BY <1>3, <1>4, <2>1, <2>3
  <2>4. QED
    BY <2>2, <2>3
<1>5. ASSUME NEW k \in {"completed", "persistence_failed"}, lines' = Line(k, seq + 1)
      PROVE  RecordedFirst'
  <2>1. seq + 1 \in Nat
    BY DEF EventsTypeOK
  <2>2. QED
    BY <1>3, <1>5, <2>1
<1>6. QED
  BY <1>2, <1>4, <1>5, LinesCases

-----------------------------------------------------------------------------
(* The summary, the index and the exit code.                               *)

\* Lines are only added; a closed artifact takes no event.
LEMMA LinesGrow ==
  ASSUME EventsTypeOK, QueueSound, PhaseSound, NothingSkipped, [EventsNext]_eventVars
  PROVE  Delivered \subseteq Delivered'
<1>1. CASE UNCHANGED lines
  BY <1>1 DEF Delivered
<1>2. CASE lines' = Line(IF Head1.quiet THEN "heartbeat" ELSE "event", cur)
  BY <1>2, LineProperties DEF EventsTypeOK
<1>3. ASSUME NEW k \in {"completed", "persistence_failed"}, lines' = Line(k, seq + 1)
      PROVE  Delivered \subseteq Delivered'
  <2>1. seq + 1 \in Nat
    BY DEF EventsTypeOK
  <2>2. QED
    BY <1>3, <2>1, LineProperties
<1>4. QED
  BY <1>1, <1>2, <1>3, LinesCases

LEMMA ClosedStays ==
  ASSUME artifactClosed, [EventsNext]_eventVars
  PROVE  recorded' = recorded
<1>1. CASE Operation
  BY <1>1 DEF Operation, Materialize, RecordEvent, Write, Written, artifact
<1>2. CASE MainStep
  BY <1>2 DEF MainStep, SummariseReviews, RecordFindings, CleanupEnds, ChainThrows,
     Finish, StartFinalize, FinalizeEnds, Complete, CompletedWritten, ReportFailure,
     FailureWritten, Observe, ObserveFailure, Close, artifact
<1>3. QED
  BY <1>1, <1>2 DEF EventsNext, Emit, ChainEnds, Beat, RecordError, SinkBreaks,
     eventVars, artifact

\* After the terminal line nothing is delivered, recorded or lost any more.
LEMMA TerminalIsLast ==
  ASSUME EventsTypeOK, QueueSound, terminal, Aside
  PROVE  UNCHANGED <<lines, seq, recorded, deliveryFailure, errorRecorded>>
<1>1. queue = <<>>
  BY DEF QueueSound
<1>2. ~Operation
  BY <1>1 DEF Operation, Materialize, RecordEvent, Write, Written
<1>3. QED
  BY <1>2 DEF Aside, Emit, ChainEnds, Beat, RecordError, SinkBreaks, writer, run, artifact

LEMMA OutcomeStep ==
  ASSUME EventsTypeOK, QueueSound, PhaseSound, HeartSound, NothingSkipped, OutcomeSound,
         [EventsNext]_eventVars
  PROVE  OutcomeSound'
<1> USE DEF Early, Ending, Ended, Alive, NoExit
<1>1. Delivered \subseteq Delivered' /\ (artifactClosed => recorded' = recorded)
  BY LinesGrow, ClosedStays
<1>2. ASSUME UNCHANGED <<lines, seq, recorded, deliveryFailure, errorRecorded>>
      PROVE  Delivered' = Delivered /\ EndsWith("completed")' = EndsWith("completed")
  BY <1>2 DEF Delivered, EndsWith
<1>3. CASE Aside
  <2>1. /\ Alive
        /\ UNCHANGED <<terminal, artifactFinalizing, artifactClosed, published,
                       observed, told>>
        /\ \/ main' = main /\ exit' = exit
           \/ main' = "crashed" /\ exit' = 1
           \/ main = "flushing" /\ main' = "closing" /\ exit' = 3
    BY <1>3, AsideKeeps
  <2>2. CASE terminal
    <3>1. UNCHANGED <<lines, seq, recorded, deliveryFailure, errorRecorded>>
      BY <1>3, <2>2, TerminalIsLast
    <3>2. QED
      BY <1>2, <2>1, <2>2, <3>1 DEF OutcomeSound, IndexTellsFailure, CleanExit
  <2>3. CASE ~terminal
    <3>1. main' \notin {"terminal_pending", "observing"} /\ observed' = "none"
      BY <2>1, <2>3 DEF PhaseSound, OutcomeSound
    <3>2. ~(exit' \in {0, 1} /\ main' # "crashed")
      BY <2>1, <2>3 DEF OutcomeSound
    <3>3. artifactFinalizing' /\ artifactClosed' /\ ~told' => recorded' \subseteq Delivered'
      BY <1>1, <2>1 DEF OutcomeSound
    <3>4. QED
      BY <3>1, <3>2, <3>3 DEF OutcomeSound, IndexTellsFailure, CleanExit
  <2>4. QED
    BY <2>2, <2>3
<1>4. CASE SummariseReviews \/ RecordFindings \/ CleanupEnds \/ ChainThrows \/ Finish
             \/ StartFinalize \/ FinalizeEnds
  <2>1. /\ main \in Early \cup Ending
        /\ main' \in Early \cup Ending \cup {"closing"}
        /\ exit' \in {exit, 3} /\ UNCHANGED observed
    BY <1>4 DEF SummariseReviews, RecordFindings, CleanupEnds, ChainThrows, Finish,
       StartFinalize, FinalizeEnds, Throws, artifact
  <2>2. exit' \in {NoExit, 3} /\ observed' = "none"
    BY <2>1 DEF PhaseSound
  <2>3. artifactFinalizing' /\ artifactClosed' /\ ~told' => recorded' \subseteq Delivered'
    <3>1. CASE StartFinalize
      <4>1. UNCHANGED <<lines, recorded>> /\ told' = (deliveryFailure # "none")
            /\ main = "settling" /\ artifactFinalizing
        BY <3>1 DEF StartFinalize, PhaseSound
      <4>2. stage = "ready" => Head1.quiet
        <5>1. ASSUME stage = "ready" PROVE Head1.quiet
          <6>1. 1 \in 1..Len(queue) /\ Head1 = queue[1]
            BY <5>1, TailOfQueue DEF QueueSound
          <6>2. queue[1].from = Heart
            BY <3>1, <4>1, <6>1, SealedIsQuiet DEF StartFinalize
          <6>3. QED
            BY <4>1, <6>1, <6>2 DEF HeartSound
        <5>2. QED
          BY <5>1
      <4>3. Underway = {} /\ Delivered' = Delivered
        BY <4>1, <4>2 DEF Underway, Delivered
      <4>4. QED
        BY <4>1, <4>3 DEF NothingSkipped
    <3>2. CASE FinalizeEnds
      BY <1>1, <3>2 DEF FinalizeEnds, OutcomeSound, run
    <3>3. CASE main \in Early
      <4>1. ~artifactClosed'
        BY <1>4, <3>3 DEF SummariseReviews, RecordFindings, CleanupEnds, ChainThrows,
           Finish, StartFinalize, FinalizeEnds, PhaseSound, artifact
      <4>2. QED
        BY <4>1
    <3>4. QED
      BY <1>4, <2>1, <3>1, <3>2, <3>3 DEF SummariseReviews, RecordFindings, CleanupEnds,
         ChainThrows, Finish
  <2>4. QED
    BY <2>1, <2>2, <2>3 DEF OutcomeSound, IndexTellsFailure, CleanExit
<1>5. CASE Complete \/ ReportFailure
  <2>1. /\ main \in {"sealed", "unsealed"}
        /\ UNCHANGED <<observed, artifactFinalizing, artifactClosed, told, recorded>>
        /\ exit' \in {exit, 3} /\ terminal'
    BY <1>5 DEF Complete, ReportFailure, TerminalLine, run, artifact
  <2>2. exit' \in {NoExit, 3} /\ observed' = "none"
    BY <2>1 DEF PhaseSound
  <2>3. main' \in {"terminal_pending", "observing"} =>
          EndsWith("completed")' /\ recorded' \subseteq Delivered'
          /\ (deliveryFailure' = "none" => Delivered' = 1..seq')
    <3>1. ASSUME main' \in {"terminal_pending", "observing"}
          PROVE  EndsWith("completed")' /\ recorded' \subseteq Delivered'
                 /\ (deliveryFailure' = "none" => Delivered' = 1..seq')
      <4>1. /\ ~broken /\ lines' = Line("completed", seq + 1) /\ seq' = seq + 1
            /\ UNCHANGED deliveryFailure /\ ahead = 0 /\ main = "sealed"
        BY <1>5, <3>1 DEF Complete, ReportFailure, TerminalLine
      <4>2. queue = <<>>
        BY <4>1, EmptySeq DEF QueueSound, EventsTypeOK
      <4>3. stage = "waiting" /\ ~terminal
        BY <4>1, <4>2 DEF QueueSound, PhaseSound
      <4>4. Underway = {} /\ Pending = {}
        BY <4>3 DEF Underway, Pending
      <4>5. recorded \subseteq Delivered
            /\ (deliveryFailure = "none" => Delivered = 1..seq)
        BY <4>1, <4>3, <4>4 DEF NothingSkipped
      <4>6. seq + 1 \in Nat /\ seq \in Nat
        BY DEF EventsTypeOK
      <4>7. /\ Delivered' = Delivered \cup {seq + 1} /\ lines' # <<>>
            /\ Last(lines') = [seq |-> seq + 1, kind |-> "completed"]
        BY <4>1, <4>6, LineProperties
      <4>8. EndsWith("completed")'
        BY <4>7 DEF EndsWith
      <4>9. deliveryFailure' = "none" => Delivered' = 1..seq'
        BY <4>1, <4>5, <4>6, <4>7
      <4>10. QED
        BY <1>1, <2>1, <4>5, <4>8, <4>9
    <3>2. QED
      BY <3>1
  <2>4. artifactFinalizing' /\ artifactClosed' /\ ~told' => recorded' \subseteq Delivered'
    BY <1>1, <2>1 DEF OutcomeSound
  <2>5. QED
    BY <2>1, <2>2, <2>3, <2>4 DEF OutcomeSound, IndexTellsFailure, CleanExit
<1>6. CASE CompletedWritten \/ FailureWritten
  <2>1. /\ main \in {"terminal_pending", "failure_pending"}
        /\ UNCHANGED <<lines, seq, terminal, observed, artifactFinalizing,
                       artifactClosed, told, recorded>>
        /\ exit' \in {exit, 3}
    BY <1>6 DEF CompletedWritten, FailureWritten, writer, run, artifact
  <2>2. exit' \in {NoExit, 3} /\ observed' = "none"
    BY <2>1 DEF PhaseSound
  <2>3. Delivered' = Delivered /\ EndsWith("completed")' = EndsWith("completed")
    BY <2>1 DEF Delivered, EndsWith
  <2>4. main' \in {"terminal_pending", "observing"} =>
          main = "terminal_pending" /\ UNCHANGED deliveryFailure
    BY <1>6 DEF CompletedWritten, FailureWritten
  <2>5. QED
    BY <2>1, <2>2, <2>3, <2>4 DEF OutcomeSound, IndexTellsFailure, CleanExit
<1>7. CASE Observe
  <2>1. /\ main = "observing" /\ terminal /\ published
        /\ UNCHANGED <<lines, seq, terminal, artifactFinalizing, published, recorded,
                       artifactClosed, told, deliveryFailure, errorRecorded>>
    BY <1>7 DEF Observe, PhaseSound, writer, run
  <2>2. Delivered' = Delivered /\ EndsWith("completed")' = EndsWith("completed")
    BY <1>2, <2>1
  <2>3. /\ EndsWith("completed") /\ recorded \subseteq Delivered
        /\ deliveryFailure = "none" => Delivered = 1..seq /\ ~errorRecorded
    BY <2>1 DEF OutcomeSound, NothingSkipped
  <2>4. observed' = "planned" => deliveryFailure = "none"
    BY <1>7 DEF Observe, PhaseSound
  <2>5. exit' \in {0, 1} => observed' # "none"
    BY <1>7 DEF Observe, PhaseSound
  <2>6. IndexTellsFailure'
    BY <2>1, <2>2, <2>3, <2>4 DEF IndexTellsFailure
  <2>7. CleanExit'
    BY <2>1, <2>2, <2>3, <2>5 DEF CleanExit
  <2>8. main' \notin {"terminal_pending", "observing"}
    BY <1>7 DEF Observe
  <2>9. QED
    BY <2>1, <2>2, <2>6, <2>7, <2>8, <2>3 DEF OutcomeSound
<1>8. CASE ObserveFailure
  <2>1. /\ main = "observing_failure" /\ terminal /\ main' = "closing" /\ exit' = 3
        /\ UNCHANGED <<lines, seq, terminal, artifactFinalizing, recorded,
                       artifactClosed, told, deliveryFailure, errorRecorded>>
        /\ observed' \in {observed, "failed"}
    BY <1>8 DEF ObserveFailure, PhaseSound, writer, run
  <2>2. Delivered' = Delivered
    BY <1>2, <2>1
  <2>3. observed' # "planned"
    BY <2>1 DEF PhaseSound
  <2>4. QED
    BY <2>1, <2>2, <2>3 DEF OutcomeSound, IndexTellsFailure, CleanExit
<1>9. CASE Close
  <2>1. /\ main = "closing" /\ main' = "exited"
        /\ UNCHANGED <<lines, seq, terminal, artifactFinalizing, published, recorded,
                       observed, exit, told, deliveryFailure, errorRecorded>>
    BY <1>9 DEF Close, writer, run
  <2>2. Delivered' = Delivered /\ EndsWith("completed")' = EndsWith("completed")
    BY <1>2, <2>1
  <2>3. artifactFinalizing => artifactClosed
    BY <2>1 DEF PhaseSound
  <2>4. QED
    BY <2>1, <2>2, <2>3 DEF OutcomeSound, IndexTellsFailure, CleanExit
<1>10. CASE UNCHANGED eventVars
  <2>1. UNCHANGED <<lines, seq, terminal, artifactFinalizing, artifactClosed, published,
                    recorded, observed, exit, told, deliveryFailure, errorRecorded, main>>
    BY <1>10 DEF eventVars, writer, run, artifact
  <2>2. QED
    BY <1>2, <2>1 DEF OutcomeSound, IndexTellsFailure, CleanExit
<1>11. QED
  BY <1>3, <1>4, <1>5, <1>6, <1>7, <1>8, <1>9, <1>10 DEF EventsNext, MainStep, Aside

\* Only a heartbeat that is to be recorded ends the process, and what it meets is
\* a poisoned artifact, never a closed one.
LEMMA HarmlessStep ==
  ASSUME EventsTypeOK, QueueSound, PhaseSound, HeartSound, NothingSkipped,
         HeartbeatsHarmless, [EventsNext]_eventVars
  PROVE  HeartbeatsHarmless'
<1> USE EmittersAre DEF Alive
<1>1. SUFFICES ASSUME main' = "crashed", main # "crashed" PROVE poisoned'
  BY DEF HeartbeatsHarmless, eventVars, EventsNext, Emit, ChainEnds, Beat, Operation,
     Materialize, RecordEvent, Write, Written, RecordError, SinkBreaks, MainStep,
     SummariseReviews, RecordFindings, CleanupEnds, ChainThrows, Finish, StartFinalize,
     FinalizeEnds, Complete, CompletedWritten, ReportFailure, FailureWritten, Observe,
     ObserveFailure, Close, artifact
<1>2. CASE Operation
  <2>1. queue # <<>> /\ Head1.from \in Emitters
        /\ (Moves \/ Ends \/ \E f \in Failures : Breaks(f))
    BY <1>2, OperationCases
  <2>2. PICK f \in Failures : Breaks(f)
    BY <1>1, <2>1 DEF Moves, Ends
  <2>3. Head1.from = Heart /\ f = "event_persistence"
    BY <1>1, <2>1, <2>2, RejectsProperties DEF Breaks
  <2>4. stage = "recording" /\ poisoned' = (poisoned \/ ~artifactClosed)
    BY <2>2, <2>3 DEF Breaks
  <2>5. queue[1].from = Heart /\ ~queue[1].quiet /\ 1 \in 1..Len(queue)
    BY <2>1, <2>3, <2>4, TailOfQueue DEF NothingSkipped
  <2>6. ~artifactFinalizing /\ main # "exited"
    BY <2>5 DEF HeartSound
  <2>7. ~artifactClosed
    BY <1>1, <2>6 DEF PhaseSound
  <2>8. QED
    BY <2>4, <2>7
<1>3. ASSUME NEW e \in Emitters, RecordError(e) PROVE poisoned'
  BY <1>1, <1>3 DEF RecordError
<1>4. CASE MainStep
  BY <1>1, <1>4 DEF MainStep, SummariseReviews, RecordFindings, CleanupEnds, ChainThrows,
     Finish, StartFinalize, FinalizeEnds, Complete, CompletedWritten, ReportFailure,
     FailureWritten, Observe, ObserveFailure, Close, Throws, TerminalLine
<1>5. QED
  BY <1>1, <1>2, <1>3, <1>4 DEF EventsNext, Emit, ChainEnds, Beat, SinkBreaks, eventVars

-----------------------------------------------------------------------------
(* The theorems.                                                           *)

LEMMA EventsInvInit == EventsInit => EInv
<1> SUFFICES ASSUME EventsInit PROVE EInv
  OBVIOUS
<1> USE EmittersAre DEF EventsInit
<1>1. EventsTypeOK
  <2>1. /\ emitter \in [Emitters -> {"free", "awaiting", "erring", "done", "threw"}]
        /\ emitted \in [Emitters -> Nat]
    OBVIOUS
  <2>2. /\ queue \in Seq([from : Emitters, quiet : BOOLEAN])
        /\ lines \in Seq([seq : Nat, kind : {"event", "heartbeat", "completed",
                                             "persistence_failed"}])
    BY EmptySeq
  <2>3. QED
    BY <2>1, <2>2 DEF EventsTypeOK, Stages, Phases, NoExit
<1>2. Len(queue) = 0 /\ Len(lines) = 0
  OBVIOUS
<1>3. QueueSound /\ HeartSound
  BY <1>2 DEF QueueSound, HeartSound
<1>4. PhaseSound
  BY DEF PhaseSound, Early, Ending, Ended
<1>5. Delivered = {}
  BY <1>2 DEF Delivered
<1>6. NothingSkipped
  BY <1>5 DEF NothingSkipped, Pending
<1>7. StreamSound
  BY DEF StreamSound, Stream!LastSeq, Stream!Ended
<1>8. RecordedFirst
  BY <1>2 DEF RecordedFirst
<1>9. OutcomeSound /\ HeartbeatsHarmless
  BY DEF OutcomeSound, IndexTellsFailure, CleanExit, HeartbeatsHarmless, NoExit, Alive
<1>10. QED
  BY <1>1, <1>3, <1>4, <1>6, <1>7, <1>8, <1>9 DEF EInv

LEMMA EventsInvStep == EInv /\ [EventsNext]_eventVars => EInv'
BY TypeStep, QueueStep, PhaseStep, HeartStep, SkippedStep, StreamStep, RecordedStep,
   OutcomeStep, HarmlessStep DEF EInv

\* The inductive invariant holds of every run of the module.
THEOREM DeliveryInvariant == EventsSpec => []EInv
BY EventsInvInit, EventsInvStep, PTL DEF EventsSpec

\* What was not delivered is told: the artifact has an event before the public
\* stream, its summary and the index know of every one that the output did not
\* take, the exit code follows, and no heartbeat ends a run whose artifact is sound
\* (the emit wrapper and finish() of run-v9.ts, runV9App).
THEOREM NothingIsHidden == EventsSpec => []DeliveryIsTold
<1>1. EInv => DeliveryIsTold
  BY DEF EInv, DeliveryIsTold, SummaryTellsFailure, PhaseSound, OutcomeSound
<1>2. QED
  BY <1>1, DeliveryInvariant, PTL

\* The writer implements the public stream: growing sequence numbers, and nothing
\* after the terminal line, although that one does not pass through its queue.
THEOREM StreamIsOrdered == EventsSpec => StreamSpec
<1>1. EventsInit => Stream!Init
  BY DEF EventsInit, Stream!Init
<1>2. EInv /\ [EventsNext]_eventVars => [Stream!Next]_lines
  BY StreamStep DEF EInv
<1>3. QED
  BY <1>1, <1>2, DeliveryInvariant, PTL DEF EventsSpec, StreamSpec, Stream!Spec

=============================================================================
