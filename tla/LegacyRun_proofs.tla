-------------------------- MODULE LegacyRun_proofs --------------------------
(***************************************************************************)
(* Proofs about LegacyRun, for any number of lenses, reviewers and         *)
(* provider groups, and for any policy and limits.                         *)
(***************************************************************************)
EXTENDS LegacyRun, FiniteSetTheorems, FunctionTheorems, SequenceTheorems,
        WellFoundedInduction, TLAPS

\* A worker is on its way to the end of the current reviewer, or holds a slot.
Under == {"probing", "attempt", "started", "queued", "admitted", "called", "backoff"}
Holding == {"admitted", "called", "recording"}
Places == {"idle", "next", "telling", "recording", "settled", "done", "threw"} \cup Under

Rulings == {"upheld", "refuted", "unproven", "undecided"}
Statuses == Terminal \cup {"queued", "deferred", "probing", "starting", "reviewing"}

Chained(l) == 1..Len(Chain[l])

LegacyTypeOK ==
  /\ scope \in Scopes
  /\ run \in {"starting", "reviewing", "completed", "rejected"}
  /\ interrupted \in BOOLEAN /\ usable \in BOOLEAN
  /\ status \in [Reviewers -> Statuses]
  /\ verdict \in [Reviewers -> {"none", "clean", "gate"} \cup Rulings]
  /\ source \in [Reviewers -> Reviewers \cup {NoOne}]
  /\ told \in [Reviewers -> Nat]
  /\ storage \in [Reviewers -> {"none", "kept", "released", "abandoned"}]
  /\ pc \in [Lenses -> Places]
  /\ at \in [Lenses -> Nat \ {0}]
  /\ passes \in [Lenses -> Seq(Groups)]
  /\ pending \in [Lenses -> Reviewers \cup {NoOne}]
  /\ cut \in [Lenses -> BOOLEAN]
  /\ busy \in [Groups -> Nat] /\ waiting \in [Groups -> Seq(Lenses)]

\* What a reviewer is, and what was told of it.
ReviewerSound(l, r) ==
  /\ told[r] \in {0, 1}
  /\ r \in Open => told[r] = 0
  /\ status[r] = "completed" =>
       verdict[r] \in IF source[r] = NoOne THEN {"clean", "gate"} ELSE Rulings
  /\ source[r] # NoOne => source[r] \in Range(Chain[l]) /\ Group[source[r]] # Group[r]
  /\ r \notin Open /\ told[r] = 0 =>
       \/ pc[l] \in {"telling", "recording"} /\ r = Current(l)
       \/ pc[l] = "threw" \/ run = "rejected"

\* Where a worker is in its chain: what is behind it has ended, what is before
\* it has not.
WorkerSound(l) ==
  /\ run = "starting" \/ scope[l] # "runs" => pc[l] = "idle"
  /\ pc[l] \notin {"idle", "next", "done", "threw"} => at[l] \in Chained(l)
  /\ pc[l] \in Under => Current(l) \in Open
  /\ pc[l] = "next" /\ at[l] \in Chained(l) => Current(l) \in Open
  /\ pc[l] = "telling" => status[Current(l)] = "incomplete" /\ told[Current(l)] = 0
  /\ pc[l] = "recording" =>
       status[Current(l)] \in {"completed", "incomplete"} /\ told[Current(l)] = 0
  /\ pc[l] = "settled" => Current(l) \notin Open /\ told[Current(l)] = 1
  /\ pc[l] \notin {"idle", "done", "threw"} =>
       \A i \in Chained(l) : /\ i < at[l] => Chain[l][i] \notin Open
                             /\ i > at[l] => Chain[l][i] \in Open
  /\ pc[l] = "done" /\ ~interrupted => \A r \in Range(Chain[l]) : r \notin Open
  /\ pc[l] = "idle" =>
       /\ at[l] = 1
       /\ run = "starting" \/ (scope[l] = "runs" /\ ~interrupted) =>
            \A r \in Range(Chain[l]) : r \in Open
  /\ run \in {"reviewing", "completed"} /\ scope[l] # "runs" /\ ~interrupted =>
       \A r \in Range(Chain[l]) : r \notin Open
  /\ pending[l] # NoOne => pending[l] \in Range(Chain[l])

\* What the passes of a lens count, and that nobody decides after a decision.
Unrecorded(l) == IF pc[l] \in {"recording", "settled"} THEN {Current(l)} ELSE {}
Counted(l) == Clean(l) \ Unrecorded(l)
DecisionSound(l) ==
  /\ pc[l] # "threw" =>
       /\ Cardinality(Counted(l)) = Len(passes[l])
       /\ {Group[r] : r \in Counted(l)} = Range(passes[l])
  /\ pc[l] \notin {"done", "threw"} => ~QuorumMet(l, passes[l])
  /\ \A i \in Chained(l) :
       Chain[l][i] \in CompletedOf(l) /\ Deciding(Chain[l][i]) =>
         /\ i = at[l] /\ pc[l] \in {"recording", "settled", "done", "threw"}
         /\ ~QuorumMet(l, passes[l])

LensSound(l) ==
  /\ \A r \in Range(Chain[l]) : ReviewerSound(l, r)
  /\ WorkerSound(l)
  /\ DecisionSound(l)

\* What the pages behind a result have become, by what has become of the run.
StorageSound ==
  \A r \in Reviewers :
    /\ storage[r] = "kept" => status[r] = "completed"
    /\ status[r] = "completed" =>
         CASE run = "completed" -> storage[r] = "released"
           [] run = "rejected" -> \/ storage[r] = "abandoned"
                                  \/ storage[r] = "kept" /\ \E l \in Lenses : pc[l] = "threw"
           [] OTHER -> storage[r] = "kept"

RunSound ==
  /\ run = "rejected" => \/ \A l \in Lenses : pc[l] = "idle"
                         \/ AllDone
                         \/ \E l \in Lenses : pc[l] = "threw"
  /\ run = "completed" => AllDone /\ exit = ExitCode /\ \A r \in Reviewers : told[r] = 1

\* Who waits in the queue of a group, and that a slot is free only when nobody does.
QueueSound(g) ==
  /\ \A i \in 1..Len(waiting[g]) :
       LET l == waiting[g][i] IN pc[l] \in {"queued", "threw"} /\ GroupAt(l) = g
  /\ \A i, j \in 1..Len(waiting[g]) : waiting[g][i] = waiting[g][j] => i = j

LegacyInv ==
  /\ LegacyTypeOK
  /\ \A l \in Lenses : LensSound(l)
  /\ StorageSound
  /\ RunSound
  /\ \A g \in Groups : QueueSound(g)
  /\ SlotsAreCounted

----------------------------------------------------------------------------
(* Chains and finite sets.                                                 *)

\* A set of natural numbers has a least element.
LEMMA Least ==
  ASSUME NEW S \in SUBSET Nat, S # {}
  PROVE  \E n \in S : \A m \in S : n <= m
<1>1. PICK R : R = OpToRel(<, Nat)
  OBVIOUS
<1>2. IsWellFoundedOn(R, Nat)
  BY <1>1, NatLessThanWellFounded
<1>3. R = {ss \in Nat \X Nat : ss[1] < ss[2]}
  BY <1>1 DEF OpToRel
<1>4. PICK n \in S : \A m \in S : <<m, n>> \notin R
  BY <1>2, WFMin
<1>5. ASSUME NEW m \in S PROVE n <= m
  <2>1. <<m, n>> \in Nat \X Nat /\ <<m, n>>[1] = m /\ <<m, n>>[2] = n
    OBVIOUS
  <2>2. ~(m < n)
    BY <1>3, <1>4, <2>1
  <2>3. QED
    BY <2>2
<1>6. QED
  BY <1>5

\* What a sequence holds is finite.
LEMMA RangeIsFinite ==
  ASSUME NEW S, NEW s \in Seq(S)
  PROVE  IsFiniteSet(Range(s)) /\ Range(s) = {s[i] : i \in 1..Len(s)}
<1>1. DOMAIN s = 1..Len(s) /\ Len(s) \in Nat
  OBVIOUS
<1>2. IsFiniteSet(1..Len(s))
  BY <1>1, FS_Interval
<1>3. Range(s) = {s[i] : i \in 1..Len(s)}
  BY <1>1 DEF Range
<1>4. s \in Surjection(1..Len(s), Range(s))
  BY <1>1, <1>3 DEF Surjection
<1>5. QED
  BY <1>2, <1>3, <1>4, FS_Surjection

LEMMA ChainIs ==
  ASSUME NEW l \in Lenses
  PROVE  /\ Len(Chain[l]) \in Nat \ {0} /\ Chained(l) \subseteq Nat \ {0} /\ 1 \in Chained(l)
         /\ DOMAIN Chain[l] = Chained(l)
         /\ Range(Chain[l]) = {Chain[l][i] : i \in Chained(l)}
         /\ Range(Chain[l]) \subseteq Reviewers
         /\ \A i, j \in Chained(l) : Chain[l][i] = Chain[l][j] => i = j
         /\ IsFiniteSet(Range(Chain[l]))
<1>1. /\ Chain[l] \in Seq(Range(Chain[l])) /\ Chain[l] # <<>> /\ IsInjective(Chain[l])
  BY LegacyRosterAssumption
<1>2. PICK c : c = Chain[l]
  OBVIOUS
<1>3. c \in Seq(Range(c)) /\ c # <<>> /\ IsInjective(c)
  BY <1>1, <1>2
<1>4. Len(c) \in Nat \ {0} /\ DOMAIN c = 1..Len(c)
  BY <1>3
<1>5. IsFiniteSet(Range(c)) /\ Range(c) = {c[i] : i \in 1..Len(c)}
  BY <1>3, RangeIsFinite
<1>6. \A i, j \in 1..Len(c) : c[i] = c[j] => i = j
  BY <1>3, <1>4 DEF IsInjective
<1>7. Range(Chain[l]) \subseteq Reviewers
  BY DEF Reviewers
<1>8. 1 \in 1..Len(c) /\ 1..Len(c) \subseteq Nat \ {0}
  BY <1>4
<1>9. QED
  BY <1>2, <1>4, <1>5, <1>6, <1>7, <1>8 DEF Chained

LEMMA InChain ==
  ASSUME NEW l \in Lenses, NEW i \in Chained(l)
  PROVE  Chain[l][i] \in Range(Chain[l])
<1>1. i \in DOMAIN Chain[l]
  BY ChainIs
<1>2. QED
  BY <1>1 DEF Range

LEMMA PlaceOf ==
  ASSUME NEW l \in Lenses, NEW r \in Range(Chain[l])
  PROVE  \E i \in Chained(l) : r = Chain[l][i]
<1>1. Range(Chain[l]) = {Chain[l][i] : i \in Chained(l)}
  BY ChainIs
<1>2. QED
  BY <1>1

LEMMA ChainsApart ==
  ASSUME NEW l \in Lenses, NEW m \in Lenses, l # m,
         NEW r \in Range(Chain[l])
  PROVE  r \notin Range(Chain[m])
BY LegacyRosterAssumption

LEMMA EveryReviewer ==
  /\ \A r \in Reviewers : \E l \in Lenses : r \in Range(Chain[l])
  /\ \A r \in Reviewers : Group[r] \in Groups
  /\ NoOne \notin Reviewers
  /\ IsFiniteSet(Lenses)
<1>1. IsFiniteSet(Lenses)
  BY LegacyRosterAssumption, RangeIsFinite DEF Lenses
<1>2. QED
  BY <1>1, LegacyRosterAssumption DEF Reviewers, Groups

LEMMA CurrentIs ==
  ASSUME NEW l \in Lenses, at[l] \in Chained(l)
  PROVE  /\ Current(l) \in Range(Chain[l]) /\ Current(l) \in Reviewers
         /\ GroupAt(l) \in Groups /\ GroupAt(l) = Group[Current(l)]
BY ChainIs, EveryReviewer DEF Current, GroupAt

LEMMA RestIs ==
  ASSUME NEW l \in Lenses, at[l] \in Nat
  PROVE  /\ Rest(l) = {Chain[l][i] : i \in {j \in Chained(l) : j > at[l]}}
         /\ Rest(l) \subseteq Range(Chain[l])
<1>1. (at[l] + 1)..Len(Chain[l]) = {j \in Chained(l) : j > at[l]}
  BY ChainIs DEF Chained
<1>2. Rest(l) = {Chain[l][i] : i \in {j \in Chained(l) : j > at[l]}}
  BY <1>1 DEF Rest
<1>3. ASSUME NEW r \in Rest(l) PROVE r \in Range(Chain[l])
  <2>1. PICK i \in Chained(l) : r = Chain[l][i]
    BY <1>2
  <2>2. QED
    BY <2>1, ChainIs
<1>4. QED
  BY <1>2, <1>3

LEMMA NotInRest ==
  ASSUME NEW l \in Lenses, at[l] \in Nat \ {0}
  PROVE  /\ Rest(l) \subseteq Reviewers
         /\ at[l] \in Chained(l) => Current(l) \notin Rest(l)
<1>1. Rest(l) \subseteq Reviewers
  BY RestIs, ChainIs
<1>2. ASSUME at[l] \in Chained(l), Current(l) \in Rest(l) PROVE FALSE
  <2>1. PICK i \in Chained(l) : i > at[l] /\ Chain[l][i] = Chain[l][at[l]]
    BY <1>2, RestIs DEF Current
  <2>2. i = at[l]
    BY <1>2, <2>1, ChainIs
  <2>3. QED
    BY <2>1, <2>2
<1>3. QED
  BY <1>1, <1>2

\* A reviewer of another group behind the current one.
LEMMA NearestIs ==
  ASSUME NEW l \in Lenses, at[l] \in Nat, Independent(l) # {}
  PROVE  LET there == Nearest(Independent(l)) IN
         /\ there \in Chained(l) /\ there > at[l]
         /\ Group[Chain[l][there]] # GroupAt(l)
<1>1. PICK S : S = Independent(l)
  OBVIOUS
<1>2. \A i \in S : i \in Chained(l) /\ i > at[l] /\ Group[Chain[l][i]] # GroupAt(l)
  BY <1>1, ChainIs DEF Independent, Chained
<1>3. S \in SUBSET Nat /\ S # {}
  BY <1>1, <1>2, ChainIs
<1>4. \E i \in S : \A j \in S : i <= j
  BY <1>3, Least
<1>5. Nearest(S) \in S
  BY <1>4 DEF Nearest
<1>6. QED
  BY <1>1, <1>2, <1>5

\* What is skipped is among what is to be skipped, and all of it while events
\* can be written.
LEMMA SkippedAre ==
  ASSUME NEW rs
  PROVE  SkippedOf(rs) \subseteq rs /\ (usable => SkippedOf(rs) = rs)
BY DEF SkippedOf

LEMMA SkippedAlone ==
  ASSUME NEW l \in Lenses, NEW i \in Chained(l)
  PROVE  SkippedOf({Chain[l][i]}) = {Chain[l][i]}
<1>1. PICK r : r = Chain[l][i]
  OBVIOUS
<1>2. \A m \in Lenses : \A j, k \in DOMAIN Chain[m] :
        Chain[m][j] = r /\ Chain[m][k] \in {r} => j <= k
  <2> SUFFICES ASSUME NEW m \in Lenses, NEW j \in DOMAIN Chain[m], NEW k \in DOMAIN Chain[m],
                      Chain[m][j] = r, Chain[m][k] = r
               PROVE  j <= k
    OBVIOUS
  <2>1. j \in Chained(m) /\ k \in Chained(m) /\ j \in Nat
    BY ChainIs
  <2>2. j = k
    BY <2>1, ChainIs
  <2>3. QED
    BY <2>1, <2>2
<1>3. QED
  BY <1>1, <1>2 DEF SkippedOf

----------------------------------------------------------------------------
(* Types.                                                                  *)

\* What the steps of a worker need of its place.
Placed(l) ==
  /\ pc[l] \notin {"idle", "next", "done", "threw"} => at[l] \in Chained(l)

LEMMA ReleaseTypes ==
  ASSUME LegacyTypeOK, NEW g \in Groups, NEW l \in Lenses, NEW next \in Places,
         Release(g, l, next), QueueSound(g), busy[g] > 0
  PROVE  /\ busy' \in [Groups -> Nat] /\ waiting' \in [Groups -> Seq(Lenses)]
         /\ pc' \in [Lenses -> Places]
<1>1. busy' \in [Groups -> Nat]
  <2>1. busy \in [Groups -> Nat] /\ busy[g] - 1 \in Nat
    BY DEF LegacyTypeOK
  <2>2. QED
    BY <2>1 DEF Release
<1>2. waiting' \in [Groups -> Seq(Lenses)]
  <2>1. waiting \in [Groups -> Seq(Lenses)]
    BY DEF LegacyTypeOK
  <2>2. waiting[g] # <<>> => Tail(waiting[g]) \in Seq(Lenses)
    BY <2>1
  <2>3. QED
    BY <2>1, <2>2 DEF Release
<1>3. pc' \in [Lenses -> Places]
  BY DEF Release, LegacyTypeOK, Places, Under
<1>4. QED
  BY <1>1, <1>2, <1>3

LEMMA SkipTypes ==
  ASSUME LegacyTypeOK, NEW rs, NEW why, SkipOnly(rs, why)
  PROVE  status' \in [Reviewers -> Statuses] /\ told' \in [Reviewers -> Nat]
BY DEF SkipOnly, Tell, LegacyTypeOK, Statuses, Terminal

LEMMA TellTypes ==
  ASSUME LegacyTypeOK, NEW rs, Tell(rs)
  PROVE  told' \in [Reviewers -> Nat]
BY DEF Tell, LegacyTypeOK

LEMMA AssignTypes ==
  ASSUME LegacyTypeOK, NEW l \in Lenses, Assign(l)
  PROVE  source' \in [Reviewers -> Reviewers \cup {NoOne}]
BY DEF Assign, LegacyTypeOK

\* Types of the roster, of the workers and of the semaphores.
RosterTypes ==
  /\ status \in [Reviewers -> Statuses]
  /\ verdict \in [Reviewers -> {"none", "clean", "gate"} \cup Rulings]
  /\ source \in [Reviewers -> Reviewers \cup {NoOne}]
  /\ told \in [Reviewers -> Nat]
  /\ storage \in [Reviewers -> {"none", "kept", "released", "abandoned"}]
WorkTypes ==
  /\ pc \in [Lenses -> Places]
  /\ at \in [Lenses -> Nat \ {0}]
  /\ passes \in [Lenses -> Seq(Groups)]
  /\ pending \in [Lenses -> Reviewers \cup {NoOne}]
  /\ cut \in [Lenses -> BOOLEAN]
SlotTypes == busy \in [Groups -> Nat] /\ waiting \in [Groups -> Seq(Lenses)]
WorldTypes ==
  /\ scope \in Scopes
  /\ run \in {"starting", "reviewing", "completed", "rejected"}
  /\ interrupted \in BOOLEAN /\ usable \in BOOLEAN

\* A worker that gives its slot back has one.
LEMMA SlotIsHeld ==
  ASSUME LegacyTypeOK, SlotsAreCounted, NEW l \in Lenses, pc[l] \in Holding,
         at[l] \in Chained(l)
  PROVE  GroupAt(l) \in Groups /\ busy[GroupAt(l)] > 0
<1>1. PICK g : g = GroupAt(l)
  OBVIOUS
<1>2. g \in Groups
  BY <1>1, CurrentIs
<1>3. PICK H : H = {m \in Lenses : pc[m] \in {"admitted", "called", "recording"}
                                    /\ GroupAt(m) = g}
  OBVIOUS
<1>4. busy[g] = Cardinality(H)
  BY <1>2, <1>3 DEF SlotsAreCounted
<1>5. l \in H
  BY <1>1, <1>3 DEF Holding
<1>6. IsFiniteSet(H)
  BY <1>3, EveryReviewer, FS_Subset
<1>7. Cardinality(H) # 0
  BY <1>5, <1>6, FS_EmptySet
<1>8. busy[g] \in Nat
  BY <1>2 DEF LegacyTypeOK
<1>9. QED
  BY <1>1, <1>2, <1>4, <1>7, <1>8

LEMMA WorkerTypes ==
  ASSUME LegacyTypeOK, SlotsAreCounted, \A g \in Groups : QueueSound(g),
         NEW l \in Lenses, Placed(l), Resumes(l) \/ Works(l) \/ Answers(l) \/ Timers(l)
  PROVE  LegacyTypeOK'
<1>1. CASE Take(l)
  BY <1>1
  DEF Take, RosterTypes, WorkTypes, SlotTypes, WorldTypes, LegacyTypeOK, Places, Under,
      world, roster, work, timer, semaphore
<1>2. CASE ChainEnds(l)
  BY <1>2
  DEF ChainEnds, RosterTypes, WorkTypes, SlotTypes, WorldTypes, LegacyTypeOK, Places, Under,
      world, roster, work, timer, semaphore
<1>3. CASE DeadlinePassed(l)
  <2>1. status' \in [Reviewers -> Statuses] /\ told' \in [Reviewers -> Nat]
    BY <1>3, TellTypes DEF DeadlinePassed, LegacyTypeOK, Statuses, Terminal
  <2>2. source' \in [Reviewers -> Reviewers \cup {NoOne}]
    BY <1>3, AssignTypes DEF DeadlinePassed
  <2>3. WorkTypes'
    BY <1>3 DEF DeadlinePassed, WorkTypes, LegacyTypeOK, Places, Under, Goes, timer
  <2>4. QED
    BY <1>3, <2>1, <2>2, <2>3
    DEF DeadlinePassed, RosterTypes, WorkTypes, SlotTypes, WorldTypes, LegacyTypeOK, world, semaphore
<1>4. CASE Suppressed(l)
  BY <1>4, SkipTypes, AssignTypes
  DEF Suppressed, RosterTypes, WorkTypes, SlotTypes, WorldTypes, LegacyTypeOK, Places, Under,
      world, timer, semaphore, Goes
<1>5. CASE Probe(l)
  BY <1>5, AssignTypes
  DEF Probe, RosterTypes, WorkTypes, SlotTypes, WorldTypes, LegacyTypeOK, Places, Under,
      world, timer, semaphore, work, Statuses
<1>6. CASE ProbeSucceeds(l)
  BY <1>6
  DEF ProbeSucceeds, RosterTypes, WorkTypes, SlotTypes, WorldTypes, LegacyTypeOK, Places, Under,
      world, timer, semaphore, Statuses
<1>7. CASE ProbeFails(l)
  BY <1>7, TellTypes
  DEF ProbeFails, RosterTypes, WorkTypes, SlotTypes, WorldTypes, LegacyTypeOK, Places, Under,
      world, timer, semaphore, Goes, Statuses, Terminal
<1>8. CASE GiveUp(l)
  BY <1>8
  DEF GiveUp, RosterTypes, WorkTypes, SlotTypes, WorldTypes, LegacyTypeOK, Places, Under,
      world, timer, semaphore, Settle, Statuses, Terminal
<1>9. CASE Tells(l)
  BY <1>9, TellTypes
  DEF Tells, RosterTypes, WorkTypes, SlotTypes, WorldTypes, LegacyTypeOK, Places, Under,
      world, timer, semaphore, work, Goes
<1>10. CASE Attempt(l)
  BY <1>10
  DEF Attempt, RosterTypes, WorkTypes, SlotTypes, WorldTypes, LegacyTypeOK, Places, Under,
      world, timer, semaphore, work, Goes, Statuses
<1>11. CASE Acquire(l)
  <2>1. PICK g : g = GroupAt(l)
    OBVIOUS
  <2>2. at[l] \in Chained(l)
    BY <1>11 DEF Acquire, Placed
  <2>3. g \in Groups
    BY <2>1, <2>2, CurrentIs
  <2>4. SlotTypes'
    <3>1. busy[g] + 1 \in Nat /\ Append(waiting[g], l) \in Seq(Lenses)
      BY <2>3 DEF LegacyTypeOK
    <3>2. \/ (busy' = [busy EXCEPT ![g] = @ + 1] /\ waiting' = waiting)
          \/ (waiting' = [waiting EXCEPT ![g] = Append(@, l)] /\ busy' = busy)
      BY <1>11, <2>1 DEF Acquire
    <3>3. QED
      BY <2>3, <3>1, <3>2 DEF SlotTypes, LegacyTypeOK
  <2>5. pc' \in [Lenses -> Places]
    BY <1>11 DEF Acquire, LegacyTypeOK, Places, Under
  <2>6. QED
    BY <1>11, <2>4, <2>5
    DEF Acquire, RosterTypes, WorkTypes, SlotTypes, WorldTypes, LegacyTypeOK, world, roster, work, timer
<1>12. CASE AcquireCut(l)
  BY <1>12
  DEF AcquireCut, RosterTypes, WorkTypes, SlotTypes, WorldTypes, LegacyTypeOK, Places, Under,
      world, roster, work, semaphore, NoTimer
<1>13. CASE Refused(l)
  <2>1. PICK g : g = GroupAt(l)
    OBVIOUS
  <2>2. at[l] \in Chained(l) /\ pc[l] \in Holding
    BY <1>13 DEF Refused, Placed, Holding
  <2>3. g \in Groups /\ busy[g] > 0
    BY <2>1, <2>2, SlotIsHeld
  <2>4. \E next \in Places : Release(g, l, next)
    BY <1>13, <2>1 DEF Refused, Places, Under
  <2>5. SlotTypes' /\ pc' \in [Lenses -> Places]
    BY <2>3, <2>4, ReleaseTypes DEF SlotTypes
  <2>6. QED
    BY <1>13, <2>5
    DEF Refused, RosterTypes, WorkTypes, SlotTypes, WorldTypes, LegacyTypeOK, world, roster, NoTimer
<1>14. CASE Call(l)
  BY <1>14
  DEF Call, RosterTypes, WorkTypes, SlotTypes, WorldTypes, LegacyTypeOK, Places, Under,
      world, work, timer, semaphore, Statuses
<1>15. CASE ProgressFails(l)
  <2>1. PICK g : g = GroupAt(l)
    OBVIOUS
  <2>2. at[l] \in Chained(l) /\ pc[l] \in Holding
    BY <1>15 DEF ProgressFails, Placed, Holding
  <2>3. g \in Groups /\ busy[g] > 0
    BY <2>1, <2>2, SlotIsHeld
  <2>4. \E next \in Places : Release(g, l, next)
    BY <1>15, <2>1 DEF ProgressFails, Places, Under
  <2>5. SlotTypes' /\ pc' \in [Lenses -> Places]
    BY <2>3, <2>4, ReleaseTypes DEF SlotTypes
  <2>6. QED
    BY <1>15, <2>5
    DEF ProgressFails, RosterTypes, WorkTypes, SlotTypes, WorldTypes, LegacyTypeOK, world, roster, work, NoTimer
<1>16. CASE CallFails(l)
  <2>1. PICK g : g = GroupAt(l)
    OBVIOUS
  <2>2. at[l] \in Chained(l) /\ pc[l] \in Holding
    BY <1>16 DEF CallFails, Placed, Holding
  <2>3. g \in Groups /\ busy[g] > 0
    BY <2>1, <2>2, SlotIsHeld
  <2>4. \E next \in Places : Release(g, l, next)
    BY <1>16, <2>1 DEF CallFails, Places, Under
  <2>5. SlotTypes' /\ pc' \in [Lenses -> Places]
    BY <2>3, <2>4, ReleaseTypes DEF SlotTypes
  <2>6. QED
    BY <1>16, <2>5
    DEF CallFails, RosterTypes, WorkTypes, SlotTypes, WorldTypes, LegacyTypeOK, world, Settle, NoTimer, Statuses, Terminal
<1>17. CASE Backoff(l)
  BY <1>17
  DEF Backoff, RosterTypes, WorkTypes, SlotTypes, WorldTypes, LegacyTypeOK, Places, Under,
      world, timer, semaphore, Settle, Statuses, Terminal
<1>18. CASE Returns(l)
  BY <1>18
  DEF Returns, RosterTypes, WorkTypes, SlotTypes, WorldTypes, LegacyTypeOK, Places, Under,
      world, semaphore, Verdicts, Recording, NoTimer, Statuses, Terminal, Rulings
<1>19. CASE ReturnsNothing(l)
  BY <1>19
  DEF ReturnsNothing, RosterTypes, WorkTypes, SlotTypes, WorldTypes, LegacyTypeOK, Places, Under,
      world, semaphore, Settle, Recording, NoTimer, Statuses, Terminal
<1>20. CASE Records(l)
  <2>1. PICK g : g = GroupAt(l)
    OBVIOUS
  <2>2. at[l] \in Chained(l) /\ pc[l] \in Holding
    BY <1>20 DEF Records, Placed, Holding
  <2>3. g \in Groups /\ busy[g] > 0
    BY <2>1, <2>2, SlotIsHeld
  <2>4. \E next \in Places : Release(g, l, next)
    BY <1>20, <2>1 DEF Records, Places, Under
  <2>5. SlotTypes' /\ pc' \in [Lenses -> Places]
    BY <2>3, <2>4, ReleaseTypes DEF SlotTypes
  <2>6. QED
    BY <1>20, <2>5, TellTypes
    DEF Records, RosterTypes, WorkTypes, SlotTypes, WorldTypes, LegacyTypeOK, world, work, timer
<1>21. CASE AdjudicationPasses(l)
  BY <1>21, SkipTypes
  DEF AdjudicationPasses, RosterTypes, WorkTypes, SlotTypes, WorldTypes, LegacyTypeOK, Places, Under,
      world, timer, semaphore, Forgets, Break
<1>22. CASE ReviewPasses(l)
  <2>1. at[l] \in Chained(l)
    BY <1>22 DEF ReviewPasses, Forgets, AtEnd, Placed
  <2>2. Current(l) \in Reviewers /\ GroupAt(l) \in Groups
    BY <2>1, CurrentIs
  <2>3. WorkTypes'
    <3>1. passes' \in [Lenses -> Seq(Groups)] /\ pending' = pending
      BY <1>22, <2>2 DEF ReviewPasses, LegacyTypeOK
    <3>2. cut' = cut
      BY <1>22 DEF ReviewPasses, timer
    <3>3. \/ (/\ pc' = [pc EXCEPT ![l] = "next"]
              /\ at' = [at EXCEPT ![l] = @ + 1])
          \/ (/\ pc' = [pc EXCEPT ![l] = IF usable \/ Rest(l) = {} THEN "done" ELSE "threw"]
              /\ at' = at)
      BY <1>22 DEF ReviewPasses, Break, NextInChain
    <3>4. pc' \in [Lenses -> Places] /\ at' \in [Lenses -> Nat \ {0}]
      <4>1. pc \in [Lenses -> Places] /\ at \in [Lenses -> Nat \ {0}]
        BY DEF LegacyTypeOK
      <4>2. {"next", "done", "threw"} \subseteq Places /\ at[l] + 1 \in Nat \ {0}
        BY <4>1 DEF Places
      <4>3. CASE pc' = [pc EXCEPT ![l] = "next"] /\ at' = [at EXCEPT ![l] = @ + 1]
        BY <4>1, <4>2, <4>3
      <4>4. CASE at' = at /\ \E p \in {"done", "threw"} : pc' = [pc EXCEPT ![l] = p]
        BY <4>1, <4>2, <4>4
      <4>5. QED
        BY <3>3, <4>3, <4>4
    <3>5. QED
      BY <3>1, <3>2, <3>4 DEF WorkTypes, LegacyTypeOK
  <2>4. status' \in [Reviewers -> Statuses] /\ told' \in [Reviewers -> Nat]
    BY <1>22, SkipTypes DEF ReviewPasses, Break, LegacyTypeOK
  <2>5. QED
    BY <1>22, <2>3, <2>4
    DEF ReviewPasses, RosterTypes, WorkTypes, SlotTypes, WorldTypes, LegacyTypeOK, world, semaphore
<1>23. CASE Adjudicate(l)
  <2>1. at[l] \in Chained(l) /\ at[l] \in Nat
    BY <1>23 DEF Adjudicate, Forgets, AtEnd, Placed, LegacyTypeOK
  <2>2. Current(l) \in Reviewers
    BY <2>1, CurrentIs
  <2>3. PICK there : there = Nearest(Independent(l))
    OBVIOUS
  <2>4. there \in Nat \ {0}
    BY <1>23, <2>1, <2>3, NearestIs, ChainIs DEF Adjudicate
  <2>5. WorkTypes'
    BY <1>23, <2>2, <2>3, <2>4 DEF Adjudicate, WorkTypes, LegacyTypeOK, Places, Under, timer
  <2>6. status' \in [Reviewers -> Statuses] /\ told' \in [Reviewers -> Nat]
    BY <1>23, SkipTypes DEF Adjudicate, LegacyTypeOK
  <2>7. source' \in [Reviewers -> Reviewers \cup {NoOne}]
    BY <1>23, <2>2 DEF Adjudicate, LegacyTypeOK
  <2>8. QED
    BY <1>23, <2>5, <2>6, <2>7
    DEF Adjudicate, RosterTypes, WorkTypes, SlotTypes, WorldTypes, LegacyTypeOK, world, semaphore
<1>24. CASE FindingEnds(l)
  <2>1. at[l] \in Chained(l)
    BY <1>24 DEF FindingEnds, Forgets, AtEnd, Placed
  <2>2. Current(l) \in Reviewers /\ GroupAt(l) \in Groups
    BY <2>1, CurrentIs
  <2>3. WorkTypes'
    <3>1. pending' \in [Lenses -> Reviewers \cup {NoOne}] /\ passes' = passes
      BY <1>24, <2>2 DEF FindingEnds, LegacyTypeOK
    <3>2. pc' \in [Lenses -> Places] /\ at' \in [Lenses -> Nat \ {0}] /\ cut' = cut
      BY <1>24 DEF FindingEnds, Break, NextInChain, LegacyTypeOK, Places, Under, timer
    <3>3. QED
      BY <3>1, <3>2 DEF WorkTypes, LegacyTypeOK
  <2>4. status' \in [Reviewers -> Statuses] /\ told' \in [Reviewers -> Nat]
    BY <1>24, SkipTypes DEF FindingEnds, Break, LegacyTypeOK
  <2>5. QED
    BY <1>24, <2>3, <2>4
    DEF FindingEnds, RosterTypes, WorkTypes, SlotTypes, WorldTypes, LegacyTypeOK, world, semaphore
<1>25. CASE ReviewFails(l)
  <2>1. at[l] \in Chained(l)
    BY <1>25 DEF ReviewFails, Forgets, AtEnd, Placed
  <2>2. Current(l) \in Reviewers /\ GroupAt(l) \in Groups
    BY <2>1, CurrentIs
  <2>3. WorkTypes'
    <3>1. passes' = passes /\ pending' = pending
      BY <1>25 DEF ReviewFails
    <3>2. cut' = cut
      BY <1>25 DEF ReviewFails, timer
    <3>3. \/ (/\ pc' = [pc EXCEPT ![l] = "next"]
              /\ at' = [at EXCEPT ![l] = @ + 1])
          \/ (/\ pc' = [pc EXCEPT ![l] = IF usable \/ Rest(l) = {} THEN "done" ELSE "threw"]
              /\ at' = at)
      BY <1>25 DEF ReviewFails, Break, NextInChain
    <3>4. pc' \in [Lenses -> Places] /\ at' \in [Lenses -> Nat \ {0}]
      <4>1. pc \in [Lenses -> Places] /\ at \in [Lenses -> Nat \ {0}]
        BY DEF LegacyTypeOK
      <4>2. {"next", "done", "threw"} \subseteq Places /\ at[l] + 1 \in Nat \ {0}
        BY <4>1 DEF Places
      <4>3. CASE pc' = [pc EXCEPT ![l] = "next"] /\ at' = [at EXCEPT ![l] = @ + 1]
        BY <4>1, <4>2, <4>3
      <4>4. CASE at' = at /\ \E p \in {"done", "threw"} : pc' = [pc EXCEPT ![l] = p]
        BY <4>1, <4>2, <4>4
      <4>5. QED
        BY <3>3, <4>3, <4>4
    <3>5. QED
      BY <3>1, <3>2, <3>4 DEF WorkTypes, LegacyTypeOK
  <2>4. status' \in [Reviewers -> Statuses] /\ told' \in [Reviewers -> Nat]
    BY <1>25, SkipTypes DEF ReviewFails, Break, LegacyTypeOK
  <2>5. QED
    BY <1>25, <2>3, <2>4
    DEF ReviewFails, RosterTypes, WorkTypes, SlotTypes, WorldTypes, LegacyTypeOK, world, semaphore
<1>26. CASE AttemptTimer(l)
  BY <1>26
  DEF AttemptTimer, RosterTypes, WorkTypes, SlotTypes, WorldTypes, LegacyTypeOK, Places, Under,
      world, roster, work, semaphore
<1>27. CASE LensDeadline(l)
  BY <1>27
  DEF LensDeadline, RosterTypes, WorkTypes, SlotTypes, WorldTypes, LegacyTypeOK, Places, Under,
      world, roster, timer, semaphore
<1>28. QED
  BY <1>1, <1>2, <1>3, <1>4, <1>5, <1>6, <1>7, <1>8, <1>9, <1>10, <1>11, <1>12, <1>13, <1>14,
     <1>15, <1>16, <1>17, <1>18, <1>19, <1>20, <1>21, <1>22, <1>23, <1>24, <1>25, <1>26, <1>27
  DEF Resumes, Works, Answers, Timers

----------------------------------------------------------------------------
(* What a step of a worker does to its lens, and that it leaves the other  *)
(* lenses alone.                                                           *)

SameReviewer(r) ==
  /\ status'[r] = status[r] /\ told'[r] = told[r]
  /\ source'[r] = source[r] /\ verdict'[r] = verdict[r]
Only(rs) == \A r \in Reviewers \ rs : SameReviewer(r)

SamePlace(m) == at'[m] = at[m] /\ passes'[m] = passes[m] /\ pending'[m] = pending[m]
Woken(m) == pc[m] = "queued" /\ pc'[m] = "admitted"
Aside(l) ==
  /\ scope' = scope /\ run' = run /\ interrupted' = interrupted /\ usable' = usable
  /\ \A m \in Lenses \ {l} : SamePlace(m) /\ (pc'[m] = pc[m] \/ Woken(m))

ToldOf(r) == told'[r] = IF usable THEN told[r] + 1 ELSE told[r]
Adopted(l) ==
  \/ source'[Current(l)] = source[Current(l)]
  \/ /\ pending[l] # NoOne /\ Group[Current(l)] # Group[pending[l]]
     /\ source'[Current(l)] = pending[l]

Took(l) ==
  /\ pc[l] = "idle" /\ pc'[l] = "next" /\ Only({}) /\ SamePlace(l)
  /\ scope[l] = "runs" /\ run # "starting" /\ ~interrupted
Left(l) ==
  /\ pc[l] = "next" /\ pc'[l] = "done" /\ Only({}) /\ SamePlace(l)
  /\ interrupted \/ at[l] > Len(Chain[l])

\* The reviewer goes on, or its end is to be told.
Worked(l) ==
  /\ pc[l] \in Under \cup {"next"} /\ at[l] \in Chained(l)
  /\ Only({Current(l)}) /\ SamePlace(l)
  /\ told'[Current(l)] = told[Current(l)] /\ verdict'[Current(l)] = verdict[Current(l)]
  /\ Adopted(l)
  /\ \/ pc'[l] \in Under \cup {"threw"} /\ status'[Current(l)] \in Statuses \ Terminal
     \/ pc'[l] = "telling" /\ status'[Current(l)] = "incomplete"

Answered(l) ==
  /\ pc[l] = "called" /\ pc'[l] = "recording"
  /\ Only({Current(l)}) /\ SamePlace(l)
  /\ told'[Current(l)] = told[Current(l)] /\ source'[Current(l)] = source[Current(l)]
  /\ \/ status'[Current(l)] = "completed" /\ verdict'[Current(l)] \in Verdicts(l)
     \/ status'[Current(l)] = "incomplete" /\ verdict'[Current(l)] = verdict[Current(l)]

Spoke(l) ==
  /\ pc[l] \in {"telling", "recording"}
  /\ pc'[l] = IF usable THEN "settled" ELSE "threw"
  /\ Only({Current(l)}) /\ SamePlace(l)
  /\ status'[Current(l)] = status[Current(l)] /\ verdict'[Current(l)] = verdict[Current(l)]
  /\ source'[Current(l)] = source[Current(l)] /\ ToldOf(Current(l))

\* The reviewer ends without a call, and the next one follows.
PassedOver(l) ==
  /\ pc[l] \in {"next", "probing"} /\ at[l] \in Chained(l)
  /\ pc'[l] = IF usable THEN "next" ELSE "threw"
  /\ at'[l] = at[l] + 1 /\ passes'[l] = passes[l] /\ pending'[l] = pending[l]
  /\ Only({Current(l)})
  /\ status'[Current(l)] \in {"skipped", "incomplete"} /\ ToldOf(Current(l))
  /\ verdict'[Current(l)] = verdict[Current(l)] /\ Adopted(l)

\* Of these the first ones, or all of them, are skipped.
SkippedAmong(rs) ==
  \A r \in rs :
    /\ ToldOf(r) /\ source'[r] = source[r] /\ verdict'[r] = verdict[r]
    /\ status'[r] = "skipped" \/ (~usable /\ status'[r] = status[r])

\* The reviewer ends without a call, and with it the chain.
Blocked(l) ==
  /\ pc[l] = "probing" /\ pc'[l] = IF usable THEN "done" ELSE "threw"
  /\ SamePlace(l) /\ Only({Current(l)} \cup Rest(l))
  /\ status'[Current(l)] = "incomplete" /\ ToldOf(Current(l))
  /\ verdict'[Current(l)] = verdict[Current(l)] /\ source'[Current(l)] = source[Current(l)]
  /\ SkippedAmong(Rest(l))

\* Whether the reviewer's pass is counted.
Counts(l) ==
  IF Current(l) \in Clean(l) THEN passes'[l] = Append(passes[l], GroupAt(l))
  ELSE passes'[l] = passes[l]

\* The chain ends with the reviewer.
Broke(l) ==
  /\ pc[l] = "settled"
  /\ pc'[l] = "done" \/ (~usable /\ pc'[l] = "threw")
  /\ usable \/ Rest(l) = {} \/ pc'[l] = "threw"
  /\ at'[l] = at[l] /\ Counts(l) /\ pending'[l] \in {pending[l], NoOne, Current(l)}
  /\ Only(Rest(l)) /\ SkippedAmong(Rest(l))

Advanced(l) ==
  /\ pc[l] = "settled" /\ pc'[l] = "next"
  /\ at'[l] = at[l] + 1 /\ Counts(l) /\ pending'[l] = pending[l]
  /\ Current(l) \in Clean(l) => ~QuorumMet(l, passes'[l])
  /\ Current(l) \in CompletedOf(l) => ~Deciding(Current(l))
  /\ Only({})

\* The finding is handed to a reviewer of another group.
Between(l, there) == {Chain[l][i] : i \in (at[l] + 1)..(there - 1)}
Handed(l) ==
  /\ pc[l] = "settled" /\ at'[l] \in Chained(l) /\ at'[l] > at[l]
  /\ LET between == Between(l, at'[l]) IN
     /\ pc'[l] = "next" \/ pc'[l] = "threw"
     /\ usable \/ between = {} \/ pc'[l] = "threw"
     /\ Only(between \cup {Chain[l][at'[l]]}) /\ SkippedAmong(between)
  /\ LET there == Chain[l][at'[l]] IN
     /\ status'[there] = status[there] /\ told'[there] = told[there]
     /\ verdict'[there] = verdict[there]
     /\ source'[there] = Current(l) /\ Group[there] # GroupAt(l)
  /\ Current(l) \notin Clean(l) /\ passes'[l] = passes[l]
  /\ ~Deciding(Current(l)) /\ pending'[l] = Current(l)

Moved(l) ==
  \/ Took(l) \/ Left(l) \/ Worked(l) \/ Answered(l) \/ Spoke(l) \/ PassedOver(l)
  \/ Blocked(l) \/ Broke(l) \/ Advanced(l) \/ Handed(l)
  \/ Only({}) /\ SamePlace(l) /\ pc'[l] = pc[l]

LEMMA Breaks ==
  ASSUME LegacyTypeOK, NEW l \in Lenses, NEW why, Break(l, why),
         pc[l] = "settled", at[l] \in Chained(l), Counts(l),
         source' = source, verdict' = verdict,
         pending'[l] \in {pending[l], NoOne, Current(l)}
  PROVE  Broke(l)
<1>1. Rest(l) \subseteq Reviewers
  BY RestIs, ChainIs DEF LegacyTypeOK
<1>2. SkippedOf(Rest(l)) \subseteq Rest(l) /\ (usable => SkippedOf(Rest(l)) = Rest(l))
  BY SkippedAre
<1>3. /\ \A r \in Reviewers :
           status'[r] = IF r \in SkippedOf(Rest(l)) THEN "skipped" ELSE status[r]
      /\ \A r \in Reviewers :
           told'[r] = IF r \in Rest(l) /\ usable THEN told[r] + 1 ELSE told[r]
      /\ at' = at
      /\ pc' = [pc EXCEPT ![l] = IF usable \/ Rest(l) = {} THEN "done" ELSE "threw"]
  BY DEF Break, SkipOnly, Tell
<1>4. Only(Rest(l)) /\ SkippedAmong(Rest(l))
  BY <1>1, <1>2, <1>3 DEF Only, SameReviewer, SkippedAmong, ToldOf
<1>5. /\ at'[l] = at[l]
      /\ pc'[l] = "done" \/ (~usable /\ pc'[l] = "threw")
      /\ usable \/ Rest(l) = {} \/ pc'[l] = "threw"
  BY <1>3 DEF LegacyTypeOK
<1>6. QED
  BY <1>3, <1>4, <1>5 DEF Broke, LegacyTypeOK

LEMMA WorkerMoves ==
  ASSUME LegacyTypeOK, NEW l \in Lenses, WorkerSound(l),
         \A r \in Range(Chain[l]) : ReviewerSound(l, r),
         Resumes(l) \/ Works(l) \/ Answers(l) \/ Timers(l)
  PROVE  Moved(l)
<1>1. /\ status \in [Reviewers -> Statuses] /\ told \in [Reviewers -> Nat]
      /\ source \in [Reviewers -> Reviewers \cup {NoOne}]
      /\ verdict \in [Reviewers -> {"none", "clean", "gate"} \cup Rulings]
      /\ pc \in [Lenses -> Places] /\ at \in [Lenses -> Nat \ {0}]
      /\ passes \in [Lenses -> Seq(Groups)]
      /\ pending \in [Lenses -> Reviewers \cup {NoOne}]
  BY DEF LegacyTypeOK
<1>2. pc[l] \notin {"idle", "next", "done", "threw"} \/ (pc[l] = "next" /\ at[l] <= Len(Chain[l])) =>
        /\ at[l] \in Chained(l) /\ Current(l) \in Reviewers /\ GroupAt(l) \in Groups
  <2>1. pc[l] = "next" /\ at[l] <= Len(Chain[l]) => at[l] \in Chained(l)
    BY <1>1, ChainIs DEF Chained
  <2>2. QED
    BY <2>1, CurrentIs DEF WorkerSound
<1>3. CASE Take(l)
  BY <1>1, <1>2, <1>3
    DEF Take, Took, Moved, Only, SameReviewer, SamePlace, world, roster, work, timer, semaphore
<1>4. CASE ChainEnds(l)
  BY <1>1, <1>2, <1>4
    DEF ChainEnds, Left, Moved, Only, SameReviewer, SamePlace, world, roster, work, timer,
        semaphore
<1>5. CASE DeadlinePassed(l)
  BY <1>1, <1>2, <1>5
    DEF DeadlinePassed, PassedOver, Moved, Only, SameReviewer, SamePlace, Adopted, ToldOf,
        Goes, Tell, Assign, Adopts, AtReviewer, world, roster, work, timer, semaphore
<1>6. CASE Suppressed(l)
  <2>1. at[l] \in Chained(l) /\ Current(l) \in Reviewers /\ pc[l] = "next"
    BY <1>2, <1>6 DEF Suppressed, AtReviewer
  <2>2. SkippedOf({Current(l)}) = {Current(l)}
    BY <2>1, SkippedAlone DEF Current
  <2>3. /\ \A r \in Reviewers : status'[r] = IF r = Current(l) THEN "skipped" ELSE status[r]
        /\ \A r \in Reviewers :
             told'[r] = IF r = Current(l) /\ usable THEN told[r] + 1 ELSE told[r]
    BY <1>6, <2>2 DEF Suppressed, SkipOnly, Tell
  <2>4. QED
    BY <1>1, <1>6, <2>1, <2>3
    DEF Suppressed, PassedOver, Moved, Only, SameReviewer, Adopted, ToldOf, Goes, Assign,
        Adopts
<1>7. CASE Probe(l)
  BY <1>1, <1>2, <1>7
    DEF Probe, Worked, Moved, Only, SameReviewer, SamePlace, Adopted, Under, WorkerSound,
        AtReviewer, Assign, Adopts, Statuses, Terminal, world, roster, work, timer, semaphore
<1>8. CASE ProbeSucceeds(l)
  BY <1>1, <1>2, <1>8
    DEF ProbeSucceeds, Worked, Moved, Only, SameReviewer, SamePlace, Adopted, Under,
        WorkerSound, Statuses, Terminal, world, roster, work, timer, semaphore
<1>9. CASE ProbeFails(l)
  <2>1. PICK f : LET r == Current(l)
                     gone == IF usable /\ ~f.fallback THEN Rest(l) ELSE {} IN
                 /\ status' = [s \in Reviewers |-> IF s = r THEN "incomplete"
                                                 ELSE IF s \in gone THEN "skipped" ELSE status[s]]
                 /\ Tell({r} \cup gone)
                 /\ Goes(l, IF f.fallback THEN "next" ELSE "done")
                 /\ at' = IF f.fallback THEN [at EXCEPT ![l] = @ + 1] ELSE at
    BY <1>9 DEF ProbeFails
  <2>2. /\ pc[l] = "probing" /\ source' = source /\ verdict' = verdict
        /\ passes' = passes /\ pending' = pending
    BY <1>9 DEF ProbeFails
  <2>3. at[l] \in Chained(l) /\ Current(l) \in Reviewers
    BY <1>2, <2>2
  <2>4. Current(l) \notin Rest(l) /\ Rest(l) \subseteq Reviewers
    BY <1>1, <2>3, NotInRest
  <2>5. CASE f.fallback
    <3>1. PassedOver(l)
      BY <1>1, <2>1, <2>2, <2>3, <2>5
      DEF PassedOver, Only, SameReviewer, Adopted, ToldOf, Goes, Tell
    <3>2. QED
      BY <3>1 DEF Moved
  <2>6. CASE ~f.fallback
    <3>1. Blocked(l)
      BY <1>1, <2>1, <2>2, <2>3, <2>4, <2>6
      DEF Blocked, Only, SameReviewer, SamePlace, SkippedAmong, ToldOf, Goes, Tell
    <3>2. QED
      BY <3>1 DEF Moved
  <2>7. QED
    BY <2>5, <2>6
<1>10. CASE GiveUp(l)
  BY <1>1, <1>2, <1>10
    DEF GiveUp, Worked, Moved, Only, SameReviewer, SamePlace, Adopted, Under, WorkerSound,
        Settle, world, roster, work, timer, semaphore
<1>11. CASE Tells(l)
  BY <1>1, <1>2, <1>11
    DEF Tells, Spoke, Moved, Only, SameReviewer, SamePlace, ToldOf, Goes, Tell, world, roster,
        work, timer, semaphore
<1>12. CASE Attempt(l)
  BY <1>1, <1>2, <1>12
    DEF Attempt, Worked, Moved, Only, SameReviewer, SamePlace, Adopted, Under, WorkerSound,
        Goes, Statuses, Terminal, world, roster, work, timer, semaphore
<1>13. CASE Acquire(l)
  BY <1>1, <1>2, <1>13
    DEF Acquire, Worked, Moved, Only, SameReviewer, SamePlace, Adopted, Under, WorkerSound,
        Open, world, roster, work, timer, semaphore
<1>14. CASE AcquireCut(l)
  BY <1>1, <1>2, <1>14
    DEF AcquireCut, Worked, Moved, Only, SameReviewer, SamePlace, Adopted, Under, WorkerSound,
        NoTimer, Open, world, roster, work, timer, semaphore
<1>15. CASE Refused(l)
  BY <1>1, <1>2, <1>15
    DEF Refused, Worked, Moved, Only, SameReviewer, SamePlace, Adopted, Under, WorkerSound,
        NoTimer, Release, Waits, Open, world, roster, work, timer, semaphore
<1>16. CASE Call(l)
  BY <1>1, <1>2, <1>16
    DEF Call, Worked, Moved, Only, SameReviewer, SamePlace, Adopted, Under, WorkerSound,
        Statuses, Terminal, world, roster, work, timer, semaphore
<1>17. CASE ProgressFails(l)
  BY <1>1, <1>2, <1>17
    DEF ProgressFails, Worked, Moved, Only, SameReviewer, SamePlace, Adopted, Under,
        WorkerSound, NoTimer, Release, Waits, Open, world, roster, work, timer, semaphore
<1>18. CASE CallFails(l)
  BY <1>1, <1>2, <1>18
    DEF CallFails, Worked, Moved, Only, SameReviewer, SamePlace, Adopted, Under, WorkerSound,
        Settle, NoTimer, Release, Waits, Open, world, roster, work, timer, semaphore
<1>19. CASE Backoff(l)
  BY <1>1, <1>2, <1>19
    DEF Backoff, Worked, Moved, Only, SameReviewer, SamePlace, Adopted, Under, WorkerSound,
        Settle, Open, world, roster, work, timer, semaphore
<1>20. CASE Returns(l)
  BY <1>1, <1>2, <1>20
    DEF Returns, Answered, Moved, Only, SameReviewer, SamePlace, Recording, NoTimer,
        MayReturn, world, roster, work, timer, semaphore
<1>21. CASE ReturnsNothing(l)
  BY <1>1, <1>2, <1>21
    DEF ReturnsNothing, Answered, Moved, Only, SameReviewer, SamePlace, Settle, Recording,
        NoTimer, MayReturn, world, roster, work, timer, semaphore
<1>22. CASE Records(l)
  BY <1>1, <1>2, <1>22
    DEF Records, Spoke, Moved, Only, SameReviewer, SamePlace, ToldOf, Tell, Release, Waits,
        world, roster, work, timer, semaphore
<1>23. CASE AdjudicationPasses(l)
  <2>1. pc[l] = "settled" /\ Break(l, "short_circuited")
    BY <1>23 DEF AdjudicationPasses, Forgets, AtEnd
  <2>2. at[l] \in Chained(l) /\ Current(l) \in Reviewers
    BY <1>2, <2>1
  <2>3. Counts(l)
    BY <1>23
      DEF AdjudicationPasses, Counts, Clean, Reviewing, Decides, Completed, CompletedOf,
          Passes, Finds
  <2>4. source' = source /\ verdict' = verdict
    BY <1>23 DEF AdjudicationPasses
  <2>5. pending'[l] \in {pending[l], NoOne, Current(l)}
    BY <1>1, <1>23 DEF AdjudicationPasses
  <2>6. Broke(l)
    BY <2>1, <2>2, <2>3, <2>4, <2>5, Breaks
  <2>7. QED
    BY <2>6 DEF Moved
<1>24. CASE ReviewPasses(l)
  <2>1. pc[l] = "settled" /\ Passes(l) /\ ~Decides(l)
    BY <1>24 DEF ReviewPasses, Forgets, AtEnd
  <2>2. at[l] \in Chained(l) /\ Current(l) \in Reviewers /\ GroupAt(l) \in Groups
    BY <1>2, <2>1
  <2>3. source' = source /\ verdict' = verdict /\ pending' = pending
    BY <1>24 DEF ReviewPasses
  <2>4. Current(l) \in Clean(l)
    <3>1. ReviewerSound(l, Current(l))
      BY <2>2, CurrentIs
    <3>2. verdict[Current(l)] = "clean"
      BY <2>1, <3>1 DEF Passes, Finds, Completed, Decides, ReviewerSound
    <3>3. QED
      BY <2>1, <2>2, <3>2, CurrentIs
      DEF Clean, CompletedOf, Passes, Completed, Decides, Reviewing
  <2>5. passes'[l] = Append(passes[l], GroupAt(l))
    BY <1>1, <1>24 DEF ReviewPasses
  <2>6. Counts(l)
    BY <2>4, <2>5 DEF Counts
  <2>7. CASE QuorumMet(l, passes'[l])
    <3>1. Break(l, "not_needed")
      BY <1>24, <2>7 DEF ReviewPasses
    <3>2. Broke(l)
      BY <2>1, <2>2, <2>3, <2>6, <3>1, Breaks
    <3>3. QED
      BY <3>2 DEF Moved
  <2>8. CASE ~QuorumMet(l, passes'[l])
    <3>1. NextInChain(l) /\ status' = status /\ told' = told
      BY <1>24, <2>8 DEF ReviewPasses
    <3>2. Advanced(l)
      BY <1>1, <2>1, <2>3, <2>6, <2>8, <3>1
      DEF Advanced, NextInChain, Only, SameReviewer, Decides, Deciding
    <3>3. QED
      BY <3>2 DEF Moved
  <2>9. QED
    BY <2>7, <2>8
<1>25. CASE Adjudicate(l)
  <2>1. /\ pc[l] = "settled" /\ Finds(l) /\ ~Decides(l) /\ Independent(l) # {}
        /\ verdict' = verdict /\ passes' = passes
        /\ pending' = [pending EXCEPT ![l] = Current(l)]
    BY <1>25 DEF Adjudicate, Forgets, AtEnd
  <2>2. at[l] \in Chained(l) /\ Current(l) \in Reviewers /\ at[l] \in Nat
    BY <1>1, <1>2, <2>1
  <2>3. PICK there : there = Nearest(Independent(l))
    OBVIOUS
  <2>4. PICK between : between = {Chain[l][i] : i \in (at[l] + 1)..(there - 1)}
    OBVIOUS
  <2>5. /\ source' = [source EXCEPT ![Chain[l][there]] = Current(l)]
        /\ SkipOnly(between, "short_circuited")
        /\ at' = [at EXCEPT ![l] = there]
        /\ pc' = [pc EXCEPT ![l] = IF usable \/ between = {} THEN "next" ELSE "threw"]
    BY <1>25, <2>3, <2>4 DEF Adjudicate
  <2>6. there \in Chained(l) /\ there > at[l] /\ Group[Chain[l][there]] # GroupAt(l)
    BY <2>1, <2>2, <2>3, NearestIs
  <2>7. at'[l] = there
    BY <1>1, <2>5
  <2>8. Chain[l][there] \in Reviewers /\ Chain[l][there] \notin between
    <3>1. \A i \in (at[l] + 1)..(there - 1) : i \in Chained(l) /\ i # there
      BY <2>2, <2>6, ChainIs DEF Chained
    <3>2. QED
      BY <2>4, <2>6, <3>1, ChainIs
  <2>9. Current(l) \notin Clean(l)
    BY <2>1 DEF Clean, Finds, Completed, CompletedOf
  <2>10. /\ \A r \in Reviewers :
              status'[r] = IF r \in SkippedOf(between) THEN "skipped" ELSE status[r]
         /\ \A r \in Reviewers :
              told'[r] = IF r \in between /\ usable THEN told[r] + 1 ELSE told[r]
    BY <2>5 DEF SkipOnly, Tell
  <2>11. SkippedOf(between) \subseteq between /\ (usable => SkippedOf(between) = between)
    BY SkippedAre
  <2>12. \A r \in Reviewers : source'[r] = IF r = Chain[l][there] THEN Current(l) ELSE source[r]
    BY <1>1, <2>5
  <2>13. between \subseteq Reviewers
    <3>1. \A i \in (at[l] + 1)..(there - 1) : i \in Chained(l)
      BY <2>2, <2>6, ChainIs DEF Chained
    <3>2. QED
      BY <2>4, <3>1, ChainIs
  <2>14. Only(between \cup {Chain[l][there]}) /\ SkippedAmong(between)
    BY <2>1, <2>8, <2>10, <2>11, <2>12, <2>13 DEF Only, SameReviewer, SkippedAmong, ToldOf
  <2>15. /\ pc'[l] \in {"next", "threw"} /\ (usable \/ between = {} \/ pc'[l] = "threw")
         /\ pending'[l] = Current(l) /\ passes'[l] = passes[l] /\ ~Deciding(Current(l))
    BY <1>1, <2>1, <2>5 DEF Decides, Deciding
  <2>16. /\ status'[Chain[l][there]] = status[Chain[l][there]]
         /\ told'[Chain[l][there]] = told[Chain[l][there]]
         /\ verdict'[Chain[l][there]] = verdict[Chain[l][there]]
         /\ source'[Chain[l][there]] = Current(l)
    BY <2>1, <2>8, <2>10, <2>11, <2>12
  <2>17. Handed(l)
    BY <2>1, <2>4, <2>6, <2>7, <2>9, <2>14, <2>15, <2>16 DEF Handed, Between
  <2>18. QED
    BY <2>17 DEF Moved
<1>26. CASE FindingEnds(l)
  <2>1. pc[l] = "settled" /\ Break(l, "short_circuited")
    BY <1>26 DEF FindingEnds, Forgets, AtEnd
  <2>2. at[l] \in Chained(l) /\ Current(l) \in Reviewers
    BY <1>2, <2>1
  <2>3. Counts(l)
    BY <1>26
      DEF FindingEnds, Counts, Clean, Reviewing, Decides, Completed, CompletedOf, Passes, Finds
  <2>4. source' = source /\ verdict' = verdict
    BY <1>26 DEF FindingEnds
  <2>5. pending'[l] \in {pending[l], NoOne, Current(l)}
    BY <1>1, <1>26 DEF FindingEnds
  <2>6. Broke(l)
    BY <2>1, <2>2, <2>3, <2>4, <2>5, Breaks
  <2>7. QED
    BY <2>6 DEF Moved
<1>27. CASE ReviewFails(l)
  <2>1. pc[l] = "settled" /\ ~Completed(l)
    BY <1>27 DEF ReviewFails, Forgets, AtEnd
  <2>2. at[l] \in Chained(l) /\ Current(l) \in Reviewers
    BY <1>2, <2>1
  <2>3. source' = source /\ verdict' = verdict /\ pending' = pending /\ passes' = passes
    BY <1>27 DEF ReviewFails
  <2>4. Current(l) \notin CompletedOf(l) /\ Current(l) \notin Clean(l)
    BY <2>1 DEF Completed, CompletedOf, Clean
  <2>5. Counts(l)
    BY <2>3, <2>4 DEF Counts
  <2>6. CASE ~last[l].fallback
    <3>1. Break(l, "blocked")
      BY <1>27, <2>6 DEF ReviewFails
    <3>2. Broke(l)
      BY <2>1, <2>2, <2>3, <2>5, <3>1, Breaks
    <3>3. QED
      BY <3>2 DEF Moved
  <2>7. CASE last[l].fallback
    <3>1. NextInChain(l) /\ status' = status /\ told' = told
      BY <1>27, <2>7 DEF ReviewFails
    <3>2. Advanced(l)
      BY <1>1, <2>1, <2>3, <2>4, <2>5, <3>1 DEF Advanced, NextInChain, Only, SameReviewer
    <3>3. QED
      BY <3>2 DEF Moved
  <2>8. QED
    BY <2>6, <2>7
<1>28. CASE AttemptTimer(l)
  BY <1>1, <1>2, <1>28
    DEF AttemptTimer, Moved, Only, SameReviewer, SamePlace, world, roster, work, timer,
        semaphore
<1>29. CASE LensDeadline(l)
  BY <1>1, <1>2, <1>29
    DEF LensDeadline, Moved, Only, SameReviewer, SamePlace, world, roster, work, timer,
        semaphore
<1>30. QED
  BY <1>3, <1>4, <1>5, <1>6, <1>7, <1>8, <1>9, <1>10, <1>11, <1>12, <1>13, <1>14, <1>15,
     <1>16, <1>17, <1>18, <1>19, <1>20, <1>21, <1>22, <1>23, <1>24, <1>25, <1>26, <1>27,
     <1>28, <1>29
    DEF Resumes, Works, Answers, Timers

\* The step of a worker leaves the rest of the run, and the places of the
\* other workers.
LEMMA WorkerAside ==
  ASSUME LegacyTypeOK, NEW l \in Lenses,
         Resumes(l) \/ Works(l) \/ Answers(l) \/ Timers(l)
  PROVE  Aside(l)
<1>1. /\ pc \in [Lenses -> Places] /\ at \in [Lenses -> Nat \ {0}]
      /\ passes \in [Lenses -> Seq(Groups)]
      /\ pending \in [Lenses -> Reviewers \cup {NoOne}]
  BY DEF LegacyTypeOK
<1>2. CASE Take(l)
  BY <1>1, <1>2 DEF Take, Aside, SamePlace, Woken, world, work
<1>3. CASE ChainEnds(l)
  BY <1>1, <1>3 DEF ChainEnds, Aside, SamePlace, Woken, world, work
<1>4. CASE DeadlinePassed(l)
  BY <1>1, <1>4 DEF DeadlinePassed, Aside, SamePlace, Woken, Goes, world, work
<1>5. CASE Suppressed(l)
  BY <1>1, <1>5 DEF Suppressed, Aside, SamePlace, Woken, Goes, world, work
<1>6. CASE Probe(l)
  BY <1>1, <1>6 DEF Probe, Aside, SamePlace, Woken, world, work
<1>7. CASE ProbeSucceeds(l)
  BY <1>1, <1>7 DEF ProbeSucceeds, Aside, SamePlace, Woken, world, work
<1>8. CASE ProbeFails(l)
  BY <1>1, <1>8 DEF ProbeFails, Aside, SamePlace, Woken, Goes, world, work
<1>9. CASE GiveUp(l)
  BY <1>1, <1>9 DEF GiveUp, Aside, SamePlace, Woken, world, work
<1>10. CASE Tells(l)
  BY <1>1, <1>10 DEF Tells, Aside, SamePlace, Woken, Goes, world, work
<1>11. CASE Attempt(l)
  BY <1>1, <1>11 DEF Attempt, Aside, SamePlace, Woken, Goes, world, work
<1>12. CASE Acquire(l)
  BY <1>1, <1>12 DEF Acquire, Aside, SamePlace, Woken, world, work
<1>13. CASE AcquireCut(l)
  BY <1>1, <1>13 DEF AcquireCut, Aside, SamePlace, Woken, world, work
<1>14. CASE Refused(l)
  BY <1>1, <1>14 DEF Refused, Aside, SamePlace, Woken, Release, Waits, world, work
<1>15. CASE Call(l)
  BY <1>1, <1>15 DEF Call, Aside, SamePlace, Woken, world, work
<1>16. CASE ProgressFails(l)
  BY <1>1, <1>16 DEF ProgressFails, Aside, SamePlace, Woken, Release, Waits, world, work
<1>17. CASE CallFails(l)
  BY <1>1, <1>17 DEF CallFails, Aside, SamePlace, Woken, Release, Waits, world, work
<1>18. CASE Backoff(l)
  BY <1>1, <1>18 DEF Backoff, Aside, SamePlace, Woken, world, work
<1>19. CASE Returns(l)
  BY <1>1, <1>19 DEF Returns, Aside, SamePlace, Woken, Recording, world, work
<1>20. CASE ReturnsNothing(l)
  BY <1>1, <1>20 DEF ReturnsNothing, Aside, SamePlace, Woken, Recording, world, work
<1>21. CASE Records(l)
  BY <1>1, <1>21 DEF Records, Aside, SamePlace, Woken, Release, Waits, world, work
<1>22. CASE AdjudicationPasses(l)
  BY <1>1, <1>22 DEF AdjudicationPasses, Aside, SamePlace, Woken, Break, world, work
<1>23. CASE ReviewPasses(l)
  BY <1>1, <1>23 DEF ReviewPasses, Aside, SamePlace, Woken, Break, NextInChain, world, work
<1>24. CASE Adjudicate(l)
  BY <1>1, <1>24 DEF Adjudicate, Aside, SamePlace, Woken, world, work
<1>25. CASE FindingEnds(l)
  BY <1>1, <1>25 DEF FindingEnds, Aside, SamePlace, Woken, Break, world, work
<1>26. CASE ReviewFails(l)
  BY <1>1, <1>26 DEF ReviewFails, Aside, SamePlace, Woken, Break, NextInChain, world, work
<1>27. CASE AttemptTimer(l)
  BY <1>1, <1>27 DEF AttemptTimer, Aside, SamePlace, Woken, world, work
<1>28. CASE LensDeadline(l)
  BY <1>1, <1>28 DEF LensDeadline, Aside, SamePlace, Woken, world, work
<1>29. QED
  BY <1>2, <1>3, <1>4, <1>5, <1>6, <1>7, <1>8, <1>9, <1>10, <1>11, <1>12, <1>13, <1>14, <1>15,
     <1>16, <1>17, <1>18, <1>19, <1>20, <1>21, <1>22, <1>23, <1>24, <1>25, <1>26, <1>27, <1>28
    DEF Resumes, Works, Answers, Timers

\* What a lens knows of itself stays true when nothing of it changes.
SameLens(m) ==
  /\ \A r \in Range(Chain[m]) : SameReviewer(r)
  /\ SamePlace(m) /\ (pc'[m] = pc[m] \/ Woken(m))
  /\ scope' = scope /\ run' = run /\ interrupted' = interrupted

LEMMA SameLensSound ==
  ASSUME LegacyTypeOK, NEW m \in Lenses, LensSound(m), SameLens(m)
  PROVE  LensSound(m)'
<1>1. Range(Chain[m]) \subseteq Reviewers
  BY ChainIs
<1>2. pc[m] = "queued" => at[m] \in Chained(m)
  BY DEF LensSound, WorkerSound
<1>3. at'[m] = at[m] /\ Current(m)' = Current(m)
  BY DEF SameLens, SamePlace, Current
<1>4. at[m] \in Chained(m) => Current(m) \in Range(Chain[m])
  BY CurrentIs
<1>5. ASSUME NEW r \in Range(Chain[m]) PROVE ReviewerSound(m, r)'
  <2>1. ReviewerSound(m, r)
    BY DEF LensSound
  <2>2. /\ status'[r] = status[r] /\ told'[r] = told[r] /\ source'[r] = source[r]
        /\ verdict'[r] = verdict[r] /\ run' = run
        /\ pc'[m] = pc[m] \/ (pc[m] = "queued" /\ pc'[m] = "admitted")
    BY DEF SameLens, SameReviewer, Woken
  <2>3. r \in Open <=> r \in Open'
    BY <1>1, <2>2 DEF Open
  <2>4. QED
    BY <1>3, <2>1, <2>2, <2>3 DEF ReviewerSound
<1>6. WorkerSound(m)'
  <2>1. \A r \in Range(Chain[m]) : /\ status'[r] = status[r] /\ told'[r] = told[r]
                                   /\ (r \in Open <=> r \in Open')
    BY <1>1 DEF SameLens, SameReviewer, Open
  <2>2. /\ pc'[m] = pc[m] \/ (pc[m] = "queued" /\ pc'[m] = "admitted")
        /\ pending'[m] = pending[m] /\ scope' = scope /\ run' = run
        /\ interrupted' = interrupted
    BY DEF SameLens, SamePlace, Woken
  <2>3. \A i \in Chained(m) : Chain[m][i] \in Range(Chain[m])
    BY InChain
  <2>4. WorkerSound(m)
    BY DEF LensSound
  <2>5. QED
    BY <1>2, <1>3, <1>4, <2>1, <2>2, <2>3, <2>4 DEF WorkerSound, Under
<1>7. DecisionSound(m)'
  <2>1. \A r \in Range(Chain[m]) : /\ status'[r] = status[r] /\ source'[r] = source[r]
                                   /\ verdict'[r] = verdict[r]
    BY DEF SameLens, SameReviewer
  <2>2. CompletedOf(m)' = CompletedOf(m) /\ Clean(m)' = Clean(m)
    BY <2>1 DEF CompletedOf, Clean, Reviewing
  <2>3. pc'[m] = pc[m] \/ (pc[m] = "queued" /\ pc'[m] = "admitted")
    BY DEF SameLens, Woken
  <2>4. Counted(m)' = Counted(m)
    BY <1>3, <2>2, <2>3 DEF Counted, Unrecorded
  <2>5. passes'[m] = passes[m] /\ QuorumMet(m, passes[m])' = QuorumMet(m, passes[m])
    BY DEF SameLens, SamePlace, QuorumMet
  <2>6. \A i \in Chained(m) : Chain[m][i] \in Range(Chain[m])
    BY InChain
  <2>7. DecisionSound(m)
    BY DEF LensSound
  <2>8. QED
    BY <1>3, <2>1, <2>2, <2>3, <2>4, <2>5, <2>6, <2>7 DEF DecisionSound, Deciding
<1>8. QED
  BY <1>5, <1>6, <1>7 DEF LensSound

LEMMA OthersKept ==
  ASSUME LegacyTypeOK, NEW l \in Lenses, NEW m \in Lenses, l # m,
         LensSound(m), Aside(l), Only(Range(Chain[l]))
  PROVE  LensSound(m)'
<1>1. \A r \in Range(Chain[m]) : r \in Reviewers /\ r \notin Range(Chain[l])
  BY ChainIs, ChainsApart
<1>2. SameLens(m)
  BY <1>1 DEF SameLens, Aside, Only
<1>3. QED
  BY <1>2, SameLensSound

\* A step of a worker touches reviewers of its lens only.
LEMMA MovesAreOwn ==
  ASSUME LegacyTypeOK, NEW l \in Lenses, WorkerSound(l), Moved(l)
  PROVE  Only(Range(Chain[l]))
<1>1. pc[l] \notin {"idle", "next", "done", "threw"} => at[l] \in Chained(l)
  BY DEF WorkerSound
<1>2. at[l] \in Chained(l) => Current(l) \in Range(Chain[l])
  BY CurrentIs
<1>3. at[l] \in Nat /\ Rest(l) \subseteq Range(Chain[l])
  BY RestIs DEF LegacyTypeOK
<1>4. CASE Handed(l)
  <2>1. at'[l] \in Chained(l) /\ at'[l] \in Nat
    BY <1>4, ChainIs DEF Handed
  <2>2. PICK between : between = Between(l, at'[l])
    OBVIOUS
  <2>3. \A i \in (at[l] + 1)..(at'[l] - 1) : i \in Chained(l)
    BY <1>3, <2>1, ChainIs DEF Chained
  <2>4. between \cup {Chain[l][at'[l]]} \subseteq Range(Chain[l])
    BY <2>1, <2>2, <2>3, InChain DEF Between
  <2>5. Only(between \cup {Chain[l][at'[l]]})
    BY <1>4, <2>2 DEF Handed
  <2>6. QED
    BY <2>4, <2>5 DEF Only
<1>5. CASE ~Handed(l)
  BY <1>1, <1>2, <1>3, <1>5
  DEF Moved, Took, Left, Worked, Answered, Spoke, PassedOver, Blocked, Broke, Advanced, Only,
      Under
<1>6. QED
  BY <1>4, <1>5

----------------------------------------------------------------------------
(* A step of a worker keeps its lens sound.                                *)

\* What the proofs below use of the state before the step.
LEMMA BeforeMove ==
  ASSUME LegacyTypeOK, NEW l \in Lenses, LensSound(l)
  PROVE  /\ pc[l] \notin {"idle", "next", "done", "threw"} => at[l] \in Chained(l)
         /\ at[l] \in Chained(l) => Current(l) \in Range(Chain[l])
         /\ pc[l] \in Under \cup {"next"} /\ at[l] \in Chained(l) => Current(l) \in Open
         /\ Range(Chain[l]) \subseteq Reviewers
         /\ \A r \in Range(Chain[l]) :
              /\ status[r] \in Statuses /\ told[r] \in {0, 1}
              /\ source[r] \in Reviewers \cup {NoOne}
              /\ r \in Open <=> status[r] \notin Terminal
         /\ at[l] \in Nat \ {0} /\ Rest(l) \subseteq Range(Chain[l])
         /\ at[l] \in Chained(l) => Current(l) \notin Rest(l)
         /\ pc[l] \notin {"idle", "done", "threw"} => Rest(l) \subseteq Open
         /\ pending[l] # NoOne => pending[l] \in Range(Chain[l])
<1>1. WorkerSound(l) /\ \A r \in Range(Chain[l]) : ReviewerSound(l, r)
  BY DEF LensSound
<1>2. at[l] \in Nat \ {0}
  BY DEF LegacyTypeOK
<1>3. pc[l] \notin {"idle", "next", "done", "threw"} => at[l] \in Chained(l)
  BY <1>1 DEF WorkerSound
<1>4. at[l] \in Chained(l) => Current(l) \in Range(Chain[l])
  BY CurrentIs
<1>5. pc[l] \in Under \cup {"next"} /\ at[l] \in Chained(l) => Current(l) \in Open
  BY <1>1 DEF WorkerSound
<1>6. Range(Chain[l]) \subseteq Reviewers
  BY ChainIs
<1>7. \A r \in Range(Chain[l]) : /\ status[r] \in Statuses /\ told[r] \in {0, 1}
                                 /\ source[r] \in Reviewers \cup {NoOne}
                                 /\ r \in Open <=> status[r] \notin Terminal
  BY <1>1, <1>6 DEF LegacyTypeOK, ReviewerSound, Open
<1>8. Rest(l) \subseteq Range(Chain[l])
  BY <1>2, RestIs
<1>9. at[l] \in Chained(l) => Current(l) \notin Rest(l)
  BY <1>2, NotInRest
<1>10. pc[l] \notin {"idle", "done", "threw"} => Rest(l) \subseteq Open
  <2> SUFFICES ASSUME pc[l] \notin {"idle", "done", "threw"}, NEW r \in Rest(l)
               PROVE  r \in Open
    OBVIOUS
  <2>1. PICK i \in Chained(l) : i > at[l] /\ r = Chain[l][i]
    BY <1>2, RestIs
  <2>2. QED
    BY <1>1, <2>1 DEF WorkerSound
<1>11. pending[l] # NoOne => pending[l] \in Range(Chain[l])
  BY <1>1 DEF WorkerSound
<1>12. QED
  BY <1>2, <1>3, <1>4, <1>5, <1>6, <1>7, <1>8, <1>9, <1>10, <1>11

\* Of the reviewers between two places of a chain.
LEMMA BetweenIs ==
  ASSUME LegacyTypeOK, NEW l \in Lenses, at[l] \in Chained(l), NEW there \in Chained(l),
         there > at[l]
  PROVE  /\ Between(l, there) \subseteq Rest(l) /\ Chain[l][there] \in Rest(l)
         /\ Chain[l][there] \notin Between(l, there)
         /\ \A i \in Chained(l) : i > at[l] /\ i < there => Chain[l][i] \in Between(l, there)
         /\ \A i \in Chained(l) :
              i > there => Chain[l][i] \notin Between(l, there) \cup {Chain[l][there]}
<1> DEFINE between == Between(l, there)
<1>1. between = {Chain[l][i] : i \in (at[l] + 1)..(there - 1)}
  BY DEF Between
<1> HIDE DEF between
<1>2. at[l] \in Nat /\ there \in Nat /\ Len(Chain[l]) \in Nat
  BY ChainIs DEF LegacyTypeOK
<1>3. Rest(l) = {Chain[l][i] : i \in {j \in Chained(l) : j > at[l]}}
  BY <1>2, RestIs
<1>4. \A i \in (at[l] + 1)..(there - 1) : i \in Chained(l) /\ i > at[l] /\ i < there
  BY <1>2 DEF Chained
<1>5. \A i, j \in Chained(l) : Chain[l][i] = Chain[l][j] => i = j
  BY ChainIs
<1>6. \A i \in Chained(l) : i \in Nat
  BY ChainIs
<1>7. \A i \in Chained(l) : i > at[l] /\ i < there => i \in (at[l] + 1)..(there - 1)
  <2>1. \A i, m, n \in Nat : i > m /\ i < n => i \in (m + 1)..(n - 1)
    OBVIOUS
  <2>2. QED
    BY <1>2, <1>6, <2>1
<1>8. between \subseteq Rest(l) /\ Chain[l][there] \in Rest(l)
  BY <1>1, <1>3, <1>4
<1>9. Chain[l][there] \notin between
  BY <1>1, <1>2, <1>4, <1>5
<1>10. \A i \in Chained(l) : i > at[l] /\ i < there => Chain[l][i] \in between
  BY <1>1, <1>7
<1>11. ASSUME NEW i \in Chained(l), i > there
       PROVE  Chain[l][i] \notin between \cup {Chain[l][there]}
  BY <1>1, <1>2, <1>4, <1>5, <1>6, <1>11
<1>12. QED
  BY <1>8, <1>9, <1>10, <1>11 DEF between

LEMMA ReviewersMove ==
  ASSUME LegacyTypeOK, NEW l \in Lenses, LensSound(l), Aside(l), Moved(l),
         NEW r \in Range(Chain[l])
  PROVE  ReviewerSound(l, r)'
<1>1. /\ ReviewerSound(l, r) /\ WorkerSound(l)
      /\ at[l] \in Chained(l) => ReviewerSound(l, Current(l))
  BY BeforeMove DEF LensSound
<1>2. run' = run /\ r \in Reviewers
  BY BeforeMove DEF Aside
<1>3. r \in Open' <=> status'[r] \notin Terminal
  BY <1>2 DEF Open
<1>4. r \in Open <=> status[r] \notin Terminal
  BY <1>2 DEF Open
<1>5. usable \in BOOLEAN
  BY DEF LegacyTypeOK
<1>6. CASE SameReviewer(r) /\ ~(pc[l] \in {"telling", "recording"} /\ r = Current(l)) /\ pc[l] # "threw"
  BY <1>1, <1>2, <1>3, <1>4, <1>6 DEF SameReviewer, ReviewerSound
<1>7. CASE Worked(l)
  BY <1>1, <1>2, <1>3, <1>4, <1>6, <1>7, BeforeMove
  DEF Worked, Only, ReviewerSound, Adopted, SamePlace, Current, Statuses, Terminal, Under
<1>8. CASE Answered(l)
  BY <1>1, <1>2, <1>3, <1>4, <1>6, <1>8, BeforeMove
  DEF Answered, Only, ReviewerSound, SamePlace, Current, Verdicts, Decides, Rulings, Terminal,
      Under
<1>9. CASE Spoke(l)
  BY <1>1, <1>2, <1>3, <1>4, <1>5, <1>6, <1>9, BeforeMove
  DEF Spoke, Only, ReviewerSound, ToldOf, WorkerSound, Terminal
<1>10. CASE PassedOver(l)
  BY <1>1, <1>2, <1>3, <1>4, <1>5, <1>6, <1>10, BeforeMove
  DEF PassedOver, Only, ReviewerSound, ToldOf, Adopted, Terminal, Under
<1>11. CASE Blocked(l)
  BY <1>1, <1>2, <1>3, <1>4, <1>5, <1>6, <1>11, BeforeMove
  DEF Blocked, Only, ReviewerSound, ToldOf, SkippedAmong, Terminal, Under
<1>12. CASE Broke(l)
  BY <1>1, <1>2, <1>3, <1>4, <1>5, <1>6, <1>12, BeforeMove
  DEF Broke, Only, ReviewerSound, ToldOf, SkippedAmong, Terminal
<1>13. CASE Handed(l)
  <2>1. PICK there \in Chained(l) : there = at'[l] /\ there > at[l]
    BY <1>13 DEF Handed
  <2>2. PICK between : between = Between(l, there)
    OBVIOUS
  <2>3. at[l] \in Chained(l) /\ pc[l] = "settled" /\ pc'[l] \in {"next", "threw"}
    BY <1>13, BeforeMove DEF Handed
  <2>4. /\ between \subseteq Rest(l) /\ Chain[l][there] \in Rest(l)
        /\ Chain[l][there] \notin between
    BY <2>1, <2>2, <2>3, BetweenIs
  <2>5. /\ Only(between \cup {Chain[l][there]}) /\ SkippedAmong(between)
        /\ usable \/ between = {} \/ pc'[l] = "threw"
        /\ LET r2 == Chain[l][there] IN
           /\ status'[r2] = status[r2] /\ told'[r2] = told[r2] /\ verdict'[r2] = verdict[r2]
           /\ source'[r2] = Current(l) /\ Group[r2] # Group[Current(l)]
    BY <1>13, <2>1, <2>2, <2>3, CurrentIs DEF Handed
  <2>6. r \in Rest(l) => r \in Open /\ told[r] = 0
    BY <1>1, <2>3, BeforeMove DEF ReviewerSound
  <2>7. CASE r \in between
    BY <1>1, <1>3, <1>5, <2>3, <2>4, <2>5, <2>6, <2>7
    DEF SkippedAmong, ReviewerSound, ToldOf, Terminal
  <2>8. CASE r = Chain[l][there]
    BY <1>1, <1>3, <1>4, <2>3, <2>4, <2>5, <2>6, <2>8, BeforeMove DEF ReviewerSound, Terminal
  <2>9. CASE r \notin between /\ r # Chain[l][there]
    BY <1>2, <1>6, <2>3, <2>5, <2>9 DEF Only
  <2>10. QED
    BY <2>7, <2>8, <2>9
<1>14. CASE Took(l) \/ Left(l) \/ Advanced(l)
  BY <1>2, <1>6, <1>14 DEF Took, Left, Advanced, Only
<1>15. CASE Only({}) /\ SamePlace(l) /\ pc'[l] = pc[l]
  BY <1>1, <1>2, <1>3, <1>4, <1>15 DEF Only, SameReviewer, SamePlace, ReviewerSound, Current
<1>16. QED
  BY <1>7, <1>8, <1>9, <1>10, <1>11, <1>12, <1>13, <1>14, <1>15 DEF Moved

LEMMA WorkerMove ==
  ASSUME LegacyTypeOK, NEW l \in Lenses, LensSound(l), Aside(l), Moved(l)
  PROVE  WorkerSound(l)'
<1>1. WorkerSound(l) /\ \A r \in Range(Chain[l]) : ReviewerSound(l, r)
  BY DEF LensSound
<1>2. run' = run /\ scope' = scope /\ interrupted' = interrupted /\ usable \in BOOLEAN
  BY DEF Aside, LegacyTypeOK
<1>3. \A r \in Range(Chain[l]) : r \in Open' <=> status'[r] \notin Terminal
  BY BeforeMove DEF Open
<1>4. \A i \in Chained(l) : Chain[l][i] \in Range(Chain[l]) /\ i \in Nat
  BY InChain, ChainIs
<1>5. \A r \in Range(Chain[l]) : \E i \in Chained(l) : r = Chain[l][i]
  BY ChainIs
<1>6. Chained(l) = 1..Len(Chain[l]) /\ Len(Chain[l]) \in Nat
  BY ChainIs DEF Chained
<1>7. \A i, j \in Chained(l) : Chain[l][i] = Chain[l][j] => i = j
  BY ChainIs
<1>8. pc[l] # "idle" => run # "starting" /\ scope[l] = "runs"
  BY <1>1 DEF WorkerSound
<1>9. \A i \in Chained(l) : i > at[l] => Chain[l][i] \in Rest(l)
  BY BeforeMove, RestIs
<1>10. CASE Took(l)
  <2>1. at'[l] = 1 /\ \A r \in Range(Chain[l]) : r \in Open
    BY <1>1, <1>10 DEF WorkerSound, Took, SamePlace
  <2>2. \A r \in Range(Chain[l]) : r \in Open'
    BY <1>3, <1>10, <2>1, BeforeMove DEF Took, Only, SameReviewer
  <2>3. /\ pc'[l] = "next" /\ run # "starting" /\ scope[l] = "runs" /\ pending'[l] = pending[l]
        /\ ~interrupted
    BY <1>10 DEF Took, SamePlace
  <2>4. at'[l] \in Chained(l) => Current(l)' \in Open'
    BY <1>4, <2>2 DEF Current
  <2>5. \A i \in Chained(l) : ~(i < at'[l]) /\ Chain[l][i] \in Open'
    BY <1>4, <1>6, <2>1, <2>2
  <2>6. QED
    BY <1>1, <1>2, <2>3, <2>4, <2>5 DEF WorkerSound, Under
<1>11. CASE Left(l)
  BY <1>1, <1>2, <1>3, <1>4, <1>5, <1>6, <1>11, BeforeMove
  DEF WorkerSound, Left, Only, SameReviewer, SamePlace, Current, Under
<1>12. CASE Worked(l)
  BY <1>1, <1>2, <1>3, <1>4, <1>7, <1>8, <1>12, BeforeMove
  DEF WorkerSound, Worked, Only, SameReviewer, SamePlace, Current, Under, Statuses, Terminal,
      ReviewerSound
<1>13. CASE Answered(l)
  BY <1>1, <1>2, <1>3, <1>4, <1>7, <1>8, <1>13, BeforeMove
  DEF WorkerSound, Answered, Only, SameReviewer, SamePlace, Current, Under, Terminal,
      ReviewerSound
<1>14. CASE Spoke(l)
  BY <1>1, <1>2, <1>3, <1>4, <1>7, <1>8, <1>14, BeforeMove
  DEF WorkerSound, Spoke, Only, SameReviewer, SamePlace, Current, Under, Terminal, ToldOf
<1>15. CASE PassedOver(l)
  BY <1>1, <1>2, <1>3, <1>4, <1>7, <1>8, <1>9, <1>15, BeforeMove
  DEF WorkerSound, PassedOver, Only, SameReviewer, Current, Under, Terminal
<1>16. CASE Blocked(l)
  BY <1>1, <1>2, <1>3, <1>4, <1>5, <1>7, <1>8, <1>9, <1>16, BeforeMove
  DEF WorkerSound, Blocked, Only, SameReviewer, SamePlace, SkippedAmong, Current, Under, Terminal
<1>17. CASE Broke(l)
  <2>1. /\ pc[l] = "settled" /\ at'[l] = at[l] /\ Only(Rest(l)) /\ SkippedAmong(Rest(l))
        /\ pc'[l] \in {"done", "threw"} /\ (usable \/ Rest(l) = {} \/ pc'[l] = "threw")
        /\ pending'[l] \in {pending[l], NoOne, Current(l)}
    BY <1>17 DEF Broke
  <2>2. at[l] \in Chained(l) /\ Current(l) \in Range(Chain[l])
    BY <2>1, BeforeMove
  <2>3. pending'[l] # NoOne => pending'[l] \in Range(Chain[l])
    BY <1>1, <2>1, <2>2 DEF WorkerSound
  <2>4. ASSUME pc'[l] = "done", NEW r \in Range(Chain[l])
        PROVE  r \notin Open'
    <3>1. PICK i \in Chained(l) : r = Chain[l][i]
      BY <1>5
    <3>2. CASE i < at[l]
      <4>1. r \notin Open
        BY <1>1, <2>1, <3>1, <3>2 DEF WorkerSound
      <4>2. \A j \in Chained(l) : j > at[l] => Chain[l][j] # r
        BY <1>4, <1>7, <3>1, <3>2, BeforeMove
      <4>3. r \notin Rest(l)
        BY <4>2, RestIs, BeforeMove
      <4>4. QED
        BY <1>3, <2>1, <4>1, <4>3, BeforeMove DEF Only, SameReviewer
    <3>3. CASE i = at[l]
      <4>1. r = Current(l) /\ r \notin Open /\ r \notin Rest(l)
        BY <1>1, <2>1, <2>2, <3>1, <3>3, BeforeMove DEF WorkerSound, Current
      <4>2. QED
        BY <1>3, <2>1, <4>1, BeforeMove DEF Only, SameReviewer
    <3>4. CASE i > at[l]
      <4>1. r \in Rest(l)
        BY <1>9, <3>1, <3>4
      <4>2. QED
        BY <1>3, <2>1, <2>4, <4>1 DEF SkippedAmong, Terminal
    <3>5. QED
      BY <1>4, <3>1, <3>2, <3>3, <3>4, BeforeMove
  <2>5. QED
    BY <1>2, <1>8, <2>1, <2>3, <2>4 DEF WorkerSound, Under
<1>18. CASE Advanced(l)
  BY <1>1, <1>2, <1>3, <1>4, <1>7, <1>8, <1>9, <1>18, BeforeMove
  DEF WorkerSound, Advanced, Only, SameReviewer, Current, Under, Terminal
<1>19. CASE Handed(l)
  <2>1. PICK there \in Chained(l) : there = at'[l] /\ there > at[l]
    BY <1>19 DEF Handed
  <2>2. PICK between : between = Between(l, there)
    OBVIOUS
  <2>3. /\ pc[l] = "settled" /\ pc'[l] \in {"next", "threw"}
        /\ Only(between \cup {Chain[l][there]}) /\ SkippedAmong(between)
        /\ usable \/ between = {} \/ pc'[l] = "threw"
        /\ status'[Chain[l][there]] = status[Chain[l][there]]
        /\ pending'[l] = Current(l)
    BY <1>19, <2>1, <2>2 DEF Handed
  <2>4. at[l] \in Chained(l) /\ Current(l) \in Range(Chain[l])
    BY <2>3, BeforeMove
  <2>5. /\ between \subseteq Rest(l) /\ Chain[l][there] \in Rest(l)
        /\ Chain[l][there] \notin between
        /\ \A i \in Chained(l) : i > at[l] /\ i < there => Chain[l][i] \in between
        /\ \A i \in Chained(l) : i > there => Chain[l][i] \notin between \cup {Chain[l][there]}
    BY <2>1, <2>2, <2>4, BetweenIs
  <2>6. Rest(l) \subseteq Open
    BY <2>3, BeforeMove
  <2>7. Chain[l][there] \in Open'
    BY <1>3, <1>4, <2>3, <2>5, <2>6, BeforeMove
  <2>8. ASSUME NEW i \in Chained(l), i > there PROVE Chain[l][i] \in Open'
    <3>1. Chain[l][i] \in Open
      BY <1>4, <1>9, <2>1, <2>6, <2>8, BeforeMove
    <3>2. SameReviewer(Chain[l][i])
      BY <1>4, <2>3, <2>5, <2>8, BeforeMove DEF Only
    <3>3. QED
      BY <1>3, <1>4, <3>1, <3>2, BeforeMove DEF SameReviewer
  <2>9. ASSUME pc'[l] = "next", NEW i \in Chained(l), i < there PROVE Chain[l][i] \notin Open'
    <3>1. CASE i > at[l]
      BY <1>3, <1>4, <2>3, <2>5, <2>9, <3>1 DEF SkippedAmong, Terminal
    <3>2. CASE i <= at[l]
      <4>1. Chain[l][i] \notin Open
        BY <1>1, <1>4, <2>3, <2>4, <3>2, BeforeMove DEF WorkerSound, Current
      <4>2. Chain[l][i] \notin Rest(l)
        BY <2>3, <4>1, BeforeMove
      <4>3. SameReviewer(Chain[l][i])
        BY <1>4, <2>3, <2>5, <4>2, BeforeMove DEF Only
      <4>4. QED
        BY <1>3, <1>4, <4>1, <4>3, BeforeMove DEF SameReviewer
    <3>3. QED
      BY <1>4, <3>1, <3>2, BeforeMove
  <2>10. at'[l] = there /\ Current(l)' = Chain[l][there]
    BY <2>1 DEF Current
  <2>11. QED
    BY <1>2, <1>8, <2>3, <2>4, <2>7, <2>8, <2>9, <2>10 DEF WorkerSound, Under
<1>20. CASE Only({}) /\ SamePlace(l) /\ pc'[l] = pc[l]
  <2>1. SameLens(l)
    BY <1>20, BeforeMove DEF SameLens, Only, Aside
  <2>2. QED
    BY <2>1, SameLensSound DEF LensSound
<1>21. QED
  BY <1>10, <1>11, <1>12, <1>13, <1>14, <1>15, <1>16, <1>17, <1>18, <1>19, <1>20 DEF Moved

\* What is counted, when the completed reviewers change by one.
LEMMA AddedGroup ==
  ASSUME NEW S, IsFiniteSet(S), NEW r, r \notin S, NEW s \in Seq(Groups),
         Group[r] \in Groups,
         Cardinality(S) = Len(s), {Group[x] : x \in S} = Range(s),
         NEW t, t = Append(s, Group[r])
  PROVE  /\ Cardinality(S \cup {r}) = Len(t)
         /\ {Group[x] : x \in S \cup {r}} = Range(t)
<1>1. /\ Len(t) = Len(s) + 1 /\ DOMAIN t = 1..(Len(s) + 1) /\ DOMAIN s = 1..Len(s)
      /\ \A i \in 1..Len(s) : t[i] = s[i]
      /\ t[Len(s) + 1] = Group[r] /\ Len(s) \in Nat
  OBVIOUS
<1>2. Cardinality(S \cup {r}) = Cardinality(S) + 1
  BY FS_AddElement
<1>3. Range(t) = Range(s) \cup {Group[r]}
  <2>1. 1..(Len(s) + 1) = 1..Len(s) \cup {Len(s) + 1}
    BY <1>1
  <2>2. QED
    BY <1>1, <2>1 DEF Range
<1>4. {Group[x] : x \in S \cup {r}} = {Group[x] : x \in S} \cup {Group[r]}
  OBVIOUS
<1>5. QED
  BY <1>1, <1>2, <1>3, <1>4

LEMMA CleanIsFinite ==
  ASSUME NEW l \in Lenses
  PROVE  /\ IsFiniteSet(Counted(l)) /\ Clean(l) \subseteq CompletedOf(l)
         /\ CompletedOf(l) \subseteq Range(Chain[l])
<1>1. Counted(l) \subseteq Range(Chain[l])
  BY DEF Counted, Clean, CompletedOf
<1>2. QED
  BY <1>1, ChainIs, FS_Subset DEF Clean, CompletedOf

\* Completed reviewers are the same, but for those that end otherwise.
SameFindings(rs) ==
  \A r \in Reviewers \ rs :
    status'[r] = status[r] /\ source'[r] = source[r] /\ verdict'[r] = verdict[r]

LEMMA SameClean ==
  ASSUME LegacyTypeOK, NEW l \in Lenses, NEW rs, rs \subseteq Range(Chain[l]), SameFindings(rs),
         \A r \in rs : r \notin CompletedOf(l) /\ status'[r] # "completed"
  PROVE  /\ CompletedOf(l)' = CompletedOf(l) /\ Clean(l)' = Clean(l)
         /\ \A r \in CompletedOf(l) : Deciding(r)' <=> Deciding(r)
<1>1. \A r \in Range(Chain[l]) \ rs :
        status'[r] = status[r] /\ source'[r] = source[r] /\ verdict'[r] = verdict[r]
  BY ChainIs DEF SameFindings
<1>2. CompletedOf(l)' = CompletedOf(l)
  BY <1>1 DEF CompletedOf
<1>3. Clean(l)' = Clean(l)
  BY <1>1, <1>2 DEF Clean, Reviewing, CompletedOf
<1>4. \A r \in CompletedOf(l) : Deciding(r)' <=> Deciding(r)
  BY <1>1 DEF Deciding, CompletedOf
<1>5. QED
  BY <1>2, <1>3, <1>4

LEMMA DecisionMove ==
  ASSUME LegacyTypeOK, NEW l \in Lenses, LensSound(l), Aside(l), Moved(l)
  PROVE  DecisionSound(l)'
<1>1. DecisionSound(l) /\ WorkerSound(l) /\ \A r \in Range(Chain[l]) : ReviewerSound(l, r)
  BY DEF LensSound
<1>2. \A i \in Chained(l) : Chain[l][i] \in Range(Chain[l])
  BY InChain
<1>3. \A r \in Range(Chain[l]) : r \in CompletedOf(l) <=> status[r] = "completed"
  BY DEF CompletedOf
<1>4. \A r \in Open : r \notin CompletedOf(l)
  BY DEF CompletedOf, Open, Terminal
<1>5. Clean(l) \subseteq CompletedOf(l)
  BY CleanIsFinite
\* A step that neither completes a reviewer nor ends one that had completed.
<1>6. ASSUME NEW rs, rs \subseteq Range(Chain[l]), SameFindings(rs),
             \A r \in rs : r \notin CompletedOf(l) /\ status'[r] # "completed",
             passes'[l] = passes[l],
             \/ pc'[l] = "threw"
             \/ Unrecorded(l) \cap Clean(l) = {} /\ Unrecorded(l)' \cap Clean(l) = {}
             \/ Unrecorded(l)' = Unrecorded(l),
             pc[l] \notin {"done", "threw"},
             pc[l] \in {"recording", "settled"} /\ Deciding(Current(l))
               /\ Current(l) \in CompletedOf(l) =>
                 pc'[l] \in {"recording", "settled", "done", "threw"} /\ at'[l] = at[l]
      PROVE  DecisionSound(l)'
  <2>1. /\ CompletedOf(l)' = CompletedOf(l) /\ Clean(l)' = Clean(l)
        /\ \A r \in CompletedOf(l) : Deciding(r)' <=> Deciding(r)
    BY <1>6, SameClean
  <2>2. QuorumMet(l, passes[l])' <=> QuorumMet(l, passes[l])
    BY <1>6 DEF QuorumMet
  <2>3. pc'[l] # "threw" => Counted(l)' = Counted(l)
    BY <1>6, <2>1 DEF Counted
  <2>4. \A i \in Chained(l) : i = at[l] => Chain[l][i] = Current(l)
    BY DEF Current
  <2>5. \A i \in Chained(l) :
          Chain[l][i] \in CompletedOf(l)' /\ Deciding(Chain[l][i])' =>
            /\ i = at'[l] /\ pc'[l] \in {"recording", "settled", "done", "threw"}
            /\ ~QuorumMet(l, passes[l])
    BY <1>1, <1>6, <2>1, <2>4 DEF DecisionSound
  <2>6. pc'[l] # "threw" => /\ Cardinality(Counted(l)') = Len(passes'[l])
                            /\ {Group[r] : r \in Counted(l)'} = Range(passes'[l])
    BY <1>1, <1>6, <2>3 DEF DecisionSound
  <2>7. pc'[l] \notin {"done", "threw"} => ~QuorumMet(l, passes[l])'
    BY <1>1, <1>6, <2>2 DEF DecisionSound
  <2>8. QED
    BY <2>2, <2>5, <2>6, <2>7, <1>6 DEF DecisionSound
<1>7. CASE Took(l) \/ Left(l)
  <2>1. /\ SameFindings({}) /\ passes'[l] = passes[l] /\ pc[l] \in {"idle", "next"}
        /\ pc'[l] \in {"next", "done"}
    BY <1>7 DEF Took, Left, SamePlace, Only, SameReviewer, SameFindings
  <2>2. Unrecorded(l) = {} /\ Unrecorded(l)' = {}
    BY <2>1 DEF Unrecorded
  <2>3. QED
    BY <1>6, <2>1, <2>2
\* The current reviewer, not completed, ends otherwise or goes on.
<1>8. ASSUME at[l] \in Chained(l), pc[l] \in Under \cup {"next"}
      PROVE  /\ Current(l) \in Range(Chain[l]) /\ Current(l) \in Open
             /\ Current(l) \notin CompletedOf(l) /\ Unrecorded(l) = {}
  BY <1>4, <1>8, BeforeMove DEF Unrecorded, Under
<1>9. CASE Worked(l) \/ PassedOver(l)
  <2>1. /\ SameFindings({Current(l)}) /\ at[l] \in Chained(l) /\ pc[l] \in Under \cup {"next"}
        /\ status'[Current(l)] # "completed" /\ passes'[l] = passes[l]
        /\ pc'[l] \in Under \cup {"next", "threw", "telling"}
    BY <1>9 DEF Worked, PassedOver, SamePlace, Under, Statuses, Terminal, Only, SameReviewer,
                SameFindings
  <2>2. Unrecorded(l)' = {} /\ pc[l] \notin {"done", "threw", "recording", "settled"}
    BY <2>1 DEF Unrecorded, Under
  <2>3. QED
    BY <1>6, <1>8, <2>1, <2>2
<1>10. CASE Blocked(l)
  <2>1. /\ SameFindings({Current(l)} \cup Rest(l)) /\ pc[l] = "probing" /\ at[l] \in Chained(l)
        /\ status'[Current(l)] # "completed" /\ passes'[l] = passes[l]
        /\ pc'[l] \in {"done", "threw"} /\ SkippedAmong(Rest(l))
    BY <1>10, BeforeMove DEF Blocked, SamePlace, Only, SameReviewer, SameFindings
  <2>2. Rest(l) \subseteq Range(Chain[l]) /\ Rest(l) \subseteq Open
    BY <2>1, BeforeMove
  <2>3. \A r \in Rest(l) : status'[r] # "completed"
    BY <1>3, <1>4, <2>1, <2>2 DEF SkippedAmong
  <2>4. Unrecorded(l)' = {}
    BY <2>1 DEF Unrecorded
  <2>5. /\ \A r \in {Current(l)} \cup Rest(l) : r \notin CompletedOf(l) /\ status'[r] # "completed"
        /\ {Current(l)} \cup Rest(l) \subseteq Range(Chain[l])
    BY <1>4, <1>8, <2>1, <2>2, <2>3 DEF Under
  <2>6. QED
    BY <1>6, <1>8, <2>1, <2>4, <2>5 DEF Under
<1>11. CASE Spoke(l)
  <2>1. /\ pc[l] \in {"telling", "recording"} /\ pc'[l] \in {"settled", "threw"}
        /\ at'[l] = at[l] /\ passes'[l] = passes[l]
    BY <1>11 DEF Spoke, SamePlace
  <2>2. SameFindings({})
    BY <1>11 DEF Spoke, Only, SameReviewer, SameFindings
  <2>3. Current(l)' = Current(l)
    BY <2>1 DEF Current
  <2>4. pc[l] = "recording" => pc'[l] = "threw" \/ Unrecorded(l)' = Unrecorded(l)
    BY <2>1, <2>3 DEF Unrecorded
  <2>5. pc[l] = "telling" => /\ Unrecorded(l) \cap Clean(l) = {}
                             /\ Unrecorded(l)' \cap Clean(l) = {}
    BY <1>1, <1>5, <2>1, <2>3 DEF Unrecorded, WorkerSound, CompletedOf
  <2>6. QED
    BY <1>6, <2>1, <2>2, <2>4, <2>5
<1>12. CASE Answered(l)
  <2>1. /\ pc[l] = "called" /\ pc'[l] = "recording" /\ at'[l] = at[l] /\ passes'[l] = passes[l]
        /\ source'[Current(l)] = source[Current(l)]
    BY <1>12 DEF Answered, SamePlace
  <2>2. at[l] \in Chained(l) /\ Current(l)' = Current(l)
    BY <2>1, BeforeMove DEF Current
  <2>3. /\ Current(l) \in Range(Chain[l]) /\ Current(l) \notin CompletedOf(l)
        /\ Unrecorded(l) = {} /\ Unrecorded(l)' = {Current(l)}
    BY <1>8, <2>1, <2>2 DEF Under, Unrecorded
  <2>4. \A r \in Range(Chain[l]) \ {Current(l)} :
          status'[r] = status[r] /\ source'[r] = source[r] /\ verdict'[r] = verdict[r]
    BY <1>12, BeforeMove DEF Answered, Only, SameReviewer
  <2>5. /\ CompletedOf(l) = CompletedOf(l)' \ {Current(l)}
        /\ Clean(l) = Clean(l)' \ {Current(l)}
    BY <2>3, <2>4 DEF CompletedOf, Clean, Reviewing
  <2>6. Counted(l)' = Counted(l)
    BY <2>3, <2>5 DEF Counted
  <2>7. ~QuorumMet(l, passes[l]) /\ (QuorumMet(l, passes[l])' <=> QuorumMet(l, passes[l]))
    BY <1>1, <2>1 DEF DecisionSound, QuorumMet
  <2>8. ASSUME NEW i \in Chained(l), Chain[l][i] \in CompletedOf(l)', Deciding(Chain[l][i])'
        PROVE  i = at[l]
    <3>1. CASE Chain[l][i] = Current(l)
      BY <2>2, <3>1, ChainIs DEF Current
    <3>2. CASE Chain[l][i] # Current(l)
      BY <1>1, <1>2, <2>1, <2>4, <2>5, <2>8, <3>2 DEF DecisionSound, Deciding
    <3>3. QED
      BY <3>1, <3>2
  <2>9. QED
    BY <1>1, <2>1, <2>6, <2>7, <2>8 DEF DecisionSound
\* The pass of the current reviewer is counted.
<1>13. ASSUME pc[l] = "settled", Counts(l), Clean(l)' = Clean(l), pc'[l] \in {"done", "next"}
       PROVE  /\ Cardinality(Counted(l)') = Len(passes'[l])
              /\ {Group[r] : r \in Counted(l)'} = Range(passes'[l])
  <2>1. Counted(l)' = Clean(l) /\ Counted(l) = Clean(l) \ {Current(l)}
    BY <1>13 DEF Counted, Unrecorded
  <2>2. /\ Cardinality(Counted(l)) = Len(passes[l])
        /\ {Group[r] : r \in Counted(l)} = Range(passes[l])
    BY <1>1, <1>13 DEF DecisionSound
  <2>3. CASE Current(l) \notin Clean(l)
    BY <1>13, <2>1, <2>2, <2>3 DEF Counts
  <2>4. CASE Current(l) \in Clean(l)
    <3>1. at[l] \in Chained(l)
      BY <1>13, BeforeMove
    <3>2. GroupAt(l) \in Groups /\ GroupAt(l) = Group[Current(l)]
      BY <3>1, CurrentIs
    <3>3. passes'[l] = Append(passes[l], Group[Current(l)])
      BY <1>13, <2>4, <3>2 DEF Counts
    <3>4. Counted(l)' = Counted(l) \cup {Current(l)} /\ Current(l) \notin Counted(l)
      BY <2>1, <2>4
    <3>5. passes[l] \in Seq(Groups) /\ IsFiniteSet(Counted(l))
      BY CleanIsFinite DEF LegacyTypeOK
    <3>6. PICK t, S, r, s :
             /\ t = Append(passes[l], Group[Current(l)])
             /\ S = Counted(l) /\ r = Current(l) /\ s = passes[l]
      OBVIOUS
    <3>7. /\ IsFiniteSet(S) /\ r \notin S /\ s \in Seq(Groups) /\ Group[r] \in Groups
          /\ Cardinality(S) = Len(s) /\ t = Append(s, Group[r])
      BY <2>2, <3>2, <3>4, <3>5, <3>6
    <3>8. {Group[x] : x \in S} = Range(s)
      BY <2>2, <3>6
    <3>9. /\ Cardinality(S \cup {r}) = Len(t)
          /\ {Group[x] : x \in S \cup {r}} = Range(t)
      BY <3>7, <3>8, AddedGroup
    <3>10. QED
      BY <3>3, <3>4, <3>6, <3>9
  <2>5. QED
    BY <2>3, <2>4
<1>14. CASE Broke(l)
  <2>1. /\ pc[l] = "settled" /\ pc'[l] \in {"done", "threw"} /\ at'[l] = at[l] /\ Counts(l)
        /\ Only(Rest(l)) /\ SkippedAmong(Rest(l))
    BY <1>14 DEF Broke
  <2>2. Rest(l) \subseteq Range(Chain[l]) /\ Rest(l) \subseteq Open
    BY <2>1, BeforeMove
  <2>3. /\ SameFindings(Rest(l))
        /\ \A r \in Rest(l) : r \notin CompletedOf(l) /\ status'[r] # "completed"
    BY <1>3, <1>4, <2>1, <2>2 DEF SkippedAmong, Only, SameReviewer, SameFindings
  <2>4. /\ CompletedOf(l)' = CompletedOf(l) /\ Clean(l)' = Clean(l)
        /\ \A r \in CompletedOf(l) : Deciding(r)' <=> Deciding(r)
    BY <2>2, <2>3, SameClean
  <2>5. pc'[l] # "threw" => /\ Cardinality(Counted(l)') = Len(passes'[l])
                            /\ {Group[r] : r \in Counted(l)'} = Range(passes'[l])
    BY <1>13, <2>1, <2>4
  <2>6. ASSUME NEW i \in Chained(l), Chain[l][i] \in CompletedOf(l)', Deciding(Chain[l][i])'
        PROVE  i = at[l] /\ ~QuorumMet(l, passes[l]) /\ passes'[l] = passes[l]
    <3>1. i = at[l] /\ ~QuorumMet(l, passes[l])
      BY <1>1, <2>4, <2>6 DEF DecisionSound
    <3>2. Current(l) \notin Clean(l)
      BY <2>4, <2>6, <3>1 DEF Clean, Reviewing, Deciding, Current
    <3>3. QED
      BY <2>1, <3>1, <3>2 DEF Counts
  <2>7. \A i \in Chained(l) : Chain[l][i] \in CompletedOf(l)' /\ Deciding(Chain[l][i])' =>
                              i = at'[l] /\ ~QuorumMet(l, passes'[l])
    BY <2>1, <2>6
  <2>8. QuorumMet(l, passes[l])' <=> QuorumMet(l, passes'[l])
    BY DEF QuorumMet
  <2>9. QED
    BY <2>1, <2>5, <2>7, <2>8 DEF DecisionSound
<1>15. CASE Advanced(l)
  <2>1. /\ pc[l] = "settled" /\ pc'[l] = "next" /\ Counts(l)
        /\ Current(l) \in Clean(l) => ~QuorumMet(l, passes'[l])
        /\ Current(l) \in CompletedOf(l) => ~Deciding(Current(l))
        /\ SameFindings({})
    BY <1>15 DEF Advanced, Only, SameReviewer, SameFindings
  <2>2. /\ CompletedOf(l)' = CompletedOf(l) /\ Clean(l)' = Clean(l)
        /\ \A r \in CompletedOf(l) : Deciding(r)' <=> Deciding(r)
    BY <2>1, SameClean
  <2>3. \A i \in Chained(l) : ~(Chain[l][i] \in CompletedOf(l)' /\ Deciding(Chain[l][i])')
    BY <1>1, <2>1, <2>2 DEF DecisionSound, Current
  <2>4. ~QuorumMet(l, passes'[l])
    BY <1>1, <2>1 DEF Counts, DecisionSound
  <2>5. QuorumMet(l, passes[l])' <=> QuorumMet(l, passes'[l])
    BY DEF QuorumMet
  <2>6. QED
    BY <1>13, <2>1, <2>2, <2>3, <2>4, <2>5 DEF DecisionSound
<1>16. CASE Handed(l)
  <2>1. PICK there \in Chained(l) : there = at'[l] /\ there > at[l]
    BY <1>16 DEF Handed
  <2>2. PICK between : between = Between(l, there)
    OBVIOUS
  <2>3. /\ pc[l] = "settled" /\ pc'[l] \in {"next", "threw"}
        /\ Only(between \cup {Chain[l][there]}) /\ SkippedAmong(between)
        /\ status'[Chain[l][there]] = status[Chain[l][there]]
        /\ passes'[l] = passes[l] /\ Current(l) \notin Clean(l) /\ ~Deciding(Current(l))
    BY <1>16, <2>1, <2>2 DEF Handed
  <2>4. at[l] \in Chained(l)
    BY <2>3, BeforeMove
  <2>5. between \subseteq Rest(l) /\ Chain[l][there] \in Rest(l)
    BY <2>1, <2>2, <2>4, BetweenIs
  <2>6. Rest(l) \subseteq Open /\ Rest(l) \subseteq Range(Chain[l])
    BY <2>3, BeforeMove
  <2>7. \A r \in between \cup {Chain[l][there]} :
          r \notin CompletedOf(l) /\ status'[r] # "completed" /\ r \in Range(Chain[l])
    BY <1>3, <1>4, <2>3, <2>5, <2>6 DEF SkippedAmong
  <2>8. SameFindings(between \cup {Chain[l][there]})
    BY <2>3 DEF Only, SameReviewer, SameFindings
  <2>9. Unrecorded(l) = {Current(l)} /\ Unrecorded(l)' = {}
    BY <2>3 DEF Unrecorded
  <2>10. QED
    BY <1>6, <2>3, <2>7, <2>8, <2>9
<1>17. CASE Only({}) /\ SamePlace(l) /\ pc'[l] = pc[l]
  <2>1. SameLens(l)
    BY <1>17, BeforeMove DEF SameLens, Only, Aside
  <2>2. QED
    BY <2>1, SameLensSound DEF LensSound
<1>18. QED
  BY <1>7, <1>9, <1>10, <1>11, <1>12, <1>14, <1>15, <1>16, <1>17 DEF Moved

\* Every lens stays sound in a step of a worker.
LEMMA WorkersKeepLenses ==
  ASSUME LegacyTypeOK, \A m \in Lenses : LensSound(m), NEW l \in Lenses,
         Resumes(l) \/ Works(l) \/ Answers(l) \/ Timers(l)
  PROVE  Moved(l) /\ Aside(l) /\ \A m \in Lenses : LensSound(m)'
<1>1. LensSound(l) /\ WorkerSound(l) /\ \A r \in Range(Chain[l]) : ReviewerSound(l, r)
  BY DEF LensSound
<1>2. Moved(l)
  BY <1>1, WorkerMoves
<1>3. Aside(l)
  BY WorkerAside
<1>4. \A r \in Range(Chain[l]) : ReviewerSound(l, r)'
  BY <1>1, <1>2, <1>3, ReviewersMove
<1>5. WorkerSound(l)'
  BY <1>1, <1>2, <1>3, WorkerMove
<1>6. DecisionSound(l)'
  BY <1>1, <1>2, <1>3, DecisionMove
<1>7. LensSound(l)'
  BY <1>4, <1>5, <1>6 DEF LensSound
<1>8. Only(Range(Chain[l]))
  BY <1>1, <1>2, MovesAreOwn
<1>9. \A m \in Lenses : m # l => LensSound(m)'
  BY <1>3, <1>8, OthersKept
<1>10. QED
  BY <1>2, <1>3, <1>7, <1>9

----------------------------------------------------------------------------
(* The steps of the run.                                                   *)

\* The roster and the workers are left alone; the run may settle.
Apart ==
  /\ UNCHANGED <<scope, status, verdict, source, told, pc, at, passes, pending>>
  /\ run' = run \/ (run = "reviewing" /\ run' \in {"completed", "rejected"})
  /\ interrupted' = interrupted \/ interrupted' = TRUE

LEMMA ApartIsSound ==
  ASSUME LegacyTypeOK, Apart, NEW l \in Lenses, LensSound(l)
  PROVE  LensSound(l)'
<1>1. Current(l)' = Current(l) /\ Open' = Open
  BY DEF Apart, Current, Open
<1>2. \A r \in Range(Chain[l]) : ReviewerSound(l, r)'
  BY <1>1 DEF Apart, LensSound, ReviewerSound
<1>3. WorkerSound(l)'
  BY <1>1 DEF Apart, LensSound, WorkerSound, LegacyTypeOK
<1>4. DecisionSound(l)'
  BY <1>1
    DEF Apart, LensSound, DecisionSound, Counted, Clean, CompletedOf, Unrecorded, Reviewing,
              Deciding, QuorumMet
<1>5. QED
  BY <1>2, <1>3, <1>4 DEF LensSound

LEMMA RunIsApart ==
  ASSUME LegacyTypeOK
  PROVE  Complete \/ Reject \/ Interrupt \/ OutputFails \/ (\E g \in Groups : Cooldown(g)) => Apart
<1>1. CASE Complete
  BY <1>1 DEF Complete, RunRejects, Apart, work
<1>2. CASE Reject
  BY <1>2 DEF Reject, RunRejects, Apart, work
<1>3. CASE Interrupt
  BY <1>3 DEF Interrupt, Apart, work, roster
<1>4. CASE OutputFails
  BY <1>4 DEF OutputFails, Apart, work, roster
<1>5. CASE \E g \in Groups : Cooldown(g)
  BY <1>5 DEF Cooldown, Apart, work, roster, world
<1>6. QED
  BY <1>1, <1>2, <1>3, <1>4, <1>5

\* At the start the lenses out of scope are skipped.
LEMMA StartKeepsLenses ==
  ASSUME LegacyTypeOK, \A m \in Lenses : LensSound(m), Start, NEW l \in Lenses
  PROVE  LensSound(l)'
<1>1. /\ WorkerSound(l) /\ DecisionSound(l)
      /\ \A r \in Range(Chain[l]) : ReviewerSound(l, r)
  BY DEF LensSound
<1>2. PICK out : out = {m \in Lenses : usable /\ scope[m] # "runs"}
  OBVIOUS
<1>3. PICK rs : rs = UNION {Range(Chain[m]) : m \in out}
  OBVIOUS
<1>4. /\ run = "starting" /\ run' = (IF usable THEN "reviewing" ELSE "rejected")
      /\ \A r \in Reviewers : status'[r] = IF r \in rs THEN "skipped" ELSE status[r]
      /\ Tell(rs)
      /\ UNCHANGED <<scope, interrupted, source, verdict, pc, at, passes, pending>>
  BY <1>2, <1>3 DEF Start, work
<1>5. \A r \in Reviewers : told'[r] = IF r \in rs /\ usable THEN told[r] + 1 ELSE told[r]
  BY <1>4 DEF Tell
<1>6. Range(Chain[l]) \subseteq Reviewers /\ usable \in BOOLEAN
  BY ChainIs DEF LegacyTypeOK
<1>7. \A r \in Range(Chain[l]) : r \in rs <=> l \in out
  BY <1>2, <1>3, ChainsApart
<1>8. pc[l] = "idle" /\ at[l] = 1 /\ \A r \in Range(Chain[l]) : r \in Open
  BY <1>1, <1>4 DEF WorkerSound
<1>9. \A r \in Range(Chain[l]) : r \in Open' <=> status'[r] \notin Terminal
  BY <1>6 DEF Open
<1>10. ASSUME NEW r \in Range(Chain[l]) PROVE ReviewerSound(l, r)'
  <2>1. ReviewerSound(l, r) /\ told[r] = 0 /\ status[r] \notin Terminal
    BY <1>1, <1>8 DEF ReviewerSound, Open
  <2>2. CASE l \in out
    BY <1>2, <1>4, <1>5, <1>6, <1>7, <1>9, <2>1, <2>2 DEF ReviewerSound, Terminal
  <2>3. CASE l \notin out
    BY <1>4, <1>5, <1>6, <1>7, <1>9, <2>1, <2>3 DEF ReviewerSound, Terminal
  <2>4. QED
    BY <2>2, <2>3
<1>11. WorkerSound(l)'
  <2>1. l \in out => \A r \in Range(Chain[l]) : r \notin Open'
    BY <1>4, <1>6, <1>7, <1>9 DEF Terminal
  <2>2. l \notin out => \A r \in Range(Chain[l]) : r \in Open'
    BY <1>4, <1>6, <1>7, <1>8, <1>9 DEF Open
  <2>3. run' = "reviewing" /\ scope[l] # "runs" => l \in out
    BY <1>2, <1>4, <1>6
  <2>4. scope[l] = "runs" => l \notin out
    BY <1>2
  <2>5. /\ run' \in {"reviewing", "rejected"} /\ scope' = scope /\ pc' = pc /\ at' = at
        /\ interrupted' = interrupted /\ pending' = pending
    BY <1>4
  <2>6. pending[l] # NoOne => pending[l] \in Range(Chain[l])
    BY <1>1 DEF WorkerSound
  <2>7. QED
    BY <1>8, <2>1, <2>2, <2>3, <2>4, <2>5, <2>6 DEF WorkerSound, Under
<1>12. DecisionSound(l)'
  <2>1. PICK mine : mine = Range(Chain[l]) \cap rs
    OBVIOUS
  <2>2. /\ mine \subseteq Range(Chain[l])
        /\ \A r \in mine : r \notin CompletedOf(l) /\ status'[r] # "completed"
    BY <1>4, <1>6, <1>8, <2>1 DEF CompletedOf, Open, Terminal
  <2>3. \A r \in Range(Chain[l]) \ mine :
          status'[r] = status[r] /\ source'[r] = source[r] /\ verdict'[r] = verdict[r]
    BY <1>4, <1>6, <2>1
  <2>4. CompletedOf(l)' = CompletedOf(l) /\ Clean(l)' = Clean(l)
    BY <1>4, <2>2, <2>3 DEF CompletedOf, Clean, Reviewing
  <2>5. Unrecorded(l) = {} /\ Unrecorded(l)' = {} /\ Counted(l)' = Counted(l)
    BY <1>4, <1>8, <2>4 DEF Unrecorded, Counted
  <2>6. /\ \A i \in Chained(l) : Deciding(Chain[l][i])' <=> Deciding(Chain[l][i])
        /\ QuorumMet(l, passes[l])' <=> QuorumMet(l, passes[l])
        /\ pc' = pc /\ at' = at /\ passes' = passes
    BY <1>4 DEF Deciding, QuorumMet
  <2>7. QED
    BY <1>1, <2>4, <2>5, <2>6 DEF DecisionSound
<1>13. QED
  BY <1>10, <1>11, <1>12 DEF LensSound

\* At the end of an interrupted run a reviewer that nobody led to an end is cancelled.
LEMMA CancelKeepsLenses ==
  ASSUME LegacyTypeOK, NEW l \in Lenses, LensSound(l), NEW c \in Reviewers, CancelOpen(c)
  PROVE  LensSound(l)'
<1>1. /\ WorkerSound(l) /\ DecisionSound(l)
      /\ \A r \in Range(Chain[l]) : ReviewerSound(l, r)
  BY DEF LensSound
<1>2. /\ run = "reviewing" /\ AllDone /\ interrupted /\ c \in Open
      /\ run' = IF usable THEN run ELSE "rejected"
      /\ UNCHANGED <<scope, interrupted, source, verdict, pc, at, passes, pending>>
  BY DEF CancelOpen, RunRejects, work
<1>3. /\ \A r \in Reviewers : status'[r] = IF r = c THEN "incomplete" ELSE status[r]
      /\ \A r \in Reviewers : told'[r] = IF r = c /\ usable THEN told[r] + 1 ELSE told[r]
  BY DEF CancelOpen, Tell, LegacyTypeOK
<1>4. Range(Chain[l]) \subseteq Reviewers /\ usable \in BOOLEAN
  BY ChainIs DEF LegacyTypeOK
<1>5. pc[l] \in {"idle", "done"}
  BY <1>2 DEF AllDone
<1>6. \A r \in Range(Chain[l]) : r \in Open' <=> status'[r] \notin Terminal
  BY <1>4 DEF Open
<1>7. ASSUME NEW r \in Range(Chain[l]) PROVE ReviewerSound(l, r)'
  <2>1. ReviewerSound(l, r) /\ (r \in Open <=> status[r] \notin Terminal)
    BY <1>1, <1>4 DEF Open
  <2>2. CASE r = c
    BY <1>2, <1>3, <1>4, <1>6, <2>1, <2>2 DEF ReviewerSound, Terminal
  <2>3. CASE r # c
    BY <1>2, <1>3, <1>4, <1>5, <1>6, <2>1, <2>3 DEF ReviewerSound, Terminal
  <2>4. QED
    BY <2>2, <2>3
<1>8. WorkerSound(l)'
  BY <1>1, <1>2, <1>5 DEF WorkerSound, Under
<1>9. DecisionSound(l)'
  <2>1. CompletedOf(l)' = CompletedOf(l)
    BY <1>2, <1>3, <1>4 DEF CompletedOf, Open, Terminal
  <2>2. Clean(l)' = Clean(l) /\ Unrecorded(l)' = Unrecorded(l)
    BY <1>2, <2>1 DEF Clean, Reviewing, Unrecorded, Current
  <2>3. Counted(l)' = Counted(l)
    BY <2>2 DEF Counted
  <2>4. /\ \A i \in Chained(l) : Deciding(Chain[l][i])' <=> Deciding(Chain[l][i])
        /\ QuorumMet(l, passes[l])' <=> QuorumMet(l, passes[l])
        /\ pc' = pc /\ at' = at /\ passes' = passes
    BY <1>2 DEF Deciding, QuorumMet
  <2>5. QED
    BY <1>1, <2>1, <2>3, <2>4 DEF DecisionSound
<1>10. QED
  BY <1>7, <1>8, <1>9 DEF LensSound

----------------------------------------------------------------------------
(* The run, and the pages behind its results.                              *)

\* Once the run has settled, a worker that is idle only takes a lens, and one
\* that has ended does nothing.
LEMMA OnlyBusyWorkers ==
  ASSUME NEW l \in Lenses, Settled,
         Resumes(l) \/ Works(l) \/ Answers(l) \/ Timers(l)
  PROVE  \/ pc[l] \notin {"idle", "done", "threw"}
         \/ /\ pc[l] = "idle" /\ scope[l] = "runs" /\ ~interrupted
            /\ run = "rejected" => \E m \in Lenses : pc[m] # "idle"
<1>1. CASE Take(l)
  BY <1>1 DEF Take
<1>2. CASE ChainEnds(l)
  BY <1>2 DEF ChainEnds
<1>3. CASE DeadlinePassed(l)
  BY <1>3 DEF DeadlinePassed, AtReviewer
<1>4. CASE Suppressed(l)
  BY <1>4 DEF Suppressed, AtReviewer
<1>5. CASE Probe(l)
  BY <1>5 DEF Probe, AtReviewer
<1>6. CASE ProbeSucceeds(l)
  BY <1>6 DEF ProbeSucceeds
<1>7. CASE ProbeFails(l)
  BY <1>7 DEF ProbeFails
<1>8. CASE GiveUp(l)
  BY <1>8 DEF GiveUp
<1>9. CASE Tells(l)
  BY <1>9 DEF Tells
<1>10. CASE Attempt(l)
  BY <1>10 DEF Attempt
<1>11. CASE Acquire(l)
  BY <1>11 DEF Acquire
<1>12. CASE AcquireCut(l)
  BY <1>12 DEF AcquireCut
<1>13. CASE Refused(l)
  BY <1>13 DEF Refused
<1>14. CASE Call(l)
  BY <1>14 DEF Call
<1>15. CASE ProgressFails(l)
  BY <1>15 DEF ProgressFails
<1>16. CASE CallFails(l)
  BY <1>16 DEF CallFails
<1>17. CASE Backoff(l)
  BY <1>17 DEF Backoff
<1>18. CASE Returns(l)
  BY <1>18 DEF Returns, MayReturn
<1>19. CASE ReturnsNothing(l)
  BY <1>19 DEF ReturnsNothing, MayReturn
<1>20. CASE Records(l)
  BY <1>20 DEF Records
<1>21. CASE AdjudicationPasses(l)
  BY <1>21 DEF AdjudicationPasses, Forgets, AtEnd
<1>22. CASE ReviewPasses(l)
  BY <1>22 DEF ReviewPasses, Forgets, AtEnd
<1>23. CASE Adjudicate(l)
  BY <1>23 DEF Adjudicate, Forgets, AtEnd
<1>24. CASE FindingEnds(l)
  BY <1>24 DEF FindingEnds, Forgets, AtEnd
<1>25. CASE ReviewFails(l)
  BY <1>25 DEF ReviewFails, Forgets, AtEnd
<1>26. CASE AttemptTimer(l)
  BY <1>26 DEF AttemptTimer, Active
<1>27. CASE LensDeadline(l)
  BY <1>27 DEF LensDeadline, Settled
<1>28. QED
  BY <1>1, <1>2, <1>3, <1>4, <1>5, <1>6, <1>7, <1>8, <1>9, <1>10, <1>11, <1>12, <1>13, <1>14,
     <1>15, <1>16, <1>17, <1>18, <1>19, <1>20, <1>21, <1>22, <1>23, <1>24, <1>25, <1>26, <1>27
  DEF Resumes, Works, Answers, Timers


\* What a step of a worker does to the pages.
LEMMA WorkerPages ==
  ASSUME LegacyTypeOK, NEW l \in Lenses,
         Resumes(l) \/ Works(l) \/ Answers(l) \/ Timers(l)
  PROVE  \/ storage' = storage /\ (pc[l] = "called" => pc'[l] # "recording")
         \/ /\ pc[l] = "called"
            /\ \/ /\ status' = [status EXCEPT ![Current(l)] = "completed"]
                  /\ storage' = [storage EXCEPT ![Current(l)] = "kept"]
               \/ /\ status' = [status EXCEPT ![Current(l)] = "incomplete"]
                  /\ \E how \in {"released", "abandoned"} :
                       storage' = [storage EXCEPT ![Current(l)] = how]
<1>1. /\ pc \in [Lenses -> Places]
      /\ storage \in [Reviewers -> {"none", "kept", "released", "abandoned"}]
  BY DEF LegacyTypeOK
<1>2. CASE Take(l)
  BY <1>1, <1>2 DEF Take, roster
<1>3. CASE ChainEnds(l)
  BY <1>1, <1>3 DEF ChainEnds, roster
<1>4. CASE DeadlinePassed(l)
  BY <1>1, <1>4 DEF DeadlinePassed, roster, AtReviewer
<1>5. CASE Suppressed(l)
  BY <1>1, <1>5 DEF Suppressed, roster, AtReviewer
<1>6. CASE Probe(l)
  BY <1>1, <1>6 DEF Probe, roster, AtReviewer
<1>7. CASE ProbeSucceeds(l)
  BY <1>1, <1>7 DEF ProbeSucceeds, roster
<1>8. CASE ProbeFails(l)
  BY <1>1, <1>8 DEF ProbeFails, roster
<1>9. CASE GiveUp(l)
  BY <1>1, <1>9 DEF GiveUp, roster
<1>10. CASE Tells(l)
  BY <1>1, <1>10 DEF Tells, roster
<1>11. CASE Attempt(l)
  BY <1>1, <1>11 DEF Attempt, roster
<1>12. CASE Acquire(l)
  BY <1>1, <1>12 DEF Acquire, roster
<1>13. CASE AcquireCut(l)
  BY <1>1, <1>13 DEF AcquireCut, roster
<1>14. CASE Refused(l)
  BY <1>1, <1>14 DEF Refused, roster
<1>15. CASE Call(l)
  BY <1>1, <1>15 DEF Call, roster
<1>16. CASE ProgressFails(l)
  BY <1>1, <1>16 DEF ProgressFails, roster, Release
<1>17. CASE CallFails(l)
  BY <1>1, <1>17 DEF CallFails, roster, Release
<1>18. CASE Backoff(l)
  BY <1>1, <1>18 DEF Backoff, roster
<1>19. CASE Returns(l)
  BY <1>1, <1>19 DEF Returns, MayReturn
<1>20. CASE ReturnsNothing(l)
  BY <1>1, <1>20 DEF ReturnsNothing, MayReturn, Settle
<1>21. CASE Records(l)
  BY <1>1, <1>21 DEF Records, roster
<1>22. CASE AdjudicationPasses(l)
  BY <1>1, <1>22 DEF AdjudicationPasses, Forgets, AtEnd
<1>23. CASE ReviewPasses(l)
  BY <1>1, <1>23 DEF ReviewPasses, Forgets, AtEnd
<1>24. CASE Adjudicate(l)
  BY <1>1, <1>24 DEF Adjudicate, Forgets, AtEnd
<1>25. CASE FindingEnds(l)
  BY <1>1, <1>25 DEF FindingEnds, Forgets, AtEnd
<1>26. CASE ReviewFails(l)
  BY <1>1, <1>26 DEF ReviewFails, Forgets, AtEnd
<1>27. CASE AttemptTimer(l)
  BY <1>1, <1>27 DEF AttemptTimer, roster
<1>28. CASE LensDeadline(l)
  BY <1>1, <1>28 DEF LensDeadline, roster
<1>29. QED
  BY <1>2, <1>3, <1>4, <1>5, <1>6, <1>7, <1>8, <1>9, <1>10, <1>11, <1>12, <1>13, <1>14, <1>15,
     <1>16, <1>17, <1>18, <1>19, <1>20, <1>21, <1>22, <1>23, <1>24, <1>25, <1>26, <1>27, <1>28
  DEF Resumes, Works, Answers, Timers

\* A worker that has thrown stays where it is.
LEMMA ThrewStays ==
  ASSUME LegacyTypeOK, NEW l \in Lenses, Moved(l), Aside(l)
  PROVE  \A m \in Lenses : pc[m] = "threw" => pc'[m] = "threw"
<1>1. pc[l] = "threw" => pc'[l] = "threw"
  BY
    DEF Moved, Took, Left, Worked, Answered, Spoke, PassedOver, Blocked, Broke, Advanced,
        Handed,
         Under
<1>2. \A m \in Lenses \ {l} : pc[m] = "threw" => pc'[m] = "threw"
  BY DEF Aside, Woken
<1>3. QED
  BY <1>1, <1>2

\* Only an answer completes a reviewer, and nothing undoes it.
LEMMA CompletedStay ==
  ASSUME LegacyTypeOK, NEW l \in Lenses, LensSound(l), Moved(l), ~Answered(l)
  PROVE  \A r \in Reviewers : status'[r] = "completed" <=> status[r] = "completed"
<1>1. at[l] \in Chained(l) => Current(l) \in Range(Chain[l])
  BY BeforeMove
<1>2. pc[l] \in Under \cup {"next"} /\ at[l] \in Chained(l) => status[Current(l)] # "completed"
  BY BeforeMove DEF Open, Terminal
<1>3. pc[l] \notin {"idle", "done", "threw"} => \A r \in Rest(l) : status[r] # "completed"
  BY BeforeMove DEF Open, Terminal
<1>4. pc[l] \notin {"idle", "next", "done", "threw"} => at[l] \in Chained(l)
  BY BeforeMove
<1>5. CASE Took(l) \/ Left(l) \/ Advanced(l) \/ (Only({}) /\ SamePlace(l) /\ pc'[l] = pc[l])
  BY <1>5 DEF Took, Left, Advanced, Only, SameReviewer
<1>6. CASE Worked(l) \/ PassedOver(l)
  BY <1>1, <1>2, <1>6 DEF Worked, PassedOver, Only, SameReviewer, Under, Statuses, Terminal
<1>7. CASE Spoke(l)
  BY <1>7 DEF Spoke, Only, SameReviewer
<1>8. CASE Blocked(l)
  BY <1>1, <1>2, <1>3, <1>4, <1>8 DEF Blocked, Only, SameReviewer, SkippedAmong, Under
<1>9. CASE Broke(l)
  BY <1>3, <1>9 DEF Broke, Only, SameReviewer, SkippedAmong
<1>10. CASE Handed(l)
  <2>1. PICK there \in Chained(l) : there = at'[l] /\ there > at[l]
    BY <1>10 DEF Handed
  <2>2. PICK between : between = Between(l, there)
    OBVIOUS
  <2>3. /\ pc[l] = "settled"
        /\ Only(between \cup {Chain[l][there]}) /\ SkippedAmong(between)
        /\ status'[Chain[l][there]] = status[Chain[l][there]]
    BY <1>10, <2>1, <2>2 DEF Handed
  <2>4. between \subseteq Rest(l)
    BY <1>4, <2>1, <2>2, <2>3, BetweenIs
  <2>5. QED
    BY <1>3, <2>3, <2>4 DEF Only, SameReviewer, SkippedAmong
<1>11. QED
  BY <1>5, <1>6, <1>7, <1>8, <1>9, <1>10 DEF Moved, Answered

LEMMA PagesInWork ==
  ASSUME LegacyTypeOK, \A m \in Lenses : LensSound(m), StorageSound, RunSound, NEW l \in Lenses,
         Resumes(l) \/ Works(l) \/ Answers(l) \/ Timers(l)
  PROVE  StorageSound'
<1>1. Moved(l) /\ Aside(l) /\ LensSound(l)
  BY WorkersKeepLenses
<1>2. \A m \in Lenses : pc[m] = "threw" => pc'[m] = "threw"
  BY <1>1, ThrewStays
<1>3. run' = run
  BY <1>1 DEF Aside
<1>4. ASSUME storage' = storage,
             \A r \in Reviewers : status'[r] = "completed" <=> status[r] = "completed"
      PROVE  StorageSound'
  BY <1>2, <1>3, <1>4 DEF StorageSound
<1>5. CASE storage' = storage /\ (pc[l] = "called" => pc'[l] # "recording")
  <2>1. ~Answered(l)
    BY <1>5 DEF Answered
  <2>2. QED
    BY <1>1, <1>4, <1>5, <2>1, CompletedStay
<1>6. CASE /\ pc[l] = "called"
           /\ \/ /\ status' = [status EXCEPT ![Current(l)] = "completed"]
                 /\ storage' = [storage EXCEPT ![Current(l)] = "kept"]
              \/ /\ status' = [status EXCEPT ![Current(l)] = "incomplete"]
                 /\ \E how \in {"released", "abandoned"} :
                      storage' = [storage EXCEPT ![Current(l)] = how]
  <2>1. at[l] \in Chained(l) /\ Current(l) \in Reviewers
    BY <1>1, <1>6, BeforeMove
  <2>2. run # "completed" /\ (run = "rejected" => \E m \in Lenses : pc'[m] = "threw")
    BY <1>2, <1>6 DEF RunSound, AllDone
  <2>3. status[Current(l)] # "completed"
    BY <1>1, <1>6, <2>1, BeforeMove DEF Open, Terminal, Under
  <2>4. /\ status \in [Reviewers -> Statuses]
        /\ storage \in [Reviewers -> {"none", "kept", "released", "abandoned"}]
    BY DEF LegacyTypeOK
  <2>5. CASE /\ status' = [status EXCEPT ![Current(l)] = "completed"]
             /\ storage' = [storage EXCEPT ![Current(l)] = "kept"]
    BY <1>2, <1>3, <2>1, <2>2, <2>4, <2>5 DEF StorageSound
  <2>6. CASE /\ status' = [status EXCEPT ![Current(l)] = "incomplete"]
             /\ \E how \in {"released", "abandoned"} :
                  storage' = [storage EXCEPT ![Current(l)] = how]
    BY <1>2, <1>3, <2>1, <2>2, <2>3, <2>4, <2>6 DEF StorageSound
  <2>7. QED
    BY <1>6, <2>5, <2>6
<1>7. QED
  BY <1>5, <1>6, WorkerPages


LEMMA PagesInRun ==
  ASSUME LegacyTypeOK, StorageSound,
         \/ Start \/ Complete \/ Reject \/ Interrupt \/ OutputFails
         \/ (\E r \in Reviewers : CancelOpen(r)) \/ \E g \in Groups : Cooldown(g),
         \A m \in Lenses : LensSound(m)
  PROVE  StorageSound'
<1>1. /\ storage \in [Reviewers -> {"none", "kept", "released", "abandoned"}]
      /\ status \in [Reviewers -> Statuses]
  BY DEF LegacyTypeOK
<1>2. CASE Start
  <2>1. \A l \in Lenses : \A r \in Range(Chain[l]) : r \in Open
    BY <1>2 DEF Start, LensSound, WorkerSound
  <2>2. \A r \in Reviewers : status[r] \notin Terminal
    BY <2>1, EveryReviewer DEF Open
  <2>3. \A r \in Reviewers : status'[r] # "completed"
    BY <1>2, <2>2 DEF Start, Terminal
  <2>4. storage' = storage
    BY <1>2 DEF Start
  <2>5. QED
    BY <2>2, <2>3, <2>4 DEF StorageSound, Terminal
<1>3. CASE Complete
  BY <1>1, <1>3 DEF Complete, RunRejects, Kept, StorageSound
<1>4. CASE Reject
  BY <1>1, <1>4 DEF Reject, RunRejects, Kept, StorageSound
<1>5. CASE \E r \in Reviewers : CancelOpen(r)
  BY <1>1, <1>5 DEF CancelOpen, RunRejects, Kept, StorageSound, Open, Terminal
<1>6. CASE Interrupt \/ OutputFails \/ \E g \in Groups : Cooldown(g)
  BY <1>6 DEF Interrupt, OutputFails, Cooldown, StorageSound, roster, world
<1>7. QED
  BY <1>2, <1>3, <1>4, <1>5, <1>6

\* A run that has settled stays as it is.
LEMMA RunInWork ==
  ASSUME LegacyTypeOK, \A m \in Lenses : LensSound(m), RunSound, NEW l \in Lenses,
         Resumes(l) \/ Works(l) \/ Answers(l) \/ Timers(l)
  PROVE  RunSound'
<1>1. Moved(l) /\ Aside(l) /\ LensSound(l)
  BY WorkersKeepLenses
<1>2. \A m \in Lenses : pc[m] = "threw" => pc'[m] = "threw"
  BY <1>1, ThrewStays
<1>3. run' = run
  BY <1>1 DEF Aside
<1>4. run = "completed" => FALSE
  BY OnlyBusyWorkers DEF RunSound, AllDone, Settled
<1>5. run = "rejected" => \E m \in Lenses : pc[m] = "threw"
  BY OnlyBusyWorkers DEF RunSound, AllDone, Settled
<1>6. QED
  BY <1>2, <1>3, <1>4, <1>5 DEF RunSound

\* A run that completes has told the end of every reviewer.
LEMMA CompleteTellsAll ==
  ASSUME LegacyTypeOK, \A m \in Lenses : LensSound(m), Complete, NEW r \in Reviewers
  PROVE  told[r] = 1
<1>1. PICK l \in Lenses : r \in Range(Chain[l])
  BY EveryReviewer
<1>2. WorkerSound(l) /\ ReviewerSound(l, r)
  BY <1>1 DEF LensSound
<1>3. /\ run = "reviewing" /\ (interrupted => Open = {})
      /\ pc[l] = "done" \/ (pc[l] = "idle" /\ (interrupted \/ scope[l] # "runs"))
  BY DEF Complete, AllDone
<1>4. r \notin Open
  BY <1>1, <1>2, <1>3 DEF WorkerSound
<1>5. QED
  BY <1>2, <1>3, <1>4 DEF ReviewerSound

LEMMA RunInRun ==
  ASSUME LegacyTypeOK, RunSound,
         \/ Start \/ Complete \/ Reject \/ Interrupt \/ OutputFails
         \/ (\E r \in Reviewers : CancelOpen(r)) \/ \E g \in Groups : Cooldown(g),
         \A m \in Lenses : LensSound(m)
  PROVE  RunSound'
<1>1. CASE Start
  BY <1>1 DEF Start, RunSound, LensSound, WorkerSound
<1>2. CASE Complete
  <2>1. run' = "completed" => exit' = ExitCode
    BY <1>2 DEF Complete, RunRejects
  <2>2. UNCHANGED <<scope, interrupted, status, verdict, source, told, pc>> /\ AllDone
        /\ run' \in {"completed", "rejected"}
    BY <1>2 DEF Complete, RunRejects
  <2>3. ExitCode' = ExitCode
    BY <2>2 DEF ExitCode, Incomplete, Standing, Unjudged, Clean, Resolved, CompletedOf, Judges,
                Reviewing, Deciding
  <2>4. \A r \in Reviewers : told[r] = 1
    BY <1>2, CompleteTellsAll
  <2>5. QED
    BY <2>1, <2>2, <2>3, <2>4 DEF RunSound, AllDone
<1>3. CASE Reject
  BY <1>3 DEF Reject, RunRejects, RunSound
<1>4. CASE \E r \in Reviewers : CancelOpen(r)
  BY <1>4 DEF CancelOpen, RunRejects, RunSound, AllDone
<1>5. CASE Interrupt \/ OutputFails \/ \E g \in Groups : Cooldown(g)
  BY <1>5 DEF Interrupt, OutputFails, Cooldown, Settled, RunSound, world
<1>6. QED
  BY <1>1, <1>2, <1>3, <1>4, <1>5

----------------------------------------------------------------------------
(* The semaphores.                                                         *)

HoldersOf(g) == {l \in Lenses : pc[l] \in Holding /\ GroupAt(l) = g}
NobodyGaveUp == \A l \in Lenses : pc[l] # "threw" /\ (pc[l] = "queued" => Waits(l))
SlotSound(g) ==
  /\ busy[g] = Cardinality(HoldersOf(g)) /\ busy[g] <= ProviderLimit[g]
  /\ NobodyGaveUp => (waiting[g] # <<>> => busy[g] = ProviderLimit[g])

LEMMA SlotsAre == SlotsAreCounted <=> \A g \in Groups : SlotSound(g)
BY DEF SlotsAreCounted, SlotSound, HoldersOf, NobodyGaveUp, Holding

\* A wait that was given up stays given up; whoever holds or waits stays at its
\* reviewer.
GaveUpStays ==
  \A m \in Lenses :
    /\ pc[m] = "threw" => pc'[m] = "threw"
    /\ pc[m] = "queued" /\ cut[m] => pc'[m] = "threw" \/ (pc'[m] = "queued" /\ cut'[m])
    /\ pc[m] \in Holding \cup {"queued", "threw"} => at'[m] = at[m]

SlotsSame ==
  /\ busy' = busy /\ waiting' = waiting /\ GaveUpStays
  /\ \A m \in Lenses : /\ pc'[m] \in Holding <=> pc[m] \in Holding
                       /\ pc[m] = "queued" => pc'[m] \in {"queued", "threw"}

TookSlot(l) ==
  LET g == GroupAt(l) IN
  /\ pc[l] = "started" /\ busy[g] < ProviderLimit[g] /\ GaveUpStays
  /\ busy' = [busy EXCEPT ![g] = @ + 1] /\ waiting' = waiting
  /\ pc' = [pc EXCEPT ![l] = "admitted"] /\ at' = at

Queued(l) ==
  LET g == GroupAt(l) IN
  /\ pc[l] = "started" /\ ~(busy[g] < ProviderLimit[g]) /\ GaveUpStays
  /\ busy' = busy /\ waiting' = [waiting EXCEPT ![g] = Append(@, l)]
  /\ pc' = [pc EXCEPT ![l] = "queued"] /\ at' = at

GaveBack(l) ==
  /\ pc[l] \in Holding /\ at' = at /\ GaveUpStays
  /\ \E next \in Places \ (Holding \cup {"queued"}) : Release(GroupAt(l), l, next)

LEMMA NobodyGaveUpBefore ==
  ASSUME LegacyTypeOK, GaveUpStays, NobodyGaveUp'
  PROVE  NobodyGaveUp
BY DEF NobodyGaveUp, GaveUpStays, Waits, LegacyTypeOK

LEMMA WorkerSlots ==
  ASSUME LegacyTypeOK, NEW l \in Lenses,
         Resumes(l) \/ Works(l) \/ Answers(l) \/ Timers(l)
  PROVE  SlotsSame \/ TookSlot(l) \/ Queued(l) \/ GaveBack(l)
<1>1. /\ pc \in [Lenses -> Places] /\ at \in [Lenses -> Nat \ {0}] /\ cut \in [Lenses -> BOOLEAN]
  BY DEF LegacyTypeOK
<1>2. CASE Take(l)
  BY <1>1, <1>2
  DEF Take, SlotsSame, GaveUpStays, Holding, semaphore, work, timer, NoTimer
<1>3. CASE ChainEnds(l)
  BY <1>1, <1>3
  DEF ChainEnds, SlotsSame, GaveUpStays, Holding, semaphore, work, timer, NoTimer
<1>4. CASE DeadlinePassed(l)
  BY <1>1, <1>4
  DEF DeadlinePassed, AtReviewer, Goes, SlotsSame, GaveUpStays, Holding, semaphore, work, timer, NoTimer
<1>5. CASE Suppressed(l)
  BY <1>1, <1>5
  DEF Suppressed, AtReviewer, Goes, SlotsSame, GaveUpStays, Holding, semaphore, work, timer, NoTimer
<1>6. CASE Probe(l)
  BY <1>1, <1>6
  DEF Probe, AtReviewer, Goes, SlotsSame, GaveUpStays, Holding, semaphore, work, timer, NoTimer
<1>7. CASE ProbeSucceeds(l)
  BY <1>1, <1>7
  DEF ProbeSucceeds, SlotsSame, GaveUpStays, Holding, semaphore, work, timer, NoTimer
<1>8. CASE ProbeFails(l)
  BY <1>1, <1>8
  DEF ProbeFails, Goes, SlotsSame, GaveUpStays, Holding, semaphore, work, timer, NoTimer
<1>9. CASE GiveUp(l)
  BY <1>1, <1>9
  DEF GiveUp, SlotsSame, GaveUpStays, Holding, semaphore, work, timer, NoTimer
<1>10. CASE Tells(l)
  BY <1>1, <1>10
  DEF Tells, Goes, SlotsSame, GaveUpStays, Holding, semaphore, work, timer, NoTimer
<1>11. CASE Attempt(l)
  BY <1>1, <1>11
  DEF Attempt, Goes, SlotsSame, GaveUpStays, Holding, semaphore, work, timer, NoTimer
<1>12. CASE Acquire(l)
  BY <1>1, <1>12
  DEF Acquire, TookSlot, Queued, GaveUpStays, Holding, work, timer
<1>13. CASE AcquireCut(l)
  BY <1>1, <1>13
  DEF AcquireCut, SlotsSame, GaveUpStays, Holding, semaphore, work, timer, NoTimer
<1>14. CASE Refused(l)
  BY <1>1, <1>14
  DEF Refused, GaveBack, GaveUpStays, Holding, Places, Under, Release, Waits, NoTimer, work, timer
<1>15. CASE Call(l)
  BY <1>1, <1>15
  DEF Call, SlotsSame, GaveUpStays, Holding, semaphore, work, timer, NoTimer
<1>16. CASE ProgressFails(l)
  BY <1>1, <1>16
  DEF ProgressFails, GaveBack, GaveUpStays, Holding, Places, Under, Release, Waits, NoTimer, work, timer
<1>17. CASE CallFails(l)
  <2>1. /\ pc[l] = "called" /\ at' = at /\ cut' = [cut EXCEPT ![l] = FALSE]
        /\ \E next \in {"backoff", "threw", "telling"} : Release(GroupAt(l), l, next)
    BY <1>17 DEF CallFails, NoTimer
  <2>2. PICK next \in {"backoff", "threw", "telling"} : Release(GroupAt(l), l, next)
    BY <2>1
  <2>3. GaveUpStays
    BY <1>1, <2>1, <2>2 DEF Release, GaveUpStays, Waits, Holding
  <2>4. QED
    BY <2>1, <2>2, <2>3 DEF GaveBack, Holding, Places, Under
<1>18. CASE Backoff(l)
  BY <1>1, <1>18
  DEF Backoff, SlotsSame, GaveUpStays, Holding, semaphore, work, timer, NoTimer
<1>19. CASE Returns(l)
  BY <1>1, <1>19
  DEF Returns, MayReturn, Recording, SlotsSame, GaveUpStays, Holding, semaphore, work, timer, NoTimer
<1>20. CASE ReturnsNothing(l)
  BY <1>1, <1>20
  DEF ReturnsNothing, MayReturn, Recording, SlotsSame, GaveUpStays, Holding, semaphore, work, timer, NoTimer
<1>21. CASE Records(l)
  BY <1>1, <1>21
  DEF Records, GaveBack, GaveUpStays, Holding, Places, Under, Release, Waits, NoTimer, work, timer
<1>22. CASE AdjudicationPasses(l)
  BY <1>1, <1>22
  DEF AdjudicationPasses, Forgets, AtEnd, Break, SlotsSame, GaveUpStays, Holding, semaphore, work, timer, NoTimer
<1>23. CASE ReviewPasses(l)
  BY <1>1, <1>23
  DEF ReviewPasses, Forgets, AtEnd, Break, NextInChain, SlotsSame, GaveUpStays, Holding, semaphore, work, timer, NoTimer
<1>24. CASE Adjudicate(l)
  BY <1>1, <1>24
  DEF Adjudicate, Forgets, AtEnd, SlotsSame, GaveUpStays, Holding, semaphore, work, timer, NoTimer
<1>25. CASE FindingEnds(l)
  BY <1>1, <1>25
  DEF FindingEnds, Forgets, AtEnd, Break, SlotsSame, GaveUpStays, Holding, semaphore, work, timer, NoTimer
<1>26. CASE ReviewFails(l)
  BY <1>1, <1>26
  DEF ReviewFails, Forgets, AtEnd, Break, NextInChain, SlotsSame, GaveUpStays, Holding, semaphore, work, timer, NoTimer
<1>27. CASE AttemptTimer(l)
  BY <1>1, <1>27
  DEF AttemptTimer, SlotsSame, GaveUpStays, Holding, semaphore, work, timer, NoTimer
<1>28. CASE LensDeadline(l)
  BY <1>1, <1>28
  DEF LensDeadline, SlotsSame, GaveUpStays, Holding, semaphore, work, timer, NoTimer
<1>29. QED
  BY <1>2, <1>3, <1>4, <1>5, <1>6, <1>7, <1>8, <1>9, <1>10, <1>11, <1>12, <1>13, <1>14, <1>15,
     <1>16, <1>17, <1>18, <1>19, <1>20, <1>21, <1>22, <1>23, <1>24, <1>25, <1>26, <1>27, <1>28
  DEF Resumes, Works, Answers, Timers

\* Nobody else holds or waits.
LEMMA SameSlots ==
  ASSUME LegacyTypeOK, \A g \in Groups : QueueSound(g) /\ SlotSound(g), SlotsSame, NEW g \in Groups
  PROVE  QueueSound(g)' /\ SlotSound(g)'
<1>1. \A m \in Lenses : pc[m] \in Holding \cup {"queued", "threw"} => GroupAt(m)' = GroupAt(m)
  BY DEF SlotsSame, GaveUpStays, GroupAt, Current
<1>2. HoldersOf(g)' = HoldersOf(g)
  BY <1>1 DEF SlotsSame, HoldersOf
<1>3. SlotSound(g)'
  BY <1>2, NobodyGaveUpBefore DEF SlotsSame, SlotSound
<1>4. waiting[g] \in Seq(Lenses) /\ \A i \in 1..Len(waiting[g]) : waiting[g][i] \in Lenses
  BY DEF LegacyTypeOK
<1>5. QueueSound(g)'
  BY <1>1, <1>4 DEF QueueSound, SlotsSame, GaveUpStays
<1>6. QED
  BY <1>3, <1>5

LEMMA HoldersAreFinite ==
  ASSUME NEW g
  PROVE  IsFiniteSet(HoldersOf(g))
BY EveryReviewer, FS_Subset DEF HoldersOf

LEMMA SlotTaken ==
  ASSUME LegacyTypeOK, \A g \in Groups : QueueSound(g) /\ SlotSound(g),
         NEW l \in Lenses, at[l] \in Chained(l), TookSlot(l), NEW g \in Groups
  PROVE  QueueSound(g)' /\ SlotSound(g)'
<1>1. PICK own \in Groups : own = GroupAt(l)
  BY CurrentIs
<1>2. /\ pc[l] = "started" /\ busy[own] < ProviderLimit[own] /\ GaveUpStays
      /\ busy' = [busy EXCEPT ![own] = @ + 1] /\ waiting' = waiting
      /\ pc' = [pc EXCEPT ![l] = "admitted"] /\ at' = at
  BY <1>1 DEF TookSlot
<1>3. /\ busy \in [Groups -> Nat] /\ pc \in [Lenses -> Places] /\ waiting[g] \in Seq(Lenses)
      /\ ProviderLimit[own] \in Nat /\ ProviderLimit[g] \in Nat
  BY LegacyLimitAssumption DEF LegacyTypeOK
<1>4. \A m \in Lenses : GroupAt(m)' = GroupAt(m)
  BY <1>2 DEF GroupAt, Current
<1>5. HoldersOf(g)' = IF g = own THEN HoldersOf(g) \cup {l} ELSE HoldersOf(g)
  BY <1>1, <1>2, <1>3, <1>4 DEF HoldersOf, Holding
<1>6. l \notin HoldersOf(g)
  BY <1>2 DEF HoldersOf, Holding
<1>7. Cardinality(HoldersOf(g) \cup {l}) = Cardinality(HoldersOf(g)) + 1
  BY <1>6, HoldersAreFinite, FS_AddElement
<1>8. NobodyGaveUp' => NobodyGaveUp
  BY <1>2, NobodyGaveUpBefore
<1>9. SlotSound(g) /\ SlotSound(own)
  OBVIOUS
<1>10. SlotSound(g)'
  <2>1. CASE g = own
    BY <1>2, <1>3, <1>5, <1>7, <1>8, <1>9, <2>1 DEF SlotSound
  <2>2. CASE g # own
    BY <1>2, <1>3, <1>5, <1>8, <1>9, <2>2 DEF SlotSound
  <2>3. QED
    BY <2>1, <2>2
<1>11. QueueSound(g)'
  <2>1. \A i \in 1..Len(waiting[g]) : waiting[g][i] \in Lenses
    BY <1>3
  <2>2. QED
    BY <1>2, <1>3, <1>4, <2>1 DEF QueueSound
<1>12. QED
  BY <1>10, <1>11

LEMMA SlotAwaited ==
  ASSUME LegacyTypeOK, \A g \in Groups : QueueSound(g) /\ SlotSound(g),
         NEW l \in Lenses, at[l] \in Chained(l), Queued(l), NEW g \in Groups
  PROVE  QueueSound(g)' /\ SlotSound(g)'
<1>1. PICK own \in Groups : own = GroupAt(l)
  BY CurrentIs
<1>2. /\ pc[l] = "started" /\ ~(busy[own] < ProviderLimit[own]) /\ GaveUpStays
      /\ busy' = busy /\ waiting' = [waiting EXCEPT ![own] = Append(@, l)]
      /\ pc' = [pc EXCEPT ![l] = "queued"] /\ at' = at
  BY <1>1 DEF Queued
<1>3. /\ busy \in [Groups -> Nat] /\ pc \in [Lenses -> Places] /\ waiting[g] \in Seq(Lenses)
      /\ waiting \in [Groups -> Seq(Lenses)]
      /\ ProviderLimit[own] \in Nat /\ ProviderLimit[g] \in Nat
  BY LegacyLimitAssumption DEF LegacyTypeOK
<1>4. \A m \in Lenses : GroupAt(m)' = GroupAt(m)
  BY <1>2 DEF GroupAt, Current
<1>5. HoldersOf(g)' = HoldersOf(g)
  BY <1>2, <1>3, <1>4 DEF HoldersOf, Holding
<1>6. NobodyGaveUp' => NobodyGaveUp
  BY <1>2, NobodyGaveUpBefore
<1>7. SlotSound(g) /\ SlotSound(own)
  OBVIOUS
<1>8. SlotSound(g)'
  <2>1. CASE g = own
    BY <1>2, <1>3, <1>5, <1>6, <1>7, <2>1 DEF SlotSound
  <2>2. CASE g # own
    BY <1>2, <1>3, <1>5, <1>6, <1>7, <2>2 DEF SlotSound
  <2>3. QED
    BY <2>1, <2>2
<1>9. PICK q : q = waiting[g]
  OBVIOUS
<1>10. /\ q \in Seq(Lenses) /\ \A i \in 1..Len(q) : q[i] \in Lenses
       /\ \A i \in 1..Len(q) : pc[q[i]] \in {"queued", "threw"} /\ GroupAt(q[i]) = g
       /\ \A i, j \in 1..Len(q) : q[i] = q[j] => i = j
  BY <1>3, <1>9 DEF QueueSound
<1>11. \A i \in 1..Len(q) : q[i] # l
  BY <1>2, <1>10
<1>12. QueueSound(g)'
  <2>1. CASE g # own
    BY <1>2, <1>3, <1>4, <1>9, <1>10, <2>1 DEF QueueSound
  <2>2. CASE g = own
    <3>1. PICK t : t = Append(q, l)
      OBVIOUS
    <3>2. /\ Len(t) = Len(q) + 1 /\ Len(q) \in Nat /\ t[Len(q) + 1] = l
          /\ \A i \in 1..Len(q) : t[i] = q[i]
      BY <1>10, <3>1
    <3>3. \A i \in 1..Len(t) : i \in 1..Len(q) \/ i = Len(q) + 1
      BY <3>2
    <3>4. waiting'[g] = t
      BY <1>2, <1>3, <1>9, <2>2, <3>1
    <3>5. \A i \in 1..Len(t) : pc'[t[i]] \in {"queued", "threw"} /\ GroupAt(t[i])' = g
      <4>1. \A m \in Lenses : m # l => pc'[m] = pc[m]
        BY <1>2, <1>3
      <4>2. pc'[l] = "queued" /\ GroupAt(l)' = g
        BY <1>1, <1>2, <1>3, <1>4, <2>2
      <4>3. ASSUME NEW i \in 1..Len(q)
            PROVE  pc'[t[i]] \in {"queued", "threw"} /\ GroupAt(t[i])' = g
        <5>1. PICK m \in Lenses : m = q[i] /\ m = t[i]
          BY <1>10, <3>2
        <5>2. pc[m] \in {"queued", "threw"} /\ GroupAt(m) = g /\ m # l
          BY <1>10, <1>11, <5>1
        <5>3. pc'[m] \in {"queued", "threw"} /\ GroupAt(m)' = g
          BY <1>4, <4>1, <5>2
        <5>4. QED
          BY <5>1, <5>3
      <4>4. QED
        BY <3>2, <3>3, <4>2, <4>3
    <3>6. \A i, j \in 1..Len(t) : t[i] = t[j] => i = j
      BY <1>10, <1>11, <3>2, <3>3
    <3>7. QED
      BY <3>4, <3>5, <3>6 DEF QueueSound
  <2>3. QED
    BY <2>1, <2>2
<1>13. QED
  BY <1>8, <1>12

\* A slot is given back, to nobody or to the first of the queue.
LEMMA SlotGivenBack ==
  ASSUME LegacyTypeOK, \A g \in Groups : QueueSound(g) /\ SlotSound(g),
         NEW l \in Lenses, at[l] \in Chained(l), GaveBack(l), NEW g \in Groups
  PROVE  QueueSound(g)' /\ SlotSound(g)'
<1>1. PICK own \in Groups : own = GroupAt(l)
  BY CurrentIs
<1>2. pc[l] \in Holding /\ at' = at /\ GaveUpStays
  BY DEF GaveBack
<1>3. PICK next \in Places \ (Holding \cup {"queued"}) : Release(own, l, next)
  BY <1>1 DEF GaveBack
<1>4. /\ busy \in [Groups -> Nat] /\ pc \in [Lenses -> Places]
      /\ waiting \in [Groups -> Seq(Lenses)] /\ ProviderLimit[g] \in Nat
  BY LegacyLimitAssumption DEF LegacyTypeOK
<1>5. \A m \in Lenses : GroupAt(m)' = GroupAt(m)
  BY <1>2 DEF GroupAt, Current
<1>6. NobodyGaveUp' => NobodyGaveUp
  BY <1>2, NobodyGaveUpBefore
<1>7. SlotSound(g) /\ QueueSound(g) /\ QueueSound(own)
  OBVIOUS
<1>8. PICK q, first, woken :
        /\ q = waiting[own] /\ first = (IF q = <<>> THEN {} ELSE {Head(q)})
        /\ woken = {m \in first : Waits(m)}
  OBVIOUS
<1>9. /\ q \in Seq(Lenses) /\ \A i \in 1..Len(q) : q[i] \in Lenses
      /\ \A i \in 1..Len(q) : pc[q[i]] \in {"queued", "threw"} /\ GroupAt(q[i]) = own
      /\ \A i, j \in 1..Len(q) : q[i] = q[j] => i = j
  BY <1>4, <1>7, <1>8 DEF QueueSound
<1>10. /\ busy' = [busy EXCEPT ![own] = IF woken = {} THEN @ - 1 ELSE @]
       /\ waiting' = [waiting EXCEPT ![own] = IF first = {} THEN @ ELSE Tail(@)]
       /\ \A m \in Lenses :
            pc'[m] = IF m = l THEN next ELSE IF m \in woken THEN "admitted" ELSE pc[m]
  BY <1>3, <1>8 DEF Release
<1>11. first \subseteq Lenses /\ \A m \in first : pc[m] \in {"queued", "threw"} /\ GroupAt(m) = own
  <2>1. q # <<>> => 1 \in 1..Len(q) /\ Head(q) = q[1]
    BY <1>9
  <2>2. QED
    BY <1>8, <1>9, <2>1
<1>12. l \notin first /\ \A m \in woken : m \in Lenses /\ pc[m] = "queued" /\ GroupAt(m) = own
  BY <1>2, <1>8, <1>11 DEF Waits, Holding
<1>13. CASE g # own
  <2>1. busy'[g] = busy[g] /\ waiting'[g] = waiting[g]
    BY <1>4, <1>10, <1>13
  <2>2. \A m \in Lenses : GroupAt(m) = g => pc'[m] = pc[m]
    BY <1>1, <1>10, <1>12, <1>13
  <2>3. HoldersOf(g)' = HoldersOf(g)
    BY <1>5, <2>2 DEF HoldersOf
  <2>4. SlotSound(g)'
    BY <1>6, <1>7, <2>1, <2>3 DEF SlotSound
  <2>5. \A i \in 1..Len(waiting[g]) : waiting[g][i] \in Lenses
    BY <1>4
  <2>6. QueueSound(g)'
    BY <1>5, <1>7, <2>1, <2>2, <2>5 DEF QueueSound
  <2>7. QED
    BY <2>4, <2>6
<1>14. CASE g = own
  <2>1. HoldersOf(g)' = (HoldersOf(g) \ {l}) \cup woken
    BY <1>1, <1>2, <1>3, <1>5, <1>10, <1>12, <1>14 DEF HoldersOf, Holding
  <2>2. l \in HoldersOf(g)
    BY <1>1, <1>2, <1>14 DEF HoldersOf
  <2>3. /\ IsFiniteSet(HoldersOf(g)) /\ IsFiniteSet(HoldersOf(g) \ {l})
        /\ Cardinality(HoldersOf(g) \ {l}) = Cardinality(HoldersOf(g)) - 1
        /\ Cardinality(HoldersOf(g)) \in Nat
    BY <2>2, HoldersAreFinite, FS_RemoveElement, FS_CardinalityType
  <2>4. busy[g] = Cardinality(HoldersOf(g)) /\ busy[g] <= ProviderLimit[g]
    BY <1>7 DEF SlotSound
  <2>5. busy'[g] = Cardinality(HoldersOf(g)') /\ busy'[g] <= ProviderLimit[g]
    <3>1. CASE woken = {}
      BY <1>4, <1>10, <1>14, <2>1, <2>3, <2>4, <3>1
    <3>2. CASE woken # {}
      <4>1. PICK m : woken = {m} /\ m \in first
        BY <1>8, <3>2
      <4>2. m \notin HoldersOf(g) \ {l}
        BY <1>12, <4>1 DEF HoldersOf, Holding
      <4>3. Cardinality((HoldersOf(g) \ {l}) \cup {m}) = Cardinality(HoldersOf(g) \ {l}) + 1
        BY <2>3, <4>2, FS_AddElement
      <4>4. QED
        BY <1>4, <1>10, <1>14, <2>1, <2>3, <2>4, <3>2, <4>1, <4>3
    <3>3. QED
      BY <3>1, <3>2
  <2>6. ASSUME NobodyGaveUp', waiting'[g] # <<>> PROVE busy'[g] = ProviderLimit[g]
    <3>1. q # <<>>
      BY <1>4, <1>8, <1>10, <1>14, <2>6
    <3>2. PICK m : first = {m} /\ m \in Lenses /\ pc[m] \in {"queued", "threw"}
      BY <1>8, <1>11, <3>1
    <3>3. Waits(m)
      BY <1>6, <2>6, <3>2 DEF NobodyGaveUp
    <3>4. woken # {}
      BY <1>8, <3>2, <3>3
    <3>5. busy[g] = ProviderLimit[g]
      BY <1>6, <1>7, <1>8, <1>14, <2>6, <3>1 DEF SlotSound
    <3>6. QED
      BY <1>4, <1>10, <1>14, <3>4, <3>5
  <2>7. SlotSound(g)'
    BY <2>5, <2>6 DEF SlotSound
  <2>8. QueueSound(g)'
    <3>1. CASE q = <<>>
      <4>1. waiting'[g] = q
        BY <1>4, <1>8, <1>10, <1>14, <3>1
      <4>2. QED
        BY <3>1, <4>1 DEF QueueSound
    <3>2. CASE q # <<>>
      <4>1. PICK t : t = Tail(q)
        OBVIOUS
      <4>2. waiting'[g] = t
        BY <1>4, <1>8, <1>10, <1>14, <3>2, <4>1
      <4>3. /\ \A i \in 1..Len(t) : t[i] = q[i + 1] /\ i + 1 \in 1..Len(q) /\ i + 1 # 1
            /\ 1 \in 1..Len(q) /\ Head(q) = q[1]
        BY <1>9, <3>2, <4>1
      <4>4. \A m \in Lenses : m # q[1] /\ m # l => pc'[m] = pc[m]
        BY <1>8, <1>10, <4>3
      <4>5. ASSUME NEW i \in 1..Len(t)
            PROVE  pc'[t[i]] \in {"queued", "threw"} /\ GroupAt(t[i])' = g
        <5>1. PICK m \in Lenses : m = t[i] /\ m = q[i + 1] /\ m # q[1]
          BY <1>9, <4>3
        <5>2. pc[m] \in {"queued", "threw"} /\ GroupAt(m) = own
          BY <1>9, <4>3, <5>1
        <5>3. pc'[m] = pc[m] /\ GroupAt(m)' = g
          BY <1>2, <1>5, <1>14, <4>4, <5>1, <5>2 DEF Holding
        <5>4. QED
          BY <5>1, <5>2, <5>3
      <4>6. ASSUME NEW i \in 1..Len(t), NEW j \in 1..Len(t), t[i] = t[j]
            PROVE  i = j
        <5>1. i + 1 = j + 1
          BY <1>9, <4>3, <4>6
        <5>2. QED
          BY <5>1
      <4>7. QED
        BY <4>2, <4>5, <4>6 DEF QueueSound
    <3>3. QED
      BY <3>1, <3>2
  <2>9. QED
    BY <2>7, <2>8
<1>15. QED
  BY <1>13, <1>14

LEMMA SlotsInWork ==
  ASSUME LegacyTypeOK, SlotsAreCounted, \A g \in Groups : QueueSound(g),
         NEW l \in Lenses, LensSound(l),
         Resumes(l) \/ Works(l) \/ Answers(l) \/ Timers(l)
  PROVE  SlotsAreCounted' /\ \A g \in Groups : QueueSound(g)'
<1>1. \A g \in Groups : QueueSound(g) /\ SlotSound(g)
  BY SlotsAre
<1>2. pc[l] \notin {"idle", "next", "done", "threw"} => at[l] \in Chained(l)
  BY BeforeMove
<1>3. SlotsSame => \A g \in Groups : QueueSound(g)' /\ SlotSound(g)'
  BY <1>1, SameSlots
<1>4. TookSlot(l) => \A g \in Groups : QueueSound(g)' /\ SlotSound(g)'
  BY <1>1, <1>2, SlotTaken DEF TookSlot
<1>5. Queued(l) => \A g \in Groups : QueueSound(g)' /\ SlotSound(g)'
  BY <1>1, <1>2, SlotAwaited DEF Queued
<1>6. GaveBack(l) => \A g \in Groups : QueueSound(g)' /\ SlotSound(g)'
  BY <1>1, <1>2, SlotGivenBack DEF GaveBack, Holding
<1>7. SlotsSame \/ TookSlot(l) \/ Queued(l) \/ GaveBack(l)
  BY WorkerSlots
<1>8. \A g \in Groups : QueueSound(g)' /\ SlotSound(g)'
  BY <1>3, <1>4, <1>5, <1>6, <1>7
<1>9. QED
  BY <1>8 DEF SlotsAreCounted, SlotSound, HoldersOf, NobodyGaveUp, Holding

LEMMA SlotsInRun ==
  ASSUME LegacyTypeOK, SlotsAreCounted, \A g \in Groups : QueueSound(g),
         \/ Start \/ Complete \/ Reject \/ Interrupt \/ OutputFails
         \/ (\E r \in Reviewers : CancelOpen(r)) \/ \E g \in Groups : Cooldown(g)
  PROVE  SlotsAreCounted' /\ \A g \in Groups : QueueSound(g)'
<1>1. UNCHANGED <<busy, waiting, pc, at>> /\ \A l \in Lenses : cut[l] => cut'[l]
  BY
    DEF Start, Complete, Reject, Interrupt, OutputFails, CancelOpen, Cooldown, semaphore, work,
         timer
<1>2. SlotsSame
  BY <1>1 DEF SlotsSame, GaveUpStays
<1>3. \A g \in Groups : QueueSound(g) /\ SlotSound(g)
  BY SlotsAre
<1>4. \A g \in Groups : QueueSound(g)' /\ SlotSound(g)'
  BY <1>2, <1>3, SameSlots
<1>5. QED
  BY <1>4 DEF SlotsAreCounted, SlotSound, HoldersOf, NobodyGaveUp, Holding

----------------------------------------------------------------------------
(* The invariant.                                                          *)

LEMMA RunTypes ==
  ASSUME LegacyTypeOK,
         \/ Start \/ Complete \/ Reject \/ Interrupt \/ OutputFails
         \/ (\E r \in Reviewers : CancelOpen(r)) \/ \E g \in Groups : Cooldown(g)
  PROVE  LegacyTypeOK'
<1>1. CASE Start
  BY <1>1 DEF Start, Tell, LegacyTypeOK, Statuses, Terminal, work, timer, semaphore
<1>2. CASE Complete
  BY <1>2 DEF Complete, RunRejects, Kept, LegacyTypeOK, work, timer, semaphore
<1>3. CASE Reject
  BY <1>3 DEF Reject, RunRejects, Kept, Active, LegacyTypeOK, work, semaphore
<1>4. CASE Interrupt
  BY <1>4 DEF Interrupt, Active, LegacyTypeOK, roster, work, semaphore
<1>5. CASE OutputFails
  BY <1>5 DEF OutputFails, LegacyTypeOK, roster, work, timer, semaphore
<1>6. CASE \E r \in Reviewers : CancelOpen(r)
  BY <1>6
    DEF CancelOpen, Tell, RunRejects, Kept, LegacyTypeOK, Statuses, Terminal, work, timer,
              semaphore
<1>7. CASE \E g \in Groups : Cooldown(g)
  BY <1>7 DEF Cooldown, LegacyTypeOK, world, roster, work, timer, semaphore
<1>8. QED
  BY <1>1, <1>2, <1>3, <1>4, <1>5, <1>6, <1>7

LEMMA LegacyStart == Init => LegacyInv
<1> SUFFICES ASSUME Init PROVE LegacyInv
  OBVIOUS
<1>1. LegacyTypeOK
  BY DEF Init, LegacyTypeOK, Statuses, Terminal, Places
<1>2. ASSUME NEW l \in Lenses PROVE LensSound(l)
  <2>1. /\ Range(Chain[l]) \subseteq Reviewers /\ \A i \in Chained(l) : i \in Nat \ {0}
        /\ \A i \in Chained(l) : Chain[l][i] \in Range(Chain[l])
    BY ChainIs, InChain
  <2>2. /\ pc[l] = "idle" /\ at[l] = 1 /\ run = "starting" /\ passes[l] = <<>>
        /\ pending[l] = NoOne
        /\ \A r \in Range(Chain[l]) :
             /\ r \in Open /\ status[r] # "completed" /\ told[r] = 0 /\ source[r] = NoOne
    BY <2>1 DEF Init, Open, Terminal
  <2>3. \A r \in Range(Chain[l]) : ReviewerSound(l, r)
    BY <2>2 DEF ReviewerSound
  <2>4. WorkerSound(l)
    BY <2>1, <2>2 DEF WorkerSound, Under
  <2>5. CompletedOf(l) = {} /\ Counted(l) = {}
    BY <2>2 DEF CompletedOf, Counted, Clean
  <2>6. ~QuorumMet(l, <<>>)
    <3>1. PassQuorum[l] \in Nat \ {0} /\ Len(<<>>) = 0
      BY LegacyPolicyAssumption
    <3>2. QED
      BY <3>1 DEF QuorumMet
  <2>7. Cardinality({}) = 0 /\ Len(<<>>) = 0 /\ Range(<<>>) = {}
    BY FS_EmptySet DEF Range
  <2>8. DecisionSound(l)
    BY <2>2, <2>5, <2>6, <2>7 DEF DecisionSound
  <2>9. QED
    BY <2>3, <2>4, <2>8 DEF LensSound
<1>3. StorageSound /\ RunSound
  BY DEF Init, StorageSound, RunSound
<1>4. ASSUME NEW g \in Groups PROVE QueueSound(g) /\ SlotSound(g)
  <2>1. waiting[g] = <<>> /\ busy[g] = 0 /\ Len(<<>>) = 0
    BY DEF Init
  <2>2. HoldersOf(g) = {} /\ Cardinality({}) = 0
    BY FS_EmptySet DEF Init, HoldersOf, Holding
  <2>3. ProviderLimit[g] \in Nat
    BY LegacyLimitAssumption
  <2>4. QED
    BY <2>1, <2>2, <2>3 DEF QueueSound, SlotSound
<1>5. SlotsAreCounted
  BY <1>4, SlotsAre
<1>6. QED
  BY <1>1, <1>2, <1>3, <1>4, <1>5 DEF LegacyInv

LEMMA LegacyStep == LegacyInv /\ [Next]_vars => LegacyInv'
<1> SUFFICES ASSUME LegacyInv, [Next]_vars PROVE LegacyInv'
  OBVIOUS
<1>1. /\ LegacyTypeOK /\ (\A l \in Lenses : LensSound(l)) /\ StorageSound /\ RunSound
      /\ (\A g \in Groups : QueueSound(g)) /\ SlotsAreCounted
  BY DEF LegacyInv
<1>2. ASSUME NEW l \in Lenses, Resumes(l) \/ Works(l) \/ Answers(l) \/ Timers(l)
      PROVE  LegacyInv'
  <2>1. Placed(l)
    BY <1>1 DEF Placed, LensSound, WorkerSound
  <2>2. LegacyTypeOK'
    BY <1>1, <1>2, <2>1, WorkerTypes
  <2>3. \A m \in Lenses : LensSound(m)'
    BY <1>1, <1>2, WorkersKeepLenses
  <2>4. StorageSound' /\ RunSound'
    BY <1>1, <1>2, PagesInWork, RunInWork
  <2>5. SlotsAreCounted' /\ \A g \in Groups : QueueSound(g)'
    BY <1>1, <1>2, SlotsInWork
  <2>6. QED
    BY <2>2, <2>3, <2>4, <2>5 DEF LegacyInv, Lenses, Groups, Reviewers
<1>3. ASSUME \/ Start \/ Complete \/ Reject \/ Interrupt \/ OutputFails
             \/ (\E r \in Reviewers : CancelOpen(r)) \/ \E g \in Groups : Cooldown(g)
      PROVE  LegacyInv'
  <2>1. LegacyTypeOK'
    BY <1>1, <1>3, RunTypes
  <2>2. \A l \in Lenses : LensSound(l)'
    <3>1. CASE Start
      BY <1>1, <3>1, StartKeepsLenses
    <3>2. CASE \E r \in Reviewers : CancelOpen(r)
      BY <1>1, <3>2, CancelKeepsLenses
    <3>3. CASE Complete \/ Reject \/ Interrupt \/ OutputFails \/ \E g \in Groups : Cooldown(g)
      BY <1>1, <3>3, RunIsApart, ApartIsSound
    <3>4. QED
      BY <1>3, <3>1, <3>2, <3>3
  <2>3. StorageSound' /\ RunSound'
    BY <1>1, <1>3, PagesInRun, RunInRun
  <2>4. SlotsAreCounted' /\ \A g \in Groups : QueueSound(g)'
    BY <1>1, <1>3, SlotsInRun
  <2>5. QED
    BY <2>1, <2>2, <2>3, <2>4 DEF LegacyInv, Lenses, Groups, Reviewers
<1>4. CASE UNCHANGED vars
  <2>1. /\ UNCHANGED <<scope, run, exit, interrupted, usable, status, verdict, source, told,
                       storage, pc, at, passes, pending, cut, busy, waiting>>
    BY <1>4 DEF vars, world, roster, work, timer, semaphore
  <2>2. LegacyTypeOK'
    BY <1>1, <2>1 DEF LegacyTypeOK
  <2>3. \A l \in Lenses : LensSound(l)'
    BY <1>1, <2>1, ApartIsSound DEF Apart
  <2>4. StorageSound'
    BY <1>1, <2>1 DEF StorageSound
  <2>5. RunSound'
    <3>1. ExitCode' = ExitCode
      BY <2>1
        DEF ExitCode, Incomplete, Standing, Unjudged, Clean, Resolved, CompletedOf, Judges,
                  Reviewing, Deciding
    <3>2. AllDone' = AllDone
      BY <2>1 DEF AllDone
    <3>3. QED
      BY <1>1, <2>1, <3>1, <3>2 DEF RunSound
  <2>6. SlotsSame
    BY <2>1 DEF SlotsSame, GaveUpStays
  <2>7. \A g \in Groups : QueueSound(g)' /\ SlotSound(g)'
    BY <1>1, <2>6, SameSlots, SlotsAre
  <2>8. SlotsAreCounted'
    BY <2>7 DEF SlotsAreCounted, SlotSound, HoldersOf, NobodyGaveUp, Holding
  <2>9. QED
    BY <2>2, <2>3, <2>4, <2>5, <2>7, <2>8 DEF LegacyInv, Lenses, Groups, Reviewers
<1>5. CASE Next
  BY <1>2, <1>3, <1>5 DEF Next
<1>6. QED
  BY <1>4, <1>5

----------------------------------------------------------------------------
(* What the runs check.                                                    *)

\* An exit code of zero, read backwards: nobody interrupted, no lens is short of
\* a decision, and no finding stands.
LEMMA ZeroMeans ==
  ASSUME ExitCode = 0, NEW l \in Lenses
  PROVE  ~interrupted /\ ~Incomplete(l) /\ Standing(l) = {}
BY DEF ExitCode

LEMMA SoundIsEarned == LegacyInv => EndsAreEarned
<1> SUFFICES ASSUME LegacyInv PROVE EndsAreEarned
  OBVIOUS
<1>1. LegacyTypeOK /\ (\A l \in Lenses : LensSound(l)) /\ RunSound
  BY DEF LegacyInv
<1>2. \A l \in Lenses : \A r \in Range(Chain[l]) : \E i \in Chained(l) : r = Chain[l][i]
  BY PlaceOf
<1>3. EndsAreToldOnce
  <2>1. ASSUME NEW r \in Reviewers
        PROVE  told[r] <= 1 /\ (told[r] = 1 => status[r] \in Terminal)
    <3>1. PICK l \in Lenses : r \in Range(Chain[l])
      BY EveryReviewer
    <3>2. ReviewerSound(l, r)
      BY <1>1, <3>1 DEF LensSound
    <3>3. QED
      BY <3>2 DEF ReviewerSound, Open
  <2>2. run = "completed" => \A r \in Reviewers : told[r] = 1
    BY <1>1 DEF RunSound
  <2>3. QED
    BY <2>1, <2>2 DEF EndsAreToldOnce
<1>4. ASSUME run = "completed", exit = 0, NEW l \in Lenses, scope[l] = "runs"
      PROVE  LET done == {r \in Range(Chain[l]) : status[r] = "completed"}
                 judges == {a \in done : source[a] # NoOne}
                 clean == {r \in done \ judges : verdict[r] = "clean"} IN
             /\ \A r \in done : verdict[r] = "gate" =>
                  \E a \in judges : /\ source[a] = r /\ Group[a] # Group[r]
                                    /\ verdict[a] \in {"refuted", "unproven"}
             /\ judges = {} => /\ Cardinality(clean) >= PassQuorum[l]
                               /\ Cardinality({Group[r] : r \in clean}) >= MinGroups[l]
  <2>1. PICK done, judges, clean :
          /\ done = {r \in Range(Chain[l]) : status[r] = "completed"}
          /\ judges = {a \in done : source[a] # NoOne}
          /\ clean = {r \in done \ judges : verdict[r] = "clean"}
    OBVIOUS
  <2>2. ~interrupted /\ ~Incomplete(l) /\ Standing(l) = {} /\ AllDone
    BY <1>1, <1>4, ZeroMeans DEF RunSound
  <2>3. /\ LensSound(l) /\ WorkerSound(l) /\ DecisionSound(l)
        /\ \A r \in Range(Chain[l]) : ReviewerSound(l, r)
    BY <1>1 DEF LensSound
  <2>4. pc[l] = "done"
    BY <1>4, <2>2 DEF AllDone
  <2>5. CompletedOf(l) = done /\ done \subseteq Range(Chain[l]) /\ Clean(l) = clean
    BY <2>1 DEF CompletedOf, Clean, Reviewing
  <2>6. Counted(l) = clean
    BY <2>4, <2>5 DEF Counted, Unrecorded
  <2>7. /\ Cardinality(clean) = Len(passes[l])
        /\ {Group[r] : r \in clean} = Range(passes[l])
    BY <2>3, <2>4, <2>6 DEF DecisionSound
  <2>8. ASSUME NEW r \in done, verdict[r] = "gate"
        PROVE  \E a \in judges : /\ source[a] = r /\ Group[a] # Group[r]
                                 /\ verdict[a] \in {"refuted", "unproven"}
    <3>1. PICK a \in Judges(r) : verdict[a] # "upheld"
      BY <2>2, <2>5, <2>8 DEF Standing
    <3>2. a \in Reviewers /\ status[a] = "completed" /\ source[a] = r
      BY <3>1 DEF Judges
    <3>3. PICK m \in Lenses : a \in Range(Chain[m])
      BY <3>2, EveryReviewer
    <3>4. ReviewerSound(m, a) /\ WorkerSound(m) /\ DecisionSound(m)
      BY <1>1, <3>3 DEF LensSound
    <3>5. r \in Reviewers /\ r # NoOne /\ r \in Range(Chain[l])
      BY <2>5, <2>8, ChainIs, EveryReviewer
    <3>6. r \in Range(Chain[m]) /\ Group[r] # Group[a] /\ verdict[a] \in Rulings
      BY <3>2, <3>4, <3>5 DEF ReviewerSound
    <3>7. m = l
      BY <3>5, <3>6, ChainsApart
    <3>8. a \in judges
      BY <2>1, <3>2, <3>3, <3>5, <3>7
    <3>9. verdict[a] # "undecided"
      <4>1. Resolved(l)
        <5>1. PICK i \in Chained(l) : a = Chain[l][i]
          BY <1>2, <3>3, <3>7
        <5>2. a \in CompletedOf(l) /\ Deciding(a)
          BY <2>5, <3>8, <2>1 DEF Deciding
        <5>3. ~QuorumMet(l, passes[l])
          BY <2>3, <5>1, <5>2 DEF DecisionSound
        <5>4. ~(/\ Cardinality(Clean(l)) >= PassQuorum[l]
                /\ Cardinality({Group[x] : x \in Clean(l)}) >= MinGroups[l])
          BY <2>5, <2>7, <5>3 DEF QuorumMet
        <5>5. QED
          BY <1>4, <2>2, <5>4 DEF Incomplete
      <4>2. PICK b \in CompletedOf(l) : Deciding(b) /\ verdict[b] # "undecided"
        BY <4>1 DEF Resolved
      <4>3. a \in Range(Chain[l]) /\ b \in Range(Chain[l])
        BY <2>5, <3>3, <3>7, <4>2
      <4>4. PICK i \in Chained(l) : a = Chain[l][i]
        BY <1>2, <4>3
      <4>5. PICK j \in Chained(l) : b = Chain[l][j]
        BY <1>2, <4>3
      <4>6. a \in CompletedOf(l) /\ Deciding(a)
        BY <2>1, <2>5, <3>8 DEF Deciding
      <4>7. i = at[l] /\ j = at[l]
        BY <2>3, <4>2, <4>6, <4>4, <4>5 DEF DecisionSound
      <4>8. QED
        BY <4>2, <4>7, <4>4, <4>5
    <3>10. QED
      BY <3>1, <3>2, <3>6, <3>8, <3>9 DEF Rulings
  <2>9. ASSUME judges = {}
        PROVE  /\ Cardinality(clean) >= PassQuorum[l]
               /\ Cardinality({Group[r] : r \in clean}) >= MinGroups[l]
    <3>1. ~Resolved(l)
      BY <2>1, <2>5, <2>9 DEF Resolved, Deciding
    <3>2. QED
      BY <1>4, <2>2, <2>5, <3>1 DEF Incomplete
  <2>10. QED
    BY <2>1, <2>8, <2>9
<1>5. CleanExitIsEarned
  BY <1>4 DEF CleanExitIsEarned
<1>6. QED
  BY <1>3, <1>5 DEF EndsAreEarned

LEMMA SoundIsKept == LegacyInv => NothingIsStranded
<1> SUFFICES ASSUME LegacyInv PROVE NothingIsStranded
  OBVIOUS
<1>1. StorageSound /\ RunSound /\ SlotsAreCounted /\ LegacyTypeOK
  BY DEF LegacyInv
<1>2. (\E l \in Lenses : pc[l] = "threw") => ~AllDone
  BY DEF AllDone
<1>3. ASSUME NEW r \in Reviewers
      PROVE  /\ storage[r] = "kept" => status[r] = "completed" /\ run # "completed"
             /\ status[r] = "completed" =>
                  storage[r] = CASE run = "completed" -> "released"
                                 [] run = "rejected" -> (IF storage[r] = "kept" /\ ~AllDone
                                                         THEN "kept" ELSE "abandoned")
                                 [] OTHER -> "kept"
  <2>1. run \in {"starting", "reviewing", "completed", "rejected"}
    BY <1>1 DEF LegacyTypeOK
  <2>2. /\ storage[r] = "kept" => status[r] = "completed"
        /\ status[r] = "completed" =>
             /\ run = "completed" => storage[r] = "released"
             /\ run = "rejected" => storage[r] = "abandoned" \/ (storage[r] = "kept" /\ ~AllDone)
             /\ run \notin {"completed", "rejected"} => storage[r] = "kept"
    BY <1>1, <1>2, <2>1 DEF StorageSound
  <2>3. QED
    BY <2>1, <2>2
<1>4. StorageFollowsRun
  BY <1>3 DEF StorageFollowsRun
<1>5. QED
  BY <1>1, <1>4 DEF NothingIsStranded

\* The invariant of the legacy run: what a lens's worker, the roster, the run, the
\* pages and the semaphores know of each other (run-review.ts).
THEOREM LegacyInvariant == Spec => []LegacyInv
<1>1. Init => LegacyInv
  BY LegacyStart
<1>2. LegacyInv /\ [Next]_vars => LegacyInv'
  BY LegacyStep
<1>3. QED
  BY <1>1, <1>2, PTL DEF Spec

\* Every end is told once, and exit code 0 is earned in every lens that ran, for any
\* roster, policy and limits (finalizeResult, finalizeIncomplete, aggregateRun).
THEOREM EndsStayEarned == Spec => []EndsAreEarned
<1>1. LegacyInv => EndsAreEarned
  BY SoundIsEarned
<1>2. QED
  BY <1>1, LegacyInvariant, PTL

\* Pages and slots are given back, for any roster, policy and limits
\* (persistedResultStorage, Semaphore).
THEOREM NothingStaysStranded == Spec => []NothingIsStranded
<1>1. LegacyInv => NothingIsStranded
  BY SoundIsKept
<1>2. QED
  BY <1>1, LegacyInvariant, PTL

=============================================================================
