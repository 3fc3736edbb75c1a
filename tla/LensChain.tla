----------------------------- MODULE LensChain -----------------------------
(***************************************************************************)
(* How a command-adapter run reaches its verdict                           *)
(* (src/src/orchestrator/run-v9.ts): one chain per lens runs the lens's    *)
(* reviewers in order until a pass quorum, a finding or an adjudication    *)
(* decides the lens; the run's coverage and exit code follow from the      *)
(* lenses; a retry (src/src/diagnostics/retry-v9.ts) inherits what the     *)
(* parent run completed and runs the rest.                                 *)
(*                                                                         *)
(* Chains run concurrently and share the abort of the run.  What happens   *)
(* inside one reviewer's execution is the subject of ProviderAdmission;    *)
(* here it ends with a result or incomplete.                               *)
(***************************************************************************)
EXTENDS Naturals, FiniteSets

CONSTANTS
  Lenses,
  Count,           \* number of reviewers of a lens, in configured order
  GroupOf,         \* GroupOf[l][i]: provider group of a reviewer
  PassQuorum,      \* passQuorum of a lens
  MinGroups,       \* minimumProviderGroups of a lens
  Adjudicated,     \* the lens requires adjudication of findings
  MaxRuns          \* bound: the first run and its retries

ASSUME CountAssumption == Count \in [Lenses -> Nat \ {0}]
ASSUME PolicyAssumption ==
  /\ PassQuorum \in [Lenses -> Nat \ {0}]
  /\ MinGroups \in [Lenses -> Nat \ {0}]
  /\ Adjudicated \in [Lenses -> BOOLEAN]
ASSUME RunsAssumption == MaxRuns \in Nat \ {0}

VARIABLES
  kind,          \* required input missing, irrelevant to the change, or neither
  runs,          \* runs so far
  inherited,     \* reviewers whose result a retry takes over
  status,        \* job.status (of an inherited reviewer: "completed")
  result,        \* job.result: its schema version and verdict
  at,            \* position of the chain: 0 before it, Count + 1 after it
  source,        \* position of the finding to adjudicate, or 0
  passes,        \* the reviewers counted as passes
  lensState,     \* lensStates
  unreachable,   \* unreachableLenses
  cancelled, deadline,    \* why controller.signal is aborted
  expired,       \* now() >= job.lensDeadline
  outcome        \* the summary of an ended run

chain == <<at, source, passes, lensState, unreachable>>
jobs == <<status, result>>
stop == <<cancelled, deadline, expired>>
vars == <<kind, runs, inherited, chain, jobs, stop, outcome>>

Members(l) == 1..Count[l]
End(l) == Count[l] + 1

Kinds == {"evaluated", "missing_input", "irrelevant"}
Results == {"none", "pass4", "fail4", "pass2", "fail2"}
Passing == {"pass4", "pass2"}
Failing == {"fail4", "fail2"}

Open == [exit |-> "open", coverage |-> "none"]

Aborted == cancelled \/ deadline

\* The first reviewer after i that is not inherited.
Following(l, i) ==
  CHOOSE j \in (i + 1)..End(l) :
    /\ j = End(l) \/ j \notin inherited[l]
    /\ \A k \in (i + 1)..(j - 1) : k \in inherited[l]

-----------------------------------------------------------------------------
(* evaluatePassQuorum and evaluateRemainingQuorum.                         *)

Groups(l, S) == {GroupOf[l][i] : i \in S}

\* Mutant: passes of one provider count as several.
Satisfied_AnyGroup(l, S) == Cardinality(S) >= PassQuorum[l]

Satisfied(l, S) ==
  /\ Cardinality(S) >= PassQuorum[l]
  /\ Cardinality(Groups(l, S)) >= MinGroups[l]

\* Mutant: the next reviewer is not counted as remaining.
Reachable_OffByOne(l, S, i) ==
  Satisfied(l, S \cup {j \in Members(l) \ inherited[l] : j > i + 1})

\* What the quorum could still become if every remaining reviewer passed.
Reachable(l, S, i) == Satisfied(l, S \cup {j \in Members(l) \ inherited[l] : j > i})

-----------------------------------------------------------------------------
FreshLens(f) == [l \in Lenses |-> [i \in Members(l) |-> f]]

Init ==
  /\ kind \in [Lenses -> Kinds]
  /\ runs = 1
  /\ inherited = [l \in Lenses |-> {}]
  /\ status = FreshLens("queued")
  /\ result = FreshLens("none")
  /\ at = [l \in Lenses |-> 0]
  /\ source = [l \in Lenses |-> 0]
  /\ passes = [l \in Lenses |-> {}]
  /\ lensState = [l \in Lenses |-> "none"]
  /\ unreachable = {}
  /\ cancelled = FALSE /\ deadline = FALSE
  /\ expired = [l \in Lenses |-> FALSE]
  /\ outcome = Open

\* skip() for every reviewer of the chain behind position i.
SkipBehind(l, i, done) ==
  [status EXCEPT ![l] =
     [j \in Members(l) |-> IF j > i /\ j \notin inherited[l] THEN "skipped"
                           ELSE done[j]]]

\* Mutant: the chain goes on after the decision.
Decide_GoesOn(l, i, state, done) ==
  /\ lensState' = [lensState EXCEPT ![l] = state]
  /\ status' = [status EXCEPT ![l] = done]
  /\ at' = [at EXCEPT ![l] = Following(l, i)]

\* The lens is decided: its state is set and the rest of its chain skipped.
Decide(l, i, state, done) ==
  /\ lensState' = [lensState EXCEPT ![l] = state]
  /\ status' = SkipBehind(l, i, done)
  /\ at' = [at EXCEPT ![l] = End(l)]

\* Mutants: a confirmed adjudication is not final; an inherited finding that
\* awaits adjudication is forgotten.
FinalFindings_Reviews(l) ==
  {i \in inherited[l] : result[l][i] = "fail4" /\ ~Adjudicated[l]}

OpenFindings_None(l) == {}

\* The inherited findings that need no adjudication: a finding of a lens that
\* requires none, or an adjudicator's.
FinalFindings(l) ==
  {i \in inherited[l] :
     \/ result[l][i] = "fail2"
     \/ result[l][i] = "fail4" /\ ~Adjudicated[l]}

OpenFindings(l) ==
  {i \in inherited[l] : result[l][i] = "fail4" /\ Adjudicated[l]}

InheritedPasses(l) == {i \in inherited[l] : result[l][i] \in Passing}

LastOf(S) == IF S = {} THEN 0 ELSE CHOOSE i \in S : \A j \in S : j <= i

\* The beginning of a chain: applicability, then what is inherited.
StartLens(l) ==
  LET pending == LastOf(OpenFindings(l))
  IN /\ outcome = Open
     /\ at[l] = 0
     /\ \/ /\ kind[l] = "missing_input"
           /\ Decide(l, 0, "not_evaluated", status[l])
           /\ UNCHANGED <<source, passes>>
        \/ /\ kind[l] = "irrelevant"
           /\ Decide(l, 0, "not_applicable", status[l])
           /\ UNCHANGED <<source, passes>>
        \/ /\ kind[l] = "evaluated"
           /\ passes' = [passes EXCEPT ![l] = InheritedPasses(l)]
           /\ IF FinalFindings(l) # {}
                THEN /\ Decide(l, 0, "findings", status[l])
                     /\ UNCHANGED source
                ELSE /\ source' = [source EXCEPT ![l] = pending]
                     /\ IF pending = 0 /\ Satisfied(l, InheritedPasses(l))
                          THEN Decide(l, 0, "passed", status[l])
                          ELSE /\ lensState' = [lensState EXCEPT ![l] = "incomplete"]
                               /\ at' = [at EXCEPT ![l] = Following(l, 0)]
                               /\ UNCHANGED status
     /\ UNCHANGED <<kind, runs, inherited, unreachable, result, stop, outcome>>

Stopped(l) == Aborted \/ expired[l]

\* Mutant: a skipped reviewer ends the turn of the chain for good.
Reach_Stays(l) ==
  LET i == at[l]
  IN /\ i \in Members(l)
     /\ status[l][i] = "queued"
     /\ status' = [status EXCEPT ![l][i] = IF Stopped(l) THEN "skipped" ELSE "running"]
     /\ UNCHANGED <<kind, runs, inherited, chain, result, stop, outcome>>

\* The chain reaches a reviewer: skipped when the run is aborted or the lens's
\* deadline has passed, executed otherwise.
Reach(l) ==
  LET i == at[l]
  IN /\ i \in Members(l)
     /\ status[l][i] = "queued"
     /\ IF Stopped(l)
          THEN /\ status' = [status EXCEPT ![l][i] = "skipped"]
               /\ at' = [at EXCEPT ![l] = Following(l, i)]
          ELSE /\ status' = [status EXCEPT ![l][i] = "running"]
               /\ UNCHANGED at
     /\ UNCHANGED <<kind, runs, inherited, source, passes, lensState,
                    unreachable, result, stop, outcome>>

Running(l) == at[l] \in Members(l) /\ status[l][at[l]] = "running"

\* A reviewer is executed to its end: with a finding to adjudicate it returns
\* an adjudication (schema version 2), else a review (version 4).
Completes(l, verdict) ==
  LET i == at[l]
      r == IF source[l] # 0
             THEN IF verdict = "fail" THEN "fail2" ELSE "pass2"
             ELSE IF verdict = "fail" THEN "fail4" ELSE "pass4"
      done == [status[l] EXCEPT ![i] = "completed"]
      counted == passes[l] \cup {i}
      goesOn == /\ at' = [at EXCEPT ![l] = Following(l, i)]
                /\ status' = [status EXCEPT ![l] = done]
                /\ UNCHANGED lensState
  IN /\ Running(l)
     /\ result' = [result EXCEPT ![l][i] = r]
     /\ \/ /\ source[l] # 0
           /\ Decide(l, i, IF r = "fail2" THEN "findings" ELSE "passed", done)
           /\ UNCHANGED <<source, passes>>
        \/ /\ source[l] = 0 /\ r = "fail4" /\ Adjudicated[l]
           /\ source' = [source EXCEPT ![l] = i]
           /\ goesOn
           /\ UNCHANGED passes
        \/ /\ source[l] = 0 /\ r = "fail4" /\ ~Adjudicated[l]
           /\ Decide(l, i, "findings", done)
           /\ UNCHANGED <<source, passes>>
        \/ /\ source[l] = 0 /\ r = "pass4"
           /\ passes' = [passes EXCEPT ![l] = counted]
           /\ IF Satisfied(l, counted) THEN Decide(l, i, "passed", done)
                                       ELSE goesOn
           /\ UNCHANGED source
     /\ UNCHANGED <<kind, runs, inherited, unreachable, stop, outcome>>

\* What an incomplete reviewer leaves behind: nothing, or a recorded result
\* with unread changes, or with an adjudication that misses a candidate.
Remains(l) ==
  {"none"} \cup IF source[l] # 0 THEN {"pass2", "fail2"} ELSE {"pass4", "fail4"}

\* Mutant: the reviewers behind an infrastructure failure are left as they are.
Fails_LeavesRest(l, fallback, left) ==
  LET i == at[l]
      done == [status[l] EXCEPT ![i] = "incomplete"]
  IN /\ Running(l)
     /\ result' = [result EXCEPT ![l][i] = left]
     /\ unreachable' = IF Reachable(l, passes[l], i) THEN unreachable
                                                     ELSE unreachable \cup {l}
     /\ status' = [status EXCEPT ![l] = done]
     /\ at' = [at EXCEPT ![l] = IF fallback THEN Following(l, i) ELSE End(l)]
     /\ UNCHANGED <<kind, runs, inherited, source, passes, lensState, stop,
                    outcome>>

\* A reviewer ends incomplete.  Unless its failure lets a fallback reviewer
\* take over, the rest of the chain is skipped.
Fails(l, fallback, left) ==
  LET i == at[l]
      done == [status[l] EXCEPT ![i] = "incomplete"]
  IN /\ Running(l)
     /\ result' = [result EXCEPT ![l][i] = left]
     /\ unreachable' = IF Reachable(l, passes[l], i) THEN unreachable
                                                     ELSE unreachable \cup {l}
     /\ IF fallback
          THEN /\ status' = [status EXCEPT ![l] = done]
               /\ at' = [at EXCEPT ![l] = Following(l, i)]
          ELSE /\ status' = SkipBehind(l, i, done)
               /\ at' = [at EXCEPT ![l] = End(l)]
     /\ UNCHANGED <<kind, runs, inherited, source, passes, lensState, stop,
                    outcome>>

-----------------------------------------------------------------------------
Cancel ==
  /\ outcome = Open /\ ~cancelled
  /\ cancelled' = TRUE
  /\ UNCHANGED <<kind, runs, inherited, chain, jobs, deadline, expired, outcome>>

RunDeadline ==
  /\ outcome = Open /\ ~deadline
  /\ deadline' = TRUE
  /\ UNCHANGED <<kind, runs, inherited, chain, jobs, cancelled, expired, outcome>>

LensDeadline(l) ==
  /\ outcome = Open /\ ~expired[l]
  /\ at[l] # End(l)
  /\ expired' = [expired EXCEPT ![l] = TRUE]
  /\ UNCHANGED <<kind, runs, inherited, chain, jobs, cancelled, deadline, outcome>>

\* A finding some reviewer of the run or of its parent recorded.
SomeFinding == \E l \in Lenses : \E i \in Members(l) : result[l][i] = "fail4"

\* Mutant: only lenses without their input count as not covered.
Partial_NotEvaluated == \E l \in Lenses : lensState[l] = "not_evaluated"

Partial == \E l \in Lenses : lensState[l] \in {"incomplete", "not_evaluated"}

\* All chains have ended: the summary.  Which findings gate is decided by the
\* canonicalisation of findings; here any recorded finding may.
Summarise ==
  /\ outcome = Open
  /\ \A l \in Lenses : at[l] = End(l)
  /\ \E gate \in BOOLEAN :
       /\ gate => SomeFinding
       /\ outcome' = [exit |-> IF cancelled THEN "cancelled"
                               ELSE IF Partial THEN "inconclusive"
                               ELSE IF gate THEN "findings" ELSE "clear",
                      coverage |-> IF Partial THEN "partial" ELSE "complete"]
  /\ UNCHANGED <<kind, runs, inherited, chain, jobs, stop>>

\* Lenses of the parent a retry must select.
ParentIncomplete ==
  {l \in Lenses : \/ kind[l] = "missing_input"
                  \/ \E i \in Members(l) : status[l][i] = "incomplete"}

\* A retry of the ended run.  It inherits every completed reviewer, of every
\* lens, when scope and policies are the parent's; otherwise nothing.
Retry(selected, exact) ==
  /\ outcome # Open
  /\ runs < MaxRuns
  /\ selected # {}
  /\ exact => ParentIncomplete \subseteq selected
  /\ runs' = runs + 1
  /\ LET kept(l) == IF exact THEN {i \in Members(l) : status[l][i] = "completed"}
                             ELSE {}
     IN /\ inherited' = [l \in Lenses |-> kept(l)]
        /\ status' = [l \in Lenses |-> [i \in Members(l) |->
                        IF i \in kept(l) THEN "completed" ELSE "queued"]]
        /\ result' = [l \in Lenses |-> [i \in Members(l) |->
                        IF i \in kept(l) THEN result[l][i] ELSE "none"]]
  /\ at' = [l \in Lenses |-> 0]
  /\ source' = [l \in Lenses |-> 0]
  /\ passes' = [l \in Lenses |-> {}]
  /\ lensState' = [l \in Lenses |-> "none"]
  /\ unreachable' = {}
  /\ cancelled' = FALSE /\ deadline' = FALSE
  /\ expired' = [l \in Lenses |-> FALSE]
  /\ outcome' = Open
  /\ IF exact THEN UNCHANGED kind ELSE kind' \in [Lenses -> Kinds]

Step(l) ==
  \/ StartLens(l)
  \/ Reach(l)
  \/ \E verdict \in {"pass", "fail"} : Completes(l, verdict)
  \/ \E fallback \in BOOLEAN, left \in Remains(l) : Fails(l, fallback, left)

Next ==
  \/ \E l \in Lenses : Step(l) \/ LensDeadline(l)
  \/ Cancel \/ RunDeadline
  \/ Summarise
  \/ \E selected \in SUBSET Lenses, exact \in BOOLEAN : Retry(selected, exact)

Spec == Init /\ [][Next]_vars

\* Every execution ends, by its result or by its deadlines; retries, aborts and
\* deadlines are never assumed.
Fairness == WF_vars(Summarise) /\ \A l \in Lenses : WF_vars(Step(l))

FairSpec == Spec /\ Fairness

-----------------------------------------------------------------------------
(* Properties.                                                             *)

LensStates == {"none", "incomplete", "passed", "findings", "not_evaluated",
               "not_applicable"}

\* The values every variable takes.
TypeOK ==
  /\ kind \in [Lenses -> Kinds]
  /\ runs \in 1..MaxRuns
  /\ \A l \in Lenses :
       /\ inherited[l] \subseteq Members(l)
       /\ status[l] \in [Members(l) -> {"queued", "running", "completed",
                                       "incomplete", "skipped"}]
       /\ result[l] \in [Members(l) -> Results]
       /\ at[l] \in 0..End(l)
       /\ source[l] \in 0..Count[l]
       /\ passes[l] \subseteq Members(l)
  /\ lensState \in [Lenses -> LensStates]
  /\ unreachable \subseteq Lenses
  /\ cancelled \in BOOLEAN /\ deadline \in BOOLEAN
  /\ expired \in [Lenses -> BOOLEAN]
  /\ outcome \in
       [exit : {"open", "clear", "findings", "inconclusive", "cancelled"},
        coverage : {"none", "complete", "partial"}]

Completed(l, r) == {i \in Members(l) : status[l][i] = "completed" /\ result[l][i] = r}

\* A quorum: enough passes, among them one of each of enough providers.
Quorum(l, S) ==
  /\ Cardinality(S) >= PassQuorum[l]
  /\ \E T \in SUBSET S :
       /\ Cardinality(T) = MinGroups[l]
       /\ \A i, j \in T : i # j => GroupOf[l][i] # GroupOf[l][j]

\* Independently of the chain's own bookkeeping: enough reviewers of enough
\* provider groups passed and none found anything; or the finding was
\* adjudicated away and no adjudicator confirmed it.
Earned(l) ==
  IF Completed(l, "fail4") = {}
    THEN Quorum(l, Completed(l, "pass4"))
    ELSE /\ Adjudicated[l]
         /\ Completed(l, "pass2") # {}
         /\ Completed(l, "fail2") = {}

FindingStands(l) ==
  \/ Completed(l, "fail2") # {}
  \/ Completed(l, "fail4") # {} /\ ~Adjudicated[l]

\* A lens passes only by an earned quorum or adjudication, over any order of
\* passes, findings, failures and inherited results.
PassedIsEarned == \A l \in Lenses : lensState[l] = "passed" => Earned(l)

\* A run that does not end inconclusive or cancelled has decided every lens that
\* applies: an exit code of 0 or 1 is never the result of a reviewer left out.
ExitIsHonest ==
  outcome.exit \in {"clear", "findings"} =>
    \A l \in Lenses :
      \/ kind[l] = "irrelevant"
      \/ kind[l] = "evaluated" /\ (Earned(l) \/ FindingStands(l))

\* When the run ends, every reviewer has a terminal status, whichever return,
\* break or failure ended its chain.
EveryReviewerAccounted ==
  outcome # Open =>
    \A l \in Lenses : \A i \in Members(l) :
      status[l][i] \in {"completed", "incomplete", "skipped"}

\* docs/releases/v9.4.0.md: lens.quorum_unreachable says that "remaining
\* candidates cannot achieve a clean quorum": none is reached after it.
UnreachableIsTrue ==
  \A l \in unreachable :
    lensState[l] = "passed" => Completed(l, "fail4") # {}

\* A retry keeps what its parent had decided by quorum or by a standing finding.
RetryKeepsVerdict ==
  \A l \in Lenses :
    LET kept(r) == {i \in inherited[l] : result[l][i] = r}
    IN at[l] # 0 /\ kind[l] = "evaluated" =>
         /\ kept("fail4") = {} /\ Quorum(l, kept("pass4")) => lensState[l] = "passed"
         /\ kept("fail2") # {} => lensState[l] = "findings"

\* No reviewer is started for a lens that is already decided by a quorum or a
\* finding.
NoNeedlessReview ==
  [][\A l \in Lenses : \A i \in Members(l) :
       status[l][i] = "queued" /\ status'[l][i] = "running" =>
         /\ ~FindingStands(l)
         /\ Completed(l, "fail4") = {} => ~Quorum(l, Completed(l, "pass4"))]_vars

\* The verdict of a lens is final: later reviewers, aborts and deadlines of the
\* same run do not change it.
VerdictIsFinal ==
  [][\A l \in Lenses :
       lensState[l] \notin {"none", "incomplete"} /\ runs' = runs =>
         lensState'[l] = lensState[l]]_vars

\* A lens passes only for a reason that stands to the end: it was earned, and not
\* behind the announcement that it could not be (evaluatePassQuorum,
\* evaluateRemainingQuorum).
VerdictsAreEarned == PassedIsEarned /\ UnreachableIsTrue

\* The end of a run leaves nothing out: exit codes 0 and 1 decide every lens, and
\* every reviewer has ended (exitCodeFor, the summary of run.completed).
EndIsHonest == TypeOK /\ ExitIsHonest /\ EveryReviewerAccounted

\* A verdict ends its lens: it is not changed by what comes later, and nobody is
\* asked behind it (the chain's breaks, the early returns of a reviewer).
NothingAfterVerdict == VerdictIsFinal /\ NoNeedlessReview

\* Every run ends.
RunsEnd == []<>(outcome # Open)
=============================================================================
