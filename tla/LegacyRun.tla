------------------------------ MODULE LegacyRun ------------------------------
(***************************************************************************)
(* The review engine before protocol 9, kept for compatibility             *)
(* (src/src/orchestrator/run-review.ts, its roster orchestrator/state.ts,  *)
(* and what app-legacy.ts makes of its end).  A few workers take the       *)
(* lenses in their order and lead each through its chain of reviewers:     *)
(* circuit, probe, attempts under a timer and behind the semaphore of the  *)
(* provider group, result, adjudication, quorum.                           *)
(*                                                                         *)
(* An event that cannot be written, and a wait for the semaphore that is   *)
(* cut short, throw out of the worker.  The first worker that throws ends  *)
(* the run; the others go on, unobserved.  What resumes by a promise runs  *)
(* before any timer or callback of the outside: the reviewer a release     *)
(* wakes is admitted before anything else happens.                         *)
(***************************************************************************)
EXTENDS Naturals, FiniteSets, SequencesExt

CONSTANTS
  LensOrder,      \* the lenses, as configured
  Chain,          \* reviewers of a lens in their order
  Group,          \* provider group of a reviewer
  NoOne,          \* no reviewer
  PassQuorum,     \* passQuorum of a lens
  MinGroups,      \* minimumProviderGroups of a lens
  Adjudicated,    \* the lens requires adjudication of findings
  Scopes,         \* possible scopes of a run: what becomes of a lens at its start
  Reported,       \* failures an adapter reports
  MaxAttempts,    \* execution.retry_attempts
  MaxConcurrency, \* execution.max_concurrency
  ProviderLimit,  \* execution.provider_limits of a group
  Threshold       \* execution.circuit_breaker_threshold

Lenses == Range(LensOrder)
Reviewers == UNION {Range(Chain[l]) : l \in Lenses}
Groups == {Group[r] : r \in Reviewers}
Failure == [retry : BOOLEAN, fallback : BOOLEAN, circuit : BOOLEAN]

ASSUME LegacyRosterAssumption ==
  /\ NoOne \notin Reviewers
  /\ LensOrder \in Seq(Lenses)
  /\ \A l \in Lenses :
       Chain[l] \in Seq(Range(Chain[l])) /\ Chain[l] # <<>> /\ IsInjective(Chain[l])
  /\ \A l, m \in Lenses : l # m => Range(Chain[l]) \cap Range(Chain[m]) = {}
ASSUME LegacyPolicyAssumption ==
  /\ PassQuorum \in [Lenses -> Nat \ {0}] /\ MinGroups \in [Lenses -> Nat \ {0}]
  /\ Adjudicated \in [Lenses -> BOOLEAN]
  /\ Scopes \subseteq [Lenses -> {"runs", "not_selected", "not_applicable", "missing"}]
  /\ Reported \subseteq Failure
ASSUME LegacyLimitAssumption ==
  /\ MaxAttempts \in Nat \ {0} /\ MaxConcurrency \in Nat \ {0} /\ Threshold \in Nat \ {0}
  /\ ProviderLimit \in [Groups -> Nat \ {0}]

VARIABLES
  scope,       \* what onlyLensIds and the lens policy make of each lens
  run,         \* runReviewRound: starting, reviewing, completed, rejected
  exit,        \* exit code of run.completed
  interrupted, \* the caller has aborted
  usable,      \* writerUsable
  status,      \* lifecycle of a reviewer
  verdict,     \* what a completed reviewer found or, adjudicating, decided
  source,      \* adjudicatesReviewerId, or NoOne
  skipped,     \* why a reviewer was skipped
  told,        \* terminal events emitted of a reviewer
  storage,     \* the pages behind the result of a reviewer
  pc,          \* where the lens's worker is
  at,          \* position in the chain
  attempt,     \* attempt of the reviewer at that position
  last,        \* lastFailure, and before an attempt's end that of the one before
  passes,      \* cleanPasses
  pending,     \* pendingAdjudication: its source, or NoOne
  expired,     \* the lens deadline has passed
  cut,         \* the attempt's controller is aborted,
  timedOut,    \* and its timer did it
  circuit,     \* circuit breaker of a group
  busy,        \* active slots of a group's semaphore
  waiting      \* and its queue, with those whose wait was cut short

world == <<scope, run, exit, interrupted, usable>>
roster == <<status, verdict, source, skipped, told, storage>>
work == <<at, attempt, last, passes, pending, expired>>
timer == <<cut, timedOut>>
semaphore == <<busy, waiting>>
vars == <<world, roster, pc, work, timer, circuit, semaphore>>

None == [retry |-> FALSE, fallback |-> FALSE, circuit |-> FALSE, none |-> TRUE]
Failed(retry, fallback, breaks) ==
  [retry |-> retry, fallback |-> fallback, circuit |-> breaks]
Timeout == Failed(TRUE, TRUE, TRUE)
Crash == Failed(FALSE, TRUE, TRUE)
Violation == Failed(FALSE, TRUE, FALSE)
Lost == Failed(FALSE, FALSE, FALSE)
Cancelled == Failed(FALSE, FALSE, FALSE)

Terminal == {"completed", "incomplete", "skipped"}
Closed == [state |-> "closed", failures |-> 0, cooled |-> FALSE, probe |-> NoOne]

Init ==
  /\ scope \in Scopes
  /\ run = "starting" /\ exit = 9
  /\ interrupted \in BOOLEAN
  /\ usable = TRUE
  /\ status = [r \in Reviewers |->
                 IF \E l \in Lenses : Chain[l][1] = r THEN "queued" ELSE "deferred"]
  /\ verdict = [r \in Reviewers |-> "none"]
  /\ source = [r \in Reviewers |-> NoOne]
  /\ skipped = [r \in Reviewers |-> "no"]
  /\ told = [r \in Reviewers |-> 0]
  /\ storage = [r \in Reviewers |-> "none"]
  /\ pc = [l \in Lenses |-> "idle"]
  /\ at = [l \in Lenses |-> 1]
  /\ attempt = [l \in Lenses |-> 0]
  /\ last = [l \in Lenses |-> None]
  /\ passes = [l \in Lenses |-> <<>>]
  /\ pending = [l \in Lenses |-> NoOne]
  /\ expired = [l \in Lenses |-> FALSE]
  /\ cut = [l \in Lenses |-> FALSE] /\ timedOut = [l \in Lenses |-> FALSE]
  /\ circuit = [g \in Groups |-> Closed]
  /\ busy = [g \in Groups |-> 0] /\ waiting = [g \in Groups |-> <<>>]

Current(l) == Chain[l][at[l]]
Rest(l) == {Chain[l][i] : i \in (at[l] + 1)..Len(Chain[l])}
NoTimer(l) ==
  /\ cut' = [cut EXCEPT ![l] = FALSE] /\ timedOut' = [timedOut EXCEPT ![l] = FALSE]
Active(l) == pc[l] \in {"started", "queued", "admitted", "called"}

----------------------------------------------------------------------------
(* Circuit breakers.                                                       *)

Opened(g) == circuit[g].state = "open"
MayProbe(r) == Opened(Group[r]) /\ circuit[Group[r]].cooled
Allowed(r) ==
  \/ circuit[Group[r]].state = "closed"
  \/ circuit[Group[r]].state = "half_open" /\ circuit[Group[r]].probe = r
  \/ MayProbe(r)

\* An admission may turn an open circuit whose cooldown is over half open.
AfterAdmission(r) ==
  IF MayProbe(r)
  THEN [circuit EXCEPT ![Group[r]].state = "half_open", ![Group[r]].probe = r]
  ELSE circuit

AfterSuccess(r) == [circuit EXCEPT ![Group[r]] = Closed]

\* A failure that says nothing of the provider closes a half-open circuit,
\* whoever it comes from.
AfterFailure(r, f) ==
  LET c == circuit[Group[r]]
      count == IF c.failures >= Threshold THEN Threshold ELSE c.failures + 1 IN
  IF ~f.circuit
  THEN IF c.state = "half_open" THEN AfterSuccess(r) ELSE circuit
  ELSE [circuit EXCEPT ![Group[r]] =
          [state |-> IF c.state = "half_open" \/ count >= Threshold THEN "open" ELSE "closed",
           failures |-> count, cooled |-> FALSE, probe |-> NoOne]]

----------------------------------------------------------------------------
(* What an event that cannot be written does to its worker.                *)

Goes(l, next) == pc' = [pc EXCEPT ![l] = IF usable THEN next ELSE "threw"]

Tell(rs) ==
  told' = [r \in Reviewers |-> IF r \in rs /\ usable THEN told[r] + 1 ELSE told[r]]

\* The reviewers are skipped one after the other; without output the first
\* event throws.
SkippedOf(rs) ==
  {r \in rs : \/ usable
              \/ \A l \in Lenses : \A i, j \in DOMAIN Chain[l] :
                   Chain[l][i] = r /\ Chain[l][j] \in rs => i <= j}
SkipOnly(rs, why) ==
  /\ status' = [r \in Reviewers |-> IF r \in SkippedOf(rs) THEN "skipped" ELSE status[r]]
  /\ skipped' = [r \in Reviewers |-> IF r \in SkippedOf(rs) THEN why ELSE skipped[r]]
  /\ Tell(rs)

\* Mutant: the rest of the chain is left behind without a word.
Break_Silent(l, why) ==
  /\ pc' = [pc EXCEPT ![l] = "done"]
  /\ UNCHANGED <<at, status, skipped, told>>

\* The lens has decided or cannot go on: the rest of its chain is skipped.
Break(l, why) ==
  /\ SkipOnly(Rest(l), why)
  /\ pc' = [pc EXCEPT ![l] = IF usable \/ Rest(l) = {} THEN "done" ELSE "threw"]
  /\ UNCHANGED at

NextInChain(l) ==
  /\ at' = [at EXCEPT ![l] = @ + 1]
  /\ pc' = [pc EXCEPT ![l] = "next"]

----------------------------------------------------------------------------
(* The worker's way through a chain.                                       *)

Start ==
  /\ run = "starting"
  /\ run' = IF usable THEN "reviewing" ELSE "rejected"
  /\ LET out == {l \in Lenses : usable /\ scope[l] # "runs"}
         rs == UNION {Range(Chain[l]) : l \in out} IN
     /\ status' = [r \in Reviewers |-> IF r \in rs THEN "skipped" ELSE status[r]]
     /\ skipped' = [r \in Reviewers |->
          IF r \in rs THEN scope[CHOOSE l \in out : r \in Range(Chain[l])] ELSE skipped[r]]
     /\ Tell(rs)
  /\ UNCHANGED <<scope, exit, interrupted, usable, verdict, source, storage, pc, work,
                 timer, circuit, semaphore>>

\* A worker takes the next lens; one that threw takes none.
Take(l) ==
  /\ run # "starting" /\ ~interrupted
  /\ scope[l] = "runs" /\ pc[l] = "idle"
  /\ \A i, j \in DOMAIN LensOrder :
       LensOrder[i] = l /\ j < i /\ scope[LensOrder[j]] = "runs" => pc[LensOrder[j]] # "idle"
  /\ Cardinality({m \in Lenses : pc[m] \notin {"idle", "done"}}) < MaxConcurrency
  /\ run = "rejected" => \E m \in Lenses : pc[m] # "idle"
  /\ pc' = [pc EXCEPT ![l] = "next"]
  /\ UNCHANGED <<world, roster, work, timer, circuit, semaphore>>

ChainEnds(l) ==
  /\ pc[l] = "next"
  /\ interrupted \/ at[l] > Len(Chain[l])
  /\ pc' = [pc EXCEPT ![l] = "done"]
  /\ UNCHANGED <<world, roster, work, timer, circuit, semaphore>>

AtReviewer(l) == pc[l] = "next" /\ ~interrupted /\ at[l] <= Len(Chain[l])

\* Only a reviewer of another provider group may judge the pending finding.
Adopts(l) == pending[l] # NoOne /\ Group[Current(l)] # Group[pending[l]]

Assign(l) ==
  source' = IF Adopts(l) THEN [source EXCEPT ![Current(l)] = pending[l]] ELSE source

DeadlinePassed(l) ==
  /\ AtReviewer(l) /\ expired[l]
  /\ Assign(l)
  /\ status' = [status EXCEPT ![Current(l)] = "incomplete"]
  /\ Tell({Current(l)})
  /\ Goes(l, "next")
  /\ at' = [at EXCEPT ![l] = @ + 1]
  /\ UNCHANGED <<world, verdict, skipped, storage, attempt, last, passes, pending, expired,
                 timer, circuit, semaphore>>

Suppressed(l) ==
  /\ AtReviewer(l) /\ ~expired[l] /\ ~Allowed(Current(l))
  /\ Assign(l)
  /\ SkipOnly({Current(l)}, "circuit_open")
  /\ Goes(l, "next")
  /\ at' = [at EXCEPT ![l] = @ + 1]
  /\ UNCHANGED <<world, verdict, storage, attempt, last, passes, pending, expired,
                 timer, circuit, semaphore>>

Probe(l) ==
  /\ AtReviewer(l) /\ ~expired[l] /\ Allowed(Current(l))
  /\ Assign(l)
  /\ circuit' = AfterAdmission(Current(l))
  /\ status' = [status EXCEPT ![Current(l)] = "probing"]
  /\ pc' = [pc EXCEPT ![l] = "probing"]
  /\ UNCHANGED <<world, verdict, skipped, told, storage, work, timer, semaphore>>

ProbeSucceeds(l) ==
  /\ pc[l] = "probing"
  /\ status' = [status EXCEPT ![Current(l)] = "queued"]
  /\ attempt' = [attempt EXCEPT ![l] = 1]
  /\ last' = [last EXCEPT ![l] = None]
  /\ pc' = [pc EXCEPT ![l] = "attempt"]
  /\ UNCHANGED <<world, verdict, source, skipped, told, storage, at, passes, pending, expired,
                 timer, circuit, semaphore>>

\* The probe fails, is silent for too long, or its adapter cannot be created.
ProbeFails(l) ==
  /\ pc[l] = "probing"
  /\ \E f \in Reported \cup {Timeout} \cup (IF interrupted THEN {Cancelled} ELSE {}) :
       LET r == Current(l)
           gone == IF usable /\ ~f.fallback THEN Rest(l) ELSE {} IN
       /\ status' = [s \in Reviewers |-> IF s = r THEN "incomplete"
                                         ELSE IF s \in gone THEN "skipped" ELSE status[s]]
       /\ skipped' = [s \in Reviewers |-> IF s \in gone THEN "blocked" ELSE skipped[s]]
       /\ Tell({r} \cup gone)
       /\ circuit' = IF usable THEN AfterFailure(r, f) ELSE circuit
       /\ Goes(l, IF f.fallback THEN "next" ELSE "done")
       /\ at' = IF f.fallback THEN [at EXCEPT ![l] = @ + 1] ELSE at
  /\ UNCHANGED <<world, verdict, source, storage, attempt, last, passes, pending, expired,
                 timer, semaphore>>

----------------------------------------------------------------------------
(* Attempts: execute.                                                      *)

Settle(l, f) ==
  /\ status' = [status EXCEPT ![Current(l)] = "incomplete"]
  /\ last' = [last EXCEPT ![l] = f]

GiveUp(l) ==
  /\ pc[l] = "attempt"
  /\ interrupted \/ attempt[l] > MaxAttempts \/ expired[l]
  /\ Settle(l, IF ~interrupted /\ attempt[l] <= MaxAttempts THEN Timeout
               ELSE IF last[l] = None THEN Violation ELSE last[l])
  /\ pc' = [pc EXCEPT ![l] = "telling"]
  /\ UNCHANGED <<world, verdict, source, skipped, told, storage, at, attempt, passes, pending,
                 expired, timer, circuit, semaphore>>

\* The event of a reviewer that has ended: reviewer.incomplete.
Tells(l) ==
  /\ pc[l] = "telling"
  /\ Tell({Current(l)})
  /\ Goes(l, "settled")
  /\ UNCHANGED <<world, status, verdict, source, skipped, storage, work, timer, circuit,
                 semaphore>>

Attempt(l) ==
  /\ pc[l] = "attempt" /\ ~interrupted /\ attempt[l] <= MaxAttempts /\ ~expired[l]
  /\ status' = [status EXCEPT ![Current(l)] = "starting"]
  /\ Goes(l, "started")
  /\ UNCHANGED <<world, verdict, source, skipped, told, storage, work, timer, circuit, semaphore>>

GroupAt(l) == Group[Current(l)]

Acquire(l) ==
  /\ pc[l] = "started" /\ ~cut[l]
  /\ IF busy[GroupAt(l)] < ProviderLimit[GroupAt(l)]
     THEN /\ busy' = [busy EXCEPT ![GroupAt(l)] = @ + 1]
          /\ pc' = [pc EXCEPT ![l] = "admitted"]
          /\ UNCHANGED waiting
     ELSE /\ waiting' = [waiting EXCEPT ![GroupAt(l)] = Append(@, l)]
          /\ pc' = [pc EXCEPT ![l] = "queued"]
          /\ UNCHANGED busy
  /\ UNCHANGED <<world, roster, work, timer, circuit>>

\* An aborted acquisition rejects, and nothing in execute catches it.  Its
\* entry stays in the queue: abort looks there for another function than the
\* one that was pushed.
AcquireCut(l) ==
  /\ pc[l] \in {"started", "queued"} /\ cut[l]
  /\ pc' = [pc EXCEPT ![l] = "threw"]
  /\ NoTimer(l)
  /\ UNCHANGED <<world, roster, work, circuit, semaphore>>

Waits(l) == pc[l] = "queued" /\ ~cut[l]

\* Mutant: a slot that is given back wakes nobody.
Release_NoWake(g, l, next) ==
  /\ busy' = [busy EXCEPT ![g] = @ - 1]
  /\ waiting' = waiting
  /\ pc' = [pc EXCEPT ![l] = next]

\* A slot passes to the first of the queue, or to nobody when its wait is over.
Release(g, l, next) ==
  LET first == IF waiting[g] = <<>> THEN {} ELSE {Head(waiting[g])}
      woken == {m \in first : Waits(m)} IN
  /\ busy' = [busy EXCEPT ![g] = IF woken = {} THEN @ - 1 ELSE @]
  /\ waiting' = [waiting EXCEPT ![g] = IF first = {} THEN @ ELSE Tail(@)]
  /\ pc' = [m \in Lenses |-> IF m = l THEN next ELSE IF m \in woken THEN "admitted" ELSE pc[m]]

\* Mutant: an attempt that the circuit refuses does not count.
Refused_Uncounted(l) ==
  /\ pc[l] = "admitted" /\ ~Allowed(Current(l))
  /\ last' = [last EXCEPT ![l] =
       Failed(FALSE, IF last[l] = None THEN TRUE ELSE last[l].fallback, FALSE)]
  /\ Release(GroupAt(l), l, "attempt") /\ NoTimer(l)
  /\ UNCHANGED <<world, roster, at, attempt, passes, pending, expired, circuit>>

\* The circuit may have opened meanwhile; then the next attempt comes at once.
Refused(l) ==
  /\ pc[l] = "admitted" /\ ~Allowed(Current(l))
  /\ last' = [last EXCEPT ![l] =
       Failed(FALSE, IF last[l] = None THEN TRUE ELSE last[l].fallback, FALSE)]
  /\ attempt' = [attempt EXCEPT ![l] = @ + 1]
  /\ Release(GroupAt(l), l, "attempt") /\ NoTimer(l)
  /\ UNCHANGED <<world, roster, at, passes, pending, expired, circuit>>

Call(l) ==
  /\ pc[l] = "admitted" /\ Allowed(Current(l))
  /\ circuit' = AfterAdmission(Current(l))
  /\ status' = [status EXCEPT ![Current(l)] = "reviewing"]
  /\ pc' = [pc EXCEPT ![l] = "called"]
  /\ UNCHANGED <<world, verdict, source, skipped, told, storage, work, timer, semaphore>>

\* How the adapter's events end without a result that counts.
Ends(l) ==
  IF interrupted THEN {Cancelled}
  ELSE IF timedOut[l] THEN {Timeout}
  ELSE Reported \cup {Crash, Violation}

\* Without output the next progress event throws.
ProgressFails(l) ==
  /\ pc[l] = "called" /\ ~usable
  /\ Release(GroupAt(l), l, "threw") /\ NoTimer(l)
  /\ UNCHANGED <<world, roster, work, circuit>>

CallFails(l) ==
  /\ pc[l] = "called"
  /\ \E f \in Ends(l) :
       IF f.retry /\ attempt[l] < MaxAttempts /\ ~interrupted
       THEN /\ last' = [last EXCEPT ![l] = f]
            /\ Release(GroupAt(l), l, IF usable THEN "backoff" ELSE "threw")
            /\ UNCHANGED status
       ELSE /\ Settle(l, f)
            /\ Release(GroupAt(l), l, "telling")
  /\ NoTimer(l)
  /\ UNCHANGED <<world, verdict, source, skipped, told, storage, at, attempt, passes, pending,
                 expired, circuit>>

\* After the delay, unless the deadline leaves no room for it.
Backoff(l) ==
  /\ pc[l] = "backoff"
  /\ \/ /\ ~interrupted
        /\ attempt' = [attempt EXCEPT ![l] = @ + 1]
        /\ pc' = [pc EXCEPT ![l] = "attempt"]
        /\ UNCHANGED <<status, last>>
     \/ /\ Settle(l, last[l])
        /\ pc' = [pc EXCEPT ![l] = "telling"]
        /\ UNCHANGED attempt
  /\ UNCHANGED <<world, verdict, source, skipped, told, storage, at, passes, pending, expired,
                 timer, circuit, semaphore>>

----------------------------------------------------------------------------
(* Results: finalizeResult.                                                *)

Decides(l) == source[Current(l)] # NoOne
Verdicts(l) ==
  IF Decides(l) THEN {"upheld", "refuted", "unproven", "undecided"} ELSE {"clean", "gate"}

MayReturn(l) == pc[l] = "called" /\ ~interrupted /\ ~timedOut[l]

Recording(l) == pc' = [pc EXCEPT ![l] = "recording"]

Returns(l) ==
  /\ MayReturn(l)
  /\ \E v \in Verdicts(l) : verdict' = [verdict EXCEPT ![Current(l)] = v]
  /\ status' = [status EXCEPT ![Current(l)] = "completed"]
  /\ storage' = [storage EXCEPT ![Current(l)] = "kept"]
  /\ last' = [last EXCEPT ![l] = None]
  /\ Recording(l) /\ NoTimer(l)
  /\ UNCHANGED <<world, source, skipped, told, at, attempt, passes, pending, expired,
                 circuit, semaphore>>

\* The result breaks its schema or its isolation, or cannot be recorded.
ReturnsNothing(l) ==
  /\ MayReturn(l)
  /\ \/ /\ storage' = [storage EXCEPT ![Current(l)] = "released"]
        /\ Settle(l, Violation)
     \/ /\ storage' = [storage EXCEPT ![Current(l)] = "abandoned"]
        /\ Settle(l, Lost)
  /\ Recording(l) /\ NoTimer(l)
  /\ UNCHANGED <<world, verdict, source, skipped, told, at, attempt, passes, pending, expired,
                 circuit, semaphore>>

\* The slot is held until the event of the result is written.  A result, even
\* an unusable one, says that the provider works.
Records(l) ==
  /\ pc[l] = "recording"
  /\ Tell({Current(l)})
  /\ circuit' = IF usable THEN AfterSuccess(Current(l)) ELSE circuit
  /\ Release(GroupAt(l), l, IF usable THEN "settled" ELSE "threw")
  /\ UNCHANGED <<world, status, verdict, source, skipped, storage, work, timer>>

----------------------------------------------------------------------------
(* What the worker makes of a reviewer's end.                              *)

QuorumMet(l, groups) ==
  Len(groups) >= PassQuorum[l] /\ Cardinality(Range(groups)) >= MinGroups[l]

Completed(l) == status[Current(l)] = "completed"
Finds(l) == Completed(l) /\ verdict[Current(l)] \in {"gate", "upheld"}
Passes(l) == Completed(l) /\ ~Finds(l)

AtEnd(l) == pc[l] = "settled"

\* Attempt and failure are those of one call of execute.
Forgets(l) ==
  /\ AtEnd(l)
  /\ attempt' = [attempt EXCEPT ![l] = 0] /\ last' = [last EXCEPT ![l] = None]

AdjudicationPasses(l) ==
  /\ Forgets(l) /\ Passes(l) /\ Decides(l)
  /\ circuit' = AfterSuccess(Current(l))
  /\ pending' = [pending EXCEPT ![l] = NoOne]
  /\ Break(l, "short_circuited")
  /\ UNCHANGED <<world, verdict, source, storage, passes, expired, timer,
                 semaphore>>

ReviewPasses(l) ==
  /\ Forgets(l) /\ Passes(l) /\ ~Decides(l)
  /\ circuit' = AfterSuccess(Current(l))
  /\ passes' = [passes EXCEPT ![l] = Append(@, GroupAt(l))]
  /\ IF QuorumMet(l, passes'[l])
     THEN Break(l, "not_needed")
     ELSE NextInChain(l) /\ UNCHANGED <<status, skipped, told>>
  /\ UNCHANGED <<world, verdict, source, storage, pending, expired, timer,
                 semaphore>>

\* Positions behind the current one whose provider is another.
Independent(l) ==
  {i \in (at[l] + 1)..Len(Chain[l]) : Group[Chain[l][i]] # GroupAt(l)}
Nearest(S) == CHOOSE i \in S : \A j \in S : i <= j

Adjudicate(l) ==
  /\ Forgets(l) /\ Finds(l) /\ ~Decides(l) /\ Adjudicated[l] /\ Independent(l) # {}
  /\ LET there == Nearest(Independent(l))
         between == {Chain[l][i] : i \in (at[l] + 1)..(there - 1)} IN
     /\ source' = [source EXCEPT ![Chain[l][there]] = Current(l)]
     /\ SkipOnly(between, "short_circuited")
     /\ at' = [at EXCEPT ![l] = there]
     /\ pc' = [pc EXCEPT ![l] = IF usable \/ between = {} THEN "next" ELSE "threw"]
  /\ pending' = [pending EXCEPT ![l] = Current(l)]
  /\ circuit' = AfterSuccess(Current(l))
  /\ UNCHANGED <<world, verdict, storage, passes, expired, timer, semaphore>>

FindingEnds(l) ==
  /\ Forgets(l) /\ Finds(l)
  /\ Decides(l) \/ ~Adjudicated[l] \/ Independent(l) = {}
  /\ circuit' = AfterSuccess(Current(l))
  /\ pending' = IF ~Decides(l) /\ Adjudicated[l]
                THEN [pending EXCEPT ![l] = Current(l)] ELSE pending
  /\ Break(l, "short_circuited")
  /\ UNCHANGED <<world, verdict, source, storage, passes, expired, timer,
                 semaphore>>

ReviewFails(l) ==
  /\ Forgets(l) /\ ~Completed(l)
  /\ circuit' = AfterFailure(Current(l), last[l])
  /\ IF last[l].fallback
     THEN NextInChain(l) /\ UNCHANGED <<status, skipped, told>>
     ELSE Break(l, "blocked")
  /\ UNCHANGED <<world, verdict, source, storage, passes, pending, expired,
                 timer, semaphore>>

----------------------------------------------------------------------------
(* The end of the run.                                                     *)

CompletedOf(l) == {r \in Range(Chain[l]) : status[r] = "completed"}
Reviewing(r) == source[r] = NoOne
Deciding(r) == source[r] # NoOne
Judges(r) == {a \in Reviewers : status[a] = "completed" /\ source[a] = r}

\* Findings that still gate: no adjudicator has refuted or questioned them.
Standing(l) ==
  {r \in CompletedOf(l) : verdict[r] = "gate" /\ \A a \in Judges(r) : verdict[a] = "upheld"}
Unjudged(l) == {r \in CompletedOf(l) : verdict[r] = "gate" /\ Judges(r) = {}}
Clean(l) == {r \in CompletedOf(l) : Reviewing(r) /\ verdict[r] = "clean"}

\* Mutant: an adjudication without a decision resolves its finding.
Resolved_ByAny(l) == \E r \in CompletedOf(l) : Deciding(r)

Resolved(l) == \E r \in CompletedOf(l) : Deciding(r) /\ verdict[r] # "undecided"

\* aggregateRun: a lens that has neither passed nor found.
Incomplete(l) ==
  /\ scope[l] = "runs"
  /\ IF Standing(l) # {}
     THEN Adjudicated[l] /\ Unjudged(l) # {}
     ELSE /\ ~(Cardinality(Clean(l)) >= PassQuorum[l]
               /\ Cardinality({Group[r] : r \in Clean(l)}) >= MinGroups[l])
          /\ ~Resolved(l)

ExitCode ==
  IF interrupted THEN 4
  ELSE IF \E l \in Lenses : Incomplete(l) \/ scope[l] = "missing" THEN 3
  ELSE IF \E l \in Lenses : Standing(l) # {} THEN 1 ELSE 0

AllDone == \A l \in Lenses : pc[l] = "done" \/ (pc[l] = "idle" /\ (interrupted \/ scope[l] # "runs"))
Open == {r \in Reviewers : status[r] \notin Terminal}
Kept(how) == [r \in Reviewers |-> IF storage[r] = "kept" THEN how ELSE storage[r]]

\* Mutant: a run that rejects keeps its pages.
RunRejects_Forgets ==
  /\ run' = "rejected"
  /\ UNCHANGED storage

RunRejects ==
  /\ run' = "rejected"
  /\ storage' = Kept("abandoned")

\* After an interruption the reviewers nobody has led to an end are cancelled.
CancelOpen(r) ==
  /\ run = "reviewing" /\ AllDone /\ interrupted /\ r \in Open
  /\ status' = [status EXCEPT ![r] = "incomplete"]
  /\ Tell({r})
  /\ IF usable THEN UNCHANGED <<run, storage>> ELSE RunRejects
  /\ UNCHANGED <<scope, exit, interrupted, usable, verdict, source, skipped, pc, work, timer,
                 circuit, semaphore>>

\* The artifact is published, then the last event written.
Complete ==
  /\ run = "reviewing" /\ AllDone
  /\ interrupted => Open = {}
  /\ \/ /\ usable
        /\ run' = "completed" /\ exit' = ExitCode
        /\ storage' = Kept("released")
        /\ UNCHANGED usable
     \/ /\ usable' = FALSE
        /\ RunRejects
        /\ UNCHANGED exit
  /\ UNCHANGED <<scope, interrupted, status, verdict, source, skipped, told, pc, work, timer,
                 circuit, semaphore>>

\* The first worker that throws: runReviewRound rejects and, on its way out,
\* aborts the attempts under way.
Reject ==
  /\ run = "reviewing"
  /\ \E l \in Lenses : pc[l] = "threw"
  /\ RunRejects
  /\ cut' = [l \in Lenses |-> cut[l] \/ Active(l)]
  /\ UNCHANGED <<scope, exit, interrupted, usable, status, verdict, source, skipped, told,
                 pc, work, timedOut, circuit, semaphore>>

----------------------------------------------------------------------------
(* The world.                                                              *)

Settled == run \in {"completed", "rejected"}

Interrupt ==
  /\ ~Settled /\ ~interrupted
  /\ interrupted' = TRUE
  /\ cut' = [l \in Lenses |-> cut[l] \/ Active(l)]
  /\ UNCHANGED <<scope, run, exit, usable, roster, pc, work, timedOut, circuit, semaphore>>

OutputFails ==
  /\ ~Settled /\ usable
  /\ usable' = FALSE
  /\ UNCHANGED <<scope, run, exit, interrupted, roster, pc, work, timer, circuit, semaphore>>

AttemptTimer(l) ==
  /\ Active(l) /\ ~cut[l]
  /\ cut' = [cut EXCEPT ![l] = TRUE] /\ timedOut' = [timedOut EXCEPT ![l] = TRUE]
  /\ UNCHANGED <<world, roster, pc, work, circuit, semaphore>>

LensDeadline(l) ==
  /\ ~Settled /\ pc[l] \notin {"idle", "done", "threw"} /\ ~expired[l]
  /\ expired' = [expired EXCEPT ![l] = TRUE]
  /\ UNCHANGED <<world, roster, pc, at, attempt, last, passes, pending, timer, circuit,
                 semaphore>>

Cooldown(g) ==
  /\ ~Settled /\ Opened(g) /\ ~circuit[g].cooled
  /\ circuit' = [circuit EXCEPT ![g].cooled = TRUE]
  /\ UNCHANGED <<world, roster, pc, work, timer, semaphore>>

\* What is resumed by a promise comes first.
Resumes(l) ==
  \/ Refused(l) \/ Call(l)
  \/ AdjudicationPasses(l) \/ ReviewPasses(l) \/ Adjudicate(l) \/ FindingEnds(l)
  \/ ReviewFails(l)
Resumed == \A l \in Lenses : pc[l] \notin {"admitted", "settled"}

Works(l) ==
  \/ Take(l) \/ ChainEnds(l) \/ DeadlinePassed(l) \/ Suppressed(l) \/ Probe(l)
  \/ ProbeSucceeds(l) \/ ProbeFails(l)
  \/ GiveUp(l) \/ Attempt(l) \/ Acquire(l) \/ AcquireCut(l) \/ Backoff(l)
  \/ Tells(l) \/ Records(l)

Answers(l) == ProgressFails(l) \/ CallFails(l) \/ Returns(l) \/ ReturnsNothing(l)
Timers(l) == AttemptTimer(l) \/ LensDeadline(l)

Next ==
  \/ \E l \in Lenses : Resumes(l)
  \/ /\ Resumed
     /\ \/ Start \/ Complete \/ Reject \/ (\E r \in Reviewers : CancelOpen(r))
        \/ \E l \in Lenses : Works(l) \/ Answers(l) \/ Timers(l)
        \/ \E g \in Groups : Cooldown(g)
        \/ Interrupt \/ OutputFails

Spec == Init /\ [][Next]_vars

\* Continuations run, an attempt's timer fires, and an aborted call is left:
\* execute races every answer against the abort.
Progress ==
  \/ \E l \in Lenses : Resumes(l)
  \/ /\ Resumed
     /\ \/ Start \/ Complete \/ Reject \/ (\E r \in Reviewers : CancelOpen(r))
        \/ \E l \in Lenses : Works(l) \/ AttemptTimer(l)
        \/ \E l \in Lenses : cut[l] /\ CallFails(l)
FairSpec == Spec /\ WF_vars(Progress)

----------------------------------------------------------------------------
(* Properties.                                                             *)

\* Every reviewer of a run that completes has ended, and its end was told
\* exactly once; no end is ever told twice, however the worker of a lens,
\* the skipping of the rest of its chain and the cancellation at the end of
\* an interrupted run meet (skipReviewer, finalizeIncomplete, finalizeResult).
EndsAreToldOnce ==
  \A r \in Reviewers :
    /\ told[r] <= 1
    /\ told[r] = 1 => status[r] \in Terminal
    /\ run = "completed" => told[r] = 1

\* Exit code 0 of run.completed is earned: in every lens that ran, each gate
\* finding was questioned by a completed adjudicator of another provider group
\* and, where nothing was adjudicated, enough clean reviews of enough provider
\* groups exist (aggregateRun and exitCodeFor over the whole roster, against
\* the worker that decided to end the chain).
CleanExitIsEarned ==
  run = "completed" /\ exit = 0 =>
    \A l \in Lenses : scope[l] = "runs" =>
      LET done == {r \in Range(Chain[l]) : status[r] = "completed"}
          judges == {a \in done : source[a] # NoOne}
          clean == {r \in done \ judges : verdict[r] = "clean"} IN
      /\ \A r \in done : verdict[r] = "gate" =>
           \E a \in judges : /\ source[a] = r /\ Group[a] # Group[r]
                             /\ verdict[a] \in {"refuted", "unproven"}
      /\ judges = {} => /\ Cardinality(clean) >= PassQuorum[l]
                        /\ Cardinality({Group[r] : r \in clean}) >= MinGroups[l]

\* The pages behind a result live exactly as long as they are needed: they are
\* kept while the run may still complete, released once the result is in a
\* published artifact, and abandoned when the run rejects; a result that a
\* worker brings after the rejection is the only one still kept
\* (persistedResultStorage).
StorageFollowsRun ==
  \A r \in Reviewers :
    /\ storage[r] = "kept" => status[r] = "completed" /\ run # "completed"
    /\ status[r] = "completed" =>
         storage[r] = CASE run = "completed" -> "released"
                        [] run = "rejected" -> (IF storage[r] = "kept" /\ ~AllDone
                                                THEN "kept" ELSE "abandoned")
                        [] OTHER -> "kept"

\* A semaphore counts the calls under way and never exceeds its limit, also
\* after a worker has thrown; until a worker throws or its wait is cut short,
\* nobody waits for a slot that is free (Semaphore).  From then on somebody may:
\* a release drops the entry of a wait that is over and wakes no other.
SlotsAreCounted ==
  \A g \in Groups :
    LET holding == {l \in Lenses : pc[l] \in {"admitted", "called", "recording"}
                                    /\ GroupAt(l) = g} IN
    /\ busy[g] = Cardinality(holding) /\ busy[g] <= ProviderLimit[g]
    /\ (\A l \in Lenses : pc[l] # "threw" /\ (pc[l] = "queued" => Waits(l))) =>
         (waiting[g] # <<>> => busy[g] = ProviderLimit[g])

\* What the run says is true: ends are told once, and a clean exit is earned
\* (finalizeResult, finalizeIncomplete, aggregateRun).
EndsAreEarned == EndsAreToldOnce /\ CleanExitIsEarned

\* What a worker holds is given back, also when another worker has thrown: the
\* pages of its results and the slots of its calls (runReviewRound, Semaphore).
NothingIsStranded == StorageFollowsRun /\ SlotsAreCounted

\* Every run settles: runReviewRound returns or rejects, whatever fails, is
\* refused, waits or is interrupted on the way.
EveryRunSettles == <>Settled
=============================================================================
