------------------------------ MODULE NativeRun ------------------------------
(***************************************************************************)
(* A run whose reviewers are vendor agent SDKs                             *)
(* (src/src/orchestrator/run-native.ts).  One chain per lens executes the  *)
(* lens's reviewers one after the other, each once; the chains share a     *)
(* pool of execution slots and the abort signal of the run.  An execution  *)
(* waits for its slot, probes its adapter, consumes the session's events   *)
(* under an attempt timer and a progress watchdog                          *)
(* (src/src/orchestrator/native-progress.ts), records its result, cleans   *)
(* up the adapter and gives its slot back.                                 *)
(*                                                                         *)
(* An adapter may report anything at any time, or nothing ever again; only *)
(* timers and the program's own continuations are fair.                    *)
(***************************************************************************)
EXTENDS Naturals, FiniteSets, SequencesExt

CONSTANTS
  Lenses,
  Count,            \* number of reviewers of a lens, in configured order
  GroupOf,          \* GroupOf[l][i]: provider group of a reviewer
  PassQuorum,       \* passQuorum of a lens
  MinGroups,        \* minimumProviderGroups of a lens
  Adjudicated,      \* the lens requires adjudication of findings
  MaxConcurrency,   \* execution.max_concurrency
  ProviderLimit     \* execution.provider_limits of a group

ASSUME NativeCountAssumption == Count \in [Lenses -> Nat \ {0}]
ASSUME NativePolicyAssumption ==
  /\ PassQuorum \in [Lenses -> Nat \ {0}]
  /\ MinGroups \in [Lenses -> Nat \ {0}]
  /\ Adjudicated \in [Lenses -> BOOLEAN]
ASSUME NativeLimitAssumption == MaxConcurrency \in Nat \ {0}

VARIABLES
  strict,        \* review_profile is strict-evaluation
  main,          \* runNativeReview: starting, reviewing, finished, failed
  cancelled,     \* input.signal is aborted
  halted,        \* its deadline has fired, or an event could not be recorded
  poisoned,      \* an append failed: the artifact takes no record any more
  waiting,       \* queued: lenses whose reviewer waits for a slot
  active,        \* execution slots in use
  activeGroups,  \* and those of each provider group
  slot,          \* the lens's reviewer holds the closure that releases one
  at,            \* position of the chain, Count + 1 behind its end
  pc,            \* where the chain or the execution of its reviewer is
  cut,           \* the reviewer's own signal is aborted, by a deadline or by silence
  quiet,         \* no progress for no_progress_timeout_ms, its timer still to run
  answered,      \* the session has reported its result
  session,       \* how the session's iterator ended
  status,        \* job.status
  result,        \* job.result of a completed reviewer: schema version and verdict
  terminals,     \* reviewer.terminal records of a reviewer
  finding,       \* what the reviewer found, with its adjudication
  source,        \* position of the reviewer whose finding is adjudicated, or 0
  passes,        \* reviewers counted as passes
  lensState,     \* lensStates
  outcome        \* exit code of the summary, or "open"

aborts == <<cancelled, halted>>
pool == <<waiting, active, activeGroups, slot>>
exec == <<cut, quiet, answered, session>>
jobs == <<status, result, terminals, finding>>
chain == <<at, source, passes, lensState>>
vars == <<strict, main, aborts, poisoned, pool, exec, jobs, chain, pc, outcome>>

Members(l) == 1..Count[l]
End(l) == Count[l] + 1
Group(l) == GroupOf[l][at[l]]
Groups == UNION {Range(GroupOf[l]) : l \in Lenses}

ASSUME NativeGroupsAssumption ==
  /\ \A l \in Lenses : DOMAIN GroupOf[l] = Members(l)
  /\ ProviderLimit \in [Groups -> Nat \ {0}]

\* What became of a reviewer's finding.  A finding that needs no adjudication or
\* was confirmed or adjusted is strong if its classification, severity and
\* confidence meet the gate and weak otherwise; a confirmation may restore what
\* an adjustment changed, so that any accepted weight can follow any other.
Accepted == {"strong", "weak"}
Decisions == Accepted \cup {"rejected", "needs_verification"}

\* The signal of the run's controller, and of a reviewer's own.
Aborted == cancelled \/ halted \/ main \in {"finished", "failed"}
Cut(l) == Aborted \/ cut[l]

Init ==
  /\ strict \in BOOLEAN
  /\ main = "starting"
  /\ cancelled = FALSE /\ halted = FALSE /\ poisoned = FALSE
  /\ waiting = <<>> /\ active = 0
  /\ activeGroups = [g \in Groups |-> 0]
  /\ slot = [l \in Lenses |-> FALSE]
  /\ at = [l \in Lenses |-> 1]
  /\ pc = [l \in Lenses |-> "idle"]
  /\ cut = [l \in Lenses |-> FALSE]
  /\ quiet = [l \in Lenses |-> FALSE]
  /\ answered = [l \in Lenses |-> FALSE]
  /\ session = [l \in Lenses |-> "open"]
  /\ status = [l \in Lenses |-> [i \in Members(l) |-> "queued"]]
  /\ result = [l \in Lenses |-> [i \in Members(l) |-> "none"]]
  /\ terminals = [l \in Lenses |-> [i \in Members(l) |-> 0]]
  /\ finding = [l \in Lenses |-> [i \in Members(l) |-> "none"]]
  /\ source = [l \in Lenses |-> 0]
  /\ passes = [l \in Lenses |-> {}]
  /\ lensState = [l \in Lenses |-> "none"]
  /\ outcome = "open"

-----------------------------------------------------------------------------
(* The slots: acquire, its release closure and wake.                       *)

Pool == [waiting |-> waiting, active |-> active, groups |-> activeGroups,
         slot |-> slot]

Free(p, l) == p.active < MaxConcurrency /\ p.groups[Group(l)] < ProviderLimit[Group(l)]

\* remove(): an entry leaves the queue, if it is there.
Leave(queue, l) ==
  IF l \in ToSet(queue) THEN RemoveAt(queue, CHOOSE i \in DOMAIN queue : queue[i] = l)
                        ELSE queue

\* check(): the entry of a waiting reviewer takes a slot if the limits allow.
Check(p, l) ==
  IF ~Free(p, l) THEN p
  ELSE [waiting |-> Leave(p.waiting, l),
        active |-> p.active + 1,
        groups |-> [p.groups EXCEPT ![Group(l)] = @ + 1],
        slot |-> [p.slot EXCEPT ![l] = TRUE]]

\* wake(): every entry of a copy of the queue checks, in order.
Wake(p) ==
  LET checked[n \in 0..Len(p.waiting)] ==
        IF n = 0 THEN p ELSE Check(checked[n - 1], p.waiting[n])
  IN checked[Len(p.waiting)]

\* Mutant: the release closure of a slot does not wake the queue.
Released_NoWake(l) ==
  IF ~slot[l] THEN Pool
  ELSE [Pool EXCEPT !.active = @ - 1,
                    !.groups[Group(l)] = @ - 1,
                    !.slot[l] = FALSE]

\* What release() leaves, if the reviewer ever got a slot.
Released(l) ==
  IF ~slot[l] THEN Pool
  ELSE Wake([Pool EXCEPT !.active = @ - 1,
                         !.groups[Group(l)] = @ - 1,
                         !.slot[l] = FALSE])

-----------------------------------------------------------------------------
(* Aborts.  Each runs the abort listeners at once: queued entries leave.   *)

Abort ==
  /\ waiting' = <<>>
  /\ UNCHANGED <<strict, active, activeGroups, slot, exec, jobs, chain, pc, outcome>>

Cancel ==
  /\ main \in {"starting", "reviewing"} /\ ~Aborted
  /\ cancelled' = TRUE
  /\ Abort
  /\ UNCHANGED <<main, halted, poisoned>>

RunDeadline ==
  /\ main \in {"starting", "reviewing"} /\ ~Aborted
  /\ halted' = TRUE
  /\ Abort
  /\ UNCHANGED <<main, cancelled, poisoned>>

\* emit(): the append of an event, a heartbeat's or a chain's, fails.
EventRefused ==
  /\ main = "reviewing" /\ ~Aborted /\ ~poisoned
  /\ poisoned' = TRUE
  /\ halted' = TRUE
  /\ Abort
  /\ UNCHANGED <<main, cancelled>>

\* The timer of the lens's, the probe's or the attempt's deadline fires.
TimeOut(l) ==
  /\ pc[l] \in {"queued", "granted", "reviewing"}
  /\ ~Cut(l)
  /\ cut' = [cut EXCEPT ![l] = TRUE]
  /\ quiet' = [quiet EXCEPT ![l] = FALSE]
  /\ waiting' = Leave(waiting, l)
  /\ UNCHANGED <<strict, main, aborts, poisoned, active, activeGroups, slot,
                 answered, session, jobs, chain, pc, outcome>>

-----------------------------------------------------------------------------
(* Endings of a reviewer.                                                  *)

\* The reviewer.terminal record of the chain's reviewer, with its status.  If an
\* append fails, now or earlier, it throws out of execute() or out of the chain.
Terminate(l, how, next, thrown) ==
  /\ status' = [status EXCEPT ![l][at[l]] = how]
  /\ \/ /\ ~poisoned
        /\ terminals' = [terminals EXCEPT ![l][at[l]] = @ + 1]
        /\ pc' = [pc EXCEPT ![l] = next]
        /\ UNCHANGED poisoned
     \/ /\ poisoned' = TRUE
        /\ pc' = [pc EXCEPT ![l] = thrown]
        /\ UNCHANGED terminals

Incomplete(l) == Terminate(l, "incomplete", "cleaning", "unwinding")

-----------------------------------------------------------------------------
(* The chain of a lens.                                                    *)

\* The reviewer is skipped: the lens is excluded or decided, or the run aborted.
Skipped(l) ==
  \/ lensState[l] \in {"not_evaluated", "not_applicable"}
  \/ ~strict /\ lensState[l] \in {"passed", "findings"}
  \/ Aborted

\* The records before the first review; then all chains start at once.  A lens
\* may miss its required input or be irrelevant to the change.
Start ==
  /\ main = "starting"
  /\ \/ /\ main' = "failed" /\ poisoned' = TRUE
        /\ UNCHANGED lensState
     \/ /\ main' = "reviewing"
        /\ lensState' \in [Lenses -> {"incomplete", "not_evaluated", "not_applicable"}]
        /\ UNCHANGED poisoned
  /\ UNCHANGED <<strict, aborts, pool, exec, jobs, at, source, passes, pc, outcome>>

Started(l) == lensState[l] # "none"

Skip(l) ==
  /\ Started(l)
  /\ pc[l] = "idle" /\ at[l] \in Members(l)
  /\ Skipped(l)
  /\ Terminate(l, "skipped", "idle", "thrown")
  /\ at' = IF poisoned' THEN at ELSE [at EXCEPT ![l] = @ + 1]
  /\ UNCHANGED <<strict, main, aborts, pool, exec, result, finding, source,
                 passes, lensState, outcome>>

\* execute() begins: the reviewer takes a slot or queues for one.
Execute(l) ==
  /\ Started(l)
  /\ pc[l] = "idle" /\ at[l] \in Members(l)
  /\ ~Skipped(l)
  /\ LET entered == Check([Pool EXCEPT !.waiting = Append(@, l)], l)
     IN /\ waiting' = entered.waiting
        /\ active' = entered.active
        /\ activeGroups' = entered.groups
        /\ slot' = entered.slot
        /\ pc' = [pc EXCEPT ![l] = IF entered.slot[l] THEN "granted" ELSE "queued"]
  /\ UNCHANGED <<strict, main, aborts, poisoned, exec, jobs, chain, outcome>>

\* The slot's promise resolves and the adapter is probed.
Probe(l, available) ==
  /\ pc[l] = "granted" /\ ~Cut(l)
  /\ IF available /\ ~poisoned
       THEN /\ pc' = [pc EXCEPT ![l] = "reviewing"]
            /\ status' = [status EXCEPT ![l][at[l]] = "running"]
            /\ UNCHANGED <<terminals, poisoned>>
       ELSE Incomplete(l)
  /\ UNCHANGED <<strict, main, aborts, pool, exec, result, finding, chain,
                 outcome>>

-----------------------------------------------------------------------------
(* The session of a reviewer.                                              *)

\* The progress deadline passes; its timer has not run yet.
Silence(l) ==
  /\ pc[l] = "reviewing" /\ ~answered[l] /\ ~Cut(l) /\ ~quiet[l]
  /\ quiet' = [quiet EXCEPT ![l] = TRUE]
  /\ UNCHANGED <<strict, main, aborts, poisoned, pool, cut, answered, session, jobs,
                 chain, pc, outcome>>

\* An event of the session, or the watchdog's timer, after the progress deadline:
\* expire() aborts the reviewer.  An event before it only defers the deadline.
Activity(l) ==
  /\ pc[l] = "reviewing" /\ ~Cut(l) /\ quiet[l]
  /\ cut' = [cut EXCEPT ![l] = TRUE]
  /\ quiet' = [quiet EXCEPT ![l] = FALSE]
  /\ UNCHANGED <<strict, main, aborts, poisoned, pool, answered, session, jobs,
                 chain, pc, outcome>>

\* The session reports its result; record() closes the watchdog without looking
\* at the deadline.
Answer(l) ==
  /\ pc[l] = "reviewing" /\ ~answered[l] /\ ~Cut(l)
  /\ answered' = [answered EXCEPT ![l] = TRUE]
  /\ quiet' = [quiet EXCEPT ![l] = FALSE]
  /\ UNCHANGED <<strict, main, aborts, poisoned, pool, cut, session, jobs, chain,
                 pc, outcome>>

\* Mutant: a session cut off behind its result counts as a whole one.
SessionEnds_AllClean(l, how) ==
  /\ pc[l] = "reviewing"
  /\ Cut(l) => how = "broken"
  /\ IF ~answered[l]
       THEN Incomplete(l) /\ UNCHANGED session
       ELSE /\ session' = [session EXCEPT ![l] = "clean"]
            /\ pc' = [pc EXCEPT ![l] = "settling"]
            /\ UNCHANGED <<status, terminals, poisoned>>
  /\ UNCHANGED <<strict, main, aborts, pool, cut, quiet, answered, result,
                 finding, chain, outcome>>

\* The iterator is done, or it throws or is abandoned because of an abort: without
\* a result (a reported failure included) the reviewer is incomplete; a failure
\* behind a result is a lifecycle failure, kept for later.
SessionEnds(l, how) ==
  /\ pc[l] = "reviewing"
  /\ Cut(l) => how = "broken"
  /\ IF ~answered[l]
       THEN Incomplete(l) /\ UNCHANGED session
       ELSE /\ session' = [session EXCEPT ![l] = how]
            /\ pc' = [pc EXCEPT ![l] = "settling"]
            /\ UNCHANGED <<status, terminals, poisoned>>
  /\ UNCHANGED <<strict, main, aborts, pool, cut, quiet, answered, result,
                 finding, chain, outcome>>

\* An abort before the session, a second terminal event, an invalid result, or one
\* that cannot be recorded.
Abandon(l) ==
  /\ \/ pc[l] \in {"queued", "granted"} /\ Cut(l)
     \/ pc[l] = "reviewing" /\ answered[l] /\ ~Cut(l)
     \/ pc[l] = "settling"
  /\ Incomplete(l)
  /\ UNCHANGED <<strict, main, aborts, pool, exec, result, finding, chain,
                 outcome>>

-----------------------------------------------------------------------------
(* What a result does.                                                     *)

\* Mutant: the last adjudicator wins.
Revised_LastWins(f, decision) == decision

\* A finding after a further decision.  In a strict run, once it was decided, a
\* decision with issues is ignored and an accepted finding is only revised from
\* weak to strong: neither taken back nor weakened.
Revised(f, decision) ==
  IF /\ strict /\ f \in Accepted \cup {"rejected"}
     /\ \/ decision = "needs_verification"
        \/ f \in Accepted /\ (f = "strong" \/ decision # "strong")
    THEN f ELSE decision

\* What the chain's reviewer returns: a review, or an adjudication of source.
Verdicts(l) == IF source[l] = 0 THEN {"pass4", "fail4"} ELSE {"pass2", "fail2"}

\* The findings after the result: a review may report one, an adjudicator
\* decides the one of the source.
Found(l, verdict, decision) ==
  CASE verdict = "fail4" /\ Adjudicated[l] ->
         [finding[l] EXCEPT ![at[l]] = "unadjudicated"]
    [] verdict = "fail4" /\ ~Adjudicated[l] -> [finding[l] EXCEPT ![at[l]] = decision]
    [] verdict \in {"pass2", "fail2"} ->
         [finding[l] EXCEPT ![source[l]] = Revised(@, decision)]
    [] OTHER -> finding[l]

\* The result is validated and applied, recorded, and the reviewer concluded:
\* behind a lifecycle failure, or with an adjudication that misses a candidate,
\* decides one twice or decides an unknown one, it ends incomplete.
Settle(l, verdict, decision, whole) ==
  LET completes == session[l] = "clean" /\ (whole \/ source[l] = 0)
  IN /\ pc[l] = "settling" /\ ~poisoned
     /\ verdict \in Verdicts(l)
     /\ whole => decision # "needs_verification"
     /\ verdict = "fail4" => decision \in Accepted
     /\ finding' = [finding EXCEPT ![l] = Found(l, verdict, decision)]
     /\ result' = IF completes THEN [result EXCEPT ![l][at[l]] = verdict]
                                 ELSE result
     /\ UNCHANGED poisoned
     /\ Terminate(l, IF completes THEN "completed" ELSE "incomplete",
                  "cleaning", "unwinding")
     /\ UNCHANGED <<strict, main, aborts, pool, exec, chain, outcome>>

-----------------------------------------------------------------------------
(* Release of the slot and the chain's decision.                           *)

Satisfied(l, S) ==
  /\ Cardinality(S) >= PassQuorum[l]
  /\ Cardinality({GroupOf[l][i] : i \in S}) >= MinGroups[l]

\* What a completed reviewer means for its lens.
Follow(l) ==
  LET i == at[l]
      verdict == result[l][i]
      counted == passes[l] \cup {i}
      decide(state) == lensState' = [lensState EXCEPT ![l] = state]
  IN \/ /\ verdict = "fail2" /\ decide("findings") /\ UNCHANGED <<source, passes>>
     \/ /\ verdict = "pass2" /\ decide("passed") /\ UNCHANGED <<source, passes>>
     \/ /\ verdict = "fail4" /\ Adjudicated[l]
        /\ source' = [source EXCEPT ![l] = i]
        /\ UNCHANGED <<passes, lensState>>
     \/ /\ verdict = "fail4" /\ ~Adjudicated[l]
        /\ decide("findings")
        /\ UNCHANGED <<source, passes>>
     \/ /\ verdict = "pass4"
        /\ passes' = [passes EXCEPT ![l] = counted]
        /\ IF Satisfied(l, counted) THEN decide("passed") ELSE UNCHANGED lensState
        /\ UNCHANGED source

\* The next execution has a signal, a watchdog and a session of its own.
Forget(l) ==
  /\ cut' = [cut EXCEPT ![l] = FALSE]
  /\ quiet' = [quiet EXCEPT ![l] = FALSE]
  /\ answered' = [answered EXCEPT ![l] = FALSE]
  /\ session' = [session EXCEPT ![l] = "open"]

\* Mutant: an execution that throws keeps its slot.
Cleanup_KeepsSlot(l) ==
  LET left == IF pc[l] = "unwinding" THEN Pool ELSE Released(l)
  IN /\ pc[l] \in {"cleaning", "unwinding"}
     /\ waiting' = left.waiting /\ active' = left.active
     /\ activeGroups' = left.groups /\ slot' = left.slot
     /\ pc' = [m \in Lenses |->
                 IF m = l THEN IF pc[l] = "cleaning" THEN "idle" ELSE "thrown"
                 ELSE IF left.slot[m] /\ ~slot[m] THEN "granted" ELSE pc[m]]
     /\ IF pc[l] = "cleaning" /\ status[l][at[l]] = "completed"
          THEN Follow(l) ELSE UNCHANGED <<source, passes, lensState>>
     /\ at' = IF pc[l] = "cleaning" THEN [at EXCEPT ![l] = @ + 1] ELSE at
     /\ Forget(l)
     /\ UNCHANGED <<strict, main, aborts, poisoned, jobs, outcome>>

\* The finally block of execute(): the adapter's forced cleanup ends or its grace
\* period does, the slot is released; the chain goes on or throws.
Cleanup(l) ==
  LET left == Released(l)
  IN /\ pc[l] \in {"cleaning", "unwinding"}
     /\ waiting' = left.waiting /\ active' = left.active
     /\ activeGroups' = left.groups /\ slot' = left.slot
     /\ pc' = [m \in Lenses |->
                 IF m = l THEN IF pc[l] = "cleaning" THEN "idle" ELSE "thrown"
                 ELSE IF left.slot[m] /\ ~slot[m] THEN "granted" ELSE pc[m]]
     /\ IF pc[l] = "cleaning" /\ status[l][at[l]] = "completed"
          THEN Follow(l) ELSE UNCHANGED <<source, passes, lensState>>
     /\ at' = IF pc[l] = "cleaning" THEN [at EXCEPT ![l] = @ + 1] ELSE at
     /\ Forget(l)
     /\ UNCHANGED <<strict, main, aborts, poisoned, jobs, outcome>>

\* Mutant: a strict lens needs only its decision.
ChainEnds_Lenient(l) ==
  /\ Started(l) /\ pc[l] = "idle" /\ at[l] = End(l)
  /\ pc' = [pc EXCEPT ![l] = "done"]
  /\ UNCHANGED <<strict, main, aborts, poisoned, pool, exec, jobs, chain, outcome>>

\* Behind its last reviewer; a strict lens is complete only if all completed.
ChainEnds(l) ==
  /\ Started(l) /\ pc[l] = "idle" /\ at[l] = End(l)
  /\ pc' = [pc EXCEPT ![l] = "done"]
  /\ lensState' = IF /\ strict
                     /\ lensState[l] \notin {"not_evaluated", "not_applicable"}
                     /\ \E i \in Members(l) : status[l][i] # "completed"
                    THEN [lensState EXCEPT ![l] = "incomplete"] ELSE lensState
  /\ UNCHANGED <<strict, main, aborts, poisoned, pool, exec, jobs, at, source, passes,
                 outcome>>

-----------------------------------------------------------------------------
(* The end of the run.                                                     *)

\* Promise.all rejects with the first chain that throws; the finally block
\* aborts the others, which unwind behind it.
Fails ==
  /\ main = "reviewing"
  /\ \E l \in Lenses : pc[l] = "thrown"
  /\ main' = "failed"
  /\ Abort
  /\ UNCHANGED <<aborts, poisoned>>

Gating == \E l \in Lenses : \E i \in Members(l) : finding[l][i] = "strong"

\* All chains have ended: final workspace identity, summary and seal.  The run is
\* marred by a public write that failed or a workspace that changed; cancelled
\* late, it was aborted before for another reason.
Summarise(marred, late) ==
  /\ main = "reviewing"
  /\ \A l \in Lenses : pc[l] = "done"
  /\ LET partial == \/ marred
                    \/ \E l \in Lenses : lensState[l] \in {"incomplete", "not_evaluated"}
     IN IF poisoned
          THEN main' = "failed" /\ UNCHANGED outcome
          ELSE /\ main' = "finished"
               /\ outcome' = IF cancelled \/ (halted /\ late) THEN "cancelled"
                             ELSE IF partial THEN "inconclusive"
                             ELSE IF Gating THEN "gate_findings" ELSE "clear"
  /\ UNCHANGED <<strict, aborts, poisoned, pool, exec, jobs, chain, pc>>

\* What the program or the reviewer's timers do for lens l by themselves.
Proceed(l) ==
  \/ Skip(l) \/ Execute(l) \/ Abandon(l) \/ TimeOut(l)
  \/ Cut(l) /\ SessionEnds(l, "broken")
  \/ \E verdict \in Verdicts(l), decision \in Decisions, whole \in BOOLEAN :
       Settle(l, verdict, decision, whole)
  \/ Cleanup(l) \/ ChainEnds(l)

\* What the adapter does, if anything.
Adapter(l) ==
  \/ \E available \in BOOLEAN : Probe(l, available)
  \/ Silence(l) \/ Activity(l) \/ Answer(l)
  \/ \E how \in {"clean", "broken"} : SessionEnds(l, how)

Next ==
  \/ Cancel \/ RunDeadline \/ EventRefused
  \/ Start \/ Fails
  \/ \E l \in Lenses : Proceed(l) \/ Adapter(l)
  \/ \E marred, late \in BOOLEAN : Summarise(marred, late)

Spec == Init /\ [][Next]_vars

\* Every timer fires and every continuation runs; no adapter need ever answer.
Fairness ==
  /\ WF_vars(Start) /\ WF_vars(Fails)
  /\ WF_vars(\E marred, late \in BOOLEAN : Summarise(marred, late))
  /\ \A l \in Lenses : WF_vars(Proceed(l))

FairSpec == Spec /\ Fairness

-----------------------------------------------------------------------------
(* Properties.                                                             *)

Phases == {"idle", "queued", "granted", "reviewing", "settling",
           "cleaning", "unwinding", "done", "thrown"}

TypeOK ==
  /\ strict \in BOOLEAN /\ cancelled \in BOOLEAN /\ halted \in BOOLEAN /\ poisoned \in BOOLEAN
  /\ main \in {"starting", "reviewing", "finished", "failed"}
  /\ waiting \in Seq(Lenses)
  /\ active \in Nat /\ activeGroups \in [Groups -> Nat]
  /\ slot \in [Lenses -> BOOLEAN]
  /\ pc \in [Lenses -> Phases]
  /\ cut \in [Lenses -> BOOLEAN]
  /\ quiet \in [Lenses -> BOOLEAN]
  /\ answered \in [Lenses -> BOOLEAN]
  /\ session \in [Lenses -> {"open", "clean", "broken"}]
  /\ \A l \in Lenses :
       /\ at[l] \in 1..End(l)
       /\ source[l] \in 0..Count[l]
       /\ passes[l] \subseteq Members(l)
       /\ terminals[l] \in [Members(l) -> Nat]
  /\ lensState \in [Lenses -> {"none", "incomplete", "not_evaluated",
                               "not_applicable", "passed", "findings"}]
  /\ outcome \in {"open", "cancelled", "inconclusive", "gate_findings", "clear"}

Holders == {l \in Lenses : slot[l]}

\* The slots are accounted for: the counters agree with the executions that hold
\* one and respect both limits, the queue is exactly the reviewers that wait and
\* were not aborted, none of them waits beside a free slot, and no slot outlives
\* its execution, whichever way that ended.
Accounted ==
  /\ TypeOK
  /\ active = Cardinality(Holders) /\ active <= MaxConcurrency
  /\ \A g \in Groups :
       /\ activeGroups[g] = Cardinality({l \in Holders : Group(l) = g})
       /\ activeGroups[g] <= ProviderLimit[g]
  /\ ToSet(waiting) = {l \in Lenses : pc[l] = "queued" /\ ~Cut(l)}
  /\ \A l \in ToSet(waiting) : ~Free(Pool, l)
  /\ \A l \in Holders : pc[l] \in Phases \ {"idle", "queued", "done", "thrown"}

Completed(l) == {i \in Members(l) : status[l][i] = "completed"}

\* Why an evaluated lens may count as covered: a quorum of completed passes, a
\* completed finding that needs no adjudication, or a completed adjudication of
\* a completed finding.
Earned(l) ==
  \/ lensState[l] = "not_applicable"
  \/ /\ strict => Completed(l) = Members(l)
     /\ \/ Satisfied(l, {i \in Completed(l) : result[l][i] = "pass4"})
        \/ \E i \in Completed(l) : result[l][i] = "fail4" /\ ~Adjudicated[l]
        \/ \E i, j \in Completed(l) :
             i < j /\ result[l][i] = "fail4" /\ result[l][j] \in {"pass2", "fail2"}

\* The end of a run is honest: each reviewer was recorded as ended exactly once;
\* exit codes 0 and 1 only for a run whose every lens earned its state; exit code 0
\* only if no finding gates, not even one of a reviewer that ended incomplete or of
\* an adjudication that did.
VerdictIsEarned ==
  main = "finished" =>
    /\ \A l \in Lenses : \A i \in Members(l) :
         terminals[l][i] = 1 /\ status[l][i] \in {"completed", "incomplete", "skipped"}
    /\ outcome \in {"clear", "gate_findings"} => \A l \in Lenses : Earned(l)
    /\ outcome = "clear" => ~Gating

\* docs/releases/v10.1.0.md:16 "preserves accepted gate findings across
\* successive adjudicator revisions": in a strict run a finding that gates never
\* stops to, whatever later adjudicators decide or fail to.
AcceptedStays ==
  [][strict => \A l \in Lenses : \A i \in Members(l) :
       finding[l][i] = "strong" => finding'[l][i] = "strong"]_vars

\* What came too late stays too late, across the steps of a session: a reviewer
\* whose session was cut off while it was open never completes, although its
\* result may be recorded, and no event revives a progress deadline that passed.
LateIsFinal ==
  [][\A l \in Lenses :
       /\ pc[l] = "reviewing" /\ Cut(l) => session'[l] # "clean"
       /\ quiet[l] /\ pc'[l] = "reviewing" => quiet'[l] \/ cut'[l] \/ answered'[l]
       /\ Completed(l)' # Completed(l) => session[l] = "clean"]_vars

\* A run accounts for every slot while it goes on and for every reviewer at its
\* end, and ends as what its lenses earned (run-native.ts:1180-1331).
RunIsAccounted == Accounted /\ VerdictIsEarned

\* Neither a later reviewer nor a late event changes what has been decided
\* (run-native.ts:700-960, native-progress.ts:60-110).
DecidedStays == AcceptedStays /\ LateIsFinal

Over(l) == pc[l] \in {"done", "thrown"} \/ ~Started(l)

\* Every run ends, and with it every chain: although an adapter may never answer,
\* ignore its abort or keep sending events, and whoever else's chain has failed.
EveryRunEnds ==
  <>(/\ main \in {"finished", "failed"} /\ active = 0
     /\ \A l \in Lenses : Over(l))
=============================================================================
