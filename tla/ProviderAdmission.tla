------------------------- MODULE ProviderAdmission -------------------------
(***************************************************************************)
(* How a command-adapter run (src/src/orchestrator/run-v9.ts) lets its     *)
(* reviewers reach a provider: a FIFO admission queue in front of a global *)
(* and a per-provider concurrency limit, and one circuit breaker per       *)
(* provider with a cooldown and a single half-open reservation.            *)
(*                                                                         *)
(* The program is one event loop.  An action is what runs between two      *)
(* awaits.  The scan of the admission queue (drainAdmissions) is one       *)
(* synchronous loop: here it takes one step per queue entry, and no other  *)
(* action is enabled while it is under way (cursor # 0).                   *)
(*                                                                         *)
(* Time is abstracted: a provider's cooldown is over or not ("cooled"), a  *)
(* reviewer's boundary (the earliest of its run, lens and candidate        *)
(* deadlines) has passed or not ("expired").                               *)
(***************************************************************************)
EXTENDS Naturals, Sequences, FiniteSets, SequencesExt

CONSTANTS
  Reviewers,         \* reviewers of the run, each executed by one chain
  Groups,            \* provider groups
  GroupOf,           \* the provider group of a reviewer
  MaxConcurrency,    \* execution.max_concurrency
  ProviderLimit,     \* provider_limits[g] ?? default_provider_concurrency
  Threshold,         \* execution.circuit_breaker_threshold
  RetryAttempts,     \* execution.retry_attempts
  NoReviewer         \* "no reservation"

ASSUME ReviewersAssumption == IsFiniteSet(Reviewers) /\ NoReviewer \notin Reviewers
ASSUME GroupAssumption == GroupOf \in [Reviewers -> Groups]
ASSUME LimitAssumption ==
  /\ MaxConcurrency \in Nat \ {0}
  /\ ProviderLimit \in [Groups -> Nat \ {0}]
ASSUME PolicyAssumption ==
  /\ Threshold \in Nat \ {0}
  /\ RetryAttempts \in Nat \ {0}

VARIABLES
  pc,             \* where execute() of each reviewer stands
  attempt,        \* job.attempt
  retryable,      \* failure.retryable of the attempt that just settled
  expired,        \* now() >= boundary
  cancelled,      \* controller.signal.aborted
  queueReason,    \* job.queueReason, the two limits merged
  queue,          \* admissionQueue
  cursor,         \* position of a scan under way, 0 when there is none
  slot,           \* what the reviewer knows of the slot it was given
  executionActive,
  providerActive,
  circuit,        \* circuits, an absent entry being Closed
  stale,          \* circuitRevision moved since this waiter captured it
  wakeAt          \* what the waiter's timer is set to

slots == <<queue, cursor, slot, executionActive, providerActive>>
breaker == <<circuit, stale, wakeAt>>
vars == <<pc, attempt, retryable, expired, cancelled, queueReason, slots,
          breaker>>

Phases == {"idle", "probing", "checking", "announcing", "sleeping", "passed",
           "queued", "granted", "running", "reporting", "rejected", "settled",
           "backoff", "done"}

Closed == [state |-> "closed", failures |-> 0, cooled |-> FALSE,
           owner |-> NoReviewer]

-----------------------------------------------------------------------------
(* The circuit breaker of one provider.                                    *)

Allowed(c, r) ==
  \/ c.state = "closed"
  \/ c.state = "half_open" /\ c.owner = r
  \/ c.state = "open" /\ c.cooled

\* circuitAdmission when it allows: the first reviewer after the cooldown
\* reserves the half-open probe.
Reserved(c, r) ==
  IF c.state = "open" THEN [c EXCEPT !.state = "half_open", !.owner = r] ELSE c

Reopened(c) == [c EXCEPT !.state = "open", !.owner = NoReviewer]

OwnedBy(c, r) == c.state = "half_open" /\ c.owner = r

Opens(c) == c.state = "half_open" \/ c.failures + 1 >= Threshold

\* Mutant: a failure that does not qualify leaves its reservation behind.
AfterFailure_KeepsReservation(c, r, qualifying) ==
  IF qualifying
    THEN [state |-> IF Opens(c) THEN "open" ELSE "closed",
          failures |-> c.failures + 1, cooled |-> FALSE, owner |-> NoReviewer]
    ELSE c

\* recordCircuitFailure, then releaseCircuitReservation.
AfterFailure(c, r, qualifying) ==
  IF qualifying
    THEN [state |-> IF Opens(c) THEN "open" ELSE "closed",
          failures |-> c.failures + 1, cooled |-> FALSE, owner |-> NoReviewer]
    ELSE IF OwnedBy(c, r) THEN Reopened(c) ELSE c

\* Mutants: waiters are not woken; a change of the circuit goes unnoticed by a
\* waiter that is still awaiting its progress event.
Woken_Nobody(phases) == phases
MarkStale_Misses == UNCHANGED stale

\* notifyCircuit: every sleeping waiter wakes, whatever its provider, and a
\* waiter still awaiting its progress event will find the revision changed.
Woken(phases) ==
  [r \in Reviewers |-> IF phases[r] = "sleeping" THEN "checking" ELSE phases[r]]
MarkStale == stale' = [r \in Reviewers |-> stale[r] \/ pc[r] = "announcing"]

Circuit(r) == circuit[GroupOf[r]]
SetCircuit(r, c) == circuit' = [circuit EXCEPT ![GroupOf[r]] = c]

-----------------------------------------------------------------------------
(* Slots.                                                                  *)

Holders == {r \in Reviewers : slot[r] # "free"}
HoldersOf(g) == {r \in Holders : GroupOf[r] = g}

\* Mutants: a release closure that forgets the provider's count, or does not
\* scan the queue.
Freed(r) ==
  /\ slot' = [slot EXCEPT ![r] = "free"]
  /\ executionActive' = executionActive - 1
  /\ UNCHANGED queue

Release_GlobalOnly(r) ==
  IF slot[r] = "held"
    THEN /\ Freed(r)
         /\ cursor' = IF queue = <<>> THEN 0 ELSE 1
         /\ UNCHANGED providerActive
    ELSE UNCHANGED slots

Release_NoScan(r) ==
  IF slot[r] = "held"
    THEN /\ Freed(r)
         /\ providerActive' = [providerActive EXCEPT ![GroupOf[r]] = @ - 1]
         /\ UNCHANGED cursor
    ELSE UNCHANGED slots

\* Mutant: the scan after a release looks at the newest entry only.
Release_NewestFirst(r) ==
  IF slot[r] = "held"
    THEN /\ Freed(r)
         /\ providerActive' = [providerActive EXCEPT ![GroupOf[r]] = @ - 1]
         /\ cursor' = Len(queue)
    ELSE UNCHANGED slots

\* The body of a release closure: idempotent, and followed by a scan.
Release(r) ==
  IF slot[r] = "held"
    THEN /\ slot' = [slot EXCEPT ![r] = "free"]
         /\ executionActive' = executionActive - 1
         /\ providerActive' = [providerActive EXCEPT ![GroupOf[r]] = @ - 1]
         /\ cursor' = IF queue = <<>> THEN 0 ELSE 1
         /\ UNCHANGED queue
    ELSE UNCHANGED slots

-----------------------------------------------------------------------------
Init ==
  /\ pc = [r \in Reviewers |-> "idle"]
  /\ attempt = [r \in Reviewers |-> 0]
  /\ retryable = [r \in Reviewers |-> FALSE]
  /\ expired = [r \in Reviewers |-> FALSE]
  /\ cancelled = FALSE
  /\ queueReason = [r \in Reviewers |-> "none"]
  /\ queue = <<>>
  /\ cursor = 0
  /\ slot = [r \in Reviewers |-> "free"]
  /\ executionActive = 0
  /\ providerActive = [g \in Groups |-> 0]
  /\ circuit = [g \in Groups |-> Closed]
  /\ stale = [r \in Reviewers |-> FALSE]
  /\ wakeAt = [r \in Reviewers |-> "boundary"]

Idle == cursor = 0

\* The top of the attempt loop: a new attempt, or the end of the reviewer when
\* the run is aborted or its boundary has passed.
BeginAttempt(r) ==
  /\ Idle
  /\ pc[r] \in {"idle", "backoff"}
  /\ attempt[r] < RetryAttempts
  /\ attempt' = [attempt EXCEPT ![r] = @ + 1]
  /\ pc' = [pc EXCEPT ![r] =
              IF expired[r] \/ cancelled THEN "done" ELSE "probing"]
  /\ queueReason' = [queueReason EXCEPT ![r] = "none"]
  /\ UNCHANGED <<retryable, expired, cancelled, slots, breaker>>

ProbeReady(r) ==
  /\ Idle
  /\ pc[r] = "probing"
  /\ ~cancelled
  /\ pc' = [pc EXCEPT ![r] = "checking"]
  /\ UNCHANGED <<attempt, retryable, expired, cancelled, queueReason, slots,
                 breaker>>

\* catch and finally of one attempt: the circuit hears of the failure, then
\* the slot is released.
Settle(r, qualifying, again) ==
  LET c == Circuit(r)
  IN /\ SetCircuit(r, AfterFailure(c, r, qualifying))
     /\ retryable' = [retryable EXCEPT ![r] = again]
     /\ IF qualifying \/ OwnedBy(c, r)
          THEN /\ pc' = Woken([pc EXCEPT ![r] = "settled"])
               /\ MarkStale
          ELSE /\ pc' = [pc EXCEPT ![r] = "settled"]
               /\ UNCHANGED stale
     /\ Release(r)
     /\ UNCHANGED <<attempt, expired, cancelled, queueReason, wakeAt>>

\* An unavailable adapter, or a probe past its deadline.  A failure the adapter
\* calls retryable is tried again; it qualifies too, unless it is one of
\* authentication or of the model, and no other does.
ProbeFails(r, qualifying, again) ==
  /\ Idle
  /\ pc[r] = "probing"
  /\ cancelled => ~again
  /\ qualifying => again
  /\ Settle(r, qualifying, again)

\* One turn of waitForCircuit, up to its first await.
CheckCircuit(r) ==
  /\ Idle
  /\ pc[r] = "checking"
  /\ \/ /\ expired[r] \/ cancelled
        /\ pc' = [pc EXCEPT ![r] = "rejected"]
        /\ UNCHANGED <<breaker, queueReason>>
     \/ /\ ~expired[r] /\ ~cancelled
        /\ Allowed(Circuit(r), r)
        /\ SetCircuit(r, Reserved(Circuit(r), r))
        /\ queueReason' = [queueReason EXCEPT ![r] =
                             IF @ = "circuit_cooldown" THEN "none" ELSE @]
        /\ pc' = [pc EXCEPT ![r] = "passed"]
        /\ UNCHANGED <<stale, wakeAt>>
     \/ /\ ~expired[r] /\ ~cancelled
        /\ ~Allowed(Circuit(r), r)
        /\ queueReason' = [queueReason EXCEPT ![r] = "circuit_cooldown"]
        /\ wakeAt' = [wakeAt EXCEPT ![r] =
                        IF Circuit(r).state = "open" THEN "cooldown"
                                                     ELSE "boundary"]
        /\ stale' = [stale EXCEPT ![r] = FALSE]
        /\ pc' = [pc EXCEPT ![r] = "announcing"]
        /\ UNCHANGED circuit
  /\ UNCHANGED <<attempt, retryable, expired, cancelled, slots>>

\* The progress event is out: register as a waiter, unless the run was aborted
\* or the circuit moved meanwhile.
Announced(r) ==
  /\ Idle
  /\ pc[r] = "announcing"
  /\ pc' = [pc EXCEPT ![r] = IF cancelled THEN "rejected"
                             ELSE IF stale[r] THEN "checking"
                             ELSE "sleeping"]
  /\ stale' = [stale EXCEPT ![r] = FALSE]
  /\ UNCHANGED <<attempt, retryable, expired, cancelled, queueReason, slots,
                 circuit, wakeAt>>

TimerWakes(r) ==
  /\ Idle
  /\ pc[r] = "sleeping"
  /\ expired[r] \/ (wakeAt[r] = "cooldown" /\ Circuit(r).cooled)
  /\ pc' = [pc EXCEPT ![r] = "checking"]
  /\ UNCHANGED <<attempt, retryable, expired, cancelled, queueReason, slots,
                 breaker>>

\* acquireAdmission: join the queue and scan it.
Enqueue(r) ==
  /\ Idle
  /\ pc[r] = "passed"
  /\ queue' = Append(queue, r)
  /\ cursor' = 1
  /\ pc' = [pc EXCEPT ![r] = "queued"]
  /\ UNCHANGED <<attempt, retryable, expired, cancelled, queueReason, slot,
                 executionActive, providerActive, breaker>>

-----------------------------------------------------------------------------
(* drainAdmissions, one queue entry per step.                              *)

\* Mutant: the provider's own limit is not looked at.
Full_GlobalOnly(r) == executionActive >= MaxConcurrency

Full(r) ==
  \/ providerActive[GroupOf[r]] >= ProviderLimit[GroupOf[r]]
  \/ executionActive >= MaxConcurrency

ScanRejects(r) ==
  /\ expired[r] \/ cancelled
  /\ queue' = RemoveAt(queue, cursor)
  /\ pc' = [pc EXCEPT ![r] = "rejected"]
  /\ UNCHANGED <<slot, executionActive, providerActive, queueReason, cursor>>

ScanSkips(r) ==
  /\ ~expired[r] /\ ~cancelled
  /\ Full(r)
  /\ queueReason' = [queueReason EXCEPT ![r] = "limit"]
  /\ cursor' = cursor + 1
  /\ UNCHANGED <<pc, queue, slot, executionActive, providerActive>>

ScanAdmits(r) ==
  /\ ~expired[r] /\ ~cancelled
  /\ ~Full(r)
  /\ providerActive' = [providerActive EXCEPT ![GroupOf[r]] = @ + 1]
  /\ executionActive' = executionActive + 1
  /\ slot' = [slot EXCEPT ![r] = "held"]
  /\ queue' = RemoveAt(queue, cursor)
  /\ pc' = [pc EXCEPT ![r] = "granted"]
  /\ UNCHANGED <<queueReason, cursor>>

ScanStep ==
  /\ cursor \in 1..Len(queue)
  /\ LET r == queue[cursor]
     IN ScanRejects(r) \/ ScanSkips(r) \/ ScanAdmits(r)
  /\ UNCHANGED <<attempt, retryable, expired, cancelled, breaker>>

ScanEnds ==
  /\ cursor > Len(queue)
  /\ cursor' = 0
  /\ UNCHANGED <<pc, attempt, retryable, expired, cancelled, queueReason,
                 queue, slot, executionActive, providerActive, breaker>>

-----------------------------------------------------------------------------
\* Mutant: the timer rejects the reviewer and leaves its entry in the queue.
QueueTimeout_LeavesEntry(r) ==
  /\ Idle
  /\ pc[r] = "queued"
  /\ expired[r]
  /\ pc' = [pc EXCEPT ![r] = "rejected"]
  /\ UNCHANGED <<attempt, retryable, expired, cancelled, queueReason, slots,
                 breaker>>

\* The queue timer aborts a reviewer that is still queued at its boundary.
QueueTimeout(r) ==
  /\ Idle
  /\ pc[r] = "queued"
  /\ expired[r]
  /\ \E i \in 1..Len(queue) : queue[i] = r /\ queue' = RemoveAt(queue, i)
  /\ pc' = [pc EXCEPT ![r] = "rejected"]
  /\ UNCHANGED <<attempt, retryable, expired, cancelled, queueReason, cursor,
                 slot, executionActive, providerActive, breaker>>

\* Mutant: the circuit is not asked again once the slot is granted.
Resume_NoRecheck(r) ==
  /\ Idle
  /\ pc[r] = "granted"
  /\ pc' = [pc EXCEPT ![r] =
              IF expired[r] \/ cancelled THEN "rejected" ELSE "running"]
  /\ UNCHANGED <<attempt, retryable, expired, cancelled, queueReason, slots,
                 breaker>>

\* The reviewer resumes with its slot and asks the circuit again: the request
\* starts, or the slot goes back and the wait starts over.
Resume(r) ==
  /\ Idle
  /\ pc[r] = "granted"
  /\ \/ /\ expired[r] \/ cancelled
        /\ pc' = [pc EXCEPT ![r] = "rejected"]
        /\ UNCHANGED <<slots, circuit, queueReason>>
     \/ /\ ~expired[r] /\ ~cancelled
        /\ Allowed(Circuit(r), r)
        /\ SetCircuit(r, Reserved(Circuit(r), r))
        /\ pc' = [pc EXCEPT ![r] = "running"]
        /\ queueReason' = [queueReason EXCEPT ![r] = "none"]
        /\ UNCHANGED slots
     \/ /\ ~expired[r] /\ ~cancelled
        /\ ~Allowed(Circuit(r), r)
        /\ Release(r)
        /\ pc' = [pc EXCEPT ![r] = "checking"]
        /\ UNCHANGED <<circuit, queueReason>>
  /\ UNCHANGED <<attempt, retryable, expired, cancelled, stale, wakeAt>>

\* The result is accepted: the circuit closes before the terminal record and
\* event are awaited, the slot is given back after them.
RequestSucceeds(r) ==
  /\ Idle
  /\ pc[r] = "running"
  /\ SetCircuit(r, Closed)
  /\ pc' = Woken([pc EXCEPT ![r] = "reporting"])
  /\ MarkStale
  /\ UNCHANGED <<attempt, retryable, expired, cancelled, queueReason, slots,
                 wakeAt>>

\* Mutant: an accepted result never gives its slot back.
ReportingDone_KeepsSlot(r) ==
  /\ Idle
  /\ pc[r] = "reporting"
  /\ pc' = [pc EXCEPT ![r] = "done"]
  /\ UNCHANGED <<attempt, retryable, expired, cancelled, queueReason, slots,
                 breaker>>

ReportingDone(r) ==
  /\ Idle
  /\ pc[r] = "reporting"
  /\ Release(r)
  /\ pc' = [pc EXCEPT ![r] = "done"]
  /\ UNCHANGED <<attempt, retryable, expired, cancelled, queueReason, breaker>>

\* The provider failed, or the attempt ran out of time.  After an abort the
\* failure is the abort's own, which neither qualifies nor is retried.
RequestFails(r, qualifying, again) ==
  /\ Idle
  /\ pc[r] = "running"
  /\ cancelled => ~qualifying /\ ~again
  /\ Settle(r, qualifying, again)

SettleRejected(r) ==
  /\ Idle
  /\ pc[r] = "rejected"
  /\ Settle(r, FALSE, FALSE)

\* After the attempt record: back off for another attempt, or fail for good.
Decide(r) ==
  /\ Idle
  /\ pc[r] = "settled"
  /\ pc' = [pc EXCEPT ![r] =
              IF /\ retryable[r] /\ attempt[r] < RetryAttempts
                 /\ ~expired[r] /\ ~cancelled
              THEN "backoff" ELSE "done"]
  /\ UNCHANGED <<attempt, retryable, expired, cancelled, queueReason, slots,
                 breaker>>

-----------------------------------------------------------------------------
(* The environment.                                                        *)

CooldownElapses(g) ==
  /\ Idle
  /\ circuit[g].state = "open"
  /\ ~circuit[g].cooled
  /\ circuit' = [circuit EXCEPT ![g].cooled = TRUE]
  /\ UNCHANGED <<pc, attempt, retryable, expired, cancelled, queueReason,
                 slots, stale, wakeAt>>

BoundaryPasses(r) ==
  /\ Idle
  /\ pc[r] # "done"
  /\ ~expired[r]
  /\ expired' = [expired EXCEPT ![r] = TRUE]
  /\ UNCHANGED <<pc, attempt, retryable, cancelled, queueReason, slots,
                 breaker>>

\* controller.abort(): the abort listeners empty the queue and reject every
\* sleeping waiter at once.
AbortAll(phases) ==
  /\ cancelled' = TRUE
  /\ queue' = <<>>
  /\ pc' = [r \in Reviewers |-> IF phases[r] \in {"queued", "sleeping"}
                                  THEN "rejected" ELSE phases[r]]

\* The caller cancels the run or the run deadline fires.
Cancel ==
  /\ Idle
  /\ ~cancelled
  /\ AbortAll(pc)
  /\ UNCHANGED <<attempt, retryable, expired, queueReason, cursor, slot,
                 executionActive, providerActive, breaker>>

AwaitsEmit(r) ==
  \/ pc[r] \in {"probing", "announcing", "running", "reporting"}
  \/ pc[r] \in {"queued", "granted"} /\ queueReason[r] = "limit"

\* An event cannot be persisted: emit() aborts the run and throws in the
\* reviewer that awaited it.  One that had been granted a slot meanwhile never
\* gets its release closure.
PersistenceFails(r) ==
  /\ Idle
  /\ ~cancelled
  /\ AwaitsEmit(r)
  /\ AbortAll([pc EXCEPT ![r] = "rejected"])
  /\ slot' = [slot EXCEPT ![r] = IF pc[r] = "granted" THEN "lost" ELSE @]
  /\ UNCHANGED <<attempt, retryable, expired, queueReason, cursor,
                 executionActive, providerActive, breaker>>

Step(r) ==
  \/ BeginAttempt(r) \/ ProbeReady(r) \/ CheckCircuit(r) \/ Announced(r)
  \/ TimerWakes(r) \/ Enqueue(r) \/ QueueTimeout(r) \/ Resume(r)
  \/ RequestSucceeds(r) \/ ReportingDone(r) \/ SettleRejected(r) \/ Decide(r)
  \/ \E qualifying, again \in BOOLEAN :
       ProbeFails(r, qualifying, again) \/ RequestFails(r, qualifying, again)

Next ==
  \/ \E r \in Reviewers : Step(r) \/ BoundaryPasses(r) \/ PersistenceFails(r)
  \/ \E g \in Groups : CooldownElapses(g)
  \/ ScanStep \/ ScanEnds
  \/ Cancel

Spec == Init /\ [][Next]_vars

\* What makes every attempt end: each reviewer's steps, the scan and the
\* cooldown are driven by the event loop, by the attempt timer and by the
\* cooldown timer.  Aborts and boundaries are never assumed to come.
Fairness ==
  /\ \A r \in Reviewers : WF_vars(Step(r))
  /\ \A g \in Groups : WF_vars(CooldownElapses(g))
  /\ WF_vars(ScanStep) /\ WF_vars(ScanEnds)

FairSpec == Spec /\ Fairness

-----------------------------------------------------------------------------
(* Properties.                                                             *)

CircuitType ==
  [state : {"closed", "open", "half_open"}, failures : Nat, cooled : BOOLEAN,
   owner : Reviewers \cup {NoReviewer}]

\* The values every variable takes (the queue holds reviewers).
TypeOK ==
  /\ pc \in [Reviewers -> Phases]
  /\ attempt \in [Reviewers -> Nat]
  /\ retryable \in [Reviewers -> BOOLEAN]
  /\ expired \in [Reviewers -> BOOLEAN]
  /\ cancelled \in BOOLEAN
  /\ queueReason \in [Reviewers -> {"none", "circuit_cooldown", "limit"}]
  /\ queue \in Seq(Reviewers)
  /\ cursor \in Nat
  /\ slot \in [Reviewers -> {"free", "held", "lost"}]
  /\ executionActive \in Nat
  /\ providerActive \in [Groups -> Nat]
  /\ circuit \in [Groups -> CircuitType]
  /\ stale \in [Reviewers -> BOOLEAN]
  /\ wakeAt \in [Reviewers -> {"cooldown", "boundary"}]

\* The two kinds of counters agree with the slots actually occupied, and no
\* limit is exceeded, although a slot is taken in the scan, kept across awaits
\* and given back on a dozen different paths.
SlotsAccounted ==
  /\ executionActive = Cardinality(Holders)
  /\ executionActive <= MaxConcurrency
  /\ \A g \in Groups :
       /\ providerActive[g] = Cardinality(HoldersOf(g))
       /\ providerActive[g] <= ProviderLimit[g]

\* A slot belongs to a reviewer that was granted one and has not settled yet;
\* a slot is lost only after the run was aborted.
SlotsHaveOwners ==
  \A r \in Reviewers :
    /\ slot[r] = "held" => pc[r] \in {"granted", "running", "reporting", "rejected"}
    /\ pc[r] \in {"granted", "running", "reporting"} => slot[r] = "held"
    /\ slot[r] = "lost" => cancelled

\* The queue is exactly the reviewers waiting for a slot, each once.
QueueIsWaiters ==
  /\ \A r \in Reviewers : pc[r] = "queued" <=> \E i \in 1..Len(queue) : queue[i] = r
  /\ \A i, j \in 1..Len(queue) : queue[i] = queue[j] => i = j

\* Between two turns of the event loop nobody waits for a slot that is free:
\* every change that can free one is followed by a scan.
NoIdleSlot ==
  Idle => \A i \in 1..Len(queue) : expired[queue[i]] \/ Full(queue[i])

\* Nobody in the queue is forgotten, whatever ends beside it: it is exactly the
\* reviewers that wait, and none of them waits between two turns for a slot that
\* is free (drainAdmissions).
WaitersAreServed == TypeOK /\ QueueIsWaiters /\ NoIdleSlot

\* A half-open reservation belongs to a reviewer of that provider that is on
\* its way to the request or in it: no path leaves the provider reserved for
\* nobody, which would block every other reviewer until its deadline.
ReservationIsLive ==
  \A g \in Groups :
    circuit[g].state = "half_open" =>
      \E r \in Reviewers :
        /\ circuit[g].owner = r
        /\ GroupOf[r] = g
        /\ pc[r] \in {"passed", "queued", "granted", "running", "rejected"}

\* No wakeup is lost: a reviewer asleep on its provider's circuit has an armed
\* cooldown timer, or the circuit is reserved by another one whose end wakes it.
SleeperWillWake ==
  \A r \in Reviewers :
    pc[r] = "sleeping" \/ (pc[r] = "announcing" /\ ~stale[r] /\ ~cancelled) =>
      \/ wakeAt[r] = "cooldown" /\ Circuit(r).state # "closed"
      \/ Circuit(r).state = "half_open" /\ Circuit(r).owner # r

Starts(r) == pc[r] # "running" /\ pc'[r] = "running"

\* A request starts only while its provider's circuit admits it at that very
\* moment: never in the cooldown, never beside somebody else's reservation,
\* whatever happened while the reviewer waited for its slot.
StartRespectsCircuit ==
  [][\A r \in Reviewers : Starts(r) => Allowed(Circuit(r), r)]_vars

\* Every reviewer comes to an end without any deadline or cancellation: no
\* cooldown, reservation or full pool blocks it forever.
EveryReviewerEnds == <>[](\A r \in Reviewers : pc[r] = "done")

\* Queue, scan and release implement a pool with one line in front of it: a slot
\* goes to the first of those waiting that fits when it is granted, although the
\* queue changes under a scan and slots come free in any order (drainAdmissions).
Pool == INSTANCE SlotPool WITH holders <- Holders, line <- queue
PoolSpec == Pool!Spec
=============================================================================
