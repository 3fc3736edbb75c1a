# review-mesh in TLA+

`review-mesh` runs several AI reviewers over one change, groups them into
*lenses*, and turns their results into a verdict, an exit code and durable
records. This directory models the parts of it that several actors touch:
asynchronous chains on one event loop, processes that share files, SDK sessions
and their consumers, a dashboard page and its server. A unit test with a mocked
clock hardly reaches their interleavings; a model checker does.

Paths below are relative to the repository root (`src/` in `PROJECT.json` stands
for that root).

## Inventory

| Part | Code | State | What is hard, what must hold | Modules |
| --- | --- | --- | --- | --- |
| Admission queue, limits, circuit breakers | `src/orchestrator/run-v9.ts` | queue, slot counters, circuits, waiters, attempts | decisions read before an await and used after it; slots released on many paths; lost wake-ups; dead reservations | `ProviderAdmission`, `SlotPool` |
| Event delivery | `src/protocol/v9-event-writer.ts`, `run-v9.ts`, `src/app-v9.ts` | promise tail, sequence, terminal, failures | three kinds of failure at every await; heartbeats while sealing; an honest exit code | `EventDelivery`, `PublicStream` |
| Lens chains, verdict, retry | `run-v9.ts`, `lens-policy.ts`, `review-feasibility.ts`, `diagnostics/retry-v9.ts` | lens states, results, ledgers, inherited results | order of passes, findings, failures, deadlines; a verdict is earned and final | `LensChain` |
| Native run | `run-native.ts`, `native-progress.ts` | slots, sessions, watchdogs, dispositions | late events, strict evaluation, adapters that never answer | `NativeRun` |
| Legacy run | `run-review.ts`, `state.ts` | roster, workers, semaphores, circuits, page storage | a worker that throws while others go on; cut waits; adjudication | `LegacyRun` |
| Run artifact | `diagnostics/run-artifact.ts`, `run-v9.ts`, `app-v9.ts` | append queue, active file, copies | poisoning, interleaved records, a crash between two steps of the publication | `RunArtifact` |
| Run index | `diagnostics/run-index.ts` | entry, update directory, journal | a crash between two file operations, two recoveries | `RunIndex` |
| Legacy records, stream, reports | `protocol/event-writer.ts`, `run-recorder.ts`, `run-report.ts`, `run-status.ts`, `run-record-reader.ts`, `app-legacy.ts` | mirror, recorder queue, active and published records | bounded mirror, torn lines, concurrent retention and scavenging, what readers may say | `RunRecord` |
| Result pages | `results/result-pages.ts`, `adapters/sdk-pages.ts` | collector, preservation, repair budgets | nothing returned once disappears, whatever is repaired or retried | `ResultPages` |
| Result spool | `adapters/result-spool.ts` | spool directories, index, cursor, manifests | crashes, windowed sweeps by several processes, retention | `ResultSpool` |
| Provider adapters and runtimes | `adapters/*.ts`, `runtime/*.ts` | generator, session, process, private home, staged pages | cleanup beside a running process, a consumer that leaves, sandbox fallback | `NativeSession`, `PagedSession` |
| Configuration | `src/config/*` | the file, its lock, sessions in memory | two editors, hand edits, crashes; consent to weaker coverage; migration keeps the policy | `ConfigStore`, `ConfigPolicy` |
| Dashboard | `src/server/*` | fingerprint, clients, stream, timers, requests | late answers, changes during a refresh, polling fallback | `Dashboard` |
| Run control, change coverage, findings, deadlines, projections, context, CLI, schemas, evaluation | see *Not modelled* | | | |

### How the parts interact

`runV9App` opens the artifact, creates the event writer and calls `runV9Review`
(command adapters) or `runNativeReview` (vendor SDKs). Either starts one *chain*
per lens; a chain executes one reviewer at a time: wait for the circuit, queue for
a slot, run the adapter's session, record the result. The adapter collects the
result page by page, each page in a private spool until it is in the artifact.
All chains share the slots, the abort signal and the writer. When all have ended
the summary is made, the artifact sealed, copied, published and indexed, and the
terminal line written. A retry reads a sealed artifact and inherits results. The
legacy engine does the same with its own writer and recorder. The dashboard and
the report commands read the records of all of them.

Each engine runs on one event loop, so an action of its model is what happens
between two awaits. Processes (runs, recoveries, editors of the configuration,
hosts with spools) share nothing but files, so there an action is one file
operation, or several that no other process can tell apart.

## Modules

`SlotPool` and `PublicStream` are abstract specifications; `ProviderAdmission` and
`EventDelivery` are shown to implement them. The `MC*` modules instantiate the
others for TLC. Four of them hold several modules: `MCCommandRun` (`LensChain`,
`EventDelivery`), `MCArtifacts` (`RunArtifact`, `RunIndex`) and `MCConfiguration`
(`ConfigStore`, `ConfigPolicy`) extend theirs, so that TLC evaluates the assumptions
of each; the names of the second carry a prefix (`EventsSpec`, `IndexNext`, `entry`,
`process`) where they would meet those of the first. `MCConversations`
(`NativeSession`, `PagedSession`, `ResultPages`) instantiates them. The parts do
not meet: what one knows of the other is abstracted to every possible outcome
inside it. A variable `side` names the part that goes on, the others rest in an
initial state, and fairness is stated for the side that goes on.

Eight modules hold the theorems. `ProviderAdmission_proofs`, `NativeRun_proofs` and
`LegacyRun_proofs` are about the module they name, `CommandRun_proofs`,
`Artifacts_proofs` and `Conversations_proofs` about those the `MC` module of that name
joins, `Records_proofs` about `RunRecord` and `ResultSpool`, `UserSide_proofs` about
`Dashboard`, `ConfigStore` and `ConfigPolicy`.

Mutated forms of an operator stand before it under the name
`Operator_WhatIsWrong`, each with the mistake it makes. They are used by no
specification; `PROJECT.json` names the property each of them breaks.

### ProviderAdmission

`pc` follows `execute()` through its awaits: `probing`, `checking`, `announcing`
and `sleeping` (`waitForCircuit`: before, while emitting the progress event,
registered as a waiter), `passed`, `queued` (`acquireAdmission`), `granted` (slot
given, continuation not yet run), `running`, `reporting` (terminal record and
event being awaited), `rejected` (an exception on its way to `catch`), `settled`,
`backoff`, `done`. `drainAdmissions` is one synchronous loop; the model takes one
step per queue entry and disables everything else meanwhile (`cursor # 0`), so no
interleaving is added. A half-open circuit remembers its reviewer, an open one
whether its cooldown has passed. `stale` stands for the comparison of
`circuitRevision`. Time is "the boundary has passed" and "the cooldown has
passed"; both may happen at any moment.

### EventDelivery

`queue` is the chain of promises behind `tail`; its head is materialised, recorded
and written. `ahead` counts the operations before the point where the main line
awaits `tail`. Every await has its failing outcome: validation, append (which
poisons the artifact), output (error, closed pipe, not drained in time), sealing,
index. The verdict is any of three; a cancelled run (exit code 4) takes the same
path and is part of `LensChain`.

### LensChain

`at` is the position of each lens's loop; `Completes` and `Fails` are the two ways
`execute` returns, with every branch the loop takes afterwards. `result` is what
was recorded, also by a reviewer that ended incomplete. Canonicalisation decides
which recorded findings gate: any or none of them here. Coverage ledgers are left
out: no exit code depends on them. `Retry` replaces the run by one that inherits
completed reviewers when scope and policy are the same.

### NativeRun

`pc` follows `runReviewer` of the native engine from the queue to the cleanup in
its `finally`. `quiet` is the progress deadline that has passed while its timer is
still to run; an event may arrive in between. `answered` and `session` tell a
recorded result from a session that ended well. A finding is `strong` or `weak`
by whether it gates. `Leave` is the `remove` of a waiter, `Wake` the pass of
`acquire` over a copy of the queue that grants what fits. Every reviewer has a
provider group and every group a positive limit, as the configuration's schema has
it (`NativeGroupsAssumption`). With the strict profile further adjudicators revise what an
earlier one decided (`Revised`). An output failure or a changed workspace is
`marred`.

### LegacyRun

A few workers take the lenses in their order. A promise continuation runs before
any timer or outside callback: the steps that resume urgently are taken first
(`Resumed`). The semaphore's queue keeps an entry whose wait was cut, as the code
does; `told` counts the terminal events of a reviewer, `storage` follows the pages
of its result. The engine is reached through `app-legacy.ts`, that is, by the
compatibility fixtures. Its heartbeat and telemetry are left out.

### RunArtifact and RunIndex

`queue` holds the operations behind `tail` with the records each has still to
append; one step appends one record. After a failed operation the queue is
poisoned, and since every path of `execute` needs it the execution is `broken`. A
line is its kind, its reviewer and its number; `Torn` is what an append leaves
that was cut short. `LineAccepted` and `WholeAccepted` are the conditions of
`readRunArtifact`, written independently of how the file is produced. No step is
forced, so the properties also describe what a crash leaves.

The index `entry` is an inode rewritten in place, `TornEntry` from its first
changed byte to its last; `process` is where the publisher and each recovery stand;
`update` is the directory `<index>.update` with its journal and the claim of a
recovery (`NoClaim` without). `SentinelsAssumption` keeps these values apart from
documents. `Same` compares identities as `archiveUpdate` does;
`Claim` does not, because the code claims by path. History variables name the two
executions in which the code's guarantee is void: `strayed` (a recovery claimed
another directory than it had seen) and `stale` (a process died between writing
its journal and comparing its snapshot again).

### RunRecord

The writer's bounded mirror, the recorder's queue and its publication (link,
marker, unlink, retention), the retention of another run's recorder, scavenging of
an abandoned active file, and the readers of the report and the status as
operators over the file's lines (`Answer`). `run.completed` and its result are one
line; heartbeats are written but not kept; age, process ids and their reuse are
collapsed into "looks abandoned"; the other run's sweep begins once this recorder
closes.

### ResultPages and ResultSpool

`ResultPages` has a provider that may answer anything, the collector that accepts
a page or rejects it, and `kept`, what pages of this or an abandoned attempt
oblige later ones to. `returned` is history: the valid items ever shown. The
collector takes the items of a page in order up to the first that makes it stop;
the model says which one that is, and what was kept before it, in place of the loop.
`ResultSpool` has hosts that create spools in the code's order (sweep, mkdir,
index, open, write), record them, abandon them and die anywhere. The age of a
directory is in ticks. I/O failures and identity checks are left out.

### NativeSession and PagedSession

`NativeSession` is one job of the native engine with the generator of an SDK
adapter: `op` follows the generator, `job` its consumer, `runtime` and `home` what
exists outside. A generator suspended at a yield goes on only when pulled, and an
`iterator.return()` that meets a running generator is taken at its next yield.
`PagedSession` is `run()` of the four adapters that collect a result in pages:
turns, repairs, spools of accepted pages, Claude's fallback from its sandbox, a
command's latched line and exit. A consumer that leaves first lets the generator run
to its next yield, which nobody receives (`leaving`); spools that a result takes
along into such a yield are `lost`. An abort is noticed where each adapter looks for
it: Codex looks with every event of a turn, not after the last. `ResultPages` decides what a page is worth;
here it is accepted or not. The Claude, Copilot and Codex review adapters are
reached by tests only, the command adapter in production.

### ConfigStore and ConfigPolicy

`ConfigStore` has menus and machine sessions (export, edit, apply, view) that load
the file, change it, ask for confirmation, and save: compare, write a temporary
file, lock, compare again, rename, read back. Hand edits, I/O failures and crashes
come between any two steps. A configuration is the kind of document, the coverage
proof and kind of adapter of every agent, the defaults and the rosters.
`ConfigPolicy` is pure: one step per function from a document of version 5, 6 or 7
to the lenses, risks and engine it means. It contains the outage tolerance and the
provider concentration as each of the three files computes them. `WrittenDocument`
is the shape of what may be written, `Documents` the part of it an instance visits.

### Dashboard

What the records hold is one number that grows. A request carries whether it is
still the latest of its kind (`requestGeneration`), and what was read when it was
answered. `timers`, `refreshing` and `queued` are the page's own; polls of the
server that find nothing new are left out.

## Runs

| Run | Instance | States | Shows |
| --- | --- | --- | --- |
| `ProviderAdmission_contention` | four reviewers of two providers, two slots, one and two per provider, one attempt each, one boundary | 2.4 M | `SlotsAccounted`, `SlotsHaveOwners`, `WaitersAreServed`, `PoolSpec`, `StartRespectsCircuit` |
| `ProviderAdmission_retries` | two reviewers of one provider, three attempts, threshold two, fairness | 0.32 M | `SleeperWillWake`, `ReservationIsLive`, `EveryReviewerEnds` |
| `CommandRun_ends` | lenses of three and one reviewers, a run and its retry; two chains of two events, three heartbeats; fairness | 0.41 M | `VerdictsAreEarned`, `EndIsHonest`, `RetryKeepsVerdict`, `NothingAfterVerdict`, `DeliveryIsTold`, `StreamSpec`, `EveryRunEnds` |
| `Artifacts_disk` | two executions of two attempts, two pages each, one event; the run and two recoveries of its index entry | 2.4 M | `FileIsReadable`, `CopySurvives`, `IndexStaysWhole`, `OthersAreLeftAlone` |
| `NativeRun_chains` | lenses of three and one reviewers sharing a provider with one slot, fairness | 0.46 M | `RunIsAccounted`, `DecidedStays`, `EveryRunEnds` |
| `LegacyRun_lenses` | lenses of two and one reviewers, two attempts, two workers, fairness | 0.65 M | `EndsAreEarned`, `NothingIsStranded`, `EveryRunSettles` |
| `RunRecord_runs` | two reviewers, a mirror of one pending line, one heartbeat, one fault, an older and an unmarked record, fairness | 0.81 M | `RecordIsHonest`, `RetentionKeepsNewest`, `EveryRecordEnds` |
| `RunRecord_passed` | the same without the heartbeat | | `PassedIsComplete`, violated |
| `ResultSpool_pages` | two hosts, four spools, an index of two swept one at a time, one crash, fairness | 0.44 M | `PagesAreSafe`, `WipedInTheEnd` |
| `Conversations_all` | all three native SDKs with two activity events; all four paged adapters with two pages and one repair; results of three pages in two attempts; fairness | 0.13 M | `CleanupIsSafe`, `SessionsAreHonest`, `NothingDropped`, `EveryConversationEnds` |
| `Configuration_edits` | a menu and a machine session, two choices, one accident; policies of versions 5 to 7 over five run lists; fairness | 0.63 M | `PolicySurvives`, `SavesAreFaithful`, `AttestedIsConfirmed`, `EverySaveEnds` |
| `Dashboard_page` | one run and one reviewer, one change, one move, one fault, fairness | 0.34 M | `NothingGoesBack`, `EveryChangeShows` |

What the properties say:

- `WaitersAreServed`: the queue is exactly who waits, and nobody waits beside a
  free slot. `SlotsAccounted`, `SlotsHaveOwners`: counters equal slots occupied,
  every slot has an owner. `PoolSpec`: queue, scan and release implement a pool with
  one line, in which a slot goes to the first that fits.
- `VerdictsAreEarned`: a passed lens has its quorum of distinct providers and no
  open finding, and one is called unreachable only when it is. `EndIsHonest`: exit
  code and coverage agree with what every reviewer came to, and each is accounted
  for. `NothingAfterVerdict`: a decided lens keeps its verdict and starts no one.
- `DeliveryIsTold`: what is public was recorded before; a failed delivery is told
  by summary, index and exit code; heartbeats never decide a run.
- `FileIsReadable`: a reader accepts the file while it grows and as a whole once
  sealed. `CopySurvives`: the spare copy goes only when a complete one is named.
  `OthersAreLeftAlone`: nothing follows a seal or a torn line, and a live process
  keeps its update directory.
- `IndexStaysWhole`: one writer, torn only under a complete journal, and no
  acknowledged change lost.
- `RunIsAccounted`, `DecidedStays`: slots and verdicts of the native engine; an
  accepted finding stays accepted, and a session cut off never completes.
- `EndsAreEarned`, `NothingIsStranded`: the same promises of the legacy engine,
  also when a worker throws; pages behind results follow the run's fate.
- `RecordIsHonest`: a completed record holds the public stream in its order, and a
  reader says what the run said.
- `PagesAreSafe`, `WipedInTheEnd`: a spool with bytes is in the index, is not wiped
  before its page is recorded, and is wiped in the end.
- `CleanupIsSafe`: a home outlives its process, a slot its session, a delivered
  review its cleanup. `SessionsAreHonest`: each accepted page has one owner,
  isolation is reported as it was, and turns are bounded. `NothingDropped`: a
  delivered result contains every valid item ever returned, as first returned.
- `SavesAreFaithful`: no update is lost, one choice per save, a view is of its
  revision. `AttestedIsConfirmed`: weaker coverage is the user's decision.
  `PolicySurvives`: migration keeps quorums; what one provider's outage can stop
  was acknowledged.
- `NothingGoesBack`, `EveryChangeShows`: what the page shows never gets older, and
  gets current in the end, or shows an error.

### Bounds

The instances are the smallest in which the interesting cases meet. Two
reviewers of each of two providers give a running one, one of a full provider that
is passed over, and two that wait in the order in which they are to be served;
`FewBoundaries` lets one of the four meet its deadline, and the other run of the
module any number. Three attempts of two reviewers give an open circuit
that half-opens more than once. Three reviewers of two providers give a lens two
passes that are no quorum, a finding with one or two possible adjudicators, and a
fallback. Two chains and heartbeats give an operation in flight, one behind it and
one that follows the terminal line. Two recoveries give one that claims a dead
update and another that comes too late. An index of two records with a window of
one gives a sweep that does not see all. A mirror of one line overflows at once.
Two sessions and one accident give a lost update, a lock left behind and a failed
read-back; more choices only repeat them. Two pages with one repair and two
attempts give a page after a rejected one and an attempt after a shown finding.

Bounds: `MaxEvents`, `MaxBeats`, `RetryAttempts`, `Attempts`, `MaxAttempts`,
`MaxRuns`, `MaxSpools`, `MaxCrashes`, `MaxFaults`, `MaxPending`, `MaxItems`,
`MaxPages`, `MaxActivity`, `MaxChoices`, `MaxAccidents`, `MaxChanges`, `MaxMoves`,
and the constraint `FewBoundaries`.
Symmetry is used only in runs without liveness. Deadlock is checked in
`ResultSpool_pages`; elsewhere the modelled system ends.

### Fairness

- `ProviderAdmission`: each reviewer's next step, the scan and the cooldown timer.
  A request and a probe end by their own timers at the latest. Cancellation and
  the boundaries of reviewers are never assumed.
- `EventDelivery`: the head of the queue (an append settles; a write ends by the
  grace timer), the main line and the end of each chain. `LensChain`: every chain
  and the summary; that every execution ends is `EveryReviewerEnds`.
- `NativeRun`, `LegacyRun`: continuations and timers. No adapter need ever answer.
- `NativeSession`, `PagedSession`: awaits of the adapter settle, a process told to
  stop exits, the consumer's steps and its deadline. The SDK may stay silent.
- `ResultPages`: the attempt's timer ends a turn that does not answer.
- `RunRecord`: file operations settle, timers fire, later runs open and close
  their recorders. `ResultSpool`: hosts run, time passes, reviews go on being
  started.
- `ConfigStore`: only the steps of a save that has begun; users owe nothing.
- `Dashboard`: intervals, timers, the answer or failure of a request. Nobody need
  use the page, change a record or restart the server.

Failures, crashes, heartbeats and aborts by a user are never assumed.

### Where code and documents disagree

`RunRecord_passed`: when standard output fails, `run-review.ts:2036` closes the
writer and the recorder publishes the record without `run.completed`.
`readLegacyRunReport` asks only whether the file is still active, and reports such
a record as "passed" if no finding was recorded. The v8 design
(`docs/superpowers/specs/2026-09-04-review-mesh-v8-complete-review-design.md:267`)
says that stdout and persistence failures are explicit incomplete outcomes, and the
dashboard's (`2026-09-03-review-mesh-web-dashboard.md:107`) that only a terminal
run may say passed.

Met while modelling, contained in the models, without a run of their own:

- *Circuits* (`run-v9.ts:428`): a request started before the circuit opened may
  fail during another's half-open probe; the circuit opens again, the reservation
  is forgotten, and after the cooldown a second probe runs beside the first.
  `docs/releases/v9.7.0.md:65` says that one reviewer reserves the probe.
- *Delivery* (`run-v9.ts:479`, `:1790`): an event that cannot be persisted ends the
  run without a terminal line on a working output (`README.md:130`); a heartbeat
  that cannot be is an unhandled rejection, exit code 1, documented as "gate
  findings" (`README.md:139`).
- *Retry* (`run-v9.ts:1839`): a finding whose inherited adjudication cleared it is
  adjudicated again, and the lens ends incomplete when nobody is left to do so.
- *Run artifact* (`run-v9.ts:1505`): an execution whose result is recorded may fail
  in a way that is retried; the second result is refused as persisted twice, which
  poisons the artifact and fails the run.
- *Run index* (`run-index.ts:867`, `:768`, `:794`): between the check of a journal's
  process and the claim by path the update may be replaced by a live one; a process
  that dies before its journal is complete, or a recovery that dies with its claim,
  leaves an update nobody can recover; a journal written from an old snapshot lets
  a recovery roll an acknowledged change back.
- *Native run*: a strict lens may be summarised "passed" while its finding still
  gates; the exit code is right.
- *Native sessions*: Codex does not own its process. Claude's private home stays
  when a record is refused while `run()` is suspended (`run-native.ts:661`).
- *Legacy run* (`run-review.ts:446`): an attempt cut while waiting for the semaphore
  makes the whole run reject without `run.completed`; the dead entry consumes a
  wake-up. A non-qualifying failure closes a half-open circuit. A result dropped on
  abort never settles its storage.
- *Records*: `record()` swallows failed private appends, which `RecordIsHonest`
  excepts by `scarred`; a final append that times out may publish `run.completed`
  though the run exits with 3; a record without a marker is never subject to
  retention; a published unfinished record stays "running" in the status.
- *Pages* (`result-pages.ts:757`): valid items behind a contradicting one are
  forgotten (`docs/releases/v9.4.0.md:35`); a page with more findings than fit, or
  one that repeats an accepted id, cannot be repaired in its attempt.
- *Paged sessions* (`command.ts:718`): a command that latches a paged result and
  then fails neither hands over nor abandons its pages, and neither does a review
  adapter whose consumer leaves (`run-v9.ts:1177`) after the last page and before the
  result: `resultStorage()` has let go of the spools, and the `finally` block finds
  none (`claude.ts:1017`). Both are left to the spool sweep; `EveryPageHasAnOwner`
  names both. An aborted Copilot page loop leaves a rejection without handler
  (`copilot.ts:843`).
- *Spool*: failed pages are not listed as `docs/releases/v9.2.0.md:46` says.
- *Configuration*: a lock left by a crash makes every later save a conflict
  (`manage.ts:171`); a hand edit between rename and read-back is overwritten by the
  next save; exporting a legacy file and applying it stores derived attested
  coverage unconfirmed; a valid version 5 agent with one model and a quorum above
  one cannot be migrated.
- *Dashboard*: a stream that opens asks for nothing, so that "Live" may stand over
  old data, which `EveryChangeShows` excepts by `reopened`; a fingerprint that
  rejects ends `serve` (`dashboard-server.ts:369`).

## Proofs

Each theorem holds for every value of the constants that the module's named
assumptions admit; TLC evaluates the assumptions in the runs. They say that counts,
limits, thresholds and quorums are positive numbers; that sentinels are no members
of the sets they are told apart from; that reviewers or chains are finitely many
where something is counted; that a reviewer stands once in one chain of the legacy
roster; that the documents, declarations and verdicts an instance visits have the
shape the schemas give them, where only version 7 has a review profile; and, in
`ResultSpool`, that the retention is longer than a review. The bounds (`MaxEvents`,
`MaxRuns`, ...) are arbitrary numbers, so no theorem depends on one.

| Module | Invariant | Property | Abstract or action property |
| --- | --- | --- | --- |
| `ProviderAdmission_proofs` | `Invariance` (`IInv`) | `TypeCorrect`, `SlotSafety`, `SlotOwnership`, `ReservationsAreLive`, `WaitersServed`, `SleepersWake` | `QueueImplementsPool`, `StartsRespectCircuit` |
| `CommandRun_proofs` (`LensChain`) | `ChainInvariant` (`LInv`) | `VerdictsStand`, `ExitCodesAreHonest`, `RetriesKeepVerdicts` | `VerdictsEndTheirLens` |
| `CommandRun_proofs` (`EventDelivery`) | `DeliveryInvariant` (`EInv`) | `NothingIsHidden` | `StreamIsOrdered` |
| `NativeRun_proofs` | `NativeInvariant` (`NInv`) | `RunStaysAccounted` | `DecisionsStand` |
| `LegacyRun_proofs` | `LegacyInvariant` (`LegacyInv`) | `EndsStayEarned`, `NothingStaysStranded` | |
| `Artifacts_proofs` (`RunArtifact`) | `ArtifactInvariant` (`AInv`) | `FileStaysReadable`, `CopyIsKept` | `EndIsFinal` |
| `Artifacts_proofs` (`RunIndex`) | `IndexInvariant` (`XInv`) | `IndexIsWhole` | `DirectoryIsKept` |
| `Artifacts_proofs` (both) | | | `OthersStay` |
| `Records_proofs` (`RunRecord`) | `RecordInvariant` (`RecordInv`) | `RecordStaysHonest` | `RetentionIsKept` |
| `Records_proofs` (`ResultSpool`) | `SpoolInvariant` (`SInv`) | `PagesStaySafe` | |
| `Conversations_proofs` (`NativeSession`, `PagedSession`) | `ConversationsInvariant` (`ConversationsInv`) | `CleanupStaysSafe`, `SessionsStayHonest` | |
| `Conversations_proofs` (`ResultPages`) | the same | `NothingIsEverDropped` | |
| `UserSide_proofs` (`ConfigStore`) | `ConfigurationInvariant` (`ConfigInv`) | `SavesStayFaithful`, `AttestedStaysConfirmed` | |
| `UserSide_proofs` (`ConfigPolicy`) | `PolicyInv` | `PolicyAlwaysSurvives` | |
| `UserSide_proofs` (`Dashboard`) | `PageInvariant` (`DInv`) | | `PageGoesForward` |

`EndIsFinal` and `DirectoryIsKept` are the two halves of `OthersAreLeftAlone`;
`OthersStay` puts them together over `BothSpec`, the specification the run checks, in
which one side goes on and the other rests. `PolicyAlwaysSurvives` is over the
specification of `Configuration_edits` in the same way. Every invariant was an
invariant of a run of TLC before it was proved; each proof has one step per action
and one below it per conjunct the action can disturb.

### Why the invariants are what they are

*Admission.* Accounting alone is not inductive: a scan admits `queue[cursor]`, and
only `QueueSound` tells that this reviewer is queued and therefore, by
`SlotsHaveOwners`, holds no slot yet. The pool refinement uses the same invariant:
each step maps to `Join`, `Leave`, `Grant`, `GiveBack`, `Disband` or a stutter. That
a grant goes to the first in line that fits is `PassedAreFull`: whoever the scan has
passed is still full when it admits another. A reservation is kept live by its
own induction, because only the reviewer that owns it leaves the phases in which it
is live. `NoIdleSlot` speaks of the moments between two turns: `ScanIsRight` says
that the entries a scan has passed cannot be admitted, which holds because counters
only grow during a scan and every step that lowers one starts a scan over.
`SleeperWillWake` is inductive beside the types: a change of the circuits leaves
state and owner as they were, opens a probe for somebody else, or is announced by
`notifyCircuit`, after which nobody is at rest.

*Event delivery.* `DeliveryIsTold` relates what is public to what was recorded and
to what the end says. It needs to be known of each operation in the queue that its
emitter awaits it, once (`QueueSound`), what the writer and the artifact admit at
each point of the main line (`PhaseSound`), and what the event at hand is worth:
while no failure is known, all numbers but its own have been delivered, and the
artifact is ahead of the output by it at most (`NothingSkipped`). From there
`OutcomeSound` says that an artifact which closed without telling a failure holds
nothing undelivered. `HeartSound` says that no heartbeat still to be recorded
outlives the artifact. The refinement to `PublicStream`
maps a step to the emission of the next line, to the terminal line or to a stutter.

*Lens chains.* A verdict is judged from results, so the invariant says of each lens
where its loop stands and what that means: before the position everybody has ended,
behind it nobody has begun (`Walked`); an adjudication has a recorded finding as its
source (`Adjudges`); while nothing is decided, the quorum is not there and no finding
stands (`Judged`), and a lens announced unreachable cannot be completed by those
still to come (`Unreached`). That a further pass never unmakes a
quorum is a lemma about images and cardinalities. `KeptSound` says what a retry
inherited; it is what makes `RetryKeepsVerdict` more than a statement about `Retry`
itself.

*Native run.* `acquire` wakes waiters in one pass over a copy of the queue. That the
pass leaves the slots booked and nobody waiting for a free one (`Booked`,
`PoolSound`) is proved by induction over the length of what it has still to visit,
stated over sets of naturals, because the library's induction theorems cannot
be instantiated here. Nobody waits for a free slot since the pass only takes slots,
and whatever it has passed over did not fit then. `ChainSound` ties the position of
the loop, the session, the results and the verdict together per lens: the passes
counted are those the loop has passed, a completed reviewer behind the source of an
adjudication has adjudicated, and a verdict has its reason among them (`Reason`),
which further passes never take away. The action property follows from the same
invariant: by `SessionSound` and `Walked`, a step that changes a session or a
finding is one of the reviewer in hand.

*Legacy run.* A worker may throw and leave its lens where it stood. Nobody is told
of twice, or before his end, and one who has ended untold is just being told, or his
worker threw, or the run was rejected (`ReviewerSound`). What is behind a worker's
position has ended, what is before it is open (`WorkerSound`). `DecisionSound` equates the
passes counted with the clean reviewers recorded, and nobody decides after a
decision. `StorageSound` lets the pages follow the run's fate. A dead entry may stay
in the queue of a semaphore, once (`QueueSound`). The proof attempt corrected the
model's own claim here: that nobody waits beside a free slot is false once a wait
was cut, because the dead entry consumes the wake-up; `SlotsAreCounted` says it only
as long as no wait is cut and no worker throws.

*Run artifact.* A reader counts: the coverage after the result, as many pages as
the result names, no second result. So the invariant relates the file to what is
still in the queue and to what each execution still awaits (`QueueSound`,
`ProgressSound`): what an execution awaits is what its lines in the file still lack,
in their order. `SealSound` gives the
reader of the whole file its counts, `EndSound` the order of the end, `CopiesSound`
which copy exists at which step of the publication.

*Run index.* The code's guarantee rests on a directory that is seen and one that is
claimed being the same. `IdsSpent` says that a directory's identity never comes back
once its process is done with it; `SeenSound` and `ClaimsSound` that a recovery
which did not stray has claimed the one it saw, whose process is dead; `OwnersSound`
and `PublisherUpdates` that only one process writes the entry then; `EntrySound` and
`LatestKept` what the entry may be under each journal. `IndexStaysWhole` excepts the
executions that strayed or whose journal is stale, as the code's own guarantee does.

*Records.* The public stream is in the file up to some line, the next may be in the
recorder's hands, the rest is in the mirror's queue (`Mirrored`): that there are two
such numbers, as long as nothing was lost, is what survives every step
(`DurableSound`). A completed record then holds the stream in its order, among other
lines: an order-preserving embedding, which an append extends. `EndSound` and
`SaidSound` say how far the end has come and that it says what became of everybody.
Retention removes only what it saw to be the oldest of too many (`RetentionSound`);
two sweeps at once see the same one, and a run beside this one is never it.

*Result spool.* A page is not wiped before its time because what a host holds is its
own, younger than a sweep touches and not yet left to the diagnostics (`HeldSound`,
with `PlacesSound` for where a host has an active page); a directory that has not
been made holds nothing (`UnmadeSound`); and every spool with a file is in the index,
which was written before the file was opened (`IndexSound`).

*Native sessions.* A home is removed, and a slot given back, only when no runtime
is up. That none is (`RuntimeSound`) follows from where the session's close stands;
that none *starts* later is `ClosingSound`, which differs by SDK: Claude's process
owner refuses, a Copilot client was told by its signal. `TurnSound` keeps generator
and consumer from going on at once. `AnswerSound` is what makes an accepted outcome
honest: a generator that ends without the result had an SDK that never ended its
answer.

*Paged sessions.* Every accepted page is staged, handed over, wasted or lost
(`PagesSound`), handed over only with a result somebody received, and lost only to a
consumer that had left (`GivenSound`). The bound on requests needs a price for each: a page, a repair, a
coverage turn or the leaving of the sandbox has paid for every request but the open
one (`Paid`), and a page pays for its repairs, whose count starts anew. The sandbox
is left for good and only where the policy allows it (`SandboxSound`).

*Result pages.* Nothing is kept under two contents (`KeptSound`), what was accepted
or returned is kept (`AcceptedSound`), and a delivered result lacks nothing kept
(`DeliveredSound`). A page is judged in one operator, without recursion: where the
collector stops is the least element of a set of numbers, and what it has kept then
is a union, so that the proof needs the least-element principle and no induction
over data.

*Configuration store.* What a session compares its save with is the file it loaded,
or a later one that a hand has written (`LockSound`). A menu holds what it loaded
with one choice on top, and asks about exactly the agents that choice would leave
attested (`MenuSound`); an apply that migrates has an answer for every agent that
stays attested (`ApplySound`). A view is of its revision as long as the file is; what
is resolved afterwards may be one change older than the file, never a mixture
(`ViewSound`).

*Configuration policy.* `PolicyInv` only says what each stage has computed. The rest
is about the operators: migration and schema agree on who survives an outage
(`TolerancesAgree`), where the schema sees an outage survived the description counts
one (`OneOutageIsCounted`), turning the runs of a lens changes neither its groups nor
their counts (`TurnedRunsAre`), and concentration is as it was before a migration.

*Dashboard.* That nothing shown goes back in time rests on there being one refresh
loop, and one latest request of each kind (`Rivals`): then the answer that arrives has
no competitor left that could bring something older, and every answer still under way
is newer than what it would replace (`InTime`). What was selected before is forgotten
and its requests outdated in the same step (`ShownSound`).

### What is only model-checked

Every safety invariant and every action or refinement property of a passing run is
stated by a theorem. What stays with TLC is liveness, because fairness and `ENABLED`
are beyond the prover: `EveryReviewerEnds`, `EveryRunEnds` (of the command and of the
native run), `EveryRunSettles`, `EveryRecordEnds`, `WipedInTheEnd`,
`EveryConversationEnds`, `EverySaveEnds` and `EveryChangeShows`. `PassedIsComplete` is
refuted.

## Plan

Modelled: admission, delivery, chains and retry, artifact and index, native and
legacy engine, records and reports, pages and spools, sessions, configuration,
dashboard. Proved: all of their safety. Left, in this order: the adjudication of
findings as pure operators in place of the nondeterministic choice of `LensChain`;
the interval arithmetic of change coverage; the status and Markdown projections of
version 9.

## Not modelled

- *Run control*: the lease is a nondeterministic answer in `RunIndex`, a stop
  request the cancellation every run model admits.
- *Findings*, *change coverage*, *deadlines*: matching of texts, interval and clock
  arithmetic without concurrent state. The models choose among their outcomes.
- *Projections, schemas, prompts, page markup*: formatting and data shapes.
- *Context resolution, command line, evaluation, adapter plumbing*: sequential I/O
  and dispatch.
- External programs (providers, git, SDKs) appear only through the outcomes their
  callers handle. Wall-clock time: the models admit any order of timers.
