---------------------------- MODULE NativeSession ----------------------------
(* One job of a native run and the SDK session it owns: the probe, the async *)
(* generator run() of the Claude, Codex or Copilot adapter, the SDK's runtime *)
(* process and private directory, the loop of runReviewer that pulls the      *)
(* generator under an abortable signal, and the forceCleanup it ends with.    *)
(* A generator that is suspended at a yield goes on only when it is pulled,   *)
(* and an iterator.return() that meets a running generator is taken at its    *)
(* next yield.  What a session says is reduced to activity, a valid answer or *)
(* a failure; messages, diagnostics, environments and options are left out.   *)
EXTENDS Naturals

CONSTANTS
  Kinds,         \* the adapters of the instance: "claude", "codex", "copilot"
  MaxActivity    \* bound: activity events of a session

VARIABLES
  kind,      \* the adapter of the job
  mode,      \* the operation that owns the session: "probe" or "run"
  job,       \* where runReviewer is
  signal,    \* child.signal is aborted
  terminal,  \* the terminal event the loop has received
  ended,     \* how the loop ended: open, drained, threw, aborted, unrecorded
  outcome,   \* disposition of the job
  late,      \* the grace period ran out before forceCleanup returned
  op,        \* where the adapter's operation is
  parked,    \* run() is suspended at the yield of an activity event
  returned,  \* iterator.return() waits for the generator's next yield
  held,      \* the terminal the operation holds back: none, result, failure
  throws,    \* the operation ends by throwing
  stopped,   \* the adapter's own controller is aborted, or its client forced
  listed,    \* the session is in the adapter's active collection
  closing,   \* the shared promise of close(): none, stopping, removing, done
  force,     \* forceCleanup: none, waiting, done
  sdk,       \* the conversation: none, working, answered, ended, broken
  runtime,   \* the SDK's process: none, up, down
  home,      \* the session's private directory: none, there, gone, stuck
  activity   \* activity events so far

consumer == <<job, signal, terminal, ended, outcome, late>>
generator == <<op, parked, returned, held, throws>>
session == <<stopped, listed, closing>>
outside == <<sdk, runtime, home, activity>>
vars == <<kind, mode, consumer, generator, session, force, outside>>

SessionTypeOK ==
  /\ kind \in Kinds
  /\ mode \in {"probe", "run"}
  /\ job \in {"probing", "pulling", "recording", "leaving", "cleaning", "released"}
  /\ signal \in BOOLEAN
  /\ terminal \in {"none", "result", "failure"}
  /\ ended \in {"open", "drained", "threw", "aborted", "unrecorded"}
  /\ outcome \in {"open", "accepted", "marred", "incomplete"}
  /\ late \in BOOLEAN
  /\ op \in {"opening", "starting", "streaming", "stopping", "removing",
             "final", "done"}
  /\ parked \in BOOLEAN
  /\ returned \in BOOLEAN
  /\ held \in {"none", "result", "failure"}
  /\ throws \in BOOLEAN
  /\ stopped \in BOOLEAN
  /\ listed \in BOOLEAN
  /\ closing \in {"none", "stopping", "removing", "done"}
  /\ force \in {"none", "waiting", "done"}
  /\ sdk \in {"none", "working", "answered", "ended", "broken"}
  /\ runtime \in {"none", "up", "down"}
  /\ home \in {"none", "there", "gone", "stuck"}
  /\ activity \in 0..MaxActivity

\* The job holds its slot and has called probe(): the Claude probe lists itself
\* before its first await, the others once their directory exists.
Init ==
  /\ kind \in Kinds
  /\ mode = "probe"
  /\ job = "probing"
  /\ signal = FALSE
  /\ terminal = "none"
  /\ ended = "open"
  /\ outcome = "open"
  /\ late = FALSE
  /\ op = "opening"
  /\ parked = FALSE
  /\ returned = FALSE
  /\ held = "none"
  /\ throws = FALSE
  /\ stopped = FALSE
  /\ listed = (kind = "claude")
  /\ closing = "none"
  /\ force = "none"
  /\ sdk = "none"
  /\ runtime = "none"
  /\ home = "none"
  /\ activity = 0

-----------------------------------------------------------------------------
(* What the steps share. *)

Open(promise) == IF promise = "none" THEN "stopping" ELSE promise

\* The finally block up to its first await: the Claude adapter aborts its
\* controller and closes the process owner, the Codex adapter aborts; the
\* Copilot adapter first disconnects the conversation.
Finally ==
  /\ op' = "stopping"
  /\ stopped' = (stopped \/ kind # "copilot")
  /\ closing' = IF kind = "claude" THEN Open(closing) ELSE closing

\* The operation is over.  A probe keeps its answer, Codex its terminal event;
\* the other two yield it, unless iterator.return() was waiting for the yield.
Conclude(event) ==
  /\ Finally
  /\ IF mode = "probe" \/ kind = "codex"
     THEN held' = event /\ UNCHANGED terminal
     ELSE terminal' = (IF returned THEN terminal ELSE event) /\ UNCHANGED held
  /\ UNCHANGED <<kind, mode, job, signal, ended, outcome, late, parked, returned,
                 throws, listed, force>>

\* The listeners of an aborted signal, gone once finally has begun: a Claude
\* probe closes its processes, a client that exists is forced to stop.
Heard == op \in {"opening", "starting", "streaming"}
Listeners ==
  /\ stopped' = (stopped \/ (Heard /\ (kind # "copilot" \/ listed)))
  /\ closing' = IF Heard /\ kind = "claude" /\ mode = "probe" THEN Open(closing)
                ELSE closing

-----------------------------------------------------------------------------
(* The adapter's operation. *)

\* The private directory is made, with the context file a Claude run reads.
ClaudeOpens ==
  /\ kind = "claude" /\ op = "opening"
  /\ home' = "there"
  /\ op' = "starting"
  /\ UNCHANGED <<kind, mode, consumer, parked, returned, held, throws, session, force,
                 sdk, runtime, activity>>

\* Codex lists its directory, and only aborts its controller for a late signal.
CodexOpens ==
  /\ kind = "codex" /\ mode = "run" /\ op = "opening"
  /\ home' = "there"
  /\ listed' = TRUE
  /\ stopped' = (stopped \/ signal)
  /\ op' = "starting"
  /\ UNCHANGED <<kind, mode, consumer, parked, returned, held, throws, closing, force,
                 sdk, runtime, activity>>

\* The Copilot client removes it again when the signal is aborted by then.
CopilotOpens ==
  /\ kind = "copilot" /\ op = "opening"
  /\ IF signal
     THEN home' = "gone" /\ Conclude("failure")
     ELSE /\ home' = "there"
          /\ listed' = TRUE
          /\ op' = "starting"
          /\ UNCHANGED <<kind, mode, consumer, parked, returned, held, throws, stopped,
                         closing, force>>
  /\ UNCHANGED <<sdk, runtime, activity>>

OpenFails ==
  /\ op = "opening" /\ ~(mode = "probe" /\ kind = "codex")
  /\ Conclude("failure")
  /\ UNCHANGED outside

\* The Codex probe only looks at its configuration.
CodexProbe ==
  /\ op = "opening" /\ mode = "probe" /\ kind = "codex"
  /\ op' = "done"
  /\ held' \in {"result", "failure"}
  /\ UNCHANGED <<kind, mode, consumer, parked, returned, throws, session, force,
                 outside>>

\* Mutant: a process owner that is being closed still spawns.
MayLaunch_Closing == kind = "claude" \/ (kind = "codex" /\ ~stopped) \/ ~signal

\* spawn() of the Claude process owner.
MayLaunch ==
  CASE kind = "claude" -> closing = "none"
    [] kind = "codex" -> ~stopped
    [] OTHER -> ~signal

Starts ==
  /\ op = "starting" /\ MayLaunch
  /\ runtime' = "up" /\ sdk' = "working"
  /\ op' = "streaming"
  /\ UNCHANGED <<kind, mode, consumer, parked, returned, held, throws, session,
                 force, home, activity>>

ClaudeLaunches == kind = "claude" /\ Starts
CodexLaunches == kind = "codex" /\ Starts
CopilotLaunches == kind = "copilot" /\ Starts

LaunchFails ==
  /\ op = "starting"
  /\ Conclude("failure")
  /\ UNCHANGED outside

\* The warm query of Claude, and the account and the models of a Copilot client.
Answers ==
  /\ op = "streaming" /\ mode = "probe"
  /\ \/ sdk = "broken" /\ Conclude("failure")
     \/ sdk # "broken" /\ Conclude(IF signal THEN "failure" ELSE "result")
  /\ UNCHANGED outside

ClaudeProbeAnswers == kind = "claude" /\ Answers
CopilotProbeAnswers == kind = "copilot" /\ Answers

Streaming == op = "streaming" /\ mode = "run" /\ ~parked

\* An activity event is yielded: to the loop, or into the waiting return().
Active ==
  /\ Streaming /\ sdk = "working" /\ activity < MaxActivity
  /\ activity' = activity + 1
  /\ IF returned
     THEN Finally /\ UNCHANGED <<job, parked, listed>>
     ELSE /\ job' = "recording" /\ parked' = TRUE
          /\ UNCHANGED <<op, session>>
  /\ UNCHANGED <<kind, mode, signal, terminal, ended, outcome, late, returned, held,
                 throws, force, sdk, runtime, home>>

ClaudeReads ==
  /\ kind = "claude" /\ Streaming /\ sdk \in {"answered", "ended", "broken"}
  /\ Conclude(IF sdk = "broken" \/ stopped THEN "failure" ELSE "result")
  /\ UNCHANGED outside

\* The turn is completed: its answer is held back while the stream drains.
CodexCompletes ==
  /\ kind = "codex" /\ Streaming /\ held = "none" /\ sdk \in {"answered", "ended"}
  /\ IF stopped THEN Conclude("failure")
     ELSE /\ held' = "result"
          /\ UNCHANGED <<kind, mode, consumer, op, parked, returned, throws, session,
                         force>>
  /\ UNCHANGED outside

\* Whatever cuts the stream after an answer is kept for after the answer, but
\* for an event that says the turn has failed or changes a file.
CodexReads ==
  /\ kind = "codex" /\ Streaming
  /\ \/ held = "none" /\ sdk = "broken" /\ Conclude("failure")
     \/ held = "result" /\ sdk = "broken" /\ ~stopped /\ Conclude("failure")
     \/ /\ held = "result" /\ sdk \in {"ended", "broken"}
        /\ throws' = (stopped \/ sdk = "broken")
        /\ Finally
        /\ UNCHANGED <<kind, mode, consumer, parked, returned, held, listed, force>>
  /\ UNCHANGED outside

\* sendCopilotReviewAndWait rejects as soon as the signal is aborted; a session
\* error after the submission spoils it.
CopilotReads ==
  /\ kind = "copilot" /\ Streaming
  /\ sdk \in {"ended", "broken"} \/ signal
  /\ Conclude(IF signal \/ sdk = "broken" THEN "failure" ELSE "result")
  /\ UNCHANGED outside

-----------------------------------------------------------------------------
(* The finally blocks. *)

\* Mutant: the home is removed without waiting for the processes.
ClaudeClosed_NoWait ==
  /\ kind = "claude" /\ op = "stopping" /\ closing # "none"
  /\ listed' = FALSE
  /\ op' = IF home = "there" THEN "removing" ELSE "done"
  /\ UNCHANGED <<kind, mode, consumer, parked, returned, held, throws, stopped,
                 closing, force, outside>>

\* The processes have exited: the session is forgotten, then its home removed.
ClaudeClosed ==
  /\ kind = "claude" /\ op = "stopping" /\ closing = "done"
  /\ listed' = FALSE
  /\ op' = IF home = "there" THEN "removing" ELSE "done"
  /\ UNCHANGED <<kind, mode, consumer, parked, returned, held, throws, stopped,
                 closing, force, outside>>

\* removeClaudeHome gives up after six attempts: run() throws, a probe reports it.
ClaudeRemoves ==
  /\ kind = "claude" /\ op = "removing"
  /\ op' = "done"
  /\ \/ home' = "gone" /\ UNCHANGED <<held, throws>>
     \/ /\ home' = "stuck"
        /\ throws' = (mode = "run")
        /\ held' = IF mode = "probe" THEN "failure" ELSE held
  /\ UNCHANGED <<kind, mode, consumer, parked, returned, session, force, sdk, runtime,
                 activity>>

\* session.disconnect(), then close() when there is a client.
CopilotDisconnects ==
  /\ kind = "copilot" /\ op = "stopping"
  /\ IF listed
     THEN op' = "removing" /\ closing' = Open(closing)
     ELSE op' = "done" /\ UNCHANGED closing
  /\ UNCHANGED <<kind, mode, consumer, parked, returned, held, throws, stopped, listed,
                 force, outside>>

CopilotClosed ==
  /\ kind = "copilot" /\ op = "removing" /\ closing = "done"
  /\ op' = "done"
  /\ UNCHANGED <<kind, mode, consumer, parked, returned, held, throws, session, force,
                 outside>>
\* Mutant: a directory that cannot be removed fails the review.
CodexRemoves_Fails ==
  /\ kind = "codex" /\ op = "stopping"
  /\ op' = "final"
  /\ \/ home = "none" /\ UNCHANGED <<home, listed, held>>
     \/ home # "none" /\ home' = "gone" /\ listed' = FALSE /\ UNCHANGED held
     \/ home # "none" /\ home' = "stuck" /\ held' = "failure" /\ UNCHANGED listed
  /\ UNCHANGED <<kind, mode, consumer, parked, returned, throws, stopped, closing,
                 force, sdk, runtime, activity>>

CodexRemoves ==
  /\ kind = "codex" /\ op = "stopping"
  /\ op' = "final"
  /\ \/ home = "none" /\ UNCHANGED <<home, listed, held, throws>>
     \/ /\ home # "none" /\ home' = "gone" /\ listed' = FALSE
        /\ UNCHANGED <<held, throws>>
     \/ /\ home # "none" /\ home' = "stuck" /\ UNCHANGED listed
        /\ throws' = (throws \/ held = "result")
        /\ held' = IF held = "result" THEN held ELSE "failure"
  /\ UNCHANGED <<kind, mode, consumer, parked, returned, stopped, closing, force, sdk,
                 runtime, activity>>

\* The terminal event it held back, and behind it the failure.
CodexYields ==
  /\ op = "final"
  /\ op' = "done"
  /\ terminal' = IF returned THEN terminal ELSE held
  /\ UNCHANGED <<kind, mode, job, signal, ended, outcome, late, parked, returned, held,
                 throws, session, force, outside>>

\* The promise of close() itself, whoever called it first.
Closes ==
  \/ /\ closing = "stopping" /\ runtime # "up"
     /\ closing' = IF kind = "claude" THEN "done" ELSE "removing"
     /\ UNCHANGED <<home, listed>>
  \/ /\ closing = "removing"
     /\ home' \in {"gone", "stuck"}
     /\ listed' = FALSE
     /\ closing' = "done"
CloseAdvances ==
  /\ Closes
  /\ UNCHANGED <<kind, mode, consumer, generator, stopped, force, sdk, runtime, activity>>

-----------------------------------------------------------------------------
(* The SDK and its process. *)

Said(next) ==
  /\ sdk' = next
  /\ UNCHANGED <<kind, mode, consumer, generator, session, force, runtime, home, activity>>

SdkAnswers == mode = "run" /\ sdk = "working" /\ Said("answered")
SdkEnds == sdk = "answered" /\ Said("ended")
SdkFails ==
  /\ sdk = "working" \/ (sdk = "answered" /\ kind # "claude")
  /\ Said("broken")

Exits ==
  /\ runtime' = "down"
  /\ sdk' = IF sdk \in {"working", "answered"} THEN "broken" ELSE sdk
  /\ UNCHANGED <<kind, mode, consumer, generator, session, force, home, activity>>

RuntimeCrashes == runtime = "up" /\ sdk = "working" /\ Exits
RuntimeExits == runtime = "up" /\ (stopped \/ closing = "stopping") /\ Exits

-----------------------------------------------------------------------------
(* runReviewer. *)

\* Capabilities that allow the review start run() on a session of its own.
ProbeEnds ==
  /\ job = "probing" /\ op = "done"
  /\ IF held = "result"
     THEN /\ mode' = "run" /\ job' = "pulling" /\ op' = "opening"
          /\ listed' = (kind = "claude")
          /\ stopped' = FALSE /\ closing' = "none" /\ held' = "none"
          /\ sdk' = "none" /\ runtime' = "none" /\ home' = "none"
          /\ UNCHANGED ended
     ELSE /\ job' = "leaving" /\ ended' = "drained"
          /\ UNCHANGED <<mode, op, held, session, sdk, runtime, home>>
  /\ UNCHANGED <<kind, signal, terminal, outcome, late, parked, returned, throws, force,
                 activity>>

\* A deadline, silence or the run aborts the child signal; the loop, when it is
\* waiting, leaves at once and asks the generator to return.
Abort ==
  /\ ~signal /\ job \in {"probing", "pulling", "recording"}
  /\ signal' = TRUE
  /\ Listeners
  /\ IF job = "recording" THEN UNCHANGED <<job, ended, returned>>
     ELSE /\ job' = "leaving"
          /\ ended' = IF terminal = "result" THEN "threw" ELSE "aborted"
          /\ returned' = (job = "pulling")
  /\ UNCHANGED <<kind, mode, terminal, outcome, late, op, parked, held, throws, listed,
                 force, outside>>

\* The activity is recorded and the generator pulled again, for the last time
\* when the signal is aborted.
Recorded ==
  /\ job = "recording"
  /\ parked' = FALSE
  /\ IF signal THEN job' = "leaving" /\ ended' = "aborted" /\ returned' = TRUE
     ELSE job' = "pulling" /\ UNCHANGED <<ended, returned>>
  /\ UNCHANGED <<kind, mode, signal, terminal, outcome, late, op, held, throws, session,
                 force, outside>>

\* The record is refused: a generator whose signal is not aborted stays suspended.
RecordFails ==
  /\ job = "recording"
  /\ job' = "leaving" /\ ended' = "unrecorded"
  /\ IF signal THEN parked' = FALSE /\ returned' = TRUE /\ Finally
     ELSE UNCHANGED <<parked, returned, op, stopped, closing>>
  /\ UNCHANGED <<kind, mode, signal, terminal, outcome, late, held, throws, listed, force,
                 outside>>

\* The iterator is done, or rejects: a result that was received is kept.
Drained ==
  /\ job = "pulling" /\ op = "done"
  /\ job' = "leaving"
  /\ ended' = IF throws THEN "threw" ELSE "drained"
  /\ UNCHANGED <<kind, mode, signal, terminal, outcome, late, generator, session, force,
                 outside>>

Disposition ==
  IF terminal # "result" \/ ended = "unrecorded" THEN "incomplete"
  ELSE IF ended = "drained" THEN "accepted" ELSE "marred"

\* The outcome is recorded, the child signal aborted and forceCleanup called.
Leave ==
  /\ job = "leaving"
  /\ outcome' = Disposition
  /\ job' = "cleaning"
  /\ signal' = TRUE
  /\ force' = IF listed THEN "waiting" ELSE "done"
  /\ stopped' = (stopped \/ listed \/ (Heard /\ kind # "copilot"))
  /\ closing' = IF listed /\ kind # "codex" THEN Open(closing) ELSE closing
  /\ UNCHANGED <<kind, mode, terminal, ended, late, generator, listed, outside>>

\* forceCleanup waits for the processes, or removes the directory once more.
ClosedByForce ==
  /\ force = "waiting" /\ kind # "codex" /\ closing = "done"
  /\ force' = "done"
  /\ UNCHANGED <<kind, mode, consumer, generator, session, outside>>

CodexForceReturns ==
  /\ force = "waiting" /\ kind = "codex"
  /\ force' = "done"
  /\ \/ home' = "gone" /\ listed' = FALSE
     \/ home' = "stuck" /\ UNCHANGED listed
  /\ UNCHANGED <<kind, mode, consumer, generator, stopped, closing, sdk, runtime,
                 activity>>

Release ==
  /\ job = "cleaning"
  /\ job' = "released"
  /\ late' = (force # "done")
  /\ UNCHANGED <<kind, mode, signal, terminal, ended, outcome, generator, session, force,
                 outside>>

-----------------------------------------------------------------------------
Operation ==
  \/ CodexProbe \/ ClaudeOpens \/ CodexOpens \/ CopilotOpens \/ OpenFails
  \/ ClaudeLaunches \/ CodexLaunches \/ CopilotLaunches \/ LaunchFails
  \/ ClaudeProbeAnswers \/ CopilotProbeAnswers
  \/ ClaudeReads \/ CodexCompletes \/ CodexReads \/ CopilotReads
Cleanup ==
  \/ ClaudeClosed \/ ClaudeRemoves \/ CopilotDisconnects \/ CopilotClosed
  \/ CodexRemoves \/ CodexYields \/ CloseAdvances
Consumer ==
  \/ ProbeEnds \/ Recorded \/ RecordFails \/ Drained \/ Leave
  \/ ClosedByForce \/ CodexForceReturns \/ Release
Outside == SdkAnswers \/ SdkEnds \/ SdkFails \/ RuntimeCrashes

Next == Operation \/ Active \/ Cleanup \/ Consumer \/ Abort \/ RuntimeExits \/ Outside

Spec == Init /\ [][Next]_vars

\* Every await of the adapter settles, a process told to stop exits, the job's
\* own steps are taken and its deadline fires.  The SDK may stay silent.
FairSpec ==
  /\ Spec
  /\ WF_vars(Operation)
  /\ WF_vars(Cleanup)
  /\ WF_vars(Consumer)
  /\ WF_vars(Abort)
  /\ WF_vars(RuntimeExits)

-----------------------------------------------------------------------------
(* Properties. *)

\* A private directory is removed only when the process that writes to it has
\* exited; the Codex adapter does not own its process and cannot promise it.
HomeOutlivesRuntime == kind # "codex" /\ home = "gone" => runtime # "up"

\* A job whose cleanup returned in time gives its slot back only when no process
\* of its session is left, so the provider limit bounds the processes as well.
SlotCoversSession ==
  job = "released" /\ ~late /\ kind # "codex" => runtime # "up"

\* A review that the SDK has delivered and ended is lost only when the job was
\* interrupted or its record refused, never because the cleanup failed.
ResultIsRetained ==
  mode = "run" /\ sdk = "ended" /\ outcome = "incomplete"
    => ended \in {"aborted", "unrecorded"}

\* Every job gives its slot back, and in the end its process has exited and its
\* directory is removed or was tried; a Claude run that its consumer leaves
\* suspended at a refused record is the exception.
SessionIsReleased ==
  <>[](/\ job = "released" /\ runtime # "up"
       /\ home = "there" => kind = "claude" /\ ended = "unrecorded")
=============================================================================
