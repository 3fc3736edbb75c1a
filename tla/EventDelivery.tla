--------------------------- MODULE EventDelivery ---------------------------
(***************************************************************************)
(* How a command-adapter run delivers its events: the serialising writer   *)
(* (src/src/protocol/v9-event-writer.ts) with its callers, the emit        *)
(* wrapper, the heartbeat timer and the end of runV9Review                 *)
(* (src/src/orchestrator/run-v9.ts), and what runV9App makes of the result *)
(* (src/src/app-v9.ts).                                                    *)
(*                                                                         *)
(* Every event is first appended to the private artifact, then handed to   *)
(* the public output.  Once the artifact is being sealed only heartbeats   *)
(* are emitted, and only publicly.                                         *)
(*                                                                         *)
(* The output fails for good (an error, a closed pipe, a write that is     *)
(* not drained within the grace period); a failed append poisons the       *)
(* artifact; an event may fail validation.                                 *)
(***************************************************************************)
EXTENDS Naturals, Sequences, FiniteSets, SequencesExt

CONSTANTS
  Chains,       \* the lens chains of the run, which emit concurrently
  Heart,        \* the heartbeat timer, one more emitter
  MaxEvents,    \* bound: events of one chain
  MaxBeats      \* bound: heartbeats of the run

ASSUME DeliveryAssumption ==
  /\ IsFiniteSet(Chains) /\ Heart \notin Chains
  /\ MaxEvents \in Nat /\ MaxBeats \in Nat

VARIABLES
  emitter,             \* what each emitter is doing
  emitted,             \* how many events it has emitted
  queue,               \* the operations behind `tail`: [from, quiet]
  stage,               \* where the operation at the head stands
  cur,                 \* the sequence number it was given
  ahead,               \* operations the main line still awaits (`await tail`)
  seq, terminal, finalizing,      \* of the writer
  broken,              \* `failure` of the writer, or a destroyed output
  deliveryFailure,     \* stage of the first delivery failure, or "none"
  outputFailure, errorRecorded, artifactFinalizing,   \* of runV9Review
  main,                \* where runV9Review, finish() and runV9App stand
  code,                \* exit_code of the summary
  told,                \* the sealed summary carries the delivery failure
  exit,                \* exit code of the process, or NoExit
  recorded,            \* sequence numbers of the events in the artifact
  poisoned,            \* an append failed: every later one fails
  artifactClosed,      \* `finalized` of the artifact writer
  published,           \* artifact sealed, verified and indexed
  observed,            \* the index's outcome of the public stream
  lines                \* the public output: [seq, kind]

writer == <<queue, stage, cur, ahead, seq, terminal, finalizing, deliveryFailure>>
run == <<outputFailure, errorRecorded, artifactFinalizing, code, told>>
artifact == <<recorded, poisoned, artifactClosed, published, observed>>
emitters == <<emitter, emitted>>
eventVars == <<emitters, writer, broken, run, main, exit, artifact, lines>>

Emitters == Chains \cup {Heart}

Stages == {"waiting", "recording", "ready", "writing"}
Phases == {"reviewing", "recording_findings", "cleaning", "flushing",
           "settling", "sealing", "sealed", "unsealed", "terminal_pending",
           "failure_pending", "observing", "observing_failure", "closing",
           "exited", "crashed"}
Failures == {"event_validation", "event_persistence", "output_write"}

\* Beyond the exit codes of the program.
NoExit == 5

Alive == main # "crashed"

\* The main line goes on in the turn in which what it awaits settles; a timer
\* cannot fire in between.
Proceeds ==
  \/ main \in {"settling", "sealed", "unsealed"} /\ ahead = 0
  \/ main = "flushing" /\ emitter[Heart] = "free"

AwaitTail == ahead' = Len(queue)

\* Mutant: failures are not remembered.
FirstFailure_Forgets(f) == UNCHANGED deliveryFailure

FirstFailure(f) ==
  deliveryFailure' = IF deliveryFailure = "none" THEN f ELSE deliveryFailure

Line(kind, n) == Append(lines, [seq |-> n, kind |-> kind])

-----------------------------------------------------------------------------
EventsInit ==
  /\ emitter = [e \in Emitters |-> "free"]
  /\ emitted = [e \in Emitters |-> 0]
  /\ queue = <<>> /\ stage = "waiting" /\ cur = 0 /\ ahead = 0
  /\ seq = 0 /\ terminal = FALSE /\ finalizing = FALSE
  /\ broken = FALSE /\ deliveryFailure = "none"
  /\ outputFailure = FALSE /\ errorRecorded = FALSE
  /\ artifactFinalizing = FALSE
  /\ main = "reviewing" /\ code = 3 /\ told = FALSE /\ exit = NoExit
  /\ recorded = {} /\ poisoned = FALSE /\ artifactClosed = FALSE
  /\ published = FALSE /\ observed = "none"
  /\ lines = <<>>

\* writer.emit() of a chain.  The writer refuses it once finish() has begun.
Emit(c) ==
  /\ Alive
  /\ c \in Chains
  /\ emitter[c] = "free"
  /\ emitted[c] < MaxEvents
  /\ ~terminal /\ ~finalizing
  /\ emitted' = [emitted EXCEPT ![c] = @ + 1]
  /\ emitter' = [emitter EXCEPT ![c] = "awaiting"]
  /\ queue' = Append(queue, [from |-> c, quiet |-> FALSE])
  /\ UNCHANGED <<stage, cur, ahead, seq, terminal, finalizing, deliveryFailure,
                 broken, run, main, exit, artifact, lines>>

ChainEnds(c) ==
  /\ Alive
  /\ emitter[c] = "free"
  /\ emitter' = [emitter EXCEPT ![c] = "done"]
  /\ UNCHANGED <<emitted, writer, broken, run, main, exit, artifact, lines>>

\* Mutant: a heartbeat is recorded like any event, even while sealing.
Beat_Records ==
  /\ Alive /\ ~Proceeds
  /\ main \notin {"closing", "exited"}
  /\ emitter[Heart] = "free"
  /\ ~outputFailure /\ ~terminal
  /\ emitted[Heart] < MaxBeats
  /\ emitted' = [emitted EXCEPT ![Heart] = @ + 1]
  /\ emitter' = [emitter EXCEPT ![Heart] = "awaiting"]
  /\ queue' = Append(queue, [from |-> Heart, quiet |-> FALSE])
  /\ UNCHANGED <<stage, cur, ahead, seq, terminal, finalizing, deliveryFailure,
                 broken, run, main, exit, artifact, lines>>

\* The heartbeat timer: at most one heartbeat is pending, none follows an
\* output failure.  The writer refuses one after the terminal event.
Beat ==
  /\ Alive /\ ~Proceeds
  /\ main \notin {"closing", "exited"}
  /\ emitter[Heart] = "free"
  /\ ~outputFailure
  /\ emitted[Heart] < MaxBeats
  /\ emitted' = [emitted EXCEPT ![Heart] = @ + 1]
  /\ IF terminal
       THEN /\ outputFailure' = TRUE
            /\ UNCHANGED <<emitter, queue>>
       ELSE /\ emitter' = [emitter EXCEPT ![Heart] = "awaiting"]
            /\ queue' = Append(queue, [from |-> Heart, quiet |-> finalizing])
            /\ UNCHANGED outputFailure
  /\ UNCHANGED <<stage, cur, ahead, seq, terminal, finalizing, deliveryFailure,
                 broken, errorRecorded, artifactFinalizing, code, told, main,
                 exit, artifact, lines>>

-----------------------------------------------------------------------------
(* The operation at the head of the queue.                                 *)

Head1 == Head(queue)

\* Mutant: who awaits the tail never learns that the operation settled.
Dequeue_KeepsAwaiting ==
  /\ queue' = Tail(queue)
  /\ stage' = "waiting"
  /\ UNCHANGED ahead

\* The promise of the operation settles and the next one may start: enqueue()
\* keeps the failure out of `tail`.
Dequeue ==
  /\ queue' = Tail(queue)
  /\ stage' = "waiting"
  /\ ahead' = IF ahead = 0 THEN 0 ELSE ahead - 1

\* The emit wrapper of runV9Review when writer.emit() rejects.  An event that
\* could not be persisted aborts the run and is thrown to the caller.  A
\* heartbeat has no caller: unless the main line is awaiting it, its rejection
\* is unhandled and ends the process with exit code 1.
Rejects(e, f) ==
  /\ FirstFailure(f)
  /\ outputFailure' = TRUE
  /\ IF f = "event_persistence"
       THEN /\ emitter' = [emitter EXCEPT ![e] = "threw"]
            /\ main' = IF e # Heart THEN main
                       ELSE IF main = "flushing" THEN "closing" ELSE "crashed"
            /\ exit' = IF e # Heart THEN exit
                       ELSE IF main = "flushing" THEN 3 ELSE 1
            /\ UNCHANGED errorRecorded
       ELSE /\ LET records == ~errorRecorded /\ ~artifactFinalizing
               IN /\ errorRecorded' = (errorRecorded \/ records)
                  /\ emitter' = [emitter EXCEPT ![e] =
                                   IF records THEN "erring" ELSE "free"]
            /\ UNCHANGED <<main, exit>>
  /\ UNCHANGED <<emitted, artifactFinalizing, code, told>>

Materialize ==
  /\ Alive
  /\ queue # <<>> /\ stage = "waiting"
  /\ \/ /\ seq' = seq + 1
        /\ cur' = seq + 1
        /\ stage' = IF Head1.quiet THEN "ready" ELSE "recording"
        /\ UNCHANGED <<emitters, queue, ahead, deliveryFailure, run, main, exit>>
     \/ /\ Dequeue
        /\ Rejects(Head1.from, "event_validation")
        /\ UNCHANGED <<seq, cur>>
  /\ UNCHANGED <<terminal, finalizing, broken, artifact, lines>>

\* Mutant: an event that could not be appended is delivered all the same.
RecordEvent_Ignores ==
  /\ Alive
  /\ queue # <<>> /\ stage = "recording"
  /\ stage' = "ready"
  /\ \/ ~poisoned /\ recorded' = recorded \cup {cur} /\ UNCHANGED poisoned
     \/ UNCHANGED recorded /\ poisoned' = TRUE
  /\ UNCHANGED <<emitters, queue, cur, ahead, seq, terminal, finalizing,
                 deliveryFailure, broken, run, main, exit, artifactClosed,
                 published, observed, lines>>

RecordEvent ==
  /\ Alive
  /\ queue # <<>> /\ stage = "recording"
  /\ \/ /\ ~poisoned /\ ~artifactClosed
        /\ recorded' = recorded \cup {cur}
        /\ stage' = "ready"
        /\ UNCHANGED <<emitters, queue, ahead, deliveryFailure, run, main, exit,
                       poisoned>>
     \/ /\ Dequeue
        /\ Rejects(Head1.from, "event_persistence")
        /\ poisoned' = (poisoned \/ ~artifactClosed)
        /\ UNCHANGED recorded
  /\ UNCHANGED <<cur, seq, terminal, finalizing, broken, artifactClosed,
                 published, observed, lines>>

\* write(): the line is handed to the output, unless that is known to have
\* failed or throws.
Write ==
  /\ Alive
  /\ queue # <<>> /\ stage = "ready"
  /\ \/ /\ ~broken
        /\ lines' = Line(IF Head1.quiet THEN "heartbeat" ELSE "event", cur)
        /\ stage' = "writing"
        /\ UNCHANGED <<emitters, queue, ahead, deliveryFailure, broken, run,
                       main, exit>>
     \/ /\ broken' = TRUE
        /\ Dequeue
        /\ Rejects(Head1.from, "output_write")
        /\ UNCHANGED lines
  /\ UNCHANGED <<cur, seq, terminal, finalizing, artifact>>

\* The output has taken the line and is drained; or it errs, or is not drained
\* within the grace period.
Written ==
  /\ Alive
  /\ queue # <<>> /\ stage = "writing"
  /\ Dequeue
  /\ \/ /\ emitter' = [emitter EXCEPT ![Head1.from] = "free"]
        /\ UNCHANGED <<emitted, broken, deliveryFailure, run, main, exit>>
     \/ /\ broken' = TRUE
        /\ Rejects(Head1.from, "output_write")
  /\ UNCHANGED <<cur, seq, terminal, finalizing, artifact, lines>>

\* The wrapper's own run.error record, which may fail like any other append.
RecordError(e) ==
  /\ Alive
  /\ emitter[e] = "erring"
  /\ \/ /\ ~poisoned
        /\ emitter' = [emitter EXCEPT ![e] = "free"]
        /\ UNCHANGED <<poisoned, main, exit>>
     \/ /\ poisoned' = TRUE
        /\ emitter' = [emitter EXCEPT ![e] = "threw"]
        /\ main' = IF e # Heart THEN main
                   ELSE IF main = "flushing" THEN "closing" ELSE "crashed"
        /\ exit' = IF e # Heart THEN exit
                   ELSE IF main = "flushing" THEN 3 ELSE 1
  /\ UNCHANGED <<emitted, writer, broken, run, recorded, artifactClosed,
                 published, observed, lines>>

\* The output errs or is closed between two writes.
SinkBreaks ==
  /\ Alive
  /\ ~broken
  /\ stage # "writing" /\ main \notin {"terminal_pending", "failure_pending"}
  /\ broken' = TRUE
  /\ UNCHANGED <<emitters, writer, run, main, exit, artifact, lines>>

-----------------------------------------------------------------------------
(* The main line.                                                          *)

\* Promise.all over the chains.  The verdict of the review is the chains'
\* business; here it is any of the three.
SummariseReviews ==
  /\ Alive
  /\ main = "reviewing"
  /\ \A c \in Chains : emitter[c] = "done"
  /\ \E verdict \in {"clear", "findings", "incomplete"} :
       code' = IF verdict = "incomplete" \/ outputFailure THEN 3
               ELSE IF verdict = "findings" THEN 1 ELSE 0
  /\ main' = "recording_findings"
  /\ UNCHANGED <<emitters, writer, broken, outputFailure, errorRecorded,
                 artifactFinalizing, told, exit, artifact, lines>>

\* runV9Review rejects; runV9App awaits the tail and reports exit code 3.
Throws ==
  /\ main' = "closing"
  /\ exit' = 3
  /\ AwaitTail

ChainThrows ==
  /\ Alive
  /\ main = "reviewing"
  /\ \E c \in Chains : emitter[c] = "threw"
  /\ Throws
  /\ UNCHANGED <<emitters, queue, stage, cur, seq, terminal, finalizing,
                 deliveryFailure, broken, run, artifact, lines>>

RecordFindings ==
  /\ Alive
  /\ main = "recording_findings"
  /\ \/ /\ ~poisoned
        /\ main' = "cleaning"
        /\ UNCHANGED <<poisoned, exit, ahead>>
     \/ /\ poisoned' = TRUE
        /\ Throws
  /\ UNCHANGED <<emitters, queue, stage, cur, seq, terminal, finalizing,
                 deliveryFailure, broken, run, recorded, artifactClosed,
                 published, observed, lines>>

CleanupEnds ==
  /\ Alive
  /\ main = "cleaning"
  /\ main' = "flushing"
  /\ UNCHANGED <<emitters, writer, broken, run, exit, artifact, lines>>

\* finish() begins once no heartbeat is pending.
Finish ==
  /\ Alive
  /\ main = "flushing" /\ emitter[Heart] = "free"
  /\ artifactFinalizing' = TRUE
  /\ finalizing' = TRUE
  /\ AwaitTail
  /\ main' = "settling"
  /\ UNCHANGED <<emitters, queue, stage, cur, seq, terminal, deliveryFailure,
                 broken, outputFailure, errorRecorded, code, told, exit,
                 artifact, lines>>

\* The summary is settled and artifact.finalize() called, which admits no
\* further append.
StartFinalize ==
  /\ Alive
  /\ main = "settling" /\ ahead = 0
  /\ told' = (deliveryFailure # "none")
  /\ artifactClosed' = TRUE
  /\ main' = "sealing"
  /\ UNCHANGED <<emitters, writer, broken, outputFailure, errorRecorded,
                 artifactFinalizing, code, exit, recorded, poisoned, published,
                 observed, lines>>

\* Mutant: heartbeats in flight are not awaited before the terminal line.
FinalizeEnds_NoAwait ==
  /\ Alive
  /\ main = "sealing"
  /\ \/ ~poisoned /\ published' = TRUE /\ main' \in {"sealed", "unsealed"}
     \/ UNCHANGED published /\ main' = "unsealed"
  /\ ahead' = 0
  /\ UNCHANGED <<emitters, queue, stage, cur, seq, terminal, finalizing,
                 deliveryFailure, broken, run, exit, recorded, poisoned,
                 artifactClosed, observed, lines>>

\* artifact.finalize() and the index entry settle.  Even an indexed artifact may
\* end in the failure branch: its staging copies could not be released.
FinalizeEnds ==
  /\ Alive
  /\ main = "sealing"
  /\ \/ ~poisoned /\ published' = TRUE /\ main' \in {"sealed", "unsealed"}
     \/ UNCHANGED published /\ main' = "unsealed"
  /\ AwaitTail
  /\ UNCHANGED <<emitters, queue, stage, cur, seq, terminal, finalizing,
                 deliveryFailure, broken, run, exit, recorded, poisoned,
                 artifactClosed, observed, lines>>

\* The terminal line does not pass through the queue.  A draft that fails
\* validation takes no sequence number.
TerminalLine(kind, next, invalid, lost) ==
  /\ terminal' = TRUE
  /\ finalizing' = FALSE
  /\ \/ /\ UNCHANGED <<seq, broken, lines>>
        /\ invalid
     \/ /\ seq' = seq + 1
        /\ \/ ~broken /\ UNCHANGED broken /\ lines' = Line(kind, seq + 1) /\ next
           \/ broken' = TRUE /\ UNCHANGED lines /\ lost

Complete ==
  /\ Alive
  /\ main = "sealed" /\ ahead = 0
  /\ TerminalLine("completed",
       main' = "terminal_pending" /\ UNCHANGED deliveryFailure,
       main' = "observing_failure" /\ FirstFailure("event_validation"),
       main' = "observing_failure" /\ FirstFailure("output_write"))
  /\ UNCHANGED <<emitters, queue, stage, cur, ahead, run, exit, artifact>>

CompletedWritten ==
  /\ Alive
  /\ main = "terminal_pending"
  /\ \/ /\ main' = "observing"
        /\ UNCHANGED <<broken, deliveryFailure>>
     \/ /\ main' = "observing_failure"
        /\ broken' = TRUE
        /\ FirstFailure("output_write")
  /\ UNCHANGED <<emitters, queue, stage, cur, ahead, seq, terminal, finalizing,
                 run, exit, artifact, lines>>

ReportFailure ==
  /\ Alive
  /\ main = "unsealed" /\ ahead = 0
  /\ TerminalLine("persistence_failed",
       main' = "failure_pending" /\ UNCHANGED exit,
       main' = "closing" /\ exit' = 3,
       main' = "closing" /\ exit' = 3)
  /\ UNCHANGED <<emitters, queue, stage, cur, ahead, deliveryFailure, run,
                 artifact>>

FailureWritten ==
  /\ Alive
  /\ main = "failure_pending"
  /\ main' = "closing" /\ exit' = 3
  /\ broken' \in {broken, TRUE}
  /\ UNCHANGED <<emitters, writer, run, artifact, lines>>

\* Mutant: only the terminal write decides the outcome.
Observe_Planned ==
  /\ Alive
  /\ main = "observing"
  /\ observed' = "planned"
  /\ main' = "closing" /\ exit' = code
  /\ UNCHANGED <<emitters, writer, broken, run, recorded, poisoned,
                 artifactClosed, published, lines>>

\* The outcome of the public stream is added to the run index.
Observe ==
  /\ Alive
  /\ main = "observing"
  /\ \/ /\ observed' = IF deliveryFailure = "none" THEN "planned" ELSE "failed"
        /\ main' = "closing" /\ exit' = code
     \/ /\ main' = "observing_failure"
        /\ UNCHANGED <<observed, exit>>
  /\ UNCHANGED <<emitters, writer, broken, run, recorded, poisoned,
                 artifactClosed, published, lines>>

\* Mutant: the failure of the terminal write is swallowed.
ObserveFailure_Swallows ==
  /\ Alive
  /\ main = "observing_failure"
  /\ observed' = "failed"
  /\ main' = "closing" /\ exit' = code
  /\ UNCHANGED <<emitters, writer, broken, run, recorded, poisoned,
                 artifactClosed, published, lines>>

ObserveFailure ==
  /\ Alive
  /\ main = "observing_failure"
  /\ observed' \in {observed, "failed"}
  /\ main' = "closing" /\ exit' = 3
  /\ UNCHANGED <<emitters, writer, broken, run, recorded, poisoned,
                 artifactClosed, published, lines>>

\* runV9App's finally: the tail is awaited and the artifact closed.
Close ==
  /\ Alive
  /\ main = "closing" /\ ahead = 0
  /\ artifactClosed' = TRUE
  /\ main' = "exited"
  /\ UNCHANGED <<emitters, writer, broken, run, exit, recorded, poisoned,
                 published, observed, lines>>

MainStep ==
  \/ SummariseReviews \/ ChainThrows \/ RecordFindings \/ CleanupEnds \/ Finish
  \/ StartFinalize \/ FinalizeEnds \/ Complete \/ CompletedWritten
  \/ ReportFailure \/ FailureWritten \/ Observe \/ ObserveFailure \/ Close

Operation == Materialize \/ RecordEvent \/ Write \/ Written

EventsNext ==
  \/ \E c \in Chains : Emit(c) \/ ChainEnds(c)
  \/ Beat
  \/ Operation
  \/ \E e \in Emitters : RecordError(e)
  \/ SinkBreaks
  \/ MainStep

EventsSpec == EventsInit /\ [][EventsNext]_eventVars

\* Appends, writes (bounded by the grace timer), the main line and the end of
\* every chain.  Heartbeats and failures are never assumed to come.
EventsFairness ==
  /\ WF_eventVars(Operation) /\ WF_eventVars(MainStep)
  /\ \A e \in Emitters : WF_eventVars(RecordError(e))
  /\ \A c \in Chains : WF_eventVars(ChainEnds(c))

EventsFairSpec == EventsSpec /\ EventsFairness

-----------------------------------------------------------------------------
(* Properties.                                                             *)

\* The values every variable takes.
EventsTypeOK ==
  /\ emitter \in [Emitters -> {"free", "awaiting", "erring", "done", "threw"}]
  /\ emitted \in [Emitters -> Nat]
  /\ queue \in Seq([from : Emitters, quiet : BOOLEAN])
  /\ stage \in Stages
  /\ cur \in Nat /\ ahead \in Nat /\ seq \in Nat
  /\ terminal \in BOOLEAN /\ finalizing \in BOOLEAN /\ broken \in BOOLEAN
  /\ deliveryFailure \in Failures \cup {"none"}
  /\ outputFailure \in BOOLEAN /\ errorRecorded \in BOOLEAN
  /\ artifactFinalizing \in BOOLEAN /\ told \in BOOLEAN
  /\ main \in Phases
  /\ code \in {0, 1, 3} /\ exit \in {0, 1, 3, NoExit}
  /\ recorded \in SUBSET Nat
  /\ poisoned \in BOOLEAN /\ artifactClosed \in BOOLEAN /\ published \in BOOLEAN
  /\ observed \in {"none", "planned", "failed"}
  /\ lines \in Seq([seq : Nat, kind : {"event", "heartbeat", "completed",
                                      "persistence_failed"}])

Delivered == {lines[i].seq : i \in 1..Len(lines)}
EndsWith(kind) == lines # <<>> /\ Last(lines).kind = kind

\* The public stream is ordered and ends with its terminal line, although
\* heartbeats keep coming while the artifact is sealed and the terminal line
\* is written beside the queue.
Stream == INSTANCE PublicStream
StreamSpec == Stream!Spec

\* The artifact is authoritative: an event is public only if the artifact has
\* it; only heartbeats during sealing and the terminal line are public alone.
RecordedFirst ==
  \A i \in 1..Len(lines) :
    lines[i].kind = "event" => lines[i].seq \in recorded

\* A sealed summary without a delivery failure means that every event of the
\* artifact was delivered.
SummaryTellsFailure == published /\ ~told => recorded \subseteq Delivered

\* docs/releases/v9.4.0.md: "A successful terminal write no longer hides
\* earlier delivery failures".  The index says that the planned stream was
\* delivered only when it was, from the first sequence number to the terminal
\* line, and the artifact holds no run.error record of an event that was not.
IndexTellsFailure ==
  observed = "planned" =>
    /\ Delivered = 1..seq
    /\ recorded \subseteq Delivered
    /\ ~errorRecorded
    /\ EndsWith("completed")

\* The run ends as complete (0, or 1 with findings) only with a published
\* artifact, a delivered terminal line, a settled index, and nothing of the
\* artifact missing in the public stream.
CleanExit ==
  exit \in {0, 1} /\ Alive =>
    /\ published
    /\ observed # "none"
    /\ EndsWith("completed")
    /\ recorded \subseteq Delivered

\* Heartbeats never harm a run whose artifact is sound: while it is sealed they
\* stay out of it.
HeartbeatsHarmless == ~Alive => poisoned

\* What was not delivered is told, wherever it was lost and whatever failed
\* beside it: the artifact comes first, its summary and the index know of every
\* event that the output did not take, the exit code follows, and only a
\* poisoned artifact ends the process in between (emit, finish, runV9App).
DeliveryIsTold ==
  /\ EventsTypeOK
  /\ RecordedFirst /\ SummaryTellsFailure /\ IndexTellsFailure
  /\ CleanExit /\ HeartbeatsHarmless

\* The run comes to an end, whatever fails.
RunEnds == <>(main \in {"exited", "crashed"})

=============================================================================
