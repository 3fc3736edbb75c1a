------------------------------ MODULE RunRecord ------------------------------
(* The record of a run of the protocol before v9: the event writer that mirrors *)
(* the public stream, the recorder that appends the mirrored events and the      *)
(* private records to an active file and publishes it, the retention and the     *)
(* scavenging that recorders of other runs do beside it, and the readers of the  *)
(* report and of the status.  A line is its kind and the reviewer it is about;   *)
(* sanitizing, schemas and the unsafe paths that are refused are left out.       *)
EXTENDS Naturals, Sequences, FiniteSets, FiniteSetsExt, Functions

CONSTANTS
  Reviewers,   \* each one a lens of its own
  Verdicts,    \* what they may come to say: functions to pass, fail, incomplete
  MaxPending,  \* mirrorMaxPendingEvents
  MaxBeats,    \* bound: heartbeats of the run
  MaxFaults,   \* bound: failed appends and links
  Older,       \* records published before, 1 the oldest
  Unowned,     \* those that no completed recorder has marked as its own
  MaxRuns      \* retention

ASSUME RecordReviewersAssumption ==
  /\ IsFiniteSet(Reviewers) /\ Reviewers # {}
  /\ "mirror" \notin Reviewers /\ "final" \notin Reviewers
ASSUME RecordVerdictsAssumption ==
  Verdicts \subseteq [Reviewers -> {"pass", "fail", "incomplete"}]
ASSUME RecordBoundsAssumption ==
  /\ MaxPending \in Nat \ {0} /\ MaxBeats \in Nat /\ MaxFaults \in Nat
  /\ Older \in Nat /\ Unowned \subseteq 1..Older /\ MaxRuns \in Nat \ {0}

Ours == Older + 1    \* the record of the run, in the order of their times
Theirs == Older + 2  \* that of a run beside it

VARIABLES
  required,  \* the record must be published: publish and mirrorCloseRequired
  verdict,   \* what each reviewer will say
  at,        \* where each reviewer is
  alive,     \* the process runs
  run,       \* "reviewing", "finishing", "failing", "completed", "failed"
  stream,    \* lines written to standard output
  broken,    \* standard output has failed
  mirror,    \* mirrored events that wait
  inflight,  \* the mirrored event handed to the recorder
  mirroring, \* mirrorEnabled
  gap,       \* mirrorFailure: an event of the stream is not in the record
  final,     \* the persistence of run.completed
  appends,   \* the queue of the recorder
  recorder,  \* "open", "linking", "marking", "unlinking", "sweeping", "closed"
  content,   \* whole lines of the file
  torn,      \* the file ends in a part of a line
  scarred,   \* a record that is only best-effort has left such a part
  active,    \* the file has its active name
  records,   \* published records
  owned,     \* records with an ownership marker
  sweep,     \* retention of the two recorders
  beats, faults

subject == <<required, verdict>>
writer == <<stream, broken, mirror, inflight, mirroring, gap>>
bytes == <<content, torn, scarred>>
directory == <<active, records, owned, sweep>>
recordVars == <<subject, at, alive, run, writer, final, appends, recorder, bytes,
                directory, beats, faults>>

Line(kind, of) == [kind |-> kind, of |-> of]
Damaged(line) == Line("damaged", line.kind)
IsDamaged(lines) == \E line \in Range(lines) : line.kind = "damaged"
Sources == Reviewers \cup {"mirror", "final"}

RecordTypeOK ==
  /\ required \in BOOLEAN /\ verdict \in Verdicts
  /\ at \in [Reviewers -> {"reviewing", "keeping", "kept", "ending", "ended",
                           "missed", "sorry", "gone"}]
  /\ alive \in BOOLEAN /\ run \in {"reviewing", "finishing", "failing", "completed", "failed"}
  /\ broken \in BOOLEAN /\ mirroring \in BOOLEAN /\ gap \in BOOLEAN
  /\ Len(mirror) <= MaxPending
  /\ final \in {"no", "draining", "appending", "closing", "closed", "dropped"}
  /\ \A i \in DOMAIN appends : appends[i].from \in Sources
  /\ recorder \in {"open", "linking", "marking", "unlinking", "sweeping", "closed"}
  /\ torn \in BOOLEAN /\ scarred \in BOOLEAN /\ active \in BOOLEAN
  /\ records \subseteq 1..Theirs /\ owned \subseteq 1..Theirs
  /\ beats \in 0..MaxBeats /\ faults \in 0..MaxFaults

\* recorder.ready() has created the file with its first line.
RecordInit ==
  /\ required \in BOOLEAN /\ verdict \in Verdicts
  /\ at = [r \in Reviewers |-> "reviewing"] /\ alive = TRUE /\ run = "reviewing"
  /\ stream = <<>> /\ broken = FALSE
  /\ mirror = <<>> /\ inflight = FALSE /\ mirroring = TRUE /\ gap = FALSE
  /\ final = "no" /\ appends = <<>> /\ recorder = "open"
  /\ content = <<Line("resolution", "none")>> /\ torn = FALSE /\ scarred = FALSE
  /\ active = TRUE
  /\ records = 1..Older /\ owned = 1..Older \ Unowned
  /\ sweep = [w \in {Ours, Theirs} |-> [step |-> "idle", oldest |-> 0]]
  /\ beats = 0 /\ faults = 0

-----------------------------------------------------------------------------
(* The mirror of the event writer. *)

\* disableMirror(): what waits is dropped, what is in flight goes on.
MirrorStops == mirroring' = FALSE /\ gap' = TRUE /\ mirror' = <<>>

\* Mutant: a full queue drops the event and says nothing.
Mirrors_Drops(line) ==
  /\ IF mirroring /\ Len(mirror) + (IF inflight THEN 1 ELSE 0) < MaxPending
     THEN mirror' = Append(mirror, line) ELSE UNCHANGED mirror
  /\ UNCHANGED <<mirroring, gap>>
\* enqueueMirror(): a queue at its limit stops the mirror.
Mirrors(line) ==
  IF ~mirroring THEN UNCHANGED <<mirror, mirroring, gap>>
  ELSE IF Len(mirror) + (IF inflight THEN 1 ELSE 0) >= MaxPending THEN MirrorStops
  ELSE mirror' = Append(mirror, line) /\ UNCHANGED <<mirroring, gap>>

\* A line is written and mirrored, or standard output fails and the run with it.
Emits(line, next) ==
  /\ ~broken /\ alive /\ run = "reviewing"
  /\ \/ /\ stream' = IF line.kind = "beat" THEN stream ELSE Append(stream, line)
        /\ Mirrors(line) /\ at' = next
        /\ UNCHANGED <<broken, run>>
     \/ /\ broken' = TRUE /\ run' = "failing"
        /\ UNCHANGED <<stream, mirror, mirroring, gap, at>>
  /\ UNCHANGED <<subject, alive, inflight, final, appends, recorder, bytes, directory, faults>>

\* The pump hands the next event to the recorder.
Pumps ==
  /\ alive /\ mirroring /\ ~inflight /\ mirror # <<>>
  /\ mirror' = Tail(mirror)
  /\ IF recorder = "open"
     THEN /\ inflight' = TRUE
          /\ appends' = Append(appends, [from |-> "mirror", line |-> Head(mirror)])
          /\ UNCHANGED <<mirroring, gap>>
     ELSE mirroring' = FALSE /\ gap' = TRUE /\ UNCHANGED <<inflight, appends>>
  /\ UNCHANGED <<subject, at, alive, run, stream, broken, final, recorder, bytes,
                 directory, beats, faults>>

-----------------------------------------------------------------------------
(* A reviewer: its result is recorded before anything is said about it, the     *)
(* record of its terminal is best-effort.                                       *)

Records(r, line, next) ==
  /\ alive /\ run = "reviewing" /\ recorder = "open"
  /\ at' = [at EXCEPT ![r] = next]
  /\ appends' = Append(appends, [from |-> r, line |-> line])
  /\ UNCHANGED <<subject, alive, run, writer, final, recorder, bytes, directory,
                 beats, faults>>

KeepsResult(r) ==
  /\ at[r] = "reviewing" /\ verdict[r] # "incomplete"
  /\ Records(r, Line("result", r), "keeping")
RecordsTerminal(r) ==
  /\ at[r] = "kept"
  /\ Records(r, Line("terminal", r), "ending")
RecordsIncomplete(r) ==
  /\ at[r] = "missed" \/ (at[r] = "reviewing" /\ verdict[r] = "incomplete")
  /\ Records(r, Line("missing", r), "sorry")

\* reviewer.completed and the reviewer.result behind it, as one line.
EmitsCompleted(r) ==
  /\ at[r] = "ended"
  /\ Emits(Line("done", r), [at EXCEPT ![r] = "gone"]) /\ UNCHANGED beats
EmitsIncomplete(r) ==
  /\ at[r] = "sorry" /\ \A i \in DOMAIN appends : appends[i].from # r
  /\ Emits(Line("incomplete", r), [at EXCEPT ![r] = "gone"]) /\ UNCHANGED beats
EmitsHeartbeat ==
  /\ beats < MaxBeats /\ beats' = beats + 1
  /\ Emits(Line("beat", "none"), at)

-----------------------------------------------------------------------------
(* run.completed is persisted, and the record published, before it is written. *)

Outcome ==
  IF \E r \in Reviewers : Line("incomplete", r) \in {stream[i] : i \in DOMAIN stream}
  THEN "incomplete"
  ELSE IF \E r \in Reviewers : verdict[r] = "fail" THEN "findings" ELSE "passed"

FinalBegins ==
  /\ alive /\ run = "reviewing" /\ \A r \in Reviewers : at[r] = "gone"
  /\ run' = "finishing" /\ final' = "draining"
  /\ UNCHANGED <<subject, at, alive, writer, appends, recorder, bytes, directory,
                 beats, faults>>

\* Mutant: only what waits is looked at, not what the mirror has lost.
FinalDrained_Forgets ==
  /\ alive /\ final = "draining" /\ ~inflight /\ mirror = <<>>
  /\ IF mirroring
     THEN /\ final' = "appending"
          /\ appends' = Append(appends, [from |-> "final", line |-> Line("completed", Outcome)])
     ELSE final' = "closing" /\ UNCHANGED appends
  /\ UNCHANGED <<subject, at, alive, run, writer, recorder, bytes, directory,
                 beats, faults>>
\* drainMirror(): a mirror that has lost an event ends a record that is required.
FinalDrained ==
  /\ alive /\ final = "draining" /\ ~inflight /\ mirror = <<>>
  /\ IF gap /\ required THEN final' = "dropped" /\ UNCHANGED appends
     ELSE IF mirroring
     THEN /\ final' = "appending"
          /\ appends' = Append(appends, [from |-> "final", line |-> Line("completed", Outcome)])
     ELSE final' = "closing" /\ UNCHANGED appends
  /\ UNCHANGED <<subject, at, alive, run, writer, recorder, bytes, directory,
                 beats, faults>>

FinalCloses ==
  /\ alive /\ final = "closing" /\ recorder = "open" /\ appends = <<>>
  /\ recorder' = "linking"
  /\ UNCHANGED <<subject, at, alive, run, writer, final, appends, bytes, directory,
                 beats, faults>>

FinalWritten ==
  /\ alive /\ run = "finishing" /\ final = "closed"
  /\ \/ stream' = Append(stream, Line("completed", Outcome)) /\ run' = "completed"
        /\ UNCHANGED broken
     \/ broken' = TRUE /\ run' = "failed" /\ UNCHANGED stream
  /\ UNCHANGED <<subject, at, alive, mirror, inflight, mirroring, gap, final, appends,
                 recorder, bytes, directory, beats, faults>>

\* The persistence has failed, or has taken too long and goes on by itself.
FinalRefused ==
  /\ alive /\ run = "finishing" /\ final # "closed"
  /\ run' = "failed"
  /\ IF final = "dropped" THEN UNCHANGED <<mirror, mirroring, gap>> ELSE MirrorStops
  /\ UNCHANGED <<subject, at, alive, stream, broken, inflight, final, appends, recorder,
                 bytes, directory, beats, faults>>

\* writer.close() of a run whose output has failed: the pump ends, the recorder
\* is closed, and the run has failed, at the latest when the flush times out.
CloseBegins ==
  /\ alive /\ broken /\ final = "no" /\ recorder = "open"
  /\ ~inflight /\ (mirror = <<>> \/ ~mirroring) /\ appends = <<>>
  /\ recorder' = "linking"
  /\ UNCHANGED <<subject, at, alive, run, writer, final, appends, bytes, directory,
                 beats, faults>>
CloseEnds ==
  /\ alive /\ run = "failing"
  /\ run' = "failed"
  /\ IF recorder = "closed" THEN UNCHANGED <<mirror, mirroring, gap>> ELSE MirrorStops
  /\ UNCHANGED <<subject, at, alive, stream, broken, inflight, final, appends, recorder,
                 bytes, directory, beats, faults>>

-----------------------------------------------------------------------------
(* The recorder: one operation after the other. *)

\* A line that follows a part of another one cannot be read.  A heartbeat, which
\* no reader looks at, is not kept in the model.
Written(line) ==
  /\ content' = IF torn THEN Append(content, Damaged(line))
                ELSE IF line.kind = "beat" THEN content ELSE Append(content, line)
  /\ torn' = FALSE

\* What the end of an append means to the one who has waited for it.
Told(from, ok) ==
  /\ inflight' = IF from = "mirror" THEN FALSE ELSE inflight
  /\ IF from = "mirror" /\ ~ok THEN MirrorStops ELSE UNCHANGED <<mirror, mirroring, gap>>
  /\ final' = IF from = "final" THEN (IF ok THEN "closing" ELSE "dropped") ELSE final
  /\ at' = IF from \notin Reviewers \/ at[from] \notin {"keeping", "ending"} THEN at
           ELSE [at EXCEPT ![from] = IF at[from] = "ending" THEN "ended"
                                     ELSE IF ok THEN "kept" ELSE "missed"]

Appended ==
  /\ alive /\ appends # <<>>
  /\ LET head == Head(appends) IN
     /\ appends' = Tail(appends)
     /\ \/ Written(head.line) /\ Told(head.from, TRUE) /\ UNCHANGED <<scarred, faults>>
        \/ /\ faults < MaxFaults /\ faults' = faults + 1
           /\ torn' \in {torn, TRUE}
           /\ scarred' = (scarred \/ (torn' /\ head.line.kind \in {"terminal", "missing", "result"}))
           /\ Told(head.from, FALSE)
           /\ UNCHANGED content
  /\ UNCHANGED <<subject, alive, run, stream, broken, recorder, directory, beats>>

FinalClosed(ok) ==
  final' = IF final # "closing" THEN final ELSE IF ok THEN "closed" ELSE "dropped"

\* The active file is linked to its final name; when that fails it is removed.
Links ==
  /\ alive /\ recorder = "linking"
  /\ \/ /\ required /\ active
        /\ records' = records \cup {Ours} /\ recorder' = "marking"
        /\ UNCHANGED <<active, final, faults>>
     \/ /\ required /\ (~active \/ faults < MaxFaults)
        /\ faults' = IF active THEN faults + 1 ELSE faults
        /\ active' = FALSE /\ recorder' = "closed" /\ FinalClosed(FALSE)
        /\ UNCHANGED records
     \/ /\ ~required /\ recorder' = "unlinking" /\ UNCHANGED <<records, active, final, faults>>
  /\ UNCHANGED <<subject, at, alive, run, writer, appends, bytes, owned, sweep, beats>>

\* recordLegacyOwnership(), when run.completed was appended, readable or not.
Marks ==
  /\ alive /\ recorder = "marking"
  /\ owned' = IF \E line \in Range(content) : "completed" \in {line.kind, line.of}
              THEN owned \cup {Ours} ELSE owned
  /\ recorder' = "unlinking"
  /\ UNCHANGED <<subject, at, alive, run, writer, final, appends, bytes, active, records,
                 sweep, beats, faults>>

Unlinks ==
  /\ alive /\ recorder = "unlinking"
  /\ active' = FALSE /\ recorder' = "sweeping"
  /\ sweep' = [sweep EXCEPT ![Ours].step = "listing"]
  /\ UNCHANGED <<subject, at, alive, run, writer, final, appends, bytes, records, owned,
                 beats, faults>>

Closed ==
  /\ alive /\ recorder = "sweeping" /\ sweep[Ours].step = "done"
  /\ recorder' = "closed" /\ FinalClosed(TRUE)
  /\ UNCHANGED <<subject, at, alive, run, writer, appends, bytes, directory, beats,
                 faults>>

-----------------------------------------------------------------------------
(* Retention, by the recorder of the run and by another one. *)

SweepKept == UNCHANGED <<subject, at, alive, run, writer, final, appends, recorder, bytes,
                         active, beats, faults>>

\* The other run publishes its record, while this one is closed or later.
Publishes ==
  /\ sweep[Theirs].step = "idle" /\ recorder # "open"
  /\ records' = records \cup {Theirs} /\ owned' = owned \cup {Theirs}
  /\ sweep' = [sweep EXCEPT ![Theirs].step = "listing"]
  /\ SweepKept

\* The completed records that the retention may touch: those with a marker.
Owned == records \cap owned
\* Mutant: the limit counts the records that are not its own to remove.
Lists_Counts(w) ==
  /\ sweep[w].step = "listing" /\ (w = Ours => alive)
  /\ sweep' = [sweep EXCEPT ![w] =
                 IF Cardinality(records) <= MaxRuns \/ Owned = {}
                 THEN [step |-> "done", oldest |-> 0]
                 ELSE [step |-> "removing", oldest |-> Min(Owned)]]
  /\ UNCHANGED <<records, owned>> /\ SweepKept
\* removeExpiredRuns(): those are listed, ...
Lists(w) ==
  /\ sweep[w].step = "listing" /\ (w = Ours => alive)
  /\ sweep' = [sweep EXCEPT ![w] =
                 IF Cardinality(Owned) <= MaxRuns THEN [step |-> "done", oldest |-> 0]
                 ELSE [step |-> "removing", oldest |-> Min(Owned)]]
  /\ UNCHANGED <<records, owned>> /\ SweepKept

\* ... the oldest is removed, if it is still there, and they are listed again.
Expires(w) ==
  /\ sweep[w].step = "removing" /\ (w = Ours => alive)
  /\ records' = records \ {sweep[w].oldest}
  /\ sweep' = [sweep EXCEPT ![w] = [step |-> "listing", oldest |-> 0]]
  /\ UNCHANGED owned /\ SweepKept

-----------------------------------------------------------------------------
(* Other recorders scavenge the active files of processes that are gone. *)

Scavenged ==
  /\ active' = FALSE
  /\ UNCHANGED <<subject, at, alive, run, writer, final, appends, recorder, bytes, records,
                 owned, sweep, beats, faults>>
\* Mutant: a record that has not been published is kept for its owner.
Scavenges_Published ==
  /\ active /\ ~alive /\ Ours \in records
  /\ Scavenged
\* removeStaleActiveRuns(): a file that its process, being gone, has not written
\* for an hour, or for thirty days when its number is in use again.
Scavenges ==
  /\ active /\ ~alive
  /\ Scavenged

\* The process dies, or leaves when its run has ended.
Leaves ==
  /\ alive /\ run \in {"completed", "failed"} /\ alive' = FALSE
  /\ UNCHANGED <<subject, at, run, writer, final, appends, recorder, bytes, directory,
                 beats, faults>>
Crashes ==
  /\ alive /\ run \notin {"completed", "failed"} /\ alive' = FALSE
  /\ UNCHANGED <<subject, at, run, writer, final, appends, recorder, bytes, directory, beats, faults>>

-----------------------------------------------------------------------------
(* The readers: report, its best-effort form, and status. *)

Has(lines, kind, of) == Line(kind, of) \in Range(lines)
Completions(lines) == {line \in Range(lines) : line.kind = "completed"}
Results(lines) == {r \in Reviewers : Has(lines, "result", r)}
Findings(lines) == \E r \in Results(lines) : verdict[r] = "fail"

\* A reference to a result that the record does not hold before it.
Dangling(lines, kind) ==
  \E i \in DOMAIN lines :
    lines[i].kind = kind /\ lines[i].of \notin Results(SubSeq(lines, 1, i))

\* The manifest of run.completed names the reviewers whose results were given out.
Manifest == {r \in Reviewers : Has(stream, "done", r)}
\* validateCurrentCompletionIntegrity(): they are those the record has results of.
Agrees(lines) == Completions(lines) # {} => Results(lines) = Manifest

\* A line that is no JSON, or the unfinished last one of a file that no longer grows.
Unreadable(lines, partial, isActive) == IsDamaged(lines) \/ (partial /\ ~isActive)

\* What makes the strict reader fail, and the best-effort one warn.
Faulty(lines, partial, isActive) ==
  \/ Unreadable(lines, partial, isActive)
  \/ Dangling(lines, "terminal") \/ ~Agrees(lines)

\* logicalLensStates(): a lens nobody has spoken for is unknown, and incomplete
\* only once the run has ended.
LensIncomplete(lines, r) ==
  /\ r \notin Results(lines)
  /\ \/ Has(lines, "missing", r) \/ Has(lines, "incomplete", r)
     \/ Completions(lines) # {} /\ ~Has(lines, "done", r)

\* Mutant: the warnings of a best-effort report leave its coverage alone.
Partial_Trusts(lines, warned) ==
  IF Completions(lines) # {} THEN \E line \in Completions(lines) : line.of = "incomplete"
  ELSE \E r \in Reviewers : LensIncomplete(lines, r)
\* The coverage that run.completed reports, or that of the lenses; never complete
\* when a line could not be read.
Partial(lines, warned) ==
  \/ warned
  \/ IF Completions(lines) # {} THEN \E line \in Completions(lines) : line.of = "incomplete"
     ELSE \E r \in Reviewers : LensIncomplete(lines, r)

Verdict(lines, warned) ==
  IF Partial(lines, warned) THEN "incomplete"
  ELSE IF Findings(lines) THEN "findings" ELSE "passed"

\* readLegacyRunReport().
Report(lines, partial, isActive, bestEffort) ==
  IF Dangling(lines, "done") \/ (Faulty(lines, partial, isActive) /\ ~bestEffort)
  THEN "error"
  ELSE IF isActive /\ Completions(lines) = {} THEN "running"
  ELSE Verdict(lines, Faulty(lines, partial, isActive))

\* A reference that the status cannot find the verified result of.
StatusDangling(lines) == Dangling(lines, "terminal") \/ Dangling(lines, "done")
\* validateStatusCompletionIntegrity().
StatusAgrees(lines) ==
  Completions(lines) # {} =>
    /\ Manifest \subseteq Results(lines)
    /\ Cardinality(Manifest) = Cardinality(Results(lines))

\* readRunStatus(): once the run has ended it asks for the strict report as well.
Status(lines, partial, isActive) ==
  IF Unreadable(lines, partial, isActive) \/ StatusDangling(lines) THEN "error"
  ELSE IF Completions(lines) = {} THEN "running"
  ELSE IF ~StatusAgrees(lines) \/ Report(lines, partial, isActive, FALSE) = "error" THEN "error"
  ELSE (CHOOSE line \in Completions(lines) : TRUE).of

\* What a reader that opens the record now will say: the final name is preferred,
\* a file that grows is read up to its present end, and a path or a published file
\* that changes meanwhile is refused.
Answer(kind) ==
  IF Ours \notin records /\ ~active THEN "error"
  ELSE IF kind = "status" THEN Status(content, torn, Ours \notin records)
  ELSE Report(content, torn, Ours \notin records, kind = "salvage")
Readers == {"report", "salvage", "status"}

-----------------------------------------------------------------------------
Reviewing ==
  \E r \in Reviewers :
    \/ KeepsResult(r) \/ RecordsTerminal(r) \/ RecordsIncomplete(r)
    \/ EmitsCompleted(r) \/ EmitsIncomplete(r)
Finishing == FinalBegins \/ FinalDrained \/ FinalCloses \/ FinalWritten \/ CloseBegins
Timeouts == FinalRefused \/ CloseEnds
Recorder == Appended \/ Links \/ Marks \/ Unlinks \/ Closed \/ Lists(Ours) \/ Expires(Ours)
Beside == Publishes \/ Lists(Theirs) \/ Expires(Theirs)

RecordNext ==
  \/ Reviewing \/ EmitsHeartbeat \/ Pumps \/ Finishing \/ Timeouts \/ Recorder
  \/ Beside \/ Scavenges \/ Leaves \/ Crashes

RecordSpec == RecordInit /\ [][RecordNext]_recordVars

\* Every operation on a file settles, the timers fire, time passes, and the runs
\* beside this one go on to open and to close their recorders.
RecordFairSpec ==
  /\ RecordSpec
  /\ WF_recordVars(Reviewing) /\ WF_recordVars(Pumps) /\ WF_recordVars(Finishing)
  /\ WF_recordVars(Timeouts) /\ WF_recordVars(Recorder) /\ WF_recordVars(Beside)
  /\ WF_recordVars(Scavenges) /\ WF_recordVars(Leaves)

-----------------------------------------------------------------------------
(* Properties. *)

\* Lines a to b of what was said are the public lines that a file holds, in their order.
Public == {"done", "incomplete", "completed"}
Holds(lines, said, a, b) ==
  \E f \in [a..b -> DOMAIN lines] :
    /\ \A i, j \in a..b : i < j => f[i] < f[j]
    /\ \A i \in a..b : lines[f[i]] = said[i]
    /\ \A k \in DOMAIN lines : lines[k].kind \in Public => \E i \in a..b : f[i] = k

\* run.completed on standard output is the promise that the record is published:
\* it then holds every event of the stream in its order, and no other, unless one
\* was written behind the torn rest of a record that nobody waits for.
CompletionIsDurable ==
  (run = "completed" /\ required /\ ~scarred) =>
    Ours \in owned /\ Holds(content, stream, 1, Len(stream))

\* What a reader says of a record that has ended is what the run has said, and
\* nothing that could not be read is ever passed over as a pass.
ReportsAreTrue ==
  \A kind \in Readers :
    Answer(kind) \in {"passed", "findings"} =>
      /\ Completions(content) # {} => Answer(kind) = Outcome
      /\ Answer(kind) = "passed" => ~IsDamaged(content)

\* Only a record that has ended is reported as passed.
PassedIsComplete ==
  \A kind \in Readers : Answer(kind) = "passed" => Completions(content) # {}

\* The record keeps the promise of the stream, and is read as what it holds
\* (run-recorder.ts, run-report.ts).
RecordIsHonest == RecordTypeOK /\ CompletionIsDurable /\ ReportsAreTrue

\* Two recorders that enforce the retention at the same time remove only records
\* with a marker, and leave the newest MaxRuns of them.
RetentionKeepsNewest ==
  [][\A w \in records \ records' :
       /\ w \in owned
       /\ Cardinality({x \in records' \cap owned : x > w}) >= MaxRuns]_recordVars

\* Every run ends, and the active file of a run that has ended or died does not
\* stay for ever.
EveryRecordEnds ==
  /\ <>(~alive \/ run \in {"completed", "failed"})
  /\ <>[](~active)
=============================================================================
