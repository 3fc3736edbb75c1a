---------------------------- MODULE RunArtifact ----------------------------
(***************************************************************************)
(* The artifact of a run (src/src/diagnostics/run-artifact.ts) and who     *)
(* writes it: every reviewer's execution records its result, coverage and  *)
(* result pages (run-v9.ts), events are recorded beside them, and the end  *)
(* of the run seals the file, copies, publishes, indexes and releases it   *)
(* (app-v9.ts).                                                            *)
(*                                                                         *)
(* Every write is an operation of one queue.  An operation may append      *)
(* several records, each of which may fail or be cut short; then the queue *)
(* is poisoned and every later operation rejected.  The process may die at *)
(* any step: nothing forces a step to be taken, and every state must leave *)
(* the files as they ought to be found.                                    *)
(*                                                                         *)
(* A reader must accept the file while it grows, whatever it ends with,    *)
(* and, once sealed, as a whole: LineAccepted and WholeAccepted, after      *)
(* readRunArtifact.                                                        *)
(***************************************************************************)
EXTENDS Naturals, FiniteSets, Sequences

CONSTANTS
  Reviewers,  \* reviewers whose executions run side by side
  Chunks,     \* narrative records of a result
  Pages,      \* page records of a result
  Attempts,   \* retry_attempts
  MaxEvents,  \* bound: records of events beside the executions
  NoOne       \* writer of records that belong to no reviewer

ASSUME SizeAssumption ==
  Chunks \in Nat /\ Pages \in Nat /\ Attempts \in Nat \ {0} /\ MaxEvents \in Nat
ASSUME NoOneAssumption == NoOne \notin Reviewers

VARIABLES
  config,      \* which publications the run was started with
  file,        \* lines of the active file
  queue,       \* operations behind tail, the first one running
  poisoned,    \* tail is rejected
  finalized,   \* no operation is accepted any more
  resultIds,   \* reviewers whose result has been appended
  pc,          \* where each reviewer's execution stands
  attempt,     \* its attempt
  page,        \* its page
  held,        \* executions that hold an acknowledged result
  events,      \* how many events have been recorded
  main,        \* where the end of the run stands
  copies,      \* the copies on disk
  listed,      \* the recovery copy is referenced
  index,       \* the copies the run index names
  released     \* the active file has been truncated

writing == <<file, queue, poisoned, finalized, resultIds>>
executing == <<pc, attempt, page, held, events>>
publishing == <<main, copies, listed, index, released>>
vars == <<config, writing, executing, publishing>>

Writers == Reviewers \cup {NoOne}
Line(kind, by, n) == [kind |-> kind, by |-> by, n |-> n]
Torn == Line("torn", NoOne, 0)
Seal == Line("seal", NoOne, 0)
Lines(records) == {records[i] : i \in DOMAIN records}
\* What a run is started with: managed persistence, a details file or both.  It
\* makes no difference before the artifact is sealed and is decided then.
Configurations == {c \in [managed : BOOLEAN, details : BOOLEAN] : c.managed \/ c.details}
Undecided == [managed |-> FALSE, details |-> FALSE]
Names == {"recovery", "managed", "details"}

\* Where an execution awaits an operation of its own.
Writes == {"recording", "covering", "paging", "concluding", "retrying", "failing",
           "closing"}
Done == {"completed", "incomplete", "broken"}
Ended == {"published", "failed"}

-----------------------------------------------------------------------------
Init ==
  /\ config = Undecided
  /\ file = <<Line("header", NoOne, 0)>>
  /\ queue = <<>> /\ poisoned = FALSE /\ finalized = FALSE /\ resultIds = {}
  /\ pc = [r \in Reviewers |-> "reviewing"]
  /\ attempt = [r \in Reviewers |-> 1]
  /\ page = [r \in Reviewers |-> 0]
  /\ held = {} /\ events = 0
  /\ main = "running"
  /\ copies = [c \in Names |-> "none"]
  /\ listed = FALSE /\ index = {} /\ released = FALSE

-----------------------------------------------------------------------------
(* The queue.                                                              *)

Note == Line("note", NoOne, 0)
Narrative(r) == [i \in 1..Chunks |-> Line("narrative", r, i)]

\* The records of an operation, at a phase of an execution; n is the page.
Records(r, phase, n) ==
  CASE phase = "recording" -> Append(Narrative(r), Line("result", r, 0))
    [] phase = "covering" -> <<Line("coverage", r, 0)>>
    [] phase = "paging" -> <<Line("page", r, n)>>
    [] phase = "closing" -> IF r \in held THEN <<Note>>
                            ELSE <<Line("coverage", r, 0), Note>>
    [] OTHER -> <<Note>>

\* An execution goes on to a phase; where it writes, record() or result() puts the
\* operation behind the others at once, and refuses it in a finalized artifact.
Enter(r, phase, n, others) ==
  IF phase \notin Writes
    THEN pc' = [pc EXCEPT ![r] = phase] /\ queue' = others
  ELSE IF finalized
    THEN pc' = [pc EXCEPT ![r] = "broken"] /\ queue' = others
  ELSE /\ pc' = [pc EXCEPT ![r] = phase]
       /\ queue' = Append(others, [by |-> r, rest |-> Records(r, phase, n)])

\* Public events and late diagnostics, which nobody's execution awaits.
RecordEvent ==
  /\ ~finalized /\ events < MaxEvents
  /\ events' = events + 1
  /\ queue' = Append(queue, [by |-> NoOne, rest |-> <<Note>>])
  /\ UNCHANGED <<config, file, poisoned, finalized, resultIds, pc, attempt, page,
                 held, publishing>>

\* A second result of one reviewer is refused before its first record.
Refused(operation) ==
  operation.by \in resultIds /\ Line("result", operation.by, 0) \in Lines(operation.rest)

\* Mutant: the last page is not recorded.
After_LosesPage(r) ==
  CASE pc[r] = "recording" -> "covering"
    [] pc[r] = "covering" -> "checking"
    [] pc[r] = "paging" -> IF page[r] + 2 < Pages THEN "paging" ELSE "releasing"
    [] pc[r] = "concluding" -> "completed"
    [] pc[r] = "closing" -> "incomplete"
    [] OTHER -> IF pc[r] = "retrying" THEN "reviewing" ELSE "closing"

\* Where an execution stands after an operation of its own.
After(r) ==
  CASE pc[r] = "recording" -> "covering"
    [] pc[r] = "covering" -> "checking"
    [] pc[r] = "paging" -> IF page[r] + 1 < Pages THEN "paging" ELSE "releasing"
    [] pc[r] = "concluding" -> "completed"
    [] pc[r] = "closing" -> "incomplete"
    [] OTHER -> IF pc[r] = "retrying" THEN "reviewing" ELSE "closing"

Proceed(r) ==
  /\ page' = [page EXCEPT ![r] = IF pc[r] = "paging" THEN @ + 1
                                  ELSE IF pc[r] = "retrying" THEN 0 ELSE @]
  /\ attempt' = [attempt EXCEPT ![r] = IF pc[r] = "retrying" THEN @ + 1 ELSE @]
  /\ held' = IF pc[r] = "recording" THEN held \cup {r} ELSE held
  /\ Enter(r, After(r), page'[r] + 1, Tail(queue))

\* The first operation appends its next record, and with the last one settles.
AppendRecord ==
  /\ queue # <<>> /\ ~poisoned
  /\ LET first == Head(queue)
         rest == Tail(first.rest)
     IN /\ ~Refused(first)
        /\ file' = Append(file, Head(first.rest))
        /\ IF rest # <<>>
             THEN /\ queue' = [queue EXCEPT ![1].rest = rest]
                  /\ UNCHANGED <<resultIds, pc, attempt, page, held>>
             ELSE /\ resultIds' = IF Head(first.rest).kind = "result"
                                    THEN resultIds \cup {first.by} ELSE resultIds
                  /\ IF first.by = NoOne
                       THEN queue' = Tail(queue) /\ UNCHANGED <<pc, attempt, page, held>>
                       ELSE Proceed(first.by)
  /\ UNCHANGED <<config, poisoned, finalized, events, publishing>>

\* Mutant: a failed operation does not poison the queue.
OperationFails_Goes ==
  /\ queue # <<>> /\ ~poisoned
  /\ \/ file' = file
     \/ ~Refused(Head(queue)) /\ file' = Append(file, Torn)
  /\ queue' = Tail(queue)
  /\ pc' = [r \in Reviewers |-> IF r = Head(queue).by THEN "broken" ELSE pc[r]]
  /\ UNCHANGED <<config, poisoned, finalized, resultIds, attempt, page, held,
                 events, publishing>>

\* Validation refuses the record, or the append fails or is cut short.  What the
\* execution does next needs the queue again, so it ends in an exception.
OperationFails ==
  /\ queue # <<>> /\ ~poisoned
  /\ \/ file' = file
     \/ ~Refused(Head(queue)) /\ file' = Append(file, Torn)
  /\ poisoned' = TRUE
  /\ queue' = Tail(queue)
  /\ pc' = [r \in Reviewers |-> IF r = Head(queue).by THEN "broken" ELSE pc[r]]
  /\ UNCHANGED <<config, finalized, resultIds, attempt, page, held, events,
                 publishing>>

\* Operations behind a failed one are rejected without running.
OperationRejected ==
  /\ queue # <<>> /\ poisoned
  /\ queue' = Tail(queue)
  /\ pc' = [r \in Reviewers |-> IF r = Head(queue).by THEN "broken" ELSE pc[r]]
  /\ UNCHANGED <<config, file, poisoned, finalized, resultIds, attempt, page,
                 held, events, publishing>>

-----------------------------------------------------------------------------
(* A reviewer's execution between its operations.                          *)

Step(r, from, to) ==
  /\ pc[r] = from
  /\ \E phase \in to : Enter(r, phase, 1, queue)
  /\ UNCHANGED <<config, file, poisoned, finalized, resultIds, attempt, page, held,
                 events, publishing>>

\* An attempt fails for good, or its failure may be retried and an attempt is left.
Failure(r) == {"failing"} \cup {p \in {"retrying"} : attempt[r] < Attempts}

\* The attempt ends with a result or a failure, or has no time left to begin.
Reviewed(r) == Step(r, "reviewing", {"recording", "closing"} \cup Failure(r))

\* The evidence is verified and the pages are read back.
Checked(r) == Step(r, "checking", {IF Pages = 0 THEN "releasing" ELSE "paging"} \cup Failure(r))

\* The spool is released; coverage or adjudication may be incomplete.
Released(r) == Step(r, "releasing", {"concluding"} \cup Failure(r))

-----------------------------------------------------------------------------
(* The end of the run.                                                     *)

Main(from, to) == main = from /\ main' = to

\* Every execution has ended in a record of its own.
StartSeal ==
  /\ Main("running", "sealing")
  /\ \A r \in Reviewers : pc[r] \in {"completed", "incomplete"}
  /\ finalized' = TRUE
  /\ UNCHANGED <<config, file, queue, poisoned, resultIds, executing, copies,
                 listed, index, released>>

\* One execution threw: the run fails and closes the artifact, whatever the
\* others do.
GiveUp ==
  /\ Main("running", "failed")
  /\ \E r \in Reviewers : pc[r] = "broken"
  /\ finalized' = TRUE
  /\ UNCHANGED <<config, file, queue, poisoned, resultIds, executing, copies,
                 listed, index, released>>

\* Mutant: sealing does not wait for the queue.
Summarise_NoAwait ==
  /\ Main("sealing", "summed")
  /\ Cardinality(held) = Cardinality(resultIds)
  /\ file' = Append(file, Line("summary", NoOne, Cardinality(held)))
  /\ UNCHANGED <<config, queue, poisoned, finalized, resultIds, executing, copies,
                 listed, index, released>>

\* The queue has drained without a failure, and the summary counts the results.
Summarise ==
  /\ Main("sealing", "summed")
  /\ queue = <<>> /\ ~poisoned
  /\ Cardinality(held) = Cardinality(resultIds)
  /\ file' = Append(file, Line("summary", NoOne, Cardinality(held)))
  /\ UNCHANGED <<config, queue, poisoned, finalized, resultIds, executing, copies,
                 listed, index, released>>

SealFile ==
  /\ Main("summed", "sealed")
  /\ file' = Append(file, Seal)
  /\ config' \in Configurations
  /\ UNCHANGED <<queue, poisoned, finalized, resultIds, executing, copies,
                 listed, index, released>>

\* The queue was poisoned, or a record of the end cannot be appended.
SealFails ==
  /\ \E from \in {"sealing", "summed"} : Main(from, "failed")
  /\ main = "sealing" => queue = <<>>
  /\ \/ file' = file
     \/ ~poisoned /\ file' = Append(file, Torn)
  /\ UNCHANGED <<config, queue, poisoned, finalized, resultIds, executing, copies,
                 listed, index, released>>

Copy(name, quality) == copies' = [copies EXCEPT ![name] = quality]

\* Where the end of the run goes from a copy that needs no link (any more).
Linked == IF config.details THEN "linked" ELSE "detailed"

\* A copy is referenced when it is complete and verified.
CopyRecovery ==
  /\ Main("sealed", IF config.managed THEN "copied" ELSE Linked)
  /\ Copy("recovery", "complete") /\ listed' = TRUE
  /\ UNCHANGED <<config, writing, executing, index, released>>

\* finalize of the managed artifact: a complete candidate is linked.
Publish ==
  /\ Main("copied", Linked)
  /\ Copy("managed", "complete")
  /\ UNCHANGED <<config, writing, executing, listed, index, released>>

\* The details file is copied into in place.
FillDetails ==
  /\ Main("linked", "filling")
  /\ Copy("details", "partial")
  /\ UNCHANGED <<config, writing, executing, listed, index, released>>

DetailsFilled ==
  /\ Main("filling", "detailed")
  /\ Copy("details", "complete")
  /\ UNCHANGED <<config, writing, executing, listed, index, released>>

\* The primary is the managed copy or else the details file; alternatives are
\* named for a managed one only.
Named == IF config.managed
           THEN {"managed", "recovery"} \cup (IF config.details THEN {"details"} ELSE {})
           ELSE {"details"}

Index ==
  /\ Main("detailed", "indexed")
  /\ index' = Named
  /\ UNCHANGED <<config, writing, executing, copies, listed, released>>

\* persisted(): the active file is emptied, then the recovery copy unless the
\* index names it.
Release ==
  /\ Main("indexed", "emptied")
  /\ released' = TRUE
  /\ UNCHANGED <<config, writing, executing, copies, listed, index>>

\* Mutant: the recovery copy is always emptied.
Wipe_Always ==
  /\ Main("emptied", "published")
  /\ Copy("recovery", "wiped")
  /\ UNCHANGED <<config, writing, executing, listed, index, released>>

Wipe ==
  /\ Main("emptied", "published")
  /\ IF config.managed THEN UNCHANGED copies ELSE Copy("recovery", "wiped")
  /\ UNCHANGED <<config, writing, executing, listed, index, released>>

\* Any step of the publication may fail; a copy may stay incomplete, a link or
\* an index entry be there although its verification failed.
PublicationFails ==
  /\ \E from \in {"sealed", "copied", "linked", "filling", "detailed", "indexed",
                   "emptied"} : Main(from, "failed")
  /\ \/ UNCHANGED <<copies, index>>
     \/ main = "sealed" /\ Copy("recovery", "partial") /\ UNCHANGED index
     \/ main = "copied" /\ Copy("managed", "complete") /\ UNCHANGED index
     \/ main = "detailed" /\ index' = Named /\ UNCHANGED copies
     \/ /\ main = "emptied" /\ ~config.managed
        /\ Copy("recovery", "wiped") /\ UNCHANGED index
  /\ UNCHANGED <<config, writing, executing, listed, released>>

Execute(r) == Reviewed(r) \/ Checked(r) \/ Released(r)

Next ==
  \/ \E r \in Reviewers : Execute(r)
  \/ RecordEvent \/ AppendRecord \/ OperationFails \/ OperationRejected
  \/ StartSeal \/ GiveUp \/ Summarise \/ SealFile \/ SealFails
  \/ CopyRecovery \/ Publish \/ FillDetails \/ DetailsFilled
  \/ Index \/ Release \/ Wipe \/ PublicationFails

Spec == Init /\ [][Next]_vars

-----------------------------------------------------------------------------
(* What readRunArtifact accepts.                                           *)

\* The lines of a kind before line i, of the reviewer of line i.
Earlier(i, kind) ==
  {j \in 1..(i - 1) : file[j].kind = kind /\ file[j].by = file[i].by}

\* A line is accepted when those before it have been; what an append that was cut short
\* left at the end is not a line.
LineAccepted(i) ==
  LET line == file[i] IN
  /\ i > 1 =>
       /\ file[i - 1].kind \notin {"seal", "torn"}
       /\ file[i - 1].kind = "summary" => line.kind \in {"seal", "torn"}
  /\ CASE line.kind = "header" -> i = 1
       [] line.kind = "narrative" -> line.n = Cardinality(Earlier(i, "narrative")) + 1
       [] line.kind = "result" -> /\ Earlier(i, "result") = {}
                                  /\ Cardinality(Earlier(i, "narrative")) = Chunks
       [] line.kind = "coverage" -> Earlier(i, "coverage") = {}
       [] line.kind = "page" -> line.n = Cardinality(Earlier(i, "page")) + 1
       [] line.kind = "seal" -> file[i - 1].kind = "summary"
       [] OTHER -> TRUE

Of(kind, r) == {i \in DOMAIN file : file[i].kind = kind /\ file[i].by = r}
Results == {i \in DOMAIN file : file[i].kind = "result"}

Sealed == file[Len(file)] = Seal

\* What a reader of a sealed file accepts beyond its lines: narratives and pages
\* belong to a result and are complete, and the summary counts the results.
WholeAccepted ==
  /\ \A r \in Reviewers :
       /\ Of("narrative", r) # {} => Of("result", r) # {}
       /\ Of("page", r) # {} =>
            Of("result", r) # {} /\ Cardinality(Of("page", r)) = Pages
  /\ file[Len(file) - 1].n = Cardinality(Results)

-----------------------------------------------------------------------------
(* Properties.                                                             *)

\* The values every variable takes.
LineSet == [kind : {"header", "narrative", "result", "coverage", "page", "note",
                    "summary", "seal", "torn"},
            by : Writers, n : Nat]

TypeOK ==
  /\ config \in [managed : BOOLEAN, details : BOOLEAN]
  /\ file \in Seq(LineSet) /\ file # <<>>
  /\ queue \in Seq([by : Writers, rest : Seq(LineSet) \ {<<>>}])
  /\ poisoned \in BOOLEAN /\ finalized \in BOOLEAN
  /\ resultIds \subseteq Reviewers
  /\ pc \in [Reviewers -> Writes \cup Done \cup {"reviewing", "checking", "releasing"}]
  /\ attempt \in [Reviewers -> 1..Attempts]
  /\ page \in [Reviewers -> 0..Pages]
  /\ held \subseteq Reviewers /\ events \in 0..MaxEvents
  /\ main \in Ended \cup {"running", "sealing", "summed", "sealed", "copied",
       "linked", "filling", "detailed", "indexed", "emptied"}
  /\ copies \in [Names -> {"none", "partial", "complete", "wiped"}]
  /\ listed \in BOOLEAN /\ index \subseteq Names /\ released \in BOOLEAN

\* Whoever reads the file while it grows, or after a crash or a failed append at
\* any point of any operation, accepts every line of it.
ActiveIsReadable == \A i \in DOMAIN file : LineAccepted(i)

\* A sealed file is accepted as a whole, and has the result, the coverage and
\* all pages of every reviewer that was reported complete.
SealedIsWhole ==
  Sealed =>
    /\ WholeAccepted
    /\ \A r \in Reviewers : pc[r] = "completed" =>
         /\ Of("result", r) # {} /\ Of("coverage", r) # {}
         /\ Cardinality(Of("page", r)) = Pages

\* Nothing is written behind the seal or behind a line that was cut short.
NothingBehindTheEnd ==
  [][Sealed \/ Torn \in Lines(file) => file' = file]_file

\* Read at any moment and read at the end, the file is the run's record.
FileIsReadable == TypeOK /\ ActiveIsReadable /\ SealedIsWhole

\* From the seal on, a complete copy of the artifact exists whatever fails and
\* wherever the process dies, and every copy the index names is complete.
CopySurvives ==
  /\ \A c \in index : copies[c] = "complete"
  /\ released => index # {}
  /\ main = "failed" /\ listed /\ index = {} => copies["recovery"] = "complete"
=============================================================================
