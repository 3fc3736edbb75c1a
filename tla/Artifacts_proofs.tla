-------------------------- MODULE Artifacts_proofs --------------------------
(***************************************************************************)
(* Proofs about what a run leaves on disk: about RunArtifact, for any      *)
(* number of reviewers, narratives, pages, attempts and events; about      *)
(* RunIndex, for any number of recover commands; and about the two beside  *)
(* each other.                                                             *)
(***************************************************************************)
EXTENDS MCArtifacts, FiniteSetTheorems, SequenceTheorems, TLAPS

Finished == {"completed", "incomplete"}
Publishing == {"sealed", "copied", "linked", "filling", "detailed", "indexed", "emptied",
               "published"}

Kinds == {"narrative", "result", "coverage", "page"}
Count(kind, r) == Cardinality(Of(kind, r))
LastKind == file[Len(file)].kind

\* Where the end of the run stands, and what is then no longer possible: nothing
\* is queued behind the summary, nothing is written behind a torn line.
EndSound ==
  /\ file[1].kind = "header"
  /\ main # "running" => finalized
  /\ main \in {"summed"} \cup Publishing => queue = <<>> /\ ~poisoned
  /\ main \in {"sealing", "summed"} \cup Publishing => \A r \in Reviewers : pc[r] \in Finished
  /\ Torn \in Lines(file) =>
       poisoned \/ (finalized /\ queue = <<>> /\ main = "failed")
  /\ LastKind \in {"summary", "seal"} =>
       finalized /\ queue = <<>> /\ main \in Publishing \cup {"summed", "failed"}
  /\ LastKind = "torn" => Torn \in Lines(file)
  /\ main = "summed" => LastKind = "summary" /\ file[Len(file)].n = Cardinality(Results)
  /\ LastKind = "seal" => main \in Publishing \cup {"failed"}

\* What an execution waits for: the records it has not appended yet.
Awaits(r, rest) ==
  CASE pc[r] = "recording" ->
         /\ rest[Len(rest)] = Line("result", r, 0)
         /\ r \notin held =>
              /\ Count("narrative", r) \in 0..Chunks
              /\ Len(rest) = Chunks - Count("narrative", r) + 1
              /\ \A i \in 1..(Chunks - Count("narrative", r)) :
                   rest[i] = Line("narrative", r, Count("narrative", r) + i)
    [] pc[r] = "covering" -> rest = <<Line("coverage", r, 0)>>
    [] pc[r] = "paging" -> rest = <<Line("page", r, page[r] + 1)>>
    [] pc[r] = "closing" ->
         \/ rest = <<Note>>
         \/ /\ r \notin held /\ Of("coverage", r) = {}
            /\ rest = <<Line("coverage", r, 0), Note>>
    [] OTHER -> rest = <<Note>>

\* Every execution awaits one operation at a time.
OperationSound(operation) ==
  \/ operation.by = NoOne /\ operation.rest = <<Note>>
  \/ /\ operation.by \in Reviewers /\ pc[operation.by] \in Writes
     /\ Awaits(operation.by, operation.rest)

QueueSound ==
  /\ \A k \in DOMAIN queue : OperationSound(queue[k])
  /\ \A k, l \in DOMAIN queue :
       queue[k].by = queue[l].by /\ queue[k].by \in Reviewers => k = l

\* What the file has of a reviewer, where its execution stands.
Progress(r) ==
  /\ r \notin held =>
       /\ pc[r] \in {"reviewing", "recording", "retrying", "failing", "closing",
                     "incomplete", "broken"}
       /\ Of("result", r) = {} /\ Of("page", r) = {}
       /\ pc[r] \notin {"recording", "broken"} => Of("narrative", r) = {}
       /\ pc[r] \notin {"closing", "incomplete", "broken"} => Of("coverage", r) = {}
  /\ r \in held =>
       /\ Of("result", r) # {}
       /\ pc[r] = "covering" => Of("coverage", r) = {}
       /\ pc[r] \in {"covering", "checking"} => Count("page", r) = 0
       /\ pc[r] \in {"checking", "paging", "releasing", "concluding", "completed"} =>
            Of("coverage", r) # {}
       /\ pc[r] = "paging" => Count("page", r) = page[r] /\ page[r] < Pages
       /\ pc[r] \in {"releasing", "concluding", "completed"} => Count("page", r) = Pages
       /\ pc[r] \in {"reviewing", "recording", "retrying", "failing", "closing",
                     "incomplete"} => Count("page", r) \in {0, Pages}
  /\ pc[r] \in {"reviewing", "recording", "covering", "checking"} => page[r] = 0
  /\ pc[r] = "retrying" => attempt[r] < Attempts

ProgressSound == \A r \in Reviewers : Progress(r)

\* The results that were acknowledged are the results in the file.
ResultsSound ==
  held = resultIds /\ IsFiniteSet(held) /\ Cardinality(Results) = Cardinality(held)

\* A sealed file is what SealedIsWhole says, and stays so.
SealSound ==
  LastKind = "seal" =>
    /\ Len(file) > 1 /\ file[Len(file) - 1].n = Cardinality(Results)
    /\ \A r \in Reviewers : pc[r] \in Finished

\* The copies the end of the run has made.
CopiesSound ==
  /\ main \in {"running", "sealing", "summed", "sealed"} => ~listed
  /\ ~listed => index = {}
  /\ main \in Publishing \ {"sealed"} => listed
  /\ main \in {"copied", "linked", "filling", "detailed", "indexed", "emptied"} =>
       copies["recovery"] = "complete"
  /\ main \in {"copied", "linked", "filling", "detailed"} => index = {}
  /\ main \in {"linked", "filling", "detailed"} /\ config.managed =>
       copies["managed"] = "complete"
  /\ main = "copied" => config.managed
  /\ main \in {"linked", "filling"} => config.details
  /\ main = "detailed" /\ config.details => copies["details"] = "complete"
  /\ main \in Publishing => config \in Configurations
  /\ main \in {"indexed", "emptied", "published"} => index = Named
  /\ released => index # {}
  /\ \A c \in index : copies[c] = "complete"
  /\ main = "failed" /\ listed /\ index = {} => copies["recovery"] = "complete"

AInv ==
  /\ TypeOK /\ EndSound /\ QueueSound /\ ProgressSound /\ ResultsSound /\ SealSound
  /\ ActiveIsReadable /\ CopiesSound

-----------------------------------------------------------------------------
(* What an append does to the file.                                        *)

ExecutionPhases == Writes \cup Done \cup {"reviewing", "checking", "releasing"}
Operations == [by : Writers, rest : Seq(LineSet) \ {<<>>}]

LEMMA LineIsLine ==
  ASSUME NEW kind \in {"header", "narrative", "result", "coverage", "page", "note",
                       "summary", "seal", "torn"},
         NEW r \in Writers, NEW n \in Nat
  PROVE  /\ Line(kind, r, n) \in LineSet
         /\ Line(kind, r, n).kind = kind /\ Line(kind, r, n).by = r /\ Line(kind, r, n).n = n
BY DEF Line, LineSet

LEMMA Appended ==
  ASSUME TypeOK, NEW line \in LineSet, file' = Append(file, line)
  PROVE  /\ file' \in Seq(LineSet) /\ file' # <<>>
         /\ Len(file) \in Nat /\ Len(file') = Len(file) + 1
         /\ DOMAIN file = 1..Len(file) /\ DOMAIN file' = 1..(Len(file) + 1)
         /\ \A i \in 1..Len(file) : file'[i] = file[i]
         /\ file'[Len(file) + 1] = line
<1>1. file \in Seq(LineSet) /\ Len(file) \in Nat /\ DOMAIN file = 1..Len(file)
  BY DEF TypeOK
<1>2. file' \in Seq(LineSet) /\ Len(file') = Len(file) + 1
  BY <1>1
<1>3. DOMAIN file' = 1..(Len(file) + 1) /\ file' # <<>>
  BY <1>1, <1>2
<1>4. \A i \in 1..Len(file) : file'[i] = file[i]
  BY <1>1
<1>5. file'[Len(file) + 1] = line
  BY <1>1
<1>6. QED
  BY <1>1, <1>2, <1>3, <1>4, <1>5

LEMMA AppendedLines ==
  ASSUME TypeOK, NEW line \in LineSet, file' = Append(file, line)
  PROVE  /\ LastKind' = line.kind /\ file'[Len(file')] = line
         /\ Lines(file)' = Lines(file) \cup {line}
         /\ Results' = Results \cup {i \in {Len(file) + 1} : line.kind = "result"}
         /\ \A kind, r : Of(kind, r)' = Of(kind, r) \cup
                           {i \in {Len(file) + 1} : line.kind = kind /\ line.by = r}
<1>1. LastKind' = line.kind /\ file'[Len(file')] = line
  BY Appended DEF LastKind
<1>2. Lines(file)' = Lines(file) \cup {line}
  BY Appended DEF Lines
<1>3. Results' = Results \cup {i \in {Len(file) + 1} : line.kind = "result"}
  BY Appended DEF Results
<1>4. ASSUME NEW kind, NEW r
      PROVE  Of(kind, r)' = Of(kind, r) \cup
               {i \in {Len(file) + 1} : line.kind = kind /\ line.by = r}
  BY Appended DEF Of
<1>5. QED
  BY <1>1, <1>2, <1>3, <1>4

LEMMA CountsAreNat ==
  ASSUME TypeOK
  PROVE  /\ IsFiniteSet(Results) /\ Cardinality(Results) \in Nat
         /\ Len(file) + 1 \notin Results
         /\ \A kind, r : /\ IsFiniteSet(Of(kind, r)) /\ Count(kind, r) \in Nat
                         /\ Len(file) + 1 \notin Of(kind, r)
                         /\ Count(kind, r) = 0 <=> Of(kind, r) = {}
<1>1. DOMAIN file = 1..Len(file) /\ Len(file) \in Nat
  BY DEF TypeOK
<1>2. IsFiniteSet(1..Len(file))
  BY <1>1, FS_Interval
<1>3. Results \subseteq 1..Len(file) /\ \A kind, r : Of(kind, r) \subseteq 1..Len(file)
  BY <1>1 DEF Results, Of
<1>4. IsFiniteSet(Results) /\ Cardinality(Results) \in Nat
  BY <1>2, <1>3, FS_Subset, FS_CardinalityType
<1>5. ASSUME NEW kind, NEW r
      PROVE  /\ IsFiniteSet(Of(kind, r)) /\ Count(kind, r) \in Nat
             /\ Count(kind, r) = 0 <=> Of(kind, r) = {}
  BY <1>2, <1>3, FS_Subset, FS_CardinalityType, FS_EmptySet DEF Count
<1>6. QED
  BY <1>1, <1>3, <1>4, <1>5

LEMMA CountGrows ==
  ASSUME TypeOK, NEW line \in LineSet, file' = Append(file, line), NEW r
  PROVE  /\ \A kind : line.kind # kind \/ line.by # r =>
                Of(kind, r)' = Of(kind, r) /\ Count(kind, r)' = Count(kind, r)
         /\ line.by = r => /\ Of(line.kind, r)' # {}
                           /\ Count(line.kind, r)' = Count(line.kind, r) + 1
         /\ Cardinality(Results)' = IF line.kind = "result" THEN Cardinality(Results) + 1
                                                            ELSE Cardinality(Results)
<1>1. ASSUME NEW kind, line.kind # kind \/ line.by # r
      PROVE  Of(kind, r)' = Of(kind, r) /\ Count(kind, r)' = Count(kind, r)
  <2>1. Of(kind, r)' = Of(kind, r)
    BY <1>1, Appended DEF Of
  <2>2. QED
    BY <2>1 DEF Count
<1>2. ASSUME line.by = r
      PROVE  /\ Of(line.kind, r)' # {}
             /\ Count(line.kind, r)' = Count(line.kind, r) + 1
  <2>1. Of(line.kind, r)' = Of(line.kind, r) \cup {Len(file) + 1}
    BY <1>2, AppendedLines
  <2>2. IsFiniteSet(Of(line.kind, r)) /\ Len(file) + 1 \notin Of(line.kind, r)
    BY CountsAreNat
  <2>3. QED
    BY <2>1, <2>2, FS_AddElement DEF Count
<1>3. Cardinality(Results)' = IF line.kind = "result" THEN Cardinality(Results) + 1
                                                      ELSE Cardinality(Results)
  <2>1. IsFiniteSet(Results) /\ Len(file) + 1 \notin Results
    BY CountsAreNat
  <2>2. CASE line.kind = "result"
    BY <2>1, <2>2, AppendedLines, FS_AddElement
  <2>3. CASE line.kind # "result"
    BY <2>3, AppendedLines
  <2>4. QED
    BY <2>2, <2>3
<1>4. QED
  BY <1>1, <1>2, <1>3

LEMMA RecordsAre ==
  ASSUME NEW r \in Reviewers, NEW n \in Nat, NEW phase
  PROVE  Records(r, phase, n) \in Seq(LineSet) \ {<<>>}
<1> USE SizeAssumption
<1>1. r \in Writers /\ NoOne \in Writers
  BY DEF Writers
<1>2. Note \in LineSet
  BY <1>1, LineIsLine DEF Note
<1>3. Narrative(r) \in Seq(LineSet)
  <2>1. \A i \in 1..Chunks : Line("narrative", r, i) \in LineSet
    BY <1>1, LineIsLine
  <2>2. QED
    BY <2>1 DEF Narrative
<1>4. /\ Line("result", r, 0) \in LineSet /\ Line("coverage", r, 0) \in LineSet
      /\ Line("page", r, n) \in LineSet
  BY <1>1, LineIsLine
<1>5. Append(Narrative(r), Line("result", r, 0)) \in Seq(LineSet) \ {<<>>}
  BY <1>3, <1>4
<1>6. /\ <<Line("coverage", r, 0)>> \in Seq(LineSet) \ {<<>>}
      /\ <<Line("page", r, n)>> \in Seq(LineSet) \ {<<>>}
      /\ <<Note>> \in Seq(LineSet) \ {<<>>}
      /\ <<Line("coverage", r, 0), Note>> \in Seq(LineSet) \ {<<>>}
  BY <1>2, <1>4
<1>7. QED
  BY <1>5, <1>6 DEF Records

\* What makes a line acceptable behind the file as it is.
Fits(line) ==
  CASE line.kind = "header" -> FALSE
    [] line.kind = "narrative" -> line.n = Count("narrative", line.by) + 1
    [] line.kind = "result" -> Of("result", line.by) = {} /\ Count("narrative", line.by) = Chunks
    [] line.kind = "coverage" -> Of("coverage", line.by) = {}
    [] line.kind = "page" -> line.n = Count("page", line.by) + 1
    [] line.kind = "seal" -> LastKind = "summary"
    [] OTHER -> TRUE

LEMMA EarlierAre ==
  ASSUME TypeOK, NEW line \in LineSet, file' = Append(file, line), NEW kind
  PROVE  /\ \A i \in 1..Len(file) : Earlier(i, kind)' = Earlier(i, kind)
         /\ \A end : end = Len(file) + 1 => Earlier(end, kind)' = Of(kind, line.by)
<1>1. ASSUME NEW i \in 1..Len(file) PROVE Earlier(i, kind)' = Earlier(i, kind)
  <2>1. file'[i] = file[i] /\ \A j \in 1..(i - 1) : file'[j] = file[j]
    BY Appended
  <2>2. QED
    BY <2>1 DEF Earlier
<1>2. ASSUME NEW end, end = Len(file) + 1 PROVE Earlier(end, kind)' = Of(kind, line.by)
  <2>1. Len(file) \in Nat /\ DOMAIN file = 1..Len(file)
    BY Appended
  <2>2. \A j \in 1..Len(file) : file'[j] = file[j]
    BY Appended
  <2>3. file'[end].by = line.by
    BY <1>2, Appended
  <2>4. 1..(end - 1) = 1..Len(file)
    BY <1>2, <2>1
  <2>5. Of(kind, line.by) = {j \in 1..Len(file) : file'[j].kind = kind /\ file'[j].by = line.by}
    BY <2>1, <2>2 DEF Of
  <2>6. Earlier(end, kind)'
          = {j \in 1..Len(file) : file'[j].kind = kind /\ file'[j].by = line.by}
    BY <2>3, <2>4 DEF Earlier
  <2>7. QED
    BY <2>5, <2>6
<1>3. QED
  BY <1>1, <1>2

\* A line that was accepted stays so.
LEMMA AcceptedStays ==
  ASSUME TypeOK, NEW line \in LineSet, file' = Append(file, line),
         file[1].kind = "header", NEW i \in 1..Len(file), LineAccepted(i)
  PROVE  LineAccepted(i)'
<1>1. file'[i] = file[i]
  BY Appended
<1>2. i > 1 => file'[i - 1] = file[i - 1]
  BY Appended
<1>3. /\ Earlier(i, "narrative")' = Earlier(i, "narrative")
      /\ Earlier(i, "result")' = Earlier(i, "result")
      /\ Earlier(i, "coverage")' = Earlier(i, "coverage")
      /\ Earlier(i, "page")' = Earlier(i, "page")
  BY EarlierAre
<1>4. file[i].kind = "seal" => i > 1
  OBVIOUS
<1>5. QED
  <2> DEFINE k == file[i].kind
  <2>1. CASE k \in {"header", "narrative", "result"}
    BY <1>1, <1>2, <1>3, <2>1 DEF LineAccepted
  <2>2. CASE k \in {"coverage", "page"}
    BY <1>1, <1>2, <1>3, <2>2 DEF LineAccepted
  <2>3. CASE k = "seal"
    BY <1>1, <1>2, <1>4, <2>3 DEF LineAccepted
  <2>4. CASE k \notin {"header", "narrative", "result", "coverage", "page", "seal"}
    BY <1>1, <1>2, <2>4 DEF LineAccepted
  <2>5. QED
    BY <2>1, <2>2, <2>3, <2>4

LEMMA AcceptsAppended ==
  ASSUME TypeOK, ActiveIsReadable, file[1].kind = "header", NEW line \in LineSet,
         file' = Append(file, line), Fits(line), LastKind \notin {"seal", "torn"},
         LastKind = "summary" => line.kind \in {"seal", "torn"}
  PROVE  ActiveIsReadable'
<1>1. PICK end : end = Len(file) + 1
  OBVIOUS
<1>2. /\ DOMAIN file' = 1..end /\ end \in Nat /\ end > 1 /\ end - 1 = Len(file)
      /\ DOMAIN file = 1..(end - 1)
      /\ file'[end] = line /\ file'[end - 1] = file[Len(file)]
  <2>1. Len(file) \in Nat /\ Len(file) > 0 /\ DOMAIN file = 1..Len(file)
    BY DEF TypeOK
  <2>2. DOMAIN file' = 1..(Len(file) + 1) /\ file'[Len(file) + 1] = line
        /\ \A i \in 1..Len(file) : file'[i] = file[i]
    BY Appended
  <2>3. end \in Nat /\ end > 1 /\ end - 1 = Len(file)
    BY <1>1, <2>1
  <2>4. file'[end - 1] = file[Len(file)]
    BY <2>1, <2>2, <2>3
  <2>5. QED
    BY <1>1, <2>1, <2>2, <2>3, <2>4
<1>3. ASSUME NEW i \in 1..(end - 1) PROVE LineAccepted(i)'
  BY <1>2, <1>3, AcceptedStays DEF ActiveIsReadable
<1>4. LineAccepted(end)'
  <2> DEFINE k == line.kind
  <2>1. /\ file'[end - 1].kind \notin {"seal", "torn"}
        /\ file'[end - 1].kind = "summary" => line.kind \in {"seal", "torn"}
    BY <1>2 DEF LastKind
  <2>2. /\ Earlier(end, "narrative")' = Of("narrative", line.by)
        /\ Earlier(end, "result")' = Of("result", line.by)
        /\ Earlier(end, "coverage")' = Of("coverage", line.by)
        /\ Earlier(end, "page")' = Of("page", line.by)
    BY <1>1, EarlierAre
  <2>3. CASE k \in {"header", "narrative", "result"}
    BY <1>2, <2>1, <2>2, <2>3 DEF LineAccepted, Fits, Count
  <2>4. CASE k \in {"coverage", "page"}
    BY <1>2, <2>1, <2>2, <2>4 DEF LineAccepted, Fits, Count
  <2>5. CASE k = "seal"
    BY <1>2, <2>1, <2>5 DEF LineAccepted, Fits, LastKind
  <2>6. CASE k \notin {"header", "narrative", "result", "coverage", "page", "seal"}
    BY <1>2, <2>1, <2>6 DEF LineAccepted
  <2>7. QED
    BY <2>3, <2>4, <2>5, <2>6
<1>5. QED
  <2>1. ASSUME NEW i \in 1..end PROVE LineAccepted(i)'
    <3>1. CASE i = end
      BY <1>4, <3>1
    <3>2. CASE i # end
      BY <1>2, <1>3, <3>2
    <3>3. QED
      BY <3>1, <3>2
  <2>2. QED
    BY <1>2, <2>1 DEF ActiveIsReadable

-----------------------------------------------------------------------------
(* What a step does.                                                       *)

LEMMA EnterCases ==
  ASSUME TypeOK, NEW r \in Reviewers, NEW phase \in ExecutionPhases, NEW n \in Nat,
         NEW others \in Seq(Operations), Enter(r, phase, n, others)
  PROVE  /\ pc' \in [Reviewers -> ExecutionPhases] /\ queue' \in Seq(Operations)
         /\ \A q \in Reviewers \ {r} : pc'[q] = pc[q]
         /\ \/ pc'[r] = phase /\ phase \notin Writes /\ queue' = others
            \/ pc'[r] = "broken" /\ queue' = others
            \/ /\ pc'[r] = phase /\ phase \in Writes /\ ~finalized
               /\ queue' = Append(others, [by |-> r, rest |-> Records(r, phase, n)])
<1>1. pc \in [Reviewers -> ExecutionPhases] /\ "broken" \in ExecutionPhases
  BY DEF TypeOK, ExecutionPhases, Done
<1>2. [by |-> r, rest |-> Records(r, phase, n)] \in Operations
  BY RecordsAre DEF Operations, Writers
<1>3. CASE phase \notin Writes
  BY <1>1, <1>3 DEF Enter
<1>4. CASE phase \in Writes /\ finalized
  BY <1>1, <1>4 DEF Enter
<1>5. CASE phase \in Writes /\ ~finalized
  BY <1>1, <1>2, <1>5 DEF Enter
<1>6. QED
  BY <1>3, <1>4, <1>5

\* Between its operations an execution goes from one phase to another.
Turns(r, phase) ==
  \/ pc[r] = "reviewing" /\ phase \in {"recording", "closing"}
  \/ pc[r] = "checking" /\ phase = IF Pages = 0 THEN "releasing" ELSE "paging"
  \/ pc[r] = "releasing" /\ phase = "concluding"
  \/ pc[r] \in {"reviewing", "checking", "releasing"} /\ phase = "failing"
  \/ /\ pc[r] \in {"reviewing", "checking", "releasing"} /\ phase = "retrying"
     /\ attempt[r] < Attempts

LEMMA ExecuteCases ==
  ASSUME NEW r, Execute(r)
  PROVE  /\ UNCHANGED <<config, file, poisoned, finalized, resultIds, attempt, page, held,
                        events, publishing>>
         /\ \E phase \in ExecutionPhases : Turns(r, phase) /\ Enter(r, phase, 1, queue)
<1> USE DEF ExecutionPhases, Writes, Turns, Step, Failure
<1>1. CASE Reviewed(r)
  BY <1>1 DEF Reviewed
<1>2. CASE Checked(r)
  BY <1>2 DEF Checked
<1>3. CASE Released(r)
  BY <1>3 DEF Released
<1>4. QED
  BY <1>1, <1>2, <1>3 DEF Execute

\* The head of the queue is an operation with a record to append.
LEMMA HeadIsOperation ==
  ASSUME TypeOK, queue # <<>>
  PROVE  /\ Head(queue) \in Operations /\ Tail(queue) \in Seq(Operations)
         /\ Head(queue) = queue[1] /\ 1 \in DOMAIN queue
         /\ Head(queue).by \in Writers /\ Head(queue).rest \in Seq(LineSet)
         /\ Head(queue).rest # <<>> /\ Head(Head(queue).rest) \in LineSet
         /\ Head(Head(queue).rest) = Head(queue).rest[1]
         /\ Tail(Head(queue).rest) \in Seq(LineSet)
<1>1. queue \in Seq(Operations)
  BY DEF TypeOK, Operations
<1>2. /\ Head(queue) \in Operations /\ Tail(queue) \in Seq(Operations)
      /\ Head(queue) = queue[1] /\ 1 \in DOMAIN queue
  BY <1>1
<1>3. Head(queue).by \in Writers /\ Head(queue).rest \in Seq(LineSet) /\ Head(queue).rest # <<>>
  BY <1>2 DEF Operations
<1>4. \A rest \in Seq(LineSet) : rest # <<>> =>
        Head(rest) \in LineSet /\ Tail(rest) \in Seq(LineSet) /\ Head(rest) = rest[1]
  OBVIOUS
<1>5. QED
  BY <1>2, <1>3, <1>4

LEMMA TailOfQueue ==
  ASSUME TypeOK, queue # <<>>
  PROVE  /\ Len(queue) \in Nat /\ DOMAIN queue = 1..Len(queue)
         /\ DOMAIN Tail(queue) = 1..(Len(queue) - 1)
         /\ \A k \in 1..(Len(queue) - 1) : Tail(queue)[k] = queue[k + 1]
<1>1. queue \in Seq(Operations)
  BY DEF TypeOK, Operations
<1>2. QED
  BY <1>1

\* An operation writes one more record, or its last one and settles.
LEMMA AppendCases ==
  ASSUME TypeOK, AppendRecord
  PROVE  /\ queue # <<>> /\ ~poisoned /\ ~Refused(Head(queue))
         /\ file' = Append(file, Head(Head(queue).rest))
         /\ UNCHANGED <<config, poisoned, finalized, events, publishing>>
         /\ \/ /\ Tail(Head(queue).rest) # <<>>
               /\ queue' = [queue EXCEPT ![1].rest = Tail(Head(queue).rest)]
               /\ UNCHANGED <<resultIds, pc, attempt, page, held>>
            \/ /\ Tail(Head(queue).rest) = <<>>
               /\ resultIds' = IF Head(Head(queue).rest).kind = "result"
                                 THEN resultIds \cup {Head(queue).by} ELSE resultIds
               /\ \/ /\ Head(queue).by = NoOne /\ queue' = Tail(queue)
                     /\ UNCHANGED <<pc, attempt, page, held>>
                  \/ Head(queue).by \in Reviewers /\ Proceed(Head(queue).by)
<1>1. Head(queue).by \in Writers /\ queue # <<>>
  BY HeadIsOperation DEF AppendRecord
<1>2. Head(queue).by # NoOne => Head(queue).by \in Reviewers
  BY <1>1 DEF Writers
<1>3. QED
  BY <1>2 DEF AppendRecord

LEMMA ProceedCases ==
  ASSUME TypeOK, queue # <<>>, NEW r \in Reviewers, pc[r] \in Writes, Proceed(r)
  PROVE  /\ After(r) \in ExecutionPhases
         /\ page' = [page EXCEPT ![r] = IF pc[r] = "paging" THEN page[r] + 1
                                         ELSE IF pc[r] = "retrying" THEN 0 ELSE page[r]]
         /\ attempt' = [attempt EXCEPT ![r] = IF pc[r] = "retrying" THEN attempt[r] + 1
                                                                     ELSE attempt[r]]
         /\ held' = IF pc[r] = "recording" THEN held \cup {r} ELSE held
         /\ page'[r] + 1 \in Nat
         /\ Enter(r, After(r), page'[r] + 1, Tail(queue))
<1>1. After(r) \in ExecutionPhases
  BY DEF After, ExecutionPhases, Writes, Done
<1>2. page[r] \in Nat /\ page \in [Reviewers -> 0..Pages]
  BY SizeAssumption DEF TypeOK
<1>3. page' = [page EXCEPT ![r] = IF pc[r] = "paging" THEN page[r] + 1
                                   ELSE IF pc[r] = "retrying" THEN 0 ELSE page[r]]
  BY <1>2 DEF Proceed
<1>4. attempt' = [attempt EXCEPT ![r] = IF pc[r] = "retrying" THEN attempt[r] + 1
                                                               ELSE attempt[r]]
  BY DEF Proceed, TypeOK
<1>5. page'[r] + 1 \in Nat
  BY <1>2, <1>3
<1>6. QED
  BY <1>1, <1>3, <1>4, <1>5 DEF Proceed

\* The queue loses its head; its execution, if it has one, ends.
Drops ==
  /\ queue # <<>> /\ queue' = Tail(queue)
  /\ pc' = [r \in Reviewers |-> IF r = Head(queue).by THEN "broken" ELSE pc[r]]

\* A step of the end of the run leaves executions and queue alone.
Ends ==
  \/ StartSeal \/ GiveUp \/ Summarise \/ SealFile \/ SealFails
  \/ CopyRecovery \/ Publish \/ FillDetails \/ DetailsFilled
  \/ Index \/ Release \/ Wipe \/ PublicationFails

LEMMA EndsKeep ==
  ASSUME Ends
  PROVE  UNCHANGED <<queue, poisoned, resultIds, pc, attempt, page, held, events>>
<1>1. CASE StartSeal \/ GiveUp
  BY <1>1 DEF StartSeal, GiveUp, executing
<1>2. CASE Summarise \/ SealFile \/ SealFails
  BY <1>2 DEF Summarise, SealFile, SealFails, executing
<1>3. CASE CopyRecovery \/ Publish \/ FillDetails \/ DetailsFilled \/ Index
  BY <1>3 DEF CopyRecovery, Publish, FillDetails, DetailsFilled, Index, writing, executing
<1>4. CASE Release \/ Wipe \/ PublicationFails
  BY <1>4 DEF Release, Wipe, PublicationFails, writing, executing
<1>5. QED
  BY <1>1, <1>2, <1>3, <1>4 DEF Ends

\* Every line that is written is one.
LEMMA FileCases ==
  ASSUME TypeOK, [Next]_vars
  PROVE  \/ file' = file
         \/ AppendRecord /\ file' = Append(file, Head(Head(queue).rest))
         \/ /\ file' = Append(file, Torn) /\ ~poisoned
            /\ (OperationFails \/ SealFails)
         \/ Summarise /\ file' = Append(file, Line("summary", NoOne, Cardinality(held)))
         \/ SealFile /\ file' = Append(file, Seal)
<1>1. CASE UNCHANGED vars \/ RecordEvent \/ OperationRejected \/ \E r \in Reviewers : Execute(r)
  BY <1>1, ExecuteCases DEF vars, writing, RecordEvent, OperationRejected
<1>2. CASE AppendRecord
  BY <1>2, AppendCases
<1>3. CASE OperationFails
  BY <1>3 DEF OperationFails
<1>4. CASE StartSeal \/ GiveUp \/ Summarise \/ SealFile \/ SealFails
  BY <1>4 DEF StartSeal, GiveUp, Summarise, SealFile, SealFails
<1>5. CASE CopyRecovery \/ Publish \/ FillDetails \/ DetailsFilled \/ Index
  BY <1>5 DEF CopyRecovery, Publish, FillDetails, DetailsFilled, Index, writing
<1>6. CASE Release \/ Wipe \/ PublicationFails
  BY <1>6 DEF Release, Wipe, PublicationFails, writing
<1>7. QED
  BY <1>1, <1>2, <1>3, <1>4, <1>5, <1>6 DEF Next

LEMMA EndLines ==
  ASSUME TypeOK, IsFiniteSet(held)
  PROVE  /\ Torn \in LineSet /\ Torn.kind = "torn" /\ Torn.by = NoOne
         /\ Seal \in LineSet /\ Seal.kind = "seal" /\ Seal.by = NoOne
         /\ Note \in LineSet /\ Note.kind = "note" /\ Note.by = NoOne
         /\ Line("summary", NoOne, Cardinality(held)) \in LineSet
         /\ Line("summary", NoOne, Cardinality(held)).kind = "summary"
         /\ Line("summary", NoOne, Cardinality(held)).by = NoOne
         /\ Line("summary", NoOne, Cardinality(held)).n = Cardinality(held)
<1>1. NoOne \in Writers /\ 0 \in Nat /\ Cardinality(held) \in Nat
  BY FS_CardinalityType DEF Writers
<1>2. QED
  BY <1>1, LineIsLine DEF Torn, Seal, Note

\* The executions, the queue and the results, whoever moves.
LEMMA WorkTypes ==
  ASSUME TypeOK, ProgressSound, QueueSound, [Next]_vars
  PROVE  /\ queue' \in Seq(Operations) /\ resultIds' \subseteq Reviewers
         /\ pc' \in [Reviewers -> ExecutionPhases]
         /\ attempt' \in [Reviewers -> 1..Attempts]
         /\ page' \in [Reviewers -> 0..Pages]
         /\ held' \subseteq Reviewers /\ events' \in 0..MaxEvents
<1> USE SizeAssumption
<1>1. /\ queue \in Seq(Operations) /\ resultIds \subseteq Reviewers
      /\ pc \in [Reviewers -> ExecutionPhases]
      /\ attempt \in [Reviewers -> 1..Attempts] /\ page \in [Reviewers -> 0..Pages]
      /\ held \subseteq Reviewers /\ events \in 0..MaxEvents
  BY DEF TypeOK, Operations, ExecutionPhases
<1>2. CASE UNCHANGED <<queue, resultIds, pc, attempt, page, held, events>>
  BY <1>1, <1>2
<1>3. ASSUME NEW r \in Reviewers, Execute(r)
      PROVE  /\ pc' \in [Reviewers -> ExecutionPhases] /\ queue' \in Seq(Operations)
             /\ UNCHANGED <<resultIds, attempt, page, held, events>>
  <2>1. PICK phase \in ExecutionPhases : Turns(r, phase) /\ Enter(r, phase, 1, queue)
    BY <1>3, ExecuteCases
  <2>2. QED
    BY <1>1, <1>3, <2>1, ExecuteCases, EnterCases
<1>4. CASE RecordEvent
  <2>1. [by |-> NoOne, rest |-> <<Note>>] \in Operations
    BY LineIsLine DEF Operations, Writers, Note
  <2>2. queue' \in Seq(Operations) /\ events' \in 0..MaxEvents
    BY <1>1, <1>4, <2>1 DEF RecordEvent
  <2>3. UNCHANGED <<resultIds, pc, attempt, page, held>>
    BY <1>4 DEF RecordEvent
  <2>4. QED
    BY <1>1, <2>2, <2>3
<1>5. CASE AppendRecord
  <2>1. queue # <<>> /\ events' = events
    BY <1>5, AppendCases DEF AppendRecord
  <2>2. resultIds' \subseteq Reviewers
    <3>1. CASE Head(queue).by \in Reviewers
      BY <1>1, <1>5, <3>1, AppendCases
    <3>2. CASE Head(queue).by = NoOne
      <4>1. queue[1].rest = <<Note>>
        BY <2>1, <3>2, HeadIsOperation, NoOneAssumption DEF QueueSound, OperationSound
      <4>2. Head(Head(queue).rest) = Note
        BY <2>1, <4>1, HeadIsOperation
      <4>3. Note.kind = "note"
        BY DEF Note, Line
      <4>4. QED
        BY <1>1, <1>5, <4>2, <4>3, AppendCases
    <3>3. QED
      BY <2>1, <3>1, <3>2, HeadIsOperation DEF Writers
  <2>3. CASE /\ Tail(Head(queue).rest) # <<>>
             /\ queue' = [queue EXCEPT ![1].rest = Tail(Head(queue).rest)]
             /\ UNCHANGED <<pc, attempt, page, held>>
    <3>1. [Head(queue) EXCEPT !.rest = Tail(Head(queue).rest)] \in Operations
      BY <2>1, <2>3, HeadIsOperation DEF Operations
    <3>2. queue' = [queue EXCEPT ![1] = [Head(queue) EXCEPT !.rest = Tail(Head(queue).rest)]]
      BY <2>1, <2>3, HeadIsOperation
    <3>3. queue' \in Seq(Operations)
      BY <1>1, <2>1, <3>1, <3>2, HeadIsOperation, ExceptSeq
    <3>4. QED
      BY <1>1, <2>1, <2>2, <2>3, <3>3
  <2>4. CASE queue' = Tail(queue) /\ UNCHANGED <<pc, attempt, page, held>>
    BY <1>1, <2>1, <2>2, <2>4, HeadIsOperation
  <2>5. ASSUME NEW r \in Reviewers, r = Head(queue).by, Proceed(r)
        PROVE  /\ pc' \in [Reviewers -> ExecutionPhases] /\ queue' \in Seq(Operations)
               /\ attempt' \in [Reviewers -> 1..Attempts]
               /\ page' \in [Reviewers -> 0..Pages] /\ held' \subseteq Reviewers
    <3>1. pc[r] \in Writes
      BY <2>1, <2>5, HeadIsOperation, NoOneAssumption DEF QueueSound, OperationSound
    <3>2. pc' \in [Reviewers -> ExecutionPhases] /\ queue' \in Seq(Operations)
      BY <2>1, <2>5, <3>1, ProceedCases, EnterCases, HeadIsOperation
    <3>3. /\ held' = IF pc[r] = "recording" THEN held \cup {r} ELSE held
          /\ page' = [page EXCEPT ![r] = IF pc[r] = "paging" THEN page[r] + 1
                                          ELSE IF pc[r] = "retrying" THEN 0 ELSE page[r]]
          /\ attempt' = [attempt EXCEPT ![r] = IF pc[r] = "retrying" THEN attempt[r] + 1
                                                                      ELSE attempt[r]]
      BY <2>1, <2>5, <3>1, ProceedCases
    <3>4. pc[r] = "retrying" => attempt[r] < Attempts
      BY DEF ProgressSound, Progress
    <3>5. pc[r] = "paging" => page[r] < Pages
      BY DEF ProgressSound, Progress
    <3>6. attempt' \in [Reviewers -> 1..Attempts]
      <4>1. (IF pc[r] = "retrying" THEN attempt[r] + 1 ELSE attempt[r]) \in 1..Attempts
        BY <1>1, <3>4
      <4>2. QED
        BY <1>1, <3>3, <4>1
    <3>7. page' \in [Reviewers -> 0..Pages]
      <4>1. (IF pc[r] = "paging" THEN page[r] + 1
             ELSE IF pc[r] = "retrying" THEN 0 ELSE page[r]) \in 0..Pages
        BY <1>1, <3>5
      <4>2. QED
        BY <1>1, <3>3, <4>1
    <3>8. held' \subseteq Reviewers
      BY <1>1, <3>3
    <3>9. QED
      BY <3>2, <3>6, <3>7, <3>8
  <2>6. QED
    BY <1>1, <1>5, <2>1, <2>2, <2>3, <2>4, <2>5, AppendCases
<1>6. CASE OperationFails \/ OperationRejected
  <2>1. Drops /\ UNCHANGED <<resultIds, attempt, page, held, events>>
    BY <1>6 DEF OperationFails, OperationRejected, Drops
  <2>2. pc' \in [Reviewers -> ExecutionPhases]
    BY <1>1, <2>1 DEF Drops, ExecutionPhases, Done
  <2>3. queue' \in Seq(Operations)
    BY <2>1, HeadIsOperation DEF Drops
  <2>4. QED
    BY <1>1, <2>1, <2>2, <2>3
<1>7. CASE Ends \/ UNCHANGED vars
  <2>1. UNCHANGED <<queue, resultIds, pc, attempt, page, held, events>>
    BY <1>7, EndsKeep DEF vars, writing, executing
  <2>2. QED
    BY <1>2, <2>1
<1>8. QED
  <2>1. CASE \E r \in Reviewers : Execute(r)
    BY <1>1, <1>3, <2>1
  <2>2. QED
    BY <1>4, <1>5, <1>6, <1>7, <2>1 DEF Next, Ends

Stages == Ended \cup {"running", "sealing", "summed", "sealed", "copied", "linked", "filling",
                      "detailed", "indexed", "emptied"}

\* The steps that publish, and what the others leave alone.
LEMMA PublicationCases ==
  ASSUME [Next]_vars
  PROVE  \/ UNCHANGED <<config, publishing>>
         \/ /\ (StartSeal \/ GiveUp \/ Summarise \/ SealFile \/ SealFails)
            /\ UNCHANGED <<copies, listed, index, released>>
         \/ /\ (CopyRecovery \/ Publish \/ FillDetails \/ DetailsFilled \/ Index \/ Release
                \/ Wipe \/ PublicationFails)
            /\ UNCHANGED <<config, writing, executing>>
<1>1. CASE UNCHANGED vars \/ RecordEvent \/ OperationRejected \/ OperationFails \/ AppendRecord
           \/ \E r \in Reviewers : Execute(r)
  BY <1>1, ExecuteCases DEF vars, RecordEvent, OperationRejected, OperationFails,
     AppendRecord
<1>2. CASE StartSeal \/ GiveUp \/ Summarise \/ SealFile \/ SealFails
  BY <1>2 DEF StartSeal, GiveUp, Summarise, SealFile, SealFails
<1>3. CASE CopyRecovery \/ Publish \/ FillDetails \/ DetailsFilled \/ Index
  BY <1>3 DEF CopyRecovery, Publish, FillDetails, DetailsFilled, Index
<1>4. CASE Release \/ Wipe \/ PublicationFails
  BY <1>4 DEF Release, Wipe, PublicationFails
<1>5. QED
  BY <1>1, <1>2, <1>3, <1>4 DEF Next

LEMMA PublicationTypes ==
  ASSUME TypeOK, [Next]_vars
  PROVE  /\ config' \in [managed : BOOLEAN, details : BOOLEAN]
         /\ main' \in Stages
         /\ copies' \in [Names -> {"none", "partial", "complete", "wiped"}]
         /\ listed' \in BOOLEAN /\ index' \subseteq Names /\ released' \in BOOLEAN
<1>1. /\ config \in [managed : BOOLEAN, details : BOOLEAN]
      /\ main \in Stages
      /\ copies \in [Names -> {"none", "partial", "complete", "wiped"}]
      /\ listed \in BOOLEAN /\ index \subseteq Names /\ released \in BOOLEAN
  BY DEF TypeOK, Stages
<1>2. Named \subseteq Names
  BY DEF Named, Names
<1>3. CASE UNCHANGED <<config, publishing>>
  BY <1>1, <1>3 DEF publishing
<1>4. CASE /\ (StartSeal \/ GiveUp \/ Summarise \/ SealFile \/ SealFails)
           /\ UNCHANGED <<copies, listed, index, released>>
  <2>1. main' \in Stages
    BY <1>4 DEF StartSeal, GiveUp, Summarise, SealFile, SealFails, Main, Stages, Ended
  <2>2. config' = config \/ config' \in Configurations
    BY <1>4 DEF StartSeal, GiveUp, Summarise, SealFile, SealFails
  <2>3. config' \in [managed : BOOLEAN, details : BOOLEAN]
    BY <1>1, <2>2 DEF Configurations
  <2>4. QED
    BY <1>1, <1>4, <2>1, <2>3
<1>5. CASE /\ (CopyRecovery \/ Publish \/ FillDetails \/ DetailsFilled \/ Index \/ Release
               \/ Wipe \/ PublicationFails)
           /\ UNCHANGED <<config, writing, executing>>
  <2>1. main' \in Stages
    BY <1>5 DEF CopyRecovery, Publish, FillDetails, DetailsFilled, Index, Release, Wipe,
       PublicationFails, Main, Linked, Stages, Ended
  <2>2. ASSUME NEW name \in Names, NEW quality \in {"none", "partial", "complete", "wiped"},
               Copy(name, quality)
        PROVE  copies' \in [Names -> {"none", "partial", "complete", "wiped"}]
    BY <1>1, <2>2 DEF Copy
  <2>3. \/ copies' = copies
        \/ \E name \in Names : \E quality \in {"none", "partial", "complete", "wiped"} :
             Copy(name, quality)
    BY <1>5 DEF CopyRecovery, Publish, FillDetails, DetailsFilled, Index, Release, Wipe,
       PublicationFails, Names
  <2>4. listed' \in BOOLEAN /\ released' \in BOOLEAN
    BY <1>1, <1>5 DEF CopyRecovery, Publish, FillDetails, DetailsFilled, Index, Release, Wipe,
       PublicationFails
  <2>5. index' = index \/ index' = Named
    BY <1>5 DEF CopyRecovery, Publish, FillDetails, DetailsFilled, Index, Release, Wipe,
       PublicationFails
  <2>6. QED
    BY <1>1, <1>2, <1>5, <2>1, <2>2, <2>3, <2>4, <2>5
<1>6. QED
  BY <1>3, <1>4, <1>5, PublicationCases

LEMMA TypeStep ==
  ASSUME TypeOK, ProgressSound, QueueSound, IsFiniteSet(held), [Next]_vars
  PROVE  TypeOK'
<1>1. file' \in Seq(LineSet) /\ file' # <<>>
  <2>1. CASE file' = file
    BY <2>1 DEF TypeOK
  <2>2. CASE AppendRecord /\ file' = Append(file, Head(Head(queue).rest))
    <3>1. Head(Head(queue).rest) \in LineSet
      BY <2>2, AppendCases, HeadIsOperation
    <3>2. QED
      BY <2>2, <3>1, Appended
  <2>3. QED
    BY <2>1, <2>2, FileCases, EndLines, Appended
<1>2. poisoned' \in BOOLEAN /\ finalized' \in BOOLEAN
  <2>1. CASE UNCHANGED vars \/ RecordEvent \/ OperationRejected \/ OperationFails
             \/ \E r \in Reviewers : Execute(r)
    BY <2>1, ExecuteCases DEF vars, writing, RecordEvent, OperationRejected, OperationFails,
       TypeOK
  <2>2. CASE AppendRecord
    BY <2>2, AppendCases DEF TypeOK
  <2>3. CASE StartSeal \/ GiveUp \/ Summarise \/ SealFile \/ SealFails
    BY <2>3 DEF StartSeal, GiveUp, Summarise, SealFile, SealFails, TypeOK
  <2>4. CASE CopyRecovery \/ Publish \/ FillDetails \/ DetailsFilled \/ Index \/ Release
             \/ Wipe \/ PublicationFails
    BY <2>4 DEF CopyRecovery, Publish, FillDetails, DetailsFilled, Index, Release, Wipe,
       PublicationFails, writing, TypeOK
  <2>5. QED
    BY <2>1, <2>2, <2>3, <2>4 DEF Next
<1>3. QED
  BY <1>1, <1>2, WorkTypes, PublicationTypes DEF TypeOK, Operations, ExecutionPhases, Stages

\* A copy is complete before it is named, and emptied only where another is.
LEMMA CopiesStep ==
  ASSUME TypeOK, CopiesSound, [Next]_vars
  PROVE  CopiesSound'
<1>1. copies \in [Names -> {"none", "partial", "complete", "wiped"}]
  BY DEF TypeOK
<1>2. CASE UNCHANGED <<config, publishing>>
  BY <1>2 DEF CopiesSound, publishing, Named
<1>3. CASE /\ (StartSeal \/ GiveUp \/ Summarise \/ SealFails)
           /\ UNCHANGED <<copies, listed, index, released>>
  <2>1. /\ config' = config /\ main \in {"running", "sealing", "summed"}
        /\ main' \in {"sealing", "summed", "failed"}
    BY <1>3 DEF StartSeal, GiveUp, Summarise, SealFails, Main
  <2>2. QED
    BY <1>3, <2>1 DEF CopiesSound, Publishing
<1>4. CASE SealFile
  <2>1. /\ main = "summed" /\ main' = "sealed" /\ config' \in Configurations
        /\ UNCHANGED <<copies, listed, index, released>>
    BY <1>4 DEF SealFile, Main
  <2>2. QED
    BY <2>1 DEF CopiesSound, Publishing
<1>5. CASE CopyRecovery
  <2>1. /\ main = "sealed" /\ listed' /\ UNCHANGED <<config, index, released>>
        /\ main' = IF config.managed THEN "copied" ELSE IF config.details THEN "linked"
                                                                          ELSE "detailed"
        /\ copies' = [copies EXCEPT !["recovery"] = "complete"]
    BY <1>5 DEF CopyRecovery, Main, Copy, Linked
  <2>2. copies'["recovery"] = "complete"
    BY <1>1, <2>1 DEF Names
  <2>3. config.managed \/ config.details
    BY <2>1 DEF CopiesSound, Publishing, Configurations
  <2>4. index = {}
    BY <2>1 DEF CopiesSound
  <2>5. main' = "copied" => config.managed
    BY <2>1
  <2>6. main' = "linked" => config.details /\ ~config.managed
    BY <2>1
  <2>7. main' # "detailed"
    BY <2>1, <2>3
  <2>8. main' \in {"copied", "linked", "detailed"}
    BY <2>1
  <2>9. config' \in Configurations
    BY <2>1 DEF CopiesSound, Publishing
  <2>10. QED
    BY <2>1, <2>2, <2>4, <2>5, <2>6, <2>7, <2>8, <2>9 DEF CopiesSound, Publishing
<1>6. CASE Publish
  <2>1. /\ main = "copied" /\ UNCHANGED <<config, index, listed, released>>
        /\ main' = IF config.details THEN "linked" ELSE "detailed"
        /\ copies' = [copies EXCEPT !["managed"] = "complete"]
    BY <1>6 DEF Publish, Main, Copy, Linked
  <2>2. copies'["recovery"] = "complete" /\ copies'["managed"] = "complete"
    BY <1>1, <2>1 DEF Names, CopiesSound
  <2>3. QED
    BY <2>1, <2>2 DEF CopiesSound, Publishing
<1>7. CASE FillDetails
  <2>1. /\ main = "linked" /\ main' = "filling" /\ UNCHANGED <<config, index, listed, released>>
        /\ copies' = [copies EXCEPT !["details"] = "partial"]
    BY <1>7 DEF FillDetails, Main, Copy
  <2>2. copies'["recovery"] = "complete" /\ copies'["managed"] = copies["managed"]
    BY <1>1, <2>1 DEF Names, CopiesSound
  <2>3. QED
    BY <2>1, <2>2 DEF CopiesSound, Publishing
<1>8. CASE DetailsFilled
  <2>1. /\ main = "filling" /\ main' = "detailed" /\ UNCHANGED <<config, index, listed, released>>
        /\ copies' = [copies EXCEPT !["details"] = "complete"]
    BY <1>8 DEF DetailsFilled, Main, Copy
  <2>2. copies'["recovery"] = "complete" /\ copies'["managed"] = copies["managed"]
        /\ copies'["details"] = "complete"
    BY <1>1, <2>1 DEF Names, CopiesSound
  <2>3. QED
    BY <2>1, <2>2 DEF CopiesSound, Publishing
<1>9. ASSUME main = "detailed" PROVE (\A c \in Named : copies[c] = "complete") /\ Named # {}
  <2>1. config \in Configurations /\ copies["recovery"] = "complete"
        /\ (config.managed => copies["managed"] = "complete")
        /\ (config.details => copies["details"] = "complete")
    BY <1>9 DEF CopiesSound, Publishing
  <2>2. QED
    BY <2>1 DEF Named, Configurations
<1>10. CASE Index
  <2>1. /\ main = "detailed" /\ main' = "indexed" /\ index' = Named
        /\ UNCHANGED <<config, copies, listed, released>>
    BY <1>10 DEF Index, Main
  <2>2. Named' = Named
    BY <2>1 DEF Named
  <2>3. QED
    BY <1>9, <2>1, <2>2 DEF CopiesSound, Publishing
<1>11. CASE Release
  <2>1. /\ main = "indexed" /\ main' = "emptied" /\ released'
        /\ UNCHANGED <<config, copies, listed, index>>
    BY <1>11 DEF Release, Main
  <2>2. Named' = Named /\ Named # {}
    BY <2>1 DEF Named
  <2>3. QED
    BY <2>1, <2>2 DEF CopiesSound, Publishing
<1>12. ASSUME main = "emptied", ~config.managed, copies' = [copies EXCEPT !["recovery"] = "wiped"]
       PROVE  \A c \in index : copies'[c] = "complete"
  <2>1. index = {"details"} /\ copies["details"] = "complete"
    BY <1>12 DEF CopiesSound, Named
  <2>2. QED
    BY <1>1, <1>12, <2>1 DEF Names
<1>13. CASE Wipe
  <2>1. /\ main = "emptied" /\ main' = "published"
        /\ \/ copies' = copies
           \/ ~config.managed /\ copies' = [copies EXCEPT !["recovery"] = "wiped"]
        /\ UNCHANGED <<config, listed, index, released>>
    BY <1>13 DEF Wipe, Main, Copy
  <2>2. \A c \in index : copies'[c] = "complete"
    BY <1>12, <2>1 DEF CopiesSound
  <2>3. Named' = Named
    BY <2>1 DEF Named
  <2>4. QED
    BY <2>1, <2>2, <2>3 DEF CopiesSound, Publishing
<1>14. CASE PublicationFails
  <2>1. /\ main \in {"sealed", "copied", "linked", "filling", "detailed", "indexed", "emptied"}
        /\ main' = "failed" /\ UNCHANGED <<config, listed, released>>
    BY <1>14 DEF PublicationFails, Main
  <2>2. \/ UNCHANGED <<copies, index>>
        \/ main = "sealed" /\ index' = index /\ copies' = [copies EXCEPT !["recovery"] = "partial"]
        \/ main = "copied" /\ index' = index /\ copies' = [copies EXCEPT !["managed"] = "complete"]
        \/ main = "detailed" /\ index' = Named /\ copies' = copies
        \/ main = "emptied" /\ ~config.managed /\ index' = index
             /\ copies' = [copies EXCEPT !["recovery"] = "wiped"]
    BY <1>14 DEF PublicationFails, Copy
  <2>3. CASE UNCHANGED <<copies, index>>
    BY <2>1, <2>3 DEF CopiesSound, Publishing, Named
  <2>4. CASE main = "sealed" /\ index' = index
             /\ copies' = [copies EXCEPT !["recovery"] = "partial"]
    BY <2>1, <2>4 DEF CopiesSound, Publishing
  <2>5. CASE main = "copied" /\ index' = index
             /\ copies' = [copies EXCEPT !["managed"] = "complete"]
    <3>1. copies'["recovery"] = "complete"
      BY <1>1, <2>5 DEF CopiesSound, Names
    <3>2. QED
      BY <2>1, <2>5, <3>1 DEF CopiesSound, Publishing
  <2>6. CASE main = "detailed" /\ index' = Named /\ copies' = copies
    BY <1>9, <2>1, <2>6 DEF CopiesSound, Publishing
  <2>7. CASE main = "emptied" /\ ~config.managed /\ index' = index
             /\ copies' = [copies EXCEPT !["recovery"] = "wiped"]
    <3>1. index # {} /\ listed
      BY <2>7 DEF CopiesSound, Named, Publishing
    <3>2. \A c \in index : copies'[c] = "complete"
      BY <1>12, <2>7
    <3>3. QED
      BY <2>1, <2>7, <3>1, <3>2 DEF CopiesSound, Publishing
  <2>8. QED
    BY <2>2, <2>3, <2>4, <2>5, <2>6, <2>7
<1>15. QED
  BY <1>2, <1>3, <1>4, <1>5, <1>6, <1>7, <1>8, <1>10, <1>11, <1>13, <1>14, PublicationCases

-----------------------------------------------------------------------------
(* The record that is appended next fits what the file has.                *)

LEMMA HeadFits ==
  ASSUME TypeOK, QueueSound, ProgressSound, ResultsSound, queue # <<>>, ~Refused(Head(queue)),
         NEW line, line = Head(Head(queue).rest)
  PROVE  /\ line \in LineSet /\ line.kind \in Kinds \cup {"note"} /\ Fits(line)
         /\ line = Note \/ (line.by = Head(queue).by /\ line.by \in Reviewers)
<1> USE SizeAssumption
<1>1. /\ Head(queue) = queue[1] /\ 1 \in DOMAIN queue /\ line \in LineSet
      /\ line = queue[1].rest[1] /\ queue[1].rest \in Seq(LineSet) /\ queue[1].rest # <<>>
  BY HeadIsOperation
<1>2. Note.kind = "note" /\ Fits(Note)
  BY DEF Note, Line, Fits
<1>3. CASE queue[1].rest = <<Note>>
  <2>1. line = Note
    BY <1>1, <1>3
  <2>2. QED
    BY <1>1, <1>2, <2>1
<1>4. ASSUME NEW r \in Reviewers, r = queue[1].by, Awaits(r, queue[1].rest), Progress(r)
      PROVE  /\ line.kind \in Kinds \cup {"note"} /\ Fits(line)
             /\ line = Note \/ line.by = r
  <2>1. r \in Writers
    BY DEF Writers
  <2>2. Count("narrative", r) \in Nat
    BY CountsAreNat
  <2>3. CASE pc[r] = "recording"
    <3> DEFINE rest == queue[1].rest
    <3>1. rest[Len(rest)] = Line("result", r, 0)
      BY <1>4, <2>3 DEF Awaits
    <3>2. Len(rest) \in DOMAIN rest
      BY <1>1
    <3>3. Line("result", r, 0) \in Lines(rest)
      BY <3>1, <3>2 DEF Lines
    <3>4. r \notin held
      BY <1>1, <1>4, <3>3 DEF Refused, ResultsSound
    <3>5. /\ Count("narrative", r) \in 0..Chunks
          /\ Len(rest) = Chunks - Count("narrative", r) + 1
          /\ \A i \in 1..(Chunks - Count("narrative", r)) :
               rest[i] = Line("narrative", r, Count("narrative", r) + i)
      BY <1>4, <2>3, <3>4 DEF Awaits
    <3>6. CASE Count("narrative", r) = Chunks
      <4>1. line = Line("result", r, 0)
        BY <1>1, <3>1, <3>5, <3>6
      <4>2. line.kind = "result" /\ line.by = r
        BY <4>1 DEF Line
      <4>3. Of("result", r) = {}
        BY <1>4, <3>4 DEF Progress
      <4>4. QED
        BY <3>6, <4>2, <4>3 DEF Fits, Kinds
    <3>7. CASE Count("narrative", r) < Chunks
      <4>1. line = Line("narrative", r, Count("narrative", r) + 1)
        BY <1>1, <3>5, <3>7
      <4>2. line.kind = "narrative" /\ line.by = r /\ line.n = Count("narrative", r) + 1
        BY <4>1 DEF Line
      <4>3. QED
        BY <4>2 DEF Fits, Kinds
    <3>8. QED
      BY <2>2, <3>5, <3>6, <3>7
  <2>4. CASE pc[r] = "paging"
    <3>1. r \in held /\ Count("page", r) = page[r]
      BY <1>4, <2>4 DEF Progress
    <3>2. line = Line("page", r, page[r] + 1)
      BY <1>1, <1>4, <2>4 DEF Awaits
    <3>3. line.kind = "page" /\ line.by = r /\ line.n = page[r] + 1
      BY <3>2 DEF Line
    <3>4. QED
      BY <3>1, <3>3 DEF Fits, Kinds
  <2>5. CASE pc[r] \in {"covering", "closing"} /\ Head(queue[1].rest) # Note
    <3>1. line = Line("coverage", r, 0) /\ Of("coverage", r) = {}
      BY <1>1, <1>4, <2>5 DEF Awaits, Progress
    <3>2. line.kind = "coverage" /\ line.by = r
      BY <3>1 DEF Line
    <3>3. QED
      BY <3>1, <3>2 DEF Fits, Kinds
  <2>6. CASE line = Note
    BY <1>2, <2>6
  <2>7. CASE pc[r] \notin {"recording", "paging", "covering", "closing"}
    <3>1. line = Note
      BY <1>1, <1>4, <2>7 DEF Awaits
    <3>2. QED
      BY <1>2, <3>1
  <2>8. QED
    BY <1>1, <2>3, <2>4, <2>5, <2>6, <2>7
<1>5. \/ queue[1].rest = <<Note>>
      \/ queue[1].by \in Reviewers /\ Awaits(queue[1].by, queue[1].rest)
  BY <1>1 DEF QueueSound, OperationSound
<1>6. QED
  BY <1>1, <1>3, <1>4, <1>5 DEF ProgressSound

\* An execution that has ended moves no more, and awaits nothing.
LEMMA FinishedStay ==
  ASSUME TypeOK, QueueSound, [Next]_vars, NEW r \in Reviewers, pc[r] \in Finished
  PROVE  pc'[r] = pc[r]
<1>1. pc[r] \notin Writes /\ pc[r] \notin {"reviewing", "checking", "releasing"}
  BY DEF Finished, Writes
<1>2. queue # <<>> => Head(queue).by # r
  BY <1>1, HeadIsOperation, NoOneAssumption DEF QueueSound, OperationSound
<1>3. ASSUME NEW q \in Reviewers, Execute(q) PROVE pc'[r] = pc[r]
  <2>1. PICK phase \in ExecutionPhases : Turns(q, phase) /\ Enter(q, phase, 1, queue)
    BY <1>3, ExecuteCases
  <2>2. q # r
    BY <1>1, <2>1 DEF Turns
  <2>3. queue \in Seq(Operations)
    BY DEF TypeOK, Operations
  <2>4. QED
    BY <2>1, <2>2, <2>3, EnterCases
<1>4. CASE AppendRecord
  <2>1. CASE pc' = pc
    BY <2>1
  <2>2. ASSUME NEW q \in Reviewers, q = Head(queue).by, Proceed(q) PROVE pc'[r] = pc[r]
    <3>1. queue # <<>> /\ Tail(queue) \in Seq(Operations)
      BY <1>4, AppendCases, HeadIsOperation
    <3>2. q # r /\ pc[q] \in Writes
      BY <1>2, <2>2, <3>1, HeadIsOperation, NoOneAssumption DEF QueueSound, OperationSound
    <3>3. After(q) \in ExecutionPhases /\ page'[q] + 1 \in Nat /\ Enter(q, After(q), page'[q] + 1, Tail(queue))
      BY <2>2, <3>1, <3>2, ProceedCases
    <3>4. QED
      BY <3>1, <3>2, <3>3, EnterCases
  <2>3. QED
    BY <1>4, <2>1, <2>2, AppendCases
<1>5. CASE OperationFails \/ OperationRejected
  BY <1>2, <1>5 DEF OperationFails, OperationRejected
<1>6. CASE Ends
  BY <1>6, EndsKeep
<1>7. CASE UNCHANGED vars \/ RecordEvent
  BY <1>7 DEF vars, executing, RecordEvent
<1>8. QED
  BY <1>3, <1>4, <1>5, <1>6, <1>7 DEF Next, Ends

\* Nobody joins the queue of a finalized artifact, and no operation is left behind.
LEMMA QueueCases ==
  ASSUME TypeOK, [Next]_vars
  PROVE  /\ finalized /\ queue = <<>> => queue' = <<>>
         /\ poisoned' = poisoned \/ (OperationFails /\ queue # <<>> /\ poisoned')
         /\ finalized => finalized'
<1>1. queue \in Seq(Operations)
  BY DEF TypeOK, Operations
<1>2. ASSUME NEW r \in Reviewers, Execute(r)
      PROVE  (finalized => queue' = queue) /\ UNCHANGED <<poisoned, finalized>>
  <2>1. PICK phase \in ExecutionPhases : Turns(r, phase) /\ Enter(r, phase, 1, queue)
    BY <1>2, ExecuteCases
  <2>2. QED
    BY <1>1, <1>2, <2>1, ExecuteCases, EnterCases
<1>3. CASE RecordEvent
  BY <1>3 DEF RecordEvent
<1>4. CASE AppendRecord
  BY <1>4, AppendCases
<1>5. CASE OperationFails \/ OperationRejected
  BY <1>5 DEF OperationFails, OperationRejected
<1>6. CASE StartSeal \/ GiveUp \/ Summarise \/ SealFile \/ SealFails
  BY <1>6 DEF StartSeal, GiveUp, Summarise, SealFile, SealFails
<1>7. CASE CopyRecovery \/ Publish \/ FillDetails \/ DetailsFilled \/ Index \/ Release \/ Wipe
           \/ PublicationFails \/ UNCHANGED vars
  BY <1>7 DEF CopyRecovery, Publish, FillDetails, DetailsFilled, Index, Release, Wipe,
     PublicationFails, writing, vars
<1>8. QED
  BY <1>2, <1>3, <1>4, <1>5, <1>6, <1>7 DEF Next

\* Where the end of the run goes.
LEMMA MainCases ==
  ASSUME [Next]_vars
  PROVE  \/ main' = main
         \/ main = "running" /\ main' = "sealing" /\ finalized'
              /\ \A r \in Reviewers : pc[r] \in Finished
         \/ main = "running" /\ main' = "failed" /\ finalized'
         \/ Summarise /\ main = "sealing" /\ main' = "summed" /\ queue = <<>> /\ ~poisoned
         \/ SealFile /\ main = "summed" /\ main' = "sealed"
         \/ SealFails /\ main \in {"sealing", "summed"} /\ main' = "failed"
              /\ (main = "sealing" => queue = <<>>)
         \/ file' = file /\ main \in Publishing /\ main' \in Publishing \cup {"failed"}
<1>1. CASE UNCHANGED <<config, publishing>>
  BY <1>1 DEF publishing
<1>2. CASE StartSeal \/ GiveUp \/ Summarise \/ SealFile \/ SealFails
  BY <1>2 DEF StartSeal, GiveUp, Summarise, SealFile, SealFails, Main, Finished
<1>3. CASE /\ (CopyRecovery \/ Publish \/ FillDetails \/ DetailsFilled \/ Index \/ Release
               \/ Wipe \/ PublicationFails)
           /\ UNCHANGED <<config, writing, executing>>
  BY <1>3 DEF CopyRecovery, Publish, FillDetails, DetailsFilled, Index, Release, Wipe,
     PublicationFails, Main, Linked, Publishing, writing
<1>4. QED
  BY <1>1, <1>2, <1>3, PublicationCases

LEMMA EndStep ==
  ASSUME TypeOK, EndSound, QueueSound, ProgressSound, ResultsSound, [Next]_vars
  PROVE  EndSound'
<1>1. /\ finalized /\ queue = <<>> => queue' = <<>>
      /\ poisoned' = poisoned \/ (OperationFails /\ queue # <<>> /\ poisoned')
      /\ finalized => finalized'
  BY QueueCases
<1>2. IsFiniteSet(held)
  BY DEF ResultsSound
<1>3. main' # "running" => finalized'
  BY <1>1, MainCases DEF EndSound, Publishing
<1>4. main' \in {"summed"} \cup Publishing => queue' = <<>> /\ ~poisoned'
  BY <1>1, MainCases DEF EndSound, Publishing
<1>5. main' \in {"sealing", "summed"} \cup Publishing => \A r \in Reviewers : pc'[r] \in Finished
  BY FinishedStay, MainCases DEF EndSound, Publishing
<1>6. file'[1].kind = "header"
  <2>1. ASSUME NEW line \in LineSet, file' = Append(file, line) PROVE file'[1].kind = "header"
    <3>1. 1 \in 1..Len(file)
      BY DEF TypeOK
    <3>2. file'[1] = file[1]
      BY <2>1, <3>1, Appended
    <3>3. QED
      BY <3>2 DEF EndSound
  <2>2. CASE file' = file
    BY <2>2 DEF EndSound
  <2>3. CASE AppendRecord /\ file' = Append(file, Head(Head(queue).rest))
    BY <2>1, <2>3, AppendCases, HeadIsOperation
  <2>4. QED
    BY <1>2, <2>1, <2>2, <2>3, FileCases, EndLines
<1>7. /\ Torn \in Lines(file)' => poisoned' \/ (finalized' /\ queue' = <<>> /\ main' = "failed")
      /\ LastKind' \in {"summary", "seal"} =>
           finalized' /\ queue' = <<>> /\ main' \in Publishing \cup {"summed", "failed"}
      /\ LastKind' = "torn" => Torn \in Lines(file)'
      /\ main' = "summed" => LastKind' = "summary" /\ file'[Len(file')].n = Cardinality(Results)'
      /\ LastKind' = "seal" => main' \in Publishing \cup {"failed"}
  <2>1. CASE file' = file
    <3>1. LastKind' = LastKind /\ Lines(file)' = Lines(file) /\ Cardinality(Results)' = Cardinality(Results)
          /\ file'[Len(file')] = file[Len(file)]
      BY <2>1 DEF LastKind, Lines, Results
    <3>2. ~Summarise /\ ~SealFile
      <4>1. \A line : Append(file, line) # file
        BY DEF TypeOK
      <4>2. QED
        BY <2>1, <4>1 DEF Summarise, SealFile
    <3>3. Torn \in Lines(file) => poisoned' \/ (finalized' /\ queue' = <<>> /\ main' = "failed")
      BY <1>1, MainCases DEF EndSound, Publishing
    <3>4. LastKind \in {"summary", "seal"} =>
            finalized' /\ queue' = <<>> /\ main' \in Publishing \cup {"summed", "failed"}
      BY <1>1, <3>2, MainCases DEF EndSound, Publishing
    <3>5. main' = "summed" => main = "summed"
      BY <3>2, MainCases DEF Publishing
    <3>6. LastKind = "seal" => main' \in Publishing \cup {"failed"}
      BY <3>2, MainCases DEF EndSound, Publishing
    <3>7. QED
      BY <3>1, <3>3, <3>4, <3>5, <3>6 DEF EndSound
  <2>2. CASE AppendRecord /\ file' = Append(file, Head(Head(queue).rest))
    <3>1. PICK line : line = Head(Head(queue).rest)
      OBVIOUS
    <3>2. queue # <<>> /\ ~poisoned /\ ~Refused(Head(queue)) /\ publishing' = publishing
          /\ poisoned' = poisoned
      BY <2>2, AppendCases DEF AppendRecord
    <3>3. line \in LineSet /\ line.kind \in Kinds \cup {"note"}
      BY <3>1, <3>2, HeadFits
    <3>4. LastKind' = line.kind /\ Lines(file)' = Lines(file) \cup {line}
      BY <2>2, <3>1, <3>3, AppendedLines
    <3>5. line # Torn /\ LastKind' \notin {"summary", "seal", "torn"}
      BY <1>2, <3>3, <3>4, EndLines DEF Kinds
    <3>6. Torn \notin Lines(file)'
      BY <3>2, <3>4, <3>5 DEF EndSound
    <3>7. main' # "summed"
      BY <3>2 DEF EndSound, publishing
    <3>8. QED
      BY <3>5, <3>6, <3>7
  <2>3. CASE file' = Append(file, Torn) /\ ~poisoned /\ (OperationFails \/ SealFails)
    <3>1. LastKind' = "torn" /\ Torn \in Lines(file)'
      BY <1>2, <2>3, EndLines, AppendedLines
    <3>2. CASE OperationFails
      <4>1. poisoned' /\ main' = main /\ queue # <<>>
        BY <3>2 DEF OperationFails, publishing
      <4>2. QED
        BY <3>1, <4>1 DEF EndSound
    <3>3. CASE SealFails
      <4>1. main \in {"sealing", "summed"} /\ main' = "failed" /\ queue = <<>> /\ queue' = queue
            /\ finalized' = finalized
        BY <3>3 DEF SealFails, Main, EndSound
      <4>2. QED
        BY <3>1, <4>1 DEF EndSound
    <3>4. QED
      BY <2>3, <3>2, <3>3
  <2>4. CASE Summarise /\ file' = Append(file, Line("summary", NoOne, Cardinality(held)))
    <3>1. main = "sealing" /\ main' = "summed" /\ queue = <<>> /\ queue' = queue /\ ~poisoned
          /\ finalized' = finalized
      BY <2>4 DEF Summarise, Main
    <3>2. PICK line \in LineSet : line = Line("summary", NoOne, Cardinality(held))
                                    /\ line.kind = "summary" /\ line.n = Cardinality(held)
      BY <1>2, EndLines
    <3>3. LastKind' = "summary" /\ file'[Len(file')].n = Cardinality(held)
          /\ Lines(file)' = Lines(file) \cup {line}
      BY <2>4, <3>2, AppendedLines
    <3>4. Cardinality(Results)' = Cardinality(held)
      BY <2>4, <3>2, CountGrows DEF ResultsSound
    <3>5. Torn \notin Lines(file)'
      BY <1>2, <3>1, <3>2, <3>3, EndLines DEF EndSound
    <3>6. QED
      BY <3>1, <3>3, <3>4, <3>5 DEF EndSound
  <2>5. CASE SealFile /\ file' = Append(file, Seal)
    <3>1. main = "summed" /\ main' = "sealed" /\ queue' = queue /\ finalized' = finalized
      BY <2>5 DEF SealFile, Main
    <3>2. LastKind' = "seal" /\ Lines(file)' = Lines(file) \cup {Seal}
      BY <1>2, <2>5, EndLines, AppendedLines
    <3>3. Torn \notin Lines(file)'
      BY <1>2, <3>1, <3>2, EndLines DEF EndSound
    <3>4. QED
      BY <3>1, <3>2, <3>3 DEF EndSound, Publishing
  <2>6. QED
    BY <2>1, <2>2, <2>3, <2>4, <2>5, FileCases
<1>8. QED
  BY <1>3, <1>4, <1>5, <1>6, <1>7 DEF EndSound

\* The file is readable at every moment: what is appended fits, and only behind
\* a line that may be followed.
LEMMA ReadableStep ==
  ASSUME TypeOK, ActiveIsReadable, EndSound, QueueSound, ProgressSound, ResultsSound,
         [Next]_vars
  PROVE  ActiveIsReadable'
<1>1. IsFiniteSet(held) /\ file[1].kind = "header"
  BY DEF ResultsSound, EndSound
<1>2. CASE file' = file
  <2>1. ASSUME NEW i \in DOMAIN file, LineAccepted(i) PROVE LineAccepted(i)'
    <3>1. /\ Earlier(i, "narrative")' = Earlier(i, "narrative")
          /\ Earlier(i, "result")' = Earlier(i, "result")
          /\ Earlier(i, "coverage")' = Earlier(i, "coverage")
          /\ Earlier(i, "page")' = Earlier(i, "page")
      BY <1>2 DEF Earlier
    <3>2. QED
      BY <1>2, <2>1, <3>1 DEF LineAccepted
  <2>2. QED
    BY <1>2, <2>1 DEF ActiveIsReadable
<1>3. CASE AppendRecord /\ file' = Append(file, Head(Head(queue).rest))
  <2>1. PICK line : line = Head(Head(queue).rest)
    OBVIOUS
  <2>2. queue # <<>> /\ ~poisoned /\ ~Refused(Head(queue))
    BY <1>3, AppendCases
  <2>3. line \in LineSet /\ Fits(line)
    BY <2>1, <2>2, HeadFits
  <2>4. LastKind \notin {"seal", "torn", "summary"}
    BY <2>2 DEF EndSound
  <2>5. QED
    BY <1>1, <1>3, <2>1, <2>3, <2>4, AcceptsAppended
<1>4. CASE file' = Append(file, Torn) /\ ~poisoned /\ (OperationFails \/ SealFails)
  <2>1. LastKind \notin {"seal", "torn"}
    <3>1. CASE OperationFails
      BY <1>4, <3>1 DEF OperationFails, EndSound
    <3>2. CASE SealFails
      BY <1>4, <3>2 DEF SealFails, Main, EndSound, Publishing
    <3>3. QED
      BY <1>4, <3>1, <3>2
  <2>2. Fits(Torn)
    BY <1>1, EndLines DEF Fits
  <2>3. QED
    BY <1>1, <1>4, <2>1, <2>2, EndLines, AcceptsAppended
<1>5. CASE Summarise /\ file' = Append(file, Line("summary", NoOne, Cardinality(held)))
  <2>1. PICK line \in LineSet : line = Line("summary", NoOne, Cardinality(held))
                                  /\ line.kind = "summary"
    BY <1>1, EndLines
  <2>2. LastKind \notin {"seal", "torn", "summary"}
    BY <1>5 DEF Summarise, Main, EndSound, Publishing
  <2>3. Fits(line)
    BY <2>1 DEF Fits
  <2>4. QED
    BY <1>1, <1>5, <2>1, <2>2, <2>3, AcceptsAppended
<1>6. CASE SealFile /\ file' = Append(file, Seal)
  <2>1. LastKind = "summary"
    BY <1>6 DEF SealFile, Main, EndSound
  <2>2. Fits(Seal)
    BY <1>1, <2>1, EndLines DEF Fits
  <2>3. QED
    BY <1>1, <1>6, <2>1, <2>2, EndLines, AcceptsAppended
<1>7. QED
  BY <1>2, <1>3, <1>4, <1>5, <1>6, FileCases

-----------------------------------------------------------------------------
(* What every execution has in the file and waits for.                     *)

\* Nothing of an execution is touched.
Untouched(q) ==
  /\ pc'[q] = pc[q] /\ page'[q] = page[q] /\ attempt'[q] = attempt[q]
  /\ (q \in held') = (q \in held)
  /\ \A kind \in Kinds : Of(kind, q)' = Of(kind, q) /\ Count(kind, q)' = Count(kind, q)

LEMMA UntouchedKeeps ==
  ASSUME NEW q \in Reviewers, Untouched(q)
  PROVE  /\ Progress(q) => Progress(q)'
         /\ \A rest : Awaits(q, rest) => Awaits(q, rest)'
<1>1. /\ Of("narrative", q)' = Of("narrative", q) /\ Count("narrative", q)' = Count("narrative", q)
      /\ Of("result", q)' = Of("result", q) /\ Of("coverage", q)' = Of("coverage", q)
      /\ Of("page", q)' = Of("page", q) /\ Count("page", q)' = Count("page", q)
  BY DEF Untouched, Kinds
<1>2. Progress(q) => Progress(q)'
  BY <1>1 DEF Untouched, Progress
<1>3. ASSUME NEW rest, Awaits(q, rest) PROVE Awaits(q, rest)'
  <2>1. CASE pc[q] = "recording"
    BY <1>1, <1>3, <2>1 DEF Untouched, Awaits
  <2>2. CASE pc[q] \in {"covering", "paging"}
    BY <1>1, <1>3, <2>2 DEF Untouched, Awaits
  <2>3. CASE pc[q] = "closing"
    BY <1>1, <1>3, <2>3 DEF Untouched, Awaits, Note
  <2>4. CASE pc[q] \notin {"recording", "covering", "paging", "closing"}
    BY <1>3, <2>4 DEF Untouched, Awaits, Note
  <2>5. QED
    BY <2>1, <2>2, <2>3, <2>4
<1>4. QED
  BY <1>2, <1>3

\* A line of one reviewer, or of nobody, is no other reviewer's.
LEMMA OthersUntouched ==
  ASSUME TypeOK, NEW q \in Reviewers,
         pc'[q] = pc[q], page'[q] = page[q], attempt'[q] = attempt[q],
         (q \in held') = (q \in held),
         file' = file \/ \E line \in LineSet : file' = Append(file, line)
                           /\ (line.by # q \/ line.kind \notin Kinds)
  PROVE  Untouched(q)
<1>1. CASE file' = file
  BY <1>1 DEF Untouched, Of, Count
<1>2. ASSUME NEW line \in LineSet, file' = Append(file, line),
             line.by # q \/ line.kind \notin Kinds
      PROVE  Untouched(q)
  <2>1. \A kind \in Kinds : Of(kind, q)' = Of(kind, q) /\ Count(kind, q)' = Count(kind, q)
    BY <1>2, CountGrows
  <2>2. QED
    BY <2>1 DEF Untouched
<1>3. QED
  BY <1>1, <1>2

\* The queue of a step that moves one execution: what the others wait for, and
\* perhaps an operation of that one behind it.
LEMMA QueueMade ==
  ASSUME NEW others \in Seq(Operations), NEW r, NEW operation \in Operations,
         operation.by = r,
         \A k \in DOMAIN others : OperationSound(others[k])',
         \A k, l \in DOMAIN others :
           others[k].by = others[l].by /\ others[k].by \in Reviewers => k = l,
         \A k \in DOMAIN others : others[k].by = r => r \notin Reviewers,
         queue' = others \/ (queue' = Append(others, operation) /\ OperationSound(operation)')
  PROVE  QueueSound'
<1>1. CASE queue' = others
  BY <1>1 DEF QueueSound, OperationSound, Awaits
<1>2. CASE queue' = Append(others, operation) /\ OperationSound(operation)'
  <2>1. /\ DOMAIN others = 1..Len(others) /\ Len(others) \in Nat
        /\ DOMAIN queue' = 1..(Len(others) + 1)
        /\ \A k \in 1..Len(others) : queue'[k] = others[k]
        /\ queue'[Len(others) + 1] = operation
    BY <1>2
  <2>2. ASSUME NEW k \in DOMAIN queue' PROVE OperationSound(queue[k])'
    <3>1. CASE k = Len(others) + 1
      <4>1. queue'[k] = operation
        BY <2>1, <3>1
      <4>2. OperationSound(operation)'
        BY <1>2
      <4>3. QED
        BY <4>1, <4>2 DEF OperationSound, Awaits
    <3>2. CASE k # Len(others) + 1
      <4>1. k \in DOMAIN others /\ queue'[k] = others[k]
        BY <2>1, <2>2, <3>2
      <4>2. OperationSound(others[k])'
        BY <4>1
      <4>3. QED
        BY <4>1, <4>2 DEF OperationSound, Awaits
    <3>3. QED
      BY <3>1, <3>2
  <2>3. ASSUME NEW k \in DOMAIN queue', NEW l \in DOMAIN queue',
               queue'[k].by = queue'[l].by, queue'[k].by \in Reviewers
        PROVE  k = l
    <3>1. CASE k = Len(others) + 1 /\ l = Len(others) + 1
      BY <3>1
    <3>2. CASE k = Len(others) + 1 /\ l \in 1..Len(others)
      BY <2>1, <2>3, <3>2
    <3>3. CASE l = Len(others) + 1 /\ k \in 1..Len(others)
      BY <2>1, <2>3, <3>3
    <3>4. CASE k \in 1..Len(others) /\ l \in 1..Len(others)
      BY <2>1, <2>3, <3>4
    <3>5. QED
      BY <2>1, <3>1, <3>2, <3>3, <3>4
  <2>4. QED
    BY <2>2, <2>3 DEF QueueSound
<1>3. QED
  BY <1>1, <1>2

\* The record that is appended next, where the execution that awaits it stands.
HeadIs(r, line, rest) ==
  /\ pc[r] \in Writes /\ Awaits(r, Head(queue).rest)
  /\ \/ /\ pc[r] = "recording" /\ r \notin held /\ rest # <<>>
        /\ line.kind = "narrative" /\ line.by = r
        /\ Count("narrative", r) < Chunks
     \/ /\ pc[r] = "recording" /\ r \notin held /\ rest = <<>>
        /\ line.kind = "result" /\ line.by = r
     \/ pc[r] = "covering" /\ line.kind = "coverage" /\ line.by = r /\ rest = <<>>
     \/ pc[r] = "paging" /\ line.kind = "page" /\ line.by = r /\ rest = <<>>
     \/ /\ pc[r] = "closing" /\ r \notin held /\ rest = <<Note>>
        /\ line.kind = "coverage" /\ line.by = r
     \/ pc[r] \notin {"recording", "covering", "paging"} /\ line = Note /\ rest = <<>>

\* The record an execution has next in the queue, and what is left behind it.
LEMMA HeadRecord ==
  ASSUME TypeOK, QueueSound, ProgressSound, ResultsSound, queue # <<>>, ~Refused(Head(queue)),
         NEW r \in Reviewers, Head(queue).by = r,
         NEW line, line = Head(Head(queue).rest), NEW rest, rest = Tail(Head(queue).rest)
  PROVE  HeadIs(r, line, rest)
<1> USE SizeAssumption
<1>1. /\ Head(queue) = queue[1] /\ 1 \in DOMAIN queue
      /\ queue[1].rest \in Seq(LineSet) /\ queue[1].rest # <<>>
      /\ line = Head(queue[1].rest) /\ rest = Tail(queue[1].rest) /\ line = queue[1].rest[1]
  BY HeadIsOperation
<1>2. pc[r] \in Writes /\ Awaits(r, queue[1].rest)
  BY <1>1, NoOneAssumption DEF QueueSound, OperationSound
<1>3. CASE pc[r] = "recording"
  <2> DEFINE all == queue[1].rest
  <2>1. all[Len(all)] = Line("result", r, 0)
    BY <1>2, <1>3 DEF Awaits
  <2>2. Len(all) \in DOMAIN all
    BY <1>1
  <2>3. Line("result", r, 0) \in Lines(all)
    BY <2>1, <2>2 DEF Lines
  <2>4. r \notin held
    BY <1>1, <2>3 DEF Refused, ResultsSound
  <2>5. /\ Count("narrative", r) \in 0..Chunks
        /\ Len(all) = Chunks - Count("narrative", r) + 1
        /\ \A i \in 1..(Chunks - Count("narrative", r)) :
             all[i] = Line("narrative", r, Count("narrative", r) + i)
    BY <1>2, <1>3, <2>4 DEF Awaits
  <2>6. CASE Count("narrative", r) = Chunks
    <3>1. Len(all) = 1
      BY <2>5, <2>6
    <3>2. line = Line("result", r, 0)
      BY <1>1, <2>1, <3>1
    <3>3. rest = <<>>
      BY <1>1, <3>1
    <3>4. line.kind = "result" /\ line.by = r
      BY <3>2 DEF Line
    <3>5. QED
      BY <1>1, <1>2, <1>3, <2>4, <3>3, <3>4 DEF HeadIs
  <2>7. CASE Count("narrative", r) < Chunks
    <3>1. Len(all) > 1
      BY <2>5, <2>7
    <3>2. line = Line("narrative", r, Count("narrative", r) + 1)
      <4>1. all[1] = Line("narrative", r, Count("narrative", r) + 1)
        BY <2>5, <2>7
      <4>2. QED
        BY <1>1, <4>1
    <3>3. rest # <<>>
      <4>1. \A s \in Seq(LineSet) : Len(s) > 1 => Tail(s) # <<>>
        OBVIOUS
      <4>2. QED
        BY <1>1, <3>1, <4>1
    <3>4. line.kind = "narrative" /\ line.by = r
      BY <3>2 DEF Line
    <3>5. QED
      BY <1>1, <1>2, <1>3, <2>4, <2>7, <3>3, <3>4 DEF HeadIs
  <2>8. QED
    BY <2>5, <2>6, <2>7
<1>4. ASSUME NEW l, queue[1].rest = <<l>> PROVE line = l /\ rest = <<>>
  BY <1>1, <1>4
<1>5. ASSUME NEW l, NEW m, queue[1].rest = <<l, m>> PROVE line = l /\ rest = <<m>>
  <2>1. Head(<<l, m>>) = l
    OBVIOUS
  <2>2. Tail(<<l, m>>) = <<m>>
    <3>1. <<l, m>> \in Seq({l, m}) /\ <<m>> \in Seq({l, m})
      OBVIOUS
    <3>2. Tail(<<l, m>>) \in Seq({l, m}) /\ Len(Tail(<<l, m>>)) = 1
      BY <3>1
    <3>3. Tail(<<l, m>>)[1] = m
      BY <3>1
    <3>4. QED
      BY <3>1, <3>2, <3>3, SeqEqual
  <2>3. QED
    BY <1>1, <1>5, <2>1, <2>2
<1>6. CASE pc[r] = "covering"
  <2>1. line = Line("coverage", r, 0) /\ rest = <<>>
    BY <1>2, <1>4, <1>6 DEF Awaits
  <2>2. QED
    BY <1>1, <1>2, <1>6, <2>1 DEF Line, HeadIs
<1>7. CASE pc[r] = "paging"
  <2>1. line = Line("page", r, page[r] + 1) /\ rest = <<>>
    BY <1>2, <1>4, <1>7 DEF Awaits
  <2>2. QED
    BY <1>1, <1>2, <1>7, <2>1 DEF Line, HeadIs
<1>8. CASE pc[r] = "closing"
  <2>1. \/ queue[1].rest = <<Note>>
        \/ r \notin held /\ queue[1].rest = <<Line("coverage", r, 0), Note>>
    BY <1>2, <1>8 DEF Awaits
  <2>2. \/ line = Note /\ rest = <<>>
        \/ r \notin held /\ line = Line("coverage", r, 0) /\ rest = <<Note>>
    BY <1>4, <1>5, <2>1
  <2>3. QED
    BY <1>1, <1>2, <1>8, <2>2 DEF Line, HeadIs
<1>9. CASE pc[r] \notin {"recording", "covering", "paging", "closing"}
  <2>1. line = Note /\ rest = <<>>
    BY <1>2, <1>4, <1>9 DEF Awaits
  <2>2. QED
    BY <1>1, <1>2, <1>9, <2>1 DEF HeadIs
<1>10. QED
  BY <1>3, <1>6, <1>7, <1>8, <1>9

\* The records of a new operation are what its execution then awaits.
LEMMA RecordsAwaited ==
  ASSUME NEW r \in Reviewers, NEW phase \in Writes, NEW n \in Nat,
         NEW operation, operation = [by |-> r, rest |-> Records(r, phase, n)],
         pc'[r] = phase,
         phase = "recording" /\ r \notin held' => Count("narrative", r)' = 0,
         phase = "paging" => n = page'[r] + 1,
         phase = "closing" => /\ (r \in held') = (r \in held)
                              /\ r \notin held => Of("coverage", r)' = {}
  PROVE  OperationSound(operation)'
<1> USE SizeAssumption
<1>1. operation.by = r /\ operation.rest = Records(r, phase, n)
  OBVIOUS
<1>2. SUFFICES Awaits(r, operation.rest)'
  BY <1>1 DEF OperationSound
<1>3. CASE phase = "recording"
  <2> DEFINE rest == operation.rest
  <2>1. rest = Append(Narrative(r), Line("result", r, 0))
    BY <1>1, <1>3 DEF Records
  <2>2. Narrative(r) \in Seq(LineSet) /\ Len(Narrative(r)) = Chunks
        /\ \A i \in 1..Chunks : Narrative(r)[i] = Line("narrative", r, i)
    <3>1. \A i \in 1..Chunks : Line("narrative", r, i) \in LineSet
      BY LineIsLine DEF Writers
    <3>2. QED
      BY <3>1 DEF Narrative
  <2>3. /\ Len(rest) = Chunks + 1 /\ rest[Chunks + 1] = Line("result", r, 0)
        /\ \A i \in 1..Chunks : rest[i] = Line("narrative", r, i)
    BY <2>1, <2>2
  <2>4. rest[Len(rest)] = Line("result", r, 0)
    BY <2>3
  <2>5. r \notin held' =>
          /\ Count("narrative", r)' \in 0..Chunks
          /\ Len(rest) = Chunks - Count("narrative", r)' + 1
          /\ \A i \in 1..(Chunks - Count("narrative", r)') :
               rest[i] = Line("narrative", r, Count("narrative", r)' + i)
    BY <1>3, <2>3
  <2>6. QED
    BY <1>3, <2>4, <2>5 DEF Awaits
<1>4. CASE phase = "covering"
  BY <1>1, <1>4 DEF Awaits, Records
<1>5. CASE phase = "paging"
  BY <1>1, <1>5 DEF Awaits, Records
<1>6. CASE phase = "closing"
  BY <1>1, <1>6 DEF Awaits, Records, Note
<1>7. CASE phase \in {"concluding", "retrying", "failing"}
  BY <1>1, <1>7 DEF Awaits, Records, Note
<1>8. QED
  BY <1>3, <1>4, <1>5, <1>6, <1>7 DEF Writes

\* Everybody else's operations stay what they were.
LEMMA OthersSound ==
  ASSUME NEW r, \A q \in Reviewers \ {r} : Untouched(q),
         NEW operation, OperationSound(operation), operation.by = r => r \notin Reviewers
  PROVE  OperationSound(operation)'
<1>1. CASE operation.by = NoOne /\ operation.rest = <<Note>>
  BY <1>1 DEF OperationSound, Note
<1>2. CASE operation.by \in Reviewers /\ pc[operation.by] \in Writes
           /\ Awaits(operation.by, operation.rest)
  <2>1. PICK q \in Reviewers \ {r} : q = operation.by
    BY <1>2
  <2>2. Untouched(q) /\ Awaits(q, operation.rest)
    BY <1>2, <2>1
  <2>3. Awaits(q, operation.rest)' /\ pc'[q] = pc[q]
    BY <2>2, UntouchedKeeps DEF Untouched
  <2>4. QED
    BY <1>2, <2>1, <2>3 DEF OperationSound, Awaits
<1>3. QED
  BY <1>1, <1>2 DEF OperationSound

\* An execution that turns to another phase.
LEMMA ExecuteWork ==
  ASSUME TypeOK, QueueSound, ProgressSound, NEW r \in Reviewers, Execute(r)
  PROVE  ProgressSound' /\ QueueSound'
<1> USE SizeAssumption
<1>1. /\ UNCHANGED <<file, finalized, resultIds, attempt, page, held>>
  BY ExecuteCases
<1>2. PICK phase \in ExecutionPhases : Turns(r, phase) /\ Enter(r, phase, 1, queue)
  BY ExecuteCases
<1>3. queue \in Seq(Operations)
  BY DEF TypeOK, Operations
<1>4. /\ \A q \in Reviewers \ {r} : pc'[q] = pc[q]
      /\ \/ pc'[r] = phase /\ phase \notin Writes /\ queue' = queue
         \/ pc'[r] = "broken" /\ queue' = queue
         \/ /\ pc'[r] = phase /\ phase \in Writes /\ ~finalized
            /\ queue' = Append(queue, [by |-> r, rest |-> Records(r, phase, 1)])
  BY <1>2, <1>3, EnterCases
<1>5. \A q \in Reviewers \ {r} : Untouched(q)
  BY <1>1, <1>4, OthersUntouched
<1>6. /\ \A kind, q : Of(kind, q)' = Of(kind, q) /\ Count(kind, q)' = Count(kind, q)
      /\ page'[r] = page[r] /\ attempt'[r] = attempt[r] /\ held' = held
  BY <1>1 DEF Of, Count
<1>7. /\ Of("narrative", r)' = Of("narrative", r) /\ Of("result", r)' = Of("result", r)
      /\ Of("coverage", r)' = Of("coverage", r) /\ Of("page", r)' = Of("page", r)
      /\ Count("page", r)' = Count("page", r) /\ Count("narrative", r)' = Count("narrative", r)
  BY <1>6
<1>8. Progress(r)'
  <2>1. Progress(r)
    BY DEF ProgressSound
  <2>2. CASE pc'[r] = "broken"
    BY <1>6, <1>7, <2>1, <2>2 DEF Progress
  <2>3. CASE pc'[r] = phase
    <3>1. CASE pc[r] = "reviewing"
      BY <1>2, <1>6, <1>7, <2>1, <2>3, <3>1 DEF Progress, Turns
    <3>2. CASE pc[r] = "checking"
      BY <1>2, <1>6, <1>7, <2>1, <2>3, <3>2 DEF Progress, Turns
    <3>3. CASE pc[r] = "releasing"
      BY <1>2, <1>6, <1>7, <2>1, <2>3, <3>3 DEF Progress, Turns
    <3>4. QED
      BY <1>2, <3>1, <3>2, <3>3 DEF Turns
  <2>4. QED
    BY <1>4, <2>2, <2>3
<1>9. ProgressSound'
  BY <1>5, <1>8, UntouchedKeeps DEF ProgressSound
<1>10. pc[r] \notin Writes
  BY <1>2 DEF Turns, Writes
<1>11. \A k \in DOMAIN queue : queue[k].by # r
  BY <1>10, NoOneAssumption DEF QueueSound, OperationSound
<1>12. PICK others \in Seq(Operations) : others = queue
  BY <1>3
<1>13. ASSUME NEW k \in DOMAIN others PROVE OperationSound(others[k])'
  <2>1. PICK operation : operation = others[k]
    OBVIOUS
  <2>2. OperationSound(operation) /\ operation.by # r
    BY <1>11, <1>12, <1>13, <2>1 DEF QueueSound
  <2>3. OperationSound(operation)'
    BY <1>5, <2>2, OthersSound
  <2>4. QED
    BY <2>1, <2>3
<1>14. \A k, l \in DOMAIN others :
         others[k].by = others[l].by /\ others[k].by \in Reviewers => k = l
  BY <1>12 DEF QueueSound
<1>15. PICK operation : operation = [by |-> r, rest |-> Records(r, phase, 1)]
  OBVIOUS
<1>16. operation \in Operations /\ operation.by = r
  BY <1>15, RecordsAre DEF Operations, Writers
<1>17. ASSUME pc'[r] = phase, phase \in Writes PROVE OperationSound(operation)'
  <2>1. Progress(r)
    BY DEF ProgressSound
  <2>2. phase = "recording" /\ r \notin held' => Count("narrative", r)' = 0
    <3>1. ASSUME phase = "recording", r \notin held PROVE Count("narrative", r) = 0
      <4>1. Of("narrative", r) = {}
        BY <1>2, <2>1, <3>1 DEF Progress, Turns
      <4>2. QED
        BY <4>1, CountsAreNat
    <3>2. QED
      BY <1>6, <1>7, <3>1
  <2>3. phase = "paging" => 1 = page'[r] + 1
    BY <1>2, <1>6, <2>1 DEF Progress, Turns
  <2>4. phase = "closing" => /\ (r \in held') = (r \in held)
                             /\ r \notin held => Of("coverage", r)' = {}
    BY <1>2, <1>6, <1>7, <2>1 DEF Progress, Turns
  <2>5. QED
    BY <1>15, <1>17, <2>2, <2>3, <2>4, RecordsAwaited
<1>18. QueueSound'
  <2>1. queue' = others \/ (queue' = Append(others, operation) /\ OperationSound(operation)')
    BY <1>4, <1>12, <1>15, <1>17
  <2>2. \A k \in DOMAIN others : others[k].by = r => r \notin Reviewers
    BY <1>11, <1>12
  <2>3. QED
    BY <1>13, <1>14, <1>16, <2>1, <2>2, QueueMade
<1>19. QED
  BY <1>9, <1>18

\* The operations behind the head of the queue, and who awaits them.
LEMMA BehindTheHead ==
  ASSUME TypeOK, QueueSound, queue # <<>>, NEW others, others = Tail(queue),
         \A q \in Reviewers \ {Head(queue).by} : Untouched(q)
  PROVE  /\ others \in Seq(Operations)
         /\ \A k \in DOMAIN others : OperationSound(others[k])'
         /\ \A k, l \in DOMAIN others :
              others[k].by = others[l].by /\ others[k].by \in Reviewers => k = l
         /\ \A k \in DOMAIN others : others[k].by = Head(queue).by =>
              Head(queue).by \notin Reviewers
<1>1. /\ Len(queue) \in Nat /\ DOMAIN queue = 1..Len(queue)
      /\ DOMAIN others = 1..(Len(queue) - 1)
      /\ \A k \in 1..(Len(queue) - 1) : others[k] = queue[k + 1]
      /\ Head(queue) = queue[1]
  BY TailOfQueue, HeadIsOperation
<1>2. \A k \in DOMAIN others : others[k].by = Head(queue).by => Head(queue).by \notin Reviewers
  <2>1. ASSUME NEW k \in DOMAIN others, others[k].by = Head(queue).by, Head(queue).by \in Reviewers
        PROVE  FALSE
    <3>1. k + 1 \in DOMAIN queue /\ 1 \in DOMAIN queue /\ k + 1 # 1 /\ others[k] = queue[k + 1]
      BY <1>1, <2>1
    <3>2. QED
      BY <1>1, <2>1, <3>1 DEF QueueSound
  <2>2. QED
    BY <2>1
<1>3. ASSUME NEW k \in DOMAIN others PROVE OperationSound(others[k])'
  <2>1. PICK operation : operation = others[k]
    OBVIOUS
  <2>2. k + 1 \in DOMAIN queue /\ operation = queue[k + 1]
    BY <1>1, <2>1
  <2>3. OperationSound(operation)
    BY <2>2 DEF QueueSound
  <2>4. PICK r : r = Head(queue).by
    OBVIOUS
  <2>5. operation.by = r => r \notin Reviewers
    BY <1>2, <2>1, <2>4
  <2>6. OperationSound(operation)'
    BY <2>3, <2>4, <2>5, OthersSound
  <2>7. QED
    BY <2>1, <2>6
<1>4. \A k, l \in DOMAIN others :
        others[k].by = others[l].by /\ others[k].by \in Reviewers => k = l
  <2>1. ASSUME NEW k \in DOMAIN others, NEW l \in DOMAIN others,
               others[k].by = others[l].by, others[k].by \in Reviewers
        PROVE  k = l
    <3>1. k + 1 \in DOMAIN queue /\ l + 1 \in DOMAIN queue /\ others[k] = queue[k + 1]
          /\ others[l] = queue[l + 1] /\ k \in Int /\ l \in Int
      BY <1>1, <2>1
    <3>2. k + 1 = l + 1
      BY <2>1, <3>1 DEF QueueSound
    <3>3. QED
      BY <3>1, <3>2
  <2>2. QED
    BY <2>1
<1>5. QED
  BY <1>2, <1>3, <1>4, HeadIsOperation

LEMMA NoteIsOperation ==
  [by |-> NoOne, rest |-> <<Note>>] \in Operations
BY LineIsLine DEF Operations, Writers, Note

\* An event is recorded: nobody awaits it.
LEMMA EventWork ==
  ASSUME TypeOK, QueueSound, ProgressSound, RecordEvent
  PROVE  ProgressSound' /\ QueueSound'
<1>1. /\ queue' = Append(queue, [by |-> NoOne, rest |-> <<Note>>])
      /\ UNCHANGED <<file, pc, attempt, page, held>>
  BY DEF RecordEvent
<1>2. \A q \in Reviewers : Untouched(q)
  BY <1>1, OthersUntouched
<1>3. PICK others \in Seq(Operations) : others = queue
  BY DEF TypeOK, Operations
<1>4. ASSUME NEW k \in DOMAIN others PROVE OperationSound(others[k])'
  <2>1. PICK operation : operation = others[k]
    OBVIOUS
  <2>2. OperationSound(operation)
    BY <1>3, <1>4, <2>1 DEF QueueSound
  <2>3. OperationSound(operation)'
    BY <1>2, <2>2, OthersSound, NoOneAssumption
  <2>4. QED
    BY <2>1, <2>3
<1>5. \A k, l \in DOMAIN others :
        others[k].by = others[l].by /\ others[k].by \in Reviewers => k = l
  BY <1>3 DEF QueueSound
<1>6. PICK operation \in Operations : operation = [by |-> NoOne, rest |-> <<Note>>]
  BY NoteIsOperation
<1>7. OperationSound(operation)'
  BY <1>6 DEF OperationSound, Note
<1>8. QueueSound'
  BY <1>1, <1>3, <1>4, <1>5, <1>6, <1>7, QueueMade, NoOneAssumption
<1>9. QED
  BY <1>2, <1>8, UntouchedKeeps DEF ProgressSound

\* An operation fails or is rejected: its execution ends in an exception.
LEMMA DropWork ==
  ASSUME TypeOK, QueueSound, ProgressSound, IsFiniteSet(held),
         OperationFails \/ OperationRejected
  PROVE  ProgressSound' /\ QueueSound'
<1>1. /\ queue # <<>> /\ queue' = Tail(queue)
      /\ \A q \in Reviewers : pc'[q] = IF q = Head(queue).by THEN "broken" ELSE pc[q]
      /\ UNCHANGED <<resultIds, attempt, page, held>>
      /\ file' = file \/ file' = Append(file, Torn)
  BY DEF OperationFails, OperationRejected
<1>2. ASSUME NEW q \in Reviewers
      PROVE  /\ Of("result", q)' = Of("result", q) /\ Of("page", q)' = Of("page", q)
             /\ Of("narrative", q)' = Of("narrative", q)
             /\ Of("coverage", q)' = Of("coverage", q)
  <2>1. CASE file' = file
    BY <2>1 DEF Of
  <2>2. CASE file' = Append(file, Torn)
    BY <2>2, CountGrows, EndLines
  <2>3. QED
    BY <1>1, <2>1, <2>2
<1>3. \A q \in Reviewers \ {Head(queue).by} : Untouched(q)
  BY <1>1, OthersUntouched, EndLines, NoOneAssumption
<1>4. ASSUME NEW q \in Reviewers, q = Head(queue).by PROVE Progress(q)'
  <2>1. Progress(q) /\ pc'[q] = "broken"
    BY <1>1, <1>4 DEF ProgressSound
  <2>2. QED
    BY <1>1, <1>2, <2>1 DEF Progress
<1>5. ProgressSound'
  BY <1>3, <1>4, UntouchedKeeps DEF ProgressSound
<1>6. PICK others : others = Tail(queue)
  OBVIOUS
<1>7. PICK operation : operation = Head(queue)
  OBVIOUS
<1>8. operation \in Operations /\ queue' = others
  BY <1>1, <1>6, <1>7, HeadIsOperation
<1>9. QueueSound'
  BY <1>1, <1>3, <1>6, <1>7, <1>8, BehindTheHead, QueueMade
<1>10. QED
  BY <1>5, <1>9

\* An event's record is appended.
LEMMA AppendEventWork ==
  ASSUME TypeOK, QueueSound, ProgressSound, ResultsSound, AppendRecord,
         Head(queue).by = NoOne
  PROVE  ProgressSound' /\ QueueSound'
<1>1. queue # <<>> /\ Head(queue) = queue[1] /\ 1 \in DOMAIN queue
  BY AppendCases, HeadIsOperation
<1>2. Head(queue).rest = <<Note>>
  BY <1>1, NoOneAssumption DEF QueueSound, OperationSound
<1>3. Head(Head(queue).rest) = Note /\ Tail(Head(queue).rest) = <<>>
  <2>1. \A l : Head(<<l>>) = l /\ Tail(<<l>>) = <<>>
    OBVIOUS
  <2>2. QED
    BY <1>2, <2>1
<1>4. file' = Append(file, Note) /\ queue' = Tail(queue) /\ UNCHANGED <<pc, attempt, page, held>>
  BY <1>3, AppendCases, NoOneAssumption
<1>5. IsFiniteSet(held)
  BY DEF ResultsSound
<1>6. \A q \in Reviewers : Untouched(q)
  BY <1>4, <1>5, OthersUntouched, EndLines DEF Kinds
<1>7. PICK others : others = Tail(queue)
  OBVIOUS
<1>8. PICK operation : operation = Head(queue)
  OBVIOUS
<1>9. operation \in Operations /\ operation.by = NoOne /\ queue' = others
  BY <1>1, <1>4, <1>7, <1>8, HeadIsOperation
<1>10. QueueSound'
  BY <1>1, <1>6, <1>7, <1>8, <1>9, BehindTheHead, QueueMade, NoOneAssumption
<1>11. QED
  BY <1>6, <1>10, UntouchedKeeps DEF ProgressSound

\* An execution's record is appended and others are left.
LEMMA AppendPartWork ==
  ASSUME TypeOK, QueueSound, ProgressSound, ResultsSound, AppendRecord,
         NEW r \in Reviewers, Head(queue).by = r, Tail(Head(queue).rest) # <<>>
  PROVE  ProgressSound' /\ QueueSound' /\ UNCHANGED <<held, resultIds>>
<1> USE SizeAssumption
<1>1. queue # <<>> /\ ~Refused(Head(queue))
  BY AppendCases
<1>2. PICK line, rest : line = Head(Head(queue).rest) /\ rest = Tail(Head(queue).rest)
  OBVIOUS
<1>3. /\ queue # <<>> /\ ~Refused(Head(queue)) /\ file' = Append(file, line)
      /\ queue' = [queue EXCEPT ![1].rest = rest] /\ UNCHANGED <<resultIds, pc, attempt, page, held>>
  BY <1>2, AppendCases
<1>4. /\ Head(queue) = queue[1] /\ 1 \in DOMAIN queue /\ line \in LineSet
      /\ queue \in Seq(Operations) /\ queue[1].rest \in Seq(LineSet) /\ queue[1].rest # <<>>
      /\ rest = Tail(queue[1].rest) /\ rest # <<>>
  BY <1>2, <1>3, HeadIsOperation DEF TypeOK, Operations
<1>5. /\ pc[r] \in Writes /\ Awaits(r, queue[1].rest) /\ line.by = r /\ r \notin held
      /\ \/ pc[r] = "recording" /\ line.kind = "narrative" /\ Count("narrative", r) < Chunks
         \/ pc[r] = "closing" /\ line.kind = "coverage" /\ rest = <<Note>>
  <2>1. /\ pc[r] \in Writes /\ Awaits(r, Head(queue).rest)
        /\ \/ /\ pc[r] = "recording" /\ r \notin held /\ rest # <<>>
              /\ line.kind = "narrative" /\ line.by = r
              /\ Count("narrative", r) < Chunks
           \/ /\ pc[r] = "recording" /\ r \notin held /\ rest = <<>>
              /\ line.kind = "result" /\ line.by = r
           \/ pc[r] = "covering" /\ line.kind = "coverage" /\ line.by = r /\ rest = <<>>
           \/ pc[r] = "paging" /\ line.kind = "page" /\ line.by = r /\ rest = <<>>
           \/ /\ pc[r] = "closing" /\ r \notin held /\ rest = <<Note>>
              /\ line.kind = "coverage" /\ line.by = r
           \/ pc[r] \notin {"recording", "covering", "paging"} /\ line = Note /\ rest = <<>>
    <3>1. HeadIs(r, line, rest)
      BY <1>1, <1>2, HeadRecord
    <3>2. QED
      BY <3>1 DEF HeadIs
  <2>2. QED
    BY <1>4, <2>1
<1>6. \A q \in Reviewers \ {r} : Untouched(q)
  BY <1>3, <1>4, <1>5, OthersUntouched
<1>7. /\ \A kind \in Kinds \ {line.kind} :
           Of(kind, r)' = Of(kind, r) /\ Count(kind, r)' = Count(kind, r)
      /\ Of(line.kind, r)' # {} /\ Count(line.kind, r)' = Count(line.kind, r) + 1
  BY <1>3, <1>4, <1>5, CountGrows
<1>8. Progress(r)'
  <2>1. Progress(r)
    BY DEF ProgressSound
  <2>2. CASE pc[r] = "recording" /\ line.kind = "narrative"
    <3>1. /\ Of("result", r)' = Of("result", r) /\ Of("page", r)' = Of("page", r)
          /\ Of("coverage", r)' = Of("coverage", r)
      BY <1>7, <2>2 DEF Kinds
    <3>2. QED
      BY <1>3, <1>5, <2>1, <2>2, <3>1 DEF Progress
  <2>3. CASE pc[r] = "closing" /\ line.kind = "coverage"
    <3>1. /\ Of("result", r)' = Of("result", r) /\ Of("page", r)' = Of("page", r)
          /\ Of("narrative", r)' = Of("narrative", r)
      BY <1>7, <2>3 DEF Kinds
    <3>2. QED
      BY <1>3, <1>5, <2>1, <2>3, <3>1 DEF Progress
  <2>4. QED
    BY <1>5, <2>2, <2>3
<1>9. Awaits(r, rest)'
  <2>1. CASE pc[r] = "recording" /\ line.kind = "narrative"
    <3> DEFINE all == queue[1].rest
               n == Count("narrative", r)
    <3>1. /\ all[Len(all)] = Line("result", r, 0) /\ n \in 0..Chunks
          /\ Len(all) = Chunks - n + 1
          /\ \A i \in 1..(Chunks - n) : all[i] = Line("narrative", r, n + i)
      BY <1>5, <2>1 DEF Awaits
    <3>2. Count("narrative", r)' = n + 1 /\ n < Chunks
      BY <1>5, <1>7, <2>1
    <3>3. Len(rest) = Len(all) - 1 /\ \A i \in 1..(Len(all) - 1) : rest[i] = all[i + 1]
      <4>1. \A s \in Seq(LineSet) : s # <<>> =>
              Len(Tail(s)) = Len(s) - 1 /\ \A i \in 1..(Len(s) - 1) : Tail(s)[i] = s[i + 1]
        OBVIOUS
      <4>2. QED
        BY <1>4, <4>1
    <3> HIDE DEF all, n
    <3>4. Chunks - n \in Nat /\ Chunks - n > 0 /\ Len(rest) = Chunks - n
      BY <3>1, <3>2, <3>3
    <3>5. rest[Len(rest)] = Line("result", r, 0)
      BY <3>1, <3>3, <3>4
    <3>6. \A i \in 1..(Chunks - (n + 1)) : rest[i] = Line("narrative", r, (n + 1) + i)
      <4>1. ASSUME NEW i \in 1..(Chunks - (n + 1))
            PROVE  rest[i] = Line("narrative", r, (n + 1) + i)
        <5>1. i + 1 \in 1..(Chunks - n) /\ i \in 1..(Len(all) - 1) /\ n + (i + 1) = (n + 1) + i
          BY <3>1, <3>4
        <5>2. QED
          BY <3>1, <3>3, <5>1
      <4>2. QED
        BY <4>1
    <3>7. Len(rest) = Chunks - (n + 1) + 1 /\ n + 1 \in 0..Chunks
      BY <3>1, <3>2, <3>4
    <3>8. QED
      BY <1>3, <2>1, <3>2, <3>5, <3>6, <3>7 DEF Awaits
  <2>2. CASE pc[r] = "closing" /\ rest = <<Note>>
    BY <1>3, <2>2 DEF Awaits, Note
  <2>3. QED
    BY <1>5, <2>1, <2>2
<1>10. /\ DOMAIN queue' = DOMAIN queue
      /\ queue'[1].by = r /\ queue'[1].rest = rest
      /\ \A k \in DOMAIN queue \ {1} : queue'[k] = queue[k]
  <2>1. queue[1].by = r
    BY <1>4
  <2>2. queue' = [queue EXCEPT ![1] = [queue[1] EXCEPT !.rest = rest]]
    BY <1>3, <1>4
  <2>3. [queue[1] EXCEPT !.rest = rest].by = r /\ [queue[1] EXCEPT !.rest = rest].rest = rest
    BY <1>4, <2>1, HeadIsOperation DEF Operations
  <2>4. QED
    BY <1>4, <2>2, <2>3
<1>11. \A k \in DOMAIN queue : queue'[k].by = queue[k].by
  BY <1>3, <1>4, <1>10
<1>12. ASSUME NEW k \in DOMAIN queue' PROVE OperationSound(queue[k])'
  <2>1. CASE k = 1
    <3>1. pc'[r] \in Writes
      BY <1>3, <1>5
    <3>2. QED
      BY <1>9, <1>10, <2>1, <3>1 DEF OperationSound, Awaits
  <2>2. CASE k # 1
    <3>1. PICK operation : operation = queue[k]
      OBVIOUS
    <3>2. OperationSound(operation) /\ operation.by # r /\ queue'[k] = operation
      BY <1>3, <1>4, <1>10, <1>12, <2>2, <3>1 DEF QueueSound
    <3>3. OperationSound(operation)'
      BY <1>6, <3>2, OthersSound
    <3>4. QED
      BY <3>2, <3>3 DEF OperationSound, Awaits
  <2>3. QED
    BY <2>1, <2>2
<1>13. QueueSound'
  BY <1>10, <1>11, <1>12 DEF QueueSound
<1>14. QED
  BY <1>3, <1>6, <1>8, <1>13, UntouchedKeeps DEF ProgressSound

\* An execution's last record is appended, and the execution goes on.
LEMMA AppendLastWork ==
  ASSUME TypeOK, QueueSound, ProgressSound, ResultsSound, AppendRecord,
         NEW r \in Reviewers, Head(queue).by = r, Tail(Head(queue).rest) = <<>>
  PROVE  /\ ProgressSound' /\ QueueSound'
         /\ Head(Head(queue).rest).kind = "result" <=> pc[r] = "recording"
         /\ pc[r] = "recording" => r \notin held
         /\ held' = IF pc[r] = "recording" THEN held \cup {r} ELSE held
<1> USE SizeAssumption
<1>1. PICK line, rest : line = Head(Head(queue).rest) /\ rest = Tail(Head(queue).rest)
  OBVIOUS
<1>2. queue # <<>> /\ ~Refused(Head(queue)) /\ file' = Append(file, line)
  BY <1>1, AppendCases
<1>3. Proceed(r)
  BY AppendCases, NoOneAssumption
<1>4. /\ pc[r] \in Writes
      /\ \/ /\ pc[r] = "recording" /\ r \notin held /\ line.kind = "result" /\ line.by = r
         \/ pc[r] = "covering" /\ line.kind = "coverage" /\ line.by = r
         \/ pc[r] = "paging" /\ line.kind = "page" /\ line.by = r
         \/ pc[r] \notin {"recording", "covering", "paging"} /\ line = Note
  <2>1. rest = <<>>
    BY <1>1
  <2>2. /\ pc[r] \in Writes /\ Awaits(r, Head(queue).rest)
        /\ \/ /\ pc[r] = "recording" /\ r \notin held /\ rest # <<>>
              /\ line.kind = "narrative" /\ line.by = r
              /\ Count("narrative", r) < Chunks
           \/ /\ pc[r] = "recording" /\ r \notin held /\ rest = <<>>
              /\ line.kind = "result" /\ line.by = r
           \/ pc[r] = "covering" /\ line.kind = "coverage" /\ line.by = r /\ rest = <<>>
           \/ pc[r] = "paging" /\ line.kind = "page" /\ line.by = r /\ rest = <<>>
           \/ /\ pc[r] = "closing" /\ r \notin held /\ rest = <<Note>>
              /\ line.kind = "coverage" /\ line.by = r
           \/ pc[r] \notin {"recording", "covering", "paging"} /\ line = Note /\ rest = <<>>
    <3>1. HeadIs(r, line, rest)
      BY <1>1, <1>2, HeadRecord
    <3>2. QED
      BY <3>1 DEF HeadIs
  <2>3. <<Note>> # <<>>
    OBVIOUS
  <2>4. QED
    BY <2>1, <2>2, <2>3
<1>5. line \in LineSet
  BY <1>1, <1>2, HeadIsOperation
<1>6. /\ page' = [page EXCEPT ![r] = IF pc[r] = "paging" THEN page[r] + 1
                                      ELSE IF pc[r] = "retrying" THEN 0 ELSE page[r]]
      /\ attempt' = [attempt EXCEPT ![r] = IF pc[r] = "retrying" THEN attempt[r] + 1
                                                                  ELSE attempt[r]]
      /\ held' = IF pc[r] = "recording" THEN held \cup {r} ELSE held
      /\ page'[r] + 1 \in Nat /\ After(r) \in ExecutionPhases
      /\ Enter(r, After(r), page'[r] + 1, Tail(queue))
  BY <1>2, <1>3, <1>4, ProceedCases
<1>7. /\ page'[r] = IF pc[r] = "paging" THEN page[r] + 1
                     ELSE IF pc[r] = "retrying" THEN 0 ELSE page[r]
      /\ page[r] \in 0..Pages /\ attempt[r] \in 1..Attempts
      /\ \A q \in Reviewers \ {r} : page'[q] = page[q] /\ attempt'[q] = attempt[q]
  BY <1>6 DEF TypeOK
<1>8. PICK phase, n, others : phase = After(r) /\ n = page'[r] + 1 /\ others = Tail(queue)
  OBVIOUS
<1>9. phase \in ExecutionPhases /\ n \in Nat /\ others \in Seq(Operations)
      /\ Enter(r, phase, n, others)
  BY <1>2, <1>6, <1>8, HeadIsOperation
<1>10. /\ \A q \in Reviewers \ {r} : pc'[q] = pc[q]
       /\ \/ pc'[r] = phase /\ phase \notin Writes /\ queue' = others
          \/ pc'[r] = "broken" /\ queue' = others
          \/ /\ pc'[r] = phase /\ phase \in Writes /\ ~finalized
             /\ queue' = Append(others, [by |-> r, rest |-> Records(r, phase, n)])
  BY <1>9, EnterCases
<1>11. /\ pc[r] = "recording" => phase = "covering"
       /\ pc[r] = "covering" => phase = "checking"
       /\ pc[r] = "paging" => phase = IF page[r] + 1 < Pages THEN "paging" ELSE "releasing"
       /\ pc[r] = "concluding" => phase = "completed"
       /\ pc[r] = "closing" => phase = "incomplete"
       /\ pc[r] = "retrying" => phase = "reviewing"
       /\ pc[r] = "failing" => phase = "closing"
  BY <1>8 DEF After
<1>12. ASSUME NEW q \in Reviewers \ {r} PROVE Untouched(q)
  <2>1. (q \in held') = (q \in held)
    BY <1>6
  <2>2. line.by # q \/ line.kind \notin Kinds
    BY <1>4, <1>5, EndLines DEF Kinds, ResultsSound
  <2>3. QED
    BY <1>2, <1>5, <1>7, <1>10, <2>1, <2>2, OthersUntouched
<1>13. /\ \A kind \in Kinds : line.kind # kind =>
            Of(kind, r)' = Of(kind, r) /\ Count(kind, r)' = Count(kind, r)
       /\ line.by = r => /\ Of(line.kind, r)' # {}
                         /\ Count(line.kind, r)' = Count(line.kind, r) + 1
  BY <1>2, <1>5, CountGrows
<1>14. Count("page", r) \in Nat /\ (Count("page", r) = 0 <=> Of("page", r) = {})
  BY CountsAreNat
<1>15. Progress(r)
  BY DEF ProgressSound
<1>16. Progress(r)'
  <2>1. CASE pc[r] = "recording"
    <3>1. /\ Of("page", r)' = Of("page", r) /\ Count("page", r)' = Count("page", r)
          /\ Of("coverage", r)' = Of("coverage", r) /\ Of("result", r)' # {} /\ r \in held'
      BY <1>4, <1>6, <1>13, <2>1 DEF Kinds
    <3>2. pc'[r] \in {"covering", "broken"} /\ page'[r] = page[r]
      BY <1>7, <1>10, <1>11, <2>1
    <3>3. QED
      BY <1>4, <1>14, <1>15, <2>1, <3>1, <3>2 DEF Progress
  <2>2. CASE pc[r] = "covering"
    <3>1. /\ Of("page", r)' = Of("page", r) /\ Count("page", r)' = Count("page", r)
          /\ Of("coverage", r)' # {} /\ Of("result", r)' = Of("result", r)
          /\ held' = held
      BY <1>4, <1>6, <1>13, <2>2 DEF Kinds
    <3>2. pc'[r] \in {"checking", "broken"} /\ page'[r] = page[r]
      BY <1>7, <1>10, <1>11, <2>2
    <3>3. QED
      BY <1>15, <2>2, <3>1, <3>2 DEF Progress
  <2>3. CASE pc[r] = "paging"
    <3>1. /\ Count("page", r)' = Count("page", r) + 1
          /\ Of("coverage", r)' = Of("coverage", r) /\ Of("result", r)' = Of("result", r)
          /\ held' = held
      BY <1>4, <1>6, <1>13, <2>3 DEF Kinds
    <3>2. /\ pc'[r] \in {"broken", IF page[r] + 1 < Pages THEN "paging" ELSE "releasing"}
          /\ page'[r] = page[r] + 1
      BY <1>7, <1>10, <1>11, <2>3
    <3>3. r \in held /\ Count("page", r) = page[r] /\ page[r] < Pages
          /\ Of("coverage", r) # {} /\ Of("result", r) # {}
      BY <1>15, <2>3 DEF Progress
    <3>4. QED
      BY <1>7, <2>3, <3>1, <3>2, <3>3 DEF Progress
  <2>4. CASE pc[r] \in {"concluding", "closing", "retrying", "failing"}
    <3>1. /\ Of("page", r)' = Of("page", r) /\ Count("page", r)' = Count("page", r)
          /\ Of("coverage", r)' = Of("coverage", r) /\ Of("result", r)' = Of("result", r)
          /\ Of("narrative", r)' = Of("narrative", r) /\ held' = held
      BY <1>4, <1>6, <1>13, <2>4, EndLines DEF Kinds, ResultsSound
    <3>2. CASE pc[r] = "concluding"
      <4>1. pc'[r] \in {"completed", "broken"} /\ page'[r] = page[r]
        BY <1>7, <1>10, <1>11, <3>2
      <4>2. QED
        BY <1>15, <3>1, <3>2, <4>1 DEF Progress
    <3>3. CASE pc[r] = "closing"
      <4>1. pc'[r] \in {"incomplete", "broken"} /\ page'[r] = page[r]
        BY <1>7, <1>10, <1>11, <3>3
      <4>2. QED
        BY <1>15, <3>1, <3>3, <4>1 DEF Progress
    <3>4. CASE pc[r] = "retrying"
      <4>1. pc'[r] \in {"reviewing", "broken"} /\ page'[r] = 0
        BY <1>7, <1>10, <1>11, <3>4
      <4>2. QED
        BY <1>15, <3>1, <3>4, <4>1 DEF Progress
    <3>5. CASE pc[r] = "failing"
      <4>1. pc'[r] \in {"closing", "broken"} /\ page'[r] = page[r]
        BY <1>7, <1>10, <1>11, <3>5
      <4>2. QED
        BY <1>15, <3>1, <3>5, <4>1 DEF Progress
    <3>6. QED
      BY <2>4, <3>2, <3>3, <3>4, <3>5
  <2>5. QED
    BY <1>4, <2>1, <2>2, <2>3, <2>4 DEF Writes
<1>17. /\ \A k \in DOMAIN others : OperationSound(others[k])'
       /\ \A k, l \in DOMAIN others :
            others[k].by = others[l].by /\ others[k].by \in Reviewers => k = l
       /\ \A k \in DOMAIN others : others[k].by = r => r \notin Reviewers
  BY <1>2, <1>8, <1>12, BehindTheHead
<1>18. PICK operation : operation = [by |-> r, rest |-> Records(r, phase, n)]
  OBVIOUS
<1>19. operation \in Operations /\ operation.by = r
  BY <1>9, <1>18, RecordsAre DEF Operations, Writers
<1>20. ASSUME pc'[r] = phase, phase \in Writes PROVE OperationSound(operation)'
  <2>1. phase \in {"covering", "paging", "closing"}
    BY <1>4, <1>11, <1>20 DEF Writes
  <2>2. phase = "closing" => /\ (r \in held') = (r \in held)
                             /\ r \notin held => Of("coverage", r)' = {}
    <3>1. ASSUME phase = "closing"
          PROVE  held' = held /\ Of("coverage", r)' = Of("coverage", r) /\ pc[r] = "failing"
      <4>1. pc[r] = "failing"
        BY <1>4, <1>11, <3>1 DEF Writes
      <4>2. QED
        BY <1>4, <1>6, <1>13, <4>1, EndLines DEF Kinds, ResultsSound
    <3>2. QED
      BY <1>15, <3>1 DEF Progress
  <2>3. phase = "paging" => n = page'[r] + 1
    BY <1>8
  <2>4. QED
    BY <1>9, <1>18, <1>20, <2>1, <2>2, <2>3, RecordsAwaited
<1>21. QueueSound'
  <2>1. queue' = others \/ (queue' = Append(others, operation) /\ OperationSound(operation)')
    BY <1>10, <1>18, <1>20
  <2>2. QED
    BY <1>9, <1>17, <1>19, <2>1, QueueMade
<1>22. ProgressSound'
  BY <1>12, <1>15, <1>16, UntouchedKeeps DEF ProgressSound
<1>23. line.kind = "result" <=> pc[r] = "recording"
  BY <1>4, EndLines DEF ResultsSound
<1>24. QED
  BY <1>1, <1>4, <1>6, <1>21, <1>22, <1>23

\* The end of the run leaves the queue and the executions alone.
LEMMA EndsWork ==
  ASSUME TypeOK, QueueSound, ProgressSound, ResultsSound, [Next]_vars,
         Ends \/ UNCHANGED vars
  PROVE  ProgressSound' /\ QueueSound' /\ UNCHANGED <<held, resultIds>>
<1>1. UNCHANGED <<queue, resultIds, pc, attempt, page, held>>
  BY EndsKeep DEF vars, writing, executing
<1>2. file' = file \/ \E line \in LineSet : file' = Append(file, line) /\ line.kind \notin Kinds
  <2>1. IsFiniteSet(held)
    BY DEF ResultsSound
  <2>2. CASE UNCHANGED vars
    BY <2>2 DEF vars, writing
  <2>3. CASE Summarise
    BY <2>1, <2>3, EndLines DEF Summarise, Kinds
  <2>4. CASE SealFile
    BY <2>1, <2>4, EndLines DEF SealFile, Kinds
  <2>5. CASE SealFails
    BY <2>1, <2>5, EndLines DEF SealFails, Kinds
  <2>6. CASE Ends /\ ~(Summarise \/ SealFile \/ SealFails)
    BY <2>6 DEF Ends, StartSeal, GiveUp, CopyRecovery, Publish, FillDetails, DetailsFilled,
                Index, Release, Wipe, PublicationFails, writing
  <2>7. QED
    BY <2>2, <2>3, <2>4, <2>5, <2>6
<1>3. ASSUME NEW q \in Reviewers PROVE Untouched(q)
  <2>1. \A line \in LineSet : line.kind \notin Kinds => line.by # q \/ line.kind \notin Kinds
    OBVIOUS
  <2>2. QED
    BY <1>1, <1>2, <2>1, OthersUntouched
<1>4. ASSUME NEW k \in DOMAIN queue' PROVE OperationSound(queue[k])'
  <2>1. PICK operation : operation = queue[k]
    OBVIOUS
  <2>2. OperationSound(operation) /\ queue'[k] = operation
    BY <1>1, <1>4, <2>1 DEF QueueSound
  <2>3. OperationSound(operation)'
    BY <1>3, <2>2, OthersSound, NoOneAssumption
  <2>4. QED
    BY <1>1, <2>1, <2>3 DEF OperationSound, Awaits
<1>5. QueueSound'
  BY <1>1, <1>4 DEF QueueSound
<1>6. QED
  BY <1>1, <1>3, <1>5, UntouchedKeeps DEF ProgressSound

\* Whatever step is taken, the work stays sound, and a result is appended exactly
\* when its execution comes to hold it.
LEMMA WorkStep ==
  ASSUME TypeOK, QueueSound, ProgressSound, ResultsSound, [Next]_vars
  PROVE  /\ ProgressSound' /\ QueueSound'
         /\ \/ UNCHANGED <<held, resultIds>> /\ Cardinality(Results)' = Cardinality(Results)
            \/ \E r \in Reviewers \ held :
                 /\ held' = held \cup {r} /\ resultIds' = resultIds \cup {r}
                 /\ Cardinality(Results)' = Cardinality(Results) + 1
<1>1. IsFiniteSet(held)
  BY DEF ResultsSound
<1>2. CASE \E r \in Reviewers : Execute(r)
  <2>1. PICK r \in Reviewers : Execute(r)
    BY <1>2
  <2>2. UNCHANGED <<file, resultIds, held>>
    BY <2>1, ExecuteCases
  <2>3. Results' = Results
    BY <2>2 DEF Results
  <2>4. QED
    BY <2>1, <2>2, <2>3, ExecuteWork
<1>3. CASE RecordEvent
  <2>1. UNCHANGED <<file, resultIds, held>>
    BY <1>3 DEF RecordEvent
  <2>2. Results' = Results
    BY <2>1 DEF Results
  <2>3. QED
    BY <1>3, <2>1, <2>2, EventWork
<1>4. CASE OperationFails \/ OperationRejected
  <2>1. UNCHANGED <<resultIds, held>> /\ (file' = file \/ file' = Append(file, Torn))
    BY <1>4 DEF OperationFails, OperationRejected
  <2>2. Cardinality(Results)' = Cardinality(Results)
    <3>1. CASE file' = file
      BY <3>1 DEF Results
    <3>2. CASE file' = Append(file, Torn)
      BY <1>1, <3>2, CountGrows, EndLines
    <3>3. QED
      BY <2>1, <3>1, <3>2
  <2>3. QED
    BY <1>1, <1>4, <2>1, <2>2, DropWork
<1>5. CASE AppendRecord
  <2>1. PICK line, by : line = Head(Head(queue).rest) /\ by = Head(queue).by
    OBVIOUS
  <2>2. /\ queue # <<>> /\ ~Refused(Head(queue)) /\ file' = Append(file, line)
        /\ line \in LineSet /\ by \in Reviewers \cup {NoOne}
    BY <1>5, <2>1, AppendCases, HeadIsOperation DEF Writers
  <2>3. Cardinality(Results)' = IF line.kind = "result" THEN Cardinality(Results) + 1
                                                        ELSE Cardinality(Results)
    BY <2>2, CountGrows
  <2>4. CASE by = NoOne
    <3>1. line = Note
      <4>1. line.by = by \/ line = Note
        BY <2>1, <2>2, HeadFits
      <4>2. line.by \in Reviewers \/ line = Note
        BY <2>1, <2>2, HeadFits
      <4>3. QED
        BY <2>4, <4>1, <4>2, NoOneAssumption
    <3>2. line.kind # "result"
      BY <1>1, <3>1, EndLines
    <3>3. UNCHANGED <<resultIds, held>>
      BY <1>5, <2>1, <2>4, <3>2, AppendCases, NoOneAssumption
    <3>4. QED
      BY <1>5, <2>1, <2>3, <2>4, <3>2, <3>3, AppendEventWork
  <2>5. CASE by \in Reviewers /\ Tail(Head(queue).rest) # <<>>
    <3>1. ProgressSound' /\ QueueSound' /\ UNCHANGED <<held, resultIds>>
      BY <1>5, <2>1, <2>5, AppendPartWork
    <3>2. line.kind # "result"
      <4>1. PICK rest : rest = Tail(Head(queue).rest)
        OBVIOUS
      <4>2. HeadIs(by, line, rest)
        BY <2>1, <2>2, <2>5, <4>1, HeadRecord
      <4>3. rest # <<>>
        BY <2>5, <4>1
      <4>4. QED
        BY <4>2, <4>3 DEF HeadIs
    <3>3. QED
      BY <2>3, <3>1, <3>2
  <2>6. CASE by \in Reviewers /\ Tail(Head(queue).rest) = <<>>
    <3>1. /\ ProgressSound' /\ QueueSound'
          /\ line.kind = "result" <=> pc[by] = "recording"
          /\ pc[by] = "recording" => by \notin held
          /\ held' = IF pc[by] = "recording" THEN held \cup {by} ELSE held
      BY <1>5, <2>1, <2>6, AppendLastWork
    <3>2. resultIds' = IF line.kind = "result" THEN resultIds \cup {by} ELSE resultIds
      BY <1>5, <2>1, <2>6, AppendCases
    <3>3. QED
      BY <2>3, <2>6, <3>1, <3>2
  <2>7. QED
    BY <2>2, <2>4, <2>5, <2>6
<1>6. CASE Ends \/ UNCHANGED vars
  <2>1. ProgressSound' /\ QueueSound' /\ UNCHANGED <<held, resultIds>>
    BY <1>6, EndsWork
  <2>2. Cardinality(Results)' = Cardinality(Results)
    <3>1. CASE file' = file
      BY <3>1 DEF Results
    <3>2. ASSUME NEW line \in LineSet, file' = Append(file, line), line.kind # "result"
          PROVE  Cardinality(Results)' = Cardinality(Results)
      BY <3>2, CountGrows
    <3>3. CASE Summarise \/ SealFile \/ SealFails
      BY <1>1, <3>1, <3>2, <3>3, EndLines DEF Summarise, SealFile, SealFails
    <3>4. CASE ~(Summarise \/ SealFile \/ SealFails)
      BY <1>6, <3>1, <3>4 DEF Ends, StartSeal, GiveUp, CopyRecovery, Publish, FillDetails,
           DetailsFilled, Index, Release, Wipe, PublicationFails, writing, vars
    <3>5. QED
      BY <3>3, <3>4
  <2>3. QED
    BY <2>1, <2>2
<1>7. QED
  BY <1>2, <1>3, <1>4, <1>5, <1>6 DEF Next, Ends

LEMMA ResultsStep ==
  ASSUME TypeOK, QueueSound, ProgressSound, ResultsSound, [Next]_vars
  PROVE  ResultsSound'
<1>1. held = resultIds /\ IsFiniteSet(held) /\ Cardinality(Results) = Cardinality(held)
  BY DEF ResultsSound
<1>2. CASE UNCHANGED <<held, resultIds>> /\ Cardinality(Results)' = Cardinality(Results)
  BY <1>1, <1>2 DEF ResultsSound
<1>3. ASSUME NEW r \in Reviewers \ held, held' = held \cup {r}, resultIds' = resultIds \cup {r},
             Cardinality(Results)' = Cardinality(Results) + 1
      PROVE  ResultsSound'
  <2>1. IsFiniteSet(held') /\ Cardinality(held') = Cardinality(held) + 1
    BY <1>1, <1>3, FS_AddElement
  <2>2. QED
    BY <1>1, <1>3, <2>1 DEF ResultsSound
<1>4. QED
  BY <1>2, <1>3, WorkStep

\* A sealed file stays as it was summarised.
LEMMA SealStep ==
  ASSUME TypeOK, EndSound, QueueSound, ProgressSound, ResultsSound, SealSound, [Next]_vars
  PROVE  SealSound'
<1>1. \A r \in Reviewers : pc[r] \in Finished => pc'[r] \in Finished
  BY FinishedStay
<1>2. file \in Seq(LineSet) /\ file # <<>> /\ Len(file) \in Nat /\ Len(file) > 0
      /\ IsFiniteSet(held)
  BY DEF TypeOK, ResultsSound
<1>3. CASE file' = file
  <2>1. LastKind' = LastKind /\ Results' = Results
    BY <1>3 DEF LastKind, Results
  <2>2. QED
    BY <1>1, <1>3, <2>1 DEF SealSound
<1>4. ASSUME NEW line \in LineSet, file' = Append(file, line), line.kind # "seal"
      PROVE  SealSound'
  BY <1>4, AppendedLines DEF SealSound
<1>5. CASE SealFile /\ file' = Append(file, Seal)
  <2>1. Seal \in LineSet /\ Seal.kind = "seal"
    BY <1>2, EndLines
  <2>2. main = "summed"
    BY <1>5 DEF SealFile, Main
  <2>3. /\ file[Len(file)].n = Cardinality(Results)
        /\ \A r \in Reviewers : pc[r] \in Finished
    BY <2>2 DEF EndSound
  <2>4. Len(file') = Len(file) + 1 /\ file'[Len(file)] = file[Len(file)]
    BY <1>2, <1>5, <2>1, Appended
  <2>5. Cardinality(Results)' = Cardinality(Results)
    BY <1>5, <2>1, CountGrows
  <2>6. Len(file') > 1 /\ Len(file') - 1 = Len(file)
    BY <1>2, <2>4
  <2>7. QED
    BY <1>1, <2>3, <2>4, <2>5, <2>6 DEF SealSound
<1>6. CASE AppendRecord /\ file' = Append(file, Head(Head(queue).rest))
  <2>1. PICK line : line = Head(Head(queue).rest)
    OBVIOUS
  <2>2. line \in LineSet /\ line.kind \in Kinds \cup {"note"}
    BY <1>6, <2>1, AppendCases, HeadFits
  <2>3. QED
    BY <1>4, <1>6, <2>1, <2>2 DEF Kinds
<1>7. CASE file' = Append(file, Torn)
  BY <1>2, <1>4, <1>7, EndLines
<1>8. CASE file' = Append(file, Line("summary", NoOne, Cardinality(held)))
  BY <1>2, <1>4, <1>8, EndLines
<1>9. QED
  BY <1>3, <1>5, <1>6, <1>7, <1>8, FileCases

-----------------------------------------------------------------------------
(* The theorems.                                                           *)

LEMMA Starts ==
  ASSUME Init
  PROVE  AInv
<1> USE SizeAssumption
<1> DEFINE header == Line("header", NoOne, 0)
<1>1. header \in LineSet /\ header.kind = "header"
  BY LineIsLine DEF Writers
<1> HIDE DEF header
<1>2. file = <<header>>
  BY DEF Init, header
<1>3. /\ file \in Seq(LineSet) /\ file # <<>> /\ Len(file) = 1 /\ DOMAIN file = {1}
      /\ file[1] = header
  BY <1>1, <1>2
<1>4. /\ Results = {} /\ \A kind \in Kinds : \A r : Of(kind, r) = {} /\ Count(kind, r) = 0
  BY <1>1, <1>3, FS_EmptySet DEF Results, Of, Count, Kinds
<1>5. LastKind = "header"
  BY <1>1, <1>3 DEF LastKind
<1>6. TypeOK
  <2>1. queue \in Seq([by : Writers, rest : Seq(LineSet) \ {<<>>}])
    BY DEF Init
  <2>2. page \in [Reviewers -> 0..Pages] /\ attempt \in [Reviewers -> 1..Attempts]
    BY DEF Init
  <2>3. /\ config \in [managed : BOOLEAN, details : BOOLEAN]
        /\ copies \in [Names -> {"none", "partial", "complete", "wiped"}]
        /\ resultIds \subseteq Reviewers /\ held \subseteq Reviewers /\ index \subseteq Names
        /\ poisoned \in BOOLEAN /\ finalized \in BOOLEAN /\ listed \in BOOLEAN
        /\ released \in BOOLEAN
    BY DEF Init, Undecided
  <2>4. /\ pc \in [Reviewers -> Writes \cup Done \cup {"reviewing", "checking", "releasing"}]
        /\ events \in 0..MaxEvents
        /\ main \in Ended \cup {"running", "sealing", "summed", "sealed", "copied",
             "linked", "filling", "detailed", "indexed", "emptied"}
    BY DEF Init
  <2>5. QED
    BY <1>3, <2>1, <2>2, <2>3, <2>4 DEF TypeOK
<1>7. EndSound
  <2>1. Torn \notin Lines(file)
    BY <1>1, <1>3 DEF Lines, Torn, Line
  <2>2. main = "running"
    BY DEF Init
  <2>3. QED
    BY <1>1, <1>3, <1>5, <2>1, <2>2 DEF EndSound, Publishing
<1>8. QueueSound
  BY DEF Init, QueueSound
<1>9. ProgressSound
  <2>1. ASSUME NEW r \in Reviewers PROVE Progress(r)
    <3>1. pc[r] = "reviewing" /\ page[r] = 0 /\ r \notin held
      BY DEF Init
    <3>2. Of("result", r) = {} /\ Of("page", r) = {} /\ Of("narrative", r) = {}
          /\ Of("coverage", r) = {}
      BY <1>4 DEF Kinds
    <3>3. QED
      BY <3>1, <3>2 DEF Progress
  <2>2. QED
    BY <2>1 DEF ProgressSound
<1>10. ResultsSound
  BY <1>4, FS_EmptySet DEF Init, ResultsSound
<1>11. SealSound
  BY <1>5 DEF SealSound
<1>12. ActiveIsReadable
  BY <1>1, <1>3 DEF ActiveIsReadable, LineAccepted
<1>13. CopiesSound
  BY DEF Init, CopiesSound, Publishing
<1>14. QED
  BY <1>6, <1>7, <1>8, <1>9, <1>10, <1>11, <1>12, <1>13 DEF AInv

LEMMA Stays ==
  ASSUME AInv, [Next]_vars
  PROVE  AInv'
<1>1. /\ TypeOK /\ EndSound /\ QueueSound /\ ProgressSound /\ ResultsSound /\ SealSound
      /\ ActiveIsReadable /\ CopiesSound /\ IsFiniteSet(held)
  BY DEF AInv, ResultsSound
<1>2. TypeOK' /\ CopiesSound'
  BY <1>1, TypeStep, CopiesStep
<1>3. EndSound' /\ ActiveIsReadable'
  BY <1>1, EndStep, ReadableStep
<1>4. ProgressSound' /\ QueueSound'
  BY <1>1, WorkStep
<1>5. ResultsSound' /\ SealSound'
  BY <1>1, ResultsStep, SealStep
<1>6. QED
  BY <1>2, <1>3, <1>4, <1>5 DEF AInv

\* The inductive invariant: the end of the run, the queue and what every execution
\* awaits there, what the file has of every reviewer, and the copies.
THEOREM ArtifactInvariant == Spec => []AInv
<1>1. Init => AInv
  BY Starts
<1>2. AInv /\ [Next]_vars => AInv'
  BY Stays
<1>3. QED
  BY <1>1, <1>2, PTL DEF Spec

\* FileIsReadable, for any number of reviewers and records: the active file is
\* readable at any moment, and a sealed one is whole.
THEOREM FileStaysReadable == Spec => []FileIsReadable
<1>1. AInv => FileIsReadable
  <2> SUFFICES ASSUME AInv PROVE FileIsReadable
    OBVIOUS
  <2>1. TypeOK /\ ActiveIsReadable /\ ProgressSound /\ SealSound
    BY DEF AInv
  <2>2. ASSUME Sealed
        PROVE  /\ file[Len(file) - 1].n = Cardinality(Results)
               /\ \A r \in Reviewers : pc[r] \in Finished
    BY <2>1, <2>2 DEF Sealed, Seal, Line, LastKind, SealSound
  <2>3. ASSUME Sealed, NEW r \in Reviewers
        PROVE  /\ Of("narrative", r) # {} => Of("result", r) # {}
               /\ Of("page", r) # {} =>
                    Of("result", r) # {} /\ Cardinality(Of("page", r)) = Pages
               /\ pc[r] = "completed" =>
                    /\ Of("result", r) # {} /\ Of("coverage", r) # {}
                    /\ Cardinality(Of("page", r)) = Pages
    <3>1. pc[r] \in Finished /\ Progress(r)
      BY <2>1, <2>2, <2>3 DEF ProgressSound
    <3>2. Count("page", r) = 0 <=> Of("page", r) = {}
      BY <2>1, CountsAreNat
    <3>3. QED
      BY <3>1, <3>2 DEF Progress, Finished, Count
  <2>4. QED
    BY <2>1, <2>2, <2>3 DEF FileIsReadable, SealedIsWhole, WholeAccepted
<1>2. QED
  BY <1>1, ArtifactInvariant, PTL

\* CopySurvives, for every run: a complete copy exists from the seal on, and
\* those the index names are complete.
THEOREM CopyIsKept == Spec => []CopySurvives
<1>1. AInv => CopySurvives
  BY DEF AInv, CopiesSound, CopySurvives
<1>2. QED
  BY <1>1, ArtifactInvariant, PTL

LEMMA NothingFollows ==
  ASSUME AInv, [Next]_vars, Sealed \/ Torn \in Lines(file)
  PROVE  file' = file
<1>1. TypeOK /\ EndSound /\ QueueSound /\ ProgressSound /\ ResultsSound
  BY DEF AInv
<1>2. Sealed => LastKind = "seal"
  BY DEF Sealed, Seal, Line, LastKind
<1>3. \/ poisoned
      \/ queue = <<>> /\ main \in Publishing \cup {"failed"}
  BY <1>1, <1>2 DEF EndSound
<1>4. poisoned => main \notin {"summed"} \cup Publishing
  BY <1>1 DEF EndSound
<1>5. ~(AppendRecord /\ file' = Append(file, Head(Head(queue).rest)))
  BY <1>3 DEF AppendRecord
<1>6. ~(OperationFails /\ ~poisoned)
  BY <1>3 DEF OperationFails
<1>7. ~(Summarise \/ (SealFails /\ ~poisoned))
  BY <1>3 DEF Summarise, SealFails, Main, Publishing
<1>8. ~SealFile
  BY <1>3, <1>4 DEF SealFile, Main, Publishing
<1>9. QED
  BY <1>1, <1>5, <1>6, <1>7, <1>8, FileCases

\* Nothing is written behind the seal or behind a line that was cut short.
THEOREM EndIsFinal == Spec => NothingBehindTheEnd
<1>1. AInv /\ [Next]_vars => [Sealed \/ Torn \in Lines(file) => file' = file]_file
  BY NothingFollows
<1>2. QED
  BY <1>1, ArtifactInvariant, PTL DEF Spec, NothingBehindTheEnd

----------------------------------------------------------------------------
(* The index entry.                                                        *)

\* Where a process owns the update directory, and where it is done with the
\* attempt it made it in.
Locked == {"journaling", "comparing", "writing", "filling", "verifying",
           "archiving", "abandoning"}
Spent(directory) ==
  IF directory.owner = Publisher
    THEN \/ tries > directory.attempt
         \/ tries = directory.attempt
            /\ process[Publisher] \in Locked \cup Over \cup {"published"}
    ELSE process[directory.owner] \in Locked \cup Over

\* Where a recovery has judged the journal, seen its process dead, claimed.
Claiming == {"restoring"} \cup Restoring
Judging == {"claiming"} \cup Claiming
Seeing == {"probing"} \cup Judging

\* A directory that was there never comes back.
IdsSpent ==
  /\ update # NoUpdate => Spent(update)
  /\ \A r \in Recoverers : process[r] \in {"inspecting"} \cup Seeing => Spent(seen[r])

\* A process that updates owns the directory, and what it wrote is in it.
OwnersSound ==
  \A p \in Processes :
    /\ process[p] \in Locked => Same(Own(p))
    /\ process[p] \in {"rereading", "deciding", "locking"} \cup Locked =>
         prior[p] \in Documents
    /\ process[p] = "journaling" => update.journal = NoDoc
    /\ process[p] \in {"comparing", "writing", "filling", "verifying", "archiving"} =>
         update.journal = prior[p]

\* What a recovery saw, as long as it is the directory that is there.
SeenSound ==
  \A r \in Recoverers :
    /\ process[r] \in Seeing =>
         /\ seen[r].doc \in Documents
         /\ Same(seen[r]) =>
              seen[r].by = seen[r].owner /\ update.journal = seen[r].doc
    /\ process[r] \in Judging => ~Running(seen[r].by)

\* A claim is held in the directory that was seen.
ClaimsSound ==
  ~strayed =>
    \A r \in Recoverers :
      process[r] \in Claiming => Same(seen[r]) /\ update.claim = r

\* The run itself restores nothing.
PublisherUpdates == process[Publisher] \notin Claiming

\* Nothing is updated before it is published.
EntryExists ==
  /\ update # NoUpdate => entry # NoDoc
  /\ \A p \in Processes : prior[p] # NoDoc => entry # NoDoc

\* What stands in the entry, where a process has reached.
EntrySound ==
  ~strayed =>
    /\ \A p \in Processes :
         /\ process[p] \in {"journaling", "comparing", "writing", "abandoning"} =>
              entry # TornEntry
         /\ process[p] = "archiving" => entry = Changed(p)
    /\ \A r \in Recoverers : process[r] = "rearchiving" => entry = seen[r].doc
    /\ entry = TornEntry => update # NoUpdate /\ update.journal \in Documents

\* Where the document of the last acknowledged change is.
LatestKept ==
  ~stale /\ ~strayed =>
    /\ update = NoUpdate => entry = latest
    /\ \A p \in Processes :
         process[p] \in {"journaling", "comparing", "writing", "abandoning"} =>
           entry = latest
    /\ update # NoUpdate =>
         \/ update.journal \in {NoDoc, latest}
         \/ process[update.owner] \in {"comparing", "abandoning"}

\* The inductive invariant.
XInv ==
  /\ IndexTypeOK /\ IdsSpent /\ OwnersSound /\ SeenSound /\ ClaimsSound
  /\ PublisherUpdates /\ EntryExists /\ EntrySound /\ LatestKept
-----------------------------------------------------------------------------
LEMMA ProcessesAre ==
  /\ Publisher \in Processes /\ Recoverers \subseteq Processes
  /\ \A p \in Processes : p # Publisher => p \in Recoverers
  /\ \A r \in Recoverers : r # Publisher
  /\ NoClaim \notin Recoverers
BY RecoverersAssumption DEF Processes

LEMMA UpdateIsRecord ==
  ASSUME IndexTypeOK, update # NoUpdate
  PROVE  /\ update \in Updates /\ update.owner \in Processes /\ update.attempt \in 0..2
         /\ update.journal \in Documents \cup {NoDoc}
         /\ update.claim \in Recoverers \cup {NoClaim}
BY DEF IndexTypeOK, Updates

\* Every phase a process goes to is one.
LEMMA FailIsPhase ==
  ASSUME IndexTypeOK, NEW p \in Processes, Fail(p)
  PROVE  /\ process' \in [Processes -> Phases]
         /\ \A q \in Processes \ {p} : process'[q] = process[q]
         /\ process'[p] = IF p = Publisher /\ tries = 1 THEN "published" ELSE "failed"
BY DEF Fail, Go, IndexTypeOK, Phases, Over

LEMMA GoIsPhase ==
  ASSUME IndexTypeOK, NEW p \in Processes, NEW phase \in Phases, Go(p, phase)
  PROVE  /\ process' \in [Processes -> Phases]
         /\ \A q \in Processes \ {p} : process'[q] = process[q]
         /\ process'[p] = phase
BY DEF Go, IndexTypeOK

LEMMA ChangedIsDocument ==
  ASSUME IndexTypeOK, NEW p \in Processes, prior[p] \in Documents
  PROVE  Changed(p) \in Documents
BY ProcessesAre DEF IndexTypeOK, Changed, Documents

\* A step is one process's: it moves that process only.
Steps(p) ==
  \/ p = Publisher /\ (StartPublishing \/ PublishEntry \/ Observe)
  \/ p \in Recoverers /\ Recover(p)
  \/ Update(p) \/ Crash(p)

LEMMA StepCases ==
  ASSUME IndexNext
  PROVE  Lose \/ \E p \in Processes : Steps(p)
BY ProcessesAre DEF IndexNext, Steps

LEMMA ProcessStep ==
  ASSUME IndexTypeOK, NEW p \in Processes, Steps(p)
  PROVE  /\ process' \in [Processes -> Phases]
         /\ \A q \in Processes \ {p} : process'[q] = process[q]
<1> USE ProcessesAre DEF Phases, Over, Filling, Restoring
<1>1. ASSUME NEW phase \in Phases, Go(p, phase)
      PROVE  /\ process' \in [Processes -> Phases]
             /\ \A q \in Processes \ {p} : process'[q] = process[q]
  BY <1>1, GoIsPhase
<1>2. ASSUME Fail(p)
      PROVE  /\ process' \in [Processes -> Phases]
             /\ \A q \in Processes \ {p} : process'[q] = process[q]
  BY <1>2, FailIsPhase
<1>3. \/ Fail(p) \/ \E phase \in Phases : Go(p, phase)
  <2>1. CASE p = Publisher /\ (StartPublishing \/ PublishEntry \/ Observe)
    BY <2>1 DEF StartPublishing, PublishEntry, Observe, Link
  <2>2. CASE p \in Recoverers /\ Recover(p)
    <3>1. CASE StartRecovery(p) \/ Inspect(p) \/ Probe(p) \/ Claim(p)
      BY <3>1 DEF StartRecovery, Inspect, Probe, Claim
    <3>2. CASE Restore(p) \/ RestoreFilled(p) \/ RestoreVerified(p) \/ Rearchive(p)
               \/ RestoreFails(p)
      BY <3>2 DEF Restore, RestoreFilled, RestoreVerified, Rearchive, RestoreFails
    <3>3. CASE Ensure(p) \/ LeaseRefuses(p) \/ DecideRecovery(p) \/ PassLease(p) \/ Attach(p)
      BY <3>3, <2>2 DEF Ensure, LeaseRefuses, DecideRecovery, PassLease, Attach, Link
    <3>4. QED
      BY <2>2, <3>1, <3>2, <3>3 DEF Recover
  <2>3. CASE Update(p)
    <3>1. CASE Read(p) \/ Reread(p) \/ Lock(p) \/ Journal(p) \/ Compare(p)
      BY <3>1 DEF Read, Reread, Lock, Journal, Compare
    <3>2. CASE Write(p) \/ Fill(p) \/ Verify(p) \/ Archive(p) \/ Abandon(p)
      BY <3>2 DEF Write, Fill, Verify, Archive, Abandon
    <3>3. QED
      BY <2>3, <3>1, <3>2 DEF Update
  <2>4. CASE Crash(p)
    BY <2>4 DEF Crash
  <2>5. QED
    BY <2>1, <2>2, <2>3, <2>4 DEF Steps
<1>4. QED
  BY <1>1, <1>2, <1>3

\* What a step does to the files and to what the process remembers.
EntryCases(p) ==
  \/ entry' = entry /\ latest' = latest
  \/ entry' = entry /\ Archive(p)
  \/ p = Publisher /\ PublishEntry /\ entry = NoDoc /\ latest' = entry'
       /\ entry' = [primary |-> Publisher, observed |-> "none"]
  \/ p \in Recoverers /\ Attach(p) /\ entry = NoDoc /\ latest' = entry'
       /\ entry' = [primary |-> p, observed |-> "failed"]
  \/ latest' = latest /\ p \in Recoverers /\ (Restore(p) \/ RestoreFilled(p))
  \/ latest' = latest /\ (Write(p) \/ Fill(p))

UpdateCases(p) ==
  \/ update' = update
  \/ p \in Recoverers /\ (Claim(p) \/ Rearchive(p) \/ RestoreFails(p))
  \/ Lock(p) \/ Journal(p) \/ Archive(p) \/ Abandon(p)

LEMMA FilesCases ==
  ASSUME IndexTypeOK, NEW p \in Processes, Steps(p)
  PROVE  EntryCases(p) /\ UpdateCases(p)
<1> USE DEF files, local, history
<1>1. CASE p = Publisher /\ (StartPublishing \/ PublishEntry \/ Observe)
  BY <1>1 DEF StartPublishing, PublishEntry, Observe, Link, EntryCases, UpdateCases
<1>2. CASE p \in Recoverers /\ Recover(p)
  <2>1. CASE StartRecovery(p) \/ Inspect(p) \/ Probe(p) \/ Claim(p)
    BY <1>2, <2>1 DEF StartRecovery, Inspect, Probe, Claim, EntryCases, UpdateCases
  <2>2. CASE Restore(p) \/ RestoreFilled(p) \/ RestoreVerified(p) \/ Rearchive(p)
             \/ RestoreFails(p)
    BY <1>2, <2>2 DEF Restore, RestoreFilled, RestoreVerified, Rearchive, RestoreFails,
       EntryCases, UpdateCases
  <2>3. CASE Ensure(p) \/ LeaseRefuses(p) \/ DecideRecovery(p) \/ PassLease(p)
    BY <1>2, <2>3 DEF Ensure, LeaseRefuses, DecideRecovery, PassLease, EntryCases,
       UpdateCases
  <2>4. CASE Attach(p)
    BY <1>2, <2>4 DEF Attach, Link, EntryCases, UpdateCases
  <2>5. QED
    BY <1>2, <2>1, <2>2, <2>3, <2>4 DEF Recover
<1>3. CASE Update(p)
  <2>1. CASE Read(p) \/ Reread(p) \/ Lock(p) \/ Journal(p) \/ Compare(p)
    BY <2>1 DEF Read, Reread, Lock, Journal, Compare, EntryCases, UpdateCases
  <2>2. CASE Write(p) \/ Fill(p) \/ Verify(p) \/ Archive(p) \/ Abandon(p)
    BY <2>2 DEF Write, Fill, Verify, Archive, Abandon, EntryCases, UpdateCases
  <2>3. QED
    BY <1>3, <2>1, <2>2 DEF Update
<1>4. CASE Crash(p)
  BY <1>4 DEF Crash, EntryCases, UpdateCases
<1>5. QED
  BY <1>1, <1>2, <1>3, <1>4 DEF Steps

LEMMA MemoryCases ==
  ASSUME IndexTypeOK, NEW p \in Processes, Steps(p)
  PROVE  /\ prior' = prior \/ (Read(p) /\ entry \in Documents /\ process'[p] = "rereading"
                               /\ prior' = [prior EXCEPT ![p] = entry])
         /\ seen' = seen \/ (p \in Recoverers /\ (StartRecovery(p) \/ Inspect(p)))
         /\ UNCHANGED <<tries, outcome>> \/ (p = Publisher /\ Observe)
         /\ lost' = lost
         /\ strayed' = strayed \/ (p \in Recoverers /\ Claim(p))
         /\ stale' = stale \/ Crash(p)
<1> USE DEF files, local, history
<1>1. CASE p = Publisher /\ (StartPublishing \/ PublishEntry \/ Observe)
  BY <1>1 DEF StartPublishing, PublishEntry, Observe, Link
<1>2. CASE p \in Recoverers /\ Recover(p)
  <2>1. CASE StartRecovery(p) \/ Inspect(p) \/ Probe(p) \/ Claim(p)
    BY <1>2, <2>1 DEF StartRecovery, Inspect, Probe, Claim
  <2>2. CASE Restore(p) \/ RestoreFilled(p) \/ RestoreVerified(p) \/ Rearchive(p)
             \/ RestoreFails(p)
    BY <1>2, <2>2 DEF Restore, RestoreFilled, RestoreVerified, Rearchive, RestoreFails
  <2>3. CASE Ensure(p) \/ LeaseRefuses(p) \/ DecideRecovery(p) \/ PassLease(p)
    BY <1>2, <2>3 DEF Ensure, LeaseRefuses, DecideRecovery, PassLease
  <2>4. CASE Attach(p)
    BY <1>2, <2>4 DEF Attach, Link
  <2>5. QED
    BY <1>2, <2>1, <2>2, <2>3, <2>4 DEF Recover
<1>3. CASE Update(p)
  <2>1. CASE Read(p)
    <3>1. /\ UNCHANGED <<lost, tries, outcome, seen, stale, strayed>>
          /\ prior' = prior \/ (entry \notin {TornEntry, NoDoc}
                               /\ prior' = [prior EXCEPT ![p] = entry] /\ Go(p, "rereading"))
      BY <2>1 DEF Read
    <3>2. CASE prior' = prior
      BY <3>1, <3>2
    <3>3. CASE prior' # prior
      BY <2>1, <3>1, <3>3, GoIsPhase DEF IndexTypeOK, Phases
    <3>4. QED
      BY <3>2, <3>3
  <2>2. CASE Reread(p) \/ Lock(p) \/ Journal(p) \/ Compare(p)
    BY <2>2 DEF Reread, Lock, Journal, Compare
  <2>3. CASE Write(p) \/ Fill(p) \/ Verify(p) \/ Archive(p) \/ Abandon(p)
    BY <2>3 DEF Write, Fill, Verify, Archive, Abandon
  <2>4. QED
    BY <1>3, <2>1, <2>2, <2>3 DEF Update
<1>4. CASE Crash(p)
  BY <1>4 DEF Crash
<1>5. QED
  BY <1>1, <1>2, <1>3, <1>4 DEF Steps

-----------------------------------------------------------------------------
(* One conjunct of the inductive invariant at a time.                      *)

LEMMA LoseKeeps ==
  ASSUME Lose \/ UNCHANGED indexVars
  PROVE  UNCHANGED <<entry, update, process, tries, outcome, prior, seen, latest, stale,
                     strayed>>
BY DEF Lose, indexVars, files, local, history

\* Every variable keeps its type.  A rewritten entry is the document the process
\* holds in memory, and one that may not be documents yet is never written.
LEMMA IndexTypeStep ==
  ASSUME IndexTypeOK, OwnersSound, SeenSound, [IndexNext]_indexVars
  PROVE  IndexTypeOK'
<1> USE ProcessesAre
<1>1. CASE Lose \/ UNCHANGED indexVars
  <2>1. lost' \in BOOLEAN
    BY <1>1 DEF Lose, indexVars, files, IndexTypeOK
  <2>2. QED
    BY <1>1, <2>1, LoseKeeps DEF IndexTypeOK
<1>2. ASSUME NEW p \in Processes, Steps(p) PROVE IndexTypeOK'
  <2>1. process' \in [Processes -> Phases]
    BY <1>2, ProcessStep
  <2>2. entry' \in Documents \cup {NoDoc, TornEntry} /\ latest' \in Documents \cup {NoDoc}
    <3>1. CASE entry' = entry /\ latest' = latest
      BY <3>1 DEF IndexTypeOK
    <3>2. CASE Archive(p) /\ entry' = entry
      <4>1. CASE latest' = latest
        BY <3>2, <4>1 DEF IndexTypeOK
      <4>2. CASE latest' # latest
        <5>1. latest' = Changed(p) /\ process[p] = "archiving"
          BY <3>2, <4>2 DEF Archive
        <5>2. Changed(p) \in Documents
          BY <5>1, ChangedIsDocument DEF OwnersSound, Locked
        <5>3. QED
          BY <3>2, <5>1, <5>2 DEF IndexTypeOK
      <4>3. QED
        BY <4>1, <4>2
    <3>3. CASE \/ latest' = entry' /\ entry' = [primary |-> Publisher, observed |-> "none"]
               \/ latest' = entry' /\ entry' = [primary |-> p, observed |-> "failed"]
      BY <3>3 DEF Documents
    <3>4. CASE p \in Recoverers /\ (Restore(p) \/ RestoreFilled(p)) /\ latest' = latest
      <4>1. entry' \in {TornEntry, seen[p].doc}
        BY <3>4 DEF Restore, RestoreFilled, Filled
      <4>2. process[p] \in Seeing
        BY <3>4 DEF Restore, RestoreFilled, Seeing, Judging, Claiming, Restoring
      <4>3. seen[p].doc \in Documents
        BY <3>4, <4>2 DEF SeenSound
      <4>4. QED
        BY <3>4, <4>1, <4>3 DEF IndexTypeOK
    <3>5. CASE (Write(p) \/ Fill(p)) /\ latest' = latest
      <4>1. entry' \in {entry, TornEntry, Changed(p)} /\ process[p] \in Locked
        BY <3>5 DEF Write, Fill, Filled, Locked
      <4>2. Changed(p) \in Documents
        BY <4>1, ChangedIsDocument DEF OwnersSound
      <4>3. QED
        BY <3>5, <4>1, <4>2 DEF IndexTypeOK
    <3>6. QED
      BY <1>2, <3>1, <3>2, <3>3, <3>4, <3>5, FilesCases DEF EntryCases
  <2>3. update' \in Updates \cup {NoUpdate}
    <3>1. CASE update' = update \/ update' = NoUpdate
      BY <3>1 DEF IndexTypeOK
    <3>2. CASE p \in Recoverers /\ update # NoUpdate /\ update' = [update EXCEPT !.claim = p]
      BY <3>2, UpdateIsRecord DEF Updates
    <3>3. CASE update # NoUpdate /\ update' = [update EXCEPT !.claim = NoClaim]
      BY <3>3, UpdateIsRecord DEF Updates
    <3>4. CASE update' = [owner |-> p, attempt |-> Attempt(p), journal |-> NoDoc,
                          claim |-> NoClaim]
      BY <3>4 DEF Updates, Attempt, IndexTypeOK
    <3>5. CASE Journal(p) /\ update' = [update EXCEPT !.journal = prior[p]]
      <4>1. prior[p] \in Documents /\ Same(Own(p))
        BY <3>5 DEF Journal, OwnersSound, Locked
      <4>2. update # NoUpdate
        BY <4>1 DEF Same
      <4>3. QED
        BY <3>5, <4>1, <4>2, UpdateIsRecord DEF Updates
    <3>6. QED
      BY <1>2, <3>1, <3>2, <3>3, <3>4, <3>5, FilesCases
      DEF UpdateCases, Claim, Rearchive, RestoreFails, Unclaim, Lock, Journal, Archive,
          Abandon, files
  <2>4. prior' \in [Processes -> Documents \cup {NoDoc}]
    BY <1>2, MemoryCases DEF IndexTypeOK
  <2>5. seen' \in [Recoverers -> Sightings]
    <3>1. CASE seen' = seen
      BY <3>1 DEF IndexTypeOK
    <3>2. CASE p \in Recoverers /\ update # NoUpdate
               /\ seen' = [seen EXCEPT ![p].owner = update.owner, ![p].attempt = update.attempt]
      BY <3>2, UpdateIsRecord DEF IndexTypeOK, Sightings
    <3>3. CASE p \in Recoverers /\ update # NoUpdate
               /\ seen' = [seen EXCEPT ![p].by = update.owner, ![p].doc = update.journal]
      BY <3>3, UpdateIsRecord DEF IndexTypeOK, Sightings
    <3>4. QED
      BY <1>2, <3>1, <3>2, <3>3, MemoryCases DEF StartRecovery, Inspect
  <2>6. tries' \in 0..2 /\ outcome' \in {"none", "planned", "failed"}
    BY <1>2, MemoryCases DEF IndexTypeOK, Observe
  <2>7. lost' \in BOOLEAN /\ stale' \in BOOLEAN /\ strayed' \in BOOLEAN
    BY <1>2, MemoryCases DEF IndexTypeOK, Crash, Claim
  <2>8. QED
    BY <2>1, <2>2, <2>3, <2>4, <2>5, <2>6, <2>7 DEF IndexTypeOK
<1>3. QED
  BY <1>1, <1>2, StepCases

\* The phases a process is in after a step from these, whatever it does.
LEMMA EndsStay ==
  ASSUME IndexTypeOK, NEW p \in Processes, Steps(p)
  PROVE  /\ process[p] \notin Over
         /\ process[p] \in Locked =>
              process'[p] \in Locked \cup Over \cup (IF p = Publisher THEN {"published"} ELSE {})
         /\ process[p] = "published" /\ p = Publisher =>
              process'[p] \in {"published", "crashed"} \/ tries' > tries
<1> USE ProcessesAre DEF Over, Locked, Running, Phases
<1>1. ASSUME Fail(p) PROVE process'[p] \in {"failed"} \cup (IF p = Publisher THEN {"published"} ELSE {})
  BY <1>1, FailIsPhase
<1>2. CASE p = Publisher /\ (StartPublishing \/ PublishEntry \/ Observe)
  <2>1. CASE StartPublishing \/ PublishEntry
    BY <1>2, <2>1 DEF StartPublishing, PublishEntry
  <2>2. CASE Observe
    BY <1>2, <2>2 DEF Observe, IndexTypeOK
  <2>3. QED
    BY <1>2, <2>1, <2>2
<1>3. CASE p \in Recoverers /\ Recover(p)
  <2>1. process[p] \in {"start", "inspecting", "probing", "claiming", "restoring",
                        "refilling", "reverifying", "rearchiving", "ensuring",
                        "unindexed", "deciding", "attaching"}
    BY <1>3 DEF Recover, StartRecovery, Inspect, Probe, Claim, Restore, RestoreFilled,
       RestoreVerified, Rearchive, RestoreFails, Ensure, LeaseRefuses, DecideRecovery,
       PassLease, Attach, Restoring
  <2>2. QED
    BY <1>3, <2>1
<1>4. CASE Read(p) \/ Reread(p) \/ Lock(p)
  BY <1>4 DEF Read, Reread, Lock
<1>5. CASE Journal(p) \/ Compare(p)
  <2>1. \E phase \in {"comparing", "writing", "abandoning"} : Go(p, phase)
    BY <1>5 DEF Journal, Compare
  <2>2. process[p] \in {"journaling", "comparing"}
    BY <1>5 DEF Journal, Compare
  <2>3. QED
    BY <2>1, <2>2, GoIsPhase
<1>6. CASE Write(p) \/ Fill(p) \/ Verify(p) \/ Archive(p) \/ Abandon(p)
  <2>1. Fail(p) \/ \E phase \in {"filling", "verifying", "archiving", "done"} : Go(p, phase)
    BY <1>6 DEF Write, Fill, Verify, Archive, Abandon
  <2>2. process[p] \in {"writing", "filling", "verifying", "archiving", "abandoning"}
    BY <1>6 DEF Write, Fill, Verify, Archive, Abandon
  <2>3. CASE Fail(p)
    BY <1>1, <2>2, <2>3
  <2>4. ASSUME NEW phase \in {"filling", "verifying", "archiving", "done"}, Go(p, phase)
        PROVE  process'[p] = phase
    BY <2>4, GoIsPhase DEF Filling, Restoring
  <2>5. QED
    BY <2>1, <2>2, <2>3, <2>4
<1>7. CASE Crash(p)
  BY <1>7, GoIsPhase DEF Crash
<1>8. QED
  BY <1>2, <1>3, <1>4, <1>5, <1>6, <1>7 DEF Steps, Update

\* Which step brings a process to a phase.
LEMMA Arrivals ==
  ASSUME IndexTypeOK, NEW p \in Processes, Steps(p)
  PROVE  \/ process'[p] \in {"published"} \cup Over
         \/ process[p] = "start" /\ process'[p] = "linking"
         \/ /\ p \in Recoverers
            /\ \/ StartRecovery(p) /\ process'[p] \in {"ensuring", "inspecting"}
               \/ Inspect(p) /\ process'[p] = "probing"
               \/ Probe(p) /\ process'[p] = "claiming"
               \/ Claim(p) /\ process'[p] = "restoring"
               \/ Restore(p) /\ process'[p] = "refilling"
               \/ RestoreFilled(p) /\ process'[p] = "reverifying"
               \/ RestoreVerified(p) /\ process'[p] = "rearchiving"
               \/ Rearchive(p) /\ process'[p] = "ensuring"
               \/ Ensure(p) /\ process'[p] = "reading"
               \/ DecideRecovery(p) /\ process'[p] = "locking"
               \/ PassLease(p) /\ process'[p] = "attaching"
         \/ p = Publisher /\ Observe /\ process'[p] = "reading"
         \/ Read(p) /\ process'[p] \in {"unindexed", "rereading"}
         \/ Reread(p) /\ process'[p] \in {"locking", "deciding"}
         \/ Lock(p) /\ process'[p] = "journaling"
         \/ Journal(p) /\ process'[p] \in {"comparing", "abandoning"}
         \/ Compare(p) /\ process'[p] \in {"writing", "abandoning"}
         \/ Write(p) /\ process'[p] = "filling"
         \/ Fill(p) /\ process'[p] = "verifying"
         \/ Verify(p) /\ process'[p] = "archiving"
<1> USE ProcessesAre
<1>1. ASSUME NEW phase \in Phases, Go(p, phase) PROVE process'[p] = phase
  BY <1>1, GoIsPhase
<1>2. ASSUME Fail(p) PROVE process'[p] \in {"failed", "published"}
  BY <1>2, FailIsPhase
<1> USE DEF Phases, Over, Filling, Restoring
<1>3. CASE p = Publisher /\ (StartPublishing \/ PublishEntry \/ Observe)
  BY <1>1, <1>2, <1>3 DEF StartPublishing, PublishEntry, Observe, Link
<1>4. CASE p \in Recoverers /\ Recover(p)
  <2>1. CASE StartRecovery(p) \/ Inspect(p) \/ Probe(p) \/ Claim(p)
    BY <1>1, <1>2, <1>4, <2>1 DEF StartRecovery, Inspect, Probe, Claim
  <2>2. CASE Restore(p) \/ RestoreFilled(p) \/ RestoreVerified(p) \/ Rearchive(p)
             \/ RestoreFails(p)
    BY <1>1, <1>2, <1>4, <2>2 DEF Restore, RestoreFilled, RestoreVerified, Rearchive,
       RestoreFails
  <2>3. CASE Ensure(p) \/ LeaseRefuses(p) \/ DecideRecovery(p) \/ PassLease(p)
    BY <1>1, <1>2, <1>4, <2>3 DEF Ensure, LeaseRefuses, DecideRecovery, PassLease
  <2>4. CASE Attach(p)
    BY <1>1, <1>2, <1>4, <2>4 DEF Attach, Link
  <2>5. QED
    BY <1>4, <2>1, <2>2, <2>3, <2>4 DEF Recover
<1>5. CASE Read(p) \/ Reread(p) \/ Lock(p)
  BY <1>1, <1>2, <1>5 DEF Read, Reread, Lock
<1>6. CASE Journal(p) \/ Compare(p) \/ Write(p)
  BY <1>1, <1>2, <1>6 DEF Journal, Compare, Write
<1>7. CASE Fill(p) \/ Verify(p) \/ Archive(p) \/ Abandon(p)
  BY <1>1, <1>2, <1>7 DEF Fill, Verify, Archive, Abandon
<1>8. CASE Crash(p)
  BY <1>1, <1>8 DEF Crash
<1>9. QED
  BY <1>3, <1>4, <1>5, <1>6, <1>7, <1>8 DEF Steps, Update

LEMMA SpentStays ==
  ASSUME IndexTypeOK, NEW d, d.owner \in Processes, d.attempt \in 0..2, Spent(d),
         [IndexNext]_indexVars
  PROVE  Spent(d)'
<1> USE ProcessesAre
<1>1. CASE Lose \/ UNCHANGED indexVars
  BY <1>1, LoseKeeps DEF Spent
<1>2. ASSUME NEW p \in Processes, Steps(p) PROVE Spent(d)'
  <2>1. /\ \A q \in Processes \ {p} : process'[q] = process[q]
        /\ tries \in 0..2 /\ tries' \in 0..2 /\ tries <= tries'
        /\ p # Publisher => tries' = tries
    BY <1>2, ProcessStep, MemoryCases DEF IndexTypeOK, Observe
  <2>2. CASE d.owner # p
    BY <2>1, <2>2 DEF Spent
  <2>3. CASE d.owner = p /\ p # Publisher
    BY <1>2, <2>3, EndsStay DEF Spent
  <2>4. CASE d.owner = p /\ p = Publisher
    BY <1>2, <2>1, <2>4, EndsStay DEF Spent, Over
  <2>5. QED
    BY <2>2, <2>3, <2>4
<1>3. QED
  BY <1>1, <1>2, StepCases

\* The update directory: taken, given up or renamed away, or the same directory
\* with another claim or with the journal of its owner.
Fresh(p) == [owner |-> p, attempt |-> Attempt(p), journal |-> NoDoc, claim |-> NoClaim]

LEMMA FreshIsDirectory ==
  ASSUME IndexTypeOK, NEW p \in Processes
  PROVE  Fresh(p) \in Updates /\ Fresh(p) # NoUpdate
<1>1. Fresh(p) \in Updates
  BY ProcessesAre DEF Fresh, Updates, Attempt, IndexTypeOK
<1>2. QED
  BY <1>1, SentinelsAssumption

LEMMA DirectoryCases ==
  ASSUME IndexTypeOK, OwnersSound, NEW p \in Processes, Steps(p)
  PROVE  \/ update' = NoUpdate /\ update = NoUpdate
         \/ /\ update' = NoUpdate /\ update # NoUpdate
            /\ \/ p \in Recoverers /\ Rearchive(p)
               \/ Archive(p) /\ Same(Own(p))
               \/ Abandon(p) /\ Same(Own(p))
         \/ Lock(p) /\ update = NoUpdate /\ update' = Fresh(p) /\ update' # NoUpdate
         \/ /\ update # NoUpdate /\ update' # NoUpdate
            /\ update'.owner = update.owner /\ update'.attempt = update.attempt
            /\ \/ update'.journal = update.journal
               \/ Journal(p) /\ Same(Own(p)) /\ update'.journal = prior[p]
<1> USE ProcessesAre
<1>1. Fresh(p) # NoUpdate
  BY FreshIsDirectory
<1>2. CASE update' = update
  BY <1>2
<1>3. ASSUME NEW c \in Recoverers \cup {NoClaim}, update # NoUpdate,
             update' = [update EXCEPT !.claim = c]
      PROVE  /\ update' # NoUpdate /\ update'.journal = update.journal
             /\ update'.owner = update.owner /\ update'.attempt = update.attempt
  <2>1. update \in Updates
    BY <1>3, UpdateIsRecord
  <2>2. update' \in Updates
    BY <1>3, <2>1 DEF Updates
  <2>3. QED
    BY <1>3, <2>1, <2>2, SentinelsAssumption DEF Updates
<1>4. CASE p \in Recoverers /\ (Claim(p) \/ RestoreFails(p))
  <2>1. \/ update' = update
        \/ update # NoUpdate /\ \E c \in Recoverers \cup {NoClaim} :
                                  update' = [update EXCEPT !.claim = c]
    BY <1>4 DEF Claim, RestoreFails, Unclaim
  <2>2. QED
    BY <1>2, <1>3, <2>1
<1>5. CASE p \in Recoverers /\ Rearchive(p)
  BY <1>5 DEF Rearchive
<1>6. CASE Lock(p)
  BY <1>1, <1>2, <1>6 DEF Lock, Fresh
<1>7. CASE Journal(p)
  <2>1. CASE update' = [update EXCEPT !.journal = prior[p]]
    <3>1. Same(Own(p)) /\ prior[p] \in Documents
      BY <1>7 DEF Journal, OwnersSound, Locked
    <3>2. update # NoUpdate
      BY <3>1 DEF Same
    <3>3. update \in Updates
      BY <3>2, UpdateIsRecord
    <3>4. update' \in Updates
      BY <2>1, <3>1, <3>3 DEF Updates
    <3>5. update' # NoUpdate
      BY <3>4, SentinelsAssumption
    <3>6. QED
      BY <1>7, <2>1, <3>1, <3>2, <3>3, <3>5 DEF Updates
  <2>2. QED
    BY <1>2, <1>7, <2>1 DEF Journal
<1>8. CASE Archive(p) \/ Abandon(p)
  BY <1>2, <1>8 DEF Archive, Abandon
<1>9. QED
  BY <1>2, <1>4, <1>5, <1>6, <1>7, <1>8, FilesCases DEF UpdateCases

LEMMA StepsAreSteps == \A p \in Processes : Steps(p) => IndexNext
BY ProcessesAre DEF Steps, IndexNext

\* A directory that was there never comes back: a process makes one per attempt.
LEMMA SpentStep ==
  ASSUME IndexTypeOK, IdsSpent, OwnersSound, [IndexNext]_indexVars
  PROVE  IdsSpent'
<1> USE ProcessesAre
<1>1. CASE Lose \/ UNCHANGED indexVars
  BY <1>1, LoseKeeps DEF IdsSpent, Spent
<1>2. ASSUME NEW p \in Processes, Steps(p) PROVE IdsSpent'
  <2>1. ASSUME update' # NoUpdate PROVE Spent(update)'
    <3>1. CASE update # NoUpdate /\ update'.owner = update.owner
               /\ update'.attempt = update.attempt
      <4>1. PICK d : d = update
        OBVIOUS
      <4>2. Spent(d) /\ d.owner \in Processes /\ d.attempt \in 0..2
        BY <3>1, <4>1, UpdateIsRecord DEF IdsSpent
      <4>3. Spent(d)'
        BY <4>2, SpentStays
      <4>4. QED
        BY <3>1, <4>1, <4>3 DEF Spent
    <3>2. CASE Lock(p) /\ update' = Fresh(p) /\ update = NoUpdate
      <4>1. process'[p] = "journaling" /\ UNCHANGED tries
        BY <3>2, GoIsPhase DEF Lock, Phases, local
      <4>2. update'.owner = p /\ update'.attempt = Attempt(p)
        BY <3>2 DEF Fresh
      <4>3. QED
        BY <4>1, <4>2 DEF Spent, Attempt, Locked
    <3>3. QED
      BY <1>2, <2>1, <3>1, <3>2, DirectoryCases
  <2>2. ASSUME NEW r \in Recoverers, process'[r] \in {"inspecting"} \cup Seeing
        PROVE  Spent(seen[r])'
    <3>1. CASE StartRecovery(r)
      <4>1. update # NoUpdate /\ process[r] = "start"
        <5>1. ASSUME update = NoUpdate PROVE FALSE
          <6>1. process'[r] = "ensuring"
            BY <3>1, <5>1, GoIsPhase DEF StartRecovery, Phases
          <6>2. QED
            BY <2>2, <6>1 DEF Seeing, Judging, Claiming, Restoring
        <5>2. QED
          BY <3>1, <5>1 DEF StartRecovery
      <4>2. seen'[r].owner = update.owner /\ seen'[r].attempt = update.attempt
        BY <3>1, <4>1 DEF StartRecovery, IndexTypeOK, Sightings
      <4>3. PICK d : d = update
        OBVIOUS
      <4>4. Spent(d) /\ d.owner \in Processes /\ d.attempt \in 0..2
        BY <4>1, <4>3, UpdateIsRecord DEF IdsSpent
      <4>5. Spent(d)'
        BY <4>4, SpentStays
      <4>6. QED
        BY <4>2, <4>3, <4>5 DEF Spent
    <3>2. CASE ~StartRecovery(r)
      <4>1. seen'[r].owner = seen[r].owner /\ seen'[r].attempt = seen[r].attempt
        <5>1. CASE seen'[r] = seen[r]
          BY <5>1
        <5>2. CASE p = r /\ Inspect(r)
          BY <5>2 DEF Inspect, IndexTypeOK, Sightings
        <5>3. ASSUME p # r, p \in Recoverers, StartRecovery(p) \/ Inspect(p)
              PROVE  seen'[r] = seen[r]
          BY <5>3 DEF StartRecovery, Inspect, IndexTypeOK
        <5>4. QED
          BY <1>2, <3>2, <5>1, <5>2, <5>3, MemoryCases
      <4>2. process[r] \in {"inspecting"} \cup Seeing
        <5>1. CASE p # r
          BY <1>2, <2>2, <5>1, ProcessStep
        <5>2. CASE p = r
          BY <1>2, <2>2, <3>2, <5>2, Arrivals DEF Inspect, Probe, Claim, Restore,
             RestoreFilled, RestoreVerified, Seeing, Judging, Claiming, Restoring, Over
        <5>3. QED
          BY <5>1, <5>2
      <4>3. PICK d : d = seen[r]
        OBVIOUS
      <4>4. Spent(d) /\ d.owner \in Processes /\ d.attempt \in 0..2
        BY <4>2, <4>3 DEF IdsSpent, IndexTypeOK, Sightings
      <4>5. Spent(d)'
        BY <1>2, <4>4, SpentStays
      <4>6. QED
        BY <4>1, <4>3, <4>5 DEF Spent
    <3>3. QED
      BY <3>1, <3>2
  <2>3. QED
    BY <2>1, <2>2 DEF IdsSpent
<1>3. QED
  BY <1>1, <1>2, StepCases

\* A process that has ended stays so, and what it left in its memory too.
LEMMA OthersKeep ==
  ASSUME IndexTypeOK, NEW p \in Processes, Steps(p)
  PROVE  /\ \A q \in Processes : ~Running(q) => ~Running(q)'
         /\ \A q \in Processes \ {p} :
              /\ process'[q] = process[q] /\ prior'[q] = prior[q]
              /\ Own(q)' = Own(q)
              /\ process[q] \in Locked => Changed(q)' = Changed(q)
         /\ \A r \in Recoverers \ {p} : seen'[r] = seen[r]
<1> USE ProcessesAre
<1>1. \A q \in Processes \ {p} : process'[q] = process[q]
  BY ProcessStep
<1>2. process[p] \notin Over
  BY EndsStay
<1>3. \A q \in Processes : ~Running(q) => ~Running(q)'
  BY <1>1, <1>2 DEF Running
<1>4. \A q \in Processes \ {p} : prior'[q] = prior[q]
  BY MemoryCases DEF IndexTypeOK
<1>5. \A q \in Processes \ {p} : Own(q)' = Own(q)
  BY MemoryCases DEF Own, Attempt
<1>6. \A q \in Processes \ {p} : Changed(q)' = Changed(q)
  BY <1>4, MemoryCases DEF Changed
<1>7. ASSUME NEW r \in Recoverers \ {p} PROVE seen'[r] = seen[r]
  <2>1. CASE seen' = seen
    BY <2>1
  <2>2. CASE p \in Recoverers /\ StartRecovery(p)
    BY <2>2 DEF StartRecovery, IndexTypeOK
  <2>3. CASE p \in Recoverers /\ Inspect(p)
    BY <2>3 DEF Inspect, IndexTypeOK
  <2>4. QED
    BY <2>1, <2>2, <2>3, MemoryCases
<1>8. QED
  BY <1>1, <1>3, <1>4, <1>5, <1>6, <1>7

LEMMA LockedRuns == \A p \in Processes : process[p] \in Locked => Running(p)
BY DEF Locked, Running, Over

LEMMA OwnersStep ==
  ASSUME IndexTypeOK, OwnersSound, SeenSound, [IndexNext]_indexVars
  PROVE  OwnersSound'
<1> USE ProcessesAre
<1>1. CASE Lose \/ UNCHANGED indexVars
  BY <1>1, LoseKeeps DEF OwnersSound, Same, Own, Attempt
<1>2. ASSUME NEW p \in Processes, Steps(p) PROVE OwnersSound'
  <2>1. ASSUME NEW q \in Processes \ {p}
        PROVE  /\ process'[q] \in Locked => Same(Own(q))'
               /\ process'[q] \in {"rereading", "deciding", "locking"} \cup Locked =>
                    prior'[q] \in Documents
               /\ process'[q] = "journaling" => update'.journal = NoDoc
               /\ process'[q] \in {"comparing", "writing", "filling", "verifying",
                                   "archiving"} => update'.journal = prior'[q]
    <3>1. process'[q] = process[q] /\ prior'[q] = prior[q] /\ Own(q)' = Own(q)
      BY <1>2, OthersKeep
    <3>2. CASE process[q] \in Locked
      <4>1. Same(Own(q)) /\ update # NoUpdate /\ update.owner = q
        BY <3>2 DEF OwnersSound, Same, Own
      <4>2. ~(Same(Own(p)) /\ (Archive(p) \/ Abandon(p) \/ Journal(p)))
        BY <4>1 DEF Same, Own
      <4>3. ~(p \in Recoverers /\ Rearchive(p))
        <5>1. ASSUME p \in Recoverers, Rearchive(p) PROVE FALSE
          <6>1. process[p] \in Judging /\ process[p] \in Seeing /\ Same(seen[p])
            BY <5>1 DEF Rearchive, Judging, Seeing, Claiming, Restoring
          <6>2. update.owner = seen[p].by /\ ~Running(seen[p].by)
            BY <4>1, <5>1, <6>1 DEF SeenSound, Same
          <6>3. QED
            BY <3>2, <4>1, <6>2, LockedRuns
        <5>2. QED
          BY <5>1
      <4>4. /\ update' # NoUpdate /\ update'.owner = update.owner
            /\ update'.attempt = update.attempt /\ update'.journal = update.journal
        BY <1>2, <4>1, <4>2, <4>3, DirectoryCases
      <4>5. Same(Own(q))'
        BY <3>1, <4>1, <4>4 DEF Same
      <4>6. QED
        BY <3>1, <3>2, <4>4, <4>5 DEF OwnersSound
    <3>3. CASE process[q] \notin Locked
      BY <3>1, <3>3 DEF OwnersSound, Locked
    <3>4. QED
      BY <3>2, <3>3
  <2>2. /\ process'[p] \in Locked => Same(Own(p))'
        /\ process'[p] \in {"rereading", "deciding", "locking"} \cup Locked =>
             prior'[p] \in Documents
        /\ process'[p] = "journaling" => update'.journal = NoDoc
        /\ process'[p] \in {"comparing", "writing", "filling", "verifying",
                            "archiving"} => update'.journal = prior'[p]
    <3>1. CASE Lock(p) /\ process'[p] = "journaling"
      <4>1. update' = Fresh(p) /\ prior' = prior /\ tries' = tries /\ process[p] = "locking"
        BY <3>1, FailIsPhase DEF Lock, Fresh, local
      <4>2. update' # NoUpdate
        BY <4>1, FreshIsDirectory
      <4>3. update'.owner = p /\ update'.attempt = Attempt(p) /\ update'.journal = NoDoc
        BY <4>1 DEF Fresh
      <4>4. QED
        BY <3>1, <4>1, <4>2, <4>3 DEF OwnersSound, Same, Own, Attempt
    <3>2. CASE Journal(p) /\ process'[p] \in {"comparing", "abandoning"}
      <4>1. /\ prior' = prior /\ tries' = tries /\ process[p] = "journaling"
            /\ \/ update' = [update EXCEPT !.journal = prior[p]]
               \/ update' = update /\ Go(p, "abandoning")
        BY <3>2 DEF Journal, local
      <4>2. Same(Own(p)) /\ update # NoUpdate /\ prior[p] \in Documents
        BY <4>1 DEF OwnersSound, Same, Locked
      <4>3. CASE update' = [update EXCEPT !.journal = prior[p]]
        <5>1. update'.journal = prior[p] /\ update' # NoUpdate
              /\ update'.owner = update.owner /\ update'.attempt = update.attempt
          <6>1. update \in Updates
            BY <4>2, UpdateIsRecord
          <6>2. update' \in Updates
            BY <4>2, <4>3, <6>1 DEF Updates
          <6>3. QED
            BY <4>3, <6>1, <6>2, SentinelsAssumption DEF Updates
        <5>2. QED
          BY <3>2, <4>1, <4>2, <5>1 DEF Same, Own, Attempt
      <4>4. CASE update' = update /\ Go(p, "abandoning")
        <5>1. process'[p] = "abandoning"
          BY <4>4, GoIsPhase DEF Phases
        <5>2. QED
          BY <4>1, <4>2, <4>4, <5>1 DEF Same, Own, Attempt
      <4>5. QED
        BY <4>1, <4>3, <4>4
    <3>3. CASE \/ Compare(p) /\ process'[p] \in {"writing", "abandoning"}
               \/ Write(p) /\ process'[p] = "filling"
               \/ Fill(p) /\ process'[p] = "verifying"
               \/ Verify(p) /\ process'[p] = "archiving"
      <4>1. /\ UNCHANGED <<update, prior, tries>>
            /\ process[p] \in {"comparing", "writing", "filling", "verifying"}
        BY <3>3 DEF Compare, Write, Fill, Verify, files, local
      <4>2. QED
        BY <3>3, <4>1 DEF OwnersSound, Same, Own, Attempt, Locked
    <3>4. CASE Read(p) /\ process'[p] \in {"unindexed", "rereading"}
      <4>1. process'[p] = "rereading" => prior'[p] \in Documents
        <5>1. CASE entry \in {TornEntry, NoDoc}
          <6>1. process'[p] # "rereading"
            BY <3>4, <5>1, FailIsPhase, GoIsPhase DEF Read, Phases
          <6>2. QED
            BY <6>1
        <5>2. CASE entry \notin {TornEntry, NoDoc}
          BY <3>4, <5>2 DEF Read, IndexTypeOK
        <5>3. QED
          BY <5>1, <5>2
      <4>2. QED
        BY <3>4, <4>1 DEF Locked
    <3>5. CASE \/ Reread(p) /\ process'[p] \in {"locking", "deciding"}
               \/ DecideRecovery(p) /\ process'[p] = "locking"
      <4>1. prior' = prior /\ process[p] \in {"rereading", "deciding"}
        BY <3>5 DEF Reread, DecideRecovery, local
      <4>2. QED
        BY <3>5, <4>1 DEF OwnersSound, Locked
    <3>6. CASE process'[p] \notin {"rereading", "deciding", "locking"} \cup Locked
      BY <3>6 DEF Locked
    <3>7. QED
      BY <1>2, <3>1, <3>2, <3>3, <3>4, <3>5, <3>6, Arrivals DEF Over, Locked
  <2>3. QED
    BY <2>1, <2>2 DEF OwnersSound
<1>3. QED
  BY <1>1, <1>2, StepCases

LEMMA SeenStep ==
  ASSUME IndexTypeOK, IdsSpent, OwnersSound, SeenSound, [IndexNext]_indexVars
  PROVE  SeenSound'
<1> USE ProcessesAre
<1>1. CASE Lose \/ UNCHANGED indexVars
  BY <1>1, LoseKeeps DEF SeenSound, Same, Running
<1>2. ASSUME NEW p \in Processes, Steps(p), NEW r \in Recoverers
      PROVE  /\ process'[r] \in Seeing =>
                  /\ seen'[r].doc \in Documents
                  /\ Same(seen[r])' =>
                       seen'[r].by = seen'[r].owner /\ update'.journal = seen'[r].doc
             /\ process'[r] \in Judging => ~Running(seen[r].by)'
  <2>1. ASSUME process[r] \in Seeing, seen'[r] = seen[r], Same(seen[r])'
        PROVE  seen'[r].by = seen'[r].owner /\ update'.journal = seen'[r].doc
    <3>1. update' # NoUpdate /\ update'.owner = seen[r].owner
          /\ update'.attempt = seen[r].attempt
      BY <2>1 DEF Same
    <3>2. ~(Lock(p) /\ update' = Fresh(p))
      <4>1. ASSUME Lock(p), update' = Fresh(p) PROVE FALSE
        <5>1. seen[r].owner = p /\ seen[r].attempt = Attempt(p) /\ process[p] = "locking"
          BY <3>1, <4>1 DEF Fresh, Lock
        <5>2. Spent(seen[r])
          BY <2>1 DEF IdsSpent
        <5>3. QED
          BY <5>1, <5>2 DEF Spent, Attempt, Locked, Over, IndexTypeOK
      <4>2. QED
        BY <4>1
    <3>3. /\ update # NoUpdate /\ Same(seen[r])
          /\ \/ update'.journal = update.journal
             \/ Journal(p) /\ Same(Own(p))
      BY <1>2, <3>1, <3>2, DirectoryCases DEF Same
    <3>4. /\ seen[r].by = seen[r].owner /\ update.journal = seen[r].doc
          /\ seen[r].doc \in Documents
      BY <2>1, <3>3 DEF SeenSound
    <3>5. ~Journal(p)
      BY <3>4, SentinelsAssumption DEF Journal, OwnersSound
    <3>6. QED
      BY <2>1, <3>3, <3>4, <3>5
  <2>2. ASSUME process[r] \in Judging, seen'[r] = seen[r] PROVE ~Running(seen[r].by)'
    <3>1. PICK q \in Processes : q = seen[r].by
      BY DEF IndexTypeOK, Sightings
    <3>2. ~Running(q)
      BY <2>2, <3>1 DEF SeenSound
    <3>3. ~Running(q)'
      BY <1>2, <3>2, OthersKeep
    <3>4. QED
      BY <2>2, <3>1, <3>3 DEF Running
  <2>3. CASE p # r
    <3>1. process'[r] = process[r] /\ seen'[r] = seen[r]
      BY <1>2, <2>3, OthersKeep
    <3>2. QED
      BY <2>1, <2>2, <3>1 DEF SeenSound
  <2>4. CASE p = r /\ Inspect(r) /\ process'[r] = "probing"
    <3>1. /\ update # NoUpdate /\ update.journal # NoDoc /\ update' = update
          /\ seen' = [seen EXCEPT ![r].by = update.owner, ![r].doc = update.journal]
      BY <2>4, FailIsPhase DEF Inspect, files
    <3>2. /\ seen'[r].by = update.owner /\ seen'[r].doc = update.journal
          /\ update.journal \in Documents
      BY <3>1, UpdateIsRecord DEF IndexTypeOK, Sightings
    <3>3. QED
      BY <2>4, <3>1, <3>2 DEF Same, Judging, Claiming, Restoring
  <2>5. CASE p = r /\ Probe(r) /\ process'[r] = "claiming"
    <3>1. seen' = seen /\ process[r] = "probing" /\ ~Running(seen[r].by)
      BY <2>5, FailIsPhase DEF Probe, local
    <3>2. PICK q \in Processes : q = seen[r].by
      BY DEF IndexTypeOK, Sightings
    <3>3. ~Running(q)'
      BY <1>2, <3>1, <3>2, OthersKeep
    <3>4. ~Running(seen[r].by)'
      BY <3>1, <3>2, <3>3 DEF Running
    <3>5. process[r] \in Seeing
      BY <3>1 DEF Seeing
    <3>6. QED
      BY <2>1, <3>1, <3>4, <3>5 DEF SeenSound
  <2>6. CASE p = r /\ process[r] \in Judging /\ seen' = seen
    <3>1. process[r] \in Seeing
      BY <2>6 DEF Seeing
    <3>2. QED
      BY <2>1, <2>2, <2>6, <3>1 DEF SeenSound
  <2>7. CASE process'[r] \notin Seeing
    BY <2>7 DEF Seeing
  <2>8. QED
    <3>1. CASE p = r /\ process'[r] \in Claiming
      <4>1. process[r] \in Judging /\ seen' = seen
        BY <1>2, <3>1, Arrivals DEF Claim, Restore, RestoreFilled, RestoreVerified,
           Judging, Claiming, Restoring, Over, local
      <4>2. QED
        BY <2>6, <3>1, <4>1
    <3>2. CASE p = r /\ process'[r] \in {"probing", "claiming"}
      BY <1>2, <2>4, <2>5, <3>2, Arrivals DEF Over
    <3>3. QED
      BY <2>3, <2>7, <3>1, <3>2 DEF Seeing, Judging
<1>3. QED
  BY <1>1, <1>2, StepCases DEF SeenSound

LEMMA ClaimIsKept ==
  ASSUME IndexTypeOK, NEW p \in Processes, Steps(p), update # NoUpdate, update' # NoUpdate
  PROVE  \/ update'.claim = update.claim
         \/ p \in Recoverers /\ Claim(p) /\ update.claim = NoClaim
         \/ p \in Recoverers /\ RestoreFails(p)
<1>1. update \in Updates
  BY UpdateIsRecord
<1>2. CASE update' = update
  BY <1>2
<1>3. CASE update' = [update EXCEPT !.journal = prior[p]]
  BY <1>1, <1>3 DEF Updates
<1>4. CASE p \in Recoverers /\ Claim(p)
  BY <1>4 DEF Claim
<1>5. QED
  BY <1>2, <1>3, <1>4, FilesCases DEF UpdateCases, Rearchive, Lock, Journal, Archive, Abandon

\* The two processes that may be at the directory are its owner and its claimant.
LEMMA DirectoryStays ==
  ASSUME IndexTypeOK, OwnersSound, SeenSound, ClaimsSound, ~strayed,
         NEW p \in Processes, Steps(p), NEW r \in Recoverers, r # p, process[r] \in Claiming
  PROVE  /\ update # NoUpdate /\ update' # NoUpdate /\ Same(seen[r])
         /\ update'.owner = update.owner /\ update'.attempt = update.attempt
         /\ update'.journal = update.journal
         /\ update.claim = r /\ update'.claim = r
         /\ update.owner # p /\ ~Running(update.owner)
<1> USE ProcessesAre
<1>1. Same(seen[r]) /\ update.claim = r /\ update # NoUpdate
  BY DEF ClaimsSound, Same
<1>2. process[r] \in Judging /\ process[r] \in Seeing
  BY DEF Judging, Seeing
<1>3. update.owner = seen[r].by /\ ~Running(update.owner)
  BY <1>1, <1>2 DEF SeenSound, Same
<1>4. update.owner # p
  BY <1>3, EndsStay DEF Running
<1>5. ~(p \in Recoverers /\ Rearchive(p)) /\ ~(p \in Recoverers /\ RestoreFails(p))
  BY <1>1 DEF ClaimsSound, Rearchive, RestoreFails, Claiming, Restoring
<1>6. ~Same(Own(p))
  BY <1>4 DEF Same, Own
<1>7. /\ update' # NoUpdate /\ update'.owner = update.owner
      /\ update'.attempt = update.attempt /\ update'.journal = update.journal
  BY <1>1, <1>5, <1>6, DirectoryCases
<1>8. update'.claim = r
  BY <1>1, <1>5, <1>7, ClaimIsKept
<1>9. QED
  BY <1>1, <1>3, <1>4, <1>7, <1>8

LEMMA ClaimsStep ==
  ASSUME IndexTypeOK, OwnersSound, SeenSound, ClaimsSound, [IndexNext]_indexVars
  PROVE  ClaimsSound'
<1> USE ProcessesAre
<1>1. CASE Lose \/ UNCHANGED indexVars
  BY <1>1, LoseKeeps DEF ClaimsSound, Same
<1>2. ASSUME NEW p \in Processes, Steps(p), ~strayed', NEW r \in Recoverers,
             process'[r] \in Claiming
      PROVE  Same(seen[r])' /\ update'.claim = r
  <2>1. ~strayed
    BY <1>2, MemoryCases DEF Claim
  <2>2. CASE p # r
    <3>1. process'[r] = process[r] /\ seen'[r] = seen[r]
      BY <1>2, <2>2, OthersKeep
    <3>2. QED
      BY <1>2, <2>1, <2>2, <3>1, DirectoryStays DEF Same
  <2>3. CASE p = r /\ Claim(r)
    <3>1. /\ update # NoUpdate /\ update' = [update EXCEPT !.claim = r] /\ seen' = seen
          /\ strayed' = (strayed \/ ~Same(seen[r]))
      BY <1>2, <2>3, FailIsPhase DEF Claim, Claiming, Restoring, local
    <3>2. update \in Updates
      BY <3>1, UpdateIsRecord
    <3>3. update' \in Updates
      BY <3>1, <3>2 DEF Updates
    <3>4. update' # NoUpdate
      BY <3>3, SentinelsAssumption
    <3>5. update'.owner = update.owner /\ update'.attempt = update.attempt /\ update'.claim = r
      BY <3>1, <3>2 DEF Updates
    <3>6. QED
      BY <1>2, <3>1, <3>4, <3>5 DEF Same
  <2>4. CASE p = r /\ (Restore(r) \/ RestoreFilled(r) \/ RestoreVerified(r))
    <3>1. update' = update /\ seen' = seen /\ process[r] \in Claiming
      BY <2>4 DEF Restore, RestoreFilled, RestoreVerified, Claiming, Restoring, files, local
    <3>2. QED
      BY <2>1, <3>1 DEF ClaimsSound, Same
  <2>5. QED
    BY <1>2, <2>2, <2>3, <2>4, Arrivals DEF Claiming, Restoring, Over
<1>3. QED
  BY <1>1, <1>2, StepCases DEF ClaimsSound

\* Nothing is taken before it is published, and a published entry stays.
LEMMA EntryExistsStep ==
  ASSUME IndexTypeOK, OwnersSound, SeenSound, EntryExists, [IndexNext]_indexVars
  PROVE  EntryExists'
<1> USE ProcessesAre
<1>1. CASE Lose \/ UNCHANGED indexVars
  BY <1>1, LoseKeeps DEF EntryExists
<1>2. ASSUME NEW p \in Processes, Steps(p) PROVE EntryExists'
  <2>1. ASSUME entry # NoDoc PROVE entry' # NoDoc
    <3>1. CASE entry' = entry
      BY <2>1, <3>1
    <3>2. CASE p \in Recoverers /\ (Restore(p) \/ RestoreFilled(p))
      <4>1. entry' \in {TornEntry, seen[p].doc} /\ process[p] \in Seeing
        BY <3>2 DEF Restore, RestoreFilled, Filled, Seeing, Judging, Claiming, Restoring
      <4>2. QED
        BY <3>2, <4>1, SentinelsAssumption DEF SeenSound
    <3>3. CASE Write(p) \/ Fill(p)
      <4>1. entry' \in {entry, TornEntry, Changed(p)} /\ process[p] \in Locked
        BY <3>3 DEF Write, Fill, Filled, Locked
      <4>2. Changed(p) \in Documents
        BY <4>1, ChangedIsDocument DEF OwnersSound
      <4>3. QED
        BY <2>1, <4>1, <4>2, SentinelsAssumption
    <3>4. QED
      BY <1>2, <2>1, <3>1, <3>2, <3>3, FilesCases DEF EntryCases
  <2>2. ASSUME update' # NoUpdate PROVE entry' # NoDoc
    <3>1. CASE update # NoUpdate
      BY <2>1, <3>1 DEF EntryExists
    <3>2. CASE Lock(p)
      BY <2>1, <3>2, SentinelsAssumption DEF Lock, OwnersSound, EntryExists
    <3>3. QED
      BY <1>2, <2>2, <3>1, <3>2, DirectoryCases
  <2>3. ASSUME NEW q \in Processes, prior'[q] # NoDoc PROVE entry' # NoDoc
    <3>1. CASE prior' = prior
      BY <2>1, <2>3, <3>1 DEF EntryExists
    <3>2. CASE entry \in Documents
      BY <2>1, <3>2, SentinelsAssumption
    <3>3. QED
      BY <1>2, <3>1, <3>2, MemoryCases
  <2>4. QED
    BY <2>2, <2>3 DEF EntryExists
<1>3. QED
  BY <1>1, <1>2, StepCases

LEMMA PublisherStep ==
  ASSUME IndexTypeOK, PublisherUpdates, [IndexNext]_indexVars
  PROVE  PublisherUpdates'
<1> USE ProcessesAre
<1>1. CASE Lose \/ UNCHANGED indexVars
  BY <1>1, LoseKeeps DEF PublisherUpdates
<1>2. ASSUME NEW p \in Processes, Steps(p), p # Publisher PROVE PublisherUpdates'
  BY <1>2, ProcessStep DEF PublisherUpdates
<1>3. ASSUME Steps(Publisher) PROVE PublisherUpdates'
  BY <1>3, Arrivals DEF PublisherUpdates, Claiming, Restoring, Over
<1>4. QED
  BY <1>1, <1>2, <1>3, StepCases

\* One process at a time holds the directory: its owner, or one that claimed it.
Holds(p) == process[p] \in Locked \cup Claiming

LEMMA HeldIsThere ==
  ASSUME OwnersSound, SeenSound, ClaimsSound, PublisherUpdates, ~strayed,
         NEW p \in Processes, Holds(p)
  PROVE  /\ update # NoUpdate
         /\ \/ process[p] \in Locked /\ Same(Own(p)) /\ update.owner = p /\ Running(update.owner)
            \/ /\ p \in Recoverers /\ process[p] \in Claiming /\ Same(seen[p])
               /\ update.claim = p /\ ~Running(update.owner) /\ update.journal = seen[p].doc
               /\ seen[p].doc \in Documents
<1> USE ProcessesAre
<1>1. CASE process[p] \in Locked
  BY <1>1, LockedRuns DEF OwnersSound, Same, Own
<1>2. CASE process[p] \in Claiming
  <2>1. p \in Recoverers
    BY <1>2 DEF PublisherUpdates
  <2>2. Same(seen[p]) /\ update.claim = p /\ update # NoUpdate
    BY <1>2, <2>1 DEF ClaimsSound, Same
  <2>3. process[p] \in Judging /\ process[p] \in Seeing
    BY <1>2 DEF Judging, Seeing
  <2>4. update.owner = seen[p].by /\ ~Running(seen[p].by) /\ update.journal = seen[p].doc
        /\ seen[p].doc \in Documents
    BY <2>1, <2>2, <2>3 DEF SeenSound, Same
  <2>5. QED
    BY <1>2, <2>1, <2>2, <2>4
<1>3. QED
  BY <1>1, <1>2 DEF Holds

LEMMA HeldByOne ==
  ASSUME OwnersSound, SeenSound, ClaimsSound, PublisherUpdates, ~strayed,
         NEW p \in Processes, NEW q \in Processes, Holds(p), Holds(q)
  PROVE  p = q
BY HeldIsThere

\* It writes alone, so what it writes is never mixed with another's.
LEMMA FilledAlone ==
  ASSUME OwnersSound, SeenSound, ClaimsSound, PublisherUpdates, ~strayed,
         NEW p \in Processes, Holds(p), NEW document
  PROVE  Filled(p, document) = {document}
<1>1. \A q \in Processes \ {p} : process[q] \notin Filling
  BY HeldByOne DEF Holds, Locked, Claiming, Restoring, Filling
<1>2. QED
  BY <1>1 DEF Filled

\* The steps that change the entry or the last acknowledged change.
EntryMoves(p) ==
  \/ UNCHANGED <<entry, latest>>
  \/ entry = NoDoc /\ entry' \in Documents /\ latest' = entry' /\ update' = update
  \/ Holds(p) /\ process[p] = "archiving" /\ Archive(p) /\ update' = NoUpdate
       /\ entry' = entry /\ latest' = Changed(p)
  \/ Holds(p) /\ p \in Recoverers /\ Restore(p) /\ entry' = TornEntry
       /\ UNCHANGED <<update, latest>>
  \/ Holds(p) /\ p \in Recoverers /\ RestoreFilled(p) /\ entry' = seen[p].doc
       /\ UNCHANGED <<update, latest>>
  \/ Holds(p) /\ Write(p) /\ process[p] = "writing" /\ entry' = TornEntry
       /\ process'[p] = "filling" /\ UNCHANGED <<update, latest>>
  \/ Holds(p) /\ Fill(p) /\ process[p] = "filling" /\ entry' = Changed(p)
       /\ process'[p] = "verifying" /\ UNCHANGED <<update, latest>>

LEMMA EntryMovesCases ==
  ASSUME IndexTypeOK, OwnersSound, SeenSound, ClaimsSound, PublisherUpdates, ~strayed,
         NEW p \in Processes, Steps(p)
  PROVE  EntryMoves(p)
<1> USE ProcessesAre
<1>1. CASE UNCHANGED <<entry, latest>>
  BY <1>1 DEF EntryMoves
<1>2. CASE entry' = entry /\ Archive(p)
  <2>1. Holds(p) /\ process[p] = "archiving"
    BY <1>2 DEF Archive, Holds, Locked
  <2>2. Same(Own(p))
    BY <2>1 DEF OwnersSound, Locked
  <2>3. QED
    BY <1>2, <2>1, <2>2 DEF Archive, EntryMoves
<1>3. CASE p = Publisher /\ PublishEntry /\ entry = NoDoc /\ latest' = entry'
             /\ entry' = [primary |-> Publisher, observed |-> "none"]
  <2>1. entry' \in Documents /\ update' = update
    BY <1>3 DEF PublishEntry, Documents
  <2>2. QED
    BY <1>3, <2>1 DEF EntryMoves
<1>4. CASE p \in Recoverers /\ Attach(p) /\ entry = NoDoc /\ latest' = entry'
             /\ entry' = [primary |-> p, observed |-> "failed"]
  <2>1. entry' \in Documents /\ update' = update
    BY <1>4 DEF Attach, Documents
  <2>2. QED
    BY <1>4, <2>1 DEF EntryMoves
<1>5. CASE latest' = latest /\ p \in Recoverers /\ (Restore(p) \/ RestoreFilled(p))
  <2>1. Holds(p)
    BY <1>5 DEF Restore, RestoreFilled, Holds, Claiming, Restoring
  <2>2. QED
    BY <1>5, <2>1, FilledAlone DEF Restore, RestoreFilled, EntryMoves
<1>6. CASE latest' = latest /\ (Write(p) \/ Fill(p))
  <2>1. Holds(p)
    BY <1>6 DEF Write, Fill, Holds, Locked
  <2>2. CASE Write(p)
    <3>1. process[p] = "writing" /\ update' = update
      BY <2>2 DEF Write
    <3>2. entry' = entry \/ (entry' = TornEntry /\ Go(p, "filling"))
      BY <2>2 DEF Write
    <3>3. CASE entry' = TornEntry /\ Go(p, "filling")
      <4>1. process'[p] = "filling"
        BY <3>3, GoIsPhase DEF Phases, Filling
      <4>2. QED
        BY <1>6, <2>1, <2>2, <3>1, <3>3, <4>1 DEF EntryMoves
    <3>4. QED
      BY <1>1, <1>6, <3>2, <3>3
  <2>3. CASE Fill(p)
    <3>1. process[p] = "filling" /\ update' = update
      BY <2>3 DEF Fill
    <3>2. entry' = entry \/ (entry' \in Filled(p, Changed(p)) /\ Go(p, "verifying"))
      BY <2>3 DEF Fill
    <3>3. CASE entry' \in Filled(p, Changed(p)) /\ Go(p, "verifying")
      <4>1. process'[p] = "verifying"
        BY <3>3, GoIsPhase DEF Phases, Filling
      <4>2. entry' = Changed(p)
        BY <2>1, <3>3, FilledAlone
      <4>3. QED
        BY <1>6, <2>1, <2>3, <3>1, <4>1, <4>2 DEF EntryMoves
    <3>4. QED
      BY <1>1, <1>6, <3>2, <3>3
  <2>4. QED
    BY <1>6, <2>2, <2>3
<1>7. QED
  BY <1>1, <1>2, <1>3, <1>4, <1>5, <1>6, FilesCases DEF EntryCases

\* While another process holds the directory, nobody touches the entry.
LEMMA EntryIsHeld ==
  ASSUME IndexTypeOK, OwnersSound, SeenSound, ClaimsSound, PublisherUpdates, EntryExists,
         ~strayed, NEW p \in Processes, Steps(p), NEW q \in Processes, q # p, Holds(q)
  PROVE  UNCHANGED <<entry, latest>>
<1>1. update # NoUpdate /\ entry # NoDoc
  BY HeldIsThere DEF EntryExists
<1>2. ~Holds(p)
  BY HeldByOne
<1>3. QED
  BY <1>1, <1>2, EntryMovesCases DEF EntryMoves

LEMMA EntryStep ==
  ASSUME IndexTypeOK, OwnersSound, SeenSound, ClaimsSound, PublisherUpdates, EntryExists,
         EntrySound, [IndexNext]_indexVars
  PROVE  EntrySound'
<1> USE ProcessesAre
<1>1. CASE Lose \/ UNCHANGED indexVars
  BY <1>1, LoseKeeps DEF EntrySound, Changed
<1>2. ASSUME NEW p \in Processes, Steps(p), ~strayed' PROVE EntrySound'
  <2>1. ~strayed
    BY <1>2, MemoryCases DEF Claim
  <2>2. EntryMoves(p)
    BY <1>2, <2>1, EntryMovesCases
  <2>3. ASSUME NEW q \in Processes,
               process'[q] \in {"journaling", "comparing", "writing", "abandoning"}
        PROVE  entry' # TornEntry
    <3>1. CASE p # q
      <4>1. process'[q] = process[q]
        BY <1>2, <3>1, ProcessStep
      <4>2. Holds(q)
        BY <2>3, <4>1 DEF Holds, Locked
      <4>3. entry' = entry
        BY <1>2, <2>1, <3>1, <4>2, EntryIsHeld
      <4>4. QED
        BY <2>1, <2>3, <4>1, <4>3 DEF EntrySound
    <3>2. CASE p = q /\ Lock(p) /\ process'[p] = "journaling"
      <4>1. update = NoUpdate /\ entry' = entry
        BY <3>2, FailIsPhase DEF Lock
      <4>2. QED
        BY <2>1, <4>1 DEF EntrySound
    <3>3. CASE p = q /\ (Journal(p) \/ Compare(p))
      BY <2>1, <3>3 DEF Journal, Compare, EntrySound, files
    <3>4. QED
      BY <1>2, <2>3, <3>1, <3>2, <3>3, Arrivals DEF Over
  <2>4. ASSUME NEW q \in Processes, process'[q] = "archiving" PROVE entry' = Changed(q)'
    <3>1. CASE p # q
      <4>1. process[q] = "archiving" /\ Holds(q) /\ process[q] \in Locked
        BY <1>2, <2>4, <3>1, ProcessStep DEF Holds, Locked
      <4>2. Changed(q)' = Changed(q)
        BY <1>2, <3>1, <4>1, OthersKeep
      <4>3. entry' = entry
        BY <1>2, <2>1, <3>1, <4>1, EntryIsHeld
      <4>4. QED
        BY <2>1, <4>1, <4>2, <4>3 DEF EntrySound
    <3>2. CASE p = q /\ Verify(p) /\ process'[p] = "archiving"
      <4>1. entry = Changed(p) /\ entry' = entry /\ prior' = prior /\ outcome' = outcome
        BY <3>2, FailIsPhase DEF Verify, files, local
      <4>2. QED
        BY <3>2, <4>1 DEF Changed
    <3>3. QED
      BY <1>2, <2>4, <3>1, <3>2, Arrivals DEF Over
  <2>5. ASSUME NEW r \in Recoverers, process'[r] = "rearchiving" PROVE entry' = seen'[r].doc
    <3>1. CASE p # r
      <4>1. process[r] = "rearchiving" /\ Holds(r)
        BY <1>2, <2>5, <3>1, ProcessStep DEF Holds, Claiming, Restoring
      <4>2. seen'[r] = seen[r]
        BY <1>2, <3>1, OthersKeep
      <4>3. entry' = entry
        BY <1>2, <2>1, <3>1, <4>1, EntryIsHeld
      <4>4. QED
        BY <2>1, <4>1, <4>2, <4>3 DEF EntrySound
    <3>2. CASE p = r /\ RestoreVerified(r)
      BY <3>2 DEF RestoreVerified, files, local
    <3>3. QED
      BY <1>2, <2>5, <3>1, <3>2, Arrivals DEF Over
  <2>6. ASSUME entry' = TornEntry PROVE update' # NoUpdate /\ update'.journal \in Documents
    <3>1. CASE entry' = entry
      <4>1. entry = TornEntry /\ update # NoUpdate /\ update.journal \in Documents
        BY <2>1, <2>6, <3>1 DEF EntrySound
      <4>2. ~(p \in Recoverers /\ Rearchive(p))
        <5>1. ASSUME p \in Recoverers, Rearchive(p) PROVE FALSE
          <6>1. process[p] = "rearchiving" /\ Holds(p) /\ process[p] \notin Locked
            BY <5>1 DEF Rearchive, Holds, Claiming, Restoring, Locked
          <6>2. entry = seen[p].doc
            BY <2>1, <5>1, <6>1 DEF EntrySound
          <6>3. seen[p].doc \in Documents
            BY <2>1, <6>1, HeldIsThere
          <6>4. QED
            BY <4>1, <6>2, <6>3, SentinelsAssumption
        <5>2. QED
          BY <5>1
      <4>3. ~Archive(p)
        <5>1. ASSUME Archive(p) PROVE FALSE
          <6>1. process[p] = "archiving" /\ process[p] \in Locked
            BY <5>1 DEF Archive, Locked
          <6>2. entry = Changed(p) /\ Changed(p) \in Documents
            BY <2>1, <6>1, ChangedIsDocument DEF EntrySound, OwnersSound
          <6>3. QED
            BY <4>1, <6>2, SentinelsAssumption
        <5>2. QED
          BY <5>1
      <4>4. ~Abandon(p)
        BY <2>1, <4>1 DEF Abandon, EntrySound
      <4>5. ~Journal(p)
        BY <2>1, <4>1 DEF Journal, EntrySound
      <4>6. QED
        BY <1>2, <4>1, <4>2, <4>3, <4>4, <4>5, DirectoryCases
    <3>2. CASE Holds(p) /\ p \in Recoverers /\ Restore(p) /\ update' = update
      <4>1. process[p] \notin Locked
        BY <3>2 DEF Restore, Locked
      <4>2. QED
        BY <2>1, <3>2, <4>1, HeldIsThere
    <3>3. CASE Holds(p) /\ Write(p) /\ process[p] = "writing" /\ update' = update
      <4>1. update.journal = prior[p] /\ prior[p] \in Documents
        BY <3>3 DEF OwnersSound, Locked
      <4>2. QED
        BY <2>1, <3>3, <4>1, HeldIsThere
    <3>4. CASE Holds(p) /\ p \in Recoverers /\ RestoreFilled(p) /\ entry' = seen[p].doc
      <4>1. process[p] \notin Locked
        BY <3>4 DEF RestoreFilled, Locked
      <4>2. seen[p].doc \in Documents
        BY <2>1, <3>4, <4>1, HeldIsThere
      <4>3. QED
        BY <2>6, <3>4, <4>2, SentinelsAssumption
    <3>5. CASE process[p] = "filling" /\ entry' = Changed(p)
      <4>1. Changed(p) \in Documents
        BY <3>5, ChangedIsDocument DEF OwnersSound, Locked
      <4>2. QED
        BY <2>6, <3>5, <4>1, SentinelsAssumption
    <3>6. CASE entry' \in Documents
      BY <2>6, <3>6, SentinelsAssumption
    <3>7. QED
      BY <2>2, <3>1, <3>2, <3>3, <3>4, <3>5, <3>6 DEF EntryMoves
  <2>7. QED
    BY <2>3, <2>4, <2>5, <2>6 DEF EntrySound
<1>3. ASSUME NEW p \in Processes, Steps(p), strayed' PROVE EntrySound'
  BY <1>3 DEF EntrySound
<1>4. QED
  BY <1>1, <1>2, <1>3, StepCases

\* A process with a journal it has not confirmed confirms it, gives up or dies.
LEMMA UnconfirmedCases ==
  ASSUME IndexTypeOK, NEW p \in Processes, Steps(p), ~stale',
         process[p] \in {"comparing", "abandoning"}
  PROVE  \/ Compare(p) /\ entry = prior[p]
         \/ Compare(p) /\ process'[p] = "abandoning"
         \/ Abandon(p)
<1> USE ProcessesAre
<1>1. ~Crash(p)
  BY DEF Crash
<1>2. ~(p = Publisher /\ (StartPublishing \/ PublishEntry \/ Observe))
  BY DEF StartPublishing, PublishEntry, Observe
<1>3. ~Recover(p)
  BY DEF Recover, StartRecovery, Inspect, Probe, Claim, Restore, RestoreFilled,
     RestoreVerified, Rearchive, RestoreFails, Ensure, LeaseRefuses, DecideRecovery,
     PassLease, Attach, Restoring
<1>4. Compare(p) \/ Abandon(p)
  BY <1>1, <1>2, <1>3 DEF Steps, Update, Read, Reread, Lock, Journal, Write, Fill, Verify,
     Archive
<1>5. CASE Compare(p) /\ entry # prior[p]
  <2>1. Go(p, "abandoning")
    BY <1>5 DEF Compare
  <2>2. QED
    BY <1>5, <2>1, GoIsPhase DEF Phases
<1>6. QED
  BY <1>4, <1>5

\* A change is acknowledged or rolled back, and nothing else stands in the entry.
LEMMA LatestStep ==
  ASSUME IndexTypeOK, OwnersSound, SeenSound, ClaimsSound, PublisherUpdates, EntryExists,
         EntrySound, LatestKept, [IndexNext]_indexVars
  PROVE  LatestKept'
<1> USE ProcessesAre
<1>1. CASE Lose \/ UNCHANGED indexVars
  BY <1>1, LoseKeeps DEF LatestKept
<1>2. ASSUME NEW p \in Processes, Steps(p), ~strayed', ~stale' PROVE LatestKept'
  <2>1. ~strayed /\ ~stale
    BY <1>2, MemoryCases DEF Claim, Crash
  <2>2. EntryMoves(p)
    BY <1>2, <2>1, EntryMovesCases
  <2>3. ASSUME update' = NoUpdate PROVE entry' = latest'
    <3>1. CASE update = NoUpdate
      <4>1. ~Holds(p)
        BY <2>1, <3>1, HeldIsThere
      <4>2. QED
        BY <2>1, <2>2, <3>1, <4>1 DEF EntryMoves, LatestKept
    <3>2. CASE p \in Recoverers /\ Rearchive(p) /\ update # NoUpdate
      <4>1. process[p] = "rearchiving" /\ Holds(p) /\ process[p] \notin Locked
        BY <3>2 DEF Rearchive, Holds, Claiming, Restoring, Locked
      <4>2. entry = seen[p].doc /\ update.journal = seen[p].doc /\ seen[p].doc \in Documents
        BY <2>1, <3>2, <4>1, HeldIsThere DEF EntrySound
      <4>3. ~Running(update.owner)
        BY <2>1, <4>1, HeldIsThere
      <4>4. update.journal = latest
        BY <2>1, <3>2, <4>2, <4>3, SentinelsAssumption DEF LatestKept, Running, Over
      <4>5. UNCHANGED <<entry, latest>>
        BY <3>2 DEF Rearchive, history
      <4>6. QED
        BY <4>2, <4>4, <4>5
    <3>3. CASE Archive(p) /\ Same(Own(p))
      <4>1. process[p] = "archiving" /\ entry' = entry /\ latest' = Changed(p)
        BY <3>3 DEF Archive
      <4>2. QED
        BY <2>1, <4>1 DEF EntrySound
    <3>4. CASE Abandon(p)
      BY <2>1, <3>4 DEF Abandon, LatestKept, history
    <3>5. QED
      BY <1>2, <2>3, <3>1, <3>2, <3>3, <3>4, DirectoryCases
  <2>4. ASSUME NEW q \in Processes,
               process'[q] \in {"journaling", "comparing", "writing", "abandoning"}
        PROVE  entry' = latest'
    <3>1. CASE p # q
      <4>1. process'[q] = process[q] /\ Holds(q)
        BY <1>2, <2>4, <3>1, ProcessStep DEF Holds, Locked
      <4>2. UNCHANGED <<entry, latest>>
        BY <1>2, <2>1, <3>1, <4>1, EntryIsHeld
      <4>3. QED
        BY <2>1, <2>4, <4>1, <4>2 DEF LatestKept
    <3>2. CASE p = q /\ Lock(p) /\ process'[p] = "journaling"
      <4>1. update = NoUpdate /\ UNCHANGED <<entry, latest>>
        BY <3>2, FailIsPhase DEF Lock, history
      <4>2. QED
        BY <2>1, <4>1 DEF LatestKept
    <3>3. CASE p = q /\ (Journal(p) \/ Compare(p))
      <4>1. UNCHANGED <<entry, latest>> /\ process[p] \in {"journaling", "comparing"}
        BY <3>3 DEF Journal, Compare, files, history
      <4>2. QED
        BY <2>1, <3>3, <4>1 DEF LatestKept
    <3>4. QED
      BY <1>2, <2>4, <3>1, <3>2, <3>3, Arrivals DEF Over
  <2>5. ASSUME update' # NoUpdate
        PROVE  \/ update'.journal \in {NoDoc, latest'}
               \/ process'[update'.owner] \in {"comparing", "abandoning"}
    <3>1. CASE Lock(p) /\ update' = Fresh(p)
      BY <3>1 DEF Fresh
    <3>2. CASE Journal(p) /\ Same(Own(p))
      <4>1. process'[p] \in {"comparing", "abandoning"}
        <5>1. PICK phase \in {"comparing", "abandoning"} : Go(p, phase)
          BY <3>2 DEF Journal
        <5>2. QED
          BY <5>1, GoIsPhase DEF Phases
      <4>2. update # NoUpdate /\ update.owner = p
        BY <3>2 DEF Same, Own
      <4>3. update'.owner = p
        BY <1>2, <2>5, <4>2, DirectoryCases DEF Lock
      <4>4. QED
        BY <4>1, <4>3
    <3>3. CASE /\ update # NoUpdate /\ update'.owner = update.owner
               /\ update'.journal = update.journal
      <4>1. latest' = latest
        BY <2>2, <2>5, <3>3 DEF EntryMoves, EntryExists
      <4>2. CASE update.journal \in {NoDoc, latest}
        BY <3>3, <4>1, <4>2
      <4>3. CASE process[update.owner] \in {"comparing", "abandoning"} /\ update.owner # p
        BY <1>2, <3>3, <4>3, ProcessStep, UpdateIsRecord
      <4>4. CASE process[update.owner] \in {"comparing", "abandoning"} /\ update.owner = p
        <5>1. CASE Compare(p) /\ entry = prior[p]
          <6>1. process[p] = "comparing"
            BY <5>1 DEF Compare
          <6>2. update.journal = prior[p] /\ entry = latest
            BY <2>1, <6>1 DEF OwnersSound, LatestKept
          <6>3. QED
            BY <3>3, <4>1, <5>1, <6>2
        <5>2. CASE process'[p] = "abandoning"
          BY <3>3, <4>4, <5>2
        <5>3. CASE Abandon(p)
          <6>1. process[p] \in Locked
            BY <5>3 DEF Abandon, Locked
          <6>2. Same(Own(p))
            BY <6>1 DEF OwnersSound
          <6>3. QED
            BY <2>5, <5>3, <6>2 DEF Abandon
        <5>4. QED
          BY <1>2, <4>4, <5>1, <5>2, <5>3, UnconfirmedCases
      <4>5. QED
        BY <2>1, <3>3, <4>2, <4>3, <4>4 DEF LatestKept
    <3>4. QED
      BY <1>2, <2>5, <3>1, <3>2, <3>3, DirectoryCases
  <2>6. QED
    BY <2>3, <2>4, <2>5 DEF LatestKept
<1>3. ASSUME NEW p \in Processes, Steps(p), strayed' \/ stale' PROVE LatestKept'
  BY <1>3 DEF LatestKept
<1>4. QED
  BY <1>1, <1>2, <1>3, StepCases

-----------------------------------------------------------------------------
LEMMA IndexInitSound == ASSUME IndexInit PROVE XInv
<1> USE ProcessesAre DEF IndexInit
<1>1. IndexTypeOK
  <2>1. process \in [Processes -> Phases] /\ prior \in [Processes -> Documents \cup {NoDoc}]
    BY DEF Phases
  <2>2. seen \in [Recoverers -> Sightings]
    BY DEF Sightings
  <2>3. /\ entry \in Documents \cup {NoDoc, TornEntry} /\ latest \in Documents \cup {NoDoc}
        /\ update \in Updates \cup {NoUpdate}
        /\ lost \in BOOLEAN /\ stale \in BOOLEAN /\ strayed \in BOOLEAN
    OBVIOUS
  <2>4. tries \in 0..2 /\ outcome \in {"none", "planned", "failed"}
    OBVIOUS
  <2>5. QED
    BY <2>1, <2>2, <2>3, <2>4, Zenon DEF IndexTypeOK
<1>2. IdsSpent
  BY DEF IdsSpent, Seeing, Judging, Claiming, Restoring
<1>3. OwnersSound
  BY DEF OwnersSound, Locked
<1>4. SeenSound /\ ClaimsSound /\ PublisherUpdates
  BY DEF SeenSound, ClaimsSound, PublisherUpdates, Seeing, Judging, Claiming, Restoring
<1>5. EntryExists
  BY DEF EntryExists
<1>6. EntrySound
  BY SentinelsAssumption DEF EntrySound
<1>7. LatestKept
  BY DEF LatestKept
<1>8. QED
  BY <1>1, <1>2, <1>3, <1>4, <1>5, <1>6, <1>7 DEF XInv

LEMMA IndexStepSound == ASSUME XInv, [IndexNext]_indexVars PROVE XInv'
<1> USE DEF XInv
<1>1. IndexTypeOK' /\ IdsSpent' /\ OwnersSound'
  BY IndexTypeStep, SpentStep, OwnersStep
<1>2. SeenSound' /\ ClaimsSound' /\ PublisherUpdates'
  BY SeenStep, ClaimsStep, PublisherStep
<1>3. EntryExists' /\ EntrySound' /\ LatestKept'
  BY EntryExistsStep, EntryStep, LatestStep
<1>4. QED
  BY <1>1, <1>2, <1>3

\* The inductive invariant of the index entry: who holds the directory, what is
\* in its journal, what a recovery saw of it, and what then stands in the entry.
THEOREM IndexInvariant == IndexSpec => []XInv
<1>1. IndexInit => XInv
  BY IndexInitSound
<1>2. XInv /\ [IndexNext]_indexVars => XInv'
  BY IndexStepSound
<1>3. QED
  BY <1>1, <1>2, PTL DEF IndexSpec

\* One writer at a time.
LEMMA WritersHold == ASSUME XInv PROVE WritersHoldUpdate
<1> USE ProcessesAre DEF XInv
<1>1. SUFFICES ASSUME ~strayed PROVE
        /\ \A p \in Processes :
             process[p] = "filling" => update # NoUpdate /\ update.owner = p
        /\ \A r \in Recoverers :
             process[r] = "refilling" =>
               update # NoUpdate /\ update.claim = r /\ ~Running(update.owner)
        /\ Cardinality({p \in Processes : process[p] \in Filling}) <= 1
  BY DEF WritersHoldUpdate
<1>2. ASSUME NEW p \in Processes, process[p] \in Filling PROVE Holds(p)
  BY <1>2 DEF Filling, Holds, Locked, Claiming, Restoring
<1>3. ASSUME NEW p \in Processes, process[p] = "filling"
      PROVE  update # NoUpdate /\ update.owner = p
  <2>1. Holds(p) /\ process[p] \notin Claiming
    BY <1>3 DEF Holds, Locked, Claiming, Restoring
  <2>2. QED
    BY <1>1, <2>1, HeldIsThere
<1>4. ASSUME NEW r \in Recoverers, process[r] = "refilling"
      PROVE  update # NoUpdate /\ update.claim = r /\ ~Running(update.owner)
  <2>1. Holds(r) /\ process[r] \notin Locked
    BY <1>4 DEF Holds, Locked, Claiming, Restoring
  <2>2. QED
    BY <1>1, <2>1, HeldIsThere
<1>5. Cardinality({p \in Processes : process[p] \in Filling}) <= 1
  <2> DEFINE W == {p \in Processes : process[p] \in Filling}
  <2>1. CASE W = {}
    BY <2>1, FS_EmptySet
  <2>2. CASE W # {}
    <3>1. PICK p : p \in W
      BY <2>2
    <3>2. W = {p}
      BY <1>1, <1>2, <3>1, HeldByOne
    <3>3. QED
      <4>1. Cardinality({p}) = 1
        BY FS_Singleton
      <4>2. QED
        BY <3>2, <4>1
  <2>3. QED
    BY <2>1, <2>2
<1>6. QED
  BY <1>3, <1>4, <1>5

\* IndexStaysWhole, for any number of recoveries: two writers never meet, an
\* entry that is being rewritten is journaled, and no acknowledged change is lost.
THEOREM IndexIsWhole == IndexSpec => []IndexStaysWhole
<1>1. XInv => IndexStaysWhole
  <2>1. ASSUME XInv PROVE TornIsJournaled
    BY <2>1, SentinelsAssumption DEF XInv, EntrySound, TornIsJournaled
  <2>2. ASSUME XInv PROVE NothingLost
    BY <2>2 DEF XInv, LatestKept, NothingLost
  <2>3. QED
    BY <2>1, <2>2, WritersHold DEF IndexStaysWhole, XInv
<1>2. QED
  BY <1>1, IndexInvariant, PTL

LEMMA TakenByItself ==
  ASSUME IndexTypeOK, OwnersSound, SeenSound, [IndexNext]_indexVars, NEW q \in Processes,
         update # NoUpdate, update.owner = q, Running(q), update' = NoUpdate \/ update'.owner # q
  PROVE  process[q] \in {"archiving", "abandoning"} /\ process'[q] # process[q]
<1> USE ProcessesAre
<1>1. ~(Lose \/ UNCHANGED indexVars)
  BY LoseKeeps
<1>2. PICK p \in Processes : Steps(p)
  BY <1>1, StepCases
<1>3. ~(p \in Recoverers /\ Rearchive(p))
  <2>1. ASSUME p \in Recoverers, Rearchive(p) PROVE FALSE
    <3>1. process[p] \in Seeing /\ process[p] \in Judging /\ Same(seen[p])
      BY <2>1 DEF Rearchive, Seeing, Judging, Claiming, Restoring
    <3>2. update.owner = seen[p].by /\ ~Running(seen[p].by)
      BY <2>1, <3>1 DEF SeenSound, Same
    <3>3. QED
      BY <3>2
  <2>2. QED
    BY <2>1
<1>4. (Archive(p) \/ Abandon(p)) /\ Same(Own(p))
  BY <1>2, <1>3, DirectoryCases
<1>5. p = q /\ process[p] \in {"archiving", "abandoning"}
  BY <1>4 DEF Same, Own, Archive, Abandon
<1>6. process'[p] \in {"done", "failed", "published"}
  <2>1. Fail(p) \/ Go(p, "done")
    BY <1>4 DEF Archive, Abandon
  <2>2. "done" \in Phases
    BY DEF Phases, Over
  <2>3. QED
    BY <2>1, <2>2, FailIsPhase, GoIsPhase
<1>7. QED
  BY <1>5, <1>6

\* No process that runs loses its update directory but by its own last step on it.
THEOREM DirectoryIsKept == IndexSpec => LiveUpdateKept
<1>1. XInv /\ [IndexNext]_indexVars =>
        [\A p \in Processes :
           update # NoUpdate /\ update.owner = p /\ Running(p)
             /\ (update' = NoUpdate \/ update'.owner # p) =>
               process[p] \in {"archiving", "abandoning"}
                 /\ process'[p] # process[p]]_indexVars
  BY TakenByItself DEF XInv
<1>2. QED
  BY <1>1, IndexInvariant, PTL DEF IndexSpec, LiveUpdateKept

----------------------------------------------------------------------------
(* Both.                                                                   *)

\* A step of the two is a step of one of them, which leaves the other alone.
LEMMA BothAreKept == BothSpec => Spec /\ IndexSpec
<1>1. BothInit => Init /\ IndexInit
  BY DEF BothInit
<1>2. [BothNext]_<<side, vars, indexVars>> => [Next]_vars /\ [IndexNext]_indexVars
  BY DEF BothNext
<1>3. QED
  BY <1>1, <1>2, PTL DEF BothSpec, Spec, IndexSpec

\* OthersAreLeftAlone, for any number of reviewers and recoveries: nothing is
\* written behind a seal or a torn line, and no update directory is taken from
\* the process that lives and owns it.
THEOREM OthersStay == BothSpec => OthersAreLeftAlone
BY BothAreKept, EndIsFinal, DirectoryIsKept, PTL DEF OthersAreLeftAlone

=============================================================================
