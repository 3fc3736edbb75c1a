--------------------------- MODULE Records_proofs ---------------------------
(***************************************************************************)
(* Proofs about the files beside a run: about RunRecord, for any           *)
(* reviewers and verdicts, any length of the mirror's queue, any number of *)
(* failures and of older records and any retention; and about ResultSpool, *)
(* for any number of hosts and spools, any length of the index and any     *)
(* window of a sweep, and any retention that is longer than a review.      *)
(***************************************************************************)
EXTENDS RunRecord, ResultSpool, FiniteSetTheorems, WellFoundedInduction, TLAPS

-----------------------------------------------------------------------------
(***************************************************************************)
(* The records of a run.                                                   *)
(***************************************************************************)
Spoken == {"done", "incomplete", "beat"}
Kept == {"result", "terminal", "missing"}
Kinds == Spoken \cup Kept \cup {"resolution", "completed", "damaged"}
Lines ==
  [kind : Kinds, of : Reviewers \cup {"none", "passed", "findings"} \cup Kinds]

Entries == [from : Sources, line : Lines]
Places == {"reviewing", "keeping", "kept", "ending", "ended", "missed", "sorry", "gone"}

\* The lines of every queue and file, by where they are.
LinesOK ==
  /\ stream \in Seq(Lines) /\ \A i \in DOMAIN stream : stream[i].kind \in Public
  /\ mirror \in Seq(Lines) /\ \A i \in DOMAIN mirror : mirror[i].kind \in Spoken
  /\ appends \in Seq(Entries)
  /\ content \in Seq(Lines)
SweepOK ==
  sweep \in [{Ours, Theirs} -> [step : {"idle", "listing", "removing", "done"}, oldest : 0..Theirs]]

\* How far the run, the persistence of its end and the recorder have come.
EndSound ==
  /\ run \in {"reviewing", "failing"} => final = "no"
  /\ run = "reviewing" => ~broken
  /\ run = "completed" => final = "closed"
  /\ final # "no" => \A r \in Reviewers : at[r] = "gone"
  /\ recorder # "open" => final \in {"closing", "closed", "dropped"} \/ (final = "no" /\ broken)
  /\ final \in {"appending", "closing", "closed", "dropped"} => mirror = <<>> /\ ~inflight

\* What a reviewer that is gone has said, and that the completion says what came of it.
SaidSound ==
  /\ \A r \in Reviewers : at[r] = "gone" => Has(stream, "done", r) \/ Has(stream, "incomplete", r)
  /\ \A i \in DOMAIN content :
       content[i].kind = "completed" => final # "no" /\ content[i].of = Outcome
  /\ \A i \in DOMAIN appends :
       LET entry == appends[i] IN
       /\ entry.from = "mirror" => entry.line.kind \in Spoken /\ inflight
       /\ entry.from = "final" => entry.line = Line("completed", Outcome) /\ final = "appending"
       /\ entry.from \in Reviewers => entry.line.kind \in Kept

\* At most one entry of the mirror and one of the end wait, and the mirror knows of its own.
QueueSound ==
  /\ mirroring = ~gap
  /\ \A i, j \in DOMAIN appends :
       appends[i].from = appends[j].from /\ appends[i].from \in {"mirror", "final"} => i = j
  /\ inflight => \E i \in DOMAIN appends : appends[i].from = "mirror"

\* The stream is in the record, then in the recorder's hands, then in the queue.
Mirrored(n, m) ==
  /\ Holds(content, stream, 1, n)
  /\ Holds(mirror, stream, m + 1, Len(stream))
  /\ \A i \in DOMAIN appends :
       appends[i].from = "mirror" =>
         IF appends[i].line.kind \in Public THEN m = n + 1 /\ appends[i].line = stream[m] ELSE m = n
  /\ ~inflight => m = n

Unharmed == ~gap /\ ~scarred /\ final # "dropped"
DurableSound ==
  /\ Unharmed => ~torn
  /\ Unharmed /\ final \in {"no", "draining", "appending"} =>
       \E n, m \in 0..Len(stream) : Mirrored(n, m)
  /\ Unharmed /\ final \in {"closing", "closed"} =>
       IF run = "completed" THEN Holds(content, stream, 1, Len(stream))
       ELSE Holds(content, Append(stream, Line("completed", Outcome)), 1, Len(stream) + 1)
  /\ required /\ final \in {"appending", "closing", "closed"} /\ run \in {"finishing", "completed"} =>
       ~gap

\* The marker of the record, and what a retention that removes has seen.
OwnedSound ==
  /\ Ours \in owned => recorder \notin {"open", "linking", "marking"}
  /\ required /\ Unharmed =>
       /\ final = "closing" /\ recorder \in {"unlinking", "sweeping"} => Ours \in owned
       /\ final = "closed" => Ours \in owned
RetentionSound ==
  /\ records \subseteq 1..Theirs /\ owned \subseteq 1..Theirs
  /\ Theirs \in owned => sweep[Theirs].step # "idle"
  /\ \A w \in {Ours, Theirs} : sweep[w].step = "removing" =>
       LET o == sweep[w].oldest IN
       /\ o \in owned /\ o # Theirs
       /\ o \in records => Cardinality(Owned) > MaxRuns /\ \A x \in Owned : o <= x

RecordInv ==
  /\ RecordTypeOK /\ LinesOK /\ SweepOK
  /\ EndSound /\ SaidSound /\ QueueSound /\ DurableSound
  /\ OwnedSound /\ RetentionSound

----------------------------------------------------------------------------
(* What a file holds of what was said.                                     *)

LEMMA HoldsOther ==
  ASSUME NEW S, NEW lines \in Seq(S), NEW said, NEW a \in Nat, NEW b \in Nat,
         Holds(lines, said, a, b), NEW x, x.kind \notin Public,
         NEW longer, longer = Append(lines, x)
  PROVE  Holds(longer, said, a, b)
<1>1. PICK f \in [a..b -> DOMAIN lines] :
        /\ \A i, j \in a..b : i < j => f[i] < f[j]
        /\ \A i \in a..b : lines[f[i]] = said[i]
        /\ \A k \in DOMAIN lines : lines[k].kind \in Public => \E i \in a..b : f[i] = k
  BY DEF Holds
<1>2. /\ DOMAIN lines = 1..Len(lines) /\ Len(lines) \in Nat
      /\ DOMAIN longer = 1..(Len(lines) + 1)
      /\ \A k \in 1..Len(lines) : longer[k] = lines[k]
      /\ longer[Len(lines) + 1] = x
  OBVIOUS
<1>3. \A k \in DOMAIN longer : k \in DOMAIN lines \/ k = Len(lines) + 1
  BY <1>2
<1>4. DOMAIN lines \subseteq DOMAIN longer
  BY <1>2
<1>5. f \in [a..b -> DOMAIN longer]
  BY <1>1, <1>4
<1>6. \A i \in a..b : longer[f[i]] = said[i]
  BY <1>1, <1>2
<1>7. \A k \in DOMAIN longer : longer[k].kind \in Public => \E i \in a..b : f[i] = k
  BY <1>1, <1>2, <1>3
<1>8. QED
  BY <1>1, <1>5, <1>6, <1>7 DEF Holds

LEMMA HoldsNext ==
  ASSUME NEW S, NEW lines \in Seq(S), NEW said, NEW a \in Nat, NEW b \in Nat, a <= b + 1,
         Holds(lines, said, a, b), NEW x, x = said[b + 1],
         NEW longer, longer = Append(lines, x)
  PROVE  Holds(longer, said, a, b + 1)
<1>1. PICK f \in [a..b -> DOMAIN lines] :
        /\ \A i, j \in a..b : i < j => f[i] < f[j]
        /\ \A i \in a..b : lines[f[i]] = said[i]
        /\ \A k \in DOMAIN lines : lines[k].kind \in Public => \E i \in a..b : f[i] = k
  BY DEF Holds
<1>2. /\ DOMAIN lines = 1..Len(lines) /\ Len(lines) \in Nat
      /\ DOMAIN longer = 1..(Len(lines) + 1)
      /\ \A k \in 1..Len(lines) : longer[k] = lines[k]
      /\ longer[Len(lines) + 1] = x
  OBVIOUS
<1>3. PICK last \in Nat : last = Len(lines) + 1
  BY <1>2
<1>4. PICK g : g = [i \in a..(b + 1) |-> IF i = b + 1 THEN last ELSE f[i]]
  OBVIOUS
<1>5. \A i \in a..(b + 1) : i = b + 1 \/ (i \in a..b /\ i # b + 1)
  OBVIOUS
<1>6. (b + 1) \in a..(b + 1) /\ \A i \in a..b : i \in a..(b + 1) /\ i # b + 1 /\ i < b + 1
  OBVIOUS
<1>7. /\ g[b + 1] = last /\ \A i \in a..b : g[i] = f[i] /\ f[i] \in DOMAIN lines /\ f[i] < last
  BY <1>1, <1>2, <1>3, <1>4, <1>6
<1>8. /\ \A k \in DOMAIN lines : k \in DOMAIN longer
      /\ last \in DOMAIN longer
      /\ \A k \in DOMAIN longer : k \in DOMAIN lines \/ k = last
  BY <1>2, <1>3
<1>9. g \in [a..(b + 1) -> DOMAIN longer]
  BY <1>4, <1>5, <1>7, <1>8
<1>10. \A i, j \in a..(b + 1) : i < j => g[i] < g[j]
  <2> SUFFICES ASSUME NEW i \in a..(b + 1), NEW j \in a..(b + 1), i < j PROVE g[i] < g[j]
    OBVIOUS
  <2>1. i \in a..b
    OBVIOUS
  <2>2. CASE j = b + 1
    BY <1>7, <2>1, <2>2
  <2>3. CASE j # b + 1
    BY <1>1, <1>5, <1>7, <2>1, <2>3
  <2>4. QED
    BY <2>2, <2>3
<1>11. \A i \in a..(b + 1) : longer[g[i]] = said[i]
  BY <1>1, <1>2, <1>3, <1>5, <1>7
<1>12. \A k \in DOMAIN longer : longer[k].kind \in Public => \E i \in a..(b + 1) : g[i] = k
  BY <1>1, <1>2, <1>6, <1>7, <1>8
<1>13. QED
  BY <1>9, <1>10, <1>11, <1>12 DEF Holds

LEMMA HoldsTail ==
  ASSUME NEW S, NEW lines \in Seq(S), NEW said, NEW a \in Nat, NEW b \in Nat,
         Holds(lines, said, a, b), lines # <<>>
  PROVE  /\ Head(lines).kind \notin Public /\ (\A i \in a..b : said[i].kind \in Public) =>
              Holds(Tail(lines), said, a, b)
         /\ Head(lines).kind \in Public =>
              a <= b /\ said[a] = Head(lines) /\ Holds(Tail(lines), said, a + 1, b)
<1>1. PICK f \in [a..b -> DOMAIN lines] :
        /\ \A i, j \in a..b : i < j => f[i] < f[j]
        /\ \A i \in a..b : lines[f[i]] = said[i]
        /\ \A k \in DOMAIN lines : lines[k].kind \in Public => \E i \in a..b : f[i] = k
  BY DEF Holds
<1>2. PICK rest : rest = Tail(lines)
  OBVIOUS
<1>3. /\ DOMAIN lines = 1..Len(lines) /\ Len(lines) \in Nat /\ 1 \in 1..Len(lines)
      /\ DOMAIN rest = 1..(Len(lines) - 1)
      /\ \A k \in 1..(Len(lines) - 1) : rest[k] = lines[k + 1]
      /\ Head(lines) = lines[1]
  BY <1>2
<1>4. \A i \in a..b : f[i] \in 1..Len(lines)
  BY <1>1, <1>3
\* Behind the head, everything is one place nearer.
<1>5. ASSUME NEW c \in Nat, c >= a, \A i \in c..b : f[i] # 1,
             \A i \in a..b : i \notin c..b => f[i] = 1
      PROVE  Holds(rest, said, c, b)
  <2>1. PICK g : g = [i \in c..b |-> f[i] - 1]
    OBVIOUS
  <2>2. \A i \in c..b : i \in a..b /\ f[i] \in 2..Len(lines) /\ g[i] = f[i] - 1
    BY <1>3, <1>4, <1>5, <2>1
  <2>3. \A i \in c..b : g[i] \in 1..(Len(lines) - 1) /\ g[i] + 1 = f[i]
    <3>1. PICK n \in Nat : n = Len(lines)
      BY <1>3
    <3>2. ASSUME NEW i \in c..b PROVE g[i] \in 1..(n - 1) /\ g[i] + 1 = f[i]
      <4>1. PICK x : x = f[i]
        OBVIOUS
      <4>2. x \in 2..n /\ g[i] = x - 1
        BY <2>2, <3>1, <4>1
      <4>3. x - 1 \in 1..(n - 1) /\ (x - 1) + 1 = x
        BY <4>2
      <4>4. QED
        BY <4>1, <4>2, <4>3
    <3>3. QED
      BY <3>1, <3>2
  <2>4. g \in [c..b -> DOMAIN rest]
    BY <1>3, <2>1, <2>3
  <2>5. \A i, j \in c..b : i < j => g[i] < g[j]
    BY <1>1, <2>2
  <2>6. \A i \in c..b : rest[g[i]] = said[i]
    BY <1>1, <1>3, <2>2, <2>3
  <2>7. ASSUME NEW k \in DOMAIN rest, rest[k].kind \in Public
        PROVE  \E i \in c..b : g[i] = k
    <3>1. k + 1 \in DOMAIN lines /\ lines[k + 1].kind \in Public /\ k + 1 # 1 /\ k \in Nat
      BY <1>3, <2>7
    <3>2. PICK i \in a..b : f[i] = k + 1
      BY <1>1, <3>1
    <3>3. i \in c..b
      BY <1>5, <3>1, <3>2
    <3>4. g[i] = k
      BY <2>3, <3>1, <3>2, <3>3
    <3>5. QED
      BY <3>3, <3>4
  <2>8. QED
    BY <2>4, <2>5, <2>6, <2>7 DEF Holds
<1>6. ASSUME lines[1].kind \notin Public, \A i \in a..b : said[i].kind \in Public
      PROVE  Holds(rest, said, a, b)
  <2>1. \A i \in a..b : f[i] # 1
    BY <1>1, <1>6
  <2>2. QED
    BY <1>5, <2>1
<1>7. ASSUME lines[1].kind \in Public
      PROVE  a <= b /\ said[a] = lines[1] /\ Holds(rest, said, a + 1, b)
  <2>1. PICK i \in a..b : f[i] = 1
    BY <1>1, <1>3, <1>7
  <2>2. a \in a..b /\ a <= b
    OBVIOUS
  <2>3. i = a
    <3>1. i # a => f[a] < f[i]
      BY <1>1, <2>2
    <3>2. f[a] >= 1
      BY <1>3, <1>4, <2>2
    <3>3. QED
      BY <1>3, <1>4, <2>1, <2>2, <3>1, <3>2
  <2>4. said[a] = lines[1]
    BY <1>1, <2>1, <2>3
  <2>5. ASSUME NEW j \in (a + 1)..b PROVE f[j] # 1
    <3>1. j \in a..b /\ a < j
      OBVIOUS
    <3>2. f[a] < f[j] /\ f[a] = 1
      BY <1>1, <2>1, <2>2, <2>3, <3>1
    <3>3. QED
      BY <3>2
  <2>6. \A j \in a..b : j \notin (a + 1)..b => j = a
    OBVIOUS
  <2>7. Holds(rest, said, a + 1, b)
    BY <1>5, <2>1, <2>3, <2>5, <2>6
  <2>8. QED
    BY <2>2, <2>4, <2>7
<1>8. QED
  BY <1>2, <1>3, <1>6, <1>7

\* Only what it is of matters.
LEMMA HoldsSame ==
  ASSUME NEW lines, NEW said, NEW more, NEW a \in Nat, NEW b \in Nat, Holds(lines, said, a, b),
         \A i \in a..b : more[i] = said[i]
  PROVE  Holds(lines, more, a, b)
BY DEF Holds

\* Nothing holds nothing.
LEMMA HoldsNone ==
  ASSUME NEW said, NEW a \in Nat, NEW b \in Nat
  PROVE  /\ a > b => Holds(<<>>, said, a, b)
         /\ Holds(<<>>, said, a, b) => a > b
<1>1. DOMAIN <<>> = {}
  OBVIOUS
<1>2. ASSUME a > b PROVE Holds(<<>>, said, a, b)
  <2>1. a..b = {}
    BY <1>2
  <2>2. [i \in {} |-> 0] \in [{} -> {}]
    OBVIOUS
  <2>3. QED
    BY <1>1, <2>1, <2>2 DEF Holds
<1>3. ASSUME Holds(<<>>, said, a, b) PROVE a > b
  <2>1. PICK f \in [a..b -> {}] : TRUE
    BY <1>1, <1>3 DEF Holds
  <2>2. ~(a <= b)
    <3>1. a <= b => a \in a..b
      OBVIOUS
    <3>2. QED
      BY <2>1, <3>1
  <2>3. QED
    BY <2>2
<1>4. QED
  BY <1>2, <1>3


LEMMA KindsKept ==
  ASSUME NEW s \in Seq(Lines), NEW K, \A i \in DOMAIN s : s[i].kind \in K
  PROVE  /\ \A x \in Lines :
              /\ Append(s, x) \in Seq(Lines) /\ Len(Append(s, x)) = Len(s) + 1
              /\ x.kind \in K => \A i \in DOMAIN Append(s, x) : Append(s, x)[i].kind \in K
         /\ s # <<>> => /\ Tail(s) \in Seq(Lines) /\ Len(Tail(s)) = Len(s) - 1 /\ Head(s) \in Lines
                        /\ Head(s).kind \in K
                        /\ \A i \in DOMAIN Tail(s) : Tail(s)[i].kind \in K
<1>1. DOMAIN s = 1..Len(s) /\ Len(s) \in Nat
  OBVIOUS
<1>2. ASSUME NEW x \in Lines, NEW t, t = Append(s, x)
      PROVE  /\ t \in Seq(Lines) /\ Len(t) = Len(s) + 1
             /\ x.kind \in K => \A i \in DOMAIN t : t[i].kind \in K
  <2>1. /\ t \in Seq(Lines) /\ Len(t) = Len(s) + 1 /\ DOMAIN t = 1..(Len(s) + 1)
        /\ \A i \in 1..Len(s) : t[i] = s[i]
        /\ t[Len(s) + 1] = x
    BY <1>2
  <2>2. \A i \in DOMAIN t : i \in DOMAIN s \/ i = Len(s) + 1
    BY <1>1, <2>1
  <2>3. QED
    BY <1>1, <2>1, <2>2
<1>3. ASSUME s # <<>>, NEW t, t = Tail(s)
      PROVE  /\ t \in Seq(Lines) /\ Len(t) = Len(s) - 1 /\ Head(s) \in Lines /\ Head(s).kind \in K
             /\ \A i \in DOMAIN t : t[i].kind \in K
  <2>1. /\ t \in Seq(Lines) /\ Len(t) = Len(s) - 1 /\ DOMAIN t = 1..(Len(s) - 1)
        /\ \A i \in 1..(Len(s) - 1) : t[i] = s[i + 1] /\ i + 1 \in 1..Len(s)
        /\ Head(s) = s[1] /\ 1 \in 1..Len(s)
    BY <1>3
  <2>2. QED
    BY <1>1, <2>1
<1>4. QED
  BY <1>2, <1>3

----------------------------------------------------------------------------
(* Types.                                                                  *)

LEMMA OutcomeIs ==
  /\ Outcome \in {"passed", "findings", "incomplete"}
  /\ Line("completed", Outcome) \in Lines
<1>1. Outcome \in {"passed", "findings", "incomplete"}
  BY DEF Outcome
<1>2. PICK o : o = Outcome
  OBVIOUS
<1>3. Line("completed", o) \in Lines
  BY <1>1, <1>2 DEF Line, Lines, Kinds, Spoken
<1>4. QED
  BY <1>1, <1>2, <1>3

LEMMA Speaks ==
  ASSUME NEW r \in Reviewers
  PROVE  /\ Line("done", r) \in Lines /\ Line("incomplete", r) \in Lines
         /\ Line("beat", "none") \in Lines
         /\ Line("result", r) \in Lines /\ Line("terminal", r) \in Lines
         /\ Line("missing", r) \in Lines
BY DEF Line, Lines, Kinds, Spoken, Kept

\* A queue of entries stays one.
LEMMA EntriesKept ==
  ASSUME NEW q \in Seq(Entries)
  PROVE  /\ \A i \in DOMAIN q : q[i] \in Entries /\ q[i].from \in Sources /\ q[i].line \in Lines
         /\ \A from \in Sources, line \in Lines :
              Append(q, [from |-> from, line |-> line]) \in Seq(Entries)
         /\ q # <<>> => /\ Tail(q) \in Seq(Entries) /\ Head(q) \in Entries
                        /\ Head(q).from \in Sources /\ Head(q).line \in Lines
<1>1. ASSUME NEW e \in Entries PROVE e.from \in Sources /\ e.line \in Lines
  BY <1>1 DEF Entries
<1>2. \A i \in DOMAIN q : q[i] \in Entries
  OBVIOUS
<1>3. ASSUME NEW from \in Sources, NEW line \in Lines
      PROVE  Append(q, [from |-> from, line |-> line]) \in Seq(Entries)
  <2>1. PICK e : e = [from |-> from, line |-> line]
    OBVIOUS
  <2>2. e \in Entries
    BY <2>1 DEF Entries
  <2>3. Append(q, e) \in Seq(Entries)
    BY <2>2
  <2>4. QED
    BY <2>1, <2>3
<1>4. q # <<>> => Tail(q) \in Seq(Entries) /\ Head(q) \in Entries
  OBVIOUS
<1>5. QED
  BY <1>1, <1>2, <1>3, <1>4

LEMMA EntriesFrom ==
  ASSUME NEW q \in Seq(Entries)
  PROVE  \A i \in DOMAIN q : q[i].from \in Sources
BY EntriesKept

----------------------------------------------------------------------------
(* What the steps do to what is said and kept.  Thirteen of them leave it  *)
(* alone, but for how far the recorder has come.                           *)

Moves ==
  /\ UNCHANGED <<required, verdict, at, run, stream, broken, mirror, inflight, mirroring, gap,
                 appends, content, torn, scarred>>
  /\ final' = final \/ (final = "closing" /\ final' \in {"closed", "dropped"})
  /\ recorder' = recorder \/
       (/\ recorder' \in {"linking", "marking", "unlinking", "sweeping", "closed"}
        /\ recorder # "open" \/ final = "closing" \/ (final = "no" /\ broken))

RecordedAs(r, line, to) ==
  /\ line \in Lines /\ line.kind \in Kept /\ to \in Places \ {"gone"}
  /\ run = "reviewing" /\ at[r] # "gone"
  /\ at' = [at EXCEPT ![r] = to]
  /\ appends' = Append(appends, [from |-> r, line |-> line])
  /\ UNCHANGED <<required, verdict, run, stream, broken, mirror, inflight, mirroring, gap, final,
                 recorder, content, torn, scarred>>

MirrorMoves(line) ==
  \/ ~mirroring /\ UNCHANGED <<mirror, mirroring, gap>>
  \/ MirrorStops
  \/ Len(mirror) < MaxPending /\ mirror' = Append(mirror, line) /\ UNCHANGED <<mirroring, gap>>
Said(line) ==
  /\ line \in Lines /\ line.kind \in Spoken
  /\ run = "reviewing" /\ ~broken
  /\ \/ line.kind = "beat" /\ stream' = stream /\ at' = at
     \/ /\ line.kind \in Public /\ line.kind # "completed" /\ stream' = Append(stream, line)
        /\ \E r \in Reviewers : /\ line \in {Line("done", r), Line("incomplete", r)}
                                /\ at' = [at EXCEPT ![r] = "gone"]
  /\ MirrorMoves(line)
  /\ UNCHANGED <<required, verdict, run, broken, inflight, final, appends, recorder, content, torn,
                 scarred>>

\* The end of a run that fails: its output has broken, or it does not wait any longer.
Fails ==
  /\ \/ run = "reviewing" /\ run' = "failing" /\ broken' = TRUE
     \/ run \in {"finishing", "failing"} /\ run' = "failed" /\ broken' \in {broken, TRUE}
  /\ UNCHANGED <<mirror, mirroring, gap>> \/ MirrorStops
  /\ UNCHANGED <<required, verdict, at, stream, inflight, final, appends, recorder, content, torn,
                 scarred>>

Pumped ==
  /\ mirroring /\ ~inflight /\ mirror # <<>> /\ mirror' = Tail(mirror)
  /\ \/ /\ inflight' = TRUE
        /\ appends' = Append(appends, [from |-> "mirror", line |-> Head(mirror)])
        /\ UNCHANGED <<mirroring, gap>>
     \/ mirroring' = FALSE /\ gap' = TRUE /\ UNCHANGED <<inflight, appends>>
  /\ UNCHANGED <<required, verdict, at, run, stream, broken, final, recorder, content, torn, scarred>>

Began ==
  /\ run = "reviewing" /\ \A r \in Reviewers : at[r] = "gone"
  /\ run' = "finishing" /\ final' = "draining"
  /\ UNCHANGED <<required, verdict, at, stream, broken, mirror, inflight, mirroring, gap, appends,
                 recorder, content, torn, scarred>>

Drained ==
  /\ final = "draining" /\ ~inflight /\ mirror = <<>>
  /\ \/ gap /\ required /\ final' = "dropped" /\ UNCHANGED appends
     \/ /\ ~(gap /\ required) /\ mirroring /\ final' = "appending"
        /\ appends' = Append(appends, [from |-> "final", line |-> Line("completed", Outcome)])
     \/ ~(gap /\ required) /\ ~mirroring /\ final' = "closing" /\ UNCHANGED appends
  /\ UNCHANGED <<required, verdict, at, run, stream, broken, mirror, inflight, mirroring, gap,
                 recorder, content, torn, scarred>>

Completed ==
  /\ run = "finishing" /\ final = "closed"
  /\ stream' = Append(stream, Line("completed", Outcome)) /\ run' = "completed"
  /\ UNCHANGED <<required, verdict, at, broken, mirror, inflight, mirroring, gap, final, appends,
                 recorder, content, torn, scarred>>

WrittenDown(head, ok) ==
  /\ appends # <<>> /\ head = Head(appends) /\ appends' = Tail(appends)
  /\ IF ok THEN Written(head.line) /\ scarred' = scarred
     ELSE /\ content' = content /\ torn' \in {torn, TRUE}
          /\ scarred' = (scarred \/ (torn' /\ head.line.kind \in Kept))
  /\ Told(head.from, ok)
  /\ UNCHANGED <<required, verdict, run, stream, broken, recorder>>

Talk ==
  \/ Moves \/ (\E r \in Reviewers : \E line, to : RecordedAs(r, line, to))
  \/ (\E line : Said(line)) \/ Fails \/ Pumped \/ Began \/ Drained \/ Completed
  \/ (\E head : \E ok \in BOOLEAN : WrittenDown(head, ok))

LEMMA RecordsDo ==
  ASSUME NEW r \in Reviewers,
         KeepsResult(r) \/ RecordsTerminal(r) \/ RecordsIncomplete(r)
  PROVE  \E line, to : RecordedAs(r, line, to)
<1>1. CASE KeepsResult(r)
  <2>1. RecordedAs(r, Line("result", r), "keeping")
    BY <1>1, Speaks
    DEF KeepsResult, Records, RecordedAs, Kept, Line, Places, subject, writer, bytes
  <2>2. QED
    BY <2>1
<1>2. CASE RecordsTerminal(r)
  <2>1. RecordedAs(r, Line("terminal", r), "ending")
    BY <1>2, Speaks
    DEF RecordsTerminal, Records, RecordedAs, Kept, Line, Places, subject, writer, bytes
  <2>2. QED
    BY <2>1
<1>3. CASE RecordsIncomplete(r)
  <2>1. RecordedAs(r, Line("missing", r), "sorry")
    BY <1>3, Speaks
    DEF RecordsIncomplete, Records, RecordedAs, Kept, Line, Places, subject, writer, bytes
  <2>2. QED
    BY <2>1
<1>4. QED
  BY <1>1, <1>2, <1>3

LEMMA MirrorsDo ==
  ASSUME LinesOK, NEW line, Mirrors(line)
  PROVE  MirrorMoves(line)
<1>1. PICK k \in Nat : k = Len(mirror)
  BY DEF LinesOK
<1>2. MaxPending \in Nat
  BY RecordBoundsAssumption
<1>3. ~(k + (IF inflight THEN 1 ELSE 0) >= MaxPending) => k < MaxPending
  BY <1>1, <1>2
<1>4. QED
  BY <1>1, <1>3 DEF Mirrors, MirrorMoves

LEMMA EmitsDo ==
  ASSUME LinesOK, NEW line \in Lines, line.kind \in Spoken, NEW to,
         Emits(line, to),
         \/ line.kind = "beat" /\ to = at
         \/ \E r \in Reviewers : /\ line \in {Line("done", r), Line("incomplete", r)}
                                 /\ to = [at EXCEPT ![r] = "gone"]
  PROVE  Said(line) \/ Fails
<1>1. /\ run = "reviewing" /\ ~broken
      /\ UNCHANGED <<required, verdict, inflight, final, appends, recorder, content, torn, scarred>>
  BY DEF Emits, subject, bytes
<1>2. CASE /\ stream' = IF line.kind = "beat" THEN stream ELSE Append(stream, line)
           /\ Mirrors(line) /\ at' = to
           /\ UNCHANGED <<broken, run>>
  <2>1. MirrorMoves(line)
    BY <1>2, MirrorsDo
  <2>2. \/ line.kind = "beat" /\ stream' = stream /\ at' = at
        \/ /\ line.kind \in Public /\ line.kind # "completed" /\ stream' = Append(stream, line)
           /\ \E r \in Reviewers : /\ line \in {Line("done", r), Line("incomplete", r)}
                                   /\ at' = [at EXCEPT ![r] = "gone"]
    <3>1. \A r \in Reviewers : Line("done", r).kind = "done" /\ Line("incomplete", r).kind = "incomplete"
      BY DEF Line
    <3>2. QED
      BY <1>2, <3>1 DEF Public
  <2>3. QED
    BY <1>1, <1>2, <2>1, <2>2 DEF Said
<1>3. CASE /\ broken' = TRUE /\ run' = "failing"
           /\ UNCHANGED <<stream, mirror, mirroring, gap, at>>
  BY <1>1, <1>3 DEF Fails
<1>4. QED
  BY <1>2, <1>3 DEF Emits

LEMMA SpeaksDo ==
  ASSUME LinesOK,
         EmitsHeartbeat \/ \E r \in Reviewers : EmitsCompleted(r) \/ EmitsIncomplete(r)
  PROVE  Fails \/ \E line : Said(line)
<1>1. CASE EmitsHeartbeat
  <2>1. Emits(Line("beat", "none"), at)
    BY <1>1 DEF EmitsHeartbeat
  <2>2. Line("beat", "none") \in Lines /\ Line("beat", "none").kind = "beat" /\ "beat" \in Spoken
    BY DEF Line, Lines, Spoken, Kinds
  <2>3. Said(Line("beat", "none")) \/ Fails
    BY <2>1, <2>2, EmitsDo
  <2>4. QED
    BY <2>3
<1>2. ASSUME NEW r \in Reviewers, EmitsCompleted(r)
      PROVE  Fails \/ \E line : Said(line)
  <2>1. Emits(Line("done", r), [at EXCEPT ![r] = "gone"])
    BY <1>2 DEF EmitsCompleted
  <2>2. Line("done", r) \in Lines /\ Line("done", r).kind \in Spoken
    BY Speaks DEF Line, Spoken
  <2>3. Said(Line("done", r)) \/ Fails
    BY <2>1, <2>2, EmitsDo
  <2>4. QED
    BY <2>3
<1>3. ASSUME NEW r \in Reviewers, EmitsIncomplete(r)
      PROVE  Fails \/ \E line : Said(line)
  <2>1. Emits(Line("incomplete", r), [at EXCEPT ![r] = "gone"])
    BY <1>3 DEF EmitsIncomplete
  <2>2. Line("incomplete", r) \in Lines /\ Line("incomplete", r).kind \in Spoken
    BY Speaks DEF Line, Spoken
  <2>3. Said(Line("incomplete", r)) \/ Fails
    BY <2>1, <2>2, EmitsDo
  <2>4. QED
    BY <2>3
<1>4. QED
  BY <1>1, <1>2, <1>3

LEMMA OthersMove ==
  /\ FinalCloses \/ CloseBegins \/ Marks \/ Unlinks \/ Closed => Moves
  /\ Links => Moves
  /\ Publishes \/ Scavenges \/ Leaves \/ Crashes => Moves
  /\ \A w : Lists(w) \/ Expires(w) => Moves
<1>1. FinalCloses \/ CloseBegins => Moves
  BY DEF FinalCloses, CloseBegins, Moves, subject, writer, bytes
<1>2. Marks \/ Unlinks => Moves
  BY DEF Marks, Unlinks, Moves, subject, writer, bytes
<1>3. Closed => Moves
  BY DEF Closed, FinalClosed, Moves, subject, writer, bytes
<1>4. ASSUME Links PROVE Moves
  <2>1. /\ UNCHANGED <<required, verdict, at, run, stream, broken, mirror, inflight, mirroring, gap,
                       appends, content, torn, scarred>>
        /\ recorder = "linking"
        /\ recorder' \in {"marking", "closed", "unlinking"}
        /\ final' = final \/ FinalClosed(FALSE)
    BY <1>4 DEF Links, subject, writer, bytes
  <2>2. QED
    BY <2>1 DEF FinalClosed, Moves
<1>5. Scavenges \/ Leaves \/ Crashes => Moves
  BY DEF Scavenges, Scavenged, Leaves, Crashes, Moves, subject, writer, bytes
<1>6. SweepKept => Moves
  BY DEF SweepKept, Moves, subject, writer, bytes
<1>7. QED
  BY <1>1, <1>2, <1>3, <1>4, <1>5, <1>6 DEF Publishes, Lists, Expires

LEMMA EndsDo ==
  /\ Pumps => Pumped
  /\ FinalBegins => Began
  /\ FinalDrained => Drained
  /\ FinalWritten => Completed \/ Fails
  /\ FinalRefused \/ CloseEnds => Fails
  /\ Appended => \E head : \E ok \in BOOLEAN : WrittenDown(head, ok)
<1>1. Pumps => Pumped
  BY DEF Pumps, Pumped, subject, bytes
<1>2. FinalBegins => Began
  BY DEF FinalBegins, Began, subject, writer, bytes
<1>3. FinalDrained => Drained
  BY DEF FinalDrained, Drained, subject, writer, bytes
<1>4. FinalWritten => Completed \/ Fails
  BY DEF FinalWritten, Completed, Fails, subject, bytes
<1>5. FinalRefused \/ CloseEnds => Fails
  BY DEF FinalRefused, CloseEnds, Fails, subject, bytes
<1>6. ASSUME Appended PROVE \E head : \E ok \in BOOLEAN : WrittenDown(head, ok)
  <2>1. PICK head : head = Head(appends)
    OBVIOUS
  <2>2. /\ appends # <<>> /\ appends' = Tail(appends)
        /\ \/ Written(head.line) /\ Told(head.from, TRUE) /\ scarred' = scarred
           \/ /\ torn' \in {torn, TRUE}
              /\ scarred' = (scarred \/ (torn' /\ head.line.kind \in {"terminal", "missing", "result"}))
              /\ Told(head.from, FALSE)
              /\ content' = content
        /\ UNCHANGED <<required, verdict, run, stream, broken, recorder>>
    BY <1>6, <2>1 DEF Appended, subject
  <2>3. {"terminal", "missing", "result"} = Kept
    BY DEF Kept
  <2>4. WrittenDown(head, TRUE) \/ WrittenDown(head, FALSE)
    BY <2>1, <2>2, <2>3 DEF WrittenDown
  <2>5. QED
    BY <2>4
<1>7. QED
  BY <1>1, <1>2, <1>3, <1>4, <1>5, <1>6

LEMMA AllTalk ==
  ASSUME LinesOK, RecordNext
  PROVE  Talk
<1>1. ASSUME Reviewing PROVE Talk
  BY <1>1, RecordsDo, SpeaksDo DEF Reviewing, Talk
<1>2. ASSUME EmitsHeartbeat PROVE Talk
  BY <1>2, SpeaksDo DEF Talk
<1>3. ASSUME Pumps \/ Finishing \/ Timeouts PROVE Talk
  BY <1>3, EndsDo, OthersMove DEF Finishing, Timeouts, Talk
<1>4. ASSUME Recorder \/ Beside PROVE Talk
  BY <1>4, EndsDo, OthersMove DEF Recorder, Beside, Talk
<1>5. ASSUME Scavenges \/ Leaves \/ Crashes PROVE Talk
  BY <1>5, OthersMove DEF Talk
<1>6. QED
  BY <1>1, <1>2, <1>3, <1>4, <1>5 DEF RecordNext

\* A set of natural numbers has a least element.
LEMMA Least ==
  ASSUME NEW S \in SUBSET Nat, S # {}
  PROVE  \E n \in S : \A m \in S : n <= m
<1>1. PICK R : R = OpToRel(<, Nat)
  OBVIOUS
<1>2. IsWellFoundedOn(R, Nat)
  BY <1>1, NatLessThanWellFounded
<1>3. R = {ss \in Nat \X Nat : ss[1] < ss[2]}
  BY <1>1 DEF OpToRel
<1>4. PICK n \in S : \A m \in S : <<m, n>> \notin R
  BY <1>2, WFMin
<1>5. ASSUME NEW m \in S PROVE n <= m
  <2>1. <<m, n>> \in Nat \X Nat /\ <<m, n>>[1] = m /\ <<m, n>>[2] = n
    OBVIOUS
  <2>2. ~(m < n)
    BY <1>3, <1>4, <2>1
  <2>3. QED
    BY <2>2
<1>6. QED
  BY <1>5

LEMMA OwnedFinite ==
  ASSUME records \subseteq 1..Theirs
  PROVE  IsFiniteSet(Owned) /\ Cardinality(Owned) \in Nat
<1>1. IsFiniteSet(1..Theirs)
  BY FS_Interval, RecordBoundsAssumption DEF Theirs
<1>2. Owned \subseteq 1..Theirs
  BY DEF Owned
<1>3. QED
  BY <1>1, <1>2, FS_Subset, FS_CardinalityType

\* The oldest of more owned records than are to be kept.
LEMMA OldestOwned ==
  ASSUME records \subseteq 1..Theirs, owned \subseteq 1..Theirs, Cardinality(Owned) > MaxRuns
  PROVE  /\ IsFiniteSet(Owned) /\ Min(Owned) \in Owned /\ \A x \in Owned : Min(Owned) <= x
         /\ Min(Owned) \in 0..Theirs /\ Min(Owned) # Theirs
         /\ Cardinality(Owned \ {Min(Owned)}) >= MaxRuns
<1>1. Theirs \in Nat /\ MaxRuns \in Nat \ {0}
  BY RecordBoundsAssumption DEF Theirs
<1>2. PICK S : S = Owned
  OBVIOUS
<1>3. S \subseteq 1..Theirs
  BY <1>2 DEF Owned
<1>4. IsFiniteSet(S)
  <2>1. IsFiniteSet(1..Theirs)
    BY <1>1, FS_Interval
  <2>2. QED
    BY <1>3, <2>1, FS_Subset
<1>5. Cardinality(S) \in Nat /\ S # {}
  BY <1>1, <1>2, <1>4, FS_CardinalityType, FS_EmptySet
<1>6. \E x \in S : \A y \in S : x <= y
  BY <1>3, <1>5, Least
<1>7. PICK o : o = Min(S)
  OBVIOUS
<1>8. o \in S /\ \A y \in S : o <= y
  BY <1>6, <1>7 DEF Min
<1>9. Cardinality(S \ {o}) = Cardinality(S) - 1
  BY <1>4, <1>8, FS_RemoveElement
<1>10. o # Theirs
  <2>1. S \ {o} # {}
    <3>1. Cardinality(S \ {o}) # 0
      BY <1>1, <1>2, <1>5, <1>9
    <3>2. QED
      BY <3>1, FS_EmptySet
  <2>2. PICK y \in S : y # o
    BY <2>1
  <2>3. o <= y /\ y <= Theirs /\ o \in Nat /\ y \in Nat
    BY <1>1, <1>3, <1>8, <2>2
  <2>4. QED
    BY <1>1, <2>2, <2>3
<1>11. Cardinality(S \ {o}) >= MaxRuns
  BY <1>1, <1>2, <1>5, <1>9
<1>12. o \in 0..Theirs
  BY <1>1, <1>3, <1>8
<1>13. QED
  BY <1>2, <1>4, <1>7, <1>8, <1>10, <1>11, <1>12



----------------------------------------------------------------------------
(* Types.                                                                  *)

TalkTypes ==
  /\ required \in BOOLEAN /\ verdict \in Verdicts /\ at \in [Reviewers -> Places]
  /\ run \in {"reviewing", "finishing", "failing", "completed", "failed"}
  /\ broken \in BOOLEAN /\ mirroring \in BOOLEAN /\ gap \in BOOLEAN
  /\ Len(mirror) <= MaxPending
  /\ final \in {"no", "draining", "appending", "closing", "closed", "dropped"}
  /\ \A i \in DOMAIN appends : appends[i].from \in Sources
  /\ recorder \in {"open", "linking", "marking", "unlinking", "sweeping", "closed"}
  /\ torn \in BOOLEAN /\ scarred \in BOOLEAN
DiskTypes ==
  /\ alive \in BOOLEAN /\ active \in BOOLEAN
  /\ records \subseteq 1..Theirs /\ owned \subseteq 1..Theirs
  /\ beats \in 0..MaxBeats /\ faults \in 0..MaxFaults

LEMMA TwoTypes ==
  /\ RecordTypeOK <=> TalkTypes /\ DiskTypes
  /\ RecordTypeOK' <=> TalkTypes' /\ DiskTypes'
BY DEF RecordTypeOK, TalkTypes, DiskTypes, Places

LEMMA NoLines == /\ <<>> \in Seq(Lines) /\ Len(<<>>) <= MaxPending /\ DOMAIN <<>> = {}
<1>1. MaxPending \in Nat /\ Len(<<>>) = 0
  BY RecordBoundsAssumption
<1>2. QED
  BY <1>1

LEMMA MoveTypes ==
  ASSUME TalkTypes, LinesOK, Moves
  PROVE  TalkTypes' /\ LinesOK'
<1>1. TalkTypes'
  BY DEF TalkTypes, Moves
<1>2. LinesOK'
  BY DEF LinesOK, Moves
<1>3. QED
  BY <1>1, <1>2

LEMMA RecordedTypes ==
  ASSUME TalkTypes, LinesOK, NEW r \in Reviewers, NEW line, NEW to, RecordedAs(r, line, to)
  PROVE  TalkTypes' /\ LinesOK'
<1>1. r \in Sources /\ line \in Lines /\ to \in Places
  BY DEF Sources, RecordedAs
<1>2. appends' \in Seq(Entries)
  BY <1>1, EntriesKept DEF LinesOK, RecordedAs
<1>3. \A i \in DOMAIN appends' : appends'[i].from \in Sources
  BY <1>2, EntriesFrom
<1>4. at' \in [Reviewers -> Places]
  BY <1>1 DEF TalkTypes, RecordedAs
<1>5. TalkTypes'
  BY <1>3, <1>4 DEF TalkTypes, RecordedAs
<1>6. LinesOK'
  BY <1>2 DEF LinesOK, RecordedAs
<1>7. QED
  BY <1>5, <1>6

LEMMA SaidTypes ==
  ASSUME TalkTypes, LinesOK, NEW line, Said(line)
  PROVE  TalkTypes' /\ LinesOK'
<1>1. line \in Lines /\ line.kind \in Spoken
  BY DEF Said
<1>2. stream' = stream \/ (line.kind \in Public /\ stream' = Append(stream, line))
  BY DEF Said
<1>3. stream \in Seq(Lines) /\ \A i \in DOMAIN stream : stream[i].kind \in Public
  BY DEF LinesOK
<1>4. mirror \in Seq(Lines) /\ \A i \in DOMAIN mirror : mirror[i].kind \in Spoken
  BY DEF LinesOK
<1>5. stream' \in Seq(Lines) /\ \A i \in DOMAIN stream' : stream'[i].kind \in Public
  BY <1>1, <1>2, <1>3, KindsKept
<1>6. /\ mirror' \in Seq(Lines) /\ \A i \in DOMAIN mirror' : mirror'[i].kind \in Spoken
      /\ Len(mirror') <= MaxPending
  <2>1. CASE mirror' = mirror
    BY <1>4, <2>1 DEF TalkTypes
  <2>2. CASE mirror' = <<>>
    BY <2>2, NoLines
  <2>3. CASE Len(mirror) < MaxPending /\ mirror' = Append(mirror, line)
    <3>1. Len(mirror) \in Nat /\ Len(mirror) + 1 <= MaxPending
      BY <1>4, <2>3, RecordBoundsAssumption
    <3>2. QED
      BY <1>1, <1>4, <2>3, <3>1, KindsKept
  <2>4. QED
    BY <2>1, <2>2, <2>3 DEF Said, MirrorMoves, MirrorStops
<1>7. at' \in [Reviewers -> Places]
  BY DEF Said, TalkTypes, Places
<1>8. mirroring' \in BOOLEAN /\ gap' \in BOOLEAN
  BY DEF Said, MirrorMoves, MirrorStops, TalkTypes
<1>9. TalkTypes'
  BY <1>6, <1>7, <1>8 DEF TalkTypes, Said
<1>10. LinesOK'
  BY <1>5, <1>6 DEF LinesOK, Said
<1>11. QED
  BY <1>9, <1>10

LEMMA FailsTypes ==
  ASSUME TalkTypes, LinesOK, Fails
  PROVE  TalkTypes' /\ LinesOK'
<1>1. /\ mirror' \in {mirror, <<>>} /\ mirroring' \in BOOLEAN /\ gap' \in BOOLEAN
      /\ broken' \in BOOLEAN /\ run' \in {"failing", "failed"}
  BY DEF Fails, MirrorStops, TalkTypes
<1>2. /\ mirror' \in Seq(Lines) /\ \A i \in DOMAIN mirror' : mirror'[i].kind \in Spoken
      /\ Len(mirror') <= MaxPending
  BY <1>1, NoLines DEF LinesOK, TalkTypes
<1>3. TalkTypes'
  BY <1>1, <1>2 DEF TalkTypes, Fails
<1>4. LinesOK'
  BY <1>2 DEF LinesOK, Fails
<1>5. QED
  BY <1>3, <1>4

LEMMA PumpedTypes ==
  ASSUME TalkTypes, LinesOK, Pumped
  PROVE  TalkTypes' /\ LinesOK'
<1>1. mirror \in Seq(Lines) /\ mirror # <<>> /\ \A i \in DOMAIN mirror : mirror[i].kind \in Spoken
  BY DEF Pumped, LinesOK
<1>2. /\ Tail(mirror) \in Seq(Lines) /\ Len(Tail(mirror)) = Len(mirror) - 1 /\ Head(mirror) \in Lines
      /\ \A i \in DOMAIN Tail(mirror) : Tail(mirror)[i].kind \in Spoken
  BY <1>1, KindsKept
<1>3. Len(Tail(mirror)) <= MaxPending
  <2>1. Len(mirror) \in Nat /\ Len(mirror) <= MaxPending /\ MaxPending \in Nat
    BY <1>1, RecordBoundsAssumption DEF TalkTypes
  <2>2. QED
    BY <1>2, <2>1
<1>4. appends' \in Seq(Entries)
  <2>1. "mirror" \in Sources
    BY DEF Sources
  <2>2. appends' \in {appends, Append(appends, [from |-> "mirror", line |-> Head(mirror)])}
    BY DEF Pumped
  <2>3. QED
    BY <1>2, <2>1, <2>2, EntriesKept DEF LinesOK
<1>5. \A i \in DOMAIN appends' : appends'[i].from \in Sources
  BY <1>4, EntriesFrom
<1>6. TalkTypes'
  <2>1. /\ mirror' = Tail(mirror) /\ mirroring' \in BOOLEAN /\ gap' \in BOOLEAN
        /\ UNCHANGED <<required, verdict, at, run, broken, final, recorder, torn, scarred>>
    BY DEF Pumped, TalkTypes
  <2>2. QED
    BY <1>3, <1>5, <2>1 DEF TalkTypes
<1>7. LinesOK'
  BY <1>2, <1>4 DEF LinesOK, Pumped
<1>8. QED
  BY <1>6, <1>7

LEMMA EndTypes ==
  ASSUME TalkTypes, LinesOK, Began \/ Drained \/ Completed
  PROVE  TalkTypes' /\ LinesOK'
<1>1. appends' \in Seq(Entries)
  <2>1. "final" \in Sources
    BY DEF Sources
  <2>2. appends' \in {appends, Append(appends, [from |-> "final", line |-> Line("completed", Outcome)])}
    BY DEF Began, Drained, Completed
  <2>3. QED
    BY <2>1, <2>2, OutcomeIs, EntriesKept DEF LinesOK
<1>2. \A i \in DOMAIN appends' : appends'[i].from \in Sources
  BY <1>1, EntriesFrom
<1>3. stream' \in Seq(Lines) /\ \A i \in DOMAIN stream' : stream'[i].kind \in Public
  <2>1. PICK x \in Lines : x = Line("completed", Outcome)
    BY OutcomeIs
  <2>2. x.kind \in Public
    BY <2>1 DEF Line, Public
  <2>3. stream' = stream \/ stream' = Append(stream, x)
    BY <2>1 DEF Began, Drained, Completed
  <2>4. stream \in Seq(Lines) /\ \A i \in DOMAIN stream : stream[i].kind \in Public
    BY DEF LinesOK
  <2>5. QED
    BY <2>2, <2>3, <2>4, KindsKept
<1>4. /\ UNCHANGED <<required, verdict, at, broken, mirror, mirroring, gap, recorder, content,
                     torn, scarred>>
      /\ run' \in {run, "finishing", "completed"}
      /\ final' \in {final, "draining", "dropped", "appending", "closing"}
  BY DEF Began, Drained, Completed
<1>5. TalkTypes'
  BY <1>2, <1>4 DEF TalkTypes
<1>6. LinesOK'
  BY <1>1, <1>3, <1>4 DEF LinesOK
<1>7. QED
  BY <1>5, <1>6

LEMMA WrittenTypes ==
  ASSUME TalkTypes, LinesOK, NEW head, NEW ok \in BOOLEAN, WrittenDown(head, ok)
  PROVE  TalkTypes' /\ LinesOK'
<1>1. appends \in Seq(Entries) /\ appends # <<>> /\ head = Head(appends) /\ appends' = Tail(appends)
  BY DEF WrittenDown, LinesOK
<1>2. head.from \in Sources /\ head.line \in Lines /\ appends' \in Seq(Entries)
  BY <1>1, EntriesKept
<1>3. \A i \in DOMAIN appends' : appends'[i].from \in Sources
  BY <1>2, EntriesFrom
<1>4. Told(head.from, ok)
  BY DEF WrittenDown
<1>5. /\ mirror' \in {mirror, <<>>} /\ mirroring' \in BOOLEAN /\ gap' \in BOOLEAN
      /\ final' \in {final, "closing", "dropped"}
  BY <1>4 DEF Told, MirrorStops, TalkTypes
<1>6. at' \in [Reviewers -> Places]
  BY <1>4 DEF Told, TalkTypes, Places
<1>7. content' \in Seq(Lines)
  <2>1. content \in Seq(Lines)
    BY DEF LinesOK
  <2>2. Damaged(head.line) \in Lines
    BY <1>2 DEF Damaged, Line, Lines, Kinds
  <2>3. content' \in {content, Append(content, head.line), Append(content, Damaged(head.line))}
    BY DEF WrittenDown, Written
  <2>4. QED
    BY <1>2, <2>1, <2>2, <2>3
<1>8. torn' \in BOOLEAN /\ scarred' \in BOOLEAN
  BY DEF WrittenDown, Written, TalkTypes
<1>9. /\ mirror' \in Seq(Lines) /\ \A i \in DOMAIN mirror' : mirror'[i].kind \in Spoken
      /\ Len(mirror') <= MaxPending
  <2>1. CASE mirror' = mirror
    BY <2>1 DEF LinesOK, TalkTypes
  <2>2. CASE mirror' = <<>>
    BY <2>2, NoLines
  <2>3. QED
    BY <1>5, <2>1, <2>2
<1>10. /\ UNCHANGED <<required, verdict, run, stream, broken, recorder>>
  BY DEF WrittenDown
<1>11. TalkTypes'
  BY <1>3, <1>5, <1>6, <1>8, <1>9, <1>10 DEF TalkTypes
<1>12. LinesOK'
  BY <1>2, <1>7, <1>9, <1>10 DEF LinesOK
<1>13. QED
  BY <1>11, <1>12

LEMMA TalkTyped ==
  ASSUME TalkTypes, LinesOK, Talk
  PROVE  TalkTypes' /\ LinesOK'
BY MoveTypes, RecordedTypes, SaidTypes, FailsTypes, PumpedTypes, EndTypes, WrittenTypes
  DEF Talk


----------------------------------------------------------------------------
(* The disk and the retention.                                             *)

LEMMA Times ==
  /\ Ours \in 1..Theirs /\ Theirs \in 1..Theirs /\ Ours # Theirs /\ Theirs \in Nat /\ 0 \in 0..Theirs
  /\ Ours < Theirs
BY RecordBoundsAssumption DEF Ours, Theirs

\* What each step does to the directory.
DiskStays == UNCHANGED <<records, owned, sweep>>
Links1 == recorder = "linking" /\ records' = records \cup {Ours} /\ UNCHANGED <<owned, sweep>>
DiskMoves ==
  \/ DiskStays \/ Links1 \/ Marks \/ Unlinks \/ Publishes
  \/ \E w \in {Ours, Theirs} : Lists(w) \/ Expires(w)

LEMMA Counts ==
  ASSUME RecordNext
  PROVE  /\ alive' \in {alive, FALSE} /\ active' \in {active, FALSE}
         /\ beats' = beats \/ (beats < MaxBeats /\ beats' = beats + 1)
         /\ faults' = faults \/ (faults < MaxFaults /\ faults' = faults + 1)
<1>1. alive' \in {alive, FALSE}
  BY
    DEF RecordNext, Reviewing, Finishing, Timeouts, Recorder, Beside, KeepsResult,
        RecordsTerminal,
         RecordsIncomplete, Records, EmitsCompleted, EmitsIncomplete, EmitsHeartbeat, Emits, Pumps,
         FinalBegins, FinalDrained, FinalCloses, FinalWritten, FinalRefused, CloseBegins, CloseEnds,
         Appended, Links, Marks, Unlinks, Closed, Publishes, Lists, Expires, SweepKept, Scavenges,
         Scavenged, Leaves, Crashes
<1>2. active' \in {active, FALSE}
  BY
    DEF RecordNext, Reviewing, Finishing, Timeouts, Recorder, Beside, KeepsResult,
        RecordsTerminal,
         RecordsIncomplete, Records, EmitsCompleted, EmitsIncomplete, EmitsHeartbeat, Emits, Pumps,
         FinalBegins, FinalDrained, FinalCloses, FinalWritten, FinalRefused, CloseBegins, CloseEnds,
         Appended, Links, Marks, Unlinks, Closed, Publishes, Lists, Expires, SweepKept, Scavenges,
         Scavenged, Leaves, Crashes, directory
<1>3. beats' = beats \/ (beats < MaxBeats /\ beats' = beats + 1)
  BY
    DEF RecordNext, Reviewing, Finishing, Timeouts, Recorder, Beside, KeepsResult,
        RecordsTerminal,
         RecordsIncomplete, Records, EmitsCompleted, EmitsIncomplete, EmitsHeartbeat, Emits, Pumps,
         FinalBegins, FinalDrained, FinalCloses, FinalWritten, FinalRefused, CloseBegins, CloseEnds,
         Appended, Links, Marks, Unlinks, Closed, Publishes, Lists, Expires, SweepKept, Scavenges,
         Scavenged, Leaves, Crashes
<1>4. faults' = faults \/ (faults < MaxFaults /\ faults' = faults + 1)
  BY
    DEF RecordNext, Reviewing, Finishing, Timeouts, Recorder, Beside, KeepsResult,
        RecordsTerminal,
         RecordsIncomplete, Records, EmitsCompleted, EmitsIncomplete, EmitsHeartbeat, Emits, Pumps,
         FinalBegins, FinalDrained, FinalCloses, FinalWritten, FinalRefused, CloseBegins, CloseEnds,
         Appended, Links, Marks, Unlinks, Closed, Publishes, Lists, Expires, SweepKept, Scavenges,
         Scavenged, Leaves, Crashes
<1>5. QED
  BY <1>1, <1>2, <1>3, <1>4

LEMMA DiskDo ==
  ASSUME RecordNext
  PROVE  DiskMoves
<1>1. CASE Reviewing \/ EmitsHeartbeat \/ Pumps \/ Finishing \/ Timeouts
  <2>1. DiskStays
    BY <1>1
      DEF Reviewing, Finishing, Timeouts, KeepsResult, RecordsTerminal, RecordsIncomplete,
                Records, EmitsCompleted, EmitsIncomplete, EmitsHeartbeat, Emits, Pumps, FinalBegins,
                FinalDrained, FinalCloses, FinalWritten, FinalRefused, CloseBegins, CloseEnds,
                directory, DiskStays
  <2>2. QED
    BY <2>1 DEF DiskMoves
<1>2. CASE Appended \/ Closed \/ Scavenges \/ Leaves \/ Crashes
  <2>1. DiskStays
    BY <1>2 DEF Appended, Closed, Scavenges, Scavenged, Leaves, Crashes, directory, DiskStays
  <2>2. QED
    BY <2>1 DEF DiskMoves
<1>3. CASE Links
  <2>1. DiskStays \/ Links1
    BY <1>3 DEF Links, Links1, DiskStays
  <2>2. QED
    BY <2>1 DEF DiskMoves
<1>4. QED
  BY <1>1, <1>2, <1>3 DEF RecordNext, Recorder, Beside, DiskMoves

LEMMA DiskTyped ==
  ASSUME DiskTypes, SweepOK, RecordNext
  PROVE  DiskTypes' /\ SweepOK'
<1>1. alive' \in BOOLEAN /\ active' \in BOOLEAN
  BY Counts DEF DiskTypes
<1>2. beats' \in 0..MaxBeats
  <2>1. beats \in 0..MaxBeats /\ MaxBeats \in Nat
    BY RecordBoundsAssumption DEF DiskTypes
  <2>2. QED
    BY <2>1, Counts
<1>3. faults' \in 0..MaxFaults
  <2>1. faults \in 0..MaxFaults /\ MaxFaults \in Nat
    BY RecordBoundsAssumption DEF DiskTypes
  <2>2. QED
    BY <2>1, Counts
<1>4. records' \subseteq 1..Theirs /\ owned' \subseteq 1..Theirs /\ SweepOK'
  <2>1. CASE DiskStays
    BY <2>1 DEF DiskStays, DiskTypes, SweepOK
  <2>2. CASE Links1
    BY <2>2, Times DEF Links1, DiskTypes, SweepOK
  <2>3. CASE Marks
    BY <2>3, Times DEF Marks, DiskTypes, SweepOK
  <2>4. CASE Unlinks
    BY <2>4, Times DEF Unlinks, DiskTypes, SweepOK
  <2>5. CASE Publishes
    BY <2>5, Times DEF Publishes, DiskTypes, SweepOK
  <2>6. ASSUME NEW w \in {Ours, Theirs}, Lists(w)
        PROVE  records' \subseteq 1..Theirs /\ owned' \subseteq 1..Theirs /\ SweepOK'
    <3>1. Cardinality(Owned) <= MaxRuns \/ Min(Owned) \in 0..Theirs
      <4>1. Cardinality(Owned) > MaxRuns => Min(Owned) \in 0..Theirs
        BY OldestOwned DEF DiskTypes
      <4>2. Cardinality(Owned) \in Nat /\ MaxRuns \in Nat
        BY OwnedFinite, RecordBoundsAssumption DEF DiskTypes
      <4>3. QED
        BY <4>1, <4>2
    <3>2. PICK s \in [step : {"idle", "listing", "removing", "done"}, oldest : 0..Theirs] :
            sweep' = [sweep EXCEPT ![w] = s]
      <4>1. CASE Cardinality(Owned) <= MaxRuns
        <5>1. PICK s : s = [step |-> "done", oldest |-> 0]
          OBVIOUS
        <5>2. s \in [step : {"idle", "listing", "removing", "done"}, oldest : 0..Theirs]
          BY <5>1, Times
        <5>3. sweep' = [sweep EXCEPT ![w] = s]
          BY <2>6, <4>1, <5>1 DEF Lists
        <5>4. QED
          BY <5>2, <5>3
      <4>2. CASE ~(Cardinality(Owned) <= MaxRuns)
        <5>1. PICK s : s = [step |-> "removing", oldest |-> Min(Owned)]
          OBVIOUS
        <5>2. s \in [step : {"idle", "listing", "removing", "done"}, oldest : 0..Theirs]
          BY <3>1, <4>2, <5>1
        <5>3. sweep' = [sweep EXCEPT ![w] = s]
          BY <2>6, <4>2, <5>1 DEF Lists
        <5>4. QED
          BY <5>2, <5>3
      <4>3. QED
        BY <4>1, <4>2
    <3>3. QED
      BY <2>6, <3>2 DEF Lists, DiskTypes, SweepOK
  <2>7. ASSUME NEW w \in {Ours, Theirs}, Expires(w)
        PROVE  records' \subseteq 1..Theirs /\ owned' \subseteq 1..Theirs /\ SweepOK'
    BY <2>7, Times DEF Expires, DiskTypes, SweepOK
  <2>8. QED
    BY <2>1, <2>2, <2>3, <2>4, <2>5, <2>6, <2>7, DiskDo DEF DiskMoves
<1>5. QED
  BY <1>1, <1>2, <1>3, <1>4 DEF DiskTypes

LEMMA RecordTypes ==
  ASSUME RecordTypeOK, LinesOK, SweepOK, RecordNext
  PROVE  RecordTypeOK' /\ LinesOK' /\ SweepOK'
<1>1. TalkTypes /\ DiskTypes
  BY TwoTypes
<1>2. TalkTypes' /\ LinesOK'
  BY <1>1, AllTalk, TalkTyped
<1>3. DiskTypes' /\ SweepOK'
  BY <1>1, DiskTyped
<1>4. QED
  BY <1>2, <1>3, TwoTypes


----------------------------------------------------------------------------
(* How far the run has come.                                               *)

LEMMA EndKept ==
  ASSUME TalkTypes, SaidSound, EndSound, appends \in Seq(Entries), Talk
  PROVE  EndSound'
<1>1. CASE Moves
  BY <1>1 DEF Moves, EndSound
<1>2. ASSUME NEW r \in Reviewers, NEW line, NEW to, RecordedAs(r, line, to)
      PROVE  EndSound'
  <2>1. final = "no" /\ final' = "no"
    BY <1>2 DEF RecordedAs, EndSound
  <2>2. QED
    BY <1>2, <2>1 DEF RecordedAs, EndSound
<1>3. ASSUME NEW line, Said(line)
      PROVE  EndSound'
  <2>1. final = "no" /\ final' = "no" /\ run' = "reviewing" /\ ~broken' /\ recorder' = recorder /\ ~broken
    BY <1>3 DEF Said, EndSound
  <2>2. QED
    BY <1>3, <2>1 DEF EndSound
<1>4. CASE Fails
  <2>1. mirror' \in {mirror, <<>>}
    BY <1>4 DEF Fails, MirrorStops
  <2>2. run' \in {"failing", "failed"} /\ (run' = "failing" => run = "reviewing")
        /\ (broken => broken' = TRUE)
        /\ UNCHANGED <<at, inflight, final, recorder>>
    BY <1>4 DEF Fails, TalkTypes
  <2>3. QED
    BY <2>1, <2>2 DEF EndSound
<1>5. CASE Pumped
  <2>1. final \notin {"appending", "closing", "closed", "dropped"} /\ final' = final
    BY <1>5 DEF Pumped, EndSound
  <2>2. QED
    BY <1>5, <2>1 DEF Pumped, EndSound
<1>6. CASE Began
  BY <1>6 DEF Began, EndSound
<1>7. CASE Drained
  BY <1>7 DEF Drained, EndSound
<1>8. CASE Completed
  BY <1>8 DEF Completed, EndSound
<1>9. ASSUME NEW head, NEW ok \in BOOLEAN, WrittenDown(head, ok)
      PROVE  EndSound'
  <2>1. appends # <<>> /\ head = Head(appends) /\ Told(head.from, ok) /\ UNCHANGED <<run, broken, recorder>>
    BY <1>9 DEF WrittenDown
  <2>2. 1 \in DOMAIN appends /\ head = appends[1]
    BY <2>1
  <2>3. head.from = "final" => final = "appending"
    BY <2>2 DEF SaidSound
  <2>4. final' = final \/ (final = "appending" /\ final' \in {"closing", "dropped"})
    BY <2>1, <2>3 DEF Told
  <2>5. mirror' \in {mirror, <<>>} /\ (~inflight => ~inflight')
    BY <2>1 DEF Told, MirrorStops
  <2>6. ASSUME final # "no" PROVE at' = at
    <3>1. head.from \in Reviewers => at[head.from] = "gone"
      BY <2>6 DEF EndSound
    <3>2. QED
      BY <2>1, <3>1 DEF Told
  <2>7. QED
    BY <2>1, <2>4, <2>5, <2>6 DEF EndSound
<1>10. QED
  BY <1>1, <1>2, <1>3, <1>4, <1>5, <1>6, <1>7, <1>8, <1>9 DEF Talk

----------------------------------------------------------------------------
(* The queue of the recorder.                                              *)

\* An entry is added behind the others, or the first one is taken away.
LEMMA QueueGrows ==
  ASSUME NEW q \in Seq(Entries), NEW e, NEW t, t = Append(q, e)
  PROVE  /\ DOMAIN q = 1..Len(q) /\ Len(q) \in Nat
         /\ DOMAIN t = 1..(Len(q) + 1)
         /\ \A i \in DOMAIN q : i \in DOMAIN t /\ t[i] = q[i]
         /\ Len(q) + 1 \in DOMAIN t /\ t[Len(q) + 1] = e
         /\ \A i \in DOMAIN t : i \in DOMAIN q \/ i = Len(q) + 1
<1>1. /\ DOMAIN q = 1..Len(q) /\ Len(q) \in Nat
      /\ DOMAIN t = 1..(Len(q) + 1)
      /\ \A i \in 1..Len(q) : t[i] = q[i]
      /\ t[Len(q) + 1] = e
  OBVIOUS
<1>2. QED
  BY <1>1

LEMMA QueueMoves ==
  ASSUME NEW q \in Seq(Entries), q # <<>>, NEW t, t = Tail(q)
  PROVE  /\ 1 \in DOMAIN q /\ Head(q) = q[1]
         /\ \A i \in DOMAIN t : i \in Nat /\ i + 1 \in DOMAIN q /\ i + 1 # 1 /\ t[i] = q[i + 1]
         /\ \A i \in DOMAIN q : i = 1 \/ (i \in Nat /\ i - 1 \in DOMAIN t /\ t[i - 1] = q[i])
<1>1. /\ DOMAIN q = 1..Len(q) /\ Len(q) \in Nat /\ Len(q) >= 1
      /\ DOMAIN t = 1..(Len(q) - 1)
      /\ \A i \in 1..(Len(q) - 1) : t[i] = q[i + 1]
      /\ Head(q) = q[1]
  OBVIOUS
<1>2. PICK n \in Nat : n = Len(q) /\ n >= 1
  BY <1>1
<1>3. \A i \in 1..(n - 1) : i \in Nat /\ i + 1 \in 1..n /\ i + 1 # 1
  BY <1>2
<1>4. \A i \in 1..n : i = 1 \/ (i \in Nat /\ i - 1 \in 1..(n - 1) /\ (i - 1) + 1 = i)
  BY <1>2
<1>5. QED
  BY <1>1, <1>2, <1>3, <1>4


----------------------------------------------------------------------------
(* What has been said.                                                     *)

Grown(t, s, x) == s \in Seq(Lines) /\ t = Append(s, x)

LEMMA HasAppend ==
  ASSUME NEW s, NEW x, NEW t, Grown(t, s, x), NEW k, NEW o
  PROVE  /\ Has(t, k, o) => Has(s, k, o) \/ x = Line(k, o)
         /\ Has(s, k, o) \/ x = Line(k, o) => Has(t, k, o)
<1>0. s \in Seq(Lines) /\ t = Append(s, x)
  BY DEF Grown
<1>1. /\ DOMAIN s = 1..Len(s) /\ Len(s) \in Nat
      /\ DOMAIN t = 1..(Len(s) + 1)
      /\ \A i \in 1..Len(s) : t[i] = s[i]
      /\ t[Len(s) + 1] = x
  BY <1>0
<1>2. /\ \A i \in DOMAIN s : i \in DOMAIN t /\ t[i] = s[i]
      /\ Len(s) + 1 \in DOMAIN t
      /\ \A i \in DOMAIN t : i \in DOMAIN s \/ i = Len(s) + 1
  BY <1>1
<1>3. QED
  BY <1>1, <1>2 DEF Has, Range

LEMMA OutcomeHas ==
  /\ Outcome = IF \E r \in Reviewers : Has(stream, "incomplete", r) THEN "incomplete"
               ELSE IF \E r \in Reviewers : verdict[r] = "fail" THEN "findings" ELSE "passed"
  /\ Outcome' = IF \E r \in Reviewers : Has(stream', "incomplete", r) THEN "incomplete"
                ELSE IF \E r \in Reviewers : verdict'[r] = "fail" THEN "findings" ELSE "passed"
BY DEF Outcome, Has, Range

LEMMA OutcomeKept ==
  ASSUME UNCHANGED <<stream, verdict>>
  PROVE  Outcome' = Outcome
BY OutcomeHas

LEMMA OutcomeEnds ==
  ASSUME stream \in Seq(Lines), UNCHANGED verdict,
         NEW o, stream' = Append(stream, Line("completed", o))
  PROVE  Outcome' = Outcome
<1>1. \A r \in Reviewers : Line("completed", o) # Line("incomplete", r)
  BY DEF Line
<1>2. \A r \in Reviewers : Has(stream', "incomplete", r) <=> Has(stream, "incomplete", r)
  <2>1. Grown(stream', stream, Line("completed", o))
    BY DEF Grown
  <2>2. QED
    BY <1>1, <2>1, HasAppend
<1>3. QED
  BY <1>2, OutcomeHas

\* What an entry of the recorder's queue may be.
EntryOK(entry) ==
  /\ entry.from = "mirror" => entry.line.kind \in Spoken /\ inflight
  /\ entry.from = "final" => entry.line = Line("completed", Outcome) /\ final = "appending"
  /\ entry.from \in Reviewers => entry.line.kind \in Kept
GoneSaid == \A r \in Reviewers : at[r] = "gone" => Has(stream, "done", r) \/ Has(stream, "incomplete", r)
FileSaid ==
  \A i \in DOMAIN content :
    content[i].kind = "completed" => final # "no" /\ content[i].of = Outcome

LEMMA SaidParts ==
  /\ SaidSound <=> GoneSaid /\ FileSaid /\ \A i \in DOMAIN appends : EntryOK(appends[i])
  /\ SaidSound' <=> GoneSaid' /\ FileSaid' /\ \A i \in DOMAIN appends' : EntryOK(appends[i])'
BY DEF SaidSound, GoneSaid, FileSaid, EntryOK

\* Nothing is said, and nothing new is written or queued.
LEMMA SaidStays ==
  ASSUME SaidSound, UNCHANGED <<verdict, at, content, appends, inflight>>,
         stream' = stream \/ (stream \in Seq(Lines) /\ \E o : stream' = Append(stream, Line("completed", o))),
         final' = final \/ (final \notin {"no", "appending"} /\ final' # "no")
           \/ (final = "no" /\ final' # "no")
  PROVE  SaidSound'
<1>1. Outcome' = Outcome
  BY OutcomeKept, OutcomeEnds
<1>2. GoneSaid'
  <2>1. \A k, o : Has(stream, k, o) => Has(stream', k, o)
    BY HasAppend DEF Grown
  <2>2. QED
    BY <2>1 DEF SaidSound, GoneSaid
<1>3. FileSaid'
  BY <1>1 DEF SaidSound, FileSaid
<1>4. ASSUME NEW i \in DOMAIN appends' PROVE EntryOK(appends[i])'
  <2>1. i \in DOMAIN appends /\ appends'[i] = appends[i] /\ EntryOK(appends[i])
    BY SaidParts
  <2>2. QED
    BY <1>1, <2>1 DEF EntryOK
<1>5. QED
  BY <1>2, <1>3, <1>4, SaidParts

\* One entry is queued behind the others.
Queued(e) == appends \in Seq(Entries) /\ appends' = Append(appends, e)

LEMMA SaidQueues ==
  ASSUME SaidSound, NEW e, Queued(e), EntryOK(e)',
         UNCHANGED <<verdict, stream, content>>,
         \A r \in Reviewers : at'[r] = "gone" => at[r] = "gone",
         inflight' = inflight \/ inflight' = TRUE,
         final' = final \/ (final = "draining" /\ final' = "appending")
  PROVE  SaidSound'
<1>1. Outcome' = Outcome
  BY OutcomeKept
<1>2. GoneSaid'
  BY DEF SaidSound, GoneSaid
<1>3. FileSaid'
  BY <1>1 DEF SaidSound, FileSaid
<1>4. ASSUME NEW i \in DOMAIN appends' PROVE EntryOK(appends[i])'
  <2>1. CASE i \in DOMAIN appends
    <3>1. appends'[i] = appends[i] /\ EntryOK(appends[i])
      BY <2>1, SaidParts, QueueGrows DEF Queued
    <3>2. QED
      BY <1>1, <3>1 DEF EntryOK
  <2>2. CASE i \notin DOMAIN appends
    <3>1. appends'[i] = e
      BY <2>2, QueueGrows DEF Queued
    <3>2. QED
      BY <3>1 DEF EntryOK
  <2>3. QED
    BY <2>1, <2>2
<1>5. QED
  BY <1>2, <1>3, <1>4, SaidParts

\* The first entry is written.
LEMMA SaidWritten ==
  ASSUME TalkTypes, LinesOK, SaidSound, QueueSound, NEW head, NEW ok \in BOOLEAN, WrittenDown(head, ok)
  PROVE  SaidSound'
<1>1. /\ appends \in Seq(Entries) /\ appends # <<>> /\ head = Head(appends) /\ appends' = Tail(appends)
      /\ UNCHANGED <<verdict, stream>> /\ Told(head.from, ok) /\ content \in Seq(Lines)
  BY DEF WrittenDown, LinesOK
<1>2. Outcome' = Outcome
  BY <1>1, OutcomeKept
<1>3. 1 \in DOMAIN appends /\ head = appends[1] /\ head.from \in Sources
  BY <1>1, QueueMoves, EntriesKept
<1>4. EntryOK(head)
  BY <1>3, SaidParts
<1>5. GoneSaid'
  <2>1. \A r \in Reviewers : at'[r] = "gone" => at[r] = "gone"
    BY <1>1 DEF Told, TalkTypes
  <2>2. QED
    BY <1>1, <2>1 DEF SaidSound, GoneSaid
<1>6. FileSaid'
  <2>1. final # "no" => final' # "no"
    BY <1>1 DEF Told
  <2>2. head.line.kind = "completed" => head.line = Line("completed", Outcome) /\ final # "no"
    BY <1>3, <1>4 DEF EntryOK, Sources, Spoken, Kept
  <2>3. Damaged(head.line).kind # "completed" /\ Line("completed", Outcome).of = Outcome
    BY DEF Damaged, Line
  <2>4. \/ content' = content
        \/ \E x \in {head.line, Damaged(head.line)} : content' = Append(content, x)
    BY DEF WrittenDown, Written
  <2>5. ASSUME NEW i \in DOMAIN content', content'[i].kind = "completed"
        PROVE  final' # "no" /\ content'[i].of = Outcome'
    <3>1. CASE i \in DOMAIN content /\ content'[i] = content[i]
      BY <1>2, <2>1, <2>5, <3>1 DEF SaidSound
    <3>2. CASE \E x \in {head.line, Damaged(head.line)} : content'[i] = x
      BY <1>2, <2>1, <2>2, <2>3, <2>5, <3>2
    <3>3. \/ i \in DOMAIN content /\ content'[i] = content[i]
          \/ \E x \in {head.line, Damaged(head.line)} : content'[i] = x
      <4>1. CASE content' = content
        BY <4>1
      <4>2. ASSUME NEW x \in {head.line, Damaged(head.line)}, content' = Append(content, x)
            PROVE  (i \in DOMAIN content /\ content'[i] = content[i]) \/ content'[i] = x
        BY <1>1, <4>2
      <4>3. QED
        BY <2>4, <4>1, <4>2
    <3>4. QED
      BY <3>1, <3>2, <3>3
  <2>6. QED
    BY <2>5 DEF FileSaid
<1>7. ASSUME NEW i \in DOMAIN appends' PROVE EntryOK(appends[i])'
  <2>1. i + 1 \in DOMAIN appends /\ i + 1 # 1 /\ appends'[i] = appends[i + 1]
    BY <1>1, QueueMoves
  <2>2. EntryOK(appends[i + 1])
    BY <2>1, SaidParts
  <2>3. \/ appends[i + 1].from # head.from
        \/ head.from \notin {"mirror", "final"}
    BY <1>3, <2>1 DEF QueueSound
  <2>4. /\ (head.from # "mirror" => inflight' = inflight)
        /\ (head.from # "final" => final' = final)
    BY <1>1 DEF Told
  <2>5. QED
    BY <1>2, <2>1, <2>2, <2>3, <2>4 DEF EntryOK
<1>8. QED
  BY <1>5, <1>6, <1>7, SaidParts

LEMMA SaidKept ==
  ASSUME TalkTypes, LinesOK, EndSound, SaidSound, QueueSound, Talk
  PROVE  SaidSound'
<1>0. appends \in Seq(Entries) /\ stream \in Seq(Lines)
  BY DEF LinesOK
<1>1. CASE Moves
  BY <1>1, SaidStays DEF Moves
<1>2. ASSUME NEW r \in Reviewers, NEW line, NEW to, RecordedAs(r, line, to)
      PROVE  SaidSound'
  <2>1. PICK e : e = [from |-> r, line |-> line]
    OBVIOUS
  <2>2. e.from = r /\ e.line = line /\ r # "mirror" /\ r # "final"
    BY <2>1, RecordReviewersAssumption
  <2>3. EntryOK(e)'
    BY <1>2, <2>2 DEF RecordedAs, EntryOK
  <2>4. \A x \in Reviewers : at'[x] = "gone" => at[x] = "gone"
    BY <1>2 DEF RecordedAs, TalkTypes
  <2>5. /\ Queued(e) /\ UNCHANGED <<verdict, stream, content>>
        /\ inflight' = inflight /\ final' = final
    BY <1>0, <1>2, <2>1 DEF RecordedAs, Queued
  <2>6. QED
    BY <2>3, <2>4, <2>5, SaidQueues
<1>3. ASSUME NEW line, Said(line)
      PROVE  SaidSound'
  <2>1. final = "no" /\ final' = "no" /\ UNCHANGED <<content, appends, inflight, verdict>>
    BY <1>3 DEF Said, EndSound
  <2>2. CASE stream' = stream /\ at' = at
    BY <2>1, <2>2, SaidStays
  <2>3. ASSUME stream' = Append(stream, line), NEW r \in Reviewers,
               line \in {Line("done", r), Line("incomplete", r)}, at' = [at EXCEPT ![r] = "gone"]
        PROVE  SaidSound'
    <3>1. GoneSaid'
      <4>1. \A k, o : Has(stream', k, o) <=> Has(stream, k, o) \/ line = Line(k, o)
        <5>1. Grown(stream', stream, line)
          BY <1>0, <2>3 DEF Grown
        <5>2. QED
          BY <5>1, HasAppend
      <4>2. \A x \in Reviewers : x # r => at'[x] = at[x]
        BY <2>3 DEF TalkTypes
      <4>3. QED
        BY <2>3, <4>1, <4>2 DEF SaidSound, GoneSaid
    <3>2. FileSaid'
      BY <2>1 DEF SaidSound, FileSaid
    <3>3. ASSUME NEW i \in DOMAIN appends' PROVE EntryOK(appends[i])'
      <4>1. i \in DOMAIN appends /\ appends'[i] = appends[i] /\ EntryOK(appends[i])
        BY <2>1, SaidParts
      <4>2. QED
        BY <2>1, <4>1 DEF EntryOK
    <3>4. QED
      BY <3>1, <3>2, <3>3, SaidParts
  <2>4. QED
    BY <1>3, <2>2, <2>3 DEF Said
<1>4. CASE Fails
  BY <1>4, SaidStays DEF Fails
<1>5. CASE Pumped
  <2>1. CASE /\ inflight' = TRUE
             /\ appends' = Append(appends, [from |-> "mirror", line |-> Head(mirror)])
    <3>1. PICK e : e = [from |-> "mirror", line |-> Head(mirror)]
      OBVIOUS
    <3>2. e.from = "mirror" /\ e.line = Head(mirror) /\ "mirror" \notin Reviewers
      BY <3>1, RecordReviewersAssumption
    <3>3. Head(mirror).kind \in Spoken
      BY <1>5, KindsKept DEF Pumped, LinesOK
    <3>4. EntryOK(e)'
      BY <2>1, <3>2, <3>3 DEF EntryOK
    <3>5. /\ Queued(e) /\ UNCHANGED <<verdict, stream, content, at, final>>
          /\ inflight' = TRUE
          /\ \A r \in Reviewers : at'[r] = "gone" => at[r] = "gone"
      BY <1>0, <1>5, <2>1, <3>1 DEF Pumped, Queued
    <3>6. QED
      BY <3>4, <3>5, SaidQueues
  <2>2. CASE UNCHANGED <<inflight, appends>>
    BY <1>5, <2>2, SaidStays DEF Pumped
  <2>3. QED
    BY <1>5, <2>1, <2>2 DEF Pumped
<1>6. CASE Began
  <2>1. final = "no"
    BY <1>6 DEF Began, EndSound
  <2>2. QED
    BY <1>6, <2>1, SaidStays DEF Began
<1>7. CASE Drained
  <2>1. CASE final' = "appending" /\ appends' = Append(appends, [from |-> "final", line |-> Line("completed", Outcome)])
    <3>1. PICK e : e = [from |-> "final", line |-> Line("completed", Outcome)]
      OBVIOUS
    <3>2. e.from = "final" /\ e.line = Line("completed", Outcome) /\ "final" \notin Reviewers
      BY <3>1, RecordReviewersAssumption
    <3>3. Outcome' = Outcome
      BY <1>7, OutcomeKept DEF Drained
    <3>4. EntryOK(e)'
      BY <2>1, <3>2, <3>3 DEF EntryOK
    <3>5. QED
      BY <1>0, <1>7, <2>1, <3>1, <3>4, SaidQueues DEF Drained, Queued
  <2>2. CASE final' \in {"dropped", "closing"} /\ appends' = appends
    BY <1>7, <2>2, SaidStays DEF Drained
  <2>3. QED
    BY <1>7, <2>1, <2>2 DEF Drained
<1>8. CASE Completed
  BY <1>0, <1>8, SaidStays DEF Completed
<1>9. ASSUME NEW head, NEW ok \in BOOLEAN, WrittenDown(head, ok)
      PROVE  SaidSound'
  BY <1>9, SaidWritten
<1>10. QED
  BY <1>1, <1>2, <1>3, <1>4, <1>5, <1>6, <1>7, <1>8, <1>9 DEF Talk


----------------------------------------------------------------------------
(* The entries of the mirror and of the end.                               *)

QueueOK ==
  \A i, j \in DOMAIN appends :
    appends[i].from = appends[j].from /\ appends[i].from \in {"mirror", "final"} => i = j
FlightOK == inflight => \E i \in DOMAIN appends : appends[i].from = "mirror"

LEMMA QueueParts ==
  /\ QueueSound <=> mirroring = ~gap /\ QueueOK /\ FlightOK
  /\ QueueSound' <=> mirroring' = ~gap' /\ QueueOK' /\ FlightOK'
BY DEF QueueSound, QueueOK, FlightOK

LEMMA QueueAdds ==
  ASSUME appends \in Seq(Entries), QueueOK, NEW e, appends' = Append(appends, e),
         e.from \in {"mirror", "final"} => \A i \in DOMAIN appends : appends[i].from # e.from
  PROVE  /\ QueueOK'
         /\ e.from = "mirror" => FlightOK'
         /\ inflight' = inflight /\ FlightOK => FlightOK'
<1>1. PICK q, t, n : q = appends /\ t = appends' /\ n = Len(q) + 1
  OBVIOUS
<1>2. /\ n \in DOMAIN t /\ t[n] = e
      /\ \A i \in DOMAIN t : i \in DOMAIN q \/ i = n
      /\ \A i \in DOMAIN q : i \in DOMAIN t /\ t[i] = q[i]
  BY <1>1, QueueGrows
<1>3. ASSUME NEW i \in DOMAIN t, NEW j \in DOMAIN t, t[i].from = t[j].from,
             t[i].from \in {"mirror", "final"}
      PROVE  i = j
  <2>1. CASE i \in DOMAIN q /\ j \in DOMAIN q
    BY <1>1, <1>2, <1>3, <2>1 DEF QueueOK
  <2>2. CASE i = n /\ j \in DOMAIN q
    BY <1>1, <1>2, <1>3, <2>2
  <2>3. CASE j = n /\ i \in DOMAIN q
    BY <1>1, <1>2, <1>3, <2>3
  <2>4. CASE i = n /\ j = n
    BY <2>4
  <2>5. QED
    BY <1>2, <2>1, <2>2, <2>3, <2>4
<1>4. QueueOK'
  BY <1>1, <1>3 DEF QueueOK
<1>5. e.from = "mirror" => FlightOK'
  BY <1>1, <1>2 DEF FlightOK
<1>6. inflight' = inflight /\ FlightOK => FlightOK'
  BY <1>1, <1>2 DEF FlightOK
<1>7. QED
  BY <1>4, <1>5, <1>6

LEMMA QueueTakes ==
  ASSUME appends \in Seq(Entries), appends # <<>>, QueueOK, FlightOK, appends' = Tail(appends),
         inflight' = IF Head(appends).from = "mirror" THEN FALSE ELSE inflight
  PROVE  QueueOK' /\ FlightOK'
<1>1. PICK q, t : q = appends /\ t = appends'
  OBVIOUS
<1>2. /\ 1 \in DOMAIN q /\ Head(q) = q[1]
      /\ \A i \in DOMAIN t : i \in Nat /\ i + 1 \in DOMAIN q /\ i + 1 # 1 /\ t[i] = q[i + 1]
      /\ \A i \in DOMAIN q : i = 1 \/ (i \in Nat /\ i - 1 \in DOMAIN t /\ t[i - 1] = q[i])
  BY <1>1, QueueMoves
<1>3. ASSUME NEW i \in DOMAIN t, NEW j \in DOMAIN t, t[i].from = t[j].from,
             t[i].from \in {"mirror", "final"}
      PROVE  i = j
  <2>1. i + 1 = j + 1
    BY <1>1, <1>2, <1>3 DEF QueueOK
  <2>2. QED
    BY <1>2, <2>1
<1>4. QueueOK'
  BY <1>1, <1>3 DEF QueueOK
<1>5. FlightOK'
  <2> SUFFICES ASSUME inflight' PROVE \E i \in DOMAIN t : t[i].from = "mirror"
    BY <1>1 DEF FlightOK
  <2>1. Head(q).from # "mirror" /\ inflight
    BY <1>1
  <2>2. PICK i \in DOMAIN q : q[i].from = "mirror"
    BY <1>1, <2>1 DEF FlightOK
  <2>3. i - 1 \in DOMAIN t /\ t[i - 1].from = "mirror"
    BY <1>2, <2>1, <2>2
  <2>4. QED
    BY <2>3
<1>6. QED
  BY <1>4, <1>5

LEMMA QueueKept ==
  ASSUME TalkTypes, LinesOK, EndSound, SaidSound, QueueSound, Talk
  PROVE  QueueSound'
<1>0. appends \in Seq(Entries) /\ QueueOK /\ FlightOK /\ mirroring = ~gap
      /\ mirroring \in BOOLEAN /\ gap \in BOOLEAN
  BY QueueParts DEF LinesOK, TalkTypes
<1>1. ASSUME UNCHANGED <<appends, inflight>>,
             UNCHANGED <<mirroring, gap>> \/ (mirroring' = FALSE /\ gap' = TRUE)
      PROVE  QueueSound'
  BY <1>0, <1>1, QueueParts DEF QueueOK, FlightOK
<1>2. CASE Moves \/ Fails \/ Began \/ Completed \/ \E line : Said(line)
  <2>1. /\ UNCHANGED <<appends, inflight>>
        /\ UNCHANGED <<mirroring, gap>> \/ (mirroring' = FALSE /\ gap' = TRUE)
    BY <1>2 DEF Moves, Fails, Began, Completed, Said, MirrorMoves, MirrorStops
  <2>2. QED
    BY <1>1, <2>1
<1>3. ASSUME NEW r \in Reviewers, NEW line, NEW to, RecordedAs(r, line, to)
      PROVE  QueueSound'
  <2>1. PICK e : e = [from |-> r, line |-> line]
    OBVIOUS
  <2>2. e.from \notin {"mirror", "final"}
    BY <2>1, RecordReviewersAssumption
  <2>3. appends' = Append(appends, e) /\ inflight' = inflight /\ UNCHANGED <<mirroring, gap>>
    BY <1>3, <2>1 DEF RecordedAs
  <2>4. QED
    BY <1>0, <2>2, <2>3, QueueAdds, QueueParts
<1>4. CASE Pumped
  <2>1. CASE /\ inflight' = TRUE
             /\ appends' = Append(appends, [from |-> "mirror", line |-> Head(mirror)])
             /\ UNCHANGED <<mirroring, gap>>
    <3>1. PICK e : e = [from |-> "mirror", line |-> Head(mirror)]
      OBVIOUS
    <3>2. e.from = "mirror" /\ appends' = Append(appends, e)
      BY <2>1, <3>1
    <3>3. \A i \in DOMAIN appends : appends[i].from # "mirror"
      BY <1>4 DEF Pumped, SaidSound
    <3>4. QueueOK' /\ FlightOK'
      BY <1>0, <3>2, <3>3, QueueAdds
    <3>5. QED
      BY <1>0, <2>1, <3>4, QueueParts
  <2>2. CASE mirroring' = FALSE /\ gap' = TRUE /\ UNCHANGED <<inflight, appends>>
    BY <1>1, <2>2
  <2>3. QED
    BY <1>4, <2>1, <2>2 DEF Pumped
<1>5. CASE Drained
  <2>1. PICK e : e = [from |-> "final", line |-> Line("completed", Outcome)]
    OBVIOUS
  <2>2. e.from = "final" /\ (appends' = appends \/ appends' = Append(appends, e))
    BY <1>5, <2>1 DEF Drained
  <2>3. UNCHANGED <<inflight, mirroring, gap>>
    BY <1>5 DEF Drained
  <2>4. CASE appends' = Append(appends, e)
    <3>1. \A i \in DOMAIN appends : appends[i].from # "final"
      BY <1>5 DEF Drained, SaidSound
    <3>2. QueueOK' /\ FlightOK'
      BY <1>0, <2>2, <2>3, <2>4, <3>1, QueueAdds
    <3>3. QED
      BY <1>0, <2>3, <3>2, QueueParts
  <2>5. CASE appends' = appends
    BY <1>1, <2>3, <2>5
  <2>6. QED
    BY <2>2, <2>4, <2>5
<1>6. ASSUME NEW head, NEW ok \in BOOLEAN, WrittenDown(head, ok)
      PROVE  QueueSound'
  <2>1. /\ appends # <<>> /\ head = Head(appends) /\ appends' = Tail(appends)
        /\ inflight' = IF head.from = "mirror" THEN FALSE ELSE inflight
        /\ UNCHANGED <<mirroring, gap>> \/ (mirroring' = FALSE /\ gap' = TRUE)
    BY <1>6 DEF WrittenDown, Told, MirrorStops
  <2>2. QueueOK' /\ FlightOK'
    BY <1>0, <2>1, QueueTakes
  <2>3. (mirroring' = mirroring /\ gap' = gap) \/ (mirroring' = FALSE /\ gap' = TRUE)
    BY <2>1
  <2>4. mirroring' = ~gap'
    BY <1>0, <2>3
  <2>5. QED
    BY <2>2, <2>4, QueueParts
<1>7. QED
  BY <1>2, <1>3, <1>4, <1>5, <1>6 DEF Talk


----------------------------------------------------------------------------
(* The stream is in the record, in the recorder's hands or in the queue.   *)

\* Nothing of it changes.
LEMMA MirroredStays ==
  ASSUME NEW n, NEW m, Mirrored(n, m), UNCHANGED <<stream, mirror, content, appends, inflight>>
  PROVE  Mirrored(n, m)'
BY DEF Mirrored

\* An entry that is not of the mirror is queued.
LEMMA MirroredQueues ==
  ASSUME NEW n, NEW m, Mirrored(n, m), UNCHANGED <<stream, mirror, content, inflight>>,
         NEW e, Queued(e), e.from # "mirror"
  PROVE  Mirrored(n, m)'
<1>1. ASSUME NEW i \in DOMAIN appends', appends'[i].from = "mirror"
      PROVE  i \in DOMAIN appends /\ appends'[i] = appends[i]
  BY <1>1, QueueGrows DEF Queued
<1>2. QED
  BY <1>1 DEF Mirrored

\* A line is said and waits for the pump.
LEMMA MirroredSays ==
  ASSUME LinesOK, NEW n \in Nat, NEW m \in Nat, n <= Len(stream), m <= Len(stream),
         Mirrored(n, m), NEW line \in Lines, line.kind \in Public,
         stream' = Append(stream, line), mirror' = Append(mirror, line),
         UNCHANGED <<content, appends, inflight>>
  PROVE  Mirrored(n, m)'
<1>1. PICK s, t, l : s = stream /\ t = stream' /\ l = Len(s)
  OBVIOUS
<1>2. /\ s \in Seq(Lines) /\ l \in Nat /\ t = Append(s, line) /\ Len(t) = l + 1 /\ t[l + 1] = line
      /\ \A i \in 1..l : t[i] = s[i]
  BY <1>1 DEF LinesOK
<1>3. PICK q, p : q = mirror /\ p = mirror' /\ q \in Seq(Lines) /\ p = Append(q, line)
  BY DEF LinesOK
<1>4. Holds(content, t, 1, n)
  <2>1. \A i \in 1..n : t[i] = s[i]
    BY <1>1, <1>2
  <2>2. Holds(content, s, 1, n)
    BY <1>1 DEF Mirrored
  <2>3. QED
    BY <2>1, <2>2, HoldsSame
<1>5. Holds(p, t, m + 1, l + 1)
  <2>1. Holds(q, s, m + 1, l)
    BY <1>1, <1>3 DEF Mirrored
  <2>2. \A i \in (m + 1)..l : t[i] = s[i]
    BY <1>2
  <2>3. m + 1 \in Nat /\ m + 1 <= l + 1
    BY <1>1, <1>2
  <2>4. Holds(q, t, m + 1, l)
    BY <1>2, <2>1, <2>2, <2>3, HoldsSame
  <2>5. QED
    BY <1>2, <1>3, <2>3, <2>4, HoldsNext
<1>6. ASSUME NEW i \in DOMAIN appends, appends[i].from = "mirror"
      PROVE  IF appends[i].line.kind \in Public THEN m = n + 1 /\ appends[i].line = t[m] ELSE m = n
  <2>1. IF appends[i].line.kind \in Public THEN m = n + 1 /\ appends[i].line = s[m] ELSE m = n
    BY <1>1, <1>6 DEF Mirrored
  <2>2. m = n + 1 => m \in 1..l
    BY <1>1, <1>2
  <2>3. QED
    BY <1>2, <2>1, <2>2
<1>7. QED
  BY <1>1, <1>2, <1>3, <1>4, <1>5, <1>6 DEF Mirrored

\* A heartbeat waits for the pump.
LEMMA MirroredBeats ==
  ASSUME LinesOK, NEW n \in Nat, NEW m \in Nat, Mirrored(n, m), NEW line, line.kind \notin Public,
         mirror' = Append(mirror, line), UNCHANGED <<stream, content, appends, inflight>>
  PROVE  Mirrored(n, m)'
<1>1. mirror \in Seq(Lines) /\ m + 1 \in Nat /\ Len(stream) \in Nat
  BY DEF LinesOK
<1>2. Holds(mirror, stream, m + 1, Len(stream))
  BY DEF Mirrored
<1>3. PICK q, p : q = mirror /\ p = mirror' /\ q \in Seq(Lines) /\ p = Append(q, line)
  BY <1>1
<1>4. Holds(p, stream, m + 1, Len(stream))
  BY <1>1, <1>2, <1>3, HoldsOther
<1>5. QED
  BY <1>3, <1>4 DEF Mirrored

\* The pump hands the first one over.
LEMMA MirroredPumps ==
  ASSUME LinesOK, SaidSound, NEW n \in 0..Len(stream), NEW m \in 0..Len(stream), Mirrored(n, m),
         ~inflight, mirror # <<>>, mirror' = Tail(mirror), NEW e, Queued(e),
         e.from = "mirror", e.line = Head(mirror), UNCHANGED <<stream, content>>, inflight'
  PROVE  \E k \in 0..Len(stream) : Mirrored(n, k)'
<1>1. PICK l \in Nat : l = Len(stream)
  BY DEF LinesOK
<1>2. m = n /\ n \in Nat /\ m \in Nat /\ Holds(mirror, stream, m + 1, l) /\ Holds(content, stream, 1, n)
  BY <1>1 DEF Mirrored
<1>3. \A i \in (m + 1)..l : stream[i].kind \in Public
  <2>1. DOMAIN stream = 1..l
    BY <1>1 DEF LinesOK
  <2>2. \A i \in (m + 1)..l : i \in 1..l
    BY <1>2
  <2>3. QED
    BY <2>1, <2>2 DEF LinesOK
<1>4. PICK q, p : q = mirror /\ p = mirror' /\ q \in Seq(Lines) /\ q # <<>> /\ p = Tail(q)
  BY DEF LinesOK
<1>5. m + 1 \in Nat /\ m + 1 + 1 \in Nat
  BY <1>2
<1>6. ASSUME NEW i \in DOMAIN appends', appends'[i].from = "mirror" PROVE appends'[i] = e
  <2>1. \A j \in DOMAIN appends : appends[j].from # "mirror"
    BY DEF SaidSound
  <2>2. QED
    BY <1>6, <2>1, QueueGrows DEF Queued
<1>7. CASE Head(q).kind \notin Public
  <2>1. Holds(p, stream, m + 1, l)
    BY <1>1, <1>2, <1>3, <1>4, <1>5, <1>7, HoldsTail
  <2>2. Mirrored(n, m)'
    BY <1>1, <1>2, <1>4, <1>6, <1>7, <2>1 DEF Mirrored
  <2>3. QED
    BY <2>2
<1>8. CASE Head(q).kind \in Public
  <2>1. m + 1 <= l /\ stream[m + 1] = Head(q) /\ Holds(p, stream, m + 1 + 1, l)
    BY <1>1, <1>2, <1>4, <1>5, <1>8, HoldsTail
  <2>2. PICK k \in 0..l : k = m + 1
    BY <1>1, <1>2, <2>1
  <2>3. k = n + 1 /\ e.line = stream[k] /\ Holds(p, stream, k + 1, l)
    BY <1>2, <1>4, <2>1, <2>2
  <2>4. Mirrored(n, k)'
    BY <1>1, <1>2, <1>4, <1>6, <1>8, <2>3 DEF Mirrored
  <2>5. QED
    BY <1>1, <2>4
<1>9. QED
  BY <1>7, <1>8


\* The recorder writes the first entry of its queue down.
LEMMA MirroredWrites ==
  ASSUME LinesOK, SaidSound, QueueSound, NEW n \in 0..Len(stream), NEW m \in 0..Len(stream),
         Mirrored(n, m), appends # <<>>, appends' = Tail(appends), NEW head, head = Head(appends),
         head.from \notin {"final"}, head.from \in Sources,
         content' = IF head.line.kind = "beat" THEN content ELSE Append(content, head.line),
         inflight' = (IF head.from = "mirror" THEN FALSE ELSE inflight),
         UNCHANGED <<stream, mirror>>
  PROVE  \E k, j \in 0..Len(stream) : Mirrored(k, j)'
<1>1. PICK c, d : c = content /\ d = content' /\ c \in Seq(Lines)
  BY DEF LinesOK
<1>2. n \in Nat /\ m \in Nat /\ Holds(c, stream, 1, n) /\ Holds(mirror, stream, m + 1, Len(stream))
  BY <1>1 DEF Mirrored, LinesOK
<1>3. 1 \in DOMAIN appends /\ head = appends[1]
  BY QueueMoves DEF LinesOK
<1>4. \A i \in DOMAIN appends' : i \in Nat /\ i + 1 \in DOMAIN appends /\ i + 1 # 1 /\ appends'[i] = appends[i + 1]
  BY QueueMoves DEF LinesOK
<1>5. CASE head.from = "mirror"
  <2>1. \A i \in DOMAIN appends' : appends'[i].from # "mirror"
    BY <1>3, <1>4, <1>5 DEF QueueSound
  <2>2. head.line.kind \in Spoken
    BY <1>3, <1>5 DEF SaidSound
  <2>3. CASE head.line.kind = "beat"
    <3>1. m = n /\ d = c
      BY <1>1, <1>3, <1>5, <2>3 DEF Mirrored, Public
    <3>2. Mirrored(n, m)'
      BY <1>1, <1>2, <2>1, <3>1 DEF Mirrored
    <3>3. QED
      BY <3>2
  <2>4. CASE head.line.kind # "beat"
    <3>1. head.line.kind \in Public
      BY <2>2, <2>4 DEF Spoken, Public
    <3>2. m = n + 1 /\ head.line = stream[m]
      BY <1>3, <1>5, <3>1 DEF Mirrored
    <3>3. d = Append(c, head.line)
      BY <1>1, <2>4
    <3>4. Holds(d, stream, 1, n + 1)
      <4>1. 1 <= n + 1 /\ head.line = stream[n + 1]
        BY <1>2, <3>2
      <4>2. QED
        BY <1>1, <1>2, <3>3, <4>1, HoldsNext
    <3>5. Mirrored(m, m)'
      BY <1>1, <1>2, <2>1, <3>2, <3>4 DEF Mirrored
    <3>6. QED
      BY <3>5
  <2>5. QED
    BY <2>3, <2>4
<1>6. CASE head.from # "mirror"
  <2>1. head.line.kind \in Kept
    BY <1>3, <1>6 DEF SaidSound, Sources
  <2>2. head.line.kind \notin Public /\ head.line.kind # "beat"
    BY <2>1 DEF Kept, Public
  <2>3. d = Append(c, head.line)
    BY <1>1, <2>2
  <2>4. Holds(d, stream, 1, n)
    BY <1>1, <1>2, <2>2, <2>3, HoldsOther
  <2>5. \A i \in DOMAIN appends' : appends'[i].from = "mirror" =>
          IF appends'[i].line.kind \in Public THEN m = n + 1 /\ appends'[i].line = stream[m] ELSE m = n
    BY <1>4 DEF Mirrored
  <2>6. ~inflight' => m = n
    BY <1>6 DEF Mirrored
  <2>7. /\ Holds(content', stream', 1, n) /\ Holds(mirror', stream', m + 1, Len(stream'))
        /\ \A i \in DOMAIN appends' : appends'[i].from = "mirror" =>
             IF appends'[i].line.kind \in Public THEN m = n + 1 /\ appends'[i].line = stream'[m] ELSE m = n
    BY <1>1, <1>2, <2>4, <2>5
  <2>8. Mirrored(n, m)'
    BY <2>6, <2>7 DEF Mirrored
  <2>9. QED
    BY <2>8
<1>7. QED
  BY <1>5, <1>6

\* The tail of the queue is what waits still, when nothing is written.
LEMMA MirroredDrops ==
  ASSUME LinesOK, NEW n, NEW m, Mirrored(n, m), appends # <<>>, appends' = Tail(appends),
         UNCHANGED <<stream, mirror, content, inflight>>
  PROVE  Mirrored(n, m)'
<1>1. \A i \in DOMAIN appends' : i + 1 \in DOMAIN appends /\ appends'[i] = appends[i + 1]
  BY QueueMoves DEF LinesOK
<1>2. QED
  BY <1>1 DEF Mirrored

\* When nothing waits any more, the record holds the whole stream.
LEMMA MirroredAll ==
  ASSUME LinesOK, NEW n \in 0..Len(stream), NEW m \in 0..Len(stream), Mirrored(n, m),
         mirror = <<>>, ~inflight, NEW d, NEW x, d = Append(content, x)
  PROVE  Holds(d, Append(stream, x), 1, Len(stream) + 1)
<1>1. PICK s, t, l : s = stream /\ t = Append(s, x) /\ l = Len(s)
  OBVIOUS
<1>2. /\ s \in Seq(Lines) /\ l \in Nat /\ t[l + 1] = x /\ \A i \in 1..l : t[i] = s[i]
  BY <1>1 DEF LinesOK
<1>3. m = n /\ Holds(<<>>, s, m + 1, l) /\ Holds(content, s, 1, n) /\ n \in 0..l /\ n \in Nat
  BY <1>1, <1>2 DEF Mirrored
<1>4. n = l
  <2>1. m + 1 > l
    BY <1>2, <1>3, HoldsNone
  <2>2. QED
    BY <1>2, <1>3, <2>1
<1>5. Holds(content, t, 1, l)
  BY <1>2, <1>3, <1>4, HoldsSame
<1>6. PICK c : c = content /\ c \in Seq(Lines)
  BY DEF LinesOK
<1>7. 1 <= l + 1
  BY <1>2
<1>8. Holds(d, t, 1, l + 1)
  BY <1>2, <1>5, <1>6, <1>7, HoldsNext
<1>9. QED
  BY <1>1, <1>8


Waits ==
  Unharmed /\ final \in {"no", "draining", "appending"} => \E n, m \in 0..Len(stream) : Mirrored(n, m)
HeldWhole ==
  Unharmed /\ final \in {"closing", "closed"} =>
    IF run = "completed" THEN Holds(content, stream, 1, Len(stream))
    ELSE Holds(content, Append(stream, Line("completed", Outcome)), 1, Len(stream) + 1)
GapKept ==
  required /\ final \in {"appending", "closing", "closed"} /\ run \in {"finishing", "completed"} => ~gap

LEMMA DurableParts ==
  /\ DurableSound <=> (Unharmed => ~torn) /\ Waits /\ HeldWhole /\ GapKept
  /\ DurableSound' <=> (Unharmed' => ~torn') /\ Waits' /\ HeldWhole' /\ GapKept'
BY DEF DurableSound, Waits, HeldWhole, GapKept

LEMMA HarmStays ==
  ASSUME TalkTypes, LinesOK, EndSound, SaidSound, Talk, Unharmed'
  PROVE  Unharmed
<1>1. CASE Moves
  BY <1>1 DEF Moves, Unharmed
<1>2. ASSUME NEW r \in Reviewers, NEW line, NEW to, RecordedAs(r, line, to)
      PROVE  Unharmed
  BY <1>2 DEF RecordedAs, Unharmed
<1>3. ASSUME NEW line, Said(line)
      PROVE  Unharmed
  BY <1>3 DEF Said, MirrorMoves, MirrorStops, Unharmed
<1>4. CASE Fails
  BY <1>4 DEF Fails, MirrorStops, Unharmed
<1>5. CASE Pumped
  <2>1. (gap' = gap \/ gap' = TRUE) /\ scarred' = scarred /\ final' = final
    BY <1>5 DEF Pumped
  <2>2. QED
    BY <2>1 DEF Unharmed
<1>6. CASE Began
  BY <1>6 DEF Began, Unharmed, EndSound
<1>7. CASE Drained
  BY <1>7 DEF Drained, Unharmed
<1>8. CASE Completed
  BY <1>8 DEF Completed, Unharmed
<1>9. ASSUME NEW head, NEW ok \in BOOLEAN, WrittenDown(head, ok)
      PROVE  Unharmed
  <2>1. Told(head.from, ok) /\ appends # <<>> /\ head = Head(appends)
    BY <1>9 DEF WrittenDown
  <2>2. gap => gap'
    BY <2>1 DEF Told, MirrorStops
  <2>3. scarred => scarred'
    BY <1>9 DEF WrittenDown
  <2>4. head.from = "final" => final = "appending"
    BY <2>1, QueueMoves DEF LinesOK, SaidSound
  <2>5. final = "dropped" => final' = "dropped"
    BY <2>1, <2>4 DEF Told
  <2>6. QED
    BY <2>2, <2>3, <2>5 DEF Unharmed
<1>10. QED
  BY <1>1, <1>2, <1>3, <1>4, <1>5, <1>6, <1>7, <1>8, <1>9 DEF Talk

\* Steps that say nothing, write nothing and hand nothing on.
LEMMA DurableStays ==
  ASSUME TalkTypes, LinesOK, EndSound, SaidSound, DurableSound, Talk,
         UNCHANGED <<required, verdict, stream, mirror, inflight, content, torn, gap>>,
         appends' = appends \/ \E e : Queued(e) /\ e.from # "mirror",
         final' \in {"no", "draining", "appending"} => final \in {"no", "draining", "appending"},
         final' \in {"closing", "closed"} => final \in {"closing", "closed"} /\ run' = run,
         final' = "appending" => final = "appending" /\ run' = run
  PROVE  DurableSound'
<1>1. Outcome' = Outcome
  BY OutcomeKept
<1>2. Unharmed' => ~torn'
  BY HarmStays, DurableParts
<1>3. Waits'
  <2> SUFFICES ASSUME Unharmed', final' \in {"no", "draining", "appending"}
               PROVE  \E n, m \in 0..Len(stream') : Mirrored(n, m)'
    BY DEF Waits
  <2>1. PICK n \in 0..Len(stream), m \in 0..Len(stream) : Mirrored(n, m)
    BY HarmStays, DurableParts DEF Waits
  <2>2. Mirrored(n, m)'
    BY <2>1, MirroredStays, MirroredQueues
  <2>3. QED
    BY <2>2
<1>4. HeldWhole'
  <2> SUFFICES ASSUME Unharmed', final' \in {"closing", "closed"}
               PROVE  IF run' = "completed" THEN Holds(content', stream', 1, Len(stream'))
                      ELSE Holds(content', Append(stream', Line("completed", Outcome')), 1, Len(stream') + 1)
    BY DEF HeldWhole
  <2>1. Unharmed /\ ~gap
    BY HarmStays DEF Unharmed
  <2>2. final \in {"closing", "closed"}
    BY <2>1 DEF TalkTypes, Unharmed
  <2>3. run' = "completed" <=> run = "completed"
    BY DEF TalkTypes
  <2>4. IF run = "completed" THEN Holds(content, stream, 1, Len(stream))
        ELSE Holds(content, Append(stream, Line("completed", Outcome)), 1, Len(stream) + 1)
    BY <2>1, <2>2, DurableParts DEF HeldWhole
  <2>5. QED
    BY <1>1, <2>3, <2>4
<1>5. GapKept'
  BY DurableParts DEF GapKept
<1>6. QED
  BY <1>2, <1>3, <1>4, <1>5, DurableParts

LEMMA DurableKept1 ==
  ASSUME TalkTypes, LinesOK, EndSound, SaidSound, QueueSound, DurableSound, Talk,
         Moves \/ Began \/ Drained \/ \E r \in Reviewers : \E line, to : RecordedAs(r, line, to)
  PROVE  DurableSound'
<1>1. CASE Moves
  BY <1>1, DurableStays DEF Moves
<1>2. ASSUME NEW r \in Reviewers, NEW line, NEW to, RecordedAs(r, line, to)
      PROVE  DurableSound'
  <2>1. PICK e : e = [from |-> r, line |-> line]
    OBVIOUS
  <2>2. Queued(e) /\ e.from # "mirror"
    BY <1>2, <2>1, RecordReviewersAssumption DEF Queued, RecordedAs, LinesOK
  <2>3. /\ UNCHANGED <<required, verdict, stream, mirror, inflight, content, torn, gap, final, run>>
    BY <1>2 DEF RecordedAs
  <2>4. QED
    BY <2>2, <2>3, DurableStays
<1>3. CASE Began
  <2>1. /\ UNCHANGED <<required, verdict, stream, mirror, inflight, content, torn, gap, appends>>
        /\ final = "no" /\ final' = "draining" /\ run = "reviewing" /\ run' = "finishing"
    BY <1>3 DEF Began, EndSound
  <2>2. QED
    BY <2>1, DurableStays
<1>4. CASE Drained
  <2>1. PICK e : e = [from |-> "final", line |-> Line("completed", Outcome)]
    OBVIOUS
  <2>2. /\ UNCHANGED <<required, verdict, stream, mirror, inflight, content, torn, gap, run>>
        /\ final = "draining" /\ run # "completed"
    BY <1>4 DEF Drained, EndSound
  <2>3. mirroring = ~gap
    BY DEF QueueSound
  <2>4. \/ final' = "dropped" /\ appends' = appends
        \/ final' = "appending" /\ Queued(e) /\ ~(gap /\ required)
        \/ final' = "closing" /\ appends' = appends /\ gap /\ ~(gap /\ required)
    BY <1>4, <2>1, <2>3 DEF Drained, Queued, LinesOK, TalkTypes
  <2>5. e.from # "mirror"
    BY <2>1
  <2>6. CASE final' = "dropped"
    BY <2>2, <2>4, <2>6, DurableStays
  <2>7. CASE final' # "dropped" 
    <3>1. ~(gap /\ required) /\ final' \in {"appending", "closing"} /\ (final' = "closing" => gap)
      BY <2>4, <2>7
    <3>2. appends' = appends \/ \E x : Queued(x) /\ x.from # "mirror"
      BY <2>4, <2>5
    <3>3. run \in {"finishing", "failed"}
      BY <2>2 DEF EndSound, TalkTypes
    <3>4. Unharmed' => ~torn'
      BY <2>2, HarmStays, DurableParts
    <3>5. Waits'
      <4> SUFFICES ASSUME Unharmed', final' \in {"no", "draining", "appending"}
                   PROVE  \E n, m \in 0..Len(stream') : Mirrored(n, m)'
        BY DEF Waits
      <4>1. PICK n \in 0..Len(stream), m \in 0..Len(stream) : Mirrored(n, m)
        BY <2>2, HarmStays, DurableParts DEF Waits
      <4>2. Mirrored(n, m)'
        BY <2>2, <3>2, <4>1, MirroredStays, MirroredQueues
      <4>3. QED
        BY <2>2, <4>2
    <3>6. HeldWhole'
      BY <2>2, <3>1 DEF HeldWhole, Unharmed
    <3>7. GapKept'
      BY <2>2, <3>1 DEF GapKept
    <3>8. QED
      BY <3>4, <3>5, <3>6, <3>7, DurableParts
  <2>8. QED
    BY <2>6, <2>7
<1>5. QED
  BY <1>1, <1>2, <1>3, <1>4


LEMMA DurableSaid ==
  ASSUME TalkTypes, LinesOK, EndSound, SaidSound, QueueSound, DurableSound, Talk,
         NEW line, Said(line)
  PROVE  DurableSound'
<1>1. /\ UNCHANGED <<required, inflight, content, torn, scarred, final, appends>>
      /\ final = "no" /\ line \in Lines /\ line.kind \in Spoken
  BY DEF Said, EndSound
<1>2. Unharmed' => ~torn'
  BY <1>1, HarmStays, DurableParts
<1>3. Waits'
  <2> SUFFICES ASSUME Unharmed' PROVE \E n, m \in 0..Len(stream') : Mirrored(n, m)'
    BY DEF Waits
  <2>1. PICK n \in 0..Len(stream), m \in 0..Len(stream) : Mirrored(n, m)
    BY <1>1, HarmStays, DurableParts DEF Waits
  <2>2. mirror' = Append(mirror, line)
    <3>1. mirroring = ~gap /\ ~gap' /\ gap \in BOOLEAN
      BY DEF QueueSound, TalkTypes, Unharmed
    <3>2. \/ ~mirroring /\ gap' = gap
          \/ gap' = TRUE
          \/ mirror' = Append(mirror, line)
      BY DEF Said, MirrorMoves, MirrorStops
    <3>3. QED
      BY <3>1, <3>2
  <2>3. CASE line.kind = "beat" /\ stream' = stream
    <3>1. line.kind \notin Public
      BY <2>3 DEF Public
    <3>2. Mirrored(n, m)'
      BY <1>1, <2>1, <2>2, <2>3, <3>1, MirroredBeats DEF LinesOK
    <3>3. QED
      BY <2>1, <2>3, <3>2
  <2>4. CASE line.kind \in Public /\ stream' = Append(stream, line)
    <3>1. n \in Nat /\ m \in Nat /\ n <= Len(stream) /\ m <= Len(stream) /\ Len(stream) \in Nat
      BY <2>1 DEF LinesOK
    <3>2. Mirrored(n, m)'
      BY <1>1, <2>1, <2>2, <2>4, <3>1, MirroredSays
    <3>3. Len(stream') = Len(stream) + 1
      BY <2>4 DEF LinesOK
    <3>4. n \in 0..Len(stream') /\ m \in 0..Len(stream')
      BY <3>1, <3>3
    <3>5. QED
      BY <3>2, <3>4
  <2>5. QED
    BY <2>3, <2>4 DEF Said
<1>4. HeldWhole' /\ GapKept'
  BY <1>1 DEF HeldWhole, GapKept
<1>5. QED
  BY <1>2, <1>3, <1>4, DurableParts

LEMMA DurableFails ==
  ASSUME TalkTypes, LinesOK, EndSound, SaidSound, QueueSound, DurableSound, Talk, Fails
  PROVE  DurableSound'
<1>1. /\ UNCHANGED <<required, verdict, inflight, stream, content, torn, scarred, final, appends>>
      /\ run # "completed" /\ run' \in {"failing", "failed"}
      /\ (mirror' = mirror /\ gap' = gap) \/ gap' = TRUE
  BY DEF Fails, MirrorStops
<1>2. Unharmed' => ~torn'
  BY <1>1, HarmStays, DurableParts
<1>3. Waits'
  <2> SUFFICES ASSUME Unharmed', final' \in {"no", "draining", "appending"}
               PROVE  \E n, m \in 0..Len(stream') : Mirrored(n, m)'
    BY DEF Waits
  <2>1. PICK n \in 0..Len(stream), m \in 0..Len(stream) : Mirrored(n, m)
    BY <1>1, HarmStays, DurableParts DEF Waits
  <2>2. mirror' = mirror
    BY <1>1 DEF Unharmed
  <2>3. Mirrored(n, m)'
    BY <1>1, <2>1, <2>2, MirroredStays
  <2>4. QED
    BY <1>1, <2>3
<1>4. HeldWhole'
  <2>1. Outcome' = Outcome
    BY <1>1, OutcomeKept
  <2> SUFFICES ASSUME Unharmed', final' \in {"closing", "closed"}
               PROVE  Holds(content', Append(stream', Line("completed", Outcome')), 1, Len(stream') + 1)
    BY <1>1 DEF HeldWhole
  <2>2. Holds(content, Append(stream, Line("completed", Outcome)), 1, Len(stream) + 1)
    BY <1>1, HarmStays, DurableParts DEF HeldWhole
  <2>3. QED
    BY <1>1, <2>1, <2>2
<1>5. GapKept'
  BY <1>1 DEF GapKept
<1>6. QED
  BY <1>2, <1>3, <1>4, <1>5, DurableParts

LEMMA DurablePumped ==
  ASSUME TalkTypes, LinesOK, EndSound, SaidSound, QueueSound, DurableSound, Talk, Pumped
  PROVE  DurableSound'
<1>1. /\ UNCHANGED <<required, verdict, run, stream, content, torn, scarred, final>>
      /\ mirror # <<>> /\ mirror' = Tail(mirror) /\ ~inflight
      /\ final \notin {"appending", "closing", "closed", "dropped"}
  BY DEF Pumped, EndSound
<1>2. Unharmed' => ~torn'
  BY <1>1, HarmStays, DurableParts
<1>3. Waits'
  <2> SUFFICES ASSUME Unharmed', final' \in {"no", "draining", "appending"}
               PROVE  \E n, m \in 0..Len(stream') : Mirrored(n, m)'
    BY DEF Waits
  <2>1. PICK n \in 0..Len(stream), m \in 0..Len(stream) : Mirrored(n, m)
    BY <1>1, HarmStays, DurableParts DEF Waits
  <2>2. PICK e : e = [from |-> "mirror", line |-> Head(mirror)]
    OBVIOUS
  <2>3. inflight' /\ Queued(e) /\ e.from = "mirror" /\ e.line = Head(mirror)
    BY <2>2 DEF Pumped, Queued, LinesOK, Unharmed
  <2>4. \E k \in 0..Len(stream) : Mirrored(n, k)'
    BY <1>1, <2>1, <2>3, MirroredPumps
  <2>5. QED
    BY <1>1, <2>1, <2>4
<1>4. HeldWhole' /\ GapKept'
  BY <1>1 DEF HeldWhole, GapKept
<1>5. QED
  BY <1>2, <1>3, <1>4, DurableParts

LEMMA DurableCompleted ==
  ASSUME TalkTypes, LinesOK, EndSound, SaidSound, QueueSound, DurableSound, Talk, Completed
  PROVE  DurableSound'
<1>1. /\ UNCHANGED <<required, verdict, gap, content, torn, scarred, final>>
      /\ run = "finishing" /\ final = "closed" /\ run' = "completed"
      /\ stream' = Append(stream, Line("completed", Outcome))
  BY DEF Completed
<1>2. Unharmed' => ~torn'
  BY <1>1, HarmStays, DurableParts
<1>3. Waits'
  BY <1>1 DEF Waits
<1>4. HeldWhole'
  <2> SUFFICES ASSUME Unharmed' PROVE Holds(content', stream', 1, Len(stream'))
    BY <1>1 DEF HeldWhole
  <2>1. Holds(content, Append(stream, Line("completed", Outcome)), 1, Len(stream) + 1)
    BY <1>1, HarmStays, DurableParts DEF HeldWhole
  <2>2. Len(stream') = Len(stream) + 1
    <3>1. PICK s, x, t : s = stream /\ x = Line("completed", Outcome) /\ t = stream'
      OBVIOUS
    <3>2. s \in Seq(Lines) /\ x \in Lines /\ t = Append(s, x)
      BY <1>1, <3>1, OutcomeIs DEF LinesOK
    <3>3. Len(t) = Len(s) + 1
      BY <3>2
    <3>4. QED
      BY <3>1, <3>3
  <2>3. QED
    BY <1>1, <2>1, <2>2
<1>5. GapKept'
  BY <1>1, DurableParts DEF GapKept
<1>6. QED
  BY <1>2, <1>3, <1>4, <1>5, DurableParts

LEMMA DurableWritten ==
  ASSUME TalkTypes, LinesOK, EndSound, SaidSound, QueueSound, DurableSound, Talk,
         NEW head, NEW ok \in BOOLEAN, WrittenDown(head, ok)
  PROVE  DurableSound'
<1>1. /\ appends # <<>> /\ head = Head(appends) /\ appends' = Tail(appends)
      /\ Told(head.from, ok) /\ UNCHANGED <<required, verdict, run, stream>>
      /\ IF ok THEN Written(head.line) /\ scarred' = scarred
         ELSE /\ content' = content /\ torn' \in {torn, TRUE}
              /\ scarred' = (scarred \/ (torn' /\ head.line.kind \in Kept))
  BY DEF WrittenDown
<1>2. head.from \in Sources /\ 1 \in DOMAIN appends /\ head = appends[1]
  BY <1>1, EntriesKept, QueueMoves DEF LinesOK
<1>3. /\ head.from = "mirror" => head.line.kind \in Spoken /\ inflight
      /\ head.from = "final" => head.line = Line("completed", Outcome) /\ final = "appending"
      /\ head.from \in Reviewers => head.line.kind \in Kept
  BY <1>2 DEF SaidSound
<1>4. /\ inflight' = (IF head.from = "mirror" THEN FALSE ELSE inflight)
      /\ head.from = "mirror" /\ ~ok => gap' = TRUE
      /\ head.from # "mirror" \/ ok => mirror' = mirror /\ gap' = gap
      /\ final' = IF head.from = "final" THEN (IF ok THEN "closing" ELSE "dropped") ELSE final
  BY <1>1 DEF Told, MirrorStops
<1>5. Outcome' = Outcome
  BY <1>1, OutcomeKept
<1>6. CASE ok
  <2>1. torn' = FALSE /\ mirror' = mirror /\ gap' = gap /\ scarred' = scarred
    BY <1>1, <1>4, <1>6 DEF Written
  <2>2. Unharmed' => content' = IF head.line.kind = "beat" THEN content ELSE Append(content, head.line)
    <3>1. Unharmed' => ~torn
      BY HarmStays, DurableParts
    <3>2. QED
      BY <1>1, <1>6, <3>1 DEF Written
  <2>3. CASE head.from # "final"
    <3>1. final' = final
      BY <1>4, <2>3
    <3>2. Waits'
      <4> SUFFICES ASSUME Unharmed', final' \in {"no", "draining", "appending"}
                   PROVE  \E n, m \in 0..Len(stream') : Mirrored(n, m)'
        BY DEF Waits
      <4>1. PICK n \in 0..Len(stream), m \in 0..Len(stream) : Mirrored(n, m)
        BY <3>1, HarmStays, DurableParts DEF Waits
      <4>2. content' = IF head.line.kind = "beat" THEN content ELSE Append(content, head.line)
        BY <2>2
      <4>3. \E k, j \in 0..Len(stream) : Mirrored(k, j)'
        BY <1>1, <1>2, <1>4, <2>1, <2>3, <4>1, <4>2, MirroredWrites
      <4>4. QED
        BY <1>1, <4>3
    <3>3. HeldWhole'
      <4> SUFFICES ASSUME Unharmed', final \in {"closing", "closed"}
                   PROVE  HeldWhole'
        BY <3>1 DEF HeldWhole
      <4>1. head.from \in Reviewers
        BY <1>2, <1>3, <2>3 DEF EndSound, Sources
      <4>2. head.line.kind \notin Public /\ head.line.kind # "beat"
        BY <1>3, <4>1 DEF Kept, Public
      <4>3. PICK c, d : c = content /\ d = content' /\ c \in Seq(Lines) /\ d = Append(c, head.line)
        BY <2>2, <4>2 DEF LinesOK
      <4>4. PICK l \in Nat : l = Len(stream)
        BY DEF LinesOK
      <4>5. \A said : \A b \in Nat : Holds(c, said, 1, b) => Holds(d, said, 1, b)
        BY <4>2, <4>3, HoldsOther
      <4>6. IF run = "completed" THEN Holds(c, stream, 1, l)
            ELSE Holds(c, Append(stream, Line("completed", Outcome)), 1, l + 1)
        BY <4>3, <4>4, HarmStays, DurableParts DEF HeldWhole
      <4>7. IF run = "completed" THEN Holds(d, stream, 1, l)
            ELSE Holds(d, Append(stream, Line("completed", Outcome)), 1, l + 1)
        BY <4>4, <4>5, <4>6
      <4>8. QED
        BY <1>1, <1>5, <4>3, <4>4, <4>7 DEF HeldWhole
    <3>4. GapKept'
      BY <1>1, <2>1, <3>1, DurableParts DEF GapKept
    <3>5. QED
      BY <2>1, <3>2, <3>3, <3>4, DurableParts
  <2>4. CASE head.from = "final"
    <3>1. final = "appending" /\ final' = "closing" /\ head.line = Line("completed", Outcome)
          /\ mirror = <<>> /\ ~inflight /\ run # "completed"
      BY <1>3, <1>4, <1>6, <2>4 DEF EndSound
    <3>2. HeldWhole'
      <4> SUFFICES ASSUME Unharmed'
                   PROVE  Holds(content', Append(stream', Line("completed", Outcome')), 1, Len(stream') + 1)
        BY <1>1, <3>1 DEF HeldWhole
      <4>1. PICK n \in 0..Len(stream), m \in 0..Len(stream) : Mirrored(n, m)
        BY <3>1, HarmStays, DurableParts DEF Waits
      <4>2. content' = Append(content, head.line)
        BY <2>2, <3>1 DEF Line
      <4>3. Holds(content', Append(stream, head.line), 1, Len(stream) + 1)
        BY <3>1, <4>1, <4>2, MirroredAll
      <4>4. QED
        BY <1>1, <1>5, <3>1, <4>3
    <3>3. Waits'
      BY <3>1 DEF Waits
    <3>4. GapKept'
      BY <1>1, <2>1, <3>1, DurableParts DEF GapKept
    <3>5. QED
      BY <2>1, <3>2, <3>3, <3>4, DurableParts
  <2>5. QED
    BY <2>3, <2>4
<1>7. CASE ~ok
  <2>1. content' = content /\ torn' \in {torn, TRUE} /\ scarred' = (scarred \/ (torn' /\ head.line.kind \in Kept))
    BY <1>1, <1>7
  <2>2. Unharmed' => head.from \in Reviewers
    BY <1>2, <1>4, <1>7 DEF Unharmed, Sources
  <2>3. Unharmed' => ~torn' /\ final' = final /\ mirror' = mirror /\ inflight' = inflight
    <3>1. Unharmed' => head.line.kind \in Kept /\ ~torn'
      BY <1>3, <2>1, <2>2, HarmStays DEF Unharmed, TalkTypes
    <3>2. Unharmed' => head.from # "mirror" /\ head.from # "final"
      BY <2>2, RecordReviewersAssumption
    <3>3. QED
      BY <1>4, <3>1, <3>2
  <2>4. Waits'
    <3> SUFFICES ASSUME Unharmed', final' \in {"no", "draining", "appending"}
                 PROVE  \E n, m \in 0..Len(stream') : Mirrored(n, m)'
      BY DEF Waits
    <3>1. PICK n \in 0..Len(stream), m \in 0..Len(stream) : Mirrored(n, m)
      BY <2>3, HarmStays, DurableParts DEF Waits
    <3>2. Mirrored(n, m)'
      BY <1>1, <2>1, <2>3, <3>1, MirroredDrops
    <3>3. QED
      BY <1>1, <3>2
  <2>5. HeldWhole'
    <3> SUFFICES ASSUME Unharmed', final \in {"closing", "closed"} PROVE HeldWhole'
      BY <2>3 DEF HeldWhole
    <3>1. HeldWhole /\ Unharmed
      BY HarmStays, DurableParts
    <3>2. QED
      BY <1>1, <1>5, <2>1, <2>3, <3>1 DEF HeldWhole
  <2>6. GapKept'
    <3>1. head.from = "mirror" => final' \notin {"appending", "closing", "closed"}
      BY <1>3, <1>4 DEF EndSound
    <3>2. head.from # "mirror" => gap' = gap
      BY <1>4
    <3>3. final' \in {"appending", "closing", "closed"} => final' = final
      BY <1>4, <1>7
    <3>4. QED
      BY <1>1, <3>1, <3>2, <3>3, DurableParts DEF GapKept
  <2>7. QED
    BY <2>3, <2>4, <2>5, <2>6, DurableParts
<1>8. QED
  BY <1>6, <1>7

LEMMA DurableKept ==
  ASSUME TalkTypes, LinesOK, EndSound, SaidSound, QueueSound, DurableSound, Talk
  PROVE  DurableSound'
BY DurableKept1, DurableSaid, DurableFails, DurablePumped, DurableCompleted, DurableWritten
  DEF Talk


----------------------------------------------------------------------------
(* The marker of the record.                                               *)

LEMMA RecorderGoesOn ==
  ASSUME RecordNext
  PROVE  /\ recorder' \in {"open", "linking", "marking"} => recorder \in {"open", "linking", "marking"}
         /\ recorder' \in {"unlinking", "sweeping"} =>
              recorder \in {"unlinking", "sweeping"} \/ Marks \/ (recorder = "linking" /\ ~required)
         /\ required' = required
<1>1. recorder' \in {"open", "linking", "marking"} => recorder \in {"open", "linking", "marking"}
  BY
    DEF RecordNext, Reviewing, Finishing, Timeouts, Recorder, Beside, KeepsResult,
        RecordsTerminal,
         RecordsIncomplete, Records, EmitsCompleted, EmitsIncomplete, EmitsHeartbeat, Emits, Pumps,
         FinalBegins, FinalDrained, FinalCloses, FinalWritten, FinalRefused, CloseBegins, CloseEnds,
         Appended, Links, Marks, Unlinks, Closed, Publishes, Lists, Expires, SweepKept, Scavenges,
         Scavenged, Leaves, Crashes
<1>2. recorder' = recorder \/ Links \/ Marks \/ Unlinks \/ Closed \/ recorder' = "linking"
  BY
    DEF RecordNext, Reviewing, Finishing, Timeouts, Recorder, Beside, KeepsResult,
        RecordsTerminal,
         RecordsIncomplete, Records, EmitsCompleted, EmitsIncomplete, EmitsHeartbeat, Emits, Pumps,
         FinalBegins, FinalDrained, FinalCloses, FinalWritten, FinalRefused, CloseBegins, CloseEnds,
         Appended, Publishes, Lists, Expires, SweepKept, Scavenges,
         Scavenged, Leaves, Crashes
<1>3. recorder' \in {"unlinking", "sweeping"} =>
        recorder \in {"unlinking", "sweeping"} \/ Marks \/ (recorder = "linking" /\ ~required)
  BY <1>2 DEF Links, Unlinks, Closed
<1>4. required' = required
  BY
    DEF RecordNext, Reviewing, Finishing, Timeouts, Recorder, Beside, KeepsResult,
        RecordsTerminal,
         RecordsIncomplete, Records, EmitsCompleted, EmitsIncomplete, EmitsHeartbeat, Emits, Pumps,
         FinalBegins, FinalDrained, FinalCloses, FinalWritten, FinalRefused, CloseBegins, CloseEnds,
         Appended, Links, Marks, Unlinks, Closed, Publishes, Lists, Expires, SweepKept, Scavenges,
         Scavenged, Leaves, Crashes, subject
<1>5. QED
  BY <1>1, <1>3, <1>4

LEMMA FinalGoesOn ==
  ASSUME RecordNext, LinesOK, SaidSound, EndSound
  PROVE  /\ final' = "closed" => final = "closed" \/ (final = "closing" /\ recorder = "sweeping")
         /\ final' = "closing" =>
              final = "closing" \/ (final \in {"draining", "appending"} /\ recorder' = recorder)
<1>1. ASSUME final' = "closed" PROVE final = "closed" \/ (final = "closing" /\ recorder = "sweeping")
  BY <1>1
    DEF RecordNext, Reviewing, Finishing, Timeouts, Recorder, Beside, KeepsResult,
        RecordsTerminal,
         RecordsIncomplete, Records, EmitsCompleted, EmitsIncomplete, EmitsHeartbeat, Emits, Pumps,
         FinalBegins, FinalDrained, FinalCloses, FinalWritten, FinalRefused, CloseBegins, CloseEnds,
         Appended, Links, Marks, Unlinks, Closed, Publishes, Lists, Expires, SweepKept, Scavenges,
         Scavenged, Leaves, Crashes, Told, FinalClosed
<1>2. Talk
  BY AllTalk
<1>3. ASSUME NEW head, NEW ok \in BOOLEAN, WrittenDown(head, ok), final' = "closing"
      PROVE  final = "closing" \/ (final = "appending" /\ recorder' = recorder)
  <2>1. appends # <<>> /\ head = Head(appends) /\ Told(head.from, ok) /\ recorder' = recorder
    BY <1>3 DEF WrittenDown
  <2>2. head.from = "final" => final = "appending"
    BY <2>1, QueueMoves DEF LinesOK, SaidSound
  <2>3. QED
    BY <1>3, <2>1, <2>2 DEF Told
<1>4. ASSUME final' = "closing"
      PROVE  final = "closing" \/ (final \in {"draining", "appending"} /\ recorder' = recorder)
  BY <1>2, <1>3, <1>4
    DEF Talk, Moves, RecordedAs, Said, Fails, Pumped, Began, Drained, Completed
<1>5. QED
  BY <1>1, <1>4

LEMMA OwnersStay ==
  ASSUME RecordNext
  PROVE  /\ \A x \in owned : x \in owned'
         /\ Ours \in owned' => Ours \in owned \/ (recorder = "marking" /\ recorder' = "unlinking")
<1>1. DiskMoves
  BY DiskDo
<1>2. CASE DiskStays \/ Links1 \/ Unlinks
  BY <1>2 DEF DiskStays, Links1, Unlinks
<1>3. CASE Marks
  BY <1>3 DEF Marks
<1>4. CASE Publishes
  BY <1>4, Times DEF Publishes
<1>5. CASE \E w \in {Ours, Theirs} : Lists(w) \/ Expires(w)
  BY <1>5 DEF Lists, Expires
<1>6. QED
  BY <1>1, <1>2, <1>3, <1>4, <1>5 DEF DiskMoves

\* A record that holds run.completed is marked.
LEMMA MarkedWhole ==
  ASSUME LinesOK, EndSound, DurableSound, Unharmed, final = "closing", Marks
  PROVE  Ours \in owned'
<1>1. PICK l \in Nat : l = Len(stream)
  BY DEF LinesOK
<1>2. PICK x, t : x = Line("completed", Outcome) /\ t = Append(stream, x)
  OBVIOUS
<1>3. Holds(content, t, 1, l + 1)
  BY <1>1, <1>2, DurableParts DEF HeldWhole, EndSound
<1>4. t[l + 1] = x /\ l + 1 \in 1..(l + 1)
  BY <1>1, <1>2 DEF LinesOK
<1>5. PICK k \in DOMAIN content : content[k] = x
  BY <1>3, <1>4 DEF Holds
<1>6. x \in Range(content) /\ x.kind = "completed"
  BY <1>2, <1>5 DEF Range, Line
<1>7. QED
  BY <1>6 DEF Marks

LEMMA OwnedKept ==
  ASSUME TalkTypes, LinesOK, EndSound, SaidSound, DurableSound, OwnedSound, RecordNext
  PROVE  OwnedSound'
<1>1. Talk
  BY AllTalk
<1>2. Ours \in owned' => recorder' \notin {"open", "linking", "marking"}
  BY RecorderGoesOn, OwnersStay DEF OwnedSound
<1>3. ASSUME required', Unharmed', final' = "closed" PROVE Ours \in owned'
  BY <1>1, <1>3, HarmStays, RecorderGoesOn, FinalGoesOn, OwnersStay DEF OwnedSound
<1>4. ASSUME required', Unharmed', final' = "closing", recorder' \in {"unlinking", "sweeping"}
      PROVE  Ours \in owned'
  <2>1. Unharmed /\ required
    BY <1>1, <1>4, HarmStays, RecorderGoesOn
  <2>2. CASE final = "closing"
    <3>1. CASE recorder \in {"unlinking", "sweeping"}
      BY <2>1, <2>2, <3>1, OwnersStay DEF OwnedSound
    <3>2. CASE Marks
      BY <2>1, <2>2, <3>2, MarkedWhole
    <3>3. QED
      BY <1>4, <2>1, <3>1, <3>2, RecorderGoesOn
  <2>3. CASE final \in {"draining", "appending"} /\ recorder' = recorder
    BY <1>4, <2>3 DEF EndSound
  <2>4. QED
    BY <1>4, <2>2, <2>3, FinalGoesOn
<1>5. QED
  BY <1>2, <1>3, <1>4 DEF OwnedSound

----------------------------------------------------------------------------
(* The retention.                                                          *)

\* What a recorder that removes has seen.
Oldest(o, there, marked) ==
  /\ o \in marked /\ o # Theirs
  /\ o \in there => Cardinality(there \cap marked) > MaxRuns /\ \A x \in there \cap marked : o <= x

LEMMA RetentionParts ==
  /\ RetentionSound <=>
       /\ records \subseteq 1..Theirs /\ owned \subseteq 1..Theirs
       /\ Theirs \in owned => sweep[Theirs].step # "idle"
       /\ \A w \in {Ours, Theirs} : sweep[w].step = "removing" => Oldest(sweep[w].oldest, records, owned)
  /\ RetentionSound' <=>
       /\ records' \subseteq 1..Theirs /\ owned' \subseteq 1..Theirs
       /\ Theirs \in owned' => sweep'[Theirs].step # "idle"
       /\ \A w \in {Ours, Theirs} : sweep'[w].step = "removing" => Oldest(sweep'[w].oldest, records', owned')
BY DEF RetentionSound, Oldest, Owned

\* A younger record does not change which one is the oldest.
LEMMA OldestStays ==
  ASSUME NEW there \in SUBSET (1..Theirs), NEW marked \in SUBSET (1..Theirs), NEW o,
         Oldest(o, there, marked),
         NEW more \in SUBSET (1..Theirs), NEW also \in SUBSET (1..Theirs),
         marked \subseteq also, there \subseteq more, o \in more => o \in there,
         \A x \in (more \cap also) \ (there \cap marked) : o <= x
  PROVE  Oldest(o, more, also)
<1>1. IsFiniteSet(1..Theirs)
  BY Times, FS_Interval
<1>2. PICK A, B : A = there \cap marked /\ B = more \cap also
  OBVIOUS
<1>3. A \subseteq B /\ B \subseteq 1..Theirs
  BY <1>2
<1>4. IsFiniteSet(B)
  BY <1>1, <1>3, FS_Subset
<1>5. IsFiniteSet(A) /\ Cardinality(A) <= Cardinality(B)
  BY <1>3, <1>4, FS_Subset
<1>6. Cardinality(A) \in Nat /\ Cardinality(B) \in Nat /\ MaxRuns \in Nat
  BY <1>4, <1>5, FS_CardinalityType, RecordBoundsAssumption
<1>7. o \in more => Cardinality(B) > MaxRuns /\ \A x \in B : o <= x
  <2> SUFFICES ASSUME o \in more PROVE Cardinality(B) > MaxRuns /\ \A x \in B : o <= x
    OBVIOUS
  <2>1. Cardinality(A) > MaxRuns /\ \A x \in A : o <= x
    BY <1>2 DEF Oldest
  <2>2. Cardinality(B) > MaxRuns
    BY <1>5, <1>6, <2>1
  <2>3. \A x \in B : o <= x
    BY <1>2, <2>1
  <2>4. QED
    BY <2>2, <2>3
<1>8. QED
  BY <1>2, <1>7 DEF Oldest

LEMMA RetentionKept ==
  ASSUME DiskTypes, DiskTypes', SweepOK, OwnedSound, RetentionSound, RecordNext
  PROVE  RetentionSound'
<1>0. /\ records \subseteq 1..Theirs /\ owned \subseteq 1..Theirs
      /\ records' \subseteq 1..Theirs /\ owned' \subseteq 1..Theirs
      /\ Ours \in 1..Theirs /\ Theirs \in 1..Theirs /\ Ours # Theirs /\ Theirs \in Nat
      /\ Theirs = Ours + 1 /\ Ours \in Nat
  BY Times, RecordBoundsAssumption DEF DiskTypes, Ours, Theirs
<1>1. ASSUME Theirs \in owned' PROVE sweep'[Theirs].step # "idle"
  <2>1. CASE DiskStays
    BY <1>1, <2>1 DEF DiskStays, RetentionSound
  <2>2. CASE Links1 \/ Marks
    BY <1>0, <1>1, <2>2 DEF Links1, Marks, RetentionSound
  <2>3. CASE Unlinks
    BY <1>0, <1>1, <2>3 DEF Unlinks, RetentionSound, SweepOK
  <2>4. CASE Publishes
    BY <1>0, <2>4 DEF Publishes, SweepOK
  <2>5. ASSUME NEW w \in {Ours, Theirs}, Lists(w) PROVE sweep'[Theirs].step # "idle"
    <3>1. PICK s : sweep' = [sweep EXCEPT ![w] = s] /\ s.step # "idle"
      <4>1. PICK s : s = IF Cardinality(Owned) <= MaxRuns THEN [step |-> "done", oldest |-> 0]
                         ELSE [step |-> "removing", oldest |-> Min(Owned)]
        OBVIOUS
      <4>2. s.step = "done" \/ s.step = "removing"
        BY <4>1
      <4>3. sweep' = [sweep EXCEPT ![w] = s]
        BY <2>5, <4>1 DEF Lists
      <4>4. QED
        BY <4>2, <4>3
    <3>2. QED
      BY <1>0, <1>1, <2>5, <3>1 DEF Lists, RetentionSound, SweepOK
  <2>6. ASSUME NEW w \in {Ours, Theirs}, Expires(w) PROVE sweep'[Theirs].step # "idle"
    BY <1>0, <1>1, <2>6 DEF Expires, RetentionSound, SweepOK
  <2>7. QED
    BY <2>1, <2>2, <2>3, <2>4, <2>5, <2>6, DiskDo DEF DiskMoves
<1>2. ASSUME NEW v \in {Ours, Theirs}, sweep'[v].step = "removing"
      PROVE  Oldest(sweep'[v].oldest, records', owned')
  <2>1. CASE DiskStays
    BY <1>2, <2>1, RetentionParts DEF DiskStays
  <2>2. CASE Links1
    <3>1. PICK o : o = sweep[v].oldest /\ o = sweep'[v].oldest
      BY <2>2 DEF Links1
    <3>2. Oldest(o, records, owned)
      BY <1>2, <2>2, <3>1, RetentionParts DEF Links1
    <3>3. Ours \notin owned /\ records' = records \cup {Ours} /\ owned' = owned
      BY <2>2 DEF Links1, OwnedSound
    <3>4. o \in owned
      BY <3>2 DEF Oldest
    <3>5. QED
      BY <1>0, <3>1, <3>2, <3>3, <3>4, OldestStays
  <2>3. CASE Marks
    <3>1. PICK o : o = sweep[v].oldest /\ o = sweep'[v].oldest
      BY <2>3 DEF Marks
    <3>2. Oldest(o, records, owned)
      BY <1>2, <2>3, <3>1, RetentionParts DEF Marks
    <3>3. records' = records /\ owned \subseteq owned' /\ owned' \subseteq owned \cup {Ours}
      BY <2>3 DEF Marks
    <3>4. o \in 1..Theirs /\ o # Theirs
      BY <1>0, <3>2 DEF Oldest
    <3>5. o <= Ours
      BY <1>0, <3>4
    <3>6. \A x \in (records' \cap owned') \ (records \cap owned) : x = Ours
      BY <3>3
    <3>7. QED
      BY <1>0, <3>1, <3>2, <3>3, <3>5, <3>6, OldestStays
  <2>4. CASE Unlinks
    <3>1. sweep'[v] = sweep[v] /\ records' = records /\ owned' = owned
      BY <1>0, <1>2, <2>4 DEF Unlinks, SweepOK
    <3>2. QED
      BY <1>2, <3>1, RetentionParts
  <2>5. CASE Publishes
    <3>1. sweep'[v] = sweep[v]
      BY <1>0, <1>2, <2>5 DEF Publishes, SweepOK
    <3>2. PICK o : o = sweep[v].oldest /\ o = sweep'[v].oldest
      BY <3>1
    <3>3. Oldest(o, records, owned)
      BY <1>2, <3>1, <3>2, RetentionParts
    <3>4. records' = records \cup {Theirs} /\ owned' = owned \cup {Theirs}
      BY <2>5 DEF Publishes
    <3>5. o \in 1..Theirs /\ o # Theirs
      BY <1>0, <3>3 DEF Oldest
    <3>6. o <= Theirs
      BY <1>0, <3>5
    <3>8. Theirs \notin owned /\ (o \in records' => o \in records)
      BY <2>5, <3>4, <3>5 DEF Publishes, RetentionSound
    <3>9. \A x \in (records' \cap owned') \ (records \cap owned) : x = Theirs
      BY <3>4, <3>8
    <3>10. QED
      BY <1>0, <3>2, <3>3, <3>4, <3>6, <3>8, <3>9, OldestStays
  <2>6. ASSUME NEW w \in {Ours, Theirs}, Lists(w)
        PROVE  Oldest(sweep'[v].oldest, records', owned')
    <3>1. records' = records /\ owned' = owned
      BY <2>6 DEF Lists
    <3>2. CASE v # w
      <4>1. sweep'[v] = sweep[v]
        BY <2>6, <3>2 DEF Lists, SweepOK
      <4>2. QED
        BY <1>2, <3>1, <4>1, RetentionParts
    <3>3. CASE v = w
      <4>1. ~(Cardinality(Owned) <= MaxRuns) /\ sweep'[v].oldest = Min(Owned)
        BY <1>2, <2>6, <3>3 DEF Lists, SweepOK
      <4>2. Cardinality(Owned) > MaxRuns
        BY <1>0, <4>1, OwnedFinite, RecordBoundsAssumption
      <4>3. PICK o : o = Min(Owned)
        OBVIOUS
      <4>4. o \in Owned /\ (\A x \in Owned : o <= x) /\ o # Theirs
        BY <1>0, <4>2, <4>3, OldestOwned
      <4>5. Oldest(o, records, owned)
        BY <4>2, <4>4 DEF Oldest, Owned
      <4>6. QED
        BY <3>1, <4>1, <4>3, <4>5
    <3>4. QED
      BY <3>2, <3>3
  <2>7. ASSUME NEW w \in {Ours, Theirs}, Expires(w)
        PROVE  Oldest(sweep'[v].oldest, records', owned')
    <3>1. v # w /\ sweep'[v] = sweep[v] /\ owned' = owned /\ sweep[w].step = "removing"
          /\ records' = records \ {sweep[w].oldest}
      BY <1>2, <2>7 DEF Expires, SweepOK
    <3>2. PICK o, p : o = sweep[v].oldest /\ p = sweep[w].oldest
      OBVIOUS
    <3>3. Oldest(o, records, owned) /\ Oldest(p, records, owned)
      BY <1>2, <3>1, <3>2, RetentionParts
    <3>4. CASE o \in records'
      <4>1. o \in records /\ o # p /\ o \in owned /\ p \in owned
        BY <3>1, <3>2, <3>3, <3>4 DEF Oldest
      <4>2. p \notin records
        <5>1. p \in records => o <= p /\ p <= o
          BY <3>3, <4>1 DEF Oldest
        <5>2. o \in Nat /\ p \in Nat
          BY <1>0, <4>1
        <5>3. QED
          BY <4>1, <5>1, <5>2
      <4>3. records' = records
        BY <3>1, <3>2, <4>2
      <4>4. QED
        BY <3>1, <3>2, <3>3, <4>3
    <3>5. CASE o \notin records'
      BY <3>1, <3>2, <3>3, <3>5 DEF Oldest
    <3>6. QED
      BY <3>4, <3>5
  <2>8. QED
    BY <2>1, <2>2, <2>3, <2>4, <2>5, <2>6, <2>7, DiskDo DEF DiskMoves
<1>3. QED
  BY <1>0, <1>1, <1>2, RetentionParts


----------------------------------------------------------------------------
(* The invariant.                                                          *)

LEMMA RecordBegins ==
  ASSUME RecordInit
  PROVE  RecordInv
<1>1. PICK first : first = Line("resolution", "none")
  OBVIOUS
<1>2. first \in Lines /\ first.kind = "resolution" /\ first.kind \notin Public /\ content = <<first>>
  BY <1>1 DEF RecordInit, Line, Lines, Kinds, Public
<1>3. content \in Seq(Lines) /\ DOMAIN content = {1} /\ content[1] = first
  BY <1>2
<1>4. /\ stream = <<>> /\ mirror = <<>> /\ appends = <<>> /\ ~inflight /\ mirroring /\ ~gap
      /\ final = "no" /\ run = "reviewing" /\ recorder = "open" /\ ~broken /\ ~torn /\ ~scarred
      /\ at = [r \in Reviewers |-> "reviewing"] /\ records = 1..Older /\ owned = 1..Older \ Unowned
      /\ sweep = [w \in {Ours, Theirs} |-> [step |-> "idle", oldest |-> 0]]
  BY DEF RecordInit
<1>5. /\ <<>> \in Seq(Lines) /\ <<>> \in Seq(Entries) /\ Len(<<>>) = 0 /\ DOMAIN <<>> = {}
  OBVIOUS
<1>6. TalkTypes
  BY <1>4, <1>5, NoLines DEF RecordInit, TalkTypes, Places
<1>7. /\ Older \in Nat /\ Ours \notin 1..Older /\ Theirs \notin 1..Older /\ 1..Older \subseteq 1..Theirs
      /\ 0 \in 0..MaxBeats /\ 0 \in 0..MaxFaults
  BY RecordBoundsAssumption DEF Ours, Theirs
<1>8. DiskTypes
  BY <1>4, <1>7 DEF RecordInit, DiskTypes
<1>9. LinesOK
  BY <1>3, <1>4, <1>5 DEF LinesOK
<1>10. SweepOK
  BY <1>4, Times DEF SweepOK
<1>11. EndSound
  BY <1>4 DEF EndSound
<1>12. SaidSound
  BY <1>2, <1>3, <1>4, <1>5 DEF SaidSound
<1>13. QueueSound
  BY <1>4, <1>5 DEF QueueSound
<1>14. Mirrored(0, 0)
  <2>1. Holds(<<>>, <<>>, 1, 0)
    BY HoldsNone
  <2>2. Holds(content, <<>>, 1, 0)
    <3>1. [i \in {} |-> 0] \in [{} -> DOMAIN content] /\ 1..0 = {}
      OBVIOUS
    <3>2. \A k \in DOMAIN content : content[k].kind \notin Public
      BY <1>2, <1>3
    <3>3. QED
      BY <3>1, <3>2 DEF Holds
  <2>3. QED
    BY <1>4, <1>5, <2>1, <2>2 DEF Mirrored
<1>15. DurableSound
  <2>1. 0 \in 0..Len(stream)
    BY <1>4, <1>5
  <2>2. Waits
    BY <1>14, <2>1 DEF Waits
  <2>3. HeldWhole /\ GapKept
    BY <1>4 DEF HeldWhole, GapKept
  <2>4. QED
    BY <1>4, <2>2, <2>3, DurableParts
<1>16. OwnedSound
  BY <1>4, <1>7 DEF OwnedSound
<1>17. RetentionSound
  BY <1>4, <1>7, <1>8 DEF RetentionSound, DiskTypes
<1>18. QED
  BY <1>6, <1>8, <1>9, <1>10, <1>11, <1>12, <1>13, <1>15, <1>16, <1>17, TwoTypes DEF RecordInv

LEMMA RecordGoesOn ==
  ASSUME RecordInv, [RecordNext]_recordVars
  PROVE  RecordInv'
<1>1. ASSUME RecordNext PROVE RecordInv'
  <2>1. /\ RecordTypeOK /\ LinesOK /\ SweepOK /\ EndSound /\ SaidSound /\ QueueSound /\ DurableSound
        /\ OwnedSound /\ RetentionSound /\ TalkTypes /\ DiskTypes /\ appends \in Seq(Entries)
    BY TwoTypes DEF RecordInv, LinesOK
  <2>2. Talk
    BY <1>1, <2>1, AllTalk
  <2>3. RecordTypeOK' /\ LinesOK' /\ SweepOK' /\ DiskTypes'
    BY <1>1, <2>1, RecordTypes, TwoTypes
  <2>4. EndSound'
    BY <2>1, <2>2, EndKept
  <2>5. SaidSound'
    BY <2>1, <2>2, SaidKept
  <2>6. QueueSound'
    BY <2>1, <2>2, QueueKept
  <2>7. DurableSound'
    BY <2>1, <2>2, DurableKept
  <2>8. OwnedSound'
    BY <1>1, <2>1, OwnedKept
  <2>9. RetentionSound'
    BY <1>1, <2>1, <2>3, RetentionKept
  <2>10. QED
    BY <2>3, <2>4, <2>5, <2>6, <2>7, <2>8, <2>9 DEF RecordInv
<1>2. ASSUME UNCHANGED recordVars PROVE RecordInv'
  <2>1. /\ UNCHANGED <<required, verdict, at, alive, run, stream, broken, mirror, inflight, mirroring, gap>>
        /\ UNCHANGED <<final, appends, recorder, content, torn, scarred, active, records, owned, sweep>>
        /\ UNCHANGED <<beats, faults>>
    BY <1>2 DEF recordVars, subject, writer, bytes, directory
  <2>2. /\ RecordTypeOK /\ LinesOK /\ SweepOK /\ EndSound /\ SaidSound /\ QueueSound /\ DurableSound
        /\ OwnedSound /\ RetentionSound
    BY DEF RecordInv
  <2>3. RecordTypeOK'
    BY <2>1, <2>2 DEF RecordTypeOK
  <2>4. LinesOK' /\ SweepOK'
    BY <2>1, <2>2 DEF LinesOK, SweepOK
  <2>5. Moves
    BY <2>1 DEF Moves
  <2>6. Talk
    BY <2>5 DEF Talk
  <2>7. TalkTypes /\ appends \in Seq(Entries)
    BY <2>2, TwoTypes DEF LinesOK
  <2>8. EndSound' /\ SaidSound' /\ QueueSound' /\ DurableSound'
    BY <2>2, <2>6, <2>7, EndKept, SaidKept, QueueKept, DurableKept
  <2>9. OwnedSound' /\ RetentionSound'
    BY <2>1, <2>2 DEF OwnedSound, Unharmed, RetentionSound, Owned
  <2>10. QED
    BY <2>3, <2>4, <2>8, <2>9 DEF RecordInv
<1>3. QED
  BY <1>1, <1>2

LEMMA DurableHonest ==
  ASSUME RecordInv
  PROVE  CompletionIsDurable
<1> SUFFICES ASSUME run = "completed", required, ~scarred
             PROVE  Ours \in owned /\ Holds(content, stream, 1, Len(stream))
  BY DEF CompletionIsDurable
<1>1. final = "closed"
  BY DEF RecordInv, EndSound
<1>2. ~gap
  BY <1>1, DurableParts DEF RecordInv, GapKept
<1>3. Unharmed
  BY <1>1, <1>2 DEF Unharmed
<1>4. QED
  BY <1>1, <1>3, DurableParts DEF RecordInv, HeldWhole, OwnedSound

\* What a record says of its end is the outcome of the run.
LEMMA CompletionsAgree ==
  ASSUME RecordInv, NEW line \in Completions(content)
  PROVE  line.of = Outcome /\ \A r \in Reviewers : Has(stream, "done", r) \/ Has(stream, "incomplete", r)
<1>1. PICK i \in DOMAIN content : content[i] = line
  BY DEF Completions, Range
<1>2. content[i].kind = "completed"
  BY <1>1 DEF Completions
<1>3. final # "no" /\ content[i].of = Outcome
  BY <1>2 DEF RecordInv, SaidSound
<1>4. QED
  BY <1>1, <1>3 DEF RecordInv, EndSound, SaidSound

LEMMA StatusHonest ==
  ASSUME RecordInv, NEW isActive, Status(content, torn, isActive) \in {"passed", "findings"}
  PROVE  ~IsDamaged(content) /\ Status(content, torn, isActive) = Outcome
<1>1. /\ ~Unreadable(content, torn, isActive) /\ Completions(content) # {}
      /\ Status(content, torn, isActive) = (CHOOSE line \in Completions(content) : TRUE).of
  BY DEF Status
<1>2. (CHOOSE line \in Completions(content) : TRUE) \in Completions(content)
  BY <1>1
<1>3. QED
  BY <1>1, <1>2, CompletionsAgree DEF Unreadable

LEMMA ReportHonest ==
  ASSUME RecordInv, NEW isActive, NEW effort, Report(content, torn, isActive, effort) \in {"passed", "findings"}
  PROVE  /\ ~IsDamaged(content)
         /\ Completions(content) # {} => Report(content, torn, isActive, effort) = Outcome
<1>1. PICK warned : warned = Faulty(content, torn, isActive)
  OBVIOUS
<1>2. Report(content, torn, isActive, effort) = Verdict(content, warned)
  BY <1>1 DEF Report
<1>3. ~Partial(content, warned)
      /\ Verdict(content, warned) = (IF Findings(content) THEN "findings" ELSE "passed")
  BY <1>2 DEF Verdict
<1>4. ~Faulty(content, torn, isActive)
  BY <1>1, <1>3 DEF Partial
<1>5. ~IsDamaged(content) /\ Agrees(content)
  BY <1>4 DEF Faulty, Unreadable
<1>6. ASSUME Completions(content) # {} PROVE Verdict(content, warned) = Outcome
  <2>1. PICK line \in Completions(content) : line.of # "incomplete"
    BY <1>3, <1>6 DEF Partial
  <2>2. Outcome # "incomplete" /\ \A r \in Reviewers : Has(stream, "done", r) \/ Has(stream, "incomplete", r)
    BY <2>1, CompletionsAgree
  <2>3. \A r \in Reviewers : ~Has(stream, "incomplete", r)
    BY <2>2, OutcomeHas
  <2>4. Results(content) = Reviewers
    BY <1>5, <1>6, <2>2, <2>3 DEF Agrees, Manifest
  <2>5. Findings(content) <=> \E r \in Reviewers : verdict[r] = "fail"
    BY <2>4 DEF Findings
  <2>6. Outcome = IF \E r \in Reviewers : verdict[r] = "fail" THEN "findings" ELSE "passed"
    BY <2>3, OutcomeHas
  <2>7. QED
    BY <1>3, <2>5, <2>6
<1>7. QED
  BY <1>2, <1>5, <1>6

LEMMA ReportsHonest ==
  ASSUME RecordInv
  PROVE  ReportsAreTrue
<1> SUFFICES ASSUME NEW kind \in Readers, Answer(kind) \in {"passed", "findings"}
             PROVE  /\ Completions(content) # {} => Answer(kind) = Outcome
                    /\ Answer(kind) = "passed" => ~IsDamaged(content)
  BY DEF ReportsAreTrue
<1>1. CASE kind = "status"
  <2>1. Answer(kind) = Status(content, torn, Ours \notin records)
    BY <1>1 DEF Answer
  <2>2. QED
    BY <2>1, StatusHonest
<1>2. CASE kind # "status"
  <2>1. Answer(kind) = Report(content, torn, Ours \notin records, kind = "salvage")
    BY <1>2 DEF Answer
  <2>2. QED
    BY <2>1, ReportHonest
<1>3. QED
  BY <1>1, <1>2

LEMMA RetentionHonest ==
  ASSUME RecordInv, RecordNext, NEW w \in records \ records'
  PROVE  /\ w \in owned
         /\ Cardinality({x \in records' \cap owned : x > w}) >= MaxRuns
<1>1. /\ records \subseteq 1..Theirs /\ owned \subseteq 1..Theirs /\ MaxRuns \in Nat
  BY RecordBoundsAssumption DEF RecordInv, RetentionSound
<1>2. PICK v \in {Ours, Theirs} : Expires(v)
  BY DiskDo DEF DiskMoves, DiskStays, Links1, Marks, Unlinks, Publishes, Lists
<1>3. sweep[v].step = "removing" /\ w = sweep[v].oldest /\ records' = records \ {w}
  BY <1>2 DEF Expires
<1>4. Oldest(w, records, owned)
  BY <1>3, RetentionParts DEF RecordInv
<1>5. w \in owned /\ w \in Owned /\ Cardinality(Owned) > MaxRuns /\ \A x \in Owned : w <= x
  BY <1>4 DEF Oldest, Owned
<1>6. IsFiniteSet(Owned) /\ Cardinality(Owned) \in Nat
  BY <1>1, OwnedFinite
<1>7. Cardinality(Owned \ {w}) = Cardinality(Owned) - 1
  BY <1>5, <1>6, FS_RemoveElement
<1>8. Cardinality(Owned \ {w}) >= MaxRuns
  BY <1>1, <1>5, <1>6, <1>7
<1>9. {x \in records' \cap owned : x > w} = Owned \ {w}
  <2>1. \A x \in Owned : x \in Nat /\ (x > w <=> x # w)
    BY <1>1, <1>5 DEF Owned
  <2>2. QED
    BY <1>3, <2>1 DEF Owned
<1>10. QED
  BY <1>5, <1>8, <1>9

\* In every state of the record the lines of its queues and files, the steps of its
\* end, the marker and the retention fit together (event-writer.ts, run-recorder.ts).
THEOREM RecordInvariant == RecordSpec => []RecordInv
<1>1. RecordInit => RecordInv
  BY RecordBegins
<1>2. RecordInv /\ [RecordNext]_recordVars => RecordInv'
  BY RecordGoesOn
<1>3. QED
  BY <1>1, <1>2, PTL DEF RecordSpec

\* A run.completed on standard output stands for a record that is published, marked
\* and holds what was said, and no reader makes a pass of what it could not read or
\* of another outcome (run-recorder.ts, run-report.ts).
THEOREM RecordStaysHonest == RecordSpec => []RecordIsHonest
<1>1. RecordInv => RecordIsHonest
  BY DurableHonest, ReportsHonest DEF RecordIsHonest, RecordInv
<1>2. QED
  BY <1>1, RecordInvariant, PTL

\* Two recorders that enforce the retention at the same time remove only records of
\* their own kind, and never one of the newest (removeExpiredRuns in run-recorder.ts).
THEOREM RetentionIsKept == RecordSpec => RetentionKeepsNewest
<1>1. RecordInv /\ [RecordNext]_recordVars =>
        [\A w \in records \ records' :
           /\ w \in owned
           /\ Cardinality({x \in records' \cap owned : x > w}) >= MaxRuns]_recordVars
  BY RetentionHonest
<1>2. QED
  BY <1>1, RecordInvariant, PTL DEF RecordSpec, RetentionKeepsNewest

-----------------------------------------------------------------------------
(***************************************************************************)
(* The spool of result pages.                                              *)
(***************************************************************************)
\* A host has an active spool exactly between the making of its directory and the
\* judgement of its page, and nothing when it does not review.
PlacesSound ==
  \A h \in Hosts :
    /\ page[h] # NoSpool <=> pc[h] \in {"index", "open", "write", "reject"}
    /\ pc[h] \in {"idle", "dead"} => accepted[h] = {}
    /\ pc[h] = "persist" => accepted[h] \subseteq recorded

\* What a host holds is its own, has not been given to the diagnostics, and is
\* younger than a sweep touches; accepted pages have their bytes.
HeldSound ==
  /\ \A h \in Hosts :
       /\ page[h] \notin accepted[h]
       /\ \A s \in accepted[h] : file[s] = "full"
       /\ \A s \in Held(h) : age[s] <= Limit /\ s \notin manifests
  /\ \A g, h \in Hosts : g # h => Held(g) \cap Held(h) = {}

\* A directory that has not been made holds nothing and is known to nobody.
UnmadeSound ==
  \A s \in Spools : age[s] = NoDirectory => file[s] = "none" /\ s \notin manifests

\* A spool is indexed before its file is opened.
IndexSound ==
  /\ \A s \in Spools : file[s] # "none" => Indexed(s)
  /\ \A h \in Hosts : pc[h] \in {"open", "write", "reject"} => Indexed(page[h])

SInv == SpoolTypeOK /\ PlacesSound /\ HeldSound /\ UnmadeSound /\ IndexSound /\ PageIsKept

-----------------------------------------------------------------------------
(* Every step.                                                             *)

\* The window of a sweep lies in the index.
LEMMA WindowIs ==
  ASSUME SpoolTypeOK
  PROVE  /\ NextOffset \in Nat
         /\ SubSeq(index, Offset + 1, NextOffset) \in Seq(Spools)
<1>1. index \in Seq(Spools) /\ Len(index) \in Nat /\ cursor \in Nat /\ Window \in Nat
  BY SpoolAssumption DEF SpoolTypeOK
<1>2. PICK a, b : a = Offset /\ b = NextOffset
  OBVIOUS
<1>3. a \in Nat /\ b \in Nat /\ b <= Len(index)
  BY <1>1, <1>2 DEF Offset, NextOffset, Smaller
<1>4. SubSeq(index, a + 1, b) \in Seq(Spools)
  <2>1. \A i \in (a + 1)..b : i \in 1..Len(index)
    BY <1>1, <1>3
  <2>2. \A i \in (a + 1)..b : index[i] \in Spools
    BY <1>1, <2>1
  <2>3. QED
    BY <1>1, <1>3, <2>2
<1>5. QED
  BY <1>2, <1>3, <1>4

LEMMA BeginSweepKeeps ==
  ASSUME SInv, NEW h \in Hosts, NEW from \in {"idle", "page"}, BeginSweep(h, from)
  PROVE  SInv'
<1>1. SpoolTypeOK'
  <2>1. SpoolTypeOK /\ pc' = [pc EXCEPT ![h] = "sweep"]
    BY DEF SInv, BeginSweep, Goto
  <2>2. PICK w, n : w = SubSeq(index, Offset + 1, NextOffset) /\ n = NextOffset
    OBVIOUS
  <2>3. w \in Seq(Spools) /\ n \in Nat
    BY <2>1, <2>2, WindowIs
  <2>4. names' = [names EXCEPT ![h] = w] /\ next' = [next EXCEPT ![h] = IF n = Len(index) THEN 0 ELSE n]
    BY <2>2 DEF BeginSweep
  <2>5. UNCHANGED <<disk, reviewing, crashes>>
    BY DEF BeginSweep
  <2>6. QED
    BY <2>1, <2>3, <2>4, <2>5 DEF SpoolTypeOK, Points, disk, reviewing
<1>2. PlacesSound'
  BY DEF SInv, PlacesSound, BeginSweep, Goto, disk, reviewing
<1>3. HeldSound'
  BY DEF SInv, HeldSound, Held, BeginSweep, disk, reviewing
<1>4. UnmadeSound'
  BY DEF SInv, UnmadeSound, BeginSweep, disk
<1>5. IndexSound'
  BY DEF SInv, IndexSound, Indexed, BeginSweep, Goto, disk, reviewing
<1>6. PageIsKept'
  BY DEF SInv, PageIsKept, BeginSweep, Goto, disk, reviewing
<1>7. QED
  BY <1>1, <1>2, <1>3, <1>4, <1>5, <1>6 DEF SInv

LEMMA SweepEntryKeeps ==
  ASSUME SInv, NEW h \in Hosts, SweepEntry(h)
  PROVE  SInv'
<1>1. PICK s \in Spools :
        file' = IF Stale(s) THEN [file EXCEPT ![s] = "wiped"] ELSE file
  <2>1. names[h] \in Seq(Spools) /\ names[h] # <<>>
    BY DEF SInv, SpoolTypeOK, SweepEntry
  <2>2. Head(names[h]) \in Spools
    BY <2>1
  <2>3. QED
    BY <2>2 DEF SweepEntry
<1>2. UNCHANGED <<age, index, cursor, manifests, recorded, pc, next, page, accepted, crashes>>
  BY DEF SweepEntry, reviewing
<1>3. SpoolTypeOK'
  <2>1. names[h] \in Seq(Spools) /\ names[h] # <<>> /\ names' = [names EXCEPT ![h] = Tail(@)]
    BY DEF SInv, SpoolTypeOK, SweepEntry
  <2>2. Tail(names[h]) \in Seq(Spools)
    BY <2>1
  <2>3. names' \in [Hosts -> Seq(Spools)]
    BY <2>1, <2>2 DEF SInv, SpoolTypeOK
  <2>4. file' \in [Spools -> Contents]
    BY <1>1 DEF SInv, SpoolTypeOK, Contents
  <2>5. QED
    BY <1>2, <2>3, <2>4 DEF SInv, SpoolTypeOK
<1>4. PlacesSound'
  BY <1>2 DEF SInv, PlacesSound
<1>5. \A h2 \in Hosts : \A t \in Held(h2) : t \in Spools /\ age[t] < Retention
  <2>1. \A h2 \in Hosts : Held(h2) \subseteq Spools
    BY DEF SInv, SpoolTypeOK, Held
  <2>2. \A h2 \in Hosts : \A t \in Held(h2) : age[t] <= Limit /\ age[t] \in Nat
    BY <2>1, SpoolAssumption DEF SInv, HeldSound, SpoolTypeOK
  <2>3. QED
    BY <2>1, <2>2, SpoolAssumption
<1>6. HeldSound'
  <2>1. \A h2 \in Hosts : \A t \in accepted[h2] : file'[t] = "full"
    BY <1>1, <1>5 DEF SInv, HeldSound, SpoolTypeOK, Held, Stale
  <2>2. QED
    BY <1>2, <2>1 DEF SInv, HeldSound, Held
<1>7. UnmadeSound'
  BY SpoolAssumption, <1>1, <1>2 DEF SInv, UnmadeSound, Stale, NoDirectory
<1>8. IndexSound'
  BY <1>1, <1>2 DEF SInv, IndexSound, Stale, Indexed
<1>9. PageIsKept'
  <2>1. \A t \in Spools : file'[t] = "wiped" => file[t] = "wiped" \/ age[t] = Retention
    BY <1>1 DEF SInv, SpoolTypeOK, Stale
  <2>2. QED
    BY <1>2, <1>6, <2>1 DEF SInv, PageIsKept, HeldSound
<1>10. QED
  BY <1>3, <1>4, <1>6, <1>7, <1>8, <1>9 DEF SInv

LEMMA SweepEndsKeeps ==
  ASSUME SInv, NEW h \in Hosts, SweepEnds(h)
  PROVE  SInv'
<1>1. SpoolTypeOK'
  BY DEF SInv, SpoolTypeOK, Points, SweepEnds, Goto, reviewing
<1>2. PlacesSound'
  BY DEF SInv, PlacesSound, SweepEnds, Goto, reviewing
<1>3. HeldSound'
  BY DEF SInv, HeldSound, Held, SweepEnds, reviewing
<1>4. UnmadeSound'
  BY DEF SInv, UnmadeSound, SweepEnds
<1>5. IndexSound'
  BY DEF SInv, IndexSound, Indexed, SweepEnds, Goto, reviewing
<1>6. PageIsKept'
  BY DEF SInv, PageIsKept, SweepEnds, Goto, reviewing
<1>7. QED
  BY <1>1, <1>2, <1>3, <1>4, <1>5, <1>6 DEF SInv

LEMMA MakeDirectoryKeeps ==
  ASSUME SInv, NEW h \in Hosts, MakeDirectory(h)
  PROVE  SInv'
<1>1. PICK s \in Unmade : age' = [age EXCEPT ![s] = 0] /\ page' = [page EXCEPT ![h] = s]
  BY DEF MakeDirectory
<1>2. UNCHANGED <<file, index, cursor, manifests, recorded, sweeping, accepted, crashes>>
      /\ pc[h] = "mkdir" /\ pc' = [pc EXCEPT ![h] = "index"]
  BY DEF MakeDirectory, Goto
<1>3. SpoolTypeOK'
  BY SpoolAssumption, <1>1, <1>2 DEF SInv, SpoolTypeOK, Points, Unmade, sweeping
<1>4. PlacesSound'
  BY <1>1, <1>2 DEF SInv, PlacesSound, SpoolTypeOK, Unmade, Spools, NoSpool
<1>5. HeldSound'
  <2>1. \A g \in Hosts : Held(g) \subseteq Spools /\ s \notin Held(g)
    <3>1. \A g \in Hosts : Held(g) \subseteq Spools
      BY DEF SInv, SpoolTypeOK, Held
    <3>2. \A g \in Hosts : \A t \in Held(g) : age[t] # NoDirectory
      BY <3>1, SpoolAssumption DEF SInv, HeldSound, SpoolTypeOK, NoDirectory
    <3>3. QED
      BY <3>1, <3>2 DEF Unmade
  <2>2. s \in Spools /\ s \notin manifests
    BY DEF Unmade, SInv, UnmadeSound
  <2>3. \A g \in Hosts : accepted[g] \subseteq Held(g)
    BY DEF Held
  <2>4. Held(h)' = accepted[h] \cup {s} /\ \A g \in Hosts \ {h} : Held(g)' = Held(g)
    BY <1>1, <1>2, <2>2 DEF SInv, SpoolTypeOK, Held, Spools, NoSpool
  <2>5. age'[s] = 0 /\ \A t \in Spools \ {s} : age'[t] = age[t]
    BY <1>1, <2>2 DEF SInv, SpoolTypeOK
  <2>6. \A g \in Hosts : page'[g] \notin accepted'[g]
    BY <1>1, <1>2, <2>1, <2>3 DEF SInv, HeldSound, SpoolTypeOK
  <2>7. \A g \in Hosts : \A t \in Held(g)' : age'[t] <= Limit /\ t \notin manifests
    BY <2>1, <2>2, <2>3, <2>4, <2>5, SpoolAssumption DEF SInv, HeldSound
  <2>8. \A f, g \in Hosts : f # g => Held(f)' \cap Held(g)' = {}
    BY <2>1, <2>3, <2>4 DEF SInv, HeldSound
  <2>9. QED
    BY <1>2, <2>6, <2>7, <2>8 DEF SInv, HeldSound
<1>6. UnmadeSound'
  BY SpoolAssumption DEF SInv, UnmadeSound, NoDirectory, MakeDirectory
<1>7. IndexSound'
  BY DEF SInv, IndexSound, Indexed, MakeDirectory, Goto
<1>8. PageIsKept'
  BY SpoolAssumption DEF SInv, PageIsKept, HeldSound, Unmade, NoDirectory, MakeDirectory
<1>9. QED
  BY <1>3, <1>4, <1>5, <1>6, <1>7, <1>8 DEF SInv

LEMMA AppendIndexKeeps ==
  ASSUME SInv, NEW h \in Hosts, AppendIndex(h)
  PROVE  SInv'
<1>1. /\ UNCHANGED <<age, file, cursor, manifests, recorded, sweeping, accepted, crashes>>
      /\ pc[h] = "index" /\ page[h] \in Spools
  BY DEF SInv, PlacesSound, SpoolTypeOK, AppendIndex, Goto
<1>2. CASE Len(index) >= MaxIndex
  <2>1. pc' = [pc EXCEPT ![h] = "abandon"] /\ page' = [page EXCEPT ![h] = NoSpool] /\ index' = index
    BY <1>2 DEF AppendIndex, Goto
  <2>2. SpoolTypeOK'
    BY <1>1, <2>1 DEF SInv, SpoolTypeOK, Points, sweeping
  <2>3. PlacesSound'
    BY <1>1, <2>1 DEF SInv, PlacesSound, SpoolTypeOK
  <2>4. HeldSound'
    BY <1>1, <2>1 DEF SInv, HeldSound, SpoolTypeOK, Held, Spools, NoSpool
  <2>5. UnmadeSound'
    BY <1>1 DEF SInv, UnmadeSound
  <2>6. IndexSound'
    BY <1>1, <2>1 DEF SInv, IndexSound, SpoolTypeOK, Indexed
  <2>7. PageIsKept'
    BY <1>1, <2>1 DEF SInv, PageIsKept, HeldSound, SpoolTypeOK
  <2>8. QED
    BY <2>2, <2>3, <2>4, <2>5, <2>6, <2>7 DEF SInv
<1>3. CASE Len(index) < MaxIndex
  <2>1. pc' = [pc EXCEPT ![h] = "open"] /\ index' = Append(index, page[h]) /\ page' = page
    BY <1>3, SpoolAssumption DEF AppendIndex, Goto, SInv, SpoolTypeOK
  <2>2. /\ index' \in Seq(Spools) /\ Len(index') = Len(index) + 1
        /\ index'[Len(index) + 1] = page[h]
        /\ \A i \in 1..Len(index) : index'[i] = index[i]
    BY <1>1, <2>1 DEF SInv, SpoolTypeOK
  <2>3. SpoolTypeOK'
    BY <1>1, <1>3, <2>1, <2>2, SpoolAssumption DEF SInv, SpoolTypeOK, Points, sweeping
  <2>4. PlacesSound'
    BY <1>1, <2>1 DEF SInv, PlacesSound, SpoolTypeOK
  <2>5. HeldSound'
    BY <1>1, <2>1 DEF SInv, HeldSound, Held
  <2>6. UnmadeSound'
    BY <1>1 DEF SInv, UnmadeSound
  <2>7. (\A s \in Spools : Indexed(s) => Indexed(s)') /\ Indexed(page[h])'
    <3>1. index \in Seq(Spools) /\ Len(index) \in Nat
      BY DEF SInv, SpoolTypeOK
    <3>2. DOMAIN index = 1..Len(index) /\ DOMAIN index' = 1..(Len(index) + 1)
      BY <2>2, <3>1
    <3>3. QED
      BY <2>1, <2>2, <3>1, <3>2 DEF Indexed
  <2>8. IndexSound'
    BY <1>1, <2>1, <2>7 DEF SInv, IndexSound, PlacesSound, SpoolTypeOK
  <2>9. PageIsKept'
    BY <1>1, <2>1 DEF SInv, PageIsKept, HeldSound, SpoolTypeOK
  <2>10. QED
    BY <2>3, <2>4, <2>5, <2>6, <2>8, <2>9 DEF SInv
<1>4. QED
  BY <1>2, <1>3, SpoolAssumption DEF SInv, SpoolTypeOK

LEMMA OpenFileKeeps ==
  ASSUME SInv, NEW h \in Hosts, OpenFile(h)
  PROVE  SInv'
<1>1. SpoolTypeOK'
  BY DEF SInv, SpoolTypeOK, Points, Contents, OpenFile, Goto, sweeping, reviewing
<1>2. PlacesSound'
  BY DEF SInv, PlacesSound, OpenFile, Goto, reviewing
<1>3. HeldSound'
  <2>1. page[h] \in Held(h) /\ page[h] \in Spools
    BY DEF SInv, PlacesSound, SpoolTypeOK, OpenFile, Goto, Held
  <2>2. \A g \in Hosts : page[h] \notin accepted[g]
    BY <2>1 DEF SInv, HeldSound, Held
  <2>3. \A g \in Hosts : \A s \in accepted[g] : file'[s] = "full"
    BY <2>1, <2>2 DEF SInv, HeldSound, SpoolTypeOK, OpenFile
  <2>4. QED
    BY <2>3 DEF SInv, HeldSound, Held, OpenFile, reviewing
<1>4. UnmadeSound'
  BY SpoolAssumption
    DEF SInv, UnmadeSound, HeldSound, Held, Spools, NoSpool, NoDirectory, OpenFile
<1>5. IndexSound'
  BY DEF SInv, IndexSound, Indexed, OpenFile, Goto, reviewing
<1>6. PageIsKept'
  BY
    DEF SInv, PageIsKept, HeldSound, UnmadeSound, Held, SpoolTypeOK, Spools, NoSpool,
        NoDirectory, OpenFile, Goto, sweeping, reviewing
<1>7. QED
  BY <1>1, <1>2, <1>3, <1>4, <1>5, <1>6 DEF SInv

LEMMA TooLargeKeeps ==
  ASSUME SInv, NEW h \in Hosts, TooLarge(h)
  PROVE  SInv'
<1>1. SpoolTypeOK'
  BY DEF SInv, SpoolTypeOK, Points, TooLarge, Goto, disk, sweeping, reviewing
<1>2. PlacesSound'
  BY DEF SInv, PlacesSound, TooLarge, Goto, disk, reviewing
<1>3. HeldSound'
  BY DEF SInv, HeldSound, Held, TooLarge, disk, reviewing
<1>4. UnmadeSound'
  BY DEF SInv, UnmadeSound, TooLarge, disk
<1>5. IndexSound'
  BY DEF SInv, IndexSound, Indexed, TooLarge, Goto, disk, reviewing
<1>6. PageIsKept'
  BY DEF SInv, PageIsKept, TooLarge, Goto, disk, reviewing
<1>7. QED
  BY <1>1, <1>2, <1>3, <1>4, <1>5, <1>6 DEF SInv

LEMMA AcceptKeeps ==
  ASSUME SInv, NEW h \in Hosts, Accept(h)
  PROVE  SInv'
<1>1. PICK to \in {"page", "read", "abandon"} : pc' = [pc EXCEPT ![h] = to]
  BY DEF Accept, Goto
<1>2. /\ file' = [file EXCEPT ![page[h]] = "full"]
      /\ accepted' = [accepted EXCEPT ![h] = @ \cup {page[h]}]
      /\ page' = [page EXCEPT ![h] = NoSpool]
      /\ UNCHANGED <<age, index, cursor, manifests, recorded, sweeping, crashes>>
      /\ pc[h] = "write"
  BY DEF Accept, Goto
<1>3. page[h] \in Spools /\ page[h] \in Held(h)
  BY <1>2 DEF SInv, PlacesSound, SpoolTypeOK, Held
<1>4. SpoolTypeOK'
  BY <1>1, <1>2, <1>3 DEF SInv, SpoolTypeOK, Points, Contents, sweeping
<1>5. PlacesSound'
  BY <1>1, <1>2 DEF SInv, PlacesSound, SpoolTypeOK
<1>6. \A g \in Hosts : Held(g)' = Held(g)
  BY <1>2, <1>3 DEF SInv, SpoolTypeOK, Held
<1>7. HeldSound'
  <2>1. \A g \in Hosts : page'[g] \notin accepted'[g]
    <3>1. NoSpool \notin Spools
      BY DEF Spools, NoSpool
    <3>2. page'[h] = NoSpool /\ accepted'[h] \subseteq Spools
      BY <1>2, <1>3 DEF SInv, SpoolTypeOK
    <3>3. \A g \in Hosts \ {h} : page'[g] = page[g] /\ accepted'[g] = accepted[g]
      BY <1>2 DEF SInv, SpoolTypeOK
    <3>4. QED
      BY <3>1, <3>2, <3>3 DEF SInv, HeldSound
  <2>2. \A g \in Hosts : \A s \in accepted'[g] : file'[s] = "full"
    BY <1>2, <1>3 DEF SInv, HeldSound, SpoolTypeOK
  <2>3. QED
    BY <1>2, <1>6, <2>1, <2>2 DEF SInv, HeldSound
<1>8. UnmadeSound'
  BY <1>2, <1>3, SpoolAssumption DEF SInv, UnmadeSound, HeldSound, NoDirectory
<1>9. IndexSound'
  BY <1>1, <1>2 DEF SInv, IndexSound, SpoolTypeOK, Indexed
<1>10. PageIsKept'
  BY <1>2, <1>7 DEF SInv, PageIsKept, HeldSound, SpoolTypeOK
<1>11. QED
  BY <1>4, <1>5, <1>7, <1>8, <1>9, <1>10 DEF SInv

LEMMA RejectKeeps ==
  ASSUME SInv, NEW h \in Hosts, Reject(h)
  PROVE  SInv'
<1>1. SpoolTypeOK'
  BY DEF SInv, SpoolTypeOK, Points, Contents, Reject, Goto, sweeping, reviewing
<1>2. PlacesSound'
  BY DEF SInv, PlacesSound, Reject, Goto, reviewing
<1>3. HeldSound'
  BY DEF SInv, HeldSound, Held, Reject, reviewing
<1>4. UnmadeSound'
  BY SpoolAssumption
    DEF SInv, UnmadeSound, HeldSound, Held, Spools, NoSpool, NoDirectory, Reject
<1>5. IndexSound'
  BY DEF SInv, IndexSound, Indexed, Reject, Goto, reviewing
<1>6. PageIsKept'
  BY DEF SInv, PageIsKept, Reject, Goto, reviewing
<1>7. QED
  BY <1>1, <1>2, <1>3, <1>4, <1>5, <1>6 DEF SInv

LEMMA RetainRejectedKeeps ==
  ASSUME SInv, NEW h \in Hosts, RetainRejected(h)
  PROVE  SInv'
<1>1. PICK to \in {"page", "abandon"} : pc' = [pc EXCEPT ![h] = to]
  BY DEF RetainRejected, Goto
<1>2. SpoolTypeOK'
  BY <1>1 DEF SInv, SpoolTypeOK, PlacesSound, Points, RetainRejected, Goto, sweeping
<1>3. PlacesSound'
  BY DEF SInv, PlacesSound, SpoolTypeOK, RetainRejected, Goto
<1>4. HeldSound'
  BY DEF SInv, HeldSound, SpoolTypeOK, Held, Spools, NoSpool, RetainRejected
<1>5. UnmadeSound'
  BY SpoolAssumption
    DEF SInv, UnmadeSound, HeldSound, Held, Spools, NoSpool, NoDirectory, RetainRejected
<1>6. IndexSound'
  BY DEF SInv, IndexSound, SpoolTypeOK, Indexed, RetainRejected, Goto
<1>7. PageIsKept'
  BY DEF SInv, PageIsKept, RetainRejected, Goto
<1>8. QED
  BY <1>2, <1>3, <1>4, <1>5, <1>6, <1>7 DEF SInv

LEMMA RetainKeeps ==
  ASSUME SInv, NEW h \in Hosts, Retain(h)
  PROVE  SInv'
<1>1. SpoolTypeOK'
  BY DEF SInv, SpoolTypeOK, Retain, sweeping
<1>2. PlacesSound'
  BY DEF SInv, PlacesSound, Retain
<1>3. HeldSound'
  BY DEF SInv, HeldSound, SpoolTypeOK, Held, Retain
<1>4. UnmadeSound'
  BY DEF SInv, UnmadeSound, HeldSound, Retain
<1>5. IndexSound'
  BY DEF SInv, IndexSound, Indexed, Retain
<1>6. PageIsKept'
  BY DEF SInv, PageIsKept, Retain
<1>7. QED
  BY <1>1, <1>2, <1>3, <1>4, <1>5, <1>6 DEF SInv

LEMMA AbandonedKeeps ==
  ASSUME SInv, NEW h \in Hosts, Abandoned(h)
  PROVE  SInv'
<1>1. SpoolTypeOK'
  BY DEF SInv, SpoolTypeOK, Points, Abandoned, Goto, disk, sweeping, reviewing
<1>2. PlacesSound'
  BY DEF SInv, PlacesSound, Abandoned, Goto, disk, reviewing
<1>3. HeldSound'
  BY DEF SInv, HeldSound, Held, Abandoned, disk, reviewing
<1>4. UnmadeSound'
  BY DEF SInv, UnmadeSound, Abandoned, disk
<1>5. IndexSound'
  BY DEF SInv, IndexSound, Indexed, Abandoned, Goto, disk, reviewing
<1>6. PageIsKept'
  BY DEF SInv, PageIsKept, Abandoned, Goto, disk, reviewing
<1>7. QED
  BY <1>1, <1>2, <1>3, <1>4, <1>5, <1>6 DEF SInv

LEMMA CommandFailsKeeps ==
  ASSUME SInv, NEW h \in Hosts, CommandFails(h)
  PROVE  SInv'
<1>1. SpoolTypeOK'
  BY DEF SInv, SpoolTypeOK, Points, CommandFails, Goto, disk, sweeping
<1>2. PlacesSound'
  BY DEF SInv, PlacesSound, SpoolTypeOK, CommandFails, Goto, disk
<1>3. HeldSound'
  BY DEF SInv, HeldSound, Held, CommandFails, disk
<1>4. UnmadeSound'
  BY DEF SInv, UnmadeSound, CommandFails, disk
<1>5. IndexSound'
  BY DEF SInv, IndexSound, Indexed, CommandFails, Goto, disk
<1>6. PageIsKept'
  BY DEF SInv, PageIsKept, CommandFails, Goto, disk
<1>7. QED
  BY <1>1, <1>2, <1>3, <1>4, <1>5, <1>6 DEF SInv

LEMMA ReadPagesKeeps ==
  ASSUME SInv, NEW h \in Hosts, ReadPages(h)
  PROVE  SInv'
<1>1. SpoolTypeOK'
  BY DEF SInv, SpoolTypeOK, Points, ReadPages, Goto, disk, sweeping, reviewing
<1>2. PlacesSound'
  BY DEF SInv, PlacesSound, SpoolTypeOK, ReadPages, Goto, disk, reviewing
<1>3. HeldSound'
  BY DEF SInv, HeldSound, Held, ReadPages, disk, reviewing
<1>4. UnmadeSound'
  BY DEF SInv, UnmadeSound, ReadPages, disk
<1>5. IndexSound'
  BY DEF SInv, IndexSound, SpoolTypeOK, Indexed, ReadPages, Goto, disk, reviewing
<1>6. PageIsKept'
  BY DEF SInv, PageIsKept, SpoolTypeOK, ReadPages, Goto, disk, reviewing
<1>7. QED
  BY <1>1, <1>2, <1>3, <1>4, <1>5, <1>6 DEF SInv

LEMMA RecordPageKeeps ==
  ASSUME SInv, NEW h \in Hosts, RecordPage(h)
  PROVE  SInv'
<1>1. SpoolTypeOK'
  BY DEF SInv, SpoolTypeOK, RecordPage, sweeping, reviewing
<1>2. PlacesSound'
  BY DEF SInv, PlacesSound, RecordPage, reviewing
<1>3. HeldSound'
  BY DEF SInv, HeldSound, Held, RecordPage, reviewing
<1>4. UnmadeSound'
  BY DEF SInv, UnmadeSound, RecordPage
<1>5. IndexSound'
  BY DEF SInv, IndexSound, Indexed, RecordPage, reviewing
<1>6. PageIsKept'
  BY DEF SInv, PageIsKept, RecordPage, reviewing
<1>7. QED
  BY <1>1, <1>2, <1>3, <1>4, <1>5, <1>6 DEF SInv

LEMMA RecordFailsKeeps ==
  ASSUME SInv, NEW h \in Hosts, RecordFails(h)
  PROVE  SInv'
<1>1. SpoolTypeOK'
  BY DEF SInv, SpoolTypeOK, Points, RecordFails, Goto, disk, sweeping, reviewing
<1>2. PlacesSound'
  BY DEF SInv, PlacesSound, RecordFails, Goto, disk, reviewing
<1>3. HeldSound'
  BY DEF SInv, HeldSound, Held, RecordFails, disk, reviewing
<1>4. UnmadeSound'
  BY DEF SInv, UnmadeSound, RecordFails, disk
<1>5. IndexSound'
  BY DEF SInv, IndexSound, Indexed, RecordFails, Goto, disk, reviewing
<1>6. PageIsKept'
  BY DEF SInv, PageIsKept, RecordFails, Goto, disk, reviewing
<1>7. QED
  BY <1>1, <1>2, <1>3, <1>4, <1>5, <1>6 DEF SInv

LEMMA RecordedKeeps ==
  ASSUME SInv, NEW h \in Hosts, Recorded(h)
  PROVE  SInv'
<1>1. SpoolTypeOK'
  BY DEF SInv, SpoolTypeOK, Points, Recorded, Goto, disk, sweeping, reviewing
<1>2. PlacesSound'
  BY DEF SInv, PlacesSound, Recorded, Goto, disk, reviewing
<1>3. HeldSound'
  BY DEF SInv, HeldSound, Held, Recorded, disk, reviewing
<1>4. UnmadeSound'
  BY DEF SInv, UnmadeSound, Recorded, disk
<1>5. IndexSound'
  BY DEF SInv, IndexSound, Indexed, Recorded, Goto, disk, reviewing
<1>6. PageIsKept'
  BY DEF SInv, PageIsKept, Recorded, Goto, disk, reviewing
<1>7. QED
  BY <1>1, <1>2, <1>3, <1>4, <1>5, <1>6 DEF SInv

LEMMA PersistKeeps ==
  ASSUME SInv, NEW h \in Hosts, Persist(h)
  PROVE  SInv'
<1>1. SpoolTypeOK'
  BY DEF SInv, SpoolTypeOK, Contents, Persist, sweeping
<1>2. PlacesSound'
  BY DEF SInv, PlacesSound, Persist
<1>3. HeldSound'
  BY DEF SInv, HeldSound, SpoolTypeOK, Held, UnmadeSound, Persist
<1>4. UnmadeSound'
  BY DEF SInv, UnmadeSound, HeldSound, Persist
<1>5. IndexSound'
  BY DEF SInv, IndexSound, HeldSound, Indexed, Persist
<1>6. PageIsKept'
  BY DEF SInv, PageIsKept, PlacesSound, HeldSound, UnmadeSound, Held, Persist
<1>7. QED
  BY <1>1, <1>2, <1>3, <1>4, <1>5, <1>6 DEF SInv

LEMMA PersistedKeeps ==
  ASSUME SInv, NEW h \in Hosts, Persisted(h)
  PROVE  SInv'
<1>1. SpoolTypeOK'
  BY DEF SInv, SpoolTypeOK, Points, Persisted, Goto, disk, sweeping, reviewing
<1>2. PlacesSound'
  BY DEF SInv, PlacesSound, Persisted, Goto, disk, reviewing
<1>3. HeldSound'
  BY DEF SInv, HeldSound, Held, Persisted, disk, reviewing
<1>4. UnmadeSound'
  BY DEF SInv, UnmadeSound, Persisted, disk
<1>5. IndexSound'
  BY DEF SInv, IndexSound, Indexed, Persisted, Goto, disk, reviewing
<1>6. PageIsKept'
  BY DEF SInv, PageIsKept, Persisted, Goto, disk, reviewing
<1>7. QED
  BY <1>1, <1>2, <1>3, <1>4, <1>5, <1>6 DEF SInv

LEMMA CrashKeeps ==
  ASSUME SInv, NEW h \in Hosts, Crash(h)
  PROVE  SInv'
<1>1. SpoolTypeOK'
  BY SpoolAssumption DEF SInv, SpoolTypeOK, Points, Crash, disk
<1>2. PlacesSound'
  BY DEF SInv, PlacesSound, SpoolTypeOK, Crash, disk
<1>3. HeldSound'
  BY DEF SInv, HeldSound, SpoolTypeOK, Held, Crash, disk
<1>4. UnmadeSound'
  BY DEF SInv, UnmadeSound, Crash, disk
<1>5. IndexSound'
  BY DEF SInv, IndexSound, SpoolTypeOK, Indexed, Crash, disk
<1>6. PageIsKept'
  BY DEF SInv, PageIsKept, SpoolTypeOK, Crash, disk
<1>7. QED
  BY <1>1, <1>2, <1>3, <1>4, <1>5, <1>6 DEF SInv

LEMMA TickKeeps ==
  ASSUME SInv, Tick
  PROVE  SInv'
<1>1. SpoolTypeOK'
  BY SpoolAssumption DEF SInv, SpoolTypeOK, Points, Contents, Tick, sweeping, reviewing
<1>2. PlacesSound'
  BY DEF SInv, PlacesSound, Tick, reviewing
<1>3. HeldSound'
  <2>1. \A h \in Hosts : \A s \in Held(h) : age'[s] <= Limit
    <3>1. \A h \in Hosts : Held(h) \subseteq Spools
      BY DEF SInv, SpoolTypeOK, Held
    <3>2. \A h \in Hosts : \A s \in Held(h) : age[s] < Limit /\ age[s] \in Nat
      BY <3>1 DEF SInv, SpoolTypeOK, Tick
    <3>3. QED
      BY <3>1, <3>2, SpoolAssumption DEF Tick
  <2>2. QED
    BY <2>1 DEF SInv, HeldSound, Held, Tick, reviewing
<1>4. UnmadeSound'
  BY SpoolAssumption DEF SInv, UnmadeSound, SpoolTypeOK, NoDirectory, Tick
<1>5. IndexSound'
  BY DEF SInv, IndexSound, Indexed, Tick, reviewing
<1>6. PageIsKept'
  BY SpoolAssumption DEF SInv, PageIsKept, Tick, reviewing
<1>7. QED
  BY <1>1, <1>2, <1>3, <1>4, <1>5, <1>6 DEF SInv

LEMMA CleanUpKeeps ==
  ASSUME SInv, CleanUp
  PROVE  SInv'
<1>1. SpoolTypeOK'
  BY DEF SInv, SpoolTypeOK, Contents, CleanUp, sweeping, reviewing
<1>2. PlacesSound'
  BY DEF SInv, PlacesSound, CleanUp, reviewing
<1>3. HeldSound'
  BY DEF SInv, HeldSound, Held, CleanUp, reviewing
<1>4. UnmadeSound'
  BY DEF SInv, UnmadeSound, CleanUp
<1>5. IndexSound'
  BY DEF SInv, IndexSound, Indexed, CleanUp, reviewing
<1>6. PageIsKept'
  BY DEF SInv, PageIsKept, HeldSound, UnmadeSound, Held, CleanUp, reviewing
<1>7. QED
  BY <1>1, <1>2, <1>3, <1>4, <1>5, <1>6 DEF SInv

LEMMA SpoolsStart ==
  ASSUME Init
  PROVE  SInv
<1>1. SpoolTypeOK
  BY SpoolAssumption DEF Init, SpoolTypeOK, Contents, Points, NoDirectory
<1>2. PlacesSound
  BY DEF Init, PlacesSound
<1>3. HeldSound
  BY DEF Init, HeldSound, Held
<1>4. UnmadeSound /\ IndexSound /\ PageIsKept
  BY DEF Init, UnmadeSound, IndexSound, PageIsKept
<1>5. QED
  BY <1>1, <1>2, <1>3, <1>4 DEF SInv

\* Spools are sound, whoever creates, sweeps, dies or cleans up: by induction over
\* the steps.
THEOREM SpoolInvariant == Spec => []SInv
<1>1. Init => SInv
  BY SpoolsStart
<1>2. SInv /\ [Next]_vars => SInv'
  <2> SUFFICES ASSUME SInv, [Next]_vars
               PROVE  SInv'
    OBVIOUS
  <2>1. ASSUME NEW h \in Hosts, Create(h) PROVE SInv'
    BY <2>1, BeginSweepKeeps, SweepEntryKeeps, SweepEndsKeeps, MakeDirectoryKeeps,
       AppendIndexKeeps, OpenFileKeeps
      DEF Create, Begin, NextPage
  <2>2. ASSUME NEW h \in Hosts, Judge(h) PROVE SInv'
    BY <2>2, TooLargeKeeps, AcceptKeeps, RejectKeeps, RetainRejectedKeeps DEF Judge
  <2>3. ASSUME NEW h \in Hosts, Settle(h) PROVE SInv'
    BY <2>3, RetainKeeps, AbandonedKeeps, CommandFailsKeeps, ReadPagesKeeps, RecordPageKeeps,
       RecordFailsKeeps, RecordedKeeps, PersistKeeps, PersistedKeeps
      DEF Settle
  <2>4. ASSUME NEW h \in Hosts, Crash(h) PROVE SInv'
    BY <2>4, CrashKeeps
  <2>5. CASE Tick
    BY <2>5, TickKeeps
  <2>6. CASE CleanUp
    BY <2>6, CleanUpKeeps
  <2>7. CASE UNCHANGED vars
    BY <2>7
      DEF vars, disk, sweeping, reviewing, SInv, SpoolTypeOK, PlacesSound, HeldSound,
          UnmadeSound, IndexSound, PageIsKept, Held, Indexed
  <2>8. QED
    BY <2>1, <2>2, <2>3, <2>4, <2>5, <2>6, <2>7 DEF Next, Step
<1>3. QED
  BY <1>1, <1>2, PTL DEF Spec

\* What a spool holds is neither lost sight of nor lost, whoever dies or sweeps
\* beside it.
THEOREM PagesStaySafe == Spec => []PagesAreSafe
<1>1. SInv => PagesAreSafe
  BY DEF SInv, PagesAreSafe, Discoverable, IndexSound
<1>2. QED
  BY <1>1, SpoolInvariant, PTL
=============================================================================
