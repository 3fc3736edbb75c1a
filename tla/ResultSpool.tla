---------------------------- MODULE ResultSpool ----------------------------
(***************************************************************************)
(* The private pages of a review (src/src/adapters/result-spool.ts): one   *)
(* spool per result page, created by the page storage of an adapter        *)
(* (adapters/sdk-pages.ts), wiped once its page is in the run artifact     *)
(* (orchestrator/run-v9.ts), kept with a manifest when the page is         *)
(* rejected or the result abandoned, and wiped by whoever creates a spool  *)
(* a day later, or by the diagnostics command.                             *)
(*                                                                         *)
(* Hosts are processes that review one after another beside each other;    *)
(* they share the spool directory.  A host may die at any step; the others *)
(* take up what it has left, as it would itself once restarted.  The age   *)
(* of a spool's directory is counted in ticks up to Retention, and a       *)
(* review is over before its first page is Limit ticks old: a run's        *)
(* deadline is at most four hours (config/schemas.ts), the retention a     *)
(* day.                                                                    *)
(***************************************************************************)
EXTENDS Naturals, FiniteSets, Sequences

CONSTANTS
  Hosts,      \* processes that review beside each other
  MaxSpools,  \* bound: directories ever made
  MaxIndex,   \* MAX_SCAN_INDEX_BYTES, in records
  Window,     \* maximumEntries of a sweep
  Retention,  \* RESULT_SPOOL_RETENTION_MS, in ticks
  Limit,      \* bound of a review, in ticks
  MaxCrashes, \* bound: processes that die
  Commands    \* hosts that review with the command adapter

ASSUME SpoolAssumption ==
  /\ MaxSpools \in Nat /\ MaxIndex \in Nat /\ Window \in Nat \ {0}
  /\ Limit \in Nat /\ Retention \in Nat /\ Limit < Retention
  /\ MaxCrashes \in Nat /\ Commands \subseteq Hosts

VARIABLES
  age,        \* ticks since a spool's directory was made, or NoDirectory
  file,       \* what the spool's file holds
  index,      \* .scan-index: the directories, in order
  cursor,     \* .scan-cursor: how many of its records have been passed
  manifests,  \* spools a diagnostic manifest names
  recorded,   \* spools whose page is in the run artifact
  pc,         \* where each host stands
  names,      \* what is left of the window of its sweep
  next,       \* the cursor that sweep will write
  page,       \* its active spool
  accepted,   \* its spools of accepted pages
  crashes     \* how many hosts have died

disk == <<age, file, index, cursor, manifests, recorded>>
sweeping == <<names, next>>
reviewing == <<page, accepted>>
vars == <<disk, pc, sweeping, reviewing, crashes>>

Spools == 1..MaxSpools
NoSpool == 0
NoDirectory == Retention + 1
Contents == {"none", "new", "full", "wiped"}
Points == {"idle", "sweep", "mkdir", "index", "open", "write", "reject",
           "page", "abandon", "read", "record", "persist", "dead"}

Unmade == {s \in Spools : age[s] = NoDirectory}
Held(h) == accepted[h] \cup ({page[h]} \ {NoSpool})

Init ==
  /\ age = [s \in Spools |-> NoDirectory]
  /\ file = [s \in Spools |-> "none"]
  /\ index = <<>> /\ cursor = 0
  /\ manifests = {} /\ recorded = {}
  /\ pc = [h \in Hosts |-> "idle"]
  /\ names = [h \in Hosts |-> <<>>] /\ next = [h \in Hosts |-> 0]
  /\ page = [h \in Hosts |-> NoSpool] /\ accepted = [h \in Hosts |-> {}]
  /\ crashes = 0

Goto(h, from, to) == pc[h] = from /\ pc' = [pc EXCEPT ![h] = to]

----------------------------------------------------------------------------
(* A sweep: the window of the index behind the cursor, from the start when *)
(* the cursor is behind the end; every spool in it that is old enough and  *)
(* holds something is wiped; the cursor is written last.  Checking and     *)
(* wiping are one step: an old spool has no owner left that writes to it.  *)

Smaller(a, b) == IF a < b THEN a ELSE b
Offset == IF cursor >= Len(index) THEN 0 ELSE cursor
NextOffset == Smaller(Offset + Window, Len(index))

BeginSweep(h, from) ==
  /\ Goto(h, from, "sweep")
  /\ names' = [names EXCEPT ![h] = SubSeq(index, Offset + 1, NextOffset)]
  /\ next' = [next EXCEPT ![h] = IF NextOffset = Len(index) THEN 0 ELSE NextOffset]
  /\ UNCHANGED <<disk, reviewing, crashes>>

Stale(s) == age[s] = Retention /\ file[s] = "full"

SweepEntry(h) ==
  /\ pc[h] = "sweep" /\ names[h] # <<>>
  /\ LET s == Head(names[h]) IN
       file' = IF Stale(s) THEN [file EXCEPT ![s] = "wiped"] ELSE file
  /\ names' = [names EXCEPT ![h] = Tail(@)]
  /\ UNCHANGED <<age, index, cursor, manifests, recorded, pc, next, reviewing, crashes>>

\* Mutant: the next sweep starts where this one did.
SweepEnds_KeepsCursor(h) ==
  /\ names[h] = <<>>
  /\ Goto(h, "sweep", IF Len(index) >= MaxIndex THEN "abandon" ELSE "mkdir")
  /\ next' = [next EXCEPT ![h] = 0]
  /\ UNCHANGED <<disk, names, reviewing, crashes>>

\* A full index refuses the spool, and with it the page: the review has failed.
SweepEnds(h) ==
  /\ names[h] = <<>>
  /\ Goto(h, "sweep", IF Len(index) >= MaxIndex THEN "abandon" ELSE "mkdir")
  /\ cursor' = next[h]
  /\ next' = [next EXCEPT ![h] = 0]
  /\ UNCHANGED <<age, file, index, manifests, recorded, names, reviewing, crashes>>

----------------------------------------------------------------------------
(* Creating a spool: the directory, its record in the index, the file.     *)

\* Mutant: the new directory is not written to the index.
MakeDirectory_NotIndexed(h) ==
  /\ Goto(h, "mkdir", "open")
  /\ \E s \in Unmade :
       /\ \A t \in Unmade : s <= t
       /\ age' = [age EXCEPT ![s] = 0]
       /\ page' = [page EXCEPT ![h] = s]
  /\ UNCHANGED <<file, index, cursor, manifests, recorded, sweeping, accepted, crashes>>

MakeDirectory(h) ==
  /\ Goto(h, "mkdir", "index")
  /\ \E s \in Unmade :
       /\ \A t \in Unmade : s <= t
       /\ age' = [age EXCEPT ![s] = 0]
       /\ page' = [page EXCEPT ![h] = s]
  /\ UNCHANGED <<file, index, cursor, manifests, recorded, sweeping, accepted, crashes>>

\* Another host may have filled the index since it was looked at.
AppendIndex(h) ==
  /\ IF Len(index) >= MaxIndex
     THEN /\ Goto(h, "index", "abandon")
          /\ page' = [page EXCEPT ![h] = NoSpool]
          /\ UNCHANGED index
     ELSE /\ Goto(h, "index", "open")
          /\ index' = Append(index, page[h])
          /\ UNCHANGED page
  /\ UNCHANGED <<age, file, cursor, manifests, recorded, sweeping, accepted, crashes>>

OpenFile(h) ==
  /\ Goto(h, "open", "write")
  /\ file' = [file EXCEPT ![page[h]] = "new"]
  /\ UNCHANGED <<age, index, cursor, manifests, recorded, sweeping, reviewing, crashes>>

----------------------------------------------------------------------------
(* The pages of a result.                                                  *)

\* A review begins with its first page, a later page follows an accepted one
\* or repairs a rejected one.
Begin(h) == BeginSweep(h, "idle")
NextPage(h) == BeginSweep(h, "page")

\* A page that is too large is not written; the empty spool is retained.
TooLarge(h) ==
  /\ Goto(h, "write", "reject")
  /\ UNCHANGED <<disk, sweeping, reviewing, crashes>>

\* The page is written and then judged.  Behind an accepted one the provider
\* is asked for the next, has completed the result, or the review fails.
Accept(h) ==
  /\ \E to \in {"page", "read", "abandon"} : Goto(h, "write", to)
  /\ file' = [file EXCEPT ![page[h]] = "full"]
  /\ accepted' = [accepted EXCEPT ![h] = @ \cup {page[h]}]
  /\ page' = [page EXCEPT ![h] = NoSpool]
  /\ UNCHANGED <<age, index, cursor, manifests, recorded, sweeping, crashes>>

Reject(h) ==
  /\ Goto(h, "write", "reject")
  /\ file' = [file EXCEPT ![page[h]] = "full"]
  /\ UNCHANGED <<age, index, cursor, manifests, recorded, sweeping, reviewing, crashes>>

\* The rejected page gets its manifest, its handle is closed; then it is
\* repaired or the review has failed.
RetainRejected(h) ==
  /\ \E to \in {"page", "abandon"} : Goto(h, "reject", to)
  /\ manifests' = manifests \cup {page[h]}
  /\ page' = [page EXCEPT ![h] = NoSpool]
  /\ UNCHANGED <<age, file, index, cursor, recorded, sweeping, accepted, crashes>>

\* abandon: a manifest for every accepted page, then its handle is closed.
Retain(h) ==
  /\ pc[h] = "abandon"
  /\ \E s \in accepted[h] :
       /\ manifests' = manifests \cup {s}
       /\ accepted' = [accepted EXCEPT ![h] = @ \ {s}]
  /\ UNCHANGED <<age, file, index, cursor, recorded, pc, sweeping, page, crashes>>

Abandoned(h) ==
  /\ accepted[h] = {}
  /\ Goto(h, "abandon", "idle")
  /\ UNCHANGED <<disk, sweeping, reviewing, crashes>>

\* A command whose last page has arrived still fails when it exits with an
\* error, says more, or is cancelled: then it neither delivers nor abandons.
CommandFails(h) ==
  /\ h \in Commands
  /\ Goto(h, "read", "idle")
  /\ accepted' = [accepted EXCEPT ![h] = {}]
  /\ UNCHANGED <<disk, sweeping, page, crashes>>

\* The delivered result: all its pages are read, or one of them is not as it
\* was written, or the result is refused before.
ReadPages(h) ==
  /\ \/ /\ \A s \in accepted[h] : file[s] = "full"
        /\ Goto(h, "read", "record")
     \/ Goto(h, "read", "abandon")
  /\ UNCHANGED <<disk, sweeping, reviewing, crashes>>

RecordPage(h) ==
  /\ pc[h] = "record"
  /\ \E s \in accepted[h] \ recorded :
       /\ \A t \in accepted[h] \ recorded : s <= t
       /\ recorded' = recorded \cup {s}
  /\ UNCHANGED <<age, file, index, cursor, manifests, pc, sweeping, reviewing, crashes>>

\* The artifact refuses a page: the result is abandoned.
RecordFails(h) ==
  /\ Goto(h, "record", "abandon")
  /\ UNCHANGED <<disk, sweeping, reviewing, crashes>>

\* Mutant: the first recorded page counts for all.
Recorded_First(h) ==
  /\ accepted[h] \cap recorded # {}
  /\ Goto(h, "record", "persist")
  /\ UNCHANGED <<disk, sweeping, reviewing, crashes>>

Recorded(h) ==
  /\ accepted[h] \subseteq recorded
  /\ Goto(h, "record", "persist")
  /\ UNCHANGED <<disk, sweeping, reviewing, crashes>>

Persist(h) ==
  /\ pc[h] = "persist"
  /\ \E s \in accepted[h] :
       /\ file' = [file EXCEPT ![s] = "wiped"]
       /\ accepted' = [accepted EXCEPT ![h] = @ \ {s}]
  /\ UNCHANGED <<age, index, cursor, manifests, recorded, pc, sweeping, page, crashes>>

Persisted(h) ==
  /\ accepted[h] = {}
  /\ Goto(h, "persist", "idle")
  /\ UNCHANGED <<disk, sweeping, reviewing, crashes>>

----------------------------------------------------------------------------
(* The world around: time, death, and the diagnostics command.             *)

Tick ==
  /\ \A h \in Hosts : \A s \in Held(h) : age[s] < Limit
  /\ \E s \in Spools : age[s] < Retention
  /\ age' = [s \in Spools |-> IF age[s] < Retention THEN age[s] + 1 ELSE age[s]]
  /\ UNCHANGED <<file, index, cursor, manifests, recorded, pc, sweeping, reviewing, crashes>>

Crash(h) ==
  /\ crashes < MaxCrashes
  /\ pc[h] \notin {"idle", "dead"}
  /\ pc' = [pc EXCEPT ![h] = "dead"]
  /\ names' = [names EXCEPT ![h] = <<>>] /\ next' = [next EXCEPT ![h] = 0]
  /\ page' = [page EXCEPT ![h] = NoSpool]
  /\ accepted' = [accepted EXCEPT ![h] = {}]
  /\ crashes' = crashes + 1
  /\ UNCHANGED disk

\* Cleanup wipes what a manifest names if it is as it was recorded.
CleanUp ==
  /\ \E s \in manifests : file[s] = "full" /\ file' = [file EXCEPT ![s] = "wiped"]
  /\ UNCHANGED <<age, index, cursor, manifests, recorded, pc, sweeping, reviewing, crashes>>

Create(h) ==
  Begin(h) \/ NextPage(h) \/ SweepEntry(h) \/ SweepEnds(h)
    \/ MakeDirectory(h) \/ AppendIndex(h) \/ OpenFile(h)
Judge(h) ==
  TooLarge(h) \/ Accept(h) \/ Reject(h) \/ RetainRejected(h)
Settle(h) ==
  Retain(h) \/ Abandoned(h) \/ CommandFails(h) \/ ReadPages(h) \/ RecordPage(h)
    \/ RecordFails(h) \/ Recorded(h) \/ Persist(h) \/ Persisted(h)

Step(h) == Create(h) \/ Judge(h) \/ Settle(h)

Next == (\E h \in Hosts : Step(h) \/ Crash(h)) \/ Tick \/ CleanUp

Spec == Init /\ [][Next]_vars

\* Hosts run, time passes, and reviews go on being started; nobody need call
\* the diagnostics command.
FairSpec == Spec /\ (\A h \in Hosts : WF_vars(Step(h))) /\ WF_vars(Tick)

----------------------------------------------------------------------------

SpoolTypeOK ==
  /\ age \in [Spools -> 0..Retention + 1]
  /\ file \in [Spools -> Contents]
  /\ index \in Seq(Spools) /\ Len(index) <= MaxIndex
  /\ cursor \in Nat
  /\ manifests \subseteq Spools /\ recorded \subseteq Spools
  /\ pc \in [Hosts -> Points]
  /\ names \in [Hosts -> Seq(Spools)] /\ next \in [Hosts -> Nat]
  /\ page \in [Hosts -> Spools \cup {NoSpool}]
  /\ accepted \in [Hosts -> SUBSET Spools]
  /\ crashes \in 0..MaxCrashes

Indexed(s) == \E i \in DOMAIN index : index[i] = s

\* "Index the owned directory before any sensitive bytes can be written so a
\* crash cannot leave an undiscoverable nonempty spool" (createResultSpool):
\* whatever holds bytes has its record in the index, at every step of creation.
Discoverable == \A s \in Spools : file[s] = "full" => Indexed(s)

\* A page of a review that is still going on keeps its bytes until it is in
\* the artifact, whatever other processes sweep or clean up meanwhile; and a
\* page no review holds any more has not been wiped before its day is over
\* unless it is in the artifact or a manifest names it.
PageIsKept ==
  /\ \A h \in Hosts : \A s \in accepted[h] :
       file[s] = "full" \/ (s \in recorded /\ pc[h] = "persist")
  /\ \A s \in Spools : file[s] = "wiped" =>
       s \in recorded \/ s \in manifests \/ age[s] = Retention

\* What a spool holds is neither lost sight of nor lost, whoever dies or sweeps
\* beside it (createResultSpool, sweepResultSpools, wipe).
PagesAreSafe == SpoolTypeOK /\ Discoverable /\ PageIsKept

\* Whatever reviews leave behind, dead or alive, is wiped in the end, as long
\* as reviews are started now and then: also when the index is longer than
\* the window of a sweep, and when it is full and refuses every new spool.
NothingHeld == \A s \in Spools : file[s] # "full"
WipedInTheEnd == ~NothingHeld ~> NothingHeld
=============================================================================
