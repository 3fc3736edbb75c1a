------------------------------ MODULE RunIndex ------------------------------
(***************************************************************************)
(* The index entry of one run (src/src/diagnostics/run-index.ts): the      *)
(* run publishes it once and adds the outcome of its public stream,        *)
(* `review-mesh recover` attaches a copy of a lost artifact, each from a   *)
(* process of its own that may die between any two file operations.        *)
(*                                                                         *)
(* The entry is published by an exclusive link and from then on rewritten  *)
(* in place.  An update takes a directory (mkdir is the lock), writes the  *)
(* previous document to a journal in it, rewrites the entry and renames    *)
(* the directory away.  A recovery first rolls a dead process's update     *)
(* back from its journal, under a second directory inside the first.       *)
(*                                                                         *)
(* A document is what updates change: where the artifact is, and what      *)
(* became of the public stream.  A directory is identified by its owner    *)
(* and the owner's attempt; a process id is never reused.                  *)
(***************************************************************************)
EXTENDS FiniteSets, Naturals

CONSTANTS
  Publisher,     \* the process of the run itself
  Recoverers,    \* recover commands, each with a copy of its own
  NoDoc,         \* no index entry, or no complete journal
  TornEntry,     \* an entry that is being rewritten
  NoUpdate,      \* no update directory
  NoClaim        \* no recovery claim

ASSUME RecoverersAssumption == Publisher \notin Recoverers /\ NoClaim \notin Recoverers

VARIABLES
  entry,       \* content of the index entry
  update,      \* the update directory: owner, attempt, journal, claim
  lost,        \* the managed artifact has been removed
  process,     \* where each process stands
  tries,       \* which attempt of the publisher to add the outcome
  outcome,     \* the outcome it adds
  prior,       \* the snapshot of a process
  seen,        \* what a recovery saw: the directory, the journal and its process
  latest,      \* history: the document of the last acknowledged change
  stale,       \* history: a process died with a journal it had not confirmed
  strayed      \* history: a recovery claimed another directory than it saw

files == <<entry, update, lost>>
local == <<tries, outcome, prior, seen>>
history == <<latest, stale, strayed>>
indexVars == <<files, process, local, history>>

Processes == {Publisher} \cup Recoverers
Documents == [primary : Processes, observed : {"none", "planned", "failed"}]
Updates == [owner : Processes, attempt : 0..2,
            journal : Documents \cup {NoDoc}, claim : Recoverers \cup {NoClaim}]
Sightings == [owner : Processes, attempt : 0..2, by : Processes,
              doc : Documents \cup {NoDoc}]

ASSUME SentinelsAssumption ==
  NoDoc \notin Documents /\ TornEntry \notin Documents \cup {NoDoc} /\ NoUpdate \notin Updates

Over == {"done", "failed", "crashed"}
Filling == {"filling", "refilling"}
Restoring == {"refilling", "reverifying", "rearchiving"}
Phases == Over \cup Filling \cup Restoring \cup
  {"start", "linking", "published", "inspecting", "probing", "claiming", "restoring",
   "ensuring", "reading", "rereading", "deciding", "unindexed", "attaching",
   "locking", "journaling", "comparing", "writing", "verifying", "archiving",
   "abandoning"}

Running(p) == process[p] \notin Over

Go(p, phase) == process' = [process EXCEPT ![p] = phase]

\* An operation fails with index_conflict or a file error.  Of the publisher's
\* operations only the first attempt to add the outcome is tried again.
Fail(p) == Go(p, IF p = Publisher /\ tries = 1 THEN "published" ELSE "failed")

Attempt(p) == IF p = Publisher THEN tries ELSE 0

\* The directory at the update path is the one that was seen.
Same(directory) ==
  IF update = NoUpdate THEN FALSE
  ELSE update.owner = directory.owner /\ update.attempt = directory.attempt
Own(p) == [owner |-> p, attempt |-> Attempt(p)]

\* The document an update is about to write.
Changed(p) == IF p = Publisher THEN [prior[p] EXCEPT !.observed = outcome]
                               ELSE [prior[p] EXCEPT !.primary = p]

-----------------------------------------------------------------------------
IndexInit ==
  /\ entry = NoDoc /\ update = NoUpdate /\ lost = FALSE
  /\ process = [p \in Processes |-> "start"]
  /\ tries = 0 /\ outcome = "none"
  /\ prior = [p \in Processes |-> NoDoc]
  /\ seen = [r \in Recoverers |-> [owner |-> Publisher, attempt |-> 0,
                                by |-> Publisher, doc |-> NoDoc]]
  /\ latest = NoDoc /\ stale = FALSE /\ strayed = FALSE

\* indexRunArtifact up to the link.
StartPublishing ==
  /\ process[Publisher] = "start"
  /\ IF update = NoUpdate /\ ~lost THEN Go(Publisher, "linking")
                                   ELSE Fail(Publisher)
  /\ UNCHANGED <<files, local, history>>

\* The exclusive link of writeIndex; the staged document is already complete.
Link(p, document) ==
  IF entry = NoDoc
    THEN /\ entry' = document
         /\ latest' = document
         /\ Go(p, IF p = Publisher THEN "published" ELSE "done")
    ELSE /\ Fail(p)
         /\ UNCHANGED <<entry, latest>>

PublishEntry ==
  /\ process[Publisher] = "linking"
  /\ Link(Publisher, [primary |-> Publisher, observed |-> "none"])
  /\ UNCHANGED <<update, lost, local, stale, strayed>>

\* observePublicStream up to the snapshot.  The second attempt, and the only one
\* when the terminal line could not be written, says "failed".
Observe ==
  /\ process[Publisher] = "published"
  /\ tries' \in (tries + 1)..2
  /\ outcome' \in IF tries' = 1 THEN {"planned", "failed"} ELSE {"failed"}
  /\ Go(Publisher, IF update = NoUpdate THEN "reading"
                   ELSE IF tries' = 1 THEN "published" ELSE "failed")
  /\ UNCHANGED <<files, prior, seen, history>>

-----------------------------------------------------------------------------
(* restoreInterruptedIndex.                                                *)

StartRecovery(r) ==
  /\ process[r] = "start"
  /\ IF update = NoUpdate
       THEN Go(r, "ensuring") /\ UNCHANGED seen
       ELSE /\ seen' = [seen EXCEPT ![r].owner = update.owner,
                                     ![r].attempt = update.attempt]
            /\ Go(r, "inspecting")
  /\ UNCHANGED <<files, tries, outcome, prior, history>>

\* The journal that is there now is read: complete, or the recovery ends.
Inspect(r) ==
  /\ process[r] = "inspecting"
  /\ IF IF update = NoUpdate THEN FALSE ELSE update.journal # NoDoc
       THEN /\ seen' = [seen EXCEPT ![r].by = update.owner, ![r].doc = update.journal]
            /\ Go(r, "probing")
       ELSE /\ Fail(r)
            /\ UNCHANGED seen
  /\ UNCHANGED <<files, tries, outcome, prior, history>>

\* The process that wrote the journal must be dead.
Probe(r) ==
  /\ process[r] = "probing"
  /\ IF Running(seen[r].by) THEN Fail(r) ELSE Go(r, "claiming")
  /\ UNCHANGED <<files, local, history>>

\* Mutant: any number of recoveries may claim the update.
Claim_Shared(r) ==
  /\ process[r] = "claiming"
  /\ IF update # NoUpdate
       THEN /\ update' = [update EXCEPT !.claim = r]
            /\ strayed' = (strayed \/ ~Same(seen[r]))
            /\ Go(r, "restoring")
       ELSE /\ Fail(r)
            /\ UNCHANGED <<update, strayed>>
  /\ UNCHANGED <<entry, lost, local, latest, stale>>

Claim(r) ==
  /\ process[r] = "claiming"
  /\ IF update # NoUpdate /\ update.claim = NoClaim
       THEN /\ update' = [update EXCEPT !.claim = r]
            /\ strayed' = (strayed \/ ~Same(seen[r]))
            /\ Go(r, "restoring")
       ELSE /\ Fail(r)
            /\ UNCHANGED <<update, strayed>>
  /\ UNCHANGED <<entry, lost, local, latest, stale>>

\* rmdir of the claim, by its path.
Unclaim == update' = IF update = NoUpdate THEN NoUpdate
                                          ELSE [update EXCEPT !.claim = NoClaim]

\* The index entry while p rewrites it in place: two writers at once may leave
\* a mixture.
Filled(p, document) ==
  IF \E q \in Processes \ {p} : process[q] \in Filling THEN {document, TornEntry}
                                                  ELSE {document}

Restore(r) ==
  /\ process[r] = "restoring"
  /\ entry' = TornEntry
  /\ Go(r, "refilling")
  /\ UNCHANGED <<update, lost, local, history>>

RestoreFilled(r) ==
  /\ process[r] = "refilling"
  /\ entry' \in Filled(r, seen[r].doc)
  /\ Go(r, "reverifying")
  /\ UNCHANGED <<update, lost, local, history>>

RestoreVerified(r) ==
  /\ process[r] = "reverifying"
  /\ entry = seen[r].doc
  /\ Go(r, "rearchiving")
  /\ UNCHANGED <<files, local, history>>

\* Mutant: the directory is renamed whoever owns it now.
Rearchive_AnyDirectory(r) ==
  /\ process[r] = "rearchiving"
  /\ update # NoUpdate
  /\ update' = NoUpdate
  /\ Go(r, "ensuring")
  /\ UNCHANGED <<entry, lost, local, history>>

\* archiveUpdate renames the directory it first saw and no other.
Rearchive(r) ==
  /\ process[r] = "rearchiving"
  /\ Same(seen[r])
  /\ update' = NoUpdate
  /\ Go(r, "ensuring")
  /\ UNCHANGED <<entry, lost, local, history>>

\* Any step of the restoration may fail; the claim is given up.
RestoreFails(r) ==
  /\ process[r] \in Restoring
  /\ Unclaim
  /\ Fail(r)
  /\ UNCHANGED <<entry, lost, local, history>>

-----------------------------------------------------------------------------
(* recoverRunArtifact after the restoration.                               *)

Ensure(r) ==
  /\ process[r] = "ensuring"
  /\ IF update = NoUpdate THEN Go(r, "reading") ELSE Fail(r)
  /\ UNCHANGED <<files, local, history>>

\* The lease of a run that may still be alive refuses the recovery.
LeaseRefuses(r) ==
  /\ process[r] \in {"unindexed", "deciding"}
  /\ process[Publisher] \notin {"done", "failed"}
  /\ Fail(r)
  /\ UNCHANGED <<files, local, history>>

\* A copy replaces only an artifact that is gone.
DecideRecovery(r) ==
  /\ process[r] = "deciding"
  /\ IF IF prior[r].primary = Publisher THEN lost ELSE FALSE
       THEN Go(r, "locking") ELSE Fail(r)
  /\ UNCHANGED <<files, local, history>>

PassLease(r) ==
  /\ process[r] = "unindexed"
  /\ Go(r, "attaching")
  /\ UNCHANGED <<files, local, history>>

Attach(r) ==
  /\ process[r] = "attaching"
  /\ Link(r, [primary |-> r, observed |-> "failed"])
  /\ UNCHANGED <<update, lost, local, stale, strayed>>

-----------------------------------------------------------------------------
(* snapshotIndex and updateIndex, of both kinds of process.                *)

\* readIndex: absent, unreadable, or a document.
Read(p) ==
  /\ process[p] = "reading"
  /\ CASE entry = TornEntry -> Fail(p) /\ UNCHANGED prior
       [] entry = NoDoc -> /\ IF p = Publisher THEN Fail(p) ELSE Go(p, "unindexed")
                           /\ UNCHANGED prior
       [] OTHER -> /\ prior' = [prior EXCEPT ![p] = entry]
                   /\ Go(p, "rereading")
  /\ UNCHANGED <<files, tries, outcome, seen, history>>

\* The second reading must agree.
Reread(p) ==
  /\ process[p] = "rereading"
  /\ IF entry = prior[p]
       THEN Go(p, IF p = Publisher THEN "locking" ELSE "deciding")
       ELSE Fail(p)
  /\ UNCHANGED <<files, local, history>>

\* mkdir of the update directory is the lock.
Lock(p) ==
  /\ process[p] = "locking"
  /\ IF update = NoUpdate
       THEN /\ update' = [owner |-> p, attempt |-> Attempt(p), journal |-> NoDoc, claim |-> NoClaim]
            /\ Go(p, "journaling")
       ELSE /\ Fail(p)
            /\ UNCHANGED update
  /\ UNCHANGED <<entry, lost, local, history>>

\* Mutant: the entry is rewritten before the journal is complete.
Journal_Late(p) ==
  /\ process[p] = "journaling"
  /\ Go(p, "comparing")
  /\ UNCHANGED <<files, local, history>>

Journal(p) ==
  /\ process[p] = "journaling"
  /\ \/ /\ update' = [update EXCEPT !.journal = prior[p]]
        /\ Go(p, "comparing")
     \/ /\ Go(p, "abandoning")
        /\ UNCHANGED update
  /\ UNCHANGED <<entry, lost, local, history>>

\* Mutant: the snapshot is not compared again under the lock.
Compare_Trusts(p) ==
  /\ process[p] = "comparing"
  /\ entry' = TornEntry
  /\ Go(p, "filling")
  /\ UNCHANGED <<update, lost, local, history>>

Compare(p) ==
  /\ process[p] = "comparing"
  /\ Go(p, IF entry = prior[p] THEN "writing" ELSE "abandoning")
  /\ UNCHANGED <<files, local, history>>

\* writePinnedIndex compares once more before the first byte.
Write(p) ==
  /\ process[p] = "writing"
  /\ IF entry = prior[p]
       THEN entry' = TornEntry /\ Go(p, "filling")
       ELSE Fail(p) /\ UNCHANGED entry
  /\ UNCHANGED <<update, lost, local, history>>

Fill(p) ==
  /\ process[p] = "filling"
  /\ \/ /\ entry' \in Filled(p, Changed(p))
        /\ Go(p, "verifying")
     \/ /\ Fail(p)
        /\ UNCHANGED entry
  /\ UNCHANGED <<update, lost, local, history>>

\* The directory stays when the verification of what was written fails.
Verify(p) ==
  /\ process[p] = "verifying"
  /\ IF entry = Changed(p) THEN Go(p, "archiving") ELSE Fail(p)
  /\ UNCHANGED <<files, local, history>>

\* The process's own directory is renamed away, which acknowledges the update.
Archive(p) ==
  /\ process[p] = "archiving"
  /\ IF Same(Own(p))
       THEN update' = NoUpdate /\ latest' = Changed(p) /\ Go(p, "done")
       ELSE Fail(p) /\ UNCHANGED <<update, latest>>
  /\ UNCHANGED <<entry, lost, local, stale, strayed>>

Abandon(p) ==
  /\ process[p] = "abandoning"
  /\ update' = IF Same(Own(p)) THEN NoUpdate ELSE update
  /\ Fail(p)
  /\ UNCHANGED <<entry, lost, local, history>>

-----------------------------------------------------------------------------
Crash(p) ==
  /\ Running(p) /\ process[p] # "start"
  /\ Go(p, "crashed")
  /\ stale' = (stale \/ process[p] \in {"comparing", "abandoning"})
  /\ UNCHANGED <<files, local, latest, strayed>>

\* Somebody removes the managed artifact.
Lose ==
  /\ ~lost
  /\ lost' = TRUE
  /\ UNCHANGED <<entry, update, process, local, history>>

Recover(r) ==
  \/ StartRecovery(r) \/ Inspect(r) \/ Probe(r) \/ Claim(r)
  \/ Restore(r) \/ RestoreFilled(r) \/ RestoreVerified(r) \/ Rearchive(r) \/ RestoreFails(r)
  \/ Ensure(r) \/ LeaseRefuses(r) \/ DecideRecovery(r) \/ PassLease(r)
  \/ Attach(r)

Update(p) ==
  \/ Read(p) \/ Reread(p) \/ Lock(p) \/ Journal(p) \/ Compare(p) \/ Write(p)
  \/ Fill(p) \/ Verify(p) \/ Archive(p) \/ Abandon(p)

IndexNext ==
  \/ StartPublishing \/ PublishEntry \/ Observe
  \/ \E r \in Recoverers : Recover(r)
  \/ \E p \in Processes : Update(p) \/ Crash(p)
  \/ Lose

IndexSpec == IndexInit /\ [][IndexNext]_indexVars

-----------------------------------------------------------------------------
(* Properties.                                                             *)

\* The values every variable takes.
IndexTypeOK ==
  /\ entry \in Documents \cup {NoDoc, TornEntry}
  /\ update \in Updates \cup {NoUpdate}
  /\ lost \in BOOLEAN
  /\ process \in [Processes -> Phases]
  /\ tries \in 0..2 /\ outcome \in {"none", "planned", "failed"}
  /\ prior \in [Processes -> Documents \cup {NoDoc}]
  /\ seen \in [Recoverers -> Sightings]
  /\ latest \in Documents \cup {NoDoc}
  /\ stale \in BOOLEAN /\ strayed \in BOOLEAN

\* Whoever rewrites the entry holds the update directory, as its owner or by a
\* claim in a dead owner's: two never rewrite it at once.
WritersHoldUpdate ==
  ~strayed =>
    /\ \A p \in Processes :
         process[p] = "filling" => update # NoUpdate /\ update.owner = p
    /\ \A r \in Recoverers :
         process[r] = "refilling" =>
           update # NoUpdate /\ update.claim = r /\ ~Running(update.owner)
    /\ Cardinality({p \in Processes : process[p] \in Filling}) <= 1

\* Wherever a process dies, an entry it was rewriting can be rolled back: the
\* directory is there and its journal complete.
TornIsJournaled ==
  entry = TornEntry /\ ~strayed => update # NoUpdate /\ update.journal # NoDoc

\* Whatever dies where, no acknowledged change is lost and no other survives,
\* once nothing is pending; except that a process dies between its journal,
\* written of an older snapshot, and the comparison that would reject it.
NothingLost ==
  update = NoUpdate /\ ~stale /\ ~strayed => entry = latest

\* The three together: an update never leaves a broken or a foreign entry.
IndexStaysWhole == IndexTypeOK /\ WritersHoldUpdate /\ TornIsJournaled /\ NothingLost

\* The update directory of a live process is never taken from it.
LiveUpdateKept ==
  [][\A p \in Processes :
       update # NoUpdate /\ update.owner = p /\ Running(p)
         /\ (update' = NoUpdate \/ update'.owner # p) =>
           process[p] \in {"archiving", "abandoning"} /\ process'[p] # process[p]]_indexVars
=============================================================================
