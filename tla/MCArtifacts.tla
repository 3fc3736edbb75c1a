---------------------------- MODULE MCArtifacts ----------------------------
(* What a run leaves on disk, in one run of TLC: the artifact it writes,    *)
(* seals and publishes (RunArtifact), and the index entry under updates,    *)
(* crashes and recoveries (RunIndex). RunArtifact has the entry as one      *)
(* step, so the two do not meet: `side` is the one that goes on, and the    *)
(* other rests in one initial state.                                        *)
EXTENDS RunArtifact, RunIndex, TLC

CONSTANTS reviewer1, reviewer2, recovery1, recovery2

VARIABLE side

Symmetric == Permutations(Reviewers) \cup Permutations(Recoverers)

BothInit ==
  /\ side \in {"artifact", "entry"}
  /\ Init /\ IndexInit

BothNext ==
  \/ side = "artifact" /\ Next /\ UNCHANGED <<side, indexVars>>
  \/ side = "entry" /\ IndexNext /\ UNCHANGED <<side, vars>>

BothSpec == BothInit /\ [][BothNext]_<<side, vars, indexVars>>

\* What is finished, or held by a live process, is left alone: nothing follows a
\* seal or a torn line, and no update directory is taken from its owner
\* (run-artifact.ts, run-index.ts:867).
OthersAreLeftAlone == NothingBehindTheEnd /\ LiveUpdateKept
=============================================================================
