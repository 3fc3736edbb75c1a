---------------------------- MODULE PublicStream ----------------------------
(***************************************************************************)
(* What a reader of the run's JSONL may rely on: lines arrive with growing *)
(* sequence numbers (a gap is a line that was lost, never a reordering),   *)
(* and nothing follows the terminal line.                                  *)
(***************************************************************************)
EXTENDS Naturals, Sequences, SequencesExt

VARIABLE lines       \* the lines handed to the output: [seq, kind]

Terminal == {"completed", "persistence_failed"}

Ended == lines # <<>> /\ Last(lines).kind \in Terminal

LastSeq == IF lines = <<>> THEN 0 ELSE Last(lines).seq

Init == lines = <<>>

\* One more line.
Next ==
  /\ ~Ended
  /\ Len(lines') = Len(lines) + 1
  /\ Front(lines') = lines
  /\ Last(lines').seq > LastSeq

Spec == Init /\ [][Next]_lines
=============================================================================
