---------------------------- MODULE MCCommandRun ----------------------------
(* A command-adapter run and what the outside sees of it, in one run of     *)
(* TLC: how its lenses are decided (LensChain), and how its events are      *)
(* delivered (EventDelivery).  Of a verdict the delivery knows the exit     *)
(* code only, any of them, so the two do not meet: `side` is the one that   *)
(* goes on, and the other rests in its initial state.                       *)
EXTENDS LensChain, EventDelivery

CONSTANTS a, b, g1, g2, c1, c2

VARIABLE side

\* Lens a has three reviewers of two providers, needs two passes of two
\* providers and adjudicates; lens b has a single reviewer.
RunsCount == [l \in Lenses |-> IF l = a THEN 3 ELSE 1]
RunsGroups == [l \in Lenses |-> IF l = a THEN <<g1, g1, g2>> ELSE <<g1>>]
RunsQuorum == [l \in Lenses |-> IF l = a THEN 2 ELSE 1]
OnlyA == [l \in Lenses |-> l = a]

BothInit ==
  /\ side \in {"lenses", "events"}
  /\ Init /\ EventsInit
  /\ side = "events" => \A l \in Lenses : kind[l] = "evaluated"

BothNext ==
  \/ side = "lenses" /\ Next /\ UNCHANGED <<side, eventVars>>
  \/ side = "events" /\ EventsNext /\ UNCHANGED <<side, vars>>

\* The fairness of each module, for the side that goes on.
OfLenses(A) == side = "lenses" /\ A
OfEvents(A) == side = "events" /\ A

BothSpec ==
  /\ BothInit /\ [][BothNext]_<<side, vars, eventVars>>
  /\ WF_vars(OfLenses(Summarise)) /\ \A l \in Lenses : WF_vars(OfLenses(Step(l)))
  /\ WF_eventVars(OfEvents(Operation)) /\ WF_eventVars(OfEvents(MainStep))
  /\ \A e \in Emitters : WF_eventVars(OfEvents(RecordError(e)))
  /\ \A c \in Chains : WF_eventVars(OfEvents(ChainEnds(c)))

\* Every run ends, whatever its reviewers and its output do; a retry is one more
\* run (runV9Review).
EveryRunEnds ==
  /\ side = "lenses" => RunsEnd
  /\ side = "events" => RunEnds
=============================================================================
