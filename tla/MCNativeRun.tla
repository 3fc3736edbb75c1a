---------------------------- MODULE MCNativeRun ----------------------------
(* An instance of NativeRun for TLC.                                        *)
EXTENDS NativeRun

CONSTANTS a, b, g1, g2

\* Lens a has a finder and two adjudicators, or passes with two providers; lens
\* b has a single reviewer of the provider of a's first.
RosterCount == [l \in Lenses |-> IF l = a THEN 3 ELSE 1]
RosterGroups == [l \in Lenses |-> IF l = a THEN <<g1, g1, g2>> ELSE <<g1>>]
RosterQuorum == [l \in Lenses |-> IF l = a THEN 2 ELSE 1]
OnlyA == [l \in Lenses |-> l = a]
LimitOne == [g \in {g1, g2} |-> 1]
=============================================================================
