------------------------ MODULE MCProviderAdmission ------------------------
(* Instances of ProviderAdmission for TLC.                                  *)
EXTENDS ProviderAdmission, TLC

CONSTANTS r1, r2, r3, r4, g1, g2

\* Two reviewers of each of two providers, or all of them of one.
Pairs == [r \in Reviewers |-> IF r \in {r1, r2} THEN g1 ELSE g2]
OneGroup == [r \in Reviewers |-> g1]

OneAndTwo == [g \in Groups |-> IF g = g1 THEN 1 ELSE 2]
LimitTwo == [g \in Groups |-> 2]

\* The reviewers of one provider are interchangeable.
WithinGroups == Permutations({r1, r2}) \cup Permutations({r3, r4})

\* Bound: one reviewer at most meets its boundary; an abort may still end all.
FewBoundaries == Cardinality({r \in Reviewers : expired[r]}) <= 1
=============================================================================
