----------------------------- MODULE MCLegacyRun -----------------------------
(* Two lenses that share a provider group with one slot: the first hands its *)
(* findings to a reviewer of another group, the second has one reviewer.     *)
EXTENDS LegacyRun

CONSTANTS A, B, a1, a2, b1, p, q

MCLensOrder == <<A, B>>
MCChain == (A :> <<a1, a2>>) @@ (B :> <<b1>>)
MCGroup == (a1 :> p) @@ (a2 :> q) @@ (b1 :> p)
MCPassQuorum == (A :> 2) @@ (B :> 1)
MCMinGroups == MCPassQuorum
MCAdjudicated == (A :> TRUE) @@ (B :> FALSE)
MCScopes ==
  {(A :> "runs") @@ (B :> "runs"), (A :> "runs") @@ (B :> "missing"),
   (A :> "not_selected") @@ (B :> "runs"), (A :> "not_applicable") @@ (B :> "not_applicable")}
MCReported == {Failed(TRUE, TRUE, TRUE)}
MCProviderLimit == [g \in {p, q} |-> 1]
=============================================================================
