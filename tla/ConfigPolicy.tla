----------------------------- MODULE ConfigPolicy -----------------------------
(* What a configuration document means before a run starts: the migration of *)
(* a version 5 or 6 document (config/manage.ts), the acceptance of a version *)
(* 7 document (schemas.ts), the resolution of a roster into lenses           *)
(* (resolve.ts), the risks it is reported with (topology.ts) and the engine   *)
(* it is routed to (sdk-routing.ts). The outage tolerance of a lens and the   *)
(* concentration of a roster are computed by three of these files, each in    *)
(* its own way; the properties are about their agreement.                     *)
(*                                                                           *)
(* A model run is its provider group; 0 is a number the document leaves out. *)
EXTENDS Integers, Sequences, FiniteSets, TLC

CONSTANTS
  Lenses,      \* agent names
  Groups,      \* provider groups
  Documents,   \* the documents a file may hold, of any version
  Mediated,    \* provider groups whose adapters mediate every read
  Commands     \* provider groups served by a command adapter

WrittenAgent ==
  [runs : Seq(Groups) \ {<<>>}, quorum : Nat, groups : Nat, acknowledged : BOOLEAN,
   adjudicated : BOOLEAN, proof : {"attested", "observed"}]
WrittenDocument ==
  [version : 5..7, agents : [Lenses -> WrittenAgent], roster : Seq(Lenses),
   distribute : BOOLEAN, concentrated : BOOLEAN,
   profile : {"none", "strict-evaluation", "routine-review"}]

\* Only version 7 has a review profile.
ASSUME PolicyAssumption ==
  /\ Mediated \cap Commands = {}
  /\ Documents \subseteq {c \in WrittenDocument : c.version < 7 => c.profile = "none"}

VARIABLES
  document,    \* what the file holds
  current,     \* its version 7 form
  lenses,      \* the resolved lenses, in roster order
  risks,       \* the warnings of the description
  engine,      \* who runs them
  stage

policyVars == <<document, current, lenses, risks, engine, stage>>

Least(m, n) == IF m < n THEN m ELSE n

Given(n, default) == IF n = 0 THEN default ELSE n

GroupsOf(runs) == {runs[i] : i \in DOMAIN runs}

Multi(agent) == Len(agent.runs) > 1

(***************************************************************************)
(* Outage tolerance, three times.                                          *)
(***************************************************************************)
\* The runs left when some groups are away.
Left(runs, gone) == {i \in DOMAIN runs : runs[i] \notin gone}

\* manage.ts: one group away, the groups counted in what is left.
ToleratesOneProviderOutage(runs, quorum, groups) ==
  \/ Cardinality(GroupsOf(runs)) <= 1
  \/ \A g \in GroupsOf(runs) :
       /\ Cardinality(Left(runs, {g})) >= quorum
       /\ Cardinality({runs[i] : i \in Left(runs, {g})}) >= groups

RunsIn(runs, g) == Cardinality({i \in DOMAIN runs : runs[i] = g})

\* schemas.ts: the largest group away.
SchemaTolerates(runs, quorum, groups) ==
  /\ \A g \in GroupsOf(runs) : Len(runs) - RunsIn(runs, g) >= quorum
  /\ Cardinality(GroupsOf(runs)) - 1 >= groups

\* lens-policy.ts: how many groups may go, the largest first.
Survives(runs, quorum, groups, gone) ==
  Cardinality(Left(runs, gone)) >= quorum /\ Cardinality(GroupsOf(runs) \ gone) >= groups

SurvivesAny(runs, quorum, groups, n) ==
  \A gone \in SUBSET GroupsOf(runs) :
    Cardinality(gone) = n => Survives(runs, quorum, groups, gone)

ProviderOutageTolerance(runs, quorum, groups) ==
  LET counts == {n \in 0..Cardinality(GroupsOf(runs)) : SurvivesAny(runs, quorum, groups, n)}
  IN IF ~Survives(runs, quorum, groups, {}) THEN 0
     ELSE CHOOSE n \in counts : \A m \in counts : m <= n

(***************************************************************************)
(* Policy of an agent.                                                     *)
(***************************************************************************)
DefaultQuorum(runs) == IF Len(runs) = 5 THEN 3 ELSE Least(2, Len(runs))

DefaultGroups(runs) ==
  IF Len(runs) = 5 THEN 3 ELSE Least(2, Cardinality(GroupsOf(runs)))

MultiPolicyAccepted(a) ==
  LET quorum == Given(a.quorum, DefaultQuorum(a.runs))
      groups == Given(a.groups, DefaultGroups(a.runs))
      distinct == Cardinality(GroupsOf(a.runs))
  IN /\ quorum <= Len(a.runs) /\ groups <= quorum /\ groups <= distinct
     /\ a.adjudicated => distinct >= 2
     /\ distinct > 1 => SchemaTolerates(a.runs, quorum, groups) \/ a.acknowledged

SinglePolicyAccepted(a) ==
  Given(a.quorum, 1) <= 1 /\ Given(a.groups, 1) <= 1 /\ ~a.adjudicated

PolicyAccepted(a) == IF Multi(a) THEN MultiPolicyAccepted(a) ELSE SinglePolicyAccepted(a)

\* Version 5 knows no acknowledgement and asks nothing of a single model.
V5PolicyAccepted(a) ==
  LET quorum == Given(a.quorum, Least(2, Len(a.runs)))
      distinct == Cardinality(GroupsOf(a.runs))
      groups == Given(a.groups, Least(2, distinct))
  IN IF Multi(a)
       THEN quorum <= Len(a.runs) /\ groups <= quorum /\ groups <= distinct
            /\ (a.adjudicated => distinct >= 2)
       ELSE ~a.adjudicated

\* The policy a review profile puts in place of the written one.
EffectivePolicy(a, profile) ==
  LET distinct == Cardinality(GroupsOf(a.runs)) IN
  CASE profile = "none" -> a
    [] profile = "strict-evaluation" ->
         [a EXCEPT !.quorum = Len(a.runs), !.groups = distinct, !.acknowledged = TRUE]
    [] profile = "routine-review" ->
         [a EXCEPT !.quorum = Least(2, Len(a.runs)), !.groups = Least(2, distinct)]

(***************************************************************************)
(* The concentration of a roster on one provider.                          *)
(***************************************************************************)
\* How many lenses with several runs come before the i-th of the roster.
RotatableBefore(c, i) == Cardinality({j \in 1..(i - 1) : Multi(c.agents[c.roster[j]])})

PrimaryIndex(c, i) ==
  LET a == c.agents[c.roster[i]] IN
  IF c.distribute /\ Multi(a) THEN (RotatableBefore(c, i) % Len(a.runs)) + 1 ELSE 1

\* Mutant: the first run of an agent counts as its primary, rotated or not.
PrimaryGroups_Unrotated(c) == {c.agents[c.roster[i]].runs[1] : i \in DOMAIN c.roster}

PrimaryGroups(c) ==
  {c.agents[c.roster[i]].runs[PrimaryIndex(c, i)] : i \in DOMAIN c.roster}

AllGroups(c) == UNION {GroupsOf(c.agents[c.roster[i]].runs) : i \in DOMAIN c.roster}

ConcentratesPrimaries(c) ==
  Len(c.roster) >= 2 /\ Cardinality(AllGroups(c)) > 1 /\ Cardinality(PrimaryGroups(c)) = 1

ConcentrationAccepted(c) == c.concentrated \/ ~ConcentratesPrimaries(c)

\* An observed proof needs an adapter that mediates reads, for every run.
ProofAccepted(a) == a.proof = "observed" => GroupsOf(a.runs) \subseteq Mediated

CurrentAccepted(c) ==
  /\ ConcentrationAccepted(c)
  /\ \A l \in Lenses : PolicyAccepted(EffectivePolicy(c.agents[l], c.profile))
  /\ \A l \in Lenses : ProofAccepted(c.agents[l])

DocumentAccepted(c) ==
  CASE c.version = 5 -> \A l \in Lenses : V5PolicyAccepted(c.agents[l])
    [] c.version = 6 -> ConcentrationAccepted(c) /\ \A l \in Lenses : PolicyAccepted(c.agents[l])
    [] c.version = 7 -> CurrentAccepted(c)

(***************************************************************************)
(* Migration.                                                              *)
(***************************************************************************)
\* Mutant: five models get the wide quorum, whatever version wrote them.
MigratedAgent_AllFives(a, version) ==
  LET quorum == Given(a.quorum, DefaultQuorum(a.runs))
      groups == Given(a.groups, DefaultGroups(a.runs))
      proof == IF GroupsOf(a.runs) \subseteq Mediated THEN "observed" ELSE "attested"
  IN IF Multi(a)
       THEN [a EXCEPT !.quorum = quorum, !.groups = groups, !.proof = proof,
                      !.acknowledged = @ \/ ~ToleratesOneProviderOutage(a.runs, quorum, groups)]
       ELSE [a EXCEPT !.proof = proof]

\* Mutant: a migrated agent that depends on one provider is not acknowledged.
MigratedAgent_Unacknowledged(a, version) ==
  LET five == version = 6 /\ Len(a.runs) = 5
      quorum == Given(a.quorum, IF five THEN 3 ELSE Least(2, Len(a.runs)))
      groups == Given(a.groups, IF five THEN 3 ELSE Least(2, Cardinality(GroupsOf(a.runs))))
      proof == IF GroupsOf(a.runs) \subseteq Mediated THEN "observed" ELSE "attested"
  IN IF Multi(a) THEN [a EXCEPT !.quorum = quorum, !.groups = groups, !.proof = proof]
                 ELSE [a EXCEPT !.proof = proof]

MigratedAgent(a, version) ==
  LET five == version = 6 /\ Len(a.runs) = 5
      quorum == Given(a.quorum, IF five THEN 3 ELSE Least(2, Len(a.runs)))
      groups == Given(a.groups, IF five THEN 3 ELSE Least(2, Cardinality(GroupsOf(a.runs))))
      proof == IF GroupsOf(a.runs) \subseteq Mediated THEN "observed" ELSE "attested"
  IN IF Multi(a)
       THEN [a EXCEPT !.quorum = quorum, !.groups = groups, !.proof = proof,
                      !.acknowledged = @ \/ ~ToleratesOneProviderOutage(a.runs, quorum, groups)]
       ELSE [a EXCEPT !.proof = proof]

MigratedDocument(c) ==
  [c EXCEPT !.version = 7,
            !.agents = [l \in Lenses |-> MigratedAgent(c.agents[l], c.version)],
            !.concentrated = @ \/ ConcentratesPrimaries(c)]

(***************************************************************************)
(* Resolution.                                                             *)
(***************************************************************************)
ResolvedPolicy(a) ==
  [quorum |-> Given(a.quorum, IF Multi(a) THEN DefaultQuorum(a.runs) ELSE 1),
   groups |-> Given(a.groups, DefaultGroups(a.runs)),
   acknowledged |-> a.acknowledged]

\* A model run of a lens: its place in the written order and its provider.
ResolvedReviewer(a, configured) == [configured |-> configured, group |-> a.runs[configured]]

\* The i-th lens, its runs from the primary round.
ResolvedLens(c, i) ==
  LET a == EffectivePolicy(c.agents[c.roster[i]], c.profile)
      n == Len(a.runs)
      offset == PrimaryIndex(c, i) - 1
  IN [agent |-> c.roster[i],
      reviewers |-> [k \in 1..n |-> ResolvedReviewer(a, ((offset + k - 1) % n) + 1)],
      policy |-> ResolvedPolicy(a)]

RunsOf(l) == [k \in DOMAIN l.reviewers |-> l.reviewers[k].group]

ResolvedLenses(c) == [i \in DOMAIN c.roster |-> ResolvedLens(c, i)]

(***************************************************************************)
(* Description and routing.                                                *)
(***************************************************************************)
Risk(code, acknowledged, about) == [code |-> code, acknowledged |-> acknowledged, about |-> about]

Concentration(ls, allowed) ==
  IF /\ Len(ls) > 1
     /\ Cardinality({RunsOf(ls[i])[1] : i \in DOMAIN ls}) = 1
     /\ Cardinality(UNION {GroupsOf(RunsOf(ls[i])) : i \in DOMAIN ls}) > 1
    THEN {Risk("provider_concentration", allowed, {ls[i].agent : i \in DOMAIN ls})}
    ELSE {}

LensRisks(l) ==
  LET runs == RunsOf(l)
      p == l.policy
      risk(code) == Risk(code, p.acknowledged, {l.agent})
  IN {risk(code) : code \in {c \in {"zero_outage_tolerance"} :
        /\ Cardinality(GroupsOf(runs)) > 1
        /\ ProviderOutageTolerance(runs, p.quorum, p.groups) = 0}}
     \cup {risk(code) : code \in {c \in {"single_failure_makes_quorum_unreachable"} :
        p.quorum = Len(runs) /\ Len(runs) > 1}}

DescribeTopology(ls, allowed) ==
  Concentration(ls, allowed) \cup UNION {LensRisks(ls[i]) : i \in DOMAIN ls}

ReviewerGroups(ls) == UNION {GroupsOf(RunsOf(ls[i])) : i \in DOMAIN ls}

RouteSdkReviewers(ls) ==
  CASE ReviewerGroups(ls) \subseteq Commands -> "command"
    [] ReviewerGroups(ls) \cap Commands = {} -> "native"
    [] OTHER -> "refused"

(***************************************************************************)
(* The way of a document.                                                  *)
(***************************************************************************)
PolicyInit ==
  /\ document \in {c \in Documents : DocumentAccepted(c)}
  /\ current = document
  /\ lenses = <<>> /\ risks = {} /\ engine = "none"
  /\ stage = "document"

LoadsDocument ==
  /\ stage = "document"
  /\ LET c == IF document.version = 7 THEN document ELSE MigratedDocument(document)
     IN current' = c /\ stage' = IF CurrentAccepted(c) THEN "current" ELSE "refused"
  /\ UNCHANGED <<document, lenses, risks, engine>>

ResolvesRoster ==
  /\ stage = "current"
  /\ lenses' = ResolvedLenses(current)
  /\ stage' = "resolved"
  /\ UNCHANGED <<document, current, risks, engine>>

RoutesReviewers ==
  /\ stage = "resolved"
  /\ engine' = RouteSdkReviewers(lenses)
  /\ stage' = IF engine' = "refused" THEN "refused" ELSE "routed"
  /\ UNCHANGED <<document, current, lenses, risks>>

Describes ==
  /\ stage = "routed"
  /\ risks' = DescribeTopology(lenses, current.concentrated)
  /\ stage' = "described"
  /\ UNCHANGED <<document, current, lenses, engine>>

PolicyNext == LoadsDocument \/ ResolvesRoster \/ RoutesReviewers \/ Describes

PolicySpec == PolicyInit /\ [][PolicyNext]_policyVars

(***************************************************************************)
(* Properties.                                                             *)
(***************************************************************************)
\* The quorum and the groups an old document asked of a lens with several
\* models, by the defaults of its own version.
MeantQuorum(a, version) ==
  Given(a.quorum, IF version = 5 THEN Least(2, Len(a.runs)) ELSE DefaultQuorum(a.runs))
MeantGroups(a, version) ==
  Given(a.groups, IF version = 5 THEN Least(2, Cardinality(GroupsOf(a.runs)))
                                 ELSE DefaultGroups(a.runs))

\* A migration loses nothing: every accepted old document becomes an accepted
\* version 7 document, unless it asks one model for more than one pass, which
\* version 5 accepted; and each of its lenses resolves to the passes and the
\* provider groups it asked for (migrateLegacyShape, resolvedPolicy).
MigrationKeepsPolicy ==
  /\ stage = "refused" /\ engine = "none" =>
       \E l \in Lenses : ~Multi(document.agents[l]) /\ ~SinglePolicyAccepted(document.agents[l])
  /\ stage = "resolved" /\ document.version < 7 =>
       \A i \in DOMAIN lenses :
         LET a == document.agents[lenses[i].agent] IN
         Multi(a) => /\ lenses[i].policy.quorum = MeantQuorum(a, document.version)
                     /\ lenses[i].policy.groups = MeantGroups(a, document.version)

\* Whatever can stop a whole roster or lens when one provider is away was
\* acknowledged: a configuration that is described with a concentration or a
\* zero outage tolerance carries its acknowledgement. Migration, schema and
\* description compute these risks apart from each other.
RisksAreAcknowledged ==
  \A r \in risks :
    r.code \in {"provider_concentration", "zero_outage_tolerance"} => r.acknowledged
=============================================================================
