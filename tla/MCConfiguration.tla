-------------------------- MODULE MCConfiguration --------------------------
(* The configuration in one run: sessions that edit the file (ConfigStore), *)
(* and what a document of any version comes to mean (ConfigPolicy). The two *)
(* do not meet: `side` is the one that goes on, and the other rests in one  *)
(* initial state.                                                           *)
EXTENDS ConfigStore, ConfigPolicy

CONSTANTS a1, b1, p1, g1, g2, g3

VARIABLE side

(***************************************************************************)
(* Documents the sessions edit.                                            *)
(***************************************************************************)
Sdk == [uses |-> {"sdk"}, proof |-> "native_attested"]
Command == [uses |-> {"command"}, proof |-> "attested"]

Doc(form, entries, adapters, defaults, roster) ==
  [kind |-> form, agents |-> entries, adapters |-> adapters, defaults |-> defaults,
   projects |-> p1 :> [stored |-> roster # {}, agents |-> roster]]

\* A legacy file with derived coverage, and one saved before.
SomeStarts ==
  {Doc("legacy", a1 :> Sdk @@ b1 :> Command, {"sdk", "command"}, {a1, b1}, {}),
   Doc("v7", a1 :> Sdk @@ b1 :> Sdk, {"sdk"}, {a1}, {b1})}

(***************************************************************************)
(* Documents that are migrated.                                            *)
(***************************************************************************)
\* Lens b1 has two fixed policies; lens a1 runs through them all.
RunLists == {<<g1>>, <<g3>>, <<g1, g2>>, <<g1, g1, g2>>, <<g1, g2, g3, g1, g2>>}

Agent(r, q, m, ack, adj) ==
  [runs |-> r, quorum |-> q, groups |-> m, acknowledged |-> ack, adjudicated |-> adj,
   proof |-> "attested"]

Varied == {Agent(r, q, m, ack, FALSE) : r \in RunLists, q \in {0, 1, 2, 3}, m \in {0, 1, 2},
                                        ack \in BOOLEAN}
          \cup {Agent(r, 0, 0, FALSE, TRUE) : r \in RunLists}
Fixed == {Agent(<<g1, g2>>, 1, 1, FALSE, FALSE), Agent(<<g2, g1, g1>>, 2, 2, TRUE, TRUE)}

Policies(form, one, other, distribute, concentrated, profile) ==
  [version |-> form, agents |-> a1 :> one @@ b1 :> other, roster |-> <<b1, a1>>,
   distribute |-> distribute, concentrated |-> concentrated, profile |-> profile]

\* Before version 6 nothing is acknowledged; only version 7 has a profile.
Profiles(n) == IF n = 7 THEN {"none", "strict-evaluation", "routine-review"} ELSE {"none"}

SomeDocuments ==
  UNION {{Policies(n, x, y, d, c, profile) :
            x \in {f \in Varied : n > 5 \/ ~f.acknowledged},
            y \in {f \in Fixed : n > 5 \/ ~f.acknowledged},
            d \in BOOLEAN, c \in {FALSE, n > 5}, profile \in Profiles(n)} : n \in 5..7}

Resting == Policies(7, Agent(<<g1>>, 0, 0, FALSE, FALSE), Agent(<<g1>>, 0, 0, FALSE, FALSE),
                    FALSE, TRUE, "none")

(***************************************************************************)
(* Both.                                                                   *)
(***************************************************************************)
Init ==
  \/ /\ side = "store" /\ ConfigInit
     /\ document = Resting /\ current = document
     /\ lenses = <<>> /\ risks = {} /\ engine = "none" /\ stage = "document"
  \/ /\ side = "policy" /\ PolicyInit
     /\ ConfigInit /\ text.kind = "v7"

Next ==
  \/ side = "store" /\ ConfigNext /\ UNCHANGED <<side, policyVars>>
  \/ side = "policy" /\ PolicyNext /\ UNCHANGED <<side, vars>>

Spec ==
  /\ Init /\ [][Next]_<<side, vars, policyVars>>
  /\ \A s \in Sessions : WF_vars(side = "store" /\ (SaveStep(s) \/ Fails(s) \/ ApplyFails(s)))

\* An old document keeps its passes and groups, and what can stop a roster or a
\* lens when one provider is away was acknowledged (manage.ts, schemas.ts).
PolicySurvives == ConfigTypeOK /\ MigrationKeepsPolicy /\ RisksAreAcknowledged
=============================================================================
