------------------------------ MODULE SlotPool ------------------------------
(***************************************************************************)
(* What the admission queue promises: a pool of execution slots shared by  *)
(* provider groups, and one line in front of it.  A slot is granted within *)
(* the global and the provider's limit, to the first in line that fits,    *)
(* and is given back at most once.  So nobody is overtaken but by one of   *)
(* another group while the own group is full.                              *)
(***************************************************************************)
EXTENDS Naturals, FiniteSets, Sequences, SequencesExt

CONSTANTS Reviewers, GroupOf, MaxConcurrency, ProviderLimit

VARIABLES
  holders,     \* reviewers that occupy a slot
  line         \* reviewers that wait for one, in the order they came

poolVars == <<holders, line>>

InGroup(g) == {r \in holders : GroupOf[r] = g}

Fits(r) ==
  /\ Cardinality(holders) < MaxConcurrency
  /\ Cardinality(InGroup(GroupOf[r])) < ProviderLimit[GroupOf[r]]

Init == holders = {} /\ line = <<>>

Join(r) ==
  /\ \A i \in 1..Len(line) : line[i] # r
  /\ line' = Append(line, r)
  /\ UNCHANGED holders

\* One leaves the line, whose time is up, or all of them do.
Leave(i) == line' = RemoveAt(line, i) /\ UNCHANGED holders
Disband == line' = <<>> /\ UNCHANGED holders

Grant(i) ==
  /\ line[i] \notin holders
  /\ Fits(line[i]) /\ \A j \in 1..i-1 : ~Fits(line[j])
  /\ holders' = holders \cup {line[i]}
  /\ line' = RemoveAt(line, i)

GiveBack(r) ==
  /\ r \in holders
  /\ holders' = holders \ {r}
  /\ UNCHANGED line

Next ==
  \/ \E r \in Reviewers : Join(r) \/ GiveBack(r)
  \/ \E i \in 1..Len(line) : Leave(i) \/ Grant(i)
  \/ Disband

Spec == Init /\ [][Next]_poolVars
=============================================================================
