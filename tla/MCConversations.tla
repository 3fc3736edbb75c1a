-------------------------- MODULE MCConversations --------------------------
(* Three conversations with a provider, in one run: a job of the native     *)
(* engine with an SDK's session (NativeSession), an adapter with a reviewer *)
(* in pages (PagedSession), and what is kept of those pages (ResultPages).  *)
(* They do not meet: `side` is the one that goes on, and the other two rest *)
(* in one initial state.                                                    *)
EXTENDS Naturals, FiniteSets, Sequences, TLC

CONSTANTS
  Kinds, MaxActivity,
  Adapters, Pages, PageRepairs, CoverageTurns, MaxEvents,
  Ids, Candidates, Contents, Bad, PerPage, MaxFindings, MaxItems, Declarations,
  MaxPages, MaxRepairs, MaxInspections, MaxAttempts,
  a, b, v, w

ASSUME ConversationsAssumption ==
  /\ Kinds \subseteq {"claude", "codex", "copilot"}
  /\ Adapters \subseteq {"command", "claude", "copilot", "codex"}
  /\ {Pages, PerPage, MaxPages, MaxAttempts} \subseteq Nat \ {0}
  /\ {MaxActivity, PageRepairs, CoverageTurns, MaxEvents, MaxItems} \subseteq Nat
  /\ Declarations \subseteq [count : 0..MaxFindings, fragments : Nat, entries : Nat]
  /\ DOMAIN Contents = Ids /\ Candidates \in Seq(Ids)

VARIABLES
  side,
  \* NativeSession
  kind, mode, job, signal, terminal, ended, outcome, late, op, parked, returned,
  held, throws, stopped, listed, closing, force, sdk, runtime, home, activity,
  \* PagedSession
  adapter, paged, policy, step, waiting, leaving, aborted, gone, forced, process,
  code, claim, boxed, unboxed, reply, asked, events, page, staged, handed, lost, wasted,
  repairs, covered, coverage, latched, broken, answer, isolation,
  \* ResultPages
  resultKind, kept, accepted, onPage, pageRepairs, inspections, attempt, verdict, history

Native == INSTANCE NativeSession
Paged == INSTANCE PagedSession
Results == INSTANCE ResultPages
  WITH kind <- resultKind, repairs <- pageRepairs, outcome <- verdict, returned <- history

nativeVars ==
  <<kind, mode, job, signal, terminal, ended, outcome, late, op, parked, returned, held,
    throws, stopped, listed, closing, force, sdk, runtime, home, activity>>
pagedVars ==
  <<adapter, paged, policy, step, waiting, leaving, aborted, gone, forced, process, code,
    claim, boxed, unboxed, reply, asked, events, page, staged, handed, lost, wasted, repairs,
    covered, coverage, latched, broken, answer, isolation>>
resultVars ==
  <<resultKind, kept, accepted, onPage, pageRepairs, inspections, attempt, verdict, history>>

TwoCandidates == <<a, b>>

\* One id is shown with different contents, the other with one.
Shown == a :> {v, w, Bad} @@ b :> {v}

Declare(count, fragments, entries) ==
  [count |-> count, fragments |-> fragments, entries |-> entries]
SomeDeclarations ==
  {Declare(0, 0, 0), Declare(2, 0, 0), Declare(1, 1, 0), Declare(0, 0, 1)}

Init ==
  /\ side \in {"native", "paged", "results"}
  /\ Native!Init /\ Paged!PagedInit /\ Results!Init
  /\ side # "native" => kind = CHOOSE k \in Kinds : TRUE
  /\ side # "paged" =>
       adapter = (CHOOSE x \in Adapters : TRUE) /\ ~paged /\ policy = "prefer" /\ covered
  /\ side # "results" => resultKind = "reviewer"

Next ==
  \/ side = "native" /\ Native!Next /\ UNCHANGED <<side, pagedVars, resultVars>>
  \/ side = "paged" /\ Paged!PagedNext /\ UNCHANGED <<side, nativeVars, resultVars>>
  \/ side = "results" /\ Results!Next /\ UNCHANGED <<side, nativeVars, pagedVars>>

\* The fairness of each module, for the side that goes on.
OfNative(A) == side = "native" /\ A
OfPaged(A) == side = "paged" /\ A

Spec ==
  /\ Init /\ [][Next]_<<side, nativeVars, pagedVars, resultVars>>
  /\ WF_nativeVars(OfNative(Native!Operation)) /\ WF_nativeVars(OfNative(Native!Cleanup))
  /\ WF_nativeVars(OfNative(Native!Consumer)) /\ WF_nativeVars(OfNative(Native!Abort))
  /\ WF_nativeVars(OfNative(Native!RuntimeExits))
  /\ WF_pagedVars(OfPaged(Paged!Adapter)) /\ WF_pagedVars(OfPaged(Paged!Severed))
  /\ WF_pagedVars(OfPaged(Paged!Killed)) /\ WF_pagedVars(OfPaged(Paged!Aborts))
  /\ WF_pagedVars(OfPaged(Paged!Pulls \/ Paged!Refuses)) /\ WF_pagedVars(OfPaged(Paged!Forces))
  /\ WF_resultVars(side = "results" /\ Results!Next)

\* Cleaning up takes nothing that is still used: a home its process writes to,
\* a slot whose process still runs, a review that was delivered
\* (run-native.ts:936-973).
CleanupIsSafe ==
  /\ Native!SessionTypeOK
  /\ Native!HomeOutlivesRuntime /\ Native!SlotCoversSession /\ Native!ResultIsRetained

\* Every accepted page has one owner until its session is over, and then goes with
\* a result that somebody received or is abandoned, but for two named exceptions;
\* isolation is reported as it was, and no session outlasts the turns it is given
\* (command.ts, codex.ts:280-640).
SessionsAreHonest ==
  /\ Paged!PagedTypeOK
  /\ Paged!EveryPageHasAnOwner /\ Paged!IsolationIsHonest /\ Paged!TurnsAreBounded

\* What a provider returned once is in the delivered result, as first returned
\* (result-pages.ts:719).
NothingDropped == Results!NothingDropped /\ Results!DecisionsStand

\* Every conversation ends and leaves no process, whatever the other does.
EveryConversationEnds ==
  /\ side = "native" => Native!SessionIsReleased
  /\ side = "paged" => Paged!PagedSessionEnds
  /\ side = "results" => Results!ConversationEnds
=============================================================================
