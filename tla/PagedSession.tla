---------------------------- MODULE PagedSession ----------------------------
(* run() of the review adapters that collect a structured result page by page: *)
(* the command adapter, and those of Claude, Copilot and Codex before the       *)
(* native ones.  A turn asks for a page, the reply is staged in a spool and     *)
(* validated, a rejected page is asked for again, and the complete result is    *)
(* handed over together with its spools.  The consumer pulls the generator, and *)
(* leaves it when its signal is aborted.  Texts, schemas, tools and coverage    *)
(* ranges are left out: a reply is what the adapter does with it.               *)
EXTENDS Naturals

CONSTANTS
  Adapters,       \* of "command", "claude", "copilot", "codex"
  Pages,          \* pages of the complete result
  PageRepairs,    \* MAX_PAGE_SCHEMA_REPAIRS
  CoverageTurns,  \* turns that ask for missing coverage
  MaxEvents       \* bound: activity events of a session

VARIABLES
  adapter,   \* the adapter of the session
  paged,     \* the result is collected in pages
  policy,    \* isolation policy: "prefer" or "enforced"
  step,      \* where run() is
  waiting,   \* run() is suspended at a yield
  leaving,   \* iterator.return() waits for the next yield
  aborted,   \* input.signal is aborted
  gone,      \* the consumer has stopped pulling
  forced,    \* forceCleanup was called
  process,   \* the runtime: none, up, down
  code,      \* the exit of a command: none, zero, other
  claim,     \* the isolation a command claims: none, prompt, enforced
  boxed,     \* Claude runs its turns in the sandbox
  unboxed,   \* a turn has run outside of it
  reply,     \* of the current turn: unsent, none, or what the provider said
  asked,     \* requests sent
  events,    \* activity events so far
  page,      \* pages the collector has accepted
  staged,    \* spools of accepted pages that the adapter holds
  handed,    \* spools in the result that the consumer was given
  lost,      \* spools in a result that was yielded to nobody
  wasted,    \* spools of accepted pages recorded as abandoned
  repairs,   \* repairs of the current page
  covered,   \* nothing the reviewer must read is missing
  coverage,  \* coverage turns so far
  latched,   \* terminal line of a command: none, result, failure
  broken,    \* the command has broken its protocol
  answer,    \* the terminal event yielded: none, result, failure
  isolation  \* the isolation it reports: none, prompt, readonly, enforced

setup == <<adapter, paged, policy>>
consumer == <<aborted, gone, forced>>
command == <<code, claim, latched, broken>>
sandbox == <<boxed, unboxed>>
spools == <<staged, handed, lost, wasted>>
repairing == <<repairs, covered, coverage>>
outcome == <<answer, isolation>>
pagedVars == <<setup, step, waiting, leaving, consumer, process, command, sandbox,
               reply, asked, events, page, spools, repairing, outcome>>

Replies == {"page", "malformed", "oversized", "truncated", "empty", "failed"}

PagedTypeOK ==
  /\ adapter \in Adapters /\ paged \in BOOLEAN /\ policy \in {"prefer", "enforced"}
  /\ step \in {"opening", "asking", "storing", "assembling", "settling",
               "cancelling", "closing", "closed", "crashed"}
  /\ waiting \in BOOLEAN /\ leaving \in BOOLEAN /\ aborted \in BOOLEAN
  /\ gone \in BOOLEAN /\ forced \in BOOLEAN
  /\ process \in {"none", "up", "down"}
  /\ code \in {"none", "zero", "other"} /\ claim \in {"none", "prompt", "enforced"}
  /\ boxed \in BOOLEAN /\ unboxed \in BOOLEAN
  /\ reply \in Replies \cup {"unsent", "none", "unboxable", "result", "noise", "ended"}
  /\ asked \in Nat /\ events \in 0..MaxEvents /\ page \in 0..Pages
  /\ staged \in 0..Pages /\ handed \in 0..Pages /\ lost \in 0..Pages /\ wasted \in Nat
  /\ repairs \in 0..PageRepairs /\ coverage \in 0..CoverageTurns /\ covered \in BOOLEAN
  /\ latched \in {"none", "result", "failure"} /\ broken \in BOOLEAN
  /\ answer \in {"none", "result", "failure"}
  /\ isolation \in {"none", "prompt", "readonly", "enforced"}

\* run() is called with a live signal.  The Copilot and Codex adapters refuse an
\* enforced policy before anything else, so they never get this far with one.
PagedInit ==
  /\ adapter \in Adapters /\ paged \in BOOLEAN
  /\ policy \in (IF adapter \in {"command", "claude"} THEN {"prefer", "enforced"}
                 ELSE {"prefer"})
  /\ step = "opening" /\ waiting = FALSE /\ leaving = FALSE
  /\ aborted = FALSE /\ gone = FALSE /\ forced = FALSE
  /\ process = "none" /\ code = "none" /\ claim = "none"
  /\ boxed = TRUE /\ unboxed = FALSE
  /\ reply = "unsent" /\ asked = 0 /\ events = 0 /\ page = 0
  /\ staged = 0 /\ handed = 0 /\ lost = 0 /\ wasted = 0
  /\ repairs = 0 /\ covered \in BOOLEAN /\ coverage = 0
  /\ latched = "none" /\ broken = FALSE
  /\ answer = "none" /\ isolation = "none"

-----------------------------------------------------------------------------
(* What the steps share. *)

Level == CASE adapter = "claude" -> (IF boxed THEN "enforced" ELSE "prompt")
           [] adapter = "command" -> (IF claim = "enforced" THEN "enforced" ELSE "prompt")
           [] OTHER -> "readonly"

\* The terminal event is yielded, into the pull or into nothing when the
\* consumer's return() is waiting, and run() goes into its finally block.
Ends(event) ==
  /\ step' = "closing"
  /\ answer' = IF leaving THEN answer ELSE event
  /\ isolation' = IF leaving THEN isolation ELSE Level
Fails == Ends("failure") /\ UNCHANGED spools

\* abandon(): every accepted spool is recorded and removed.
Abandon == staged' = 0 /\ wasted' = wasted + staged /\ UNCHANGED <<handed, lost>>
FailsAbandoned == Ends("failure") /\ Abandon

\* Mutant: the adapter keeps the spools that it has handed over.
HandOver_Keeps ==
  Ends("result") /\ handed' = staged /\ UNCHANGED <<staged, lost, wasted>>
\* resultStorage(): the accepted spools go with the result.  A consumer that left
\* before it was yielded never sees it, and the adapter no longer holds them.
HandOver ==
  /\ Ends("result")
  /\ staged' = 0
  /\ IF leaving THEN lost' = staged /\ UNCHANGED <<handed, wasted>>
     ELSE handed' = staged /\ UNCHANGED <<lost, wasted>>

\* A progress event is yielded between two turns.
Yields(next) ==
  /\ reply' = "unsent"
  /\ waiting' = ~leaving
  /\ step' = IF leaving THEN "closing" ELSE next
  /\ UNCHANGED outcome

-----------------------------------------------------------------------------
(* Opening the session, and asking for a page or for the whole result. *)

Opened ==
  /\ step' = "asking" /\ process' = "up"
  /\ UNCHANGED <<spools, outcome>>

\* A command is asked for its first page at once; a child without standard input
\* or process, or one that the adapter still owns from before, fails the attempt.
CommandOpens ==
  /\ adapter = "command" /\ step = "opening"
  /\ \/ Opened /\ reply' = "none" /\ asked' = 1
     \/ Fails /\ UNCHANGED <<process, reply, asked>>
  /\ UNCHANGED <<setup, waiting, leaving, consumer, command, sandbox, events, page,
                 repairing>>

\* The private session directory of Claude; its process starts with the turn.
ClaudeOpens ==
  /\ adapter = "claude" /\ step = "opening"
  /\ Opened
  /\ UNCHANGED <<setup, waiting, leaving, consumer, command, sandbox, reply, asked,
                 events, page, repairing>>

\* The client is started and the session created, unless the signal comes first.
CopilotOpens ==
  /\ adapter = "copilot" /\ step = "opening"
  /\ \/ ~aborted /\ ~forced /\ Opened
     \/ Fails /\ process' \in {"none", "up"}
  /\ UNCHANGED <<setup, waiting, leaving, consumer, command, sandbox, reply, asked,
                 events, page, repairing>>

\* The private home of Codex, without which or without a key there is no turn.
CodexOpens ==
  /\ adapter = "codex" /\ step = "opening"
  /\ \/ Opened
     \/ Fails /\ UNCHANGED process
  /\ UNCHANGED <<setup, waiting, leaving, consumer, command, sandbox, reply, asked,
                 events, page, repairing>>

Asking == step = "asking" /\ ~waiting /\ reply = "unsent"
Sends ==
  /\ reply' = "none" /\ asked' = asked + 1
  /\ unboxed' = (unboxed \/ (adapter = "claude" /\ ~boxed))
  /\ UNCHANGED <<step, spools, outcome>>

\* A Claude turn is a query of its own, which an aborted signal prevents.
ClaudeAsks ==
  /\ adapter = "claude" /\ Asking
  /\ IF aborted \/ forced THEN Fails /\ UNCHANGED <<reply, asked, unboxed>> ELSE Sends
  /\ UNCHANGED <<setup, waiting, leaving, consumer, process, command, boxed, events,
                 page, repairing>>

CopilotAsks ==
  /\ adapter = "copilot" /\ Asking /\ Sends
  /\ UNCHANGED <<setup, waiting, leaving, consumer, process, command, boxed, events,
                 page, repairing>>

CodexAsks ==
  /\ adapter = "codex" /\ Asking /\ Sends
  /\ UNCHANGED <<setup, waiting, leaving, consumer, process, command, boxed, events,
                 page, repairing>>

-----------------------------------------------------------------------------
(* The provider: what it says in a turn, and when its process ends. *)

Said(next) ==
  /\ reply' = next
  /\ UNCHANGED <<setup, step, waiting, leaving, consumer, process, command, sandbox,
                 asked, events, page, spools, repairs, coverage, outcome>>

\* A reviewer that was asked for missing ranges may have read them by its reply.
Answers ==
  /\ adapter # "command" /\ step = "asking" /\ reply = "none" /\ process = "up"
  /\ \E said \in Replies : Said(said)
  /\ covered' \in {covered, TRUE}

\* The sandbox cannot be started.
Unboxable ==
  /\ adapter = "claude" /\ boxed /\ step = "asking" /\ reply = "none" /\ process = "up"
  /\ Said("unboxable") /\ UNCHANGED covered

\* A line of a command: a page, a whole result, a failure, or anything else.
Writes ==
  /\ adapter = "command" /\ step = "asking" /\ reply = "none" /\ process = "up"
  /\ \E said \in {"page", "malformed", "result", "failed", "noise"} : Said(said)
  /\ UNCHANGED covered

\* An aborted or forced session hears nothing more but its end.
Severed ==
  /\ step = "asking" /\ reply = "none" /\ (process = "down" \/ aborted \/ forced)
  /\ IF adapter = "command" THEN process = "down" /\ Said("ended") ELSE Said("failed")
  /\ UNCHANGED covered

\* The first line of a command may claim its isolation.
Claims ==
  /\ adapter = "command" /\ step = "asking" /\ reply = "none" /\ process = "up"
  /\ claim = "none" /\ latched = "none" /\ page = 0 /\ events = 0
  /\ claim' \in {"prompt", "enforced"}
  /\ UNCHANGED <<setup, step, waiting, leaving, consumer, process, code, latched, broken,
                 sandbox, reply, asked, events, page, spools, repairing, outcome>>

Exits ==
  /\ process = "up"
  /\ process' = "down"
  /\ code' \in (IF adapter = "command" THEN {"zero", "other"} ELSE {"none"})
  /\ UNCHANGED <<setup, step, waiting, leaving, consumer, claim, latched, broken, sandbox,
                 reply, asked, events, page, spools, repairing, outcome>>
Quits == step \in {"asking", "settling"} /\ reply = "none" /\ Exits
Killed == (forced \/ broken \/ (aborted /\ adapter # "command") \/ step = "closed") /\ Exits

\* An activity event of the running turn.
Active ==
  /\ step = "asking" /\ reply = "none" /\ ~waiting /\ events < MaxEvents
  /\ process = "up" /\ latched = "none"
  /\ events' = events + 1
  /\ waiting' = ~leaving
  /\ step' = IF leaving THEN "closing" ELSE step
  /\ UNCHANGED <<setup, leaving, consumer, process, command, sandbox, reply, asked, page,
                 spools, repairing, outcome>>

-----------------------------------------------------------------------------
(* The replies of the Claude, Copilot and Codex adapters. *)

Read == step = "asking" /\ ~waiting /\ reply \notin {"unsent", "none"}
Kept == UNCHANGED <<setup, leaving, consumer, process, command, sandbox, asked, events, page>>

\* A usable reply goes into the collector, or is the result itself.
Takes ==
  IF paged THEN step' = "storing" /\ UNCHANGED <<waiting, reply, spools, outcome>>
  ELSE /\ IF reply \in {"page", "truncated"} THEN HandOver ELSE Fails
       /\ UNCHANGED <<waiting, reply>>

\* Mutant: a coverage turn is not counted.
AsksCoverage_Uncounted ==
  /\ paged /\ page = 0 /\ ~covered /\ coverage < CoverageTurns
  /\ Yields("asking")
  /\ UNCHANGED <<repairs, covered, coverage, spools>>

\* Ranges are missing before the first page: the turn is repeated for them.
AsksCoverage ==
  /\ paged /\ page = 0 /\ ~covered /\ coverage < CoverageTurns
  /\ coverage' = coverage + 1
  /\ Yields("asking")
  /\ UNCHANGED <<repairs, covered, spools>>

NeedsCoverage == paged /\ page = 0 /\ ~covered /\ coverage < CoverageTurns

\* Mutant: a missing sandbox is left for every policy.
LeavesSandbox_Always == boxed
\* Only a policy that does not insist on the sandbox goes on without it.
LeavesSandbox == boxed /\ policy # "enforced"

ClaudeReads ==
  /\ adapter = "claude" /\ Read
  /\ UNCHANGED <<setup, leaving, consumer, process, command, unboxed, asked, events, page>>
  /\ IF aborted \/ forced \/ reply \in {"failed", "empty"}
        THEN Fails /\ UNCHANGED <<waiting, reply, boxed, repairing>>
     ELSE IF reply = "unboxable"
        THEN IF LeavesSandbox
             THEN /\ boxed' = FALSE /\ reply' = "unsent"
                  /\ UNCHANGED <<step, waiting, spools, repairing, outcome>>
             ELSE Fails /\ UNCHANGED <<waiting, reply, boxed, repairing>>
     ELSE IF paged /\ reply = "truncated"
        THEN FailsAbandoned /\ UNCHANGED <<waiting, reply, boxed, repairing>>
     ELSE IF NeedsCoverage THEN AsksCoverage /\ UNCHANGED boxed
     ELSE Takes /\ UNCHANGED <<boxed, repairing>>

CopilotReads ==
  /\ adapter = "copilot" /\ Read /\ Kept
  /\ IF aborted THEN Fails /\ UNCHANGED <<waiting, reply, repairing>>
     ELSE IF forced \/ reply \in {"failed", "empty"} \/ (paged /\ reply = "truncated")
        THEN FailsAbandoned /\ UNCHANGED <<waiting, reply, repairing>>
     ELSE IF NeedsCoverage THEN AsksCoverage
     ELSE Takes /\ UNCHANGED repairing

\* A page turn whose message is rejected while run() waits at a yield leaves an
\* unhandled rejection, which ends the process.
CopilotCrashes ==
  /\ adapter = "copilot" /\ paged /\ step = "asking" /\ waiting /\ reply = "failed"
  /\ step' = "crashed"
  /\ UNCHANGED <<setup, waiting, leaving, consumer, process, command, sandbox, reply,
                 asked, events, page, spools, repairing, outcome>>

\* An abort is noticed with an event of the stream: one that comes after the last
\* event leaves the message as it is.
CodexReads ==
  /\ adapter = "codex" /\ Read /\ Kept
  /\ \/ (aborted \/ reply = "failed") /\ Fails /\ UNCHANGED <<waiting, reply>>
     \/ reply \in {"failed", "empty"} /\ FailsAbandoned /\ UNCHANGED <<waiting, reply>>
     \/ reply \notin {"failed", "empty"} /\ Takes
  /\ UNCHANGED repairing

-----------------------------------------------------------------------------
(* The collector. *)

\* The page is staged and accepted, and its progress event yielded.
Accepts ==
  /\ adapter # "command" /\ step = "storing" /\ reply \in {"page", "truncated"}
  /\ page' = page + 1 /\ staged' = staged + 1
  /\ repairs' = 0
  /\ Yields(IF page + 1 = Pages THEN "assembling" ELSE "asking")
  /\ UNCHANGED <<setup, leaving, consumer, process, command, sandbox, asked, events,
                 handed, lost, wasted, covered, coverage>>

\* Its spool is recorded and removed, and the same page asked for again.
Rejects ==
  /\ adapter # "command" /\ step = "storing" /\ reply \in {"malformed", "oversized"}
  /\ IF reply = "malformed" /\ repairs < PageRepairs
     THEN repairs' = repairs + 1 /\ Yields("asking") /\ UNCHANGED spools
     ELSE FailsAbandoned /\ UNCHANGED <<repairs, reply, waiting>>
  /\ UNCHANGED <<setup, leaving, consumer, process, command, sandbox, asked, events, page,
                 covered, coverage>>

\* The pages are put together, or contradict each other as a whole.
Assembles ==
  /\ step = "assembling" /\ ~waiting
  /\ HandOver \/ FailsAbandoned
  /\ UNCHANGED <<setup, waiting, leaving, consumer, process, command, sandbox, reply,
                 asked, events, page, repairing>>

-----------------------------------------------------------------------------
(* The command adapter. *)

\* A page that cannot be taken is the failure of the command.
CommandTakes ==
  IF reply = "malformed"
  THEN latched' = "failure" /\ Abandon /\ UNCHANGED <<page, asked>>
  ELSE /\ page' = page + 1 /\ staged' = staged + 1
       /\ UNCHANGED <<handed, lost, wasted>>
       /\ IF page + 1 < Pages THEN asked' = asked + 1 /\ UNCHANGED latched
          ELSE latched' \in {"result", "failure"} /\ UNCHANGED asked

CommandReads ==
  /\ adapter = "command" /\ Read /\ reply # "ended"
  /\ UNCHANGED <<setup, waiting, leaving, consumer, process, code, claim, sandbox, events,
                 repairing, outcome>>
  /\ IF aborted
     THEN step' = "cancelling" /\ UNCHANGED <<reply, asked, page, spools, latched, broken>>
     ELSE IF latched # "none" \/ reply = "noise" \/ (~paged /\ reply \in {"page", "malformed"})
     THEN /\ broken' = TRUE /\ step' = "settling"
          /\ UNCHANGED <<reply, asked, page, spools, latched>>
     ELSE /\ reply' = "none"
          /\ UNCHANGED <<step, broken>>
          /\ IF reply \in {"page", "malformed"} THEN CommandTakes
             ELSE /\ latched' = (IF reply = "result" THEN "result" ELSE "failure")
                  /\ UNCHANGED <<page, asked, spools>>

\* Standard output has ended, or the signal is aborted while it is awaited.
CommandEnds ==
  /\ adapter = "command" /\ step = "asking" /\ ~waiting
  /\ step' = IF aborted THEN "cancelling" ELSE "settling"
  /\ aborted \/ reply = "ended"
  /\ UNCHANGED <<setup, waiting, leaving, consumer, process, command, sandbox, reply, asked,
                 events, page, spools, repairing, outcome>>

\* The child has exited: its protocol, its exit code, its terminal line and the
\* isolation it has claimed decide, in this order.
Settles ==
  /\ adapter = "command" /\ step \in {"settling", "cancelling"} /\ process = "down"
  /\ IF \/ step = "cancelling" \/ aborted \/ broken
        \/ code = "other"
        \/ latched # "result"
        \/ policy = "enforced" /\ claim # "enforced"
     THEN Fails ELSE HandOver
  /\ UNCHANGED <<setup, waiting, leaving, consumer, process, command, sandbox, reply, asked,
                 events, page, repairing>>

-----------------------------------------------------------------------------
(* The finally block, the consumer, and forceCleanup. *)

\* Mutant: the spools are left to a result that was latched or yielded.
Closes_Forgets ==
  /\ step = "closing"
  /\ step' = "closed"
  /\ UNCHANGED <<setup, waiting, leaving, consumer, process, command, sandbox, reply, asked,
                 events, page, spools, repairing, outcome>>
\* The spools that nobody was given are abandoned; the command adapter leaves
\* them when it has latched a result.
Closes ==
  /\ step = "closing"
  /\ step' = "closed"
  /\ IF latched = "result" THEN UNCHANGED spools ELSE Abandon
  /\ UNCHANGED <<setup, waiting, leaving, consumer, process, command, sandbox, reply, asked,
                 events, page, repairing, outcome>>

\* The yielded event is recorded and the generator pulled again; for the last
\* time when the signal is aborted.
Pulls ==
  /\ waiting /\ ~gone
  /\ waiting' = FALSE
  /\ gone' = aborted /\ leaving' = aborted
  /\ UNCHANGED <<setup, step, aborted, forced, process, command, sandbox, reply, asked,
                 events, page, spools, repairing, outcome>>

\* The event is refused: a generator whose signal is aborted returns, another one
\* stays suspended.
Refuses ==
  /\ waiting /\ ~gone
  /\ gone' = TRUE
  /\ IF aborted THEN waiting' = FALSE /\ leaving' = TRUE /\ step' = "closing"
     ELSE UNCHANGED <<waiting, leaving, step>>
  /\ UNCHANGED <<setup, aborted, forced, process, command, sandbox, reply, asked, events,
                 page, spools, repairing, outcome>>

Aborts ==
  /\ ~aborted /\ ~gone /\ step \notin {"closing", "closed", "crashed"}
  /\ aborted' = TRUE
  /\ gone' = ~waiting /\ leaving' = ~waiting
  /\ UNCHANGED <<setup, step, waiting, forced, process, command, sandbox, reply, asked,
                 events, page, spools, repairing, outcome>>

\* Mutant: only a generator that has been closed is cleaned up.
Forces_Closed ==
  /\ ~forced /\ gone /\ step = "closed"
  /\ forced' = TRUE
  /\ UNCHANGED <<setup, step, waiting, leaving, aborted, gone, process, command, sandbox,
                 reply, asked, events, page, spools, repairing, outcome>>
\* The consumer has left: the runtime is killed, whatever run() is doing.
Forces ==
  /\ ~forced /\ gone
  /\ forced' = TRUE
  /\ UNCHANGED <<setup, step, waiting, leaving, aborted, gone, process, command, sandbox,
                 reply, asked, events, page, spools, repairing, outcome>>

-----------------------------------------------------------------------------
Adapter ==
  \/ CommandOpens \/ ClaudeOpens \/ CopilotOpens \/ CodexOpens
  \/ ClaudeAsks \/ CopilotAsks \/ CodexAsks
  \/ ClaudeReads \/ CopilotReads \/ CodexReads \/ CommandReads \/ CommandEnds
  \/ Accepts \/ Rejects \/ Assembles \/ Settles \/ Closes
Provider == Answers \/ Unboxable \/ Writes \/ Claims \/ Quits \/ Active
PagedNext ==
  \/ Adapter \/ Provider \/ Severed \/ Killed \/ CopilotCrashes
  \/ Pulls \/ Refuses \/ Aborts \/ Forces

PagedSpec == PagedInit /\ [][PagedNext]_pagedVars

\* Every await of the adapter settles, a runtime that is told to stop does, the
\* consumer handles what it is given, its deadline fires and its cleanup runs.
PagedFairSpec ==
  /\ PagedSpec
  /\ WF_pagedVars(Adapter) /\ WF_pagedVars(Severed) /\ WF_pagedVars(Killed)
  /\ WF_pagedVars(Pulls \/ Refuses) /\ WF_pagedVars(Aborts) /\ WF_pagedVars(Forces)

-----------------------------------------------------------------------------
(* Properties. *)

\* An accepted page has one owner at any time, and a session that has ended holds
\* none: its pages went with the result that the consumer was given, or were
\* recorded as abandoned.  Two exceptions leave spools to nobody: a command that
\* latches a result and fails afterwards, and a consumer that leaves after the last
\* page and before the result, which then reaches no one.
EveryPageHasAnOwner ==
  /\ staged + handed + wasted + lost = page
  /\ handed > 0 => answer = "result"
  /\ lost > 0 => leaving /\ page = Pages
  /\ step = "closed" /\ latched # "result" => staged = 0

\* Under a policy that enforces isolation a result comes only from a session that
\* never ran a turn outside of it, and a result that reports enforced isolation
\* never hides a turn that was not.
IsolationIsHonest ==
  /\ answer = "result" /\ policy = "enforced" => isolation = "enforced"
  /\ isolation = "enforced" => ~unboxed
  /\ policy = "enforced" => ~unboxed

\* Repairs of pages, of coverage and of the sandbox together cannot prolong a
\* session beyond the turns that each of them is given.
TurnsAreBounded == asked <= Pages * (PageRepairs + 1) + CoverageTurns + 1

\* Every session ends: its process exits, and run() has finished, unless its
\* consumer left it suspended at an event it refused.
PagedSessionEnds ==
  <>[](\/ step = "crashed"
       \/ /\ process # "up"
          /\ step = "closed" \/ (waiting /\ gone))
=============================================================================
