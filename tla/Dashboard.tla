------------------------------ MODULE Dashboard ------------------------------
(* The local dashboard: the server of `review-mesh serve`, which polls the   *)
(* records for changes and tells the pages that listen (dashboard-server.ts, *)
(* dashboard-data.ts), and one page, which refetches what it shows when it   *)
(* is told, and polls while it has no stream (dashboard-client.ts).          *)
(*                                                                           *)
(* What the records hold is a number, `now`, that grows with every change;   *)
(* an answer is the number its reading began at. A request number is         *)
(* replaced by whether it is still the latest of its kind.                   *)
EXTENDS Integers, FiniteSets

CONSTANTS
  Runs, Reviewers,
  None,          \* no run, no reviewer, nothing shown
  MaxChanges,    \* bound: changes of the records
  MaxMoves,      \* bound: selections and hidings of the page by its user
  MaxFaults      \* bound: lost requests and streams, and ends of the server

ASSUME DashboardAssumption ==
  /\ None \notin Runs \cup Reviewers
  /\ {MaxChanges, MaxMoves, MaxFaults} \subseteq Nat

VARIABLES
  now,           \* what the records hold
  up,            \* the server runs
  print,         \* the fingerprint it compared last
  polls,         \* fingerprints being read
  listening,     \* the page is among its clients
  stream,        \* the page's event source
  told,          \* an invalidation is on its way
  label,         \* the connection the page displays
  timers,        \* the timers it has set
  refreshing,    \* a refresh runs
  queued,        \* and another was asked for
  flight,        \* its requests without an answer delivered
  route,         \* the run and the reviewer selected
  hidden,        \* the page is in the background
  shown,         \* what it shows
  errors,        \* what it shows an error for
  reopened,      \* the stream opened after the last answered snapshot
  moves, faults

server == <<up, print, polls>>
loop == <<timers, refreshing, queued, flight>>
view == <<route, hidden, shown, errors>>
dashboardVars == <<now, server, listening, stream, told, label, loop, view, reopened, moves, faults>>

Kinds == {"snapshot", "run", "reviewer"}
Request(kind, run, reviewer, owner) ==
  [kind |-> kind, run |-> run, reviewer |-> reviewer, owner |-> owner,
   latest |-> TRUE, got |-> None]
SnapshotRequest == Request("snapshot", None, None, "refresh")
Failed == [failed |-> TRUE]
Answer(n) == [failed |-> FALSE, at |-> n]

Routes == {r \in [run : Runs \cup {None}, reviewer : Reviewers \cup {None}] :
             r.run = None => r.reviewer = None}

DashboardInit ==
  /\ now = 1 /\ up = TRUE /\ print = 1 /\ polls = {} /\ listening = FALSE
  /\ stream = "unstarted" /\ told = FALSE /\ label = "connecting"
  /\ timers = {} /\ refreshing = TRUE /\ queued = FALSE /\ flight = {SnapshotRequest}
  /\ route \in Routes
  /\ hidden = FALSE
  /\ shown = [snapshot |-> None, run |-> None, reviewer |-> None] /\ errors = {}
  /\ reopened = FALSE /\ moves = 0 /\ faults = 0

(***************************************************************************)
(* The server.                                                             *)
(***************************************************************************)
Changes ==
  /\ now < MaxChanges + 1
  /\ now' = now + 1
  /\ UNCHANGED <<server, listening, stream, told, label, loop, view, reopened, moves, faults>>

\* The interval does not wait for the previous reading; one that would find
\* nothing new is left out.
PollTick ==
  /\ up /\ now # print /\ now \notin polls /\ Cardinality(polls) < 2
  /\ polls' = polls \cup {now}
  /\ UNCHANGED <<now, up, print, listening, stream, told, label, loop, view, reopened, moves, faults>>

Broadcast(n) == told \/ (listening /\ n # print)

Polled(n) ==
  /\ n \in polls
  /\ polls' = polls \ {n}
  /\ print' = n
  /\ told' = Broadcast(n)
  /\ UNCHANGED <<now, up, listening, stream, label, loop, view, reopened, moves, faults>>

\* The server read the records and sent what it saw when it listed them.
Answered(r) ==
  /\ up /\ r \in flight /\ r.got = None
  /\ flight' = (flight \ {r}) \cup {[r EXCEPT !.got = Answer(now)]}
  /\ UNCHANGED <<now, server, listening, stream, told, label, timers, refreshing, queued,
                 view, moves, faults>>

AnswersSnapshot(r) == r.kind = "snapshot" /\ Answered(r) /\ reopened' = FALSE
AnswersRun(r) == r.kind = "run" /\ Answered(r) /\ UNCHANGED reopened
AnswersReviewer(r) == r.kind = "reviewer" /\ Answered(r) /\ UNCHANGED reopened

Answers(r) == AnswersSnapshot(r) \/ AnswersRun(r) \/ AnswersReviewer(r)

\* A record that changed after it was listed does not match its listing: a
\* request for the run, or for its reviewer, that still reads it fails.
Mismatches(r) ==
  /\ r \in flight /\ r.kind # "snapshot" /\ r.got \in {Answer(n) : n \in 1..(now - 1)}
  /\ flight' = (flight \ {r}) \cup {[r EXCEPT !.got = Failed]}
  /\ UNCHANGED <<now, server, listening, stream, told, label, timers, refreshing, queued,
                 view, reopened, moves, faults>>

Accepts ==
  /\ up /\ stream = "connecting"
  /\ listening' = TRUE /\ stream' = "accepted"
  /\ UNCHANGED <<now, server, told, label, loop, view, reopened, moves, faults>>

\* An abort, or a fingerprint whose file was renamed while it was read: nobody
\* catches that.
ServerStops ==
  /\ up /\ faults < MaxFaults
  /\ up' = FALSE /\ polls' = {} /\ listening' = FALSE
  /\ faults' = faults + 1
  /\ UNCHANGED <<now, print, stream, told, label, loop, view, reopened, moves>>

ServerStarts ==
  /\ ~up
  /\ up' = TRUE /\ print' = now
  /\ UNCHANGED <<now, polls, listening, stream, told, label, loop, view, reopened, moves, faults>>

(***************************************************************************)
(* The refresh loop of the page.                                           *)
(***************************************************************************)
Retry(t) == IF t \cap {"retry", "poll"} # {} THEN t ELSE t \cup {"retry"}

\* Every newer request of a kind makes the earlier ones late.
\* Mutant: a newer request does not make an earlier one late.
Outdated_Never(f, kinds) == f

Outdated(f, kinds) ==
  {IF r.kind \in kinds THEN [r EXCEPT !.latest = FALSE] ELSE r : r \in f}

\* refreshSnapshot, called with the timers t.
RefreshSnapshot(t) ==
  IF refreshing
    THEN queued' = TRUE /\ timers' = t /\ UNCHANGED <<refreshing, flight>>
    ELSE /\ refreshing' = TRUE /\ queued' = FALSE
         /\ timers' = t \ {"retry"}
         /\ flight' = flight \cup {SnapshotRequest}

\* Mutant: what is invalidated during a refresh is not asked for again.
ScheduleRefresh_Drops ==
  IF refreshing
    THEN UNCHANGED <<queued, timers, refreshing, flight>>
    ELSE timers' = timers \cup {"refresh"} /\ UNCHANGED <<queued, refreshing, flight>>

\* scheduleRefresh: a refresh under way is followed by another one.
ScheduleRefresh ==
  IF refreshing
    THEN queued' = TRUE /\ UNCHANGED <<timers, refreshing, flight>>
    ELSE timers' = timers \cup {"refresh"} /\ UNCHANGED <<queued, refreshing, flight>>

\* The end of the first refresh connects the stream.
RefreshEnds(f, t) ==
  /\ refreshing' = FALSE /\ queued' = FALSE
  /\ timers' = t /\ flight' = f
  /\ stream' = IF stream = "unstarted" THEN "connecting" ELSE stream

\* What awaited a finished load goes on: the loop of a refresh, or nobody.
GoesOn(owner, f, t) ==
  IF owner = "route"
    THEN flight' = f /\ timers' = t /\ UNCHANGED <<refreshing, queued, stream>>
    ELSE IF queued
      THEN /\ queued' = FALSE /\ timers' = t \ {"retry"}
           /\ flight' = f \cup {SnapshotRequest}
           /\ UNCHANGED <<refreshing, stream>>
      ELSE RefreshEnds(f, t)

Label(failed) ==
  IF failed THEN IF label = "polling" THEN label ELSE "offline"
  ELSE IF stream \in {"connecting", "accepted", "open"} /\ label = "offline" THEN "live"
  ELSE label

LoadRun(f, run, owner) == Outdated(f, {"run"}) \cup {Request("run", run, None, owner)}

LoadReviewer(f, run, reviewer, owner) ==
  Outdated(f, {"reviewer"}) \cup {Request("reviewer", run, reviewer, owner)}

SnapshotArrives(r) ==
  /\ r \in flight /\ r.kind = "snapshot" /\ r.got # None
  /\ LET rest == flight \ {r} IN
     IF r.got.failed
       THEN /\ errors' = errors \cup {"snapshot"}
            /\ RefreshEnds(rest, Retry(timers))
            /\ label' = IF stream = "unstarted" THEN "connecting" ELSE Label(TRUE)
            /\ UNCHANGED shown
       ELSE /\ shown' = [shown EXCEPT !.snapshot = r.got.at]
            /\ IF route.run # None
                 THEN /\ errors' = errors \ {"snapshot", "run"}
                      /\ flight' = LoadRun(rest, route.run, "refresh")
                      /\ UNCHANGED <<timers, refreshing, queued, stream>>
                 ELSE errors' = errors \ {"snapshot"} /\ GoesOn("refresh", rest, timers)
            /\ label' = Label(FALSE)
  /\ UNCHANGED <<now, server, listening, told, route, hidden, reopened, moves, faults>>

\* A late answer is dropped, but who awaited it goes on.
RunArrives(r) ==
  /\ r \in flight /\ r.kind = "run" /\ r.got # None
  /\ LET rest == flight \ {r} IN
     \/ /\ ~r.latest \/ route.run # r.run
        /\ GoesOn(r.owner, rest, timers)
        /\ UNCHANGED <<shown, errors>>
     \/ /\ r.latest /\ route.run = r.run /\ r.got.failed
        /\ errors' = errors \cup {"run"}
        /\ GoesOn(r.owner, rest, Retry(timers))
        /\ UNCHANGED shown
     \/ /\ r.latest /\ route.run = r.run /\ ~r.got.failed
        /\ LET same == shown.reviewer # None /\ shown.reviewer.id = route IN
           shown' = [shown EXCEPT !.run = [id |-> r.run, at |-> r.got.at],
                                  !.reviewer = IF same THEN @ ELSE None]
        /\ IF route.reviewer # None
             THEN /\ errors' = errors \ {"reviewer"}
                  /\ flight' = LoadReviewer(rest, r.run, route.reviewer, r.owner)
                  /\ UNCHANGED <<timers, refreshing, queued, stream>>
             ELSE UNCHANGED errors /\ GoesOn(r.owner, rest, timers)
  /\ UNCHANGED <<now, server, listening, told, label, route, hidden, reopened, moves, faults>>

ReviewerArrives(r) ==
  /\ r \in flight /\ r.kind = "reviewer" /\ r.got # None
  /\ LET rest == flight \ {r}
         mine == r.latest /\ route = [run |-> r.run, reviewer |-> r.reviewer] IN
     \/ /\ ~mine
        /\ GoesOn(r.owner, rest, timers)
        /\ UNCHANGED <<shown, errors>>
     \/ /\ mine /\ r.got.failed
        /\ errors' = errors \cup {"reviewer"}
        /\ GoesOn(r.owner, rest, Retry(timers))
        /\ UNCHANGED shown
     \/ /\ mine /\ ~r.got.failed
        /\ shown' = [shown EXCEPT !.reviewer = [id |-> route, at |-> r.got.at]]
        /\ GoesOn(r.owner, rest, timers)
        /\ UNCHANGED errors
  /\ UNCHANGED <<now, server, listening, told, label, route, hidden, reopened, moves, faults>>

Arrives(r) == SnapshotArrives(r) \/ RunArrives(r) \/ ReviewerArrives(r)

\* A request is lost with the network, or with the server.
RequestFails(r) ==
  /\ r \in flight /\ r.got = None
  /\ ~up \/ faults < MaxFaults
  /\ flight' = (flight \ {r}) \cup {[r EXCEPT !.got = Failed]}
  /\ faults' = IF up THEN faults + 1 ELSE faults
  /\ UNCHANGED <<now, server, listening, stream, told, label, timers, refreshing, queued,
                 view, reopened, moves>>

(***************************************************************************)
(* Its timers and its stream.                                              *)
(***************************************************************************)
TimerFires(t) ==
  /\ t \in timers \cap {"refresh", "retry", "poll"}
  /\ t = "poll" => ~hidden
  /\ RefreshSnapshot(IF t = "poll" THEN timers ELSE timers \ {t})
  /\ UNCHANGED <<now, server, listening, stream, told, label, view, reopened, moves, faults>>

StreamRetries ==
  /\ "stream" \in timers
  /\ timers' = timers \ {"stream"}
  /\ stream' = "connecting" /\ label' = "connecting"
  /\ UNCHANGED <<now, server, listening, told, refreshing, queued, flight, view, reopened,
                 moves, faults>>

Opens ==
  /\ stream = "accepted"
  /\ stream' = "open" /\ label' = "live"
  /\ timers' = timers \ {"poll"}
  /\ reopened' = TRUE
  /\ UNCHANGED <<now, server, listening, told, refreshing, queued, flight, view, moves, faults>>

Invalidated ==
  /\ stream = "open" /\ told
  /\ told' = FALSE
  /\ ScheduleRefresh
  /\ UNCHANGED <<now, server, listening, stream, label, view, reopened, moves, faults>>

StartPolling(t) == t \cup {"poll"}

Broken == IF stream = "connecting" THEN ~up ELSE ~listening

StreamBreaks ==
  /\ stream \in {"connecting", "accepted", "open"}
  /\ Broken \/ faults < MaxFaults
  /\ faults' = IF Broken THEN faults ELSE faults + 1
  /\ stream' = "none" /\ told' = FALSE /\ listening' = FALSE
  /\ timers' = StartPolling(timers) \cup {"stream"}
  /\ label' = IF "poll" \in timers THEN label ELSE "polling"
  /\ UNCHANGED <<now, server, refreshing, queued, flight, view, reopened, moves>>

(***************************************************************************)
(* Its user.                                                               *)
(***************************************************************************)
Selects(new) ==
  /\ moves < MaxMoves /\ new # route
  /\ moves' = moves + 1
  /\ route' = new
  /\ LET other == new.run # route.run
         run == IF other THEN None ELSE shown.run
         f == Outdated(flight, (IF other THEN {"run"} ELSE {}) \cup {"reviewer"})
         e == errors \ ((IF other THEN {"run"} ELSE {}) \cup {"reviewer"})
     IN /\ shown' = [shown EXCEPT !.run = run, !.reviewer = None]
        /\ \/ /\ new.run # None /\ run = None
              /\ flight' = LoadRun(f, new.run, "route") /\ errors' = e \ {"run"}
           \/ /\ run # None /\ new.reviewer # None
              /\ flight' = LoadReviewer(f, new.run, new.reviewer, "route") /\ errors' = e
           \/ /\ new.run = None \/ (run # None /\ new.reviewer = None)
              /\ flight' = f /\ errors' = e
  /\ UNCHANGED <<now, server, listening, stream, told, label, timers, refreshing, queued,
                 hidden, reopened, faults>>

Refreshes ==
  /\ ~refreshing /\ moves < MaxMoves
  /\ moves' = moves + 1
  /\ RefreshSnapshot(timers)
  /\ UNCHANGED <<now, server, listening, stream, told, label, view, reopened, faults>>

Hides ==
  /\ ~hidden /\ moves < MaxMoves
  /\ hidden' = TRUE /\ moves' = moves + 1
  /\ UNCHANGED <<now, server, listening, stream, told, label, loop, route, shown, errors,
                 reopened, faults>>

Returns ==
  /\ hidden
  /\ hidden' = FALSE
  /\ IF label = "polling" THEN RefreshSnapshot(timers) ELSE UNCHANGED loop
  /\ UNCHANGED <<now, server, listening, stream, told, label, route, shown, errors,
                 reopened, moves, faults>>

(***************************************************************************)
(* Specification.                                                          *)
(***************************************************************************)
Serves == PollTick \/ (\E n \in polls : Polled(n)) \/ Accepts
Works == (\E r \in flight : Answers(r) \/ Arrives(r))
         \/ (\E t \in timers : TimerFires(t)) \/ StreamRetries
         \/ Opens \/ Invalidated
Acts == (\E new \in Routes : Selects(new)) \/ Refreshes \/ Hides \/ Returns
Faults == (\E r \in flight : RequestFails(r) \/ Mismatches(r)) \/ StreamBreaks \/ ServerStops \/ ServerStarts

DashboardNext == Changes \/ Serves \/ Works \/ Acts \/ Faults

DashboardSpec == DashboardInit /\ [][DashboardNext]_dashboardVars

\* A request of kind k that a refresh or a new route waits for.
AskedIsAnswered(k, o) ==
  \E r \in flight : r.kind = k /\ r.owner = o /\ (Answers(r) \/ (~up /\ RequestFails(r)))
AskedArrives(k, o) == \E r \in flight : r.kind = k /\ r.owner = o /\ Arrives(r)

\* Intervals tick, fingerprints are read, requests end one way or another, and
\* the page's event loop runs what is due. Nobody need use, hide or start
\* anything.
DashboardFairSpec ==
  /\ DashboardSpec
  /\ WF_dashboardVars(PollTick)
  /\ \A n \in 1..(MaxChanges + 1) : WF_dashboardVars(Polled(n))
  /\ WF_dashboardVars(Accepts) /\ WF_dashboardVars(Opens) /\ WF_dashboardVars(Invalidated)
  /\ \A k \in Kinds, o \in {"refresh", "route"} :
       WF_dashboardVars(AskedIsAnswered(k, o)) /\ WF_dashboardVars(AskedArrives(k, o))
  /\ \A t \in {"refresh", "retry", "poll"} : WF_dashboardVars(TimerFires(t))
  /\ WF_dashboardVars(StreamRetries)
  /\ WF_dashboardVars(Broken /\ StreamBreaks)

(***************************************************************************)
(* Properties.                                                             *)
(***************************************************************************)
\* Whatever order the answers of the page's requests come in, what it shows of
\* one run, of one reviewer and of the whole never goes back in time, and it
\* is of what the user selected (the request numbers of loadRun, loadReviewer).
NothingGoesBack ==
  [][/\ shown.snapshot # None => shown'.snapshot >= shown.snapshot
     /\ shown'.run # None =>
          /\ shown'.run.id = route'.run
          /\ shown.run # None /\ shown.run.id = shown'.run.id =>
               shown'.run.at >= shown.run.at
     /\ shown'.reviewer # None =>
          /\ shown'.reviewer.id = route'
          /\ shown.reviewer # None /\ shown.reviewer.id = shown'.reviewer.id =>
               shown'.reviewer.at >= shown.reviewer.at]_dashboardVars

Fresh ==
  /\ shown.snapshot = now
  /\ route.run # None => shown.run # None /\ shown.run.at = now
  /\ route.reviewer # None => shown.reviewer # None /\ shown.reviewer.at = now

\* In the end the page shows what the records hold, or says what it could not
\* read, however changes, invalidations and refreshes overlap; unless the
\* server is gone, the page is hidden, or its stream opened after its last
\* reading: a stream that opens asks for nothing, and what changed just before
\* stays unseen until the next change.
EveryChangeShows ==
  <>[](Fresh \/ errors # {}) \/ []<>(~up \/ hidden \/ reopened)
=============================================================================
