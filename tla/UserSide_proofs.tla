--------------------------- MODULE UserSide_proofs --------------------------
(***************************************************************************)
(* Proofs about what a user reads and edits: about Dashboard, for any runs *)
(* and reviewers and any number of changes, moves and faults; about        *)
(* ConfigStore, for any agents, projects and sessions, any documents at    *)
(* the start and any number of choices and accidents; and about            *)
(* ConfigPolicy, for any documents, lenses and provider groups.            *)
(***************************************************************************)
EXTENDS Dashboard, MCConfiguration, FiniteSetTheorems, WellFoundedInduction, TLAPS

-----------------------------------------------------------------------------
(***************************************************************************)
(* The page of the dashboard.                                              *)
(***************************************************************************)
Owners == {"refresh", "route"}
Gots == {None, Failed} \cup {Answer(n) : n \in Nat}
Asked ==
  [kind : Kinds, run : Runs \cup {None}, reviewer : Reviewers \cup {None},
   owner : Owners, latest : BOOLEAN, got : Gots]

\* Two requests of which there may be one only: there is one refresh loop, and of
\* the requests for a run, or for a reviewer, one is the latest.
Rivals(r, q) ==
  \/ r.owner = "refresh" /\ q.owner = "refresh"
  \/ r.kind \in {"run", "reviewer"} /\ q.kind = r.kind /\ r.latest /\ q.latest

\* What an answer would replace is not newer than the answer.
InTime(r, s, n) ==
  r.got # None /\ ~r.got.failed =>
    /\ r.got.at \in Nat /\ r.got.at <= n
    /\ r.kind = "snapshot" /\ s.snapshot # None => s.snapshot <= r.got.at
    /\ r.kind = "run" /\ r.latest /\ s.run # None /\ s.run.id = r.run => s.run.at <= r.got.at
    /\ r.kind = "reviewer" /\ r.latest /\ s.reviewer # None
         /\ s.reviewer.id = [run |-> r.run, reviewer |-> r.reviewer] =>
       s.reviewer.at <= r.got.at

\* The requests f, beside a refresh that runs or does not, a page that shows s and
\* records that hold n.
FlightSound(f, busy, s, n) ==
  /\ f \subseteq Asked
  /\ \A r \in f : /\ r.owner = "refresh" => busy
                  /\ r.kind = "snapshot" => r.owner = "refresh"
                  /\ InTime(r, s, n)
  /\ \A r, q \in f : Rivals(r, q) => r = q

\* The page shows what is selected, and nothing that the records never held.
ShownSound(s, selected, n) ==
  /\ s = [snapshot |-> s.snapshot, run |-> s.run, reviewer |-> s.reviewer]
  /\ s.snapshot # None => s.snapshot \in Nat /\ s.snapshot <= n
  /\ s.run # None => s.run.id = selected.run /\ s.run.at \in Nat /\ s.run.at <= n
  /\ s.reviewer # None =>
       s.reviewer.id = selected /\ s.reviewer.at \in Nat /\ s.reviewer.at <= n

DInv ==
  /\ now \in Nat /\ route \in Routes /\ refreshing \in BOOLEAN
  /\ FlightSound(flight, refreshing, shown, now)
  /\ ShownSound(shown, route, now)

-----------------------------------------------------------------------------
(* Sets of requests.                                                       *)

NoRefresh(f) == \A r \in f : r.owner # "refresh"

LEMMA FewerAreSound ==
  ASSUME NEW f, NEW busy, NEW s, NEW n, FlightSound(f, busy, s, n), NEW g \in SUBSET f
  PROVE  FlightSound(g, busy, s, n)
BY DEF FlightSound

\* Without a request of the refresh loop it may run or not.
LEMMA EitherIsSound ==
  ASSUME NEW f, NEW busy, NEW s, NEW n, FlightSound(f, busy, s, n), NoRefresh(f), NEW other
  PROVE  FlightSound(f, other, s, n)
BY DEF FlightSound, NoRefresh

LEMMA RefreshIsGone ==
  ASSUME NEW f, NEW busy, NEW s, NEW n, FlightSound(f, busy, s, n),
         NEW r \in f, r.owner = "refresh"
  PROVE  NoRefresh(f \ {r})
BY DEF FlightSound, NoRefresh, Rivals

LEMMA OldAnswersAreSound ==
  ASSUME NEW f, NEW busy, NEW s, NEW n \in Nat, FlightSound(f, busy, s, n)
  PROVE  FlightSound(f, busy, s, n + 1)
<1>1. ASSUME NEW r, InTime(r, s, n) PROVE InTime(r, s, n + 1)
  BY <1>1 DEF InTime
<1>2. QED
  BY <1>1 DEF FlightSound

\* An answer is new when it is made.
LEMMA AnswersAreSound ==
  ASSUME NEW f, NEW busy, NEW s, NEW n \in Nat, FlightSound(f, busy, s, n),
         NEW selected, ShownSound(s, selected, n),
         NEW r \in f, NEW g \in {Failed, Answer(n)}
  PROVE  FlightSound((f \ {r}) \cup {[r EXCEPT !.got = g]}, busy, s, n)
<1>1. PICK a : a = [r EXCEPT !.got = g]
  OBVIOUS
<1>2. r \in Asked /\ g \in Gots
  BY DEF FlightSound, Gots
<1>3. /\ a \in Asked /\ a.got = g
      /\ a.kind = r.kind /\ a.owner = r.owner /\ a.latest = r.latest
  BY <1>1, <1>2 DEF Asked
<1>4. InTime(a, s, n)
  <2>1. CASE g = Failed
    BY <1>3, <2>1 DEF InTime, Failed
  <2>2. CASE g = Answer(n)
    <3>1. a.got.at = n
      BY <1>3, <2>2 DEF Answer
    <3>2. QED
      BY <3>1 DEF InTime, ShownSound
  <2>3. QED
    BY <2>1, <2>2
<1>5. ASSUME NEW q \in f \ {r} PROVE ~Rivals(a, q) /\ ~Rivals(q, a)
  <2>1. ~Rivals(r, q) /\ ~Rivals(q, r)
    BY <1>5 DEF FlightSound
  <2>2. QED
    BY <1>3, <2>1 DEF Rivals
<1>6. PICK h : h = (f \ {r}) \cup {a}
  OBVIOUS
<1>7. \A q \in h : q = a \/ (q \in f /\ q # r)
  BY <1>6
<1>8. h \subseteq Asked
  BY <1>3, <1>7 DEF FlightSound
<1>9. ASSUME NEW q \in h
      PROVE  /\ q.owner = "refresh" => busy
             /\ q.kind = "snapshot" => q.owner = "refresh"
             /\ InTime(q, s, n)
  BY <1>3, <1>4, <1>7 DEF FlightSound
<1>10. \A p, q \in h : Rivals(p, q) => p = q
  BY <1>5, <1>7 DEF FlightSound
<1>11. FlightSound(h, busy, s, n)
  BY <1>8, <1>9, <1>10 DEF FlightSound
<1>12. QED
  BY <1>1, <1>6, <1>11

\* A request that has no rival may be added.
LEMMA NewIsSound ==
  ASSUME NEW f, NEW busy, NEW s, NEW n, FlightSound(f, busy, s, n),
         NEW r \in Asked, r.got = None,
         r.owner = "refresh" => busy, r.kind = "snapshot" => r.owner = "refresh",
         \A q \in f : ~Rivals(r, q)
  PROVE  FlightSound(f \cup {r}, busy, s, n)
<1>1. InTime(r, s, n)
  BY DEF InTime
<1>2. \A q \in f : ~Rivals(q, r)
  BY DEF Rivals
<1>3. QED
  BY <1>1, <1>2 DEF FlightSound

LEMMA SnapshotIsSound ==
  ASSUME NEW f, NEW busy, NEW s, NEW n, FlightSound(f, busy, s, n), NoRefresh(f)
  PROVE  FlightSound(f \cup {SnapshotRequest}, TRUE, s, n)
<1>1. PICK r : r = SnapshotRequest
  OBVIOUS
<1>2. /\ r \in Asked /\ r.got = None
      /\ r.kind = "snapshot" /\ r.owner = "refresh"
  BY <1>1 DEF SnapshotRequest, Request, Asked, Kinds, Owners, Gots
<1>3. \A q \in f : ~Rivals(r, q)
  BY <1>2 DEF Rivals, NoRefresh
<1>4. FlightSound(f, TRUE, s, n)
  BY EitherIsSound
<1>5. QED
  BY <1>1, <1>2, <1>3, <1>4, NewIsSound

\* An outdated request has no rival of its kind.
LEMMA OutdatedIsSound ==
  ASSUME NEW f, NEW busy, NEW s, NEW n, FlightSound(f, busy, s, n),
         NEW kinds \in SUBSET {"run", "reviewer"}
  PROVE  /\ FlightSound(Outdated(f, kinds), busy, s, n)
         /\ \A r \in Outdated(f, kinds) : r.kind \in kinds => ~r.latest
         /\ NoRefresh(f) => NoRefresh(Outdated(f, kinds))
<1> DEFINE Old(r) == IF r.kind \in kinds THEN [r EXCEPT !.latest = FALSE] ELSE r
<1>1. ASSUME NEW r \in Asked
      PROVE  /\ Old(r) \in Asked /\ Old(r).kind = r.kind /\ Old(r).owner = r.owner
             /\ Old(r).got = r.got /\ Old(r).run = r.run /\ Old(r).reviewer = r.reviewer
             /\ (Old(r).latest => r.latest) /\ (r.kind \in kinds => ~Old(r).latest)
  BY <1>1 DEF Asked
<1>2. \A q \in Outdated(f, kinds) : \E r \in f : q = Old(r)
  BY DEF Outdated
<1> HIDE DEF Old
<1>3. f \subseteq Asked
  BY DEF FlightSound
<1>4. ASSUME NEW q \in Outdated(f, kinds)
      PROVE  /\ q \in Asked
             /\ q.owner = "refresh" => busy
             /\ q.kind = "snapshot" => q.owner = "refresh"
             /\ InTime(q, s, n)
             /\ q.kind \in kinds => ~q.latest
             /\ NoRefresh(f) => q.owner # "refresh"
  <2>1. PICK r \in f : q = Old(r)
    BY <1>2
  <2>2. InTime(r, s, n)
    BY DEF FlightSound
  <2>3. InTime(q, s, n)
    BY <1>1, <1>3, <2>1, <2>2 DEF InTime
  <2>4. QED
    BY <1>1, <1>3, <2>1, <2>3 DEF FlightSound, NoRefresh
<1>5. ASSUME NEW p \in Outdated(f, kinds), NEW q \in Outdated(f, kinds), Rivals(p, q)
      PROVE  p = q
  <2>1. PICK a \in f, b \in f : p = Old(a) /\ q = Old(b)
    BY <1>2
  <2>2. Rivals(a, b)
    BY <1>1, <1>3, <1>5, <2>1 DEF Rivals
  <2>3. QED
    BY <2>1, <2>2 DEF FlightSound
<1>6. QED
  BY <1>4, <1>5 DEF FlightSound, NoRefresh

LEMMA LoadRunIsSound ==
  ASSUME NEW f, NEW busy, NEW s, NEW n, FlightSound(f, busy, s, n),
         NEW run \in Runs, NEW owner \in Owners, owner = "refresh" => busy /\ NoRefresh(f)
  PROVE  FlightSound(LoadRun(f, run, owner), busy, s, n)
<1>1. PICK g : g = Outdated(f, {"run"})
  OBVIOUS
<1>2. /\ FlightSound(g, busy, s, n) /\ (NoRefresh(f) => NoRefresh(g))
      /\ \A q \in g : q.kind = "run" => ~q.latest
  BY <1>1, OutdatedIsSound
<1>3. PICK r : r = Request("run", run, None, owner)
  OBVIOUS
<1>4. r \in Asked /\ r.got = None /\ r.kind = "run" /\ r.owner = owner
  BY <1>3 DEF Request, Asked, Kinds, Gots
<1>5. \A q \in g : ~Rivals(r, q)
  BY <1>2, <1>4 DEF Rivals, NoRefresh
<1>6. FlightSound(g \cup {r}, busy, s, n)
  BY <1>2, <1>4, <1>5, NewIsSound
<1>7. QED
  BY <1>1, <1>3, <1>6 DEF LoadRun

LEMMA LoadReviewerIsSound ==
  ASSUME NEW f, NEW busy, NEW s, NEW n, FlightSound(f, busy, s, n),
         NEW run \in Runs, NEW reviewer \in Reviewers,
         NEW owner \in Owners, owner = "refresh" => busy /\ NoRefresh(f)
  PROVE  FlightSound(LoadReviewer(f, run, reviewer, owner), busy, s, n)
<1>1. PICK g : g = Outdated(f, {"reviewer"})
  OBVIOUS
<1>2. /\ FlightSound(g, busy, s, n) /\ (NoRefresh(f) => NoRefresh(g))
      /\ \A q \in g : q.kind = "reviewer" => ~q.latest
  BY <1>1, OutdatedIsSound
<1>3. PICK r : r = Request("reviewer", run, reviewer, owner)
  OBVIOUS
<1>4. r \in Asked /\ r.got = None /\ r.kind = "reviewer" /\ r.owner = owner
  BY <1>3 DEF Request, Asked, Kinds, Gots
<1>5. \A q \in g : ~Rivals(r, q)
  BY <1>2, <1>4 DEF Rivals, NoRefresh
<1>6. FlightSound(g \cup {r}, busy, s, n)
  BY <1>2, <1>4, <1>5, NewIsSound
<1>7. QED
  BY <1>1, <1>3, <1>6 DEF LoadReviewer

\* A page may show something else where no request is left that could answer late.
LEMMA ShownOtherwise ==
  ASSUME NEW f, NEW busy, NEW s, NEW n, FlightSound(f, busy, s, n), NEW t,
         t.snapshot = s.snapshot \/ \A r \in f : r.kind # "snapshot",
         t.run \in {s.run, None} \/ \A r \in f : r.kind = "run" => ~r.latest,
         t.reviewer \in {s.reviewer, None} \/ \A r \in f : r.kind = "reviewer" => ~r.latest
  PROVE  FlightSound(f, busy, t, n)
<1>1. ASSUME NEW r \in f PROVE InTime(r, t, n)
  BY <1>1 DEF FlightSound, InTime
<1>2. QED
  BY <1>1 DEF FlightSound


-----------------------------------------------------------------------------
(* Steps that show nothing else.                                           *)

\* What a step may do to what is shown.
Forward ==
  /\ shown.snapshot # None => shown'.snapshot >= shown.snapshot
  /\ shown'.run # None =>
       /\ shown'.run.id = route'.run
       /\ shown.run # None /\ shown.run.id = shown'.run.id => shown'.run.at >= shown.run.at
  /\ shown'.reviewer # None =>
       /\ shown'.reviewer.id = route'
       /\ shown.reviewer # None /\ shown.reviewer.id = shown'.reviewer.id =>
            shown'.reviewer.at >= shown.reviewer.at

\* What is selected and shown, and what the records hold, rests.
Rests == UNCHANGED <<now, route, shown>>

LEMMA RestingIsForward ==
  ASSUME DInv, UNCHANGED <<route, shown>>, now' \in {now, now + 1}, refreshing' \in BOOLEAN,
         FlightSound(flight', refreshing', shown, now')
  PROVE  DInv' /\ Forward
<1>1. ShownSound(shown, route, now')
  BY DEF DInv, ShownSound
<1>2. Forward
  BY DEF DInv, ShownSound, Forward
<1>3. QED
  BY <1>1, <1>2 DEF DInv

LEMMA FlightRests ==
  ASSUME DInv, Rests, UNCHANGED <<flight, refreshing>>
  PROVE  DInv' /\ Forward
BY RestingIsForward DEF DInv, Rests

LEMMA ChangesKeeps ==
  ASSUME DInv, Changes
  PROVE  DInv' /\ Forward
<1>1. UNCHANGED <<route, shown, flight, refreshing>> /\ now' = now + 1
  BY DEF Changes, loop, view
<1>2. FlightSound(flight, refreshing, shown, now + 1)
  BY OldAnswersAreSound DEF DInv
<1>3. QED
  BY <1>1, <1>2, RestingIsForward DEF DInv

LEMMA ServesKeeps ==
  ASSUME DInv, Serves \/ ServerStops \/ ServerStarts \/ StreamBreaks \/ StreamRetries
               \/ Opens \/ Hides
  PROVE  DInv' /\ Forward
<1>1. Rests /\ UNCHANGED <<flight, refreshing>>
  BY DEF Serves, PollTick, Polled, Accepts, ServerStops, ServerStarts, StreamBreaks,
         StreamRetries, Opens, Hides, Rests, loop, view
<1>2. QED
  BY <1>1, FlightRests

LEMMA AnsweredKeeps ==
  ASSUME DInv, NEW r \in flight, NEW g \in {Failed, Answer(now)},
         flight' = (flight \ {r}) \cup {[r EXCEPT !.got = g]},
         Rests, refreshing' = refreshing
  PROVE  DInv' /\ Forward
<1>1. FlightSound(flight', refreshing, shown, now)
  BY AnswersAreSound DEF DInv
<1>2. QED
  BY <1>1, RestingIsForward DEF DInv, Rests

LEMMA EndsOfRequestsKeep ==
  ASSUME DInv, NEW r \in flight, Answers(r) \/ RequestFails(r) \/ Mismatches(r)
  PROVE  DInv' /\ Forward
<1>1. CASE Answers(r)
  <2>1. Answered(r)
    BY <1>1 DEF Answers, AnswersSnapshot, AnswersRun, AnswersReviewer
  <2>2. QED
    BY <2>1, AnsweredKeeps DEF Answered, Rests, view
<1>2. CASE RequestFails(r) \/ Mismatches(r)
  BY <1>2, AnsweredKeeps DEF RequestFails, Mismatches, Rests, view
<1>3. QED
  BY <1>1, <1>2

LEMMA RefreshKeeps ==
  ASSUME DInv, NEW t, RefreshSnapshot(t), Rests
  PROVE  DInv' /\ Forward
<1>1. CASE refreshing
  <2>1. UNCHANGED <<flight, refreshing>>
    BY <1>1 DEF RefreshSnapshot
  <2>2. QED
    BY <2>1, FlightRests
<1>2. CASE ~refreshing
  <2>1. refreshing' = TRUE /\ flight' = flight \cup {SnapshotRequest}
    BY <1>2 DEF RefreshSnapshot
  <2>2. NoRefresh(flight)
    BY <1>2 DEF DInv, FlightSound, NoRefresh
  <2>3. FlightSound(flight', refreshing', shown, now)
    BY <2>1, <2>2, SnapshotIsSound DEF DInv
  <2>4. QED
    BY <2>1, <2>3, RestingIsForward DEF Rests
<1>3. QED
  BY <1>1, <1>2 DEF DInv

LEMMA TimersKeep ==
  ASSUME DInv, (\E t \in timers : TimerFires(t)) \/ Refreshes \/ Returns \/ Invalidated
  PROVE  DInv' /\ Forward
<1>1. CASE \E t \in timers : TimerFires(t)
  <2>1. PICK t \in timers : TimerFires(t)
    BY <1>1
  <2>2. PICK u : RefreshSnapshot(u)
    BY <2>1 DEF TimerFires
  <2>3. Rests
    BY <2>1 DEF TimerFires, Rests, view
  <2>4. QED
    BY <2>2, <2>3, RefreshKeeps
<1>2. CASE Refreshes
  BY <1>2, RefreshKeeps DEF Refreshes, Rests, view
<1>3. CASE Returns
  <2>1. Rests
    BY <1>3 DEF Returns, Rests
  <2>2. CASE RefreshSnapshot(timers)
    BY <2>1, <2>2, RefreshKeeps
  <2>3. CASE UNCHANGED loop
    BY <2>1, <2>3, FlightRests DEF loop
  <2>4. QED
    BY <1>3, <2>2, <2>3 DEF Returns
<1>4. CASE Invalidated
  BY <1>4, FlightRests DEF Invalidated, ScheduleRefresh, Rests, view
<1>5. QED
  BY <1>1, <1>2, <1>3, <1>4

-----------------------------------------------------------------------------
(* Steps that show something.                                              *)

\* Who awaited a load goes on.
LEMMA GoingOnIsSound ==
  ASSUME NEW owner \in Owners, NEW f, NEW t, GoesOn(owner, f, t), NEW s, NEW n,
         refreshing \in BOOLEAN,
         FlightSound(f, refreshing, s, n), owner = "refresh" => NoRefresh(f) /\ refreshing
  PROVE  FlightSound(flight', refreshing', s, n) /\ refreshing' \in BOOLEAN
<1>1. CASE owner = "route"
  BY <1>1 DEF GoesOn
<1>2. CASE owner = "refresh" /\ queued
  <2>1. flight' = f \cup {SnapshotRequest} /\ refreshing' = TRUE
    BY <1>2 DEF GoesOn
  <2>2. QED
    BY <1>2, <2>1, SnapshotIsSound
<1>3. CASE owner = "refresh" /\ ~queued
  <2>1. flight' = f /\ refreshing' = FALSE
    BY <1>3 DEF GoesOn, RefreshEnds
  <2>2. QED
    BY <1>3, <2>1, EitherIsSound
<1>4. QED
  BY <1>1, <1>2, <1>3 DEF Owners

\* What is left when an answer arrives.
LEMMA ArrivalLeaves ==
  ASSUME DInv, NEW r \in flight
  PROVE  /\ r \in Asked /\ r.owner \in Owners /\ InTime(r, shown, now)
         /\ FlightSound(flight \ {r}, refreshing, shown, now)
         /\ r.owner = "refresh" => NoRefresh(flight \ {r}) /\ refreshing
         /\ r.kind = "snapshot" =>
              r.owner = "refresh" /\ \A q \in flight \ {r} : q.kind # "snapshot"
         /\ r.kind \in {"run", "reviewer"} /\ r.latest =>
              \A q \in flight \ {r} : q.kind = r.kind => ~q.latest
<1>1. FlightSound(flight, refreshing, shown, now)
  BY DEF DInv
<1>2. r \in Asked /\ r.owner \in Owners /\ InTime(r, shown, now)
  BY <1>1 DEF FlightSound, Asked
<1>3. FlightSound(flight \ {r}, refreshing, shown, now)
  BY <1>1, FewerAreSound
<1>4. r.owner = "refresh" => NoRefresh(flight \ {r}) /\ refreshing
  BY <1>1, RefreshIsGone DEF FlightSound
<1>5. r.kind = "snapshot" => r.owner = "refresh" /\ \A q \in flight \ {r} : q.kind # "snapshot"
  BY <1>1, <1>4 DEF FlightSound, NoRefresh
<1>6. ASSUME r.kind \in {"run", "reviewer"}, r.latest, NEW q \in flight \ {r}, q.kind = r.kind
      PROVE  ~q.latest
  BY <1>1, <1>6 DEF FlightSound, Rivals
<1>7. QED
  BY <1>2, <1>3, <1>4, <1>5, <1>6

\* The invariant and the step, from what became of requests and page.
LEMMA ShowingIsForward ==
  ASSUME DInv, now' = now, route' \in Routes, refreshing' \in BOOLEAN,
         FlightSound(flight', refreshing', shown', now), ShownSound(shown', route', now),
         shown.snapshot # None => shown'.snapshot >= shown.snapshot,
         shown'.run \in {shown.run, None}
           \/ (shown.run # None /\ shown.run.id = shown'.run.id
                  => shown'.run.at >= shown.run.at),
         shown'.reviewer \in {shown.reviewer, None}
           \/ (shown.reviewer # None /\ shown.reviewer.id = shown'.reviewer.id =>
                 shown'.reviewer.at >= shown.reviewer.at)
  PROVE  DInv' /\ Forward
<1>1. DInv'
  BY DEF DInv
<1>2. Forward
  BY DEF DInv, ShownSound, Forward
<1>3. QED
  BY <1>1, <1>2


LEMMA SnapshotKeeps ==
  ASSUME DInv, NEW r \in flight, SnapshotArrives(r)
  PROVE  DInv' /\ Forward
<1>1. PICK rest : rest = flight \ {r}
  OBVIOUS
<1>2. /\ r.kind = "snapshot" /\ r.got # None
      /\ InTime(r, shown, now) /\ r.owner = "refresh" /\ refreshing
      /\ FlightSound(rest, refreshing, shown, now) /\ NoRefresh(rest)
      /\ \A q \in rest : q.kind # "snapshot"
  BY <1>1, ArrivalLeaves DEF SnapshotArrives
<1>3. /\ now' = now /\ route' = route /\ now \in Nat /\ route \in Routes
      /\ refreshing \in BOOLEAN /\ ShownSound(shown, route, now)
  BY DEF SnapshotArrives, DInv
<1>4. CASE r.got.failed
  <2>1. flight' = rest /\ refreshing' = FALSE /\ shown' = shown
    BY <1>1, <1>4 DEF SnapshotArrives, RefreshEnds
  <2>2. FlightSound(flight', refreshing', shown, now)
    BY <1>2, <2>1, EitherIsSound
  <2>3. QED
    BY <1>3, <2>1, <2>2, RestingIsForward
<1>5. CASE ~r.got.failed
  <2>1. /\ r.got.at \in Nat /\ r.got.at <= now
        /\ shown.snapshot # None => shown.snapshot <= r.got.at
    BY <1>2, <1>5 DEF InTime
  <2>2. /\ shown'.snapshot = r.got.at /\ shown'.run = shown.run
        /\ shown'.reviewer = shown.reviewer /\ ShownSound(shown', route, now)
    <3>1. shown' = [shown EXCEPT !.snapshot = r.got.at]
      BY <1>5 DEF SnapshotArrives
    <3>2. /\ shown'.snapshot = r.got.at /\ shown'.run = shown.run
          /\ shown'.reviewer = shown.reviewer
          /\ shown' = [snapshot |-> r.got.at, run |-> shown.run, reviewer |-> shown.reviewer]
      BY <1>3, <3>1 DEF ShownSound
    <3>3. QED
      BY <1>3, <2>1, <3>2 DEF ShownSound
  <2>3. FlightSound(rest, refreshing, shown', now)
    BY <1>2, <2>2, ShownOtherwise
  <2>4. FlightSound(flight', refreshing', shown', now) /\ refreshing' \in BOOLEAN
    <3>1. CASE route.run # None
      <4>1. flight' = LoadRun(rest, route.run, "refresh") /\ refreshing' = refreshing
        BY <1>1, <1>5, <3>1 DEF SnapshotArrives
      <4>2. route.run \in Runs
        BY <1>3, <3>1 DEF Routes
      <4>3. QED
        BY <1>2, <1>3, <2>3, <4>1, <4>2, LoadRunIsSound DEF Owners
    <3>2. CASE route.run = None
      <4>1. GoesOn("refresh", rest, timers)
        BY <1>1, <1>5, <3>2 DEF SnapshotArrives
      <4>2. PICK t : GoesOn(r.owner, rest, t)
        BY <1>2, <4>1
      <4>3. r.owner \in Owners /\ (r.owner = "refresh" => NoRefresh(rest) /\ refreshing)
        BY <1>2 DEF Owners
      <4>4. QED
        BY <1>3, <2>3, <4>2, <4>3, GoingOnIsSound
    <3>3. QED
      BY <3>1, <3>2
  <2>5. shown.snapshot # None => shown'.snapshot >= shown.snapshot
    BY <1>3, <2>1, <2>2 DEF ShownSound
  <2>6. QED
    BY <1>3, <2>2, <2>4, <2>5, ShowingIsForward
<1>6. QED
  BY <1>4, <1>5

\* A late or failed answer changes nothing that is shown.
LEMMA NothingShown ==
  ASSUME DInv, NEW r \in flight, NEW t, GoesOn(r.owner, flight \ {r}, t), Rests
  PROVE  DInv' /\ Forward
<1>1. FlightSound(flight', refreshing', shown, now) /\ refreshing' \in BOOLEAN
  BY ArrivalLeaves, GoingOnIsSound DEF DInv
<1>2. QED
  BY <1>1, RestingIsForward DEF Rests

LEMMA RunKeeps ==
  ASSUME DInv, NEW r \in flight, RunArrives(r)
  PROVE  DInv' /\ Forward
<1>1. PICK rest : rest = flight \ {r}
  OBVIOUS
<1>2. /\ r.kind = "run" /\ r.got # None /\ r.owner \in Owners
      /\ InTime(r, shown, now) /\ FlightSound(rest, refreshing, shown, now)
      /\ r.owner = "refresh" => NoRefresh(rest) /\ refreshing
      /\ r.latest => \A q \in rest : q.kind = "run" => ~q.latest
  BY <1>1, ArrivalLeaves DEF RunArrives
<1>3. /\ now' = now /\ route' = route /\ now \in Nat /\ route \in Routes
      /\ refreshing \in BOOLEAN /\ ShownSound(shown, route, now)
  BY DEF RunArrives, DInv
<1>4. CASE shown' = shown /\ \E t : GoesOn(r.owner, rest, t)
  BY <1>1, <1>3, <1>4, NothingShown DEF Rests
<1>5. CASE /\ r.latest /\ route.run = r.run /\ ~r.got.failed
           /\ shown' = [shown EXCEPT !.run = [id |-> r.run, at |-> r.got.at],
                                     !.reviewer = IF shown.reviewer # None
                                                       /\ shown.reviewer.id = route
                                                    THEN @ ELSE None]
  <2>1. /\ r.got.at \in Nat /\ r.got.at <= now
        /\ shown.run # None /\ shown.run.id = r.run => shown.run.at <= r.got.at
    BY <1>2, <1>5 DEF InTime
  <2>2. PICK run, reviewer :
          /\ run = [id |-> r.run, at |-> r.got.at]
          /\ reviewer \in {shown.reviewer, None}
          /\ shown' = [shown EXCEPT !.run = run, !.reviewer = reviewer]
    BY <1>5
  <2>3. /\ shown'.run = run /\ shown'.reviewer = reviewer /\ shown'.snapshot = shown.snapshot
        /\ shown' = [snapshot |-> shown.snapshot, run |-> run, reviewer |-> reviewer]
    BY <1>3, <2>2 DEF ShownSound
  <2>4. ShownSound(shown', route, now)
    <3>1. run.id = route.run /\ run.at \in Nat /\ run.at <= now
      BY <1>5, <2>1, <2>2
    <3>2. reviewer # None =>
            reviewer.id = route /\ reviewer.at \in Nat /\ reviewer.at <= now
      BY <1>3, <2>2 DEF ShownSound
    <3>3. shown.snapshot # None => shown.snapshot \in Nat /\ shown.snapshot <= now
      BY <1>3 DEF ShownSound
    <3>4. QED
      BY <2>3, <3>1, <3>2, <3>3 DEF ShownSound
  <2>5. FlightSound(rest, refreshing, shown', now)
    BY <1>2, <1>5, <2>2, <2>3, ShownOtherwise
  <2>6. FlightSound(flight', refreshing', shown', now) /\ refreshing' \in BOOLEAN
    <3>1. CASE route.reviewer # None
      <4>1. /\ flight' = LoadReviewer(rest, r.run, route.reviewer, r.owner)
            /\ refreshing' = refreshing
        BY <1>1, <1>5, <3>1 DEF RunArrives
      <4>2. r.run \in Runs /\ route.reviewer \in Reviewers
        BY <1>3, <1>5, <3>1 DEF Routes
      <4>3. QED
        BY <1>2, <1>3, <2>5, <4>1, <4>2, LoadReviewerIsSound
    <3>2. CASE route.reviewer = None
      <4>1. \E t : GoesOn(r.owner, rest, t)
        BY <1>1, <1>5, <3>2 DEF RunArrives
      <4>2. QED
        BY <1>2, <1>3, <2>5, <4>1, GoingOnIsSound
    <3>3. QED
      BY <3>1, <3>2
  <2>7. shown.run # None /\ shown.run.id = shown'.run.id => shown'.run.at >= shown.run.at
    BY <1>3, <2>1, <2>2, <2>3 DEF ShownSound
  <2>8. shown.snapshot # None => shown'.snapshot >= shown.snapshot
    BY <1>3, <2>3 DEF ShownSound
  <2>9. QED
    BY <1>3, <2>2, <2>3, <2>4, <2>6, <2>7, <2>8, ShowingIsForward
<1>6. QED
  BY <1>1, <1>4, <1>5 DEF RunArrives

LEMMA ReviewerKeeps ==
  ASSUME DInv, NEW r \in flight, ReviewerArrives(r)
  PROVE  DInv' /\ Forward
<1>1. PICK rest : rest = flight \ {r}
  OBVIOUS
<1>2. /\ r.kind = "reviewer" /\ r.got # None /\ r.owner \in Owners
      /\ InTime(r, shown, now) /\ FlightSound(rest, refreshing, shown, now)
      /\ r.owner = "refresh" => NoRefresh(rest) /\ refreshing
      /\ r.latest => \A q \in rest : q.kind = "reviewer" => ~q.latest
  BY <1>1, ArrivalLeaves DEF ReviewerArrives
<1>3. /\ now' = now /\ route' = route /\ now \in Nat /\ route \in Routes
      /\ refreshing \in BOOLEAN /\ ShownSound(shown, route, now)
  BY DEF ReviewerArrives, DInv
<1>4. PICK t : GoesOn(r.owner, rest, t)
  BY <1>1 DEF ReviewerArrives
<1>5. CASE shown' = shown
  BY <1>1, <1>3, <1>4, <1>5, NothingShown DEF Rests
<1>6. CASE /\ r.latest /\ route = [run |-> r.run, reviewer |-> r.reviewer] /\ ~r.got.failed
           /\ shown' = [shown EXCEPT !.reviewer = [id |-> route, at |-> r.got.at]]
  <2>1. /\ r.got.at \in Nat /\ r.got.at <= now
        /\ shown.reviewer # None /\ shown.reviewer.id = route => shown.reviewer.at <= r.got.at
    BY <1>2, <1>6 DEF InTime
  <2>2. PICK reviewer : reviewer = [id |-> route, at |-> r.got.at]
    OBVIOUS
  <2>3. /\ shown'.reviewer = reviewer /\ shown'.run = shown.run
        /\ shown'.snapshot = shown.snapshot
        /\ shown' = [snapshot |-> shown.snapshot, run |-> shown.run, reviewer |-> reviewer]
    BY <1>3, <1>6, <2>2 DEF ShownSound
  <2>4. ShownSound(shown', route, now)
    BY <1>3, <2>1, <2>2, <2>3 DEF ShownSound
  <2>5. FlightSound(rest, refreshing, shown', now)
    BY <1>2, <1>6, <2>3, ShownOtherwise
  <2>6. FlightSound(flight', refreshing', shown', now) /\ refreshing' \in BOOLEAN
    BY <1>2, <1>3, <1>4, <2>5, GoingOnIsSound
  <2>7. shown.reviewer # None /\ shown.reviewer.id = shown'.reviewer.id =>
          shown'.reviewer.at >= shown.reviewer.at
    BY <1>3, <2>1, <2>2, <2>3 DEF ShownSound
  <2>8. shown.snapshot # None => shown'.snapshot >= shown.snapshot
    BY <1>3, <2>3 DEF ShownSound
  <2>9. QED
    BY <1>3, <2>3, <2>4, <2>6, <2>7, <2>8, ShowingIsForward
<1>7. QED
  BY <1>5, <1>6 DEF ReviewerArrives

\* What the user selects is not shown before it is asked for, and every answer for
\* what was selected before is late.
LEMMA SelectsKeeps ==
  ASSUME DInv, NEW new \in Routes, Selects(new)
  PROVE  DInv' /\ Forward
<1>1. /\ now' = now /\ route' = new /\ refreshing' = refreshing /\ now \in Nat
      /\ refreshing \in BOOLEAN /\ ShownSound(shown, route, now)
      /\ FlightSound(flight, refreshing, shown, now)
  BY DEF Selects, DInv
<1>2. PICK other, kinds, run, f :
        /\ other = (new.run # route.run)
        /\ kinds = (IF other THEN {"run"} ELSE {}) \cup {"reviewer"}
        /\ run = IF other THEN None ELSE shown.run
        /\ f = Outdated(flight, kinds)
  OBVIOUS
<1>3. /\ shown' = [shown EXCEPT !.run = run, !.reviewer = None]
      /\ \/ new.run # None /\ flight' = LoadRun(f, new.run, "route")
         \/ /\ run # None /\ new.reviewer # None
            /\ flight' = LoadReviewer(f, new.run, new.reviewer, "route")
         \/ flight' = f
  BY <1>2 DEF Selects
<1>4. /\ shown'.run = run /\ shown'.reviewer = None /\ shown'.snapshot = shown.snapshot
      /\ shown' = [snapshot |-> shown.snapshot, run |-> run, reviewer |-> None]
  BY <1>1, <1>3 DEF ShownSound
<1>5. ShownSound(shown', new, now)
  BY <1>1, <1>2, <1>4 DEF ShownSound
<1>6. kinds \in SUBSET {"run", "reviewer"} /\ run \in {shown.run, None}
  BY <1>2
<1>7. FlightSound(f, refreshing, shown', now)
  <2>1. FlightSound(f, refreshing, shown, now)
    BY <1>1, <1>2, <1>6, OutdatedIsSound
  <2>2. QED
    BY <1>4, <1>6, <2>1, ShownOtherwise
<1>8. FlightSound(flight', refreshing', shown', now)
  <2>1. CASE new.run # None /\ flight' = LoadRun(f, new.run, "route")
    <3>1. new.run \in Runs
      BY <2>1 DEF Routes
    <3>2. QED
      BY <1>1, <1>7, <2>1, <3>1, LoadRunIsSound DEF Owners
  <2>2. CASE /\ run # None /\ new.reviewer # None
             /\ flight' = LoadReviewer(f, new.run, new.reviewer, "route")
    <3>1. new.reviewer \in Reviewers /\ new.run \in Runs
      BY <2>2 DEF Routes
    <3>2. QED
      BY <1>1, <1>7, <2>2, <3>1, LoadReviewerIsSound DEF Owners
  <2>3. CASE flight' = f
    BY <1>1, <1>7, <2>3
  <2>4. QED
    BY <1>3, <2>1, <2>2, <2>3
<1>9. shown.snapshot # None => shown'.snapshot >= shown.snapshot
  BY <1>1, <1>4 DEF ShownSound
<1>10. QED
  BY <1>1, <1>4, <1>5, <1>6, <1>8, <1>9, ShowingIsForward

-----------------------------------------------------------------------------
(* Every step, and the theorems.                                           *)

LEMMA InitIsSound ==
  ASSUME DashboardInit
  PROVE  DInv
<1>1. FlightSound({}, TRUE, shown, now)
  BY DEF FlightSound
<1>2. FlightSound(flight, refreshing, shown, now)
  <2>1. NoRefresh({}) /\ flight = {} \cup {SnapshotRequest} /\ refreshing = TRUE
    BY DEF NoRefresh, DashboardInit
  <2>2. QED
    BY <1>1, <2>1, SnapshotIsSound
<1>3. ShownSound(shown, route, now)
  BY DEF DashboardInit, ShownSound
<1>4. QED
  BY <1>2, <1>3 DEF DashboardInit, DInv

LEMMA StepIsForward ==
  ASSUME DInv, [DashboardNext]_dashboardVars
  PROVE  DInv' /\ Forward
<1>1. CASE UNCHANGED dashboardVars
  BY <1>1, FlightRests DEF dashboardVars, loop, view, Rests
<1>2. CASE Changes
  BY <1>2, ChangesKeeps
<1>3. CASE Serves \/ ServerStops \/ ServerStarts \/ StreamBreaks \/ StreamRetries
           \/ Opens \/ Hides
  BY <1>3, ServesKeeps
<1>4. CASE (\E t \in timers : TimerFires(t)) \/ Refreshes \/ Returns \/ Invalidated
  BY <1>4, TimersKeep
<1>5. CASE \E r \in flight : Answers(r) \/ RequestFails(r) \/ Mismatches(r)
  BY <1>5, EndsOfRequestsKeep
<1>6. CASE \E r \in flight : Arrives(r)
  BY <1>6, SnapshotKeeps, RunKeeps, ReviewerKeeps DEF Arrives
<1>7. CASE \E new \in Routes : Selects(new)
  BY <1>7, SelectsKeeps
<1>8. QED
  BY <1>1, <1>2, <1>3, <1>4, <1>5, <1>6, <1>7 DEF DashboardNext, Works, Acts, Faults

\* There is one refresh loop and one latest request of each kind, whatever the user
\* selects and whatever is answered, mismatched or lost (loadRun, loadReviewer,
\* refreshSnapshot).
THEOREM PageInvariant == DashboardSpec => []DInv
<1>1. DInv /\ [DashboardNext]_dashboardVars => DInv'
  BY StepIsForward
<1>2. QED
  BY <1>1, InitIsSound, PTL DEF DashboardSpec

\* Whatever order the answers of the page's requests come in, what it shows never
\* goes back in time and is of what the user selected.
THEOREM PageGoesForward == DashboardSpec => NothingGoesBack
<1>1. DInv /\ [DashboardNext]_dashboardVars => [Forward]_dashboardVars
  BY StepIsForward
<1>2. Forward <=>
        /\ shown.snapshot # None => shown'.snapshot >= shown.snapshot
        /\ shown'.run # None =>
             /\ shown'.run.id = route'.run
             /\ shown.run # None /\ shown.run.id = shown'.run.id =>
                  shown'.run.at >= shown.run.at
        /\ shown'.reviewer # None =>
             /\ shown'.reviewer.id = route'
             /\ shown.reviewer # None /\ shown.reviewer.id = shown'.reviewer.id =>
                  shown'.reviewer.at >= shown.reviewer.at
  BY DEF Forward
<1>3. QED
  BY <1>1, <1>2, PageInvariant, PTL DEF DashboardSpec, NothingGoesBack

-----------------------------------------------------------------------------
(***************************************************************************)
(* The configuration file.                                                 *)
(***************************************************************************)
\* Where a session may be: in a menu, in an apply or in a view.
MenuPlaces == {"menu", "edited"}
ApplyPlaces == {"exported", "requested"}
ViewPlaces == {"viewing", "resolved", "reported"}
Steps ==
  {"new", "ended", "failed"} \cup MenuPlaces \cup ApplyPlaces \cup ViewPlaces \cup Saving

StoreTypeOK ==
  /\ text \in Document /\ version \in Nat /\ writer \in Sessions \cup {"hand"}
  /\ lock \in Sessions \cup {"free", "left"}
  /\ at \in [Sessions -> Steps]
  /\ mem \in [Sessions -> Document] /\ before \in [Sessions -> Document]
  /\ seen \in [Sessions -> Document] /\ expected \in [Sessions -> Document]
  /\ base \in [Sessions -> Nat]
  /\ pending \in [Sessions -> BOOLEAN] /\ asked \in [Sessions -> SUBSET Agents]
  /\ choices \in 0..MaxChoices /\ accidents \in 0..MaxAccidents

\* Who compares or renames holds the lock, and what a session knows of the file
\* is not newer than the file.
LockSound ==
  \A s \in Sessions :
    /\ at[s] \in {"locked", "checked", "renamed"} => lock = s
    /\ at[s] = "checked" => version = base[s] \/ writer = "hand"
    /\ base[s] <= version

\* What a menu holds is what it loaded or saved last, with at most the present
\* choice on top; agents are asked about for that choice.
MenuSound ==
  \A s \in Menus :
    /\ at[s] \notin ApplyPlaces \cup ViewPlaces
    /\ seen[s].kind = "legacy" => pending[s]
    /\ at[s] = "menu" => mem[s] = Loaded(seen[s])
    /\ at[s] \in {"edited", "failed"} \cup Saving => before[s] = Loaded(seen[s])
    /\ at[s] \in {"edited"} \cup Saving => mem[s] \in ChoicesOf(before[s])
    /\ at[s] \in Saving => asked[s] = Derived(s)

\* Only a valid document of this version is written.
WrittenSound ==
  \A s \in Sessions : at[s] \in Saving \ {"saving"} => mem[s].kind = "v7"

\* An apply that migrates was accepted for every agent that stays attested.
ApplySound ==
  \A s \in Machines :
    /\ at[s] \notin MenuPlaces
    /\ at[s] \in Saving /\ pending[s] => Attested(mem[s]) \subseteq asked[s]

\* As long as the file is the one whose revision a view has taken, it is that
\* revision; what is resolved later is of that revision, or of the file as it is
\* unless that has changed again.
ViewSound ==
  \A s \in Machines :
    /\ at[s] = "viewing" /\ version = base[s] => text = expected[s]
    /\ at[s] = "resolved" =>
         \/ mem[s] = expected[s]
         \/ base[s] < version /\ (version = base[s] + 1 => text = mem[s])

ConfigInv == StoreTypeOK /\ LockSound /\ MenuSound /\ WrittenSound /\ ApplySound /\ ViewSound

-----------------------------------------------------------------------------
(* Documents.                                                              *)

LEMMA NamesAreApart ==
  /\ Menus \cap Machines = {}
  /\ "free" \notin Sessions /\ "left" \notin Sessions /\ "hand" \notin Sessions
  /\ Starts \subseteq Document /\ MaxChoices \in Nat /\ MaxAccidents \in Nat
  BY ConfigAssumption

LEMMA FreshDocuments == Missing \in Document /\ EmptyConfig \in Document
<1>1. NoAgent \in [uses : SUBSET Adapters, proof : Proofs]
  BY DEF NoAgent, Proofs
<1>2. Missing \in Document
  BY <1>1 DEF Missing, Document, Entry, Forms
<1>3. EmptyConfig \in Document
  BY <1>2 DEF EmptyConfig, Document, Forms
<1> QED
  BY <1>2, <1>3

LEMMA LoadedIsADocument ==
  ASSUME NEW c \in Document
  PROVE  /\ Migrated(c) \in Document /\ Migrated(c).kind = "v7"
         /\ Loaded(c) \in Document /\ Loaded(c).kind = "v7"
<1>1. Migrated(c) \in Document /\ Migrated(c).kind = "v7"
  BY DEF Migrated, Document, Forms
<1>2. EmptyConfig.kind = "v7"
  BY DEF EmptyConfig, Missing
<1> QED
  BY <1>1, <1>2, FreshDocuments DEF Loaded

LEMMA LoadedIsItself ==
  ASSUME NEW c \in Document, c.kind = "v7"
  PROVE  Loaded(c) = c
  BY DEF Loaded, Migrated, Document

LEMMA MigrationAttestsNothing ==
  ASSUME NEW c \in Document
  PROVE  Attested(Migrated(c)) = Attested(c)
<1>1. Migrated(c).agents = c.agents
  BY DEF Migrated, Document
<1> QED
  BY <1>1 DEF Attested, Known

LEMMA LoadingAttestsNothing ==
  ASSUME NEW c \in Document, c.kind # "legacy"
  PROVE  Attested(Loaded(c)) = IF c.kind = "v7" THEN Attested(c) ELSE {}
<1>1. CASE c.kind = "v7"
  BY <1>1, LoadedIsItself
<1>2. CASE c.kind = "missing"
  <2>1. \A a \in Agents : EmptyConfig.agents[a].uses = {}
    BY DEF EmptyConfig, Missing, NoAgent
  <2>2. Attested(EmptyConfig) = {}
    BY <2>1 DEF Attested, Known
  <2> QED
    BY <1>2, <2>2 DEF Loaded
<1> QED
  BY <1>1, <1>2 DEF Document, Forms

LEMMA AttestedAreAgents == \A c : Attested(c) \subseteq Agents
  BY DEF Attested, Known

\* A choice leaves a document of the same kind.
LEMMA ChoicesAreDocuments ==
  ASSUME NEW c \in Document,
         NEW d \in ChoicesOf(c) \cup HalfRemoved(c) \cup HalfEdited(c)
  PROVE  d \in Document /\ d.kind = c.kind
<1> DEFINE Chosen == [uses : SUBSET Adapters, proof : Proofs]
<1>1. /\ c.kind \in Forms /\ c.adapters \in SUBSET Adapters /\ c.defaults \in SUBSET Agents
      /\ c.agents \in [Agents -> Chosen] /\ c.projects \in [Projects -> Entry]
  BY DEF Document
<1>2. ASSUME NEW e, NEW u \in SUBSET Adapters, e = AdapterCreated(c, u)
      PROVE  e \in Document /\ e.kind = c.kind
  BY <1>2 DEF AdapterCreated, Document
<1>3. ASSUME NEW b \in Document, NEW a \in Agents, NEW on \in BOOLEAN
      PROVE  WithDefault(b, a, on) \in Document /\ WithDefault(b, a, on).kind = b.kind
  BY DEF WithDefault, Document
<1>4. ASSUME NEW b \in Document, NEW a \in Agents, NEW r \in Chosen
      PROVE  /\ [b EXCEPT !.agents[a] = r] \in Document
             /\ [b EXCEPT !.agents[a] = r].kind = b.kind
  BY DEF Document
<1>5. ASSUME NEW b \in Document, NEW p \in Projects, NEW r \in Entry
      PROVE  /\ [b EXCEPT !.projects[p] = r] \in Document
             /\ [b EXCEPT !.projects[p] = r].kind = b.kind
  BY DEF Document
<1>6. ASSUME NEW a \in Agents
      PROVE  Without(c, a) \in Document /\ Without(c, a).kind = c.kind
  <2>1. NoAgent \in Chosen
    BY DEF NoAgent, Proofs
  <2>2. [p \in Projects |-> Bereft(c.projects[p], a)] \in [Projects -> Entry]
    BY <1>1 DEF Entry, Bereft
  <2>3. [c.agents EXCEPT ![a] = NoAgent] \in [Agents -> Chosen]
    BY <1>1, <2>1
  <2> DEFINE ps == [p \in Projects |-> Bereft(c.projects[p], a)]
             as == [c.agents EXCEPT ![a] = NoAgent]
             ds == c.defaults \ {a}
  <2>4. Without(c, a) = [c EXCEPT !.agents = as, !.defaults = ds, !.projects = ps]
    BY <1>1 DEF Without, Document
  <2>5. ds \in SUBSET Agents
    BY <1>1
  <2> HIDE DEF ps, as, ds
  <2> QED
    BY <1>1, <2>2, <2>3, <2>4, <2>5 DEF Document, ps, as
<1>7. Known(c) \subseteq Agents
  BY DEF Known
<1>8. CASE d \in Added(c)
  <2> DEFINE New(a, u, on) == [WithDefault(AdapterCreated(c, u), a, on)
                                 EXCEPT !.agents[a] = [uses |-> u, proof |-> ProofOf(u)]]
  <2>0. d \in {New(a, u, on) : a \in Agents \ Known(c), u \in ModelSelections, on \in Joins(c)}
    BY <1>8 DEF Added
  <2>a. Joins(c) \subseteq BOOLEAN
    BY DEF Joins
  <2> HIDE DEF New
  <2>1. PICK a \in Agents \ Known(c), u \in ModelSelections, on \in Joins(c) :
          d = New(a, u, on)
    BY <2>0
  <2>2. u \in SUBSET Adapters
    BY <2>1 DEF ModelSelections
  <2>3. [uses |-> u, proof |-> ProofOf(u)] \in Chosen
    BY <2>2 DEF ProofOf, Proofs
  <2>4. /\ AdapterCreated(c, u) \in Document
        /\ AdapterCreated(c, u).kind = c.kind
    BY <1>2, <2>2
  <2>5. /\ WithDefault(AdapterCreated(c, u), a, on) \in Document
        /\ WithDefault(AdapterCreated(c, u), a, on).kind = c.kind
    BY <1>3, <2>1, <2>4, <2>a
  <2> QED
    BY <1>4, <2>1, <2>3, <2>5 DEF New
<1>9. CASE d \in AgentEdited(c)
  <2>1. PICK a \in Known(c), u \in ModelSelections, on \in BOOLEAN :
          d = [WithDefault(AdapterCreated(c, u), a, on) EXCEPT !.agents[a].uses = u]
    BY <1>9 DEF AgentEdited
  <2>2. u \in SUBSET Adapters /\ a \in Agents
    BY <1>7, <2>1 DEF ModelSelections
  <2>4. /\ AdapterCreated(c, u) \in Document
        /\ AdapterCreated(c, u).kind = c.kind
    BY <1>2, <2>2
  <2>5. /\ WithDefault(AdapterCreated(c, u), a, on) \in Document
        /\ WithDefault(AdapterCreated(c, u), a, on).kind = c.kind
    BY <1>3, <2>1, <2>2, <2>4
  <2> DEFINE b == WithDefault(AdapterCreated(c, u), a, on)
  <2>6. [b.agents[a] EXCEPT !.uses = u] \in Chosen
    BY <2>2, <2>5 DEF Document
  <2>7. d = [b EXCEPT !.agents[a] = [b.agents[a] EXCEPT !.uses = u]]
    BY <2>1, <2>2, <2>5
  <2> HIDE DEF b
  <2> QED
    BY <1>4, <2>2, <2>5, <2>6, <2>7 DEF b
<1>10. CASE d \in PolicyEdited(c)
  <2>1. PICK a \in Known(c), k \in Proofs : d = [c EXCEPT !.agents[a].proof = k]
    BY <1>10 DEF PolicyEdited
  <2>2. [c.agents[a] EXCEPT !.proof = k] \in Chosen
    BY <1>1, <1>7, <2>1
  <2> DEFINE r == [c.agents[a] EXCEPT !.proof = k]
  <2>3. d = [c EXCEPT !.agents[a] = r]
    BY <1>7, <2>1, <1>1
  <2>4. a \in Agents
    BY <1>7
  <2> HIDE DEF r, Chosen
  <2>5. [c EXCEPT !.agents[a] = r] \in Document /\ [c EXCEPT !.agents[a] = r].kind = c.kind
    BY <1>4, <2>2, <2>4 DEF r
  <2> QED
    BY <2>3, <2>5
<1>11. CASE d \in Removed(c) \cup HalfRemoved(c)
  BY <1>6, <1>7, <1>11 DEF Removed, HalfRemoved
<1>12. CASE d \in ProjectAdded(c)
  <2>1. PICK p \in Projects, r \in Rosters(c) :
          d = [c EXCEPT !.projects[p] = [stored |-> TRUE, agents |-> r]]
    BY <1>12 DEF ProjectAdded
  <2>2. [stored |-> TRUE, agents |-> r] \in Entry
    BY <1>7, <2>1 DEF Rosters, Entry
  <2> QED
    BY <1>5, <2>1, <2>2
<1>13. CASE d \in ProjectEdited(c)
  <2>1. PICK p \in Projects, r \in Rosters(c) : d = [c EXCEPT !.projects[p].agents = r]
    BY <1>13 DEF ProjectEdited
  <2>2. [c.projects[p] EXCEPT !.agents = r] \in Entry
    BY <1>1, <1>7, <2>1 DEF Rosters, Entry
  <2>3. d = [c EXCEPT !.projects[p] = [c.projects[p] EXCEPT !.agents = r]]
    BY <2>1, <1>1
  <2> QED
    BY <1>5, <2>1, <2>2, <2>3
<1>14. CASE d \in ProjectRemoved(c)
  <2>1. PICK p \in Projects : d = [c EXCEPT !.projects[p] = [stored |-> FALSE, agents |-> {}]]
    BY <1>14 DEF ProjectRemoved
  <2>2. [stored |-> FALSE, agents |-> {}] \in Entry
    BY DEF Entry
  <2> QED
    BY <1>5, <2>1, <2>2
<1>15. CASE d \in DefaultsSet(c)
  BY <1>1, <1>7, <1>15 DEF DefaultsSet, Rosters, Document
<1>16. CASE d \in Resaved(c)
  BY <1>16 DEF Resaved
<1>17. CASE d \in HalfEdited(c)
  BY <1>2, <1>17 DEF HalfEdited, ModelSelections
<1> QED
  BY <1>8, <1>9, <1>10, <1>11, <1>12, <1>13, <1>14, <1>15, <1>16, <1>17 DEF ChoicesOf

LEMMA WantedAreDocuments ==
  ASSUME NEW c \in Document, NEW d \in Wanted(c)
  PROVE  d \in Document
  BY ChoicesAreDocuments, NamesAreApart DEF Wanted, ChoicesOf

-----------------------------------------------------------------------------
(* What a step leaves alone.                                               *)

\* A step of a session touches nothing that another holds.
LEMMA OthersRest ==
  ASSUME StoreTypeOK, NEW s \in Sessions, SessionStep(s) \/ ViewStep(s),
         NEW t \in Sessions, t # s
  PROVE  /\ at'[t] = at[t] /\ mem'[t] = mem[t] /\ before'[t] = before[t] /\ base'[t] = base[t]
         /\ pending'[t] = pending[t] /\ asked'[t] = asked[t] /\ seen'[t] = seen[t]
         /\ expected'[t] = expected[t]
<1> USE DEF StoreTypeOK
<1>1. CASE MenuOpens(s)
  BY <1>1 DEF MenuOpens, Goes
<1>2. CASE Chooses(s)
  BY <1>2 DEF Chooses, Goes
<1>3. CASE Confirms(s)
  BY <1>3 DEF Confirms, Goes
<1>4. CASE Declines(s)
  BY <1>4 DEF Declines, Goes
<1>5. CASE Fails(s)
  BY <1>5 DEF Fails, Goes
<1>6. CASE Quits(s)
  BY <1>6 DEF Quits, Goes, Ends, EndsAs
<1>7. CASE Exports(s)
  BY <1>7 DEF Exports, Goes
<1>8. CASE Requests(s)
  BY <1>8 DEF Requests, Goes
<1>9. CASE Applied(s)
  BY <1>9 DEF Applied, Goes, Ends, EndsAs
<1>10. CASE ApplyFails(s)
  BY <1>10 DEF ApplyFails, Goes, Ends, EndsAs
<1>11. CASE Stages(s)
  BY <1>11 DEF Stages, Goes
<1>12. CASE Locks(s)
  BY <1>12 DEF Locks, Goes
<1>13. CASE LockTimesOut(s)
  BY <1>13 DEF LockTimesOut, Goes
<1>14. CASE Rechecks(s)
  BY <1>14 DEF Rechecks, Goes
<1>15. CASE Renames(s)
  BY <1>15 DEF Renames, Goes
<1>16. CASE Saved(s)
  BY <1>16 DEF Saved, Goes, Ends, EndsAs
<1>17. CASE SaveBreaks(s)
  BY <1>17 DEF SaveBreaks, Goes
<1>18. CASE Crashes(s)
  BY <1>18 DEF Crashes, Goes, Ends, EndsAs
<1>19. CASE Views(s)
  BY <1>19 DEF Views, Goes, Ends, EndsAs
<1>20. CASE Resolves(s)
  BY <1>20 DEF Resolves, Goes, Ends, EndsAs
<1>21. CASE ViewEnds(s)
  BY <1>21 DEF ViewEnds, Goes, EndsAs
<1> QED
  BY <1>1, <1>2, <1>3, <1>4, <1>5, <1>6, <1>7, <1>8, <1>9, <1>10, <1>11, <1>12, <1>13, <1>14,
     <1>15, <1>16, <1>17, <1>18, <1>19, <1>20, <1>21
    DEF SessionStep, SaveStep, ViewStep

\* Only a rename, and a hand, change the file.
LEMMA WhoWrites ==
  ASSUME StoreTypeOK, NEW s \in Sessions, SessionStep(s) \/ ViewStep(s)
  PROVE  Renames(s) \/ (text' = text /\ version' = version /\ writer' = writer)
<1> USE DEF file
<1>1. CASE MenuOpens(s)
  BY <1>1 DEF MenuOpens, Goes
<1>2. CASE Chooses(s)
  BY <1>2 DEF Chooses, Goes
<1>3. CASE Confirms(s)
  BY <1>3 DEF Confirms, Goes
<1>4. CASE Declines(s)
  BY <1>4 DEF Declines, Goes
<1>5. CASE Fails(s)
  BY <1>5 DEF Fails, Goes
<1>6. CASE Quits(s)
  BY <1>6 DEF Quits, Goes, Ends, EndsAs
<1>7. CASE Exports(s)
  BY <1>7 DEF Exports, Goes
<1>8. CASE Requests(s)
  BY <1>8 DEF Requests, Goes
<1>9. CASE Applied(s)
  BY <1>9 DEF Applied, Goes, Ends, EndsAs
<1>10. CASE ApplyFails(s)
  BY <1>10 DEF ApplyFails, Goes, Ends, EndsAs
<1>11. CASE Stages(s)
  BY <1>11 DEF Stages, Goes
<1>12. CASE Locks(s)
  BY <1>12 DEF Locks, Goes
<1>13. CASE LockTimesOut(s)
  BY <1>13 DEF LockTimesOut, Goes
<1>14. CASE Rechecks(s)
  BY <1>14 DEF Rechecks, Goes
<1>15. CASE Renames(s)
  BY <1>15
<1>16. CASE Saved(s)
  BY <1>16 DEF Saved, Goes, Ends, EndsAs
<1>17. CASE SaveBreaks(s)
  BY <1>17 DEF SaveBreaks, Goes
<1>18. CASE Crashes(s)
  BY <1>18 DEF Crashes, Goes, Ends, EndsAs
<1>19. CASE Views(s)
  BY <1>19 DEF Views, Goes, Ends, EndsAs
<1>20. CASE Resolves(s)
  BY <1>20 DEF Resolves, Goes, Ends, EndsAs
<1>21. CASE ViewEnds(s)
  BY <1>21 DEF ViewEnds, Goes, EndsAs
<1> QED
  BY <1>1, <1>2, <1>3, <1>4, <1>5, <1>6, <1>7, <1>8, <1>9, <1>10, <1>11, <1>12, <1>13, <1>14,
     <1>15, <1>16, <1>17, <1>18, <1>19, <1>20, <1>21
    DEF SessionStep, SaveStep, ViewStep

-----------------------------------------------------------------------------
(* Every part of the invariant is kept.                                    *)

LEMMA FreshStore == ConfigInit => ConfigInv
<1> SUFFICES ASSUME ConfigInit PROVE ConfigInv
  OBVIOUS
<1>1. StoreTypeOK
  BY FreshDocuments, NamesAreApart DEF ConfigInit, StoreTypeOK, Steps
<1>2. Missing.kind = "missing"
  BY DEF Missing
<1>3. LockSound /\ WrittenSound /\ ApplySound /\ ViewSound
  BY
    DEF ConfigInit, LockSound, WrittenSound, ApplySound, ViewSound, Saving, Sessions,
        MenuPlaces
<1>4. MenuSound
  BY <1>2 DEF ConfigInit, MenuSound, Saving, ApplyPlaces, ViewPlaces, Sessions
<1> QED
  BY <1>1, <1>3, <1>4 DEF ConfigInv

LEMMA StepsKeepTypes ==
  ASSUME StoreTypeOK, NEW s \in Sessions, SessionStep(s) \/ ViewStep(s)
  PROVE  StoreTypeOK'
<1> USE NamesAreApart, FreshDocuments
    DEF StoreTypeOK, Steps, Saving, MenuPlaces, ApplyPlaces, ViewPlaces, file, bounds
<1>1. CASE MenuOpens(s)
  BY <1>1, LoadedIsADocument DEF MenuOpens, Goes
<1>2. CASE Chooses(s)
  <2>1. PICK c : /\ c \in ChoicesOf(mem[s]) \cup HalfRemoved(mem[s]) \cup HalfEdited(mem[s])
                 /\ mem' = [mem EXCEPT ![s] = c]
                 /\ Goes(s, "edited") \/ Goes(s, "failed")
    BY <1>2 DEF Chooses
  <2>2. c \in Document
    BY <2>1, ChoicesAreDocuments
  <2>3. mem' \in [Sessions -> Document]
    BY <2>1, <2>2
  <2>4. at' \in [Sessions -> Steps]
    BY <2>1 DEF Goes
  <2>5. choices' \in 0..MaxChoices
    BY <1>2 DEF Chooses
  <2> QED
    BY <1>2, <2>3, <2>4, <2>5 DEF Chooses
<1>3. CASE Confirms(s)
  BY <1>3, AttestedAreAgents DEF Confirms, Goes, Derived
<1>4. CASE Declines(s)
  BY <1>4 DEF Declines, Goes
<1>5. CASE Fails(s)
  BY <1>5 DEF Fails, Goes, RolledBack
<1>6. CASE Quits(s)
  BY <1>6 DEF Quits, Goes, Ends, EndsAs
<1>7. CASE Exports(s)
  BY <1>7, LoadedIsADocument DEF Exports, Goes
<1>8. CASE Requests(s)
  BY <1>8, WantedAreDocuments, AttestedAreAgents DEF Requests, Goes
<1>9. CASE Applied(s)
  <2>1. CASE Ends(s)
    BY <1>9, LoadedIsADocument, <2>1 DEF Applied, Goes, Ends, EndsAs
  <2>2. CASE ~Ends(s)
    <3>1. at' \in [Sessions -> Steps]
      BY <1>9, <2>2 DEF Applied, Goes
    <3>2. mem' \in [Sessions -> Document]
      BY <1>9, <2>2, LoadedIsADocument DEF Applied, Goes
    <3>3. /\ before' \in [Sessions -> Document] /\ seen' \in [Sessions -> Document]
          /\ expected' \in [Sessions -> Document]
      BY <1>9, <2>2 DEF Applied, Goes
    <3>4. /\ base' \in [Sessions -> Nat]
          /\ asked' \in [Sessions -> SUBSET Agents]
      BY <1>9, <2>2 DEF Applied, Goes
    <3>5. pending' \in [Sessions -> BOOLEAN]
      BY <1>9, <2>2 DEF Applied, Goes
    <3>6. /\ text' = text /\ version' = version /\ writer' = writer
          /\ lock' \in Sessions \cup {"free", "left"}
          /\ choices' = choices /\ accidents' = accidents
      BY <1>9, <2>2 DEF Applied, Goes, Unlocked
    <3> QED
      BY <3>1, <3>2, <3>3, <3>4, <3>5, <3>6
  <2> QED
    BY <2>1, <2>2
<1>10. CASE ApplyFails(s)
  BY <1>10 DEF ApplyFails, Goes, Ends, EndsAs
<1>11. CASE Stages(s)
  BY <1>11 DEF Stages, Goes
<1>12. CASE Locks(s)
  BY <1>12 DEF Locks, Goes
<1>13. CASE LockTimesOut(s)
  BY <1>13 DEF LockTimesOut, Goes
<1>14. CASE Rechecks(s)
  BY <1>14 DEF Rechecks, Goes, Unlocked
<1>15. CASE Renames(s)
  BY <1>15 DEF Renames, Goes
<1>16. CASE Saved(s)
  <2>1. CASE Ends(s)
    BY <1>16, <2>1 DEF Saved, Goes, Ends, EndsAs, Unlocked
  <2>2. CASE ~Ends(s)
    <3>1. at' \in [Sessions -> Steps]
      BY <1>16, <2>2 DEF Saved, Goes
    <3>2. mem' \in [Sessions -> Document]
      BY <1>16, <2>2 DEF Saved, Goes
    <3>3. /\ before' \in [Sessions -> Document] /\ seen' \in [Sessions -> Document]
          /\ expected' \in [Sessions -> Document]
      BY <1>16, <2>2 DEF Saved, Goes
    <3>4. /\ base' \in [Sessions -> Nat]
          /\ asked' \in [Sessions -> SUBSET Agents]
      BY <1>16, <2>2 DEF Saved, Goes
    <3>5. pending' \in [Sessions -> BOOLEAN]
      BY <1>16, <2>2 DEF Saved, Goes
    <3>6. /\ text' = text /\ version' = version /\ writer' = writer
          /\ lock' \in Sessions \cup {"free", "left"}
          /\ choices' = choices /\ accidents' = accidents
      BY <1>16, <2>2 DEF Saved, Goes, Unlocked
    <3> QED
      BY <3>1, <3>2, <3>3, <3>4, <3>5, <3>6
  <2> QED
    BY <2>1, <2>2
<1>17. CASE SaveBreaks(s)
  BY <1>17 DEF SaveBreaks, Goes, Unlocked
<1>18. CASE Crashes(s)
  BY <1>18 DEF Crashes, Goes, Ends, EndsAs
<1>19. CASE Views(s)
  <2>1. CASE Ends(s)
    BY <1>19, <2>1 DEF Views, Goes, Ends, EndsAs
  <2>2. CASE ~Ends(s)
    BY <1>19, <2>2 DEF Views, Goes
  <2> QED
    BY <2>1, <2>2
<1>20. CASE Resolves(s)
  <2>1. CASE Ends(s)
    BY <1>20, <2>1 DEF Resolves, Goes, Ends, EndsAs
  <2>2. CASE ~Ends(s)
    BY <1>20, <2>2 DEF Resolves, Goes
  <2> QED
    BY <2>1, <2>2
<1>21. CASE ViewEnds(s)
  BY <1>21 DEF ViewEnds, Goes, EndsAs
<1> QED
  BY <1>1, <1>2, <1>3, <1>4, <1>5, <1>6, <1>7, <1>8, <1>9, <1>10, <1>11, <1>12, <1>13, <1>14,
     <1>15, <1>16, <1>17, <1>18, <1>19, <1>20, <1>21
    DEF SessionStep, SaveStep, ViewStep

LEMMA StepsKeepTheLock ==
  ASSUME StoreTypeOK, LockSound, NEW s \in Sessions, SessionStep(s) \/ ViewStep(s)
  PROVE  LockSound'
<1> USE NamesAreApart DEF StoreTypeOK, LockSound, file
<1>1. CASE MenuOpens(s)
  BY <1>1 DEF MenuOpens, Goes
<1>2. CASE Chooses(s)
  BY <1>2 DEF Chooses, Goes
<1>3. CASE Confirms(s)
  BY <1>3 DEF Confirms, Goes
<1>4. CASE Declines(s)
  BY <1>4 DEF Declines, Goes
<1>5. CASE Fails(s)
  BY <1>5 DEF Fails, Goes
<1>6. CASE Quits(s)
  BY <1>6 DEF Quits, Goes, Ends, EndsAs
<1>7. CASE Exports(s)
  BY <1>7 DEF Exports, Goes
<1>8. CASE Requests(s)
  BY <1>8 DEF Requests, Goes
<1>9. CASE Applied(s)
  BY <1>9 DEF Applied, Goes, Ends, EndsAs
<1>10. CASE ApplyFails(s)
  BY <1>10 DEF ApplyFails, Goes, Ends, EndsAs
<1>11. CASE Stages(s)
  BY <1>11 DEF Stages, Goes
<1>12. CASE Locks(s)
  BY <1>12 DEF Locks, Goes
<1>13. CASE LockTimesOut(s)
  BY <1>13 DEF LockTimesOut, Goes
<1>14. CASE Rechecks(s)
  BY <1>14 DEF Rechecks, Goes, Unlocked, Same
<1>15. CASE Renames(s)
  BY <1>15 DEF Renames, Goes
<1>16. CASE Saved(s)
  BY <1>16 DEF Saved, Goes, Ends, EndsAs, Unlocked
<1>17. CASE SaveBreaks(s)
  BY <1>17 DEF SaveBreaks, Goes, Unlocked, Saving
<1>18. CASE Crashes(s)
  BY <1>18 DEF Crashes, Goes, Ends, EndsAs, Saving
<1>19. CASE Views(s)
  BY <1>19 DEF Views, Goes, Ends, EndsAs
<1>20. CASE Resolves(s)
  BY <1>20 DEF Resolves, Goes, Ends, EndsAs
<1>21. CASE ViewEnds(s)
  BY <1>21 DEF ViewEnds, Goes, EndsAs
<1> QED
  BY <1>1, <1>2, <1>3, <1>4, <1>5, <1>6, <1>7, <1>8, <1>9, <1>10, <1>11, <1>12, <1>13, <1>14,
     <1>15, <1>16, <1>17, <1>18, <1>19, <1>20, <1>21
    DEF SessionStep, SaveStep, ViewStep

LEMMA StepsKeepWhatIsWritten ==
  ASSUME StoreTypeOK, WrittenSound, NEW s \in Sessions, SessionStep(s) \/ ViewStep(s)
  PROVE  WrittenSound'
<1> USE DEF StoreTypeOK, WrittenSound, Saving
<1>1. CASE MenuOpens(s)
  BY <1>1 DEF MenuOpens, Goes
<1>2. CASE Chooses(s)
  BY <1>2 DEF Chooses, Goes
<1>3. CASE Confirms(s)
  BY <1>3 DEF Confirms, Goes
<1>4. CASE Declines(s)
  BY <1>4 DEF Declines, Goes
<1>5. CASE Fails(s)
  BY <1>5 DEF Fails, Goes
<1>6. CASE Quits(s)
  BY <1>6 DEF Quits, Goes, Ends, EndsAs
<1>7. CASE Exports(s)
  BY <1>7 DEF Exports, Goes
<1>8. CASE Requests(s)
  BY <1>8 DEF Requests, Goes
<1>9. CASE Applied(s)
  BY <1>9 DEF Applied, Goes, Ends, EndsAs
<1>10. CASE ApplyFails(s)
  BY <1>10 DEF ApplyFails, Goes, Ends, EndsAs
<1>11. CASE Stages(s)
  BY <1>11 DEF Stages, Goes, Serializable, Valid
<1>12. CASE Locks(s)
  BY <1>12 DEF Locks, Goes
<1>13. CASE LockTimesOut(s)
  BY <1>13 DEF LockTimesOut, Goes
<1>14. CASE Rechecks(s)
  BY <1>14 DEF Rechecks, Goes
<1>15. CASE Renames(s)
  BY <1>15 DEF Renames, Goes
<1>16. CASE Saved(s)
  BY <1>16 DEF Saved, Goes, Ends, EndsAs
<1>17. CASE SaveBreaks(s)
  BY <1>17 DEF SaveBreaks, Goes
<1>18. CASE Crashes(s)
  BY <1>18 DEF Crashes, Goes, Ends, EndsAs
<1>19. CASE Views(s)
  BY <1>19 DEF Views, Goes, Ends, EndsAs
<1>20. CASE Resolves(s)
  BY <1>20 DEF Resolves, Goes, Ends, EndsAs
<1>21. CASE ViewEnds(s)
  BY <1>21 DEF ViewEnds, Goes, EndsAs
<1> QED
  BY <1>1, <1>2, <1>3, <1>4, <1>5, <1>6, <1>7, <1>8, <1>9, <1>10, <1>11, <1>12, <1>13, <1>14,
     <1>15, <1>16, <1>17, <1>18, <1>19, <1>20, <1>21
    DEF SessionStep, SaveStep, ViewStep

LEMMA StepsKeepMenus ==
  ASSUME StoreTypeOK, MenuSound, WrittenSound,
         NEW s \in Sessions, SessionStep(s) \/ ViewStep(s)
  PROVE  MenuSound'
<1> SUFFICES ASSUME NEW t \in Menus
             PROVE  /\ at'[t] \notin ApplyPlaces \cup ViewPlaces
                    /\ seen'[t].kind = "legacy" => pending'[t]
                    /\ at'[t] = "menu" => mem'[t] = Loaded(seen'[t])
                    /\ at'[t] \in {"edited", "failed"} \cup Saving
                         => before'[t] = Loaded(seen'[t])
                    /\ at'[t] \in {"edited"} \cup Saving => mem'[t] \in ChoicesOf(before'[t])
                    /\ at'[t] \in Saving => asked'[t] = Derived(t)'
  BY DEF MenuSound
<1>a. /\ at[t] \notin ApplyPlaces \cup ViewPlaces
      /\ seen[t].kind = "legacy" => pending[t]
      /\ at[t] = "menu" => mem[t] = Loaded(seen[t])
      /\ at[t] \in {"edited", "failed"} \cup Saving => before[t] = Loaded(seen[t])
      /\ at[t] \in {"edited"} \cup Saving => mem[t] \in ChoicesOf(before[t])
      /\ at[t] \in Saving => asked[t] = Derived(t)
  BY DEF MenuSound
<1>b. t \in Sessions /\ t \notin Machines
  BY NamesAreApart DEF Sessions
<1>c. Missing.kind = "missing"
  BY DEF Missing
<1>0. CASE t # s
  <2>1. /\ at'[t] = at[t] /\ mem'[t] = mem[t] /\ before'[t] = before[t] /\ base'[t] = base[t]
        /\ pending'[t] = pending[t] /\ asked'[t] = asked[t] /\ seen'[t] = seen[t]
    BY <1>b, <1>0, OthersRest
  <2>2. Derived(t)' = Derived(t)
    BY <2>1 DEF Derived
  <2> QED
    BY <1>a, <2>1, <2>2
<1> SUFFICES ASSUME t = s
             PROVE  /\ at'[s] \notin ApplyPlaces \cup ViewPlaces
                    /\ seen'[s].kind = "legacy" => pending'[s]
                    /\ at'[s] = "menu" => mem'[s] = Loaded(seen'[s])
                    /\ at'[s] \in {"edited", "failed"} \cup Saving
                         => before'[s] = Loaded(seen'[s])
                    /\ at'[s] \in {"edited"} \cup Saving => mem'[s] \in ChoicesOf(before'[s])
                    /\ at'[s] \in Saving => asked'[s] = Derived(s)'
  BY <1>0
<1> USE <1>a, <1>b DEF StoreTypeOK, Saving, ApplyPlaces, ViewPlaces
<1>1. CASE MenuOpens(s)
  BY <1>1 DEF MenuOpens, Goes
<1>2. CASE Chooses(s)
  BY <1>2 DEF Chooses, Goes
<1>3. CASE Confirms(s)
  BY <1>3 DEF Confirms, Goes, Derived
<1>4. CASE Declines(s)
  BY <1>4 DEF Declines, Goes
<1>5. CASE Fails(s)
  BY <1>5 DEF Fails, Goes, RolledBack
<1>6. CASE Quits(s)
  BY <1>6, <1>c DEF Quits, Goes, Ends, EndsAs
<1>7. CASE Exports(s)
  BY <1>7 DEF Exports, Goes
<1>8. CASE Requests(s)
  BY <1>8 DEF Requests, Goes
<1>9. CASE Applied(s)
  BY <1>9 DEF Applied, Goes, Ends, EndsAs
<1>10. CASE ApplyFails(s)
  BY <1>10 DEF ApplyFails, Goes, Ends, EndsAs
<1>11. CASE Stages(s)
  BY <1>11 DEF Stages, Goes, Derived
<1>12. CASE Locks(s)
  BY <1>12 DEF Locks, Goes, Derived
<1>13. CASE LockTimesOut(s)
  BY <1>13 DEF LockTimesOut, Goes, Derived
<1>14. CASE Rechecks(s)
  BY <1>14 DEF Rechecks, Goes, Derived
<1>15. CASE Renames(s)
  BY <1>15 DEF Renames, Goes, Derived
<1>16. CASE Saved(s)
  BY <1>16, LoadedIsItself, <1>c DEF Saved, Goes, Ends, EndsAs, WrittenSound
<1>17. CASE SaveBreaks(s)
  BY <1>17 DEF SaveBreaks, Goes, Derived
<1>18. CASE Crashes(s)
  BY <1>18, <1>c DEF Crashes, Goes, Ends, EndsAs
<1>19. CASE Views(s)
  BY <1>19 DEF Views, Goes, Ends, EndsAs
<1>20. CASE Resolves(s)
  BY <1>20 DEF Resolves, Goes, Ends, EndsAs
<1>21. CASE ViewEnds(s)
  BY <1>21 DEF ViewEnds, Goes, EndsAs
<1> QED
  BY <1>1, <1>2, <1>3, <1>4, <1>5, <1>6, <1>7, <1>8, <1>9, <1>10, <1>11, <1>12, <1>13, <1>14,
     <1>15, <1>16, <1>17, <1>18, <1>19, <1>20, <1>21
    DEF SessionStep, SaveStep, ViewStep

LEMMA StepsKeepApplies ==
  ASSUME StoreTypeOK, ApplySound, NEW s \in Sessions, SessionStep(s) \/ ViewStep(s)
  PROVE  ApplySound'
<1> SUFFICES ASSUME NEW t \in Machines
             PROVE  /\ at'[t] \notin MenuPlaces
                    /\ at'[t] \in Saving /\ pending'[t]
                         => Attested(mem'[t]) \subseteq asked'[t]
  BY DEF ApplySound
<1>a. /\ at[t] \notin MenuPlaces
      /\ at[t] \in Saving /\ pending[t] => Attested(mem[t]) \subseteq asked[t]
  BY DEF ApplySound
<1>b. t \in Sessions /\ t \notin Menus
  BY NamesAreApart DEF Sessions
<1>0. CASE t # s
  BY <1>a, <1>b, <1>0, OthersRest
<1> SUFFICES ASSUME t = s
             PROVE  /\ at'[s] \notin MenuPlaces
                    /\ at'[s] \in Saving /\ pending'[s]
                         => Attested(mem'[s]) \subseteq asked'[s]
  BY <1>0
<1> USE <1>a, <1>b DEF StoreTypeOK, Saving, MenuPlaces
<1>1. CASE MenuOpens(s)
  BY <1>1 DEF MenuOpens, Goes
<1>2. CASE Chooses(s)
  BY <1>2 DEF Chooses, Goes
<1>3. CASE Confirms(s)
  BY <1>3 DEF Confirms, Goes
<1>4. CASE Declines(s)
  BY <1>4 DEF Declines, Goes
<1>5. CASE Fails(s)
  BY <1>5 DEF Fails, Goes
<1>6. CASE Quits(s)
  BY <1>6 DEF Quits, Goes, Ends, EndsAs
<1>7. CASE Exports(s)
  BY <1>7 DEF Exports, Goes
<1>8. CASE Requests(s)
  BY <1>8 DEF Requests, Goes
<1>9. CASE Applied(s)
  <2>1. CASE Ends(s)
    BY <1>9, <2>1 DEF Applied, Goes, Ends, EndsAs
  <2>2. CASE ~Ends(s)
    <3>1. /\ at' = [at EXCEPT ![s] = "saving"] /\ mem' = [mem EXCEPT ![s] = Migrated(mem[s])]
          /\ pending' = [pending EXCEPT ![s] = mem[s].kind = "legacy"]
          /\ asked' = asked /\ ~Unconfirmed(s)
      BY <1>9, <2>2 DEF Applied, Goes
    <3>2. Attested(Migrated(mem[s])) = Attested(mem[s])
      BY MigrationAttestsNothing
    <3> QED
      BY <3>1, <3>2 DEF Unconfirmed
  <2> QED
    BY <2>1, <2>2
<1>10. CASE ApplyFails(s)
  BY <1>10 DEF ApplyFails, Goes, Ends, EndsAs
<1>11. CASE Stages(s)
  BY <1>11 DEF Stages, Goes
<1>12. CASE Locks(s)
  BY <1>12 DEF Locks, Goes
<1>13. CASE LockTimesOut(s)
  BY <1>13 DEF LockTimesOut, Goes
<1>14. CASE Rechecks(s)
  BY <1>14 DEF Rechecks, Goes
<1>15. CASE Renames(s)
  BY <1>15 DEF Renames, Goes
<1>16. CASE Saved(s)
  BY <1>16 DEF Saved, Goes, Ends, EndsAs
<1>17. CASE SaveBreaks(s)
  BY <1>17 DEF SaveBreaks, Goes
<1>18. CASE Crashes(s)
  BY <1>18 DEF Crashes, Goes, Ends, EndsAs
<1>19. CASE Views(s)
  BY <1>19 DEF Views, Goes, Ends, EndsAs
<1>20. CASE Resolves(s)
  BY <1>20 DEF Resolves, Goes, Ends, EndsAs
<1>21. CASE ViewEnds(s)
  BY <1>21 DEF ViewEnds, Goes, EndsAs
<1> QED
  BY <1>1, <1>2, <1>3, <1>4, <1>5, <1>6, <1>7, <1>8, <1>9, <1>10, <1>11, <1>12, <1>13, <1>14,
     <1>15, <1>16, <1>17, <1>18, <1>19, <1>20, <1>21
    DEF SessionStep, SaveStep, ViewStep

LEMMA StepsKeepViews ==
  ASSUME StoreTypeOK, LockSound, ViewSound, NEW s \in Sessions, SessionStep(s) \/ ViewStep(s)
  PROVE  ViewSound'
<1> SUFFICES ASSUME NEW t \in Machines
             PROVE  /\ at'[t] = "viewing" /\ version' = base'[t] => text' = expected'[t]
                    /\ at'[t] = "resolved" =>
                         \/ mem'[t] = expected'[t]
                         \/ /\ base'[t] < version'
                            /\ version' = base'[t] + 1 => text' = mem'[t]
  BY DEF ViewSound
<1>a. /\ at[t] = "viewing" /\ version = base[t] => text = expected[t]
      /\ at[t] = "resolved" =>
           \/ mem[t] = expected[t]
           \/ base[t] < version /\ (version = base[t] + 1 => text = mem[t])
  BY DEF ViewSound
<1>b. t \in Sessions /\ base[t] \in Nat /\ version \in Nat /\ base[t] <= version
  BY DEF Sessions, StoreTypeOK, LockSound
<1>0. CASE t # s
  <2>1. /\ at'[t] = at[t] /\ mem'[t] = mem[t]
        /\ base'[t] = base[t] /\ expected'[t] = expected[t]
    BY <1>b, <1>0, OthersRest
  <2>2. CASE Renames(s)
    <3>1. version' = version + 1
      BY <2>2 DEF Renames
    <3> QED
      BY <1>a, <1>b, <2>1, <3>1
  <2>3. CASE text' = text /\ version' = version
    BY <1>a, <2>1, <2>3
  <2> QED
    BY <2>2, <2>3, WhoWrites
<1> SUFFICES ASSUME t = s
             PROVE  /\ at'[s] = "viewing" /\ version' = base'[s] => text' = expected'[s]
                    /\ at'[s] = "resolved" =>
                         \/ mem'[s] = expected'[s]
                         \/ /\ base'[s] < version'
                            /\ version' = base'[s] + 1 => text' = mem'[s]
  BY <1>0
<1> USE <1>a, <1>b DEF StoreTypeOK, file
<1>1. CASE MenuOpens(s)
  BY <1>1 DEF MenuOpens, Goes
<1>2. CASE Chooses(s)
  BY <1>2 DEF Chooses, Goes
<1>3. CASE Confirms(s)
  BY <1>3 DEF Confirms, Goes
<1>4. CASE Declines(s)
  BY <1>4 DEF Declines, Goes
<1>5. CASE Fails(s)
  BY <1>5 DEF Fails, Goes
<1>6. CASE Quits(s)
  BY <1>6 DEF Quits, Goes, Ends, EndsAs
<1>7. CASE Exports(s)
  BY <1>7 DEF Exports, Goes
<1>8. CASE Requests(s)
  BY <1>8 DEF Requests, Goes
<1>9. CASE Applied(s)
  BY <1>9 DEF Applied, Goes, Ends, EndsAs
<1>10. CASE ApplyFails(s)
  BY <1>10 DEF ApplyFails, Goes, Ends, EndsAs
<1>11. CASE Stages(s)
  BY <1>11 DEF Stages, Goes
<1>12. CASE Locks(s)
  BY <1>12 DEF Locks, Goes
<1>13. CASE LockTimesOut(s)
  BY <1>13 DEF LockTimesOut, Goes
<1>14. CASE Rechecks(s)
  BY <1>14 DEF Rechecks, Goes
<1>15. CASE Renames(s)
  BY <1>15 DEF Renames, Goes
<1>16. CASE Saved(s)
  BY <1>16 DEF Saved, Goes, Ends, EndsAs
<1>17. CASE SaveBreaks(s)
  BY <1>17 DEF SaveBreaks, Goes
<1>18. CASE Crashes(s)
  BY <1>18 DEF Crashes, Goes, Ends, EndsAs
<1>19. CASE Views(s)
  BY <1>19 DEF Views, Goes, Ends, EndsAs
<1>20. CASE Resolves(s)
  BY <1>20 DEF Resolves, Goes, Ends, EndsAs
<1>21. CASE ViewEnds(s)
  BY <1>21 DEF ViewEnds, Goes, EndsAs
<1> QED
  BY <1>1, <1>2, <1>3, <1>4, <1>5, <1>6, <1>7, <1>8, <1>9, <1>10, <1>11, <1>12, <1>13, <1>14,
     <1>15, <1>16, <1>17, <1>18, <1>19, <1>20, <1>21
    DEF SessionStep, SaveStep, ViewStep

\* An edit by hand changes the file under every session.
LEMMA HandsKeepAll ==
  ASSUME ConfigInv, HandEdits
  PROVE  ConfigInv'
<1>1. StoreTypeOK'
  BY NamesAreApart DEF ConfigInv, HandEdits, StoreTypeOK
<1>2. LockSound'
  BY DEF ConfigInv, HandEdits, LockSound, StoreTypeOK
<1>3. WrittenSound' /\ ApplySound'
  BY DEF ConfigInv, HandEdits, WrittenSound, ApplySound
<1>4. MenuSound'
  BY DEF ConfigInv, HandEdits, MenuSound, Derived
<1>5. ViewSound'
  <2> SUFFICES ASSUME NEW t \in Machines
               PROVE  /\ at[t] = "viewing" /\ version' = base[t] => text' = expected[t]
                      /\ at[t] = "resolved" =>
                           \/ mem[t] = expected[t]
                           \/ base[t] < version' /\ (version' = base[t] + 1 => text' = mem[t])
    BY DEF HandEdits, ViewSound
  <2>1. base[t] \in Nat /\ version \in Nat /\ base[t] <= version /\ version' = version + 1
    BY DEF ConfigInv, Sessions, StoreTypeOK, LockSound, HandEdits
  <2>2. at[t] = "resolved" => mem[t] = expected[t] \/ base[t] < version
    BY DEF ConfigInv, ViewSound
  <2> QED
    BY <2>1, <2>2
<1> QED
  BY <1>1, <1>2, <1>3, <1>4, <1>5 DEF ConfigInv

LEMMA ConfigSteps == ConfigInv /\ [ConfigNext]_vars => ConfigInv'
<1> SUFFICES ASSUME ConfigInv, [ConfigNext]_vars PROVE ConfigInv'
  OBVIOUS
<1>1. ASSUME NEW s \in Sessions, SessionStep(s) \/ ViewStep(s) PROVE ConfigInv'
  BY <1>1, StepsKeepTypes, StepsKeepTheLock, StepsKeepWhatIsWritten, StepsKeepMenus,
     StepsKeepApplies, StepsKeepViews DEF ConfigInv
<1>2. CASE HandEdits
  BY <1>2, HandsKeepAll
<1>3. CASE UNCHANGED vars
  BY <1>3
    DEF vars, ConfigInv, StoreTypeOK, LockSound, MenuSound, WrittenSound, ApplySound,
        ViewSound, Derived
<1> QED
  BY <1>1, <1>2, <1>3 DEF ConfigNext

LEMMA ConfigInvHolds == ConfigSpec => []ConfigInv
<1>1. ConfigInit => ConfigInv
  BY FreshStore
<1>2. ConfigInv /\ [ConfigNext]_vars => ConfigInv'
  BY ConfigSteps
<1> QED
  BY <1>1, <1>2, PTL DEF ConfigSpec

LEMMA StoreIsTyped == ConfigInv => ConfigTypeOK
<1> SUFFICES ASSUME ConfigInv PROVE ConfigTypeOK
  OBVIOUS
<1>1. text.kind \in Forms /\ DOMAIN text.agents = Agents /\ text.defaults \subseteq Agents
  BY DEF ConfigInv, StoreTypeOK, Document
<1> QED
  BY <1>1 DEF ConfigInv, StoreTypeOK, LockSound, ConfigTypeOK

-----------------------------------------------------------------------------
(***************************************************************************)
(* What a document means.                                                  *)
(***************************************************************************)
\* A set of natural numbers has a least element.
LEMMA LeastOf ==
  ASSUME NEW S \in SUBSET Nat, S # {}
  PROVE  \E n \in S : \A m \in S : n <= m
<1>1. PICK R : R = OpToRel(<, Nat)
  OBVIOUS
<1>2. IsWellFoundedOn(R, Nat)
  BY <1>1, NatLessThanWellFounded
<1>3. R = {ss \in Nat \X Nat : ss[1] < ss[2]}
  BY <1>1 DEF OpToRel
<1>4. PICK n \in S : \A m \in S : <<m, n>> \notin R
  BY <1>2, WFMin
<1>5. ASSUME NEW m \in S PROVE n <= m
  <2>1. <<m, n>> \in Nat \X Nat /\ <<m, n>>[1] = m /\ <<m, n>>[2] = n
    OBVIOUS
  <2>2. ~(m < n)
    BY <1>3, <1>4, <2>1
  <2> QED
    BY <2>2
<1> QED
  BY <1>5

LEMMA GreatestOf ==
  ASSUME NEW n \in Nat, NEW S \in SUBSET (0..n), S # {}
  PROVE  \E m \in S : \A l \in S : l <= m
<1> DEFINE T == {n - l : l \in S}
<1>1. T \in SUBSET Nat /\ T # {}
  <2>1. \A l \in S : n - l \in Nat
    OBVIOUS
  <2>2. PICK l \in S : TRUE
    OBVIOUS
  <2>3. n - l \in T
    BY <2>2
  <2> QED
    BY <2>1, <2>3
<1> HIDE DEF T
<1>2. PICK t \in T : \A u \in T : t <= u
  BY <1>1, LeastOf
<1>3. PICK m \in S : t = n - m
  BY DEF T
<1>4. ASSUME NEW l \in S PROVE l <= m
  <2>1. n - l \in T
    BY DEF T
  <2> QED
    BY <1>2, <1>3, <2>1
<1> QED
  BY <1>4

-----------------------------------------------------------------------------
(* What is left of some runs.                                              *)

LEMMA RunsAre ==
  ASSUME NEW runs \in Seq(Groups)
  PROVE  /\ IsFiniteSet(DOMAIN runs) /\ Cardinality(DOMAIN runs) = Len(runs)
         /\ IsFiniteSet(GroupsOf(runs)) /\ Cardinality(GroupsOf(runs)) \in Nat
         /\ Cardinality(GroupsOf(runs)) <= Len(runs)
         /\ runs # <<>> => GroupsOf(runs) # {} /\ Cardinality(GroupsOf(runs)) >= 1
<1>1. /\ Len(runs) \in Nat /\ DOMAIN runs = 1..Len(runs)
  OBVIOUS
<1>2. IsFiniteSet(DOMAIN runs) /\ Cardinality(DOMAIN runs) = Len(runs)
  BY <1>1, FS_Interval
<1>3. runs \in Surjection(DOMAIN runs, GroupsOf(runs))
  BY DEF Surjection, GroupsOf
<1>4. IsFiniteSet(GroupsOf(runs)) /\ Cardinality(GroupsOf(runs)) <= Len(runs)
  BY <1>2, <1>3, FS_Surjection
<1>5. Cardinality(GroupsOf(runs)) \in Nat
  BY <1>4, FS_CardinalityType
<1>6. runs # <<>> => GroupsOf(runs) # {}
  BY <1>1 DEF GroupsOf
<1>7. GroupsOf(runs) # {} => Cardinality(GroupsOf(runs)) # 0
  BY <1>4, FS_EmptySet
<1> QED
  BY <1>2, <1>4, <1>5, <1>6, <1>7

LEMMA LeftAre ==
  ASSUME NEW runs \in Seq(Groups), NEW x
  PROVE  /\ RunsIn(runs, x) \in Nat
         /\ Cardinality(Left(runs, {x})) = Len(runs) - RunsIn(runs, x)
         /\ {runs[i] : i \in Left(runs, {x})} = GroupsOf(runs) \ {x}
         /\ x \in GroupsOf(runs) =>
              Cardinality(GroupsOf(runs) \ {x}) = Cardinality(GroupsOf(runs)) - 1
<1> DEFINE its == {i \in DOMAIN runs : runs[i] = x}
<1>1. IsFiniteSet(DOMAIN runs) /\ Cardinality(DOMAIN runs) = Len(runs)
  BY RunsAre
<1>2. its \in SUBSET DOMAIN runs /\ DOMAIN runs \cap its = its
  OBVIOUS
<1>3. Left(runs, {x}) = DOMAIN runs \ its
  BY DEF Left
<1>4. RunsIn(runs, x) = Cardinality(its)
  BY DEF RunsIn
<1> HIDE DEF its
<1>5. IsFiniteSet(its) /\ Cardinality(its) \in Nat
  BY <1>1, <1>2, FS_Subset, FS_CardinalityType
<1>6. Cardinality(DOMAIN runs \ its) = Len(runs) - Cardinality(its)
  BY <1>1, <1>2, FS_Difference
<1>7. {runs[i] : i \in Left(runs, {x})} = GroupsOf(runs) \ {x}
  BY DEF Left, GroupsOf
<1>8. x \in GroupsOf(runs) =>
        Cardinality(GroupsOf(runs) \ {x}) = Cardinality(GroupsOf(runs)) - 1
  BY RunsAre, FS_RemoveElement
<1> QED
  BY <1>3, <1>4, <1>5, <1>6, <1>7, <1>8

\* The migration and the schema agree on the outage of one provider.
LEMMA TolerancesAgree ==
  ASSUME NEW runs \in Seq(Groups), NEW q \in Nat, NEW m \in Nat,
         Cardinality(GroupsOf(runs)) > 1, ToleratesOneProviderOutage(runs, q, m)
  PROVE  SchemaTolerates(runs, q, m)
<1>1. /\ Cardinality(GroupsOf(runs)) \in Nat /\ GroupsOf(runs) # {}
  <2>1. runs # <<>>
    <3>1. CASE runs = <<>>
      <4>1. GroupsOf(runs) = {}
        BY <3>1 DEF GroupsOf
      <4> QED
        BY <4>1, FS_EmptySet
    <3> QED
      BY <3>1
  <2> QED
    BY <2>1, RunsAre
<1>2. \A x \in GroupsOf(runs) :
        /\ Cardinality(Left(runs, {x})) >= q
        /\ Cardinality({runs[i] : i \in Left(runs, {x})}) >= m
  BY <1>1 DEF ToleratesOneProviderOutage
<1>3. \A x \in GroupsOf(runs) : Len(runs) - RunsIn(runs, x) >= q
  BY <1>2, LeftAre
<1>4. PICK x \in GroupsOf(runs) : TRUE
  BY <1>1
<1>5. Cardinality(GroupsOf(runs)) - 1 >= m
  BY <1>2, <1>4, LeftAre
<1> QED
  BY <1>3, <1>5 DEF SchemaTolerates

\* The description counts at least one outage where the schema saw one survived.
LEMMA OneOutageIsCounted ==
  ASSUME NEW runs \in Seq(Groups), NEW q \in Nat, NEW m \in Nat,
         q <= Len(runs), m <= Cardinality(GroupsOf(runs)), GroupsOf(runs) # {},
         SchemaTolerates(runs, q, m)
  PROVE  ProviderOutageTolerance(runs, q, m) # 0
<1> DEFINE n == Cardinality(GroupsOf(runs))
           counts == {c \in 0..n : SurvivesAny(runs, q, m, c)}
<1>1. n \in Nat /\ n # 0 /\ IsFiniteSet(GroupsOf(runs))
  BY RunsAre, FS_EmptySet
<1>2. Survives(runs, q, m, {})
  <2>1. Left(runs, {}) = DOMAIN runs /\ GroupsOf(runs) \ {} = GroupsOf(runs)
    BY DEF Left
  <2>2. Cardinality(DOMAIN runs) = Len(runs) /\ Len(runs) \in Nat
    BY RunsAre
  <2> QED
    BY <1>1, <2>1, <2>2 DEF Survives
<1>3. SurvivesAny(runs, q, m, 1)
  <2> SUFFICES ASSUME NEW gone \in SUBSET GroupsOf(runs), Cardinality(gone) = 1
               PROVE  Survives(runs, q, m, gone)
    BY DEF SurvivesAny
  <2>1. IsFiniteSet(gone)
    BY <1>1, FS_Subset
  <2>2. PICK x : gone = {x}
    BY <2>1, FS_Singleton
  <2>3. x \in GroupsOf(runs)
    BY <2>2
  <2>4. Cardinality(Left(runs, {x})) >= q
    BY <2>3, LeftAre DEF SchemaTolerates
  <2>5. Cardinality(GroupsOf(runs) \ {x}) >= m
    BY <2>3, LeftAre DEF SchemaTolerates
  <2> QED
    BY <2>2, <2>4, <2>5 DEF Survives
<1>4. 1 \in counts /\ counts \in SUBSET (0..n)
  BY <1>1, <1>3
<1>5. ProviderOutageTolerance(runs, q, m) = CHOOSE c \in counts : \A o \in counts : o <= c
  BY <1>2 DEF ProviderOutageTolerance
<1> HIDE DEF counts
<1>6. \E c \in counts : \A o \in counts : o <= c
  BY <1>1, <1>4, GreatestOf
<1>7. /\ ProviderOutageTolerance(runs, q, m) \in counts
      /\ \A o \in counts : o <= ProviderOutageTolerance(runs, q, m)
  BY <1>5, <1>6
<1> QED
  BY <1>1, <1>4, <1>7

-----------------------------------------------------------------------------
(* Runs that begin at another place.                                       *)

LEMMA TurnedTo ==
  ASSUME NEW n \in Nat \ {0}, NEW x \in Nat, x < n + n
  PROVE  x % n = IF x < n THEN x ELSE x - n
<1>1. x % n \in 0..(n - 1)
  OBVIOUS
<1>2. x = n * (x \div n) + (x % n) /\ x \div n \in Nat
  OBVIOUS
<1> QED
  BY <1>1, <1>2

TurnedRuns(runs, offset) ==
  [k \in 1..Len(runs) |-> runs[((offset + k - 1) % Len(runs)) + 1]]

LEMMA TurnedRunsAre ==
  ASSUME NEW runs \in Seq(Groups), runs # <<>>, NEW offset \in 0..(Len(runs) - 1)
  PROVE  LET r == TurnedRuns(runs, offset) IN
         /\ r \in Seq(Groups) /\ Len(r) = Len(runs) /\ r[1] = runs[offset + 1]
         /\ GroupsOf(r) = GroupsOf(runs)
         /\ \A x : RunsIn(r, x) = RunsIn(runs, x)
<1> DEFINE n == Len(runs)
           r == TurnedRuns(runs, offset)
           to(k) == IF offset + k <= n THEN offset + k ELSE offset + k - n
           from(i) == IF i > offset THEN i - offset ELSE i + n - offset
<1>1. n \in Nat \ {0} /\ DOMAIN runs = 1..n /\ offset \in Nat /\ offset < n
  OBVIOUS
<1>2. \A k \in 1..n : ((offset + k - 1) % n) + 1 = to(k)
  <2> SUFFICES ASSUME NEW k \in 1..n PROVE ((offset + k - 1) % n) + 1 = to(k)
    OBVIOUS
  <2> DEFINE x == offset + k - 1
  <2>1. x \in Nat /\ x < n + n
    BY <1>1
  <2> HIDE DEF x
  <2>2. x % n = IF x < n THEN x ELSE x - n
    BY <1>1, <2>1, TurnedTo
  <2> HIDE DEF n
  <2>3. (x % n) + 1 = to(k)
    BY <1>1, <2>2 DEF x
  <2> QED
    BY <2>3 DEF x
<1>3. \A k \in 1..n : to(k) \in 1..n /\ from(to(k)) = k
  BY <1>1
<1>4. \A i \in 1..n : from(i) \in 1..n /\ to(from(i)) = i
  BY <1>1
<1>5. DOMAIN r = 1..n /\ \A k \in 1..n : r[k] = runs[to(k)]
  BY <1>2 DEF TurnedRuns
<1> HIDE DEF to, from, n, r
<1>6. r \in [1..n -> Groups]
  <2>1. \A i \in 1..n : runs[i] \in Groups
    BY DEF n
  <2>2. \A k \in 1..n : r[k] \in Groups
    BY <1>3, <1>5, <2>1
  <2>3. r = [k \in 1..n |-> r[k]]
    BY DEF r, TurnedRuns, n
  <2> QED
    BY <2>2, <2>3
<1>7. r \in Seq(Groups) /\ Len(r) = n
  BY <1>1, <1>6
<1>8. r[1] = runs[offset + 1]
  BY <1>1, <1>5 DEF to
<1>9. GroupsOf(r) = GroupsOf(runs)
  <2>1. \A k \in DOMAIN r : \E i \in DOMAIN runs : r[k] = runs[i]
    BY <1>1, <1>3, <1>5
  <2>2. \A i \in DOMAIN runs : \E k \in DOMAIN r : runs[i] = r[k]
    BY <1>1, <1>4, <1>5
  <2> QED
    BY <2>1, <2>2 DEF GroupsOf
<1>10. ASSUME NEW x PROVE RunsIn(r, x) = RunsIn(runs, x)
  <2> DEFINE S == {k \in DOMAIN r : r[k] = x}
             T == {i \in DOMAIN runs : runs[i] = x}
             f == [k \in S |-> to(k)]
  <2>1. \A k \in S : k \in 1..n /\ to(k) \in T /\ from(to(k)) = k
    BY <1>1, <1>3, <1>5
  <2>2. \A i \in T : from(i) \in S /\ to(from(i)) = i
    BY <1>1, <1>4, <1>5
  <2>3. RunsIn(r, x) = Cardinality(S) /\ RunsIn(runs, x) = Cardinality(T)
    BY DEF RunsIn
  <2>a. S \in SUBSET DOMAIN r
    OBVIOUS
  <2> HIDE DEF S, T
  <2>4. f \in [S -> T] /\ \A k \in S : f[k] = to(k)
    BY <2>1
  <2> HIDE DEF f
  <2>5. f \in Injection(S, T)
    BY <2>1, <2>4 DEF Injection, IsInjective
  <2>6. f \in Surjection(S, T)
    BY <2>2, <2>4 DEF Surjection
  <2>7. ExistsBijection(S, T)
    BY <2>5, <2>6 DEF ExistsBijection, Bijection
  <2>8. IsFiniteSet(S)
    BY <1>7, <2>a, RunsAre, FS_Subset
  <2> QED
    BY <2>3, <2>7, <2>8, FS_Bijection
<1> QED
  BY <1>7, <1>8, <1>9, <1>10 DEF r, n

-----------------------------------------------------------------------------
(* What a document means.                                                  *)

\* An agent by its runs, with the policy it means.
LEMMA AgentsAre ==
  ASSUME NEW a \in WrittenAgent
  PROVE  /\ a.runs \in Seq(Groups) /\ a.runs # <<>> /\ Len(a.runs) \in Nat /\ Len(a.runs) >= 1
         /\ GroupsOf(a.runs) # {} /\ Cardinality(GroupsOf(a.runs)) \in Nat
         /\ Cardinality(GroupsOf(a.runs)) >= 1 /\ Cardinality(GroupsOf(a.runs)) <= Len(a.runs)
         /\ a.quorum \in Nat /\ a.groups \in Nat /\ a.acknowledged \in BOOLEAN
         /\ a.adjudicated \in BOOLEAN
<1>1. a.runs \in Seq(Groups) /\ a.runs # <<>>
  BY DEF WrittenAgent
<1>2. Len(a.runs) \in Nat /\ Len(a.runs) >= 1
  BY <1>1
<1> QED
  BY <1>1, <1>2, RunsAre DEF WrittenAgent

LEMMA DefaultsAre ==
  ASSUME NEW a \in WrittenAgent, Multi(a)
  PROVE  /\ DefaultQuorum(a.runs) \in Nat \ {0} /\ DefaultGroups(a.runs) \in Nat \ {0}
         /\ Least(2, Len(a.runs)) \in Nat \ {0}
         /\ Least(2, Cardinality(GroupsOf(a.runs))) \in Nat \ {0}
  BY AgentsAre DEF DefaultQuorum, DefaultGroups, Least

LEMMA EffectivesAre ==
  ASSUME NEW a \in WrittenAgent,
         NEW profile \in {"none", "strict-evaluation", "routine-review"}
  PROVE  /\ EffectivePolicy(a, profile) \in WrittenAgent
         /\ EffectivePolicy(a, profile).runs = a.runs
<1>1. /\ Len(a.runs) \in Nat /\ Cardinality(GroupsOf(a.runs)) \in Nat
      /\ Least(2, Len(a.runs)) \in Nat /\ Least(2, Cardinality(GroupsOf(a.runs))) \in Nat
  BY AgentsAre DEF Least
<1>2. CASE profile = "none"
  BY <1>2 DEF EffectivePolicy
<1>3. CASE profile = "strict-evaluation"
  BY <1>1, <1>3 DEF EffectivePolicy, WrittenAgent
<1>4. CASE profile = "routine-review"
  BY <1>1, <1>4 DEF EffectivePolicy, WrittenAgent
<1> QED
  BY <1>2, <1>3, <1>4

\* What the migration makes of an agent.
LEMMA MigratedAre ==
  ASSUME NEW a \in WrittenAgent, NEW form \in 5..6
  PROVE  LET b == MigratedAgent(a, form) IN
         /\ b \in WrittenAgent /\ b.runs = a.runs /\ b.adjudicated = a.adjudicated
         /\ b.proof = "observed" => GroupsOf(a.runs) \subseteq Mediated
         /\ ~Multi(a) => b.quorum = a.quorum /\ b.groups = a.groups
         /\ Multi(a) =>
              /\ b.quorum = MeantQuorum(a, form) /\ b.groups = MeantGroups(a, form)
              /\ b.quorum # 0 /\ b.groups # 0
              /\ b.acknowledged <=>
                   a.acknowledged \/ ~ToleratesOneProviderOutage(a.runs, b.quorum, b.groups)
<1> DEFINE q == MeantQuorum(a, form)
           m == MeantGroups(a, form)
           proof == IF GroupsOf(a.runs) \subseteq Mediated THEN "observed" ELSE "attested"
           ack == a.acknowledged \/ ~ToleratesOneProviderOutage(a.runs, q, m)
           b == MigratedAgent(a, form)
<1>1. CASE Multi(a)
  <2>1. b = [a EXCEPT !.quorum = q, !.groups = m, !.proof = proof, !.acknowledged = ack]
    <3> DEFINE five == form = 6 /\ Len(a.runs) = 5
               quorum == Given(a.quorum, IF five THEN 3 ELSE Least(2, Len(a.runs)))
               groups == Given(a.groups, IF five THEN 3
                                         ELSE Least(2, Cardinality(GroupsOf(a.runs))))
    <3>1. quorum = q
      BY DEF MeantQuorum, DefaultQuorum
    <3>2. groups = m
      BY DEF MeantGroups, DefaultGroups
    <3>3. b = [a EXCEPT !.quorum = quorum, !.groups = groups, !.proof = proof,
                        !.acknowledged =
                           @ \/ ~ToleratesOneProviderOutage(a.runs, quorum, groups)]
      BY <1>1 DEF MigratedAgent
    <3> QED
      BY <3>1, <3>2, <3>3
  <2>2. q \in Nat \ {0} /\ m \in Nat \ {0}
    BY <1>1, DefaultsAre, AgentsAre DEF MeantQuorum, MeantGroups, Given
  <2>3. ack \in BOOLEAN /\ proof \in {"attested", "observed"}
    BY AgentsAre
  <2> HIDE DEF q, m, ack, b
  <2>4. b \in WrittenAgent
    BY <2>1, <2>2, <2>3 DEF WrittenAgent
  <2>5. /\ b.runs = a.runs /\ b.adjudicated = a.adjudicated /\ b.quorum = q /\ b.groups = m
        /\ b.proof = proof /\ b.acknowledged = ack
    BY <2>1 DEF WrittenAgent
  <2> QED
    BY <1>1, <2>2, <2>4, <2>5 DEF q, m, ack, b
<1>2. CASE ~Multi(a)
  <2>1. b = [a EXCEPT !.proof = proof]
    BY <1>2 DEF MigratedAgent
  <2> HIDE DEF b
  <2>2. b \in WrittenAgent
    BY <2>1 DEF WrittenAgent
  <2>3. /\ b.runs = a.runs /\ b.adjudicated = a.adjudicated /\ b.quorum = a.quorum
        /\ b.groups = a.groups /\ b.proof = proof
    BY <2>1 DEF WrittenAgent
  <2> QED
    BY <1>2, <2>2, <2>3 DEF b
<1> QED
  BY <1>1, <1>2

\* A lens with several models that was accepted is accepted after its migration.
LEMMA MultiIsAccepted ==
  ASSUME NEW a \in WrittenAgent, NEW form \in 5..6, Multi(a),
         form = 5 => V5PolicyAccepted(a),
         form = 6 => PolicyAccepted(a)
  PROVE  PolicyAccepted(MigratedAgent(a, form))
<1> DEFINE b == MigratedAgent(a, form)
<1>1. /\ b \in WrittenAgent /\ b.runs = a.runs /\ b.adjudicated = a.adjudicated
      /\ b.quorum = MeantQuorum(a, form) /\ b.groups = MeantGroups(a, form)
      /\ b.quorum # 0 /\ b.groups # 0
      /\ b.acknowledged <=>
           a.acknowledged \/ ~ToleratesOneProviderOutage(a.runs, b.quorum, b.groups)
  BY MigratedAre
<1> DEFINE distinct == Cardinality(GroupsOf(a.runs))
<1>2. /\ b.quorum <= Len(a.runs) /\ b.groups <= b.quorum /\ b.groups <= distinct
      /\ a.adjudicated => distinct >= 2
  <2>1. CASE form = 5
    BY <1>1, <2>1 DEF V5PolicyAccepted, MeantQuorum, MeantGroups
  <2>2. CASE form = 6
    BY <1>1, <2>2 DEF PolicyAccepted, MultiPolicyAccepted, MeantQuorum, MeantGroups
  <2> QED
    BY <2>1, <2>2
<1>3. /\ Given(b.quorum, DefaultQuorum(b.runs)) = b.quorum
      /\ Given(b.groups, DefaultGroups(b.runs)) = b.groups
  BY <1>1 DEF Given
<1>4. ASSUME distinct > 1, ~b.acknowledged PROVE SchemaTolerates(b.runs, b.quorum, b.groups)
  <2>1. ToleratesOneProviderOutage(a.runs, b.quorum, b.groups)
    BY <1>1, <1>4
  <2> QED
    BY <1>1, <1>4, <2>1, AgentsAre, TolerancesAgree
<1>5. Multi(b)
  BY <1>1 DEF Multi
<1> HIDE DEF b
<1> QED
  BY <1>1, <1>2, <1>3, <1>4, <1>5 DEF b, PolicyAccepted, MultiPolicyAccepted

LEMMA SingleIsAccepted ==
  ASSUME NEW a \in WrittenAgent, NEW form \in 5..6, ~Multi(a), SinglePolicyAccepted(a)
  PROVE  PolicyAccepted(MigratedAgent(a, form))
<1> DEFINE b == MigratedAgent(a, form)
<1>1. /\ b.runs = a.runs /\ b.adjudicated = a.adjudicated
      /\ b.quorum = a.quorum /\ b.groups = a.groups
  BY MigratedAre
<1> HIDE DEF b
<1> QED
  BY <1>1 DEF b, PolicyAccepted, SinglePolicyAccepted, Multi

LEMMA DocumentsAre ==
  ASSUME NEW c \in WrittenDocument
  PROVE  /\ c.version \in 5..7 /\ c.roster \in Seq(Lenses) /\ c.concentrated \in BOOLEAN
         /\ c.profile \in {"none", "strict-evaluation", "routine-review"}
         /\ \A l \in Lenses : c.agents[l] \in WrittenAgent
         /\ \A i \in DOMAIN c.roster : c.roster[i] \in Lenses
  BY DEF WrittenDocument

LEMMA MigrationIs ==
  ASSUME NEW c \in WrittenDocument, c.version < 7, c.profile = "none"
  PROVE  LET d == MigratedDocument(c) IN
         /\ d \in WrittenDocument /\ d.version = 7 /\ d.profile = "none"
         /\ d.roster = c.roster /\ d.distribute = c.distribute
         /\ d.concentrated <=> c.concentrated \/ ConcentratesPrimaries(c)
         /\ \A l \in Lenses : d.agents[l] = MigratedAgent(c.agents[l], c.version)
<1> DEFINE agents == [l \in Lenses |-> MigratedAgent(c.agents[l], c.version)]
           all == c.concentrated \/ ConcentratesPrimaries(c)
           d == MigratedDocument(c)
<1>1. d = [c EXCEPT !.version = 7, !.agents = agents, !.concentrated = all]
  BY DEF MigratedDocument
<1>2. agents \in [Lenses -> WrittenAgent]
  <2>1. c.version \in 5..6
    BY DocumentsAre
  <2> QED
    BY <2>1, DocumentsAre, MigratedAre
<1>3. all \in BOOLEAN
  BY DocumentsAre DEF ConcentratesPrimaries
<1>4. \A l \in Lenses : agents[l] = MigratedAgent(c.agents[l], c.version)
  OBVIOUS
<1> HIDE DEF agents, all, d
<1>5. d = [version |-> 7, agents |-> agents, roster |-> c.roster, distribute |-> c.distribute,
           concentrated |-> all, profile |-> c.profile]
  BY <1>1 DEF WrittenDocument
<1>6. d \in WrittenDocument
  <2>1. c.roster \in Seq(Lenses) /\ c.distribute \in BOOLEAN /\ 7 \in 5..7
    BY DEF WrittenDocument
  <2> QED
    BY <1>2, <1>3, <1>5, <2>1, DocumentsAre DEF WrittenDocument
<1>7. /\ d.version = 7 /\ d.profile = "none" /\ d.roster = c.roster
      /\ d.distribute = c.distribute /\ d.concentrated = all /\ d.agents = agents
  BY <1>5
<1> QED
  BY <1>4, <1>6, <1>7 DEF d, all

\* The concentration of a roster is that of its lenses' runs.
LEMMA ConcentrationStays ==
  ASSUME NEW c \in WrittenDocument, c.version < 7, c.profile = "none"
  PROVE  ConcentratesPrimaries(MigratedDocument(c)) <=> ConcentratesPrimaries(c)
<1> DEFINE d == MigratedDocument(c)
<1>1. /\ d.roster = c.roster /\ d.distribute = c.distribute
      /\ \A l \in Lenses : d.agents[l].runs = c.agents[l].runs
  <2>1. c.version \in 5..6
    BY DocumentsAre
  <2> QED
    BY <2>1, MigrationIs, DocumentsAre, MigratedAre
<1> HIDE DEF d
<1>2. /\ DOMAIN c.roster = 1..Len(c.roster) /\ Len(c.roster) \in Nat
      /\ \A i \in 1..Len(c.roster) :
           d.agents[c.roster[i]].runs = c.agents[c.roster[i]].runs
  BY <1>1, DocumentsAre
<1>3. \A i \in 1..Len(c.roster) :
        Multi(d.agents[c.roster[i]]) <=> Multi(c.agents[c.roster[i]])
  BY <1>2 DEF Multi
<1>4. ASSUME NEW i \in 1..Len(c.roster) PROVE RotatableBefore(d, i) = RotatableBefore(c, i)
  <2>1. \A j \in 1..(i - 1) : j \in 1..Len(c.roster)
    BY <1>2
  <2>2. {j \in 1..(i - 1) : Multi(d.agents[c.roster[j]])} =
          {j \in 1..(i - 1) : Multi(c.agents[c.roster[j]])}
    BY <1>3, <2>1
  <2> QED
    BY <1>1, <2>2 DEF RotatableBefore
<1>5. \A i \in 1..Len(c.roster) : PrimaryIndex(d, i) = PrimaryIndex(c, i)
  BY <1>1, <1>2, <1>3, <1>4 DEF PrimaryIndex
<1>6. PrimaryGroups(d) = PrimaryGroups(c)
  BY <1>1, <1>2, <1>5 DEF PrimaryGroups
<1>7. AllGroups(d) = AllGroups(c)
  BY <1>1, <1>2 DEF AllGroups
<1> QED
  BY <1>1, <1>6, <1>7 DEF ConcentratesPrimaries, d

\* An old document that was accepted and asks of single models no more than they can
\* give is accepted after its migration.
LEMMA MigrationIsAccepted ==
  ASSUME NEW c \in WrittenDocument, c.version < 7, c.profile = "none", DocumentAccepted(c),
         \A l \in Lenses : Multi(c.agents[l]) \/ SinglePolicyAccepted(c.agents[l])
  PROVE  CurrentAccepted(MigratedDocument(c))
<1> DEFINE d == MigratedDocument(c)
<1>1. /\ d.profile = "none" /\ c.version \in 5..6
      /\ d.concentrated <=> c.concentrated \/ ConcentratesPrimaries(c)
      /\ \A l \in Lenses : d.agents[l] = MigratedAgent(c.agents[l], c.version)
      /\ ConcentratesPrimaries(d) <=> ConcentratesPrimaries(c)
  BY MigrationIs, ConcentrationStays, DocumentsAre
<1> HIDE DEF d
<1>2. ConcentrationAccepted(d)
  BY <1>1 DEF ConcentrationAccepted
<1>3. ASSUME NEW l \in Lenses
      PROVE  /\ PolicyAccepted(EffectivePolicy(d.agents[l], d.profile))
             /\ ProofAccepted(d.agents[l])
  <2> DEFINE a == c.agents[l]
  <2>1. a \in WrittenAgent
    BY DocumentsAre
  <2>2. /\ d.agents[l] = MigratedAgent(a, c.version)
        /\ EffectivePolicy(d.agents[l], d.profile) = d.agents[l]
    BY <1>1 DEF EffectivePolicy
  <2>3. c.version = 5 => V5PolicyAccepted(a)
    BY DEF DocumentAccepted
  <2>4. c.version = 6 => PolicyAccepted(a)
    BY DEF DocumentAccepted
  <2>5. Multi(a) \/ SinglePolicyAccepted(a)
    OBVIOUS
  <2> HIDE DEF a
  <2>6. PolicyAccepted(MigratedAgent(a, c.version))
    BY <1>1, <2>1, <2>3, <2>4, <2>5, MultiIsAccepted, SingleIsAccepted
  <2>7. ProofAccepted(MigratedAgent(a, c.version))
    BY <1>1, <2>1, MigratedAre DEF ProofAccepted
  <2> QED
    BY <2>2, <2>6, <2>7
<1> QED
  BY <1>2, <1>3 DEF CurrentAccepted, d

-----------------------------------------------------------------------------
(* What a roster resolves to.                                              *)

\* A lens has the runs of its agent, in turns from its primary.
LEMMA LensesAre ==
  ASSUME NEW c \in WrittenDocument, NEW i \in DOMAIN c.roster
  PROVE  LET runs == c.agents[c.roster[i]].runs
             l == ResolvedLens(c, i)
         IN /\ l.agent = c.roster[i]
            /\ l.policy = ResolvedPolicy(EffectivePolicy(c.agents[c.roster[i]], c.profile))
            /\ RunsOf(l) \in Seq(Groups) /\ Len(RunsOf(l)) = Len(runs)
            /\ RunsOf(l)[1] = runs[PrimaryIndex(c, i)]
            /\ GroupsOf(RunsOf(l)) = GroupsOf(runs)
            /\ \A x : RunsIn(RunsOf(l), x) = RunsIn(runs, x)
<1> DEFINE w == c.agents[c.roster[i]]
           a == EffectivePolicy(w, c.profile)
           runs == w.runs
           n == Len(runs)
           offset == PrimaryIndex(c, i) - 1
           l == ResolvedLens(c, i)
           reviewers == [k \in 1..n |-> ResolvedReviewer(a, ((offset + k - 1) % n) + 1)]
<1>1. w \in WrittenAgent /\ a \in WrittenAgent /\ a.runs = runs
  BY DocumentsAre, EffectivesAre
<1>2. runs \in Seq(Groups) /\ runs # <<>> /\ n \in Nat \ {0}
  BY <1>1, AgentsAre
<1>3. l = [agent |-> c.roster[i], reviewers |-> reviewers, policy |-> ResolvedPolicy(a)]
  BY <1>1 DEF ResolvedLens
<1>4. offset \in 0..(n - 1) /\ PrimaryIndex(c, i) = offset + 1
  <2>1. RotatableBefore(c, i) \in Nat
    <3>1. DOMAIN c.roster = 1..Len(c.roster) /\ Len(c.roster) \in Nat
      BY DocumentsAre
    <3>2. IsFiniteSet(1..(i - 1))
      BY <3>1, FS_Interval
    <3>3. {j \in 1..(i - 1) : Multi(c.agents[c.roster[j]])} \in SUBSET (1..(i - 1))
      OBVIOUS
    <3> QED
      BY <3>2, <3>3, FS_Subset, FS_CardinalityType DEF RotatableBefore
  <2>2. PrimaryIndex(c, i) \in 1..n
    <3>1. RotatableBefore(c, i) % n \in 0..(n - 1)
      BY <1>2, <2>1
    <3> QED
      BY <1>2, <3>1 DEF PrimaryIndex
  <2> QED
    BY <1>2, <2>2
<1>5. RunsOf(l) = TurnedRuns(runs, offset)
  <2>1. l.reviewers = reviewers /\ DOMAIN reviewers = 1..n
    BY <1>3
  <2>2. \A k \in 1..n : reviewers[k].group = runs[((offset + k - 1) % n) + 1]
    BY <1>1 DEF ResolvedReviewer
  <2> HIDE DEF reviewers, l
  <2> QED
    BY <2>1, <2>2 DEF RunsOf, TurnedRuns
<1>6. l.agent = c.roster[i] /\ l.policy = ResolvedPolicy(a)
  BY <1>3
<1> HIDE DEF l, offset, runs, n
<1>7. /\ RunsOf(l) \in Seq(Groups) /\ Len(RunsOf(l)) = Len(runs)
      /\ RunsOf(l)[1] = runs[offset + 1] /\ GroupsOf(RunsOf(l)) = GroupsOf(runs)
      /\ \A x : RunsIn(RunsOf(l), x) = RunsIn(runs, x)
  BY <1>2, <1>4, <1>5, TurnedRunsAre DEF n
<1> QED
  BY <1>4, <1>6, <1>7 DEF l, runs

LEMMA RosterIs ==
  ASSUME NEW c \in WrittenDocument
  PROVE  LET ls == ResolvedLenses(c) IN
         /\ DOMAIN ls = DOMAIN c.roster /\ Len(ls) = Len(c.roster)
         /\ \A i \in DOMAIN ls : ls[i] = ResolvedLens(c, i)
<1>1. DOMAIN c.roster = 1..Len(c.roster) /\ Len(c.roster) \in Nat
  BY DocumentsAre
<1> QED
  BY <1>1 DEF ResolvedLenses

LEMMA ConcentrationIsAcknowledged ==
  ASSUME NEW c \in WrittenDocument, ConcentrationAccepted(c),
         NEW r \in Concentration(ResolvedLenses(c), c.concentrated)
  PROVE  r.acknowledged
<1> DEFINE ls == ResolvedLenses(c)
<1>1. DOMAIN ls = DOMAIN c.roster /\ Len(ls) = Len(c.roster) /\ Len(ls) \in Nat
  BY RosterIs, DocumentsAre
<1>2. \A i \in DOMAIN c.roster :
        /\ RunsOf(ls[i])[1] = c.agents[c.roster[i]].runs[PrimaryIndex(c, i)]
        /\ GroupsOf(RunsOf(ls[i])) = GroupsOf(c.agents[c.roster[i]].runs)
  BY RosterIs, LensesAre
<1> HIDE DEF ls
<1>3. {RunsOf(ls[i])[1] : i \in DOMAIN ls} = PrimaryGroups(c)
  BY <1>1, <1>2 DEF PrimaryGroups
<1>4. UNION {GroupsOf(RunsOf(ls[i])) : i \in DOMAIN ls} = AllGroups(c)
  BY <1>1, <1>2 DEF AllGroups
<1>5. /\ Len(ls) > 1 /\ Cardinality(PrimaryGroups(c)) = 1 /\ Cardinality(AllGroups(c)) > 1
      /\ r = Risk("provider_concentration", c.concentrated, {ls[i].agent : i \in DOMAIN ls})
  BY <1>3, <1>4 DEF Concentration, ls
<1>6. ConcentratesPrimaries(c)
  BY <1>1, <1>5 DEF ConcentratesPrimaries
<1> QED
  BY <1>5, <1>6 DEF ConcentrationAccepted, Risk

LEMMA OutageIsAcknowledged ==
  ASSUME NEW c \in WrittenDocument, NEW i \in DOMAIN c.roster,
         PolicyAccepted(EffectivePolicy(c.agents[c.roster[i]], c.profile)),
         NEW r \in LensRisks(ResolvedLens(c, i)), r.code = "zero_outage_tolerance"
  PROVE  r.acknowledged
<1> DEFINE a == EffectivePolicy(c.agents[c.roster[i]], c.profile)
           l == ResolvedLens(c, i)
           q == Given(a.quorum, DefaultQuorum(a.runs))
           m == Given(a.groups, DefaultGroups(a.runs))
<1>1. a \in WrittenAgent /\ a.runs = c.agents[c.roster[i]].runs
  BY DocumentsAre, EffectivesAre
<1>2. /\ RunsOf(l) \in Seq(Groups) /\ Len(RunsOf(l)) = Len(a.runs)
      /\ GroupsOf(RunsOf(l)) = GroupsOf(a.runs)
      /\ \A x : RunsIn(RunsOf(l), x) = RunsIn(a.runs, x)
      /\ l.policy = ResolvedPolicy(a)
  BY <1>1, LensesAre
<1> HIDE DEF l
<1>3. /\ Cardinality(GroupsOf(RunsOf(l))) > 1
      /\ ProviderOutageTolerance(RunsOf(l), l.policy.quorum, l.policy.groups) = 0
      /\ r.acknowledged = l.policy.acknowledged
  BY DEF LensRisks, Risk, l
<1>4. l.policy.acknowledged = a.acknowledged
  BY <1>2 DEF ResolvedPolicy
<1> HIDE DEF a
<1>5. Multi(a)
  BY <1>1, <1>2, <1>3, AgentsAre DEF Multi
<1>6. l.policy.quorum = q /\ l.policy.groups = m
  BY <1>2, <1>5 DEF ResolvedPolicy
<1>7. q \in Nat /\ m \in Nat
  BY <1>1, <1>5, AgentsAre, DefaultsAre DEF Given
<1>8. /\ q <= Len(a.runs) /\ m <= Cardinality(GroupsOf(a.runs))
      /\ SchemaTolerates(a.runs, q, m) \/ a.acknowledged
  BY <1>2, <1>3, <1>5 DEF PolicyAccepted, MultiPolicyAccepted, a
<1> HIDE DEF q, m
<1>9. CASE SchemaTolerates(a.runs, q, m)
  <2>1. SchemaTolerates(RunsOf(l), q, m)
    BY <1>2, <1>9 DEF SchemaTolerates
  <2>2. GroupsOf(RunsOf(l)) # {}
    BY <1>1, <1>2, AgentsAre
  <2>3. ProviderOutageTolerance(RunsOf(l), q, m) # 0
    BY <1>2, <1>7, <1>8, <2>1, <2>2, OneOutageIsCounted
  <2> QED
    BY <1>3, <1>6, <2>3
<1> QED
  BY <1>3, <1>4, <1>8, <1>9

\* Every risk of an accepted document that a missing provider can bring about.
LEMMA RisksAre ==
  ASSUME NEW c \in WrittenDocument, CurrentAccepted(c),
         NEW r \in DescribeTopology(ResolvedLenses(c), c.concentrated),
         r.code \in {"provider_concentration", "zero_outage_tolerance"}
  PROVE  r.acknowledged
<1> DEFINE ls == ResolvedLenses(c)
<1>1. CASE r \in Concentration(ls, c.concentrated)
  BY <1>1, ConcentrationIsAcknowledged DEF CurrentAccepted
<1>2. CASE \E i \in DOMAIN ls : r \in LensRisks(ls[i])
  <2>1. PICK i \in DOMAIN ls : r \in LensRisks(ls[i])
    BY <1>2
  <2>2. i \in DOMAIN c.roster /\ ls[i] = ResolvedLens(c, i)
    BY <2>1, RosterIs
  <2>3. r.code \in {"zero_outage_tolerance", "single_failure_makes_quorum_unreachable"}
    BY <2>1 DEF LensRisks, Risk
  <2>4. r.code = "zero_outage_tolerance"
    BY <2>3
  <2>5. PolicyAccepted(EffectivePolicy(c.agents[c.roster[i]], c.profile))
    BY <2>2, DocumentsAre DEF CurrentAccepted
  <2> QED
    BY <2>1, <2>2, <2>4, <2>5, OutageIsAcknowledged
<1> QED
  BY <1>1, <1>2 DEF DescribeTopology

-----------------------------------------------------------------------------
(* The way of a document.                                                  *)

Form7 == IF document.version = 7 THEN document ELSE MigratedDocument(document)

PolicyInv ==
  /\ document \in WrittenDocument /\ DocumentAccepted(document)
  /\ document.version < 7 => document.profile = "none"
  /\ stage \in {"document", "current", "resolved", "routed", "described", "refused"}
  /\ stage # "document" => current = Form7
  /\ stage \in {"current", "resolved", "routed", "described"} => CurrentAccepted(current)
  /\ stage = "refused" /\ engine = "none" => ~CurrentAccepted(current)
  /\ stage \in {"resolved", "routed", "described"} => lenses = ResolvedLenses(current)
  /\ risks # {} =>
       stage = "described" /\ risks = DescribeTopology(lenses, current.concentrated)

LEMMA PolicyStarts == PolicyInit => PolicyInv
  BY PolicyAssumption DEF PolicyInit, PolicyInv

LEMMA PolicySteps == PolicyInv /\ PolicyNext => PolicyInv'
<1> SUFFICES ASSUME PolicyInv, PolicyNext PROVE PolicyInv'
  OBVIOUS
<1>1. CASE LoadsDocument
  BY <1>1 DEF LoadsDocument, PolicyInv, Form7
<1>2. CASE ResolvesRoster
  BY <1>2 DEF ResolvesRoster, PolicyInv, Form7
<1>3. CASE RoutesReviewers
  BY <1>3 DEF RoutesReviewers, RouteSdkReviewers, PolicyInv, Form7
<1>4. CASE Describes
  BY <1>4 DEF Describes, PolicyInv, Form7
<1> QED
  BY <1>1, <1>2, <1>3, <1>4 DEF PolicyNext

LEMMA CurrentIs ==
  ASSUME PolicyInv
  PROVE  Form7 \in WrittenDocument
<1>1. document.version # 7 => document.version < 7
  BY DocumentsAre DEF PolicyInv
<1> QED
  BY <1>1, MigrationIs DEF PolicyInv, Form7

LEMMA PolicyIsKept == PolicyInv => MigrationKeepsPolicy /\ RisksAreAcknowledged
<1> SUFFICES ASSUME PolicyInv PROVE MigrationKeepsPolicy /\ RisksAreAcknowledged
  OBVIOUS
<1>1. ASSUME stage = "refused", engine = "none"
      PROVE  \E l \in Lenses : ~Multi(document.agents[l])
                               /\ ~SinglePolicyAccepted(document.agents[l])
  <2>1. ~CurrentAccepted(Form7)
    BY <1>1 DEF PolicyInv
  <2>2. document.version # 7
    <3> SUFFICES ASSUME document.version = 7 PROVE FALSE
      OBVIOUS
    <3>1. DocumentAccepted(document) = CurrentAccepted(document)
      BY DEF DocumentAccepted
    <3> QED
      BY <2>1, <3>1 DEF PolicyInv, Form7
  <2>3. document.version < 7
    BY <2>2, DocumentsAre DEF PolicyInv
  <2> QED
    BY <2>1, <2>2, <2>3, MigrationIsAccepted DEF PolicyInv, Form7
<1>2. ASSUME stage = "resolved", document.version < 7, NEW i \in DOMAIN lenses,
             Multi(document.agents[lenses[i].agent])
      PROVE  LET a == document.agents[lenses[i].agent] IN
             /\ lenses[i].policy.quorum = MeantQuorum(a, document.version)
             /\ lenses[i].policy.groups = MeantGroups(a, document.version)
  <2> DEFINE c == MigratedDocument(document)
             a == document.agents[lenses[i].agent]
             n == lenses[i].agent
  <2>1. /\ document \in WrittenDocument /\ document.profile = "none"
        /\ current = c /\ lenses = ResolvedLenses(c) /\ document.version \in 5..6
    BY <1>2, DocumentsAre DEF PolicyInv, Form7
  <2>2. /\ c \in WrittenDocument /\ c.profile = "none"
        /\ \A l \in Lenses : c.agents[l] = MigratedAgent(document.agents[l], document.version)
    BY <1>2, <2>1, MigrationIs
  <2> HIDE DEF c
  <2>3. i \in DOMAIN c.roster /\ lenses[i] = ResolvedLens(c, i)
    BY <2>1, <2>2, RosterIs
  <2>4. n = c.roster[i] /\ n \in Lenses
    BY <2>2, <2>3, LensesAre, DocumentsAre
  <2>5. lenses[i].policy = ResolvedPolicy(c.agents[n])
    BY <2>2, <2>3, <2>4, LensesAre DEF EffectivePolicy
  <2>6. a \in WrittenAgent /\ Multi(a)
    BY <1>2, <2>1, <2>4, DocumentsAre
  <2> HIDE DEF a, n
  <2>7. /\ c.agents[n].quorum = MeantQuorum(a, document.version)
        /\ c.agents[n].groups = MeantGroups(a, document.version)
        /\ c.agents[n].quorum # 0 /\ c.agents[n].groups # 0
    BY <2>1, <2>2, <2>4, <2>6, MigratedAre DEF a, n
  <2>8. /\ lenses[i].policy.quorum = MeantQuorum(a, document.version)
        /\ lenses[i].policy.groups = MeantGroups(a, document.version)
    BY <2>5, <2>7 DEF ResolvedPolicy, Given
  <2> QED
    BY <2>8 DEF a
<1>3. RisksAreAcknowledged
  <2> SUFFICES ASSUME NEW r \in risks,
                      r.code \in {"provider_concentration", "zero_outage_tolerance"}
               PROVE  r.acknowledged
    BY DEF RisksAreAcknowledged
  <2>1. /\ current = Form7 /\ CurrentAccepted(current)
        /\ r \in DescribeTopology(ResolvedLenses(current), current.concentrated)
    BY DEF PolicyInv
  <2> QED
    BY <2>1, CurrentIs, RisksAre
<1> QED
  BY <1>1, <1>2, <1>3 DEF MigrationKeepsPolicy

-----------------------------------------------------------------------------
(* Both sides of the configuration.                                        *)

BothInv ==
  /\ ConfigInv
  /\ side \in {"store", "policy"}
  /\ side = "store" => stage = "document" /\ risks = {}
  /\ side = "policy" => PolicyInv

LEMMA BothStart == Init => BothInv
  BY FreshStore, PolicyStarts DEF Init, BothInv

LEMMA BothStep == BothInv /\ [Next]_<<side, vars, policyVars>> => BothInv'
<1> SUFFICES ASSUME BothInv, [Next]_<<side, vars, policyVars>> PROVE BothInv'
  OBVIOUS
<1>1. CASE side = "store" /\ ConfigNext /\ UNCHANGED <<side, policyVars>>
  BY <1>1, ConfigSteps DEF BothInv, policyVars
<1>2. CASE side = "policy" /\ PolicyNext /\ UNCHANGED <<side, vars>>
  BY <1>2, ConfigSteps, PolicySteps DEF BothInv
<1>3. CASE UNCHANGED <<side, vars, policyVars>>
  <2>1. ConfigInv'
    BY <1>3, ConfigSteps DEF BothInv
  <2>2. side = "policy" => PolicyInv'
    BY <1>3 DEF BothInv, PolicyInv, Form7, policyVars
  <2> QED
    BY <1>3, <2>1, <2>2 DEF BothInv, policyVars
<1> QED
  BY <1>1, <1>2, <1>3 DEF Next

-----------------------------------------------------------------------------
(* The theorems.                                                           *)

\* Whoever edits the configuration, only who holds the update lock compares and
\* renames, what a menu holds is what it loaded or saved last with one choice on
\* top, and an apply or a view is of the revision it names (manage.ts, tui.ts,
\* command.ts, effective.ts).
THEOREM ConfigurationInvariant == ConfigSpec => [](ConfigTypeOK /\ ConfigInv)
<1>1. ConfigInv => ConfigTypeOK
  BY StoreIsTyped
<1> QED
  BY <1>1, ConfigInvHolds, PTL

\* No save loses another session's work or publishes an edit that was refused,
\* and a reported view is of its revision unless the file was set back meanwhile.
THEOREM SavesStayFaithful == ConfigSpec => SavesAreFaithful
<1>1. ConfigInv /\ [ConfigNext]_vars =>
        [\A s \in Sessions : Renames(s) => version = base[s] \/ writer = "hand"]_vars
  BY DEF ConfigInv, LockSound, Renames
<1>2. ConfigInv /\ [ConfigNext]_vars =>
        [\A s \in Menus : Renames(s) => text' \in ChoicesOf(Loaded(seen[s]))]_vars
  BY DEF ConfigInv, MenuSound, Renames, Saving
<1>3. ConfigInv /\ [ConfigNext]_vars =>
        [\A s \in Machines : ViewEnds(s) /\ at'[s] = "reported" =>
           mem[s] = expected[s] \/ version >= base[s] + 2]_vars
  <2> SUFFICES ASSUME ConfigInv, NEW s \in Machines, ViewEnds(s), at'[s] = "reported"
               PROVE  mem[s] = expected[s] \/ version >= base[s] + 2
    OBVIOUS
  <2>1. s \in Sessions /\ base[s] \in Nat /\ version \in Nat /\ at \in [Sessions -> Steps]
    BY DEF Sessions, ConfigInv, StoreTypeOK
  <2>2. at[s] = "resolved" /\ text = expected[s]
    BY <2>1 DEF ViewEnds, EndsAs, Goes, Reports
  <2>3. \/ mem[s] = expected[s]
        \/ base[s] < version /\ (version = base[s] + 1 => text = mem[s])
    BY <2>2 DEF ConfigInv, ViewSound
  <2> QED
    BY <2>1, <2>2, <2>3
<1> QED
  BY <1>1, <1>2, <1>3, ConfigInvHolds, PTL
     DEF ConfigSpec, SavesAreFaithful, NoLostUpdate, OneChoiceAtATime, ViewIsOfItsRevision

\* Weaker coverage that is saved over the file a session knows was saved before
\* or accepted by the user for this save.
THEOREM AttestedStaysConfirmed == ConfigSpec => AttestedIsConfirmed
<1>1. ConfigInv /\ [ConfigNext]_vars =>
        [\A s \in Sessions :
           /\ Renames(s)
           /\ version = base[s]
           /\ s \in Menus => seen[s] = text
           /\ s \in Machines => pending[s]
           => Attested(text') \subseteq
                asked[s] \cup (IF text.kind = "v7" THEN Attested(text) ELSE {})]_vars
  <2> SUFFICES ASSUME ConfigInv, NEW s \in Sessions, Renames(s),
                      s \in Menus => seen[s] = text, s \in Machines => pending[s]
               PROVE  Attested(text') \subseteq
                        asked[s] \cup (IF text.kind = "v7" THEN Attested(text) ELSE {})
    OBVIOUS
  <2>1. at[s] = "checked" /\ text' = mem[s] /\ text \in Document
    BY DEF Renames, ConfigInv, StoreTypeOK
  <2>2. CASE s \in Machines
    BY <2>1, <2>2 DEF ConfigInv, ApplySound, Saving
  <2>3. CASE s \in Menus
    <3>1. /\ text.kind = "legacy" => pending[s]
          /\ before[s] = Loaded(text)
          /\ asked[s] = Derived(s)
      BY <2>1, <2>3 DEF ConfigInv, MenuSound, Saving
    <3>2. CASE pending[s]
      BY <2>1, <3>1, <3>2 DEF Derived
    <3>3. CASE ~pending[s]
      <4>1. Attested(before[s]) = IF text.kind = "v7" THEN Attested(text) ELSE {}
        BY <2>1, <3>1, <3>3, LoadingAttestsNothing
      <4> QED
        BY <2>1, <3>1, <4>1 DEF Derived
    <3> QED
      BY <3>2, <3>3
  <2> QED
    BY <2>2, <2>3 DEF Sessions
<1> QED
  BY <1>1, ConfigInvHolds, PTL DEF ConfigSpec, AttestedIsConfirmed

\* A migration loses nothing and no risk of an outage goes unacknowledged: an old
\* document becomes an accepted version 7 document with the passes and groups it
\* asked for, unless it asks one model for more than one pass, and a described
\* configuration that one absent provider can stop carries its acknowledgement
\* (manage.ts:383-570, schemas.ts, resolve.ts, topology.ts, lens-policy.ts:437).
THEOREM PolicyAlwaysSurvives == Spec => []PolicySurvives
<1>1. BothInv => PolicySurvives
  <2> SUFFICES ASSUME BothInv PROVE PolicySurvives
    OBVIOUS
  <2>1. CASE side = "store"
    BY <2>1, StoreIsTyped
      DEF BothInv, PolicySurvives, MigrationKeepsPolicy, RisksAreAcknowledged
  <2>2. CASE side = "policy"
    BY <2>2, StoreIsTyped, PolicyIsKept DEF BothInv, PolicySurvives
  <2> QED
    BY <2>1, <2>2 DEF BothInv
<1> QED
  BY <1>1, BothStart, BothStep, PTL DEF Spec
=============================================================================
