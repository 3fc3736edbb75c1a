------------------------- MODULE Conversations_proofs -------------------------
(***************************************************************************)
(* Proofs about the conversations with a provider: the session of a native *)
(* job (NativeSession), that of a paged adapter (PagedSession) and what is *)
(* kept of its pages (ResultPages), for any subset of the adapters and any *)
(* numbers of events, pages, turns, items and attempts.                    *)
(***************************************************************************)
EXTENDS MCConversations, WellFoundedInduction, TLAPS

-----------------------------------------------------------------------------
(* The session of a native job.                                            *)

Begun == {"opening", "starting", "streaming"}

\* Where a runtime cannot be up: before its launch, once the session's close has
\* waited for it, when the session is no longer listed, and when its home is gone.
RuntimeSound ==
  /\ op \in {"opening", "starting"} => runtime = "none" /\ sdk = "none"
  /\ kind # "codex" =>
       \/ runtime # "up"
       \/ closing \in {"none", "stopping"} /\ listed /\ home # "gone" /\ force # "done"

\* Why no runtime starts later: Claude's process owner is closing, and a Copilot
\* client that is closed or not listed was told by its signal.
ClosingSound ==
  /\ kind = "claude" =>
       /\ closing # "removing"
       /\ ~listed \/ op = "removing" \/ force = "done" => closing = "done"
       /\ op = "starting" /\ closing = "none" => home # "gone"
  /\ kind = "copilot" =>
       /\ op = "opening" => closing = "none" /\ ~listed
       /\ op = "starting" => signal \/ (closing = "none" /\ listed /\ home = "there")
       /\ force # "none" => signal

\* Where the consumer and the generator stand towards each other.
TurnSound ==
  /\ job = "probing" => mode = "probe"
  /\ job \in {"pulling", "recording"} => mode = "run"
  /\ job \in {"probing", "pulling"} => ~signal /\ ~returned /\ ~parked /\ ended = "open"
  /\ job = "recording" => op = "streaming" /\ parked /\ ~returned /\ ended = "open"
  /\ job \in {"leaving", "cleaning", "released"} => ended # "open"
  /\ parked => mode = "run" /\ op = "streaming"
  /\ mode = "run" /\ op \in Begun /\ ~parked /\ ~returned => job = "pulling"
  /\ op \in Begun /\ ~signal => ~stopped
  /\ kind = "codex" /\ mode = "probe" => op \in {"opening", "done"}
  /\ op = "final" => kind = "codex"
  /\ force # "none" => job \in {"cleaning", "released"}
  /\ job = "released" /\ ~late => force = "done"

\* A run that goes on after its generator has begun to end holds the result, or
\* the SDK never brought its answer to an end and cannot any more.
AnswerSound ==
  /\ mode = "probe" => terminal = "none"
  /\ terminal # "none" => op \notin Begun \cup {"final"} /\ (kind = "codex" => op = "done")
  /\ mode = "run" /\ job = "pulling" /\ op \notin Begun =>
       \/ terminal = "result" \/ sdk \in {"none", "broken"}
       \/ kind = "codex" /\ held = "result" /\ op # "done"
  /\ mode = "run" /\ ended \in {"drained", "threw"} /\ terminal # "result" =>
       op = "done" /\ sdk \in {"none", "broken"}
  /\ outcome # "open" => job \in {"cleaning", "released"}
  /\ outcome = "incomplete" /\ ended \in {"drained", "threw"} => terminal # "result"

\* The values of the flags, and of what names a phase.
Flags ==
  /\ signal \in BOOLEAN /\ late \in BOOLEAN /\ parked \in BOOLEAN /\ returned \in BOOLEAN
  /\ throws \in BOOLEAN /\ stopped \in BOOLEAN /\ listed \in BOOLEAN
Phases ==
  /\ kind \in Kinds /\ mode \in {"probe", "run"}
  /\ job \in {"probing", "pulling", "recording", "leaving", "cleaning", "released"}
  /\ terminal \in {"none", "result", "failure"}
  /\ ended \in {"open", "drained", "threw", "aborted", "unrecorded"}
  /\ outcome \in {"open", "accepted", "marred", "incomplete"}
  /\ op \in {"opening", "starting", "streaming", "stopping", "removing", "final", "done"}
  /\ held \in {"none", "result", "failure"}
  /\ closing \in {"none", "stopping", "removing", "done"}
  /\ force \in {"none", "waiting", "done"}
  /\ sdk \in {"none", "working", "answered", "ended", "broken"}
  /\ runtime \in {"none", "up", "down"}
  /\ home \in {"none", "there", "gone", "stuck"}
  /\ activity \in 0..MaxActivity

NativeInv ==
  Native!SessionTypeOK /\ RuntimeSound /\ ClosingSound /\ TurnSound /\ AnswerSound

-----------------------------------------------------------------------------
(* The session of a paged adapter.                                         *)

\* What is left to ask for, and that what was accepted has one place.
PagesSound ==
  /\ staged + handed + wasted + lost = page
  /\ step \notin {"closing", "closed"} => handed = 0 /\ lost = 0
  /\ step = "closed" /\ latched # "result" => staged = 0
  /\ step = "opening" => page = 0 /\ asked = 0 /\ repairs = 0 /\ reply = "unsent"
  /\ adapter # "command" /\ step \in {"asking", "storing"} => page < Pages
  /\ adapter = "command" /\ step = "asking" /\ latched = "none" => page < Pages
  /\ adapter = "command" => asked <= page + 1 /\ asked <= Pages
  /\ adapter = "command" => step \notin {"storing", "assembling"}

\* Every request is paid for by a page, a repair, a coverage turn or the leaving of
\* the sandbox, but for the one that is open.
Turns(n) == n * (PageRepairs + 1)

Paid ==
  Turns(page) + repairs + coverage
    + (IF boxed THEN 0 ELSE 1) + (IF reply = "unsent" THEN 0 ELSE 1)

RequestsSound ==
  adapter # "command" =>
    /\ asked <= Paid
    /\ page = Pages => repairs = 0 /\ reply = "unsent"

\* What is handed over went with a result, and what is lost with one that nobody
\* waited for any more.
GivenSound ==
  /\ handed > 0 => answer = "result"
  /\ lost > 0 => leaving /\ page = Pages
  /\ leaving => aborted
  /\ step = "assembling" => page = Pages
  /\ ~paged => page = 0 /\ step \notin {"storing", "assembling"}

\* The sandbox is left for good, and only where the policy allows it.
SandboxSound ==
  /\ policy = "enforced" => adapter \in {"command", "claude"} /\ boxed
  /\ boxed \/ adapter # "claude" => ~unboxed
  /\ step \notin {"closing", "closed"} => answer = "none" /\ isolation = "none"
  /\ isolation = "enforced" => ~unboxed
  /\ answer = "result" /\ policy = "enforced" => isolation = "enforced"

PagedFlags ==
  /\ paged \in BOOLEAN /\ waiting \in BOOLEAN /\ leaving \in BOOLEAN /\ aborted \in BOOLEAN
  /\ gone \in BOOLEAN /\ forced \in BOOLEAN /\ boxed \in BOOLEAN /\ unboxed \in BOOLEAN
  /\ covered \in BOOLEAN /\ broken \in BOOLEAN
PagedPhases ==
  /\ adapter \in Adapters /\ policy \in {"prefer", "enforced"}
  /\ step \in {"opening", "asking", "storing", "assembling", "settling",
               "cancelling", "closing", "closed", "crashed"}
  /\ process \in {"none", "up", "down"}
  /\ code \in {"none", "zero", "other"} /\ claim \in {"none", "prompt", "enforced"}
  /\ reply \in Paged!Replies \cup {"unsent", "none", "unboxable", "result", "noise", "ended"}
  /\ latched \in {"none", "result", "failure"}
  /\ answer \in {"none", "result", "failure"}
  /\ isolation \in {"none", "prompt", "readonly", "enforced"}
PagedCounts ==
  /\ asked \in Nat /\ events \in 0..MaxEvents /\ page \in 0..Pages
  /\ staged \in 0..Pages /\ handed \in 0..Pages
  /\ lost \in 0..Pages /\ wasted \in Nat
  /\ repairs \in 0..PageRepairs /\ coverage \in 0..CoverageTurns

PagedInv ==
  Paged!PagedTypeOK /\ PagesSound /\ RequestsSound /\ GivenSound /\ SandboxSound

-----------------------------------------------------------------------------
(* The pages of a result.                                                  *)

KeptFields == {"count", "fail", "ids", "items", "fragments", "entries"}
CollectorFields == {"header", "pages", "fragments", "entries", "phase", "items"}

\* What is kept is never two contents under one id, and only of the candidates.
KeptSound(k) ==
  /\ DOMAIN k = KeptFields
  /\ k.items \subseteq Results!Item
  /\ \A x, y \in k.items : x.id = y.id => x = y
  /\ resultKind = "reviewer" => \A x \in k.items : x.id \in k.ids
  /\ resultKind = "adjudication" => \A x \in k.items : x.id \in Results!Range(Candidates)

\* What is accepted is kept, and so is what was returned on pages that
\* contradicted nothing.
AcceptedSound ==
  /\ DOMAIN accepted = CollectorFields
  /\ accepted.pages \in Nat /\ accepted.items \in Seq(Results!Item)
  /\ \A i \in DOMAIN accepted.items : accepted.items[i] \in kept.items
  /\ history \subseteq kept.items

\* A delivered result lacks nothing that is kept.
DeliveredSound ==
  verdict = "delivered" =>
    /\ resultKind = "reviewer" =>
         /\ kept.ids \subseteq Results!IdsOf(accepted.items)
         /\ accepted.header.verdict = "fail" <=> accepted.items # <<>>
    /\ resultKind = "adjudication" => Results!IdSeq(accepted.items) = Candidates

ResultInv ==
  /\ resultKind \in {"reviewer", "adjudication"}
  /\ KeptSound(kept) /\ AcceptedSound /\ DeliveredSound

ConversationsInv == NativeInv /\ PagedInv /\ ResultInv

-----------------------------------------------------------------------------
(* A native job: every step.                                               *)

LEMMA NativeTypesAre == Native!SessionTypeOK <=> Flags /\ Phases
BY DEF Native!SessionTypeOK, Flags, Phases

LEMMA NativeStarts == Native!Init => NativeInv
<1> SUFFICES ASSUME Native!Init PROVE NativeInv
  OBVIOUS
<1>1. Phases
  BY ConversationsAssumption DEF Native!Init, Phases
<1>2. Flags
  BY DEF Native!Init, Flags
<1>3. Native!SessionTypeOK
  BY <1>1, <1>2, NativeTypesAre
<1>4. RuntimeSound /\ TurnSound /\ AnswerSound
  BY DEF Native!Init, RuntimeSound, TurnSound, AnswerSound, Begun
<1>5. ClosingSound
  BY DEF Native!Init, ClosingSound
<1>6. QED
  BY <1>3, <1>4, <1>5 DEF NativeInv

LEMMA NativeTypesStay ==
  ASSUME Flags, Phases, Native!Next
  PROVE  Flags' /\ Phases'
<1> USE DEF Flags, Phases, Native!consumer, Native!generator, Native!session, Native!outside
<1>1. CASE Native!CodexProbe
  <2>1. Phases'
    BY <1>1 DEF Native!CodexProbe
  <2>2. Flags'
    BY <1>1 DEF Native!CodexProbe
  <2>3. QED
    BY <2>1, <2>2
<1>2. CASE Native!ClaudeOpens
  <2>1. Phases'
    BY <1>2 DEF Native!ClaudeOpens
  <2>2. Flags'
    BY <1>2 DEF Native!ClaudeOpens
  <2>3. QED
    BY <2>1, <2>2
<1>3. CASE Native!CodexOpens
  <2>1. Phases'
    BY <1>3 DEF Native!CodexOpens
  <2>2. Flags'
    BY <1>3 DEF Native!CodexOpens
  <2>3. QED
    BY <2>1, <2>2
<1>4. CASE Native!CopilotOpens
  <2>1. Phases'
    BY <1>4 DEF Native!CopilotOpens, Native!Conclude, Native!Finally, Native!Open
  <2>2. Flags'
    BY <1>4 DEF Native!CopilotOpens, Native!Conclude, Native!Finally, Native!Open
  <2>3. QED
    BY <2>1, <2>2
<1>5. CASE Native!OpenFails
  <2>1. Phases'
    BY <1>5 DEF Native!OpenFails, Native!Conclude, Native!Finally, Native!Open
  <2>2. Flags'
    BY <1>5 DEF Native!OpenFails, Native!Conclude, Native!Finally, Native!Open
  <2>3. QED
    BY <2>1, <2>2
<1>6. CASE Native!ClaudeLaunches
  <2>1. Phases'
    BY <1>6 DEF Native!ClaudeLaunches, Native!Starts, Native!MayLaunch
  <2>2. Flags'
    BY <1>6 DEF Native!ClaudeLaunches, Native!Starts, Native!MayLaunch
  <2>3. QED
    BY <2>1, <2>2
<1>7. CASE Native!CodexLaunches
  <2>1. Phases'
    BY <1>7 DEF Native!CodexLaunches, Native!Starts, Native!MayLaunch
  <2>2. Flags'
    BY <1>7 DEF Native!CodexLaunches, Native!Starts, Native!MayLaunch
  <2>3. QED
    BY <2>1, <2>2
<1>8. CASE Native!CopilotLaunches
  <2>1. Phases'
    BY <1>8 DEF Native!CopilotLaunches, Native!Starts, Native!MayLaunch
  <2>2. Flags'
    BY <1>8 DEF Native!CopilotLaunches, Native!Starts, Native!MayLaunch
  <2>3. QED
    BY <2>1, <2>2
<1>9. CASE Native!LaunchFails
  <2>1. Phases'
    BY <1>9 DEF Native!LaunchFails, Native!Conclude, Native!Finally, Native!Open
  <2>2. Flags'
    BY <1>9 DEF Native!LaunchFails, Native!Conclude, Native!Finally, Native!Open
  <2>3. QED
    BY <2>1, <2>2
<1>10. CASE Native!ClaudeProbeAnswers
  <2>1. Phases'
    BY <1>10
      DEF Native!ClaudeProbeAnswers, Native!Answers, Native!Conclude, Native!Finally,
          Native!Open
  <2>2. Flags'
    BY <1>10
      DEF Native!ClaudeProbeAnswers, Native!Answers, Native!Conclude, Native!Finally,
          Native!Open
  <2>3. QED
    BY <2>1, <2>2
<1>11. CASE Native!CopilotProbeAnswers
  <2>1. Phases'
    BY <1>11
      DEF Native!CopilotProbeAnswers, Native!Answers, Native!Conclude, Native!Finally,
          Native!Open
  <2>2. Flags'
    BY <1>11
      DEF Native!CopilotProbeAnswers, Native!Answers, Native!Conclude, Native!Finally,
          Native!Open
  <2>3. QED
    BY <2>1, <2>2
<1>12. CASE Native!ClaudeReads
  <2>1. Phases'
    BY <1>12
      DEF Native!ClaudeReads, Native!Streaming, Native!Conclude, Native!Finally, Native!Open
  <2>2. Flags'
    BY <1>12
      DEF Native!ClaudeReads, Native!Streaming, Native!Conclude, Native!Finally, Native!Open
  <2>3. QED
    BY <2>1, <2>2
<1>13. CASE Native!CodexCompletes
  <2>1. Phases'
    BY <1>13
      DEF Native!CodexCompletes, Native!Streaming, Native!Conclude, Native!Finally, Native!Open
  <2>2. Flags'
    BY <1>13
      DEF Native!CodexCompletes, Native!Streaming, Native!Conclude, Native!Finally, Native!Open
  <2>3. QED
    BY <2>1, <2>2
<1>14. CASE Native!CodexReads
  <2>1. Phases'
    BY <1>14
      DEF Native!CodexReads, Native!Streaming, Native!Conclude, Native!Finally, Native!Open
  <2>2. Flags'
    BY <1>14
      DEF Native!CodexReads, Native!Streaming, Native!Conclude, Native!Finally, Native!Open
  <2>3. QED
    BY <2>1, <2>2
<1>15. CASE Native!CopilotReads
  <2>1. Phases'
    BY <1>15
      DEF Native!CopilotReads, Native!Streaming, Native!Conclude, Native!Finally, Native!Open
  <2>2. Flags'
    BY <1>15
      DEF Native!CopilotReads, Native!Streaming, Native!Conclude, Native!Finally, Native!Open
  <2>3. QED
    BY <2>1, <2>2
<1>16. CASE Native!Active
  <2>1. Phases'
    BY <1>16, ConversationsAssumption
      DEF Native!Active, Native!Streaming, Native!Finally, Native!Open
  <2>2. Flags'
    BY <1>16 DEF Native!Active, Native!Streaming, Native!Finally, Native!Open
  <2>3. QED
    BY <2>1, <2>2
<1>17. CASE Native!ClaudeClosed
  <2>1. Phases'
    BY <1>17 DEF Native!ClaudeClosed
  <2>2. Flags'
    BY <1>17 DEF Native!ClaudeClosed
  <2>3. QED
    BY <2>1, <2>2
<1>18. CASE Native!ClaudeRemoves
  <2>1. Phases'
    BY <1>18 DEF Native!ClaudeRemoves
  <2>2. Flags'
    BY <1>18 DEF Native!ClaudeRemoves
  <2>3. QED
    BY <2>1, <2>2
<1>19. CASE Native!CopilotDisconnects
  <2>1. Phases'
    BY <1>19 DEF Native!CopilotDisconnects, Native!Open
  <2>2. Flags'
    BY <1>19 DEF Native!CopilotDisconnects, Native!Open
  <2>3. QED
    BY <2>1, <2>2
<1>20. CASE Native!CopilotClosed
  <2>1. Phases'
    BY <1>20 DEF Native!CopilotClosed
  <2>2. Flags'
    BY <1>20 DEF Native!CopilotClosed
  <2>3. QED
    BY <2>1, <2>2
<1>21. CASE Native!CodexRemoves
  <2>1. Phases'
    BY <1>21 DEF Native!CodexRemoves
  <2>2. Flags'
    BY <1>21 DEF Native!CodexRemoves
  <2>3. QED
    BY <2>1, <2>2
<1>22. CASE Native!CodexYields
  <2>1. Phases'
    BY <1>22 DEF Native!CodexYields
  <2>2. Flags'
    BY <1>22 DEF Native!CodexYields
  <2>3. QED
    BY <2>1, <2>2
<1>23. CASE Native!CloseAdvances
  <2>1. Phases'
    BY <1>23 DEF Native!CloseAdvances, Native!Closes
  <2>2. Flags'
    BY <1>23 DEF Native!CloseAdvances, Native!Closes
  <2>3. QED
    BY <2>1, <2>2
<1>24. CASE Native!ProbeEnds
  <2>1. Phases'
    BY <1>24 DEF Native!ProbeEnds
  <2>2. Flags'
    BY <1>24 DEF Native!ProbeEnds
  <2>3. QED
    BY <2>1, <2>2
<1>25. CASE Native!Recorded
  <2>1. Phases'
    BY <1>25 DEF Native!Recorded
  <2>2. Flags'
    BY <1>25 DEF Native!Recorded
  <2>3. QED
    BY <2>1, <2>2
<1>26. CASE Native!RecordFails
  <2>1. Phases'
    BY <1>26 DEF Native!RecordFails, Native!Finally, Native!Open
  <2>2. Flags'
    BY <1>26 DEF Native!RecordFails, Native!Finally, Native!Open
  <2>3. QED
    BY <2>1, <2>2
<1>27. CASE Native!Drained
  <2>1. Phases'
    BY <1>27 DEF Native!Drained
  <2>2. Flags'
    BY <1>27 DEF Native!Drained
  <2>3. QED
    BY <2>1, <2>2
<1>28. CASE Native!Leave
  <2>1. Phases'
    BY <1>28 DEF Native!Leave, Native!Disposition, Native!Heard, Native!Open
  <2>2. Flags'
    BY <1>28 DEF Native!Leave, Native!Disposition, Native!Heard, Native!Open
  <2>3. QED
    BY <2>1, <2>2
<1>29. CASE Native!ClosedByForce
  <2>1. Phases'
    BY <1>29 DEF Native!ClosedByForce
  <2>2. Flags'
    BY <1>29 DEF Native!ClosedByForce
  <2>3. QED
    BY <2>1, <2>2
<1>30. CASE Native!CodexForceReturns
  <2>1. Phases'
    BY <1>30 DEF Native!CodexForceReturns
  <2>2. Flags'
    BY <1>30 DEF Native!CodexForceReturns
  <2>3. QED
    BY <2>1, <2>2
<1>31. CASE Native!Release
  <2>1. Phases'
    BY <1>31 DEF Native!Release
  <2>2. Flags'
    BY <1>31 DEF Native!Release
  <2>3. QED
    BY <2>1, <2>2
<1>32. CASE Native!Abort
  <2>1. Phases'
    BY <1>32 DEF Native!Abort, Native!Listeners, Native!Heard, Native!Open
  <2>2. Flags'
    BY <1>32 DEF Native!Abort, Native!Listeners, Native!Heard, Native!Open
  <2>3. QED
    BY <2>1, <2>2
<1>33. CASE Native!RuntimeExits
  <2>1. Phases'
    BY <1>33 DEF Native!RuntimeExits, Native!Exits
  <2>2. Flags'
    BY <1>33 DEF Native!RuntimeExits, Native!Exits
  <2>3. QED
    BY <2>1, <2>2
<1>34. CASE Native!RuntimeCrashes
  <2>1. Phases'
    BY <1>34 DEF Native!RuntimeCrashes, Native!Exits
  <2>2. Flags'
    BY <1>34 DEF Native!RuntimeCrashes, Native!Exits
  <2>3. QED
    BY <2>1, <2>2
<1>35. CASE Native!SdkAnswers
  <2>1. Phases'
    BY <1>35 DEF Native!SdkAnswers, Native!Said
  <2>2. Flags'
    BY <1>35 DEF Native!SdkAnswers, Native!Said
  <2>3. QED
    BY <2>1, <2>2
<1>36. CASE Native!SdkEnds
  <2>1. Phases'
    BY <1>36 DEF Native!SdkEnds, Native!Said
  <2>2. Flags'
    BY <1>36 DEF Native!SdkEnds, Native!Said
  <2>3. QED
    BY <2>1, <2>2
<1>37. CASE Native!SdkFails
  <2>1. Phases'
    BY <1>37 DEF Native!SdkFails, Native!Said
  <2>2. Flags'
    BY <1>37 DEF Native!SdkFails, Native!Said
  <2>3. QED
    BY <2>1, <2>2
<1>38. QED
  BY <1>1, <1>2, <1>3, <1>4, <1>5, <1>6, <1>7, <1>8, <1>9, <1>10, <1>11, <1>12, <1>13, <1>14,
     <1>15, <1>16, <1>17, <1>18, <1>19, <1>20, <1>21, <1>22, <1>23, <1>24, <1>25, <1>26,
     <1>27, <1>28, <1>29, <1>30, <1>31, <1>32, <1>33, <1>34, <1>35, <1>36, <1>37
  DEF Native!Next, Native!Operation, Native!Cleanup, Native!Consumer, Native!Outside

LEMMA RuntimeStays ==
  ASSUME NativeInv, Native!Next
  PROVE  RuntimeSound'
<1> USE DEF NativeInv, Native!SessionTypeOK, RuntimeSound, ClosingSound, TurnSound,
        AnswerSound,
            Begun, Native!consumer, Native!generator, Native!session, Native!outside
<1>1. CASE Native!CodexProbe
  BY <1>1 DEF Native!CodexProbe
<1>2. CASE Native!ClaudeOpens
  BY <1>2 DEF Native!ClaudeOpens
<1>3. CASE Native!CodexOpens
  BY <1>3 DEF Native!CodexOpens
<1>4. CASE Native!CopilotOpens
  BY <1>4 DEF Native!CopilotOpens, Native!Conclude, Native!Finally, Native!Open
<1>5. CASE Native!OpenFails
  BY <1>5 DEF Native!OpenFails, Native!Conclude, Native!Finally, Native!Open
<1>6. CASE Native!ClaudeLaunches
  BY <1>6 DEF Native!ClaudeLaunches, Native!Starts, Native!MayLaunch
<1>7. CASE Native!CodexLaunches
  BY <1>7 DEF Native!CodexLaunches, Native!Starts, Native!MayLaunch
<1>8. CASE Native!CopilotLaunches
  BY <1>8 DEF Native!CopilotLaunches, Native!Starts, Native!MayLaunch
<1>9. CASE Native!LaunchFails
  BY <1>9 DEF Native!LaunchFails, Native!Conclude, Native!Finally, Native!Open
<1>10. CASE Native!ClaudeProbeAnswers
  BY <1>10
    DEF Native!ClaudeProbeAnswers, Native!Answers, Native!Conclude, Native!Finally, Native!Open
<1>11. CASE Native!CopilotProbeAnswers
  BY <1>11
    DEF Native!CopilotProbeAnswers, Native!Answers, Native!Conclude, Native!Finally,
        Native!Open
<1>12. CASE Native!ClaudeReads
  BY <1>12
    DEF Native!ClaudeReads, Native!Streaming, Native!Conclude, Native!Finally, Native!Open
<1>13. CASE Native!CodexCompletes
  BY <1>13
    DEF Native!CodexCompletes, Native!Streaming, Native!Conclude, Native!Finally, Native!Open
<1>14. CASE Native!CodexReads
  BY <1>14
    DEF Native!CodexReads, Native!Streaming, Native!Conclude, Native!Finally, Native!Open
<1>15. CASE Native!CopilotReads
  BY <1>15
    DEF Native!CopilotReads, Native!Streaming, Native!Conclude, Native!Finally, Native!Open
<1>16. CASE Native!Active
  BY <1>16 DEF Native!Active, Native!Streaming, Native!Finally, Native!Open
<1>17. CASE Native!ClaudeClosed
  BY <1>17 DEF Native!ClaudeClosed
<1>18. CASE Native!ClaudeRemoves
  BY <1>18 DEF Native!ClaudeRemoves
<1>19. CASE Native!CopilotDisconnects
  BY <1>19 DEF Native!CopilotDisconnects, Native!Open
<1>20. CASE Native!CopilotClosed
  BY <1>20 DEF Native!CopilotClosed
<1>21. CASE Native!CodexRemoves
  BY <1>21 DEF Native!CodexRemoves
<1>22. CASE Native!CodexYields
  BY <1>22 DEF Native!CodexYields
<1>23. CASE Native!CloseAdvances
  BY <1>23 DEF Native!CloseAdvances, Native!Closes
<1>24. CASE Native!ProbeEnds
  BY <1>24 DEF Native!ProbeEnds
<1>25. CASE Native!Recorded
  BY <1>25 DEF Native!Recorded
<1>26. CASE Native!RecordFails
  BY <1>26 DEF Native!RecordFails, Native!Finally, Native!Open
<1>27. CASE Native!Drained
  BY <1>27 DEF Native!Drained
<1>28. CASE Native!Leave
  BY <1>28 DEF Native!Leave, Native!Disposition, Native!Heard, Native!Open
<1>29. CASE Native!ClosedByForce
  BY <1>29 DEF Native!ClosedByForce
<1>30. CASE Native!CodexForceReturns
  BY <1>30 DEF Native!CodexForceReturns
<1>31. CASE Native!Release
  BY <1>31 DEF Native!Release
<1>32. CASE Native!Abort
  BY <1>32 DEF Native!Abort, Native!Listeners, Native!Heard, Native!Open
<1>33. CASE Native!RuntimeExits
  BY <1>33 DEF Native!RuntimeExits, Native!Exits
<1>34. CASE Native!RuntimeCrashes
  BY <1>34 DEF Native!RuntimeCrashes, Native!Exits
<1>35. CASE Native!SdkAnswers
  BY <1>35 DEF Native!SdkAnswers, Native!Said
<1>36. CASE Native!SdkEnds
  BY <1>36 DEF Native!SdkEnds, Native!Said
<1>37. CASE Native!SdkFails
  BY <1>37 DEF Native!SdkFails, Native!Said
<1>38. QED
  BY <1>1, <1>2, <1>3, <1>4, <1>5, <1>6, <1>7, <1>8, <1>9, <1>10, <1>11, <1>12, <1>13, <1>14,
     <1>15, <1>16, <1>17, <1>18, <1>19, <1>20, <1>21, <1>22, <1>23, <1>24, <1>25, <1>26,
     <1>27, <1>28, <1>29, <1>30, <1>31, <1>32, <1>33, <1>34, <1>35, <1>36, <1>37
  DEF Native!Next, Native!Operation, Native!Cleanup, Native!Consumer, Native!Outside

LEMMA ClosingStays ==
  ASSUME NativeInv, Native!Next
  PROVE  ClosingSound'
<1> USE DEF NativeInv, Native!SessionTypeOK, RuntimeSound, ClosingSound, TurnSound,
        AnswerSound,
            Begun, Native!consumer, Native!generator, Native!session, Native!outside
<1>1. CASE Native!CodexProbe
  BY <1>1 DEF Native!CodexProbe
<1>2. CASE Native!ClaudeOpens
  BY <1>2 DEF Native!ClaudeOpens
<1>3. CASE Native!CodexOpens
  BY <1>3 DEF Native!CodexOpens
<1>4. CASE Native!CopilotOpens
  BY <1>4 DEF Native!CopilotOpens, Native!Conclude, Native!Finally, Native!Open
<1>5. CASE Native!OpenFails
  BY <1>5 DEF Native!OpenFails, Native!Conclude, Native!Finally, Native!Open
<1>6. CASE Native!ClaudeLaunches
  BY <1>6 DEF Native!ClaudeLaunches, Native!Starts, Native!MayLaunch
<1>7. CASE Native!CodexLaunches
  BY <1>7 DEF Native!CodexLaunches, Native!Starts, Native!MayLaunch
<1>8. CASE Native!CopilotLaunches
  BY <1>8 DEF Native!CopilotLaunches, Native!Starts, Native!MayLaunch
<1>9. CASE Native!LaunchFails
  BY <1>9 DEF Native!LaunchFails, Native!Conclude, Native!Finally, Native!Open
<1>10. CASE Native!ClaudeProbeAnswers
  BY <1>10
    DEF Native!ClaudeProbeAnswers, Native!Answers, Native!Conclude, Native!Finally, Native!Open
<1>11. CASE Native!CopilotProbeAnswers
  BY <1>11
    DEF Native!CopilotProbeAnswers, Native!Answers, Native!Conclude, Native!Finally,
        Native!Open
<1>12. CASE Native!ClaudeReads
  BY <1>12
    DEF Native!ClaudeReads, Native!Streaming, Native!Conclude, Native!Finally, Native!Open
<1>13. CASE Native!CodexCompletes
  BY <1>13
    DEF Native!CodexCompletes, Native!Streaming, Native!Conclude, Native!Finally, Native!Open
<1>14. CASE Native!CodexReads
  BY <1>14
    DEF Native!CodexReads, Native!Streaming, Native!Conclude, Native!Finally, Native!Open
<1>15. CASE Native!CopilotReads
  BY <1>15
    DEF Native!CopilotReads, Native!Streaming, Native!Conclude, Native!Finally, Native!Open
<1>16. CASE Native!Active
  BY <1>16 DEF Native!Active, Native!Streaming, Native!Finally, Native!Open
<1>17. CASE Native!ClaudeClosed
  BY <1>17 DEF Native!ClaudeClosed
<1>18. CASE Native!ClaudeRemoves
  BY <1>18 DEF Native!ClaudeRemoves
<1>19. CASE Native!CopilotDisconnects
  BY <1>19 DEF Native!CopilotDisconnects, Native!Open
<1>20. CASE Native!CopilotClosed
  BY <1>20 DEF Native!CopilotClosed
<1>21. CASE Native!CodexRemoves
  BY <1>21 DEF Native!CodexRemoves
<1>22. CASE Native!CodexYields
  BY <1>22 DEF Native!CodexYields
<1>23. CASE Native!CloseAdvances
  BY <1>23 DEF Native!CloseAdvances, Native!Closes
<1>24. CASE Native!ProbeEnds
  BY <1>24 DEF Native!ProbeEnds
<1>25. CASE Native!Recorded
  BY <1>25 DEF Native!Recorded
<1>26. CASE Native!RecordFails
  BY <1>26 DEF Native!RecordFails, Native!Finally, Native!Open
<1>27. CASE Native!Drained
  BY <1>27 DEF Native!Drained
<1>28. CASE Native!Leave
  BY <1>28 DEF Native!Leave, Native!Disposition, Native!Heard, Native!Open
<1>29. CASE Native!ClosedByForce
  BY <1>29 DEF Native!ClosedByForce
<1>30. CASE Native!CodexForceReturns
  BY <1>30 DEF Native!CodexForceReturns
<1>31. CASE Native!Release
  BY <1>31 DEF Native!Release
<1>32. CASE Native!Abort
  BY <1>32 DEF Native!Abort, Native!Listeners, Native!Heard, Native!Open
<1>33. CASE Native!RuntimeExits
  BY <1>33 DEF Native!RuntimeExits, Native!Exits
<1>34. CASE Native!RuntimeCrashes
  BY <1>34 DEF Native!RuntimeCrashes, Native!Exits
<1>35. CASE Native!SdkAnswers
  BY <1>35 DEF Native!SdkAnswers, Native!Said
<1>36. CASE Native!SdkEnds
  BY <1>36 DEF Native!SdkEnds, Native!Said
<1>37. CASE Native!SdkFails
  BY <1>37 DEF Native!SdkFails, Native!Said
<1>38. QED
  BY <1>1, <1>2, <1>3, <1>4, <1>5, <1>6, <1>7, <1>8, <1>9, <1>10, <1>11, <1>12, <1>13, <1>14,
     <1>15, <1>16, <1>17, <1>18, <1>19, <1>20, <1>21, <1>22, <1>23, <1>24, <1>25, <1>26,
     <1>27, <1>28, <1>29, <1>30, <1>31, <1>32, <1>33, <1>34, <1>35, <1>36, <1>37
  DEF Native!Next, Native!Operation, Native!Cleanup, Native!Consumer, Native!Outside

LEMMA TurnStays ==
  ASSUME NativeInv, Native!Next
  PROVE  TurnSound'
<1> USE DEF NativeInv, Native!SessionTypeOK, RuntimeSound, ClosingSound, TurnSound,
        AnswerSound,
            Begun, Native!consumer, Native!generator, Native!session, Native!outside
<1>1. CASE Native!CodexProbe
  BY <1>1 DEF Native!CodexProbe
<1>2. CASE Native!ClaudeOpens
  BY <1>2 DEF Native!ClaudeOpens
<1>3. CASE Native!CodexOpens
  BY <1>3 DEF Native!CodexOpens
<1>4. CASE Native!CopilotOpens
  BY <1>4 DEF Native!CopilotOpens, Native!Conclude, Native!Finally, Native!Open
<1>5. CASE Native!OpenFails
  BY <1>5 DEF Native!OpenFails, Native!Conclude, Native!Finally, Native!Open
<1>6. CASE Native!ClaudeLaunches
  BY <1>6 DEF Native!ClaudeLaunches, Native!Starts, Native!MayLaunch
<1>7. CASE Native!CodexLaunches
  BY <1>7 DEF Native!CodexLaunches, Native!Starts, Native!MayLaunch
<1>8. CASE Native!CopilotLaunches
  BY <1>8 DEF Native!CopilotLaunches, Native!Starts, Native!MayLaunch
<1>9. CASE Native!LaunchFails
  BY <1>9 DEF Native!LaunchFails, Native!Conclude, Native!Finally, Native!Open
<1>10. CASE Native!ClaudeProbeAnswers
  BY <1>10
    DEF Native!ClaudeProbeAnswers, Native!Answers, Native!Conclude, Native!Finally, Native!Open
<1>11. CASE Native!CopilotProbeAnswers
  BY <1>11
    DEF Native!CopilotProbeAnswers, Native!Answers, Native!Conclude, Native!Finally,
        Native!Open
<1>12. CASE Native!ClaudeReads
  BY <1>12
    DEF Native!ClaudeReads, Native!Streaming, Native!Conclude, Native!Finally, Native!Open
<1>13. CASE Native!CodexCompletes
  BY <1>13
    DEF Native!CodexCompletes, Native!Streaming, Native!Conclude, Native!Finally, Native!Open
<1>14. CASE Native!CodexReads
  BY <1>14
    DEF Native!CodexReads, Native!Streaming, Native!Conclude, Native!Finally, Native!Open
<1>15. CASE Native!CopilotReads
  BY <1>15
    DEF Native!CopilotReads, Native!Streaming, Native!Conclude, Native!Finally, Native!Open
<1>16. CASE Native!Active
  BY <1>16 DEF Native!Active, Native!Streaming, Native!Finally, Native!Open
<1>17. CASE Native!ClaudeClosed
  BY <1>17 DEF Native!ClaudeClosed
<1>18. CASE Native!ClaudeRemoves
  BY <1>18 DEF Native!ClaudeRemoves
<1>19. CASE Native!CopilotDisconnects
  BY <1>19 DEF Native!CopilotDisconnects, Native!Open
<1>20. CASE Native!CopilotClosed
  BY <1>20 DEF Native!CopilotClosed
<1>21. CASE Native!CodexRemoves
  BY <1>21 DEF Native!CodexRemoves
<1>22. CASE Native!CodexYields
  BY <1>22 DEF Native!CodexYields
<1>23. CASE Native!CloseAdvances
  BY <1>23 DEF Native!CloseAdvances, Native!Closes
<1>24. CASE Native!ProbeEnds
  BY <1>24 DEF Native!ProbeEnds
<1>25. CASE Native!Recorded
  BY <1>25 DEF Native!Recorded
<1>26. CASE Native!RecordFails
  BY <1>26 DEF Native!RecordFails, Native!Finally, Native!Open
<1>27. CASE Native!Drained
  BY <1>27 DEF Native!Drained
<1>28. CASE Native!Leave
  BY <1>28 DEF Native!Leave, Native!Disposition, Native!Heard, Native!Open
<1>29. CASE Native!ClosedByForce
  BY <1>29 DEF Native!ClosedByForce
<1>30. CASE Native!CodexForceReturns
  BY <1>30 DEF Native!CodexForceReturns
<1>31. CASE Native!Release
  BY <1>31 DEF Native!Release
<1>32. CASE Native!Abort
  BY <1>32 DEF Native!Abort, Native!Listeners, Native!Heard, Native!Open
<1>33. CASE Native!RuntimeExits
  BY <1>33 DEF Native!RuntimeExits, Native!Exits
<1>34. CASE Native!RuntimeCrashes
  BY <1>34 DEF Native!RuntimeCrashes, Native!Exits
<1>35. CASE Native!SdkAnswers
  BY <1>35 DEF Native!SdkAnswers, Native!Said
<1>36. CASE Native!SdkEnds
  BY <1>36 DEF Native!SdkEnds, Native!Said
<1>37. CASE Native!SdkFails
  BY <1>37 DEF Native!SdkFails, Native!Said
<1>38. QED
  BY <1>1, <1>2, <1>3, <1>4, <1>5, <1>6, <1>7, <1>8, <1>9, <1>10, <1>11, <1>12, <1>13, <1>14,
     <1>15, <1>16, <1>17, <1>18, <1>19, <1>20, <1>21, <1>22, <1>23, <1>24, <1>25, <1>26,
     <1>27, <1>28, <1>29, <1>30, <1>31, <1>32, <1>33, <1>34, <1>35, <1>36, <1>37
  DEF Native!Next, Native!Operation, Native!Cleanup, Native!Consumer, Native!Outside

LEMMA AnswerStays ==
  ASSUME NativeInv, Native!Next
  PROVE  AnswerSound'
<1> USE DEF NativeInv, Native!SessionTypeOK, RuntimeSound, ClosingSound, TurnSound,
        AnswerSound,
            Begun, Native!consumer, Native!generator, Native!session, Native!outside
<1>1. CASE Native!CodexProbe
  BY <1>1 DEF Native!CodexProbe
<1>2. CASE Native!ClaudeOpens
  BY <1>2 DEF Native!ClaudeOpens
<1>3. CASE Native!CodexOpens
  BY <1>3 DEF Native!CodexOpens
<1>4. CASE Native!CopilotOpens
  BY <1>4 DEF Native!CopilotOpens, Native!Conclude, Native!Finally, Native!Open
<1>5. CASE Native!OpenFails
  BY <1>5 DEF Native!OpenFails, Native!Conclude, Native!Finally, Native!Open
<1>6. CASE Native!ClaudeLaunches
  BY <1>6 DEF Native!ClaudeLaunches, Native!Starts, Native!MayLaunch
<1>7. CASE Native!CodexLaunches
  BY <1>7 DEF Native!CodexLaunches, Native!Starts, Native!MayLaunch
<1>8. CASE Native!CopilotLaunches
  BY <1>8 DEF Native!CopilotLaunches, Native!Starts, Native!MayLaunch
<1>9. CASE Native!LaunchFails
  BY <1>9 DEF Native!LaunchFails, Native!Conclude, Native!Finally, Native!Open
<1>10. CASE Native!ClaudeProbeAnswers
  BY <1>10
    DEF Native!ClaudeProbeAnswers, Native!Answers, Native!Conclude, Native!Finally, Native!Open
<1>11. CASE Native!CopilotProbeAnswers
  BY <1>11
    DEF Native!CopilotProbeAnswers, Native!Answers, Native!Conclude, Native!Finally,
        Native!Open
<1>12. CASE Native!ClaudeReads
  BY <1>12
    DEF Native!ClaudeReads, Native!Streaming, Native!Conclude, Native!Finally, Native!Open
<1>13. CASE Native!CodexCompletes
  BY <1>13
    DEF Native!CodexCompletes, Native!Streaming, Native!Conclude, Native!Finally, Native!Open
<1>14. CASE Native!CodexReads
  BY <1>14
    DEF Native!CodexReads, Native!Streaming, Native!Conclude, Native!Finally, Native!Open
<1>15. CASE Native!CopilotReads
  BY <1>15
    DEF Native!CopilotReads, Native!Streaming, Native!Conclude, Native!Finally, Native!Open
<1>16. CASE Native!Active
  BY <1>16 DEF Native!Active, Native!Streaming, Native!Finally, Native!Open
<1>17. CASE Native!ClaudeClosed
  BY <1>17 DEF Native!ClaudeClosed
<1>18. CASE Native!ClaudeRemoves
  BY <1>18 DEF Native!ClaudeRemoves
<1>19. CASE Native!CopilotDisconnects
  BY <1>19 DEF Native!CopilotDisconnects, Native!Open
<1>20. CASE Native!CopilotClosed
  BY <1>20 DEF Native!CopilotClosed
<1>21. CASE Native!CodexRemoves
  BY <1>21 DEF Native!CodexRemoves
<1>22. CASE Native!CodexYields
  BY <1>22 DEF Native!CodexYields
<1>23. CASE Native!CloseAdvances
  BY <1>23 DEF Native!CloseAdvances, Native!Closes
<1>24. CASE Native!ProbeEnds
  BY <1>24 DEF Native!ProbeEnds
<1>25. CASE Native!Recorded
  BY <1>25 DEF Native!Recorded
<1>26. CASE Native!RecordFails
  BY <1>26 DEF Native!RecordFails, Native!Finally, Native!Open
<1>27. CASE Native!Drained
  BY <1>27 DEF Native!Drained
<1>28. CASE Native!Leave
  BY <1>28 DEF Native!Leave, Native!Disposition, Native!Heard, Native!Open
<1>29. CASE Native!ClosedByForce
  BY <1>29 DEF Native!ClosedByForce
<1>30. CASE Native!CodexForceReturns
  BY <1>30 DEF Native!CodexForceReturns
<1>31. CASE Native!Release
  BY <1>31 DEF Native!Release
<1>32. CASE Native!Abort
  BY <1>32 DEF Native!Abort, Native!Listeners, Native!Heard, Native!Open
<1>33. CASE Native!RuntimeExits
  BY <1>33 DEF Native!RuntimeExits, Native!Exits
<1>34. CASE Native!RuntimeCrashes
  BY <1>34 DEF Native!RuntimeCrashes, Native!Exits
<1>35. CASE Native!SdkAnswers
  BY <1>35 DEF Native!SdkAnswers, Native!Said
<1>36. CASE Native!SdkEnds
  BY <1>36 DEF Native!SdkEnds, Native!Said
<1>37. CASE Native!SdkFails
  BY <1>37 DEF Native!SdkFails, Native!Said
<1>38. QED
  BY <1>1, <1>2, <1>3, <1>4, <1>5, <1>6, <1>7, <1>8, <1>9, <1>10, <1>11, <1>12, <1>13, <1>14,
     <1>15, <1>16, <1>17, <1>18, <1>19, <1>20, <1>21, <1>22, <1>23, <1>24, <1>25, <1>26,
     <1>27, <1>28, <1>29, <1>30, <1>31, <1>32, <1>33, <1>34, <1>35, <1>36, <1>37
  DEF Native!Next, Native!Operation, Native!Cleanup, Native!Consumer, Native!Outside

LEMMA NativeSteps == NativeInv /\ Native!Next => NativeInv'
<1> SUFFICES ASSUME NativeInv, Native!Next PROVE NativeInv'
  OBVIOUS
<1>1. Native!SessionTypeOK'
  <2>1. Flags /\ Phases
    BY NativeTypesAre DEF NativeInv
  <2>2. Flags' /\ Phases'
    BY <2>1, NativeTypesStay
  <2>3. QED
    BY <2>2 DEF Native!SessionTypeOK, Flags, Phases
<1>2. QED
  BY <1>1, RuntimeStays, ClosingStays, TurnStays, AnswerStays DEF NativeInv

LEMMA NativeRests == NativeInv /\ UNCHANGED nativeVars => NativeInv'
BY DEF NativeInv, Native!SessionTypeOK, RuntimeSound, ClosingSound, TurnSound, AnswerSound,
       nativeVars

\* What the three parts of the property rest on.
LEMMA NativeIsSafe ==
  NativeInv => /\ Native!SessionTypeOK /\ Native!HomeOutlivesRuntime
               /\ Native!SlotCoversSession /\ Native!ResultIsRetained
BY DEF NativeInv, Native!SessionTypeOK, RuntimeSound, TurnSound, AnswerSound,
       Native!HomeOutlivesRuntime, Native!SlotCoversSession, Native!ResultIsRetained

-----------------------------------------------------------------------------
(* A paged adapter: every step.                                            *)

LEMMA LimitsAre ==
  /\ Adapters \subseteq {"command", "claude", "copilot", "codex"}
  /\ Pages \in Nat \ {0}
  /\ PageRepairs \in Nat /\ CoverageTurns \in Nat /\ MaxEvents \in Nat
BY ConversationsAssumption

LEMMA PagedTypesAre == Paged!PagedTypeOK <=> PagedFlags /\ PagedPhases /\ PagedCounts
BY DEF Paged!PagedTypeOK, PagedFlags, PagedPhases, PagedCounts

LEMMA PagedStarts == Paged!PagedInit => PagedInv
<1> SUFFICES ASSUME Paged!PagedInit PROVE PagedInv
  OBVIOUS
<1> USE LimitsAre
<1>1. PagedFlags
  BY DEF Paged!PagedInit, PagedFlags
<1>2. PagedPhases
  BY DEF Paged!PagedInit, PagedPhases
<1>3. PagedCounts
  BY DEF Paged!PagedInit, PagedCounts
<1>4. Paged!PagedTypeOK
  BY <1>1, <1>2, <1>3, PagedTypesAre
<1>5. PagesSound
  BY DEF Paged!PagedInit, PagesSound
<1>6. RequestsSound
  BY DEF Paged!PagedInit, RequestsSound, Paid, Turns
<1>7. SandboxSound
  BY DEF Paged!PagedInit, SandboxSound
<1>8. GivenSound
  BY DEF Paged!PagedInit, GivenSound
<1>9. QED
  BY <1>4, <1>5, <1>6, <1>7, <1>8 DEF PagedInv

-----------------------------------------------------------------------------
(* What the steps of a paged adapter do to its pages and requests.         *)

LEMMA CommandOpensDo ==
  ASSUME Paged!CommandOpens
  PROVE  /\ adapter = "command" /\ step = "opening" /\ step' \in {"asking", "closing"}
         /\ UNCHANGED <<adapter, page, repairs, latched, staged, handed, lost, wasted>>
         /\ asked' = 1 \/ asked' = asked
BY DEF Paged!CommandOpens, Paged!Opened, Paged!Fails, Paged!Ends, Paged!setup, Paged!spools,
       Paged!repairing, Paged!command

LEMMA AsksDo ==
  ASSUME Paged!ClaudeAsks \/ Paged!CopilotAsks \/ Paged!CodexAsks
  PROVE  /\ step = "asking" /\ adapter # "command" /\ reply = "unsent"
         /\ UNCHANGED <<adapter, page, repairs, coverage, boxed>>
         /\ \/ UNCHANGED <<asked, reply>>
            \/ asked' = asked + 1 /\ reply' = "none"
BY DEF Paged!ClaudeAsks, Paged!CopilotAsks, Paged!CodexAsks, Paged!Asking, Paged!Sends,
       Paged!setup, Paged!repairing

LEMMA ReadsDo ==
  ASSUME Paged!ClaudeReads \/ Paged!CopilotReads \/ Paged!CodexReads
  PROVE  /\ step = "asking" /\ adapter # "command" /\ reply # "unsent"
         /\ UNCHANGED <<adapter, asked, page, repairs>>
         /\ \/ UNCHANGED <<coverage, boxed, reply>>
            \/ /\ coverage < CoverageTurns /\ coverage' = coverage + 1
               /\ UNCHANGED boxed /\ reply' = "unsent"
            \/ boxed /\ ~boxed' /\ UNCHANGED coverage /\ reply' = "unsent"
<1> USE DEF Paged!Read, Paged!AsksCoverage, Paged!Yields, Paged!Takes, Paged!setup,
            Paged!repairing, Paged!sandbox
<1>1. CASE Paged!ClaudeReads
  BY <1>1 DEF Paged!ClaudeReads, Paged!LeavesSandbox
<1>2. CASE Paged!CopilotReads
  BY <1>2 DEF Paged!CopilotReads, Paged!Kept
<1>3. CASE Paged!CodexReads
  BY <1>3 DEF Paged!CodexReads, Paged!Kept
<1>4. QED
  BY <1>1, <1>2, <1>3

LEMMA AcceptsDo ==
  ASSUME Paged!Accepts
  PROVE  /\ step = "storing" /\ adapter # "command" /\ reply # "unsent"
         /\ UNCHANGED <<adapter, asked, coverage, boxed>>
         /\ page' = page + 1 /\ repairs' = 0 /\ reply' = "unsent"
BY DEF Paged!Accepts, Paged!Yields, Paged!setup, Paged!sandbox

LEMMA RejectsDo ==
  ASSUME Paged!Rejects
  PROVE  /\ step = "storing" /\ adapter # "command" /\ reply # "unsent"
         /\ UNCHANGED <<adapter, asked, page, coverage, boxed>>
         /\ \/ UNCHANGED <<repairs, reply>>
            \/ repairs < PageRepairs /\ repairs' = repairs + 1 /\ reply' = "unsent"
BY DEF Paged!Rejects, Paged!Yields, Paged!setup, Paged!sandbox

LEMMA AssemblesDo ==
  ASSUME Paged!Assembles
  PROVE  /\ step = "assembling" /\ step' = "closing"
         /\ UNCHANGED <<adapter, page, latched, asked>>
         /\ \/ UNCHANGED <<handed, lost>> /\ wasted' = wasted + staged /\ staged' = 0
            \/ UNCHANGED <<lost, wasted>> /\ handed' = staged /\ staged' = 0
            \/ UNCHANGED <<handed, wasted>> /\ lost' = staged /\ staged' = 0
BY DEF Paged!Assembles, Paged!Abandon, Paged!HandOver, Paged!FailsAbandoned, Paged!Ends,
       Paged!setup, Paged!command

LEMMA SettlesDo ==
  ASSUME Paged!Settles
  PROVE  /\ step \in {"settling", "cancelling"} /\ step' = "closing"
         /\ UNCHANGED <<adapter, page, latched, asked>>
         /\ \/ UNCHANGED <<staged, handed, lost, wasted>>
            \/ UNCHANGED <<lost, wasted>> /\ handed' = staged /\ staged' = 0
            \/ UNCHANGED <<handed, wasted>> /\ lost' = staged /\ staged' = 0
BY DEF Paged!Settles, Paged!Fails, Paged!spools, Paged!HandOver, Paged!Ends, Paged!setup,
       Paged!command

LEMMA ClosesDo ==
  ASSUME Paged!Closes
  PROVE  /\ step = "closing" /\ step' = "closed" /\ UNCHANGED <<adapter, page, latched, asked>>
         /\ \/ UNCHANGED <<staged, handed, lost, wasted>> /\ latched = "result"
            \/ UNCHANGED <<handed, lost>> /\ wasted' = wasted + staged /\ staged' = 0
BY DEF Paged!Closes, Paged!Abandon, Paged!spools, Paged!setup, Paged!command

LEMMA CommandReadsDo ==
  ASSUME Paged!CommandReads, paged \in BOOLEAN
  PROVE  /\ adapter = "command" /\ step = "asking" /\ UNCHANGED adapter
         /\ step' \in {"asking", "settling", "cancelling"}
         /\ \/ /\ UNCHANGED <<page, asked, staged, handed, lost, wasted>>
               /\ step' # "asking" \/ latched' # "none"
            \/ /\ UNCHANGED <<page, asked, handed, lost>> /\ latched' # "none"
               /\ wasted' = wasted + staged /\ staged' = 0
            \/ /\ latched = "none" /\ page' = page + 1 /\ staged' = staged + 1
               /\ UNCHANGED <<handed, lost, wasted>>
               /\ \/ page + 1 < Pages /\ asked' = asked + 1
                  \/ ~(page + 1 < Pages) /\ asked' = asked /\ latched' # "none"
<1>1. adapter = "command" /\ step = "asking" /\ UNCHANGED adapter
  BY DEF Paged!CommandReads, Paged!Read, Paged!setup
<1>2. CASE aborted
  BY <1>1, <1>2 DEF Paged!CommandReads, Paged!spools
<1>3. CASE /\ ~aborted
           /\ \/ latched # "none" \/ reply = "noise"
              \/ ~paged /\ reply \in {"page", "malformed"}
  BY <1>1, <1>3 DEF Paged!CommandReads, Paged!spools
<1>4. CASE /\ ~aborted
           /\ ~(\/ latched # "none" \/ reply = "noise"
                \/ ~paged /\ reply \in {"page", "malformed"})
  <2>1. /\ UNCHANGED step /\ latched = "none"
        /\ reply \in {"page", "malformed"} => Paged!CommandTakes
        /\ reply \notin {"page", "malformed"} =>
             UNCHANGED <<page, asked, Paged!spools>> /\ latched' # "none"
    BY <1>1, <1>4 DEF Paged!CommandReads
  <2>2. CASE reply \in {"page", "malformed"}
    BY <1>1, <2>1, <2>2 DEF Paged!CommandTakes, Paged!Abandon
  <2>3. CASE reply \notin {"page", "malformed"}
    BY <1>1, <2>1, <2>3 DEF Paged!spools
  <2>4. QED
    BY <2>2, <2>3
<1>5. QED
  BY <1>2, <1>3, <1>4

LEMMA TurnsAre ==
  ASSUME NEW n \in Nat
  PROVE  Turns(n) \in Nat /\ Turns(n + 1) = Turns(n) + PageRepairs + 1
<1>1. PICK r \in Nat : r = PageRepairs
  BY ConversationsAssumption
<1>2. n * (r + 1) \in Nat /\ (n + 1) * (r + 1) = n * (r + 1) + r + 1
  OBVIOUS
<1>3. QED
  BY <1>1, <1>2 DEF Turns
LEMMA TurnsUpTo ==
  ASSUME NEW n \in Nat, NEW m \in Nat, n < m
  PROVE  Turns(n) + PageRepairs + 1 <= Turns(m)
<1>1. PICK r \in Nat : r = PageRepairs
  BY ConversationsAssumption
<1>2. PICK d \in Nat : m = n + 1 + d
  <2>1. m - n - 1 \in Nat /\ m = n + 1 + (m - n - 1)
    OBVIOUS
  <2>2. QED
    BY <2>1
<1>3. /\ (n + 1 + d) * (r + 1) = n * (r + 1) + r + 1 + d * (r + 1)
      /\ d * (r + 1) \in Nat /\ n * (r + 1) \in Nat
  OBVIOUS
<1>4. n * (r + 1) + r + 1 <= m * (r + 1)
  BY <1>2, <1>3
<1>5. QED
  BY <1>1, <1>4 DEF Turns


LEMMA PagedFlagsStay ==
  ASSUME PagedFlags, Paged!PagedNext
  PROVE  PagedFlags'
<1> USE LimitsAre
    DEF PagedFlags,
        Paged!setup, Paged!consumer, Paged!command, Paged!sandbox, Paged!spools,
        Paged!repairing, Paged!outcome, Paged!Replies
<1>1. CASE Paged!CommandOpens
  BY <1>1 DEF Paged!CommandOpens, Paged!Opened, Paged!Fails, Paged!Ends, Paged!Level
<1>2. CASE Paged!ClaudeOpens
  BY <1>2 DEF Paged!ClaudeOpens, Paged!Opened
<1>3. CASE Paged!CopilotOpens
  BY <1>3 DEF Paged!CopilotOpens, Paged!Opened, Paged!Fails, Paged!Ends, Paged!Level
<1>4. CASE Paged!CodexOpens
  BY <1>4 DEF Paged!CodexOpens, Paged!Opened, Paged!Fails, Paged!Ends, Paged!Level
<1>5. CASE Paged!ClaudeAsks
  BY <1>5 DEF Paged!ClaudeAsks, Paged!Asking, Paged!Sends, Paged!Fails, Paged!Ends, Paged!Level
<1>6. CASE Paged!CopilotAsks
  BY <1>6 DEF Paged!CopilotAsks, Paged!Asking, Paged!Sends
<1>7. CASE Paged!CodexAsks
  BY <1>7 DEF Paged!CodexAsks, Paged!Asking, Paged!Sends
<1>8. CASE Paged!ClaudeReads
  BY <1>8
    DEF Paged!ClaudeReads, Paged!Read, Paged!Fails, Paged!Ends, Paged!Level,
        Paged!FailsAbandoned, Paged!Abandon, Paged!LeavesSandbox, Paged!NeedsCoverage,
        Paged!AsksCoverage, Paged!Yields, Paged!Takes, Paged!HandOver
<1>9. CASE Paged!CopilotReads
  BY <1>9
    DEF Paged!CopilotReads, Paged!Read, Paged!Kept, Paged!Fails, Paged!Ends, Paged!Level,
        Paged!FailsAbandoned, Paged!Abandon, Paged!NeedsCoverage, Paged!AsksCoverage,
        Paged!Yields, Paged!Takes, Paged!HandOver
<1>10. CASE Paged!CodexReads
  BY <1>10
    DEF Paged!CodexReads, Paged!Read, Paged!Kept, Paged!Fails, Paged!Ends, Paged!Level,
        Paged!FailsAbandoned, Paged!Abandon, Paged!Takes, Paged!HandOver
<1>11. CASE Paged!CommandReads
  BY <1>11 DEF Paged!CommandReads, Paged!Read, Paged!CommandTakes, Paged!Abandon
<1>12. CASE Paged!CommandEnds
  BY <1>12 DEF Paged!CommandEnds
<1>13. CASE Paged!Accepts
  BY <1>13 DEF Paged!Accepts, Paged!Yields
<1>14. CASE Paged!Rejects
  BY <1>14
    DEF Paged!Rejects, Paged!Yields, Paged!FailsAbandoned, Paged!Abandon, Paged!Ends,
        Paged!Level
<1>15. CASE Paged!Assembles
  BY <1>15
    DEF Paged!Assembles, Paged!HandOver, Paged!FailsAbandoned, Paged!Abandon, Paged!Ends,
        Paged!Level
<1>16. CASE Paged!Settles
  BY <1>16 DEF Paged!Settles, Paged!HandOver, Paged!Fails, Paged!Ends, Paged!Level
<1>17. CASE Paged!Closes
  BY <1>17 DEF Paged!Closes, Paged!Abandon
<1>18. CASE Paged!Answers
  BY <1>18 DEF Paged!Answers, Paged!Said
<1>19. CASE Paged!Unboxable
  BY <1>19 DEF Paged!Unboxable, Paged!Said
<1>20. CASE Paged!Writes
  BY <1>20 DEF Paged!Writes, Paged!Said
<1>21. CASE Paged!Claims
  BY <1>21 DEF Paged!Claims
<1>22. CASE Paged!Quits
  BY <1>22 DEF Paged!Quits, Paged!Exits
<1>23. CASE Paged!Active
  BY <1>23 DEF Paged!Active
<1>24. CASE Paged!Severed
  BY <1>24 DEF Paged!Severed, Paged!Said
<1>25. CASE Paged!Killed
  BY <1>25 DEF Paged!Killed, Paged!Exits
<1>26. CASE Paged!CopilotCrashes
  BY <1>26 DEF Paged!CopilotCrashes
<1>27. CASE Paged!Pulls
  BY <1>27 DEF Paged!Pulls
<1>28. CASE Paged!Refuses
  BY <1>28 DEF Paged!Refuses
<1>29. CASE Paged!Aborts
  BY <1>29 DEF Paged!Aborts
<1>30. CASE Paged!Forces
  BY <1>30 DEF Paged!Forces
<1>31. QED
  BY <1>1, <1>2, <1>3, <1>4, <1>5, <1>6, <1>7, <1>8, <1>9, <1>10, <1>11, <1>12, <1>13, <1>14,
     <1>15, <1>16, <1>17, <1>18, <1>19, <1>20, <1>21, <1>22, <1>23, <1>24, <1>25, <1>26,
     <1>27, <1>28, <1>29, <1>30
  DEF Paged!PagedNext, Paged!Adapter, Paged!Provider

LEMMA PagedPhasesStay ==
  ASSUME PagedFlags, PagedPhases, Paged!PagedNext
  PROVE  PagedPhases'
<1> USE LimitsAre
    DEF PagedFlags, PagedPhases,
        Paged!setup, Paged!consumer, Paged!command, Paged!sandbox, Paged!spools,
        Paged!repairing, Paged!outcome, Paged!Replies
<1>1. CASE Paged!CommandOpens
  BY <1>1 DEF Paged!CommandOpens, Paged!Opened, Paged!Fails, Paged!Ends, Paged!Level
<1>2. CASE Paged!ClaudeOpens
  BY <1>2 DEF Paged!ClaudeOpens, Paged!Opened
<1>3. CASE Paged!CopilotOpens
  BY <1>3 DEF Paged!CopilotOpens, Paged!Opened, Paged!Fails, Paged!Ends, Paged!Level
<1>4. CASE Paged!CodexOpens
  BY <1>4 DEF Paged!CodexOpens, Paged!Opened, Paged!Fails, Paged!Ends, Paged!Level
<1>5. CASE Paged!ClaudeAsks
  BY <1>5 DEF Paged!ClaudeAsks, Paged!Asking, Paged!Sends, Paged!Fails, Paged!Ends, Paged!Level
<1>6. CASE Paged!CopilotAsks
  BY <1>6 DEF Paged!CopilotAsks, Paged!Asking, Paged!Sends
<1>7. CASE Paged!CodexAsks
  BY <1>7 DEF Paged!CodexAsks, Paged!Asking, Paged!Sends
<1>8. CASE Paged!ClaudeReads
  BY <1>8
    DEF Paged!ClaudeReads, Paged!Read, Paged!Fails, Paged!Ends, Paged!Level,
        Paged!FailsAbandoned, Paged!Abandon, Paged!LeavesSandbox, Paged!NeedsCoverage,
        Paged!AsksCoverage, Paged!Yields, Paged!Takes, Paged!HandOver
<1>9. CASE Paged!CopilotReads
  BY <1>9
    DEF Paged!CopilotReads, Paged!Read, Paged!Kept, Paged!Fails, Paged!Ends, Paged!Level,
        Paged!FailsAbandoned, Paged!Abandon, Paged!NeedsCoverage, Paged!AsksCoverage,
        Paged!Yields, Paged!Takes, Paged!HandOver
<1>10. CASE Paged!CodexReads
  BY <1>10
    DEF Paged!CodexReads, Paged!Read, Paged!Kept, Paged!Fails, Paged!Ends, Paged!Level,
        Paged!FailsAbandoned, Paged!Abandon, Paged!Takes, Paged!HandOver
<1>11. CASE Paged!CommandReads
  BY <1>11 DEF Paged!CommandReads, Paged!Read, Paged!CommandTakes, Paged!Abandon
<1>12. CASE Paged!CommandEnds
  BY <1>12 DEF Paged!CommandEnds
<1>13. CASE Paged!Accepts
  BY <1>13 DEF Paged!Accepts, Paged!Yields
<1>14. CASE Paged!Rejects
  BY <1>14
    DEF Paged!Rejects, Paged!Yields, Paged!FailsAbandoned, Paged!Abandon, Paged!Ends,
        Paged!Level
<1>15. CASE Paged!Assembles
  BY <1>15
    DEF Paged!Assembles, Paged!HandOver, Paged!FailsAbandoned, Paged!Abandon, Paged!Ends,
        Paged!Level
<1>16. CASE Paged!Settles
  BY <1>16 DEF Paged!Settles, Paged!HandOver, Paged!Fails, Paged!Ends, Paged!Level
<1>17. CASE Paged!Closes
  BY <1>17 DEF Paged!Closes, Paged!Abandon
<1>18. CASE Paged!Answers
  BY <1>18 DEF Paged!Answers, Paged!Said
<1>19. CASE Paged!Unboxable
  BY <1>19 DEF Paged!Unboxable, Paged!Said
<1>20. CASE Paged!Writes
  BY <1>20 DEF Paged!Writes, Paged!Said
<1>21. CASE Paged!Claims
  BY <1>21 DEF Paged!Claims
<1>22. CASE Paged!Quits
  BY <1>22 DEF Paged!Quits, Paged!Exits
<1>23. CASE Paged!Active
  BY <1>23 DEF Paged!Active
<1>24. CASE Paged!Severed
  BY <1>24 DEF Paged!Severed, Paged!Said
<1>25. CASE Paged!Killed
  BY <1>25 DEF Paged!Killed, Paged!Exits
<1>26. CASE Paged!CopilotCrashes
  BY <1>26 DEF Paged!CopilotCrashes
<1>27. CASE Paged!Pulls
  BY <1>27 DEF Paged!Pulls
<1>28. CASE Paged!Refuses
  <2>1. CASE aborted
    BY <1>28, <2>1 DEF Paged!Refuses
  <2>2. CASE ~aborted
    BY <1>28, <2>2 DEF Paged!Refuses
  <2>3. QED
    BY <2>1, <2>2
<1>29. CASE Paged!Aborts
  BY <1>29 DEF Paged!Aborts
<1>30. CASE Paged!Forces
  BY <1>30 DEF Paged!Forces
<1>31. QED
  BY <1>1, <1>2, <1>3, <1>4, <1>5, <1>6, <1>7, <1>8, <1>9, <1>10, <1>11, <1>12, <1>13, <1>14,
     <1>15, <1>16, <1>17, <1>18, <1>19, <1>20, <1>21, <1>22, <1>23, <1>24, <1>25, <1>26,
     <1>27, <1>28, <1>29, <1>30
  DEF Paged!PagedNext, Paged!Adapter, Paged!Provider

LEMMA PagedCountsStay ==
  ASSUME PagedFlags, PagedPhases, PagedCounts, PagesSound, Paged!PagedNext
  PROVE  PagedCounts'
<1> USE LimitsAre
    DEF PagedFlags, PagedPhases, PagedCounts, PagesSound,
        Paged!setup, Paged!consumer, Paged!command, Paged!sandbox, Paged!spools,
        Paged!repairing, Paged!outcome, Paged!Replies
<1>1. CASE Paged!CommandOpens
  <2>1. asked' \in Nat
    BY <1>1, CommandOpensDo
  <2>2. events' \in 0..MaxEvents
    BY <1>1 DEF Paged!CommandOpens, Paged!Opened, Paged!Fails, Paged!Ends, Paged!Level
  <2>3. /\ page' \in 0..Pages /\ staged' \in 0..Pages /\ handed' \in 0..Pages
        /\ lost' \in 0..Pages /\ wasted' \in Nat
    BY <1>1 DEF Paged!CommandOpens, Paged!Opened, Paged!Fails, Paged!Ends, Paged!Level
  <2>4. repairs' \in 0..PageRepairs /\ coverage' \in 0..CoverageTurns
    BY <1>1 DEF Paged!CommandOpens, Paged!Opened, Paged!Fails, Paged!Ends, Paged!Level
  <2>5. QED
    BY <2>1, <2>2, <2>3, <2>4
<1>2. CASE Paged!ClaudeOpens
  BY <1>2 DEF Paged!ClaudeOpens, Paged!Opened
<1>3. CASE Paged!CopilotOpens
  BY <1>3 DEF Paged!CopilotOpens, Paged!Opened, Paged!Fails, Paged!Ends, Paged!Level
<1>4. CASE Paged!CodexOpens
  BY <1>4 DEF Paged!CodexOpens, Paged!Opened, Paged!Fails, Paged!Ends, Paged!Level
<1>5. CASE Paged!ClaudeAsks
  <2>1. asked' \in Nat /\ events' \in 0..MaxEvents
    BY <1>5
      DEF Paged!ClaudeAsks, Paged!Asking, Paged!Sends, Paged!Fails, Paged!Ends, Paged!Level
  <2>2. /\ page' \in 0..Pages /\ staged' \in 0..Pages /\ handed' \in 0..Pages
        /\ lost' \in 0..Pages /\ wasted' \in Nat
    BY <1>5
      DEF Paged!ClaudeAsks, Paged!Asking, Paged!Sends, Paged!Fails, Paged!Ends, Paged!Level
  <2>3. repairs' \in 0..PageRepairs /\ coverage' \in 0..CoverageTurns
    BY <1>5
      DEF Paged!ClaudeAsks, Paged!Asking, Paged!Sends, Paged!Fails, Paged!Ends, Paged!Level
  <2>4. QED
    BY <2>1, <2>2, <2>3
<1>6. CASE Paged!CopilotAsks
  BY <1>6 DEF Paged!CopilotAsks, Paged!Asking, Paged!Sends
<1>7. CASE Paged!CodexAsks
  BY <1>7 DEF Paged!CodexAsks, Paged!Asking, Paged!Sends
<1>8. CASE Paged!ClaudeReads
  <2>1. asked' \in Nat /\ events' \in 0..MaxEvents
    BY <1>8
      DEF Paged!ClaudeReads, Paged!Read, Paged!Fails, Paged!Ends, Paged!Level,
          Paged!FailsAbandoned, Paged!Abandon, Paged!LeavesSandbox, Paged!NeedsCoverage,
          Paged!AsksCoverage, Paged!Yields, Paged!Takes, Paged!HandOver
  <2>2. /\ page' \in 0..Pages /\ staged' \in 0..Pages /\ handed' \in 0..Pages
        /\ lost' \in 0..Pages /\ wasted' \in Nat
    BY <1>8
      DEF Paged!ClaudeReads, Paged!Read, Paged!Fails, Paged!Ends, Paged!Level,
          Paged!FailsAbandoned, Paged!Abandon, Paged!LeavesSandbox, Paged!NeedsCoverage,
          Paged!AsksCoverage, Paged!Yields, Paged!Takes, Paged!HandOver
  <2>3. repairs' \in 0..PageRepairs
    BY <1>8
      DEF Paged!ClaudeReads, Paged!Read, Paged!Fails, Paged!Ends, Paged!Level,
          Paged!FailsAbandoned, Paged!Abandon, Paged!LeavesSandbox, Paged!NeedsCoverage,
          Paged!AsksCoverage, Paged!Yields, Paged!Takes, Paged!HandOver
  <2>4. coverage' \in 0..CoverageTurns
    BY <1>8, ReadsDo
  <2>5. QED
    BY <2>1, <2>2, <2>3, <2>4
<1>9. CASE Paged!CopilotReads
  <2>1. asked' \in Nat /\ events' \in 0..MaxEvents
    BY <1>9
      DEF Paged!CopilotReads, Paged!Read, Paged!Kept, Paged!Fails, Paged!Ends, Paged!Level,
          Paged!FailsAbandoned, Paged!Abandon, Paged!NeedsCoverage, Paged!AsksCoverage,
          Paged!Yields, Paged!Takes, Paged!HandOver
  <2>2. /\ page' \in 0..Pages /\ staged' \in 0..Pages /\ handed' \in 0..Pages
        /\ lost' \in 0..Pages /\ wasted' \in Nat
    BY <1>9
      DEF Paged!CopilotReads, Paged!Read, Paged!Kept, Paged!Fails, Paged!Ends, Paged!Level,
          Paged!FailsAbandoned, Paged!Abandon, Paged!NeedsCoverage, Paged!AsksCoverage,
          Paged!Yields, Paged!Takes, Paged!HandOver
  <2>3. repairs' \in 0..PageRepairs
    BY <1>9
      DEF Paged!CopilotReads, Paged!Read, Paged!Kept, Paged!Fails, Paged!Ends, Paged!Level,
          Paged!FailsAbandoned, Paged!Abandon, Paged!NeedsCoverage, Paged!AsksCoverage,
          Paged!Yields, Paged!Takes, Paged!HandOver
  <2>4. coverage' \in 0..CoverageTurns
    BY <1>9, ReadsDo
  <2>5. QED
    BY <2>1, <2>2, <2>3, <2>4
<1>10. CASE Paged!CodexReads
  BY <1>10
    DEF Paged!CodexReads, Paged!Read, Paged!Kept, Paged!Fails, Paged!Ends, Paged!Level,
        Paged!FailsAbandoned, Paged!Abandon, Paged!Takes, Paged!HandOver
<1>11. CASE Paged!CommandReads
  <2>1. asked' \in Nat
    BY <1>11, CommandReadsDo
  <2>2. events' \in 0..MaxEvents
    BY <1>11 DEF Paged!CommandReads, Paged!Read, Paged!CommandTakes, Paged!Abandon
  <2>3. /\ page' \in 0..Pages /\ staged' \in 0..Pages /\ handed' \in 0..Pages
        /\ lost' \in 0..Pages /\ wasted' \in Nat
    BY <1>11, CommandReadsDo
  <2>4. repairs' \in 0..PageRepairs /\ coverage' \in 0..CoverageTurns
    BY <1>11 DEF Paged!CommandReads, Paged!Read, Paged!CommandTakes, Paged!Abandon
  <2>5. QED
    BY <2>1, <2>2, <2>3, <2>4
<1>12. CASE Paged!CommandEnds
  BY <1>12 DEF Paged!CommandEnds
<1>13. CASE Paged!Accepts
  BY <1>13 DEF Paged!Accepts, Paged!Yields
<1>14. CASE Paged!Rejects
  <2>1. asked' \in Nat /\ events' \in 0..MaxEvents
    BY <1>14
      DEF Paged!Rejects, Paged!Yields, Paged!FailsAbandoned, Paged!Abandon, Paged!Ends,
          Paged!Level
  <2>2. /\ page' \in 0..Pages /\ staged' \in 0..Pages /\ handed' \in 0..Pages
        /\ lost' \in 0..Pages /\ wasted' \in Nat
    BY <1>14
      DEF Paged!Rejects, Paged!Yields, Paged!FailsAbandoned, Paged!Abandon, Paged!Ends,
          Paged!Level
  <2>3. repairs' \in 0..PageRepairs /\ coverage' \in 0..CoverageTurns
    BY <1>14
      DEF Paged!Rejects, Paged!Yields, Paged!FailsAbandoned, Paged!Abandon, Paged!Ends,
          Paged!Level
  <2>4. QED
    BY <2>1, <2>2, <2>3
<1>15. CASE Paged!Assembles
  <2>1. asked' \in Nat /\ events' \in 0..MaxEvents
    BY <1>15
      DEF Paged!Assembles, Paged!HandOver, Paged!FailsAbandoned, Paged!Abandon, Paged!Ends,
          Paged!Level
  <2>2. /\ page' \in 0..Pages /\ staged' \in 0..Pages /\ handed' \in 0..Pages
        /\ lost' \in 0..Pages /\ wasted' \in Nat
    BY <1>15
      DEF Paged!Assembles, Paged!HandOver, Paged!FailsAbandoned, Paged!Abandon, Paged!Ends,
          Paged!Level
  <2>3. repairs' \in 0..PageRepairs /\ coverage' \in 0..CoverageTurns
    BY <1>15
      DEF Paged!Assembles, Paged!HandOver, Paged!FailsAbandoned, Paged!Abandon, Paged!Ends,
          Paged!Level
  <2>4. QED
    BY <2>1, <2>2, <2>3
<1>16. CASE Paged!Settles
  BY <1>16 DEF Paged!Settles, Paged!HandOver, Paged!Fails, Paged!Ends, Paged!Level
<1>17. CASE Paged!Closes
  <2>1. asked' \in Nat /\ events' \in 0..MaxEvents
    BY <1>17 DEF Paged!Closes, Paged!Abandon
  <2>2. /\ page' \in 0..Pages /\ staged' \in 0..Pages /\ handed' \in 0..Pages
        /\ lost' \in 0..Pages /\ wasted' \in Nat
    BY <1>17 DEF Paged!Closes, Paged!Abandon
  <2>3. repairs' \in 0..PageRepairs /\ coverage' \in 0..CoverageTurns
    BY <1>17 DEF Paged!Closes, Paged!Abandon
  <2>4. QED
    BY <2>1, <2>2, <2>3
<1>18. CASE Paged!Answers
  BY <1>18 DEF Paged!Answers, Paged!Said
<1>19. CASE Paged!Unboxable
  BY <1>19 DEF Paged!Unboxable, Paged!Said
<1>20. CASE Paged!Writes
  BY <1>20 DEF Paged!Writes, Paged!Said
<1>21. CASE Paged!Claims
  BY <1>21 DEF Paged!Claims
<1>22. CASE Paged!Quits
  BY <1>22 DEF Paged!Quits, Paged!Exits
<1>23. CASE Paged!Active
  BY <1>23 DEF Paged!Active
<1>24. CASE Paged!Severed
  BY <1>24 DEF Paged!Severed, Paged!Said
<1>25. CASE Paged!Killed
  BY <1>25 DEF Paged!Killed, Paged!Exits
<1>26. CASE Paged!CopilotCrashes
  BY <1>26 DEF Paged!CopilotCrashes
<1>27. CASE Paged!Pulls
  BY <1>27 DEF Paged!Pulls
<1>28. CASE Paged!Refuses
  BY <1>28 DEF Paged!Refuses
<1>29. CASE Paged!Aborts
  BY <1>29 DEF Paged!Aborts
<1>30. CASE Paged!Forces
  BY <1>30 DEF Paged!Forces
<1>31. QED
  BY <1>1, <1>2, <1>3, <1>4, <1>5, <1>6, <1>7, <1>8, <1>9, <1>10, <1>11, <1>12, <1>13, <1>14,
     <1>15, <1>16, <1>17, <1>18, <1>19, <1>20, <1>21, <1>22, <1>23, <1>24, <1>25, <1>26,
     <1>27, <1>28, <1>29, <1>30
  DEF Paged!PagedNext, Paged!Adapter, Paged!Provider

LEMMA PagesStay ==
  ASSUME PagedFlags, PagedPhases, PagedCounts, PagesSound, Paged!PagedNext
  PROVE  PagesSound'
<1> USE LimitsAre
    DEF PagedFlags, PagedPhases, PagedCounts, PagesSound,
        Paged!setup, Paged!consumer, Paged!command, Paged!sandbox, Paged!spools,
        Paged!repairing, Paged!outcome, Paged!Replies
<1>1. CASE Paged!CommandOpens
  BY <1>1, CommandOpensDo
<1>2. CASE Paged!ClaudeOpens
  BY <1>2 DEF Paged!ClaudeOpens, Paged!Opened
<1>3. CASE Paged!CopilotOpens
  <2>1. /\ step' \in {"asking", "closing"}
        /\ UNCHANGED <<adapter, page, asked, staged, handed, lost, wasted>>
    BY <1>3 DEF Paged!CopilotOpens, Paged!Opened, Paged!Fails, Paged!Ends, Paged!Level
  <2>2. QED
    BY <1>3, <2>1 DEF Paged!CopilotOpens
<1>4. CASE Paged!CodexOpens
  <2>1. /\ step' \in {"asking", "closing"}
        /\ UNCHANGED <<adapter, page, asked, staged, handed, lost, wasted>>
    BY <1>4 DEF Paged!CodexOpens, Paged!Opened, Paged!Fails, Paged!Ends, Paged!Level
  <2>2. QED
    BY <1>4, <2>1 DEF Paged!CodexOpens
<1>5. CASE Paged!ClaudeAsks
  BY <1>5 DEF Paged!ClaudeAsks, Paged!Asking, Paged!Sends, Paged!Fails, Paged!Ends, Paged!Level
<1>6. CASE Paged!CopilotAsks
  BY <1>6 DEF Paged!CopilotAsks, Paged!Asking, Paged!Sends
<1>7. CASE Paged!CodexAsks
  BY <1>7 DEF Paged!CodexAsks, Paged!Asking, Paged!Sends
<1>8. CASE Paged!ClaudeReads
  BY <1>8
    DEF Paged!ClaudeReads, Paged!Read, Paged!Fails, Paged!Ends, Paged!Level,
        Paged!FailsAbandoned, Paged!Abandon, Paged!LeavesSandbox, Paged!NeedsCoverage,
        Paged!AsksCoverage, Paged!Yields, Paged!Takes, Paged!HandOver
<1>9. CASE Paged!CopilotReads
  BY <1>9
    DEF Paged!CopilotReads, Paged!Read, Paged!Kept, Paged!Fails, Paged!Ends, Paged!Level,
        Paged!FailsAbandoned, Paged!Abandon, Paged!NeedsCoverage, Paged!AsksCoverage,
        Paged!Yields, Paged!Takes, Paged!HandOver
<1>10. CASE Paged!CodexReads
  BY <1>10
    DEF Paged!CodexReads, Paged!Read, Paged!Kept, Paged!Fails, Paged!Ends, Paged!Level,
        Paged!FailsAbandoned, Paged!Abandon, Paged!Takes, Paged!HandOver
<1>11. CASE Paged!CommandReads
  BY <1>11, CommandReadsDo
<1>12. CASE Paged!CommandEnds
  BY <1>12 DEF Paged!CommandEnds
<1>13. CASE Paged!Accepts
  BY <1>13 DEF Paged!Accepts, Paged!Yields
<1>14. CASE Paged!Rejects
  BY <1>14
    DEF Paged!Rejects, Paged!Yields, Paged!FailsAbandoned, Paged!Abandon, Paged!Ends,
        Paged!Level
<1>15. CASE Paged!Assembles
  BY <1>15, AssemblesDo
<1>16. CASE Paged!Settles
  BY <1>16, SettlesDo
<1>17. CASE Paged!Closes
  BY <1>17, ClosesDo
<1>18. CASE Paged!Answers
  BY <1>18 DEF Paged!Answers, Paged!Said
<1>19. CASE Paged!Unboxable
  BY <1>19 DEF Paged!Unboxable, Paged!Said
<1>20. CASE Paged!Writes
  BY <1>20 DEF Paged!Writes, Paged!Said
<1>21. CASE Paged!Claims
  BY <1>21 DEF Paged!Claims
<1>22. CASE Paged!Quits
  BY <1>22 DEF Paged!Quits, Paged!Exits
<1>23. CASE Paged!Active
  BY <1>23 DEF Paged!Active
<1>24. CASE Paged!Severed
  BY <1>24 DEF Paged!Severed, Paged!Said
<1>25. CASE Paged!Killed
  BY <1>25 DEF Paged!Killed, Paged!Exits
<1>26. CASE Paged!CopilotCrashes
  BY <1>26 DEF Paged!CopilotCrashes
<1>27. CASE Paged!Pulls
  BY <1>27 DEF Paged!Pulls
<1>28. CASE Paged!Refuses
  BY <1>28 DEF Paged!Refuses
<1>29. CASE Paged!Aborts
  BY <1>29 DEF Paged!Aborts
<1>30. CASE Paged!Forces
  BY <1>30 DEF Paged!Forces
<1>31. QED
  BY <1>1, <1>2, <1>3, <1>4, <1>5, <1>6, <1>7, <1>8, <1>9, <1>10, <1>11, <1>12, <1>13, <1>14,
     <1>15, <1>16, <1>17, <1>18, <1>19, <1>20, <1>21, <1>22, <1>23, <1>24, <1>25, <1>26,
     <1>27, <1>28, <1>29, <1>30
  DEF Paged!PagedNext, Paged!Adapter, Paged!Provider

LEMMA RequestsStay ==
  ASSUME PagedFlags, PagedPhases, PagedCounts, PagesSound, RequestsSound, Paged!PagedNext
  PROVE  RequestsSound'
<1> USE LimitsAre
    DEF PagedFlags, PagedPhases, PagedCounts, PagesSound, RequestsSound, Paid,
        Paged!setup, Paged!consumer, Paged!command, Paged!sandbox, Paged!spools,
        Paged!repairing, Paged!outcome, Paged!Replies
<1>0. Turns(page) \in Nat /\ Turns(page + 1) = Turns(page) + PageRepairs + 1
  <2>1. page \in Nat
    OBVIOUS
  <2>2. QED
    BY <2>1, TurnsAre
<1>1. CASE Paged!CommandOpens
  BY <1>1 DEF Paged!CommandOpens, Paged!Opened, Paged!Fails, Paged!Ends, Paged!Level
<1>2. CASE Paged!ClaudeOpens
  BY <1>2 DEF Paged!ClaudeOpens, Paged!Opened
<1>3. CASE Paged!CopilotOpens
  BY <1>3 DEF Paged!CopilotOpens, Paged!Opened, Paged!Fails, Paged!Ends, Paged!Level
<1>4. CASE Paged!CodexOpens
  BY <1>4 DEF Paged!CodexOpens, Paged!Opened, Paged!Fails, Paged!Ends, Paged!Level
<1>5. CASE Paged!ClaudeAsks
  BY <1>0, <1>5, AsksDo
<1>6. CASE Paged!CopilotAsks
  BY <1>0, <1>6, AsksDo
<1>7. CASE Paged!CodexAsks
  BY <1>0, <1>7, AsksDo
<1>8. CASE Paged!ClaudeReads
  BY <1>0, <1>8, ReadsDo
<1>9. CASE Paged!CopilotReads
  BY <1>0, <1>9, ReadsDo
<1>10. CASE Paged!CodexReads
  BY <1>0, <1>10, ReadsDo
<1>11. CASE Paged!CommandReads
  BY <1>11 DEF Paged!CommandReads, Paged!Read, Paged!CommandTakes, Paged!Abandon
<1>12. CASE Paged!CommandEnds
  BY <1>12 DEF Paged!CommandEnds
<1>13. CASE Paged!Accepts
  BY <1>0, <1>13, AcceptsDo
<1>14. CASE Paged!Rejects
  BY <1>0, <1>14, RejectsDo
<1>15. CASE Paged!Assembles
  BY <1>15
    DEF Paged!Assembles, Paged!HandOver, Paged!FailsAbandoned, Paged!Abandon, Paged!Ends,
        Paged!Level
<1>16. CASE Paged!Settles
  BY <1>16 DEF Paged!Settles, Paged!HandOver, Paged!Fails, Paged!Ends, Paged!Level
<1>17. CASE Paged!Closes
  BY <1>17 DEF Paged!Closes, Paged!Abandon
<1>18. CASE Paged!Answers
  BY <1>18 DEF Paged!Answers, Paged!Said
<1>19. CASE Paged!Unboxable
  BY <1>19 DEF Paged!Unboxable, Paged!Said
<1>20. CASE Paged!Writes
  BY <1>20 DEF Paged!Writes, Paged!Said
<1>21. CASE Paged!Claims
  BY <1>21 DEF Paged!Claims
<1>22. CASE Paged!Quits
  BY <1>22 DEF Paged!Quits, Paged!Exits
<1>23. CASE Paged!Active
  BY <1>23 DEF Paged!Active
<1>24. CASE Paged!Severed
  BY <1>24 DEF Paged!Severed, Paged!Said
<1>25. CASE Paged!Killed
  BY <1>25 DEF Paged!Killed, Paged!Exits
<1>26. CASE Paged!CopilotCrashes
  BY <1>26 DEF Paged!CopilotCrashes
<1>27. CASE Paged!Pulls
  BY <1>27 DEF Paged!Pulls
<1>28. CASE Paged!Refuses
  BY <1>28 DEF Paged!Refuses
<1>29. CASE Paged!Aborts
  BY <1>29 DEF Paged!Aborts
<1>30. CASE Paged!Forces
  BY <1>30 DEF Paged!Forces
<1>31. QED
  BY <1>1, <1>2, <1>3, <1>4, <1>5, <1>6, <1>7, <1>8, <1>9, <1>10, <1>11, <1>12, <1>13, <1>14,
     <1>15, <1>16, <1>17, <1>18, <1>19, <1>20, <1>21, <1>22, <1>23, <1>24, <1>25, <1>26,
     <1>27, <1>28, <1>29, <1>30
  DEF Paged!PagedNext, Paged!Adapter, Paged!Provider

LEMMA GivenStays ==
  ASSUME PagedFlags, PagedPhases, PagedCounts, PagesSound, GivenSound, Paged!PagedNext
  PROVE  GivenSound'
<1> USE LimitsAre
    DEF PagedFlags, PagedPhases, PagedCounts, PagesSound, GivenSound,
        Paged!setup, Paged!consumer, Paged!command, Paged!sandbox, Paged!spools,
        Paged!repairing, Paged!outcome, Paged!Replies
<1>1. CASE Paged!CommandOpens
  BY <1>1 DEF Paged!CommandOpens, Paged!Opened, Paged!Fails, Paged!Ends, Paged!Level
<1>2. CASE Paged!ClaudeOpens
  BY <1>2 DEF Paged!ClaudeOpens, Paged!Opened
<1>3. CASE Paged!CopilotOpens
  BY <1>3 DEF Paged!CopilotOpens, Paged!Opened, Paged!Fails, Paged!Ends, Paged!Level
<1>4. CASE Paged!CodexOpens
  BY <1>4 DEF Paged!CodexOpens, Paged!Opened, Paged!Fails, Paged!Ends, Paged!Level
<1>5. CASE Paged!ClaudeAsks
  BY <1>5 DEF Paged!ClaudeAsks, Paged!Asking, Paged!Sends, Paged!Fails, Paged!Ends, Paged!Level
<1>6. CASE Paged!CopilotAsks
  BY <1>6 DEF Paged!CopilotAsks, Paged!Asking, Paged!Sends
<1>7. CASE Paged!CodexAsks
  BY <1>7 DEF Paged!CodexAsks, Paged!Asking, Paged!Sends
<1>8. CASE Paged!ClaudeReads
  BY <1>8
    DEF Paged!ClaudeReads, Paged!Read, Paged!Fails, Paged!Ends, Paged!Level,
        Paged!FailsAbandoned, Paged!Abandon, Paged!LeavesSandbox, Paged!NeedsCoverage,
        Paged!AsksCoverage, Paged!Yields, Paged!Takes, Paged!HandOver
<1>9. CASE Paged!CopilotReads
  BY <1>9
    DEF Paged!CopilotReads, Paged!Read, Paged!Kept, Paged!Fails, Paged!Ends, Paged!Level,
        Paged!FailsAbandoned, Paged!Abandon, Paged!NeedsCoverage, Paged!AsksCoverage,
        Paged!Yields, Paged!Takes, Paged!HandOver
<1>10. CASE Paged!CodexReads
  <2>1. CASE Paged!Fails
    BY <1>10, <2>1 DEF Paged!CodexReads, Paged!Read, Paged!Kept, Paged!Fails, Paged!Ends
  <2>2. CASE Paged!FailsAbandoned
    BY <1>10, <2>2
      DEF Paged!CodexReads, Paged!Read, Paged!Kept, Paged!FailsAbandoned, Paged!Abandon,
          Paged!Ends
  <2>3. CASE Paged!Takes
    BY <1>10, <2>3
      DEF Paged!CodexReads, Paged!Read, Paged!Kept, Paged!Takes, Paged!HandOver, Paged!Fails,
          Paged!Ends
  <2>4. QED
    BY <1>10, <2>1, <2>2, <2>3 DEF Paged!CodexReads
<1>11. CASE Paged!CommandReads
  BY <1>11 DEF Paged!CommandReads, Paged!Read, Paged!CommandTakes, Paged!Abandon
<1>12. CASE Paged!CommandEnds
  BY <1>12 DEF Paged!CommandEnds
<1>13. CASE Paged!Accepts
  BY <1>13 DEF Paged!Accepts, Paged!Yields
<1>14. CASE Paged!Rejects
  BY <1>14
    DEF Paged!Rejects, Paged!Yields, Paged!FailsAbandoned, Paged!Abandon, Paged!Ends,
        Paged!Level
<1>15. CASE Paged!Assembles
  <2>1. CASE Paged!HandOver
    BY <1>15, <2>1
      DEF Paged!Assembles, Paged!HandOver, Paged!FailsAbandoned, Paged!Abandon, Paged!Ends,
          Paged!Level
  <2>2. CASE ~Paged!HandOver
    BY <1>15, <2>2
      DEF Paged!Assembles, Paged!HandOver, Paged!FailsAbandoned, Paged!Abandon, Paged!Ends,
          Paged!Level
  <2>3. QED
    BY <2>1, <2>2
<1>16. CASE Paged!Settles
  BY <1>16 DEF Paged!Settles, Paged!HandOver, Paged!Fails, Paged!Ends, Paged!Level
<1>17. CASE Paged!Closes
  BY <1>17 DEF Paged!Closes, Paged!Abandon
<1>18. CASE Paged!Answers
  BY <1>18 DEF Paged!Answers, Paged!Said
<1>19. CASE Paged!Unboxable
  BY <1>19 DEF Paged!Unboxable, Paged!Said
<1>20. CASE Paged!Writes
  BY <1>20 DEF Paged!Writes, Paged!Said
<1>21. CASE Paged!Claims
  BY <1>21 DEF Paged!Claims
<1>22. CASE Paged!Quits
  BY <1>22 DEF Paged!Quits, Paged!Exits
<1>23. CASE Paged!Active
  BY <1>23 DEF Paged!Active
<1>24. CASE Paged!Severed
  BY <1>24 DEF Paged!Severed, Paged!Said
<1>25. CASE Paged!Killed
  BY <1>25 DEF Paged!Killed, Paged!Exits
<1>26. CASE Paged!CopilotCrashes
  BY <1>26 DEF Paged!CopilotCrashes
<1>27. CASE Paged!Pulls
  BY <1>27 DEF Paged!Pulls
<1>28. CASE Paged!Refuses
  BY <1>28 DEF Paged!Refuses
<1>29. CASE Paged!Aborts
  BY <1>29 DEF Paged!Aborts
<1>30. CASE Paged!Forces
  BY <1>30 DEF Paged!Forces
<1>31. QED
  BY <1>1, <1>2, <1>3, <1>4, <1>5, <1>6, <1>7, <1>8, <1>9, <1>10, <1>11, <1>12, <1>13, <1>14,
     <1>15, <1>16, <1>17, <1>18, <1>19, <1>20, <1>21, <1>22, <1>23, <1>24, <1>25, <1>26,
     <1>27, <1>28, <1>29, <1>30
  DEF Paged!PagedNext, Paged!Adapter, Paged!Provider

LEMMA SandboxStays ==
  ASSUME PagedFlags, PagedPhases, PagesSound, SandboxSound, Paged!PagedNext
  PROVE  SandboxSound'
<1> USE LimitsAre
    DEF PagedFlags, PagedPhases, PagesSound, SandboxSound,
        Paged!setup, Paged!consumer, Paged!command, Paged!sandbox, Paged!spools,
        Paged!repairing, Paged!outcome, Paged!Replies
<1>1. CASE Paged!CommandOpens
  BY <1>1 DEF Paged!CommandOpens, Paged!Opened, Paged!Fails, Paged!Ends, Paged!Level
<1>2. CASE Paged!ClaudeOpens
  BY <1>2 DEF Paged!ClaudeOpens, Paged!Opened
<1>3. CASE Paged!CopilotOpens
  BY <1>3 DEF Paged!CopilotOpens, Paged!Opened, Paged!Fails, Paged!Ends, Paged!Level
<1>4. CASE Paged!CodexOpens
  BY <1>4 DEF Paged!CodexOpens, Paged!Opened, Paged!Fails, Paged!Ends, Paged!Level
<1>5. CASE Paged!ClaudeAsks
  BY <1>5 DEF Paged!ClaudeAsks, Paged!Asking, Paged!Sends, Paged!Fails, Paged!Ends, Paged!Level
<1>6. CASE Paged!CopilotAsks
  BY <1>6 DEF Paged!CopilotAsks, Paged!Asking, Paged!Sends
<1>7. CASE Paged!CodexAsks
  BY <1>7 DEF Paged!CodexAsks, Paged!Asking, Paged!Sends
<1>8. CASE Paged!ClaudeReads
  BY <1>8
    DEF Paged!ClaudeReads, Paged!Read, Paged!Fails, Paged!Ends, Paged!Level,
        Paged!FailsAbandoned, Paged!Abandon, Paged!LeavesSandbox, Paged!NeedsCoverage,
        Paged!AsksCoverage, Paged!Yields, Paged!Takes, Paged!HandOver
<1>9. CASE Paged!CopilotReads
  BY <1>9
    DEF Paged!CopilotReads, Paged!Read, Paged!Kept, Paged!Fails, Paged!Ends, Paged!Level,
        Paged!FailsAbandoned, Paged!Abandon, Paged!NeedsCoverage, Paged!AsksCoverage,
        Paged!Yields, Paged!Takes, Paged!HandOver
<1>10. CASE Paged!CodexReads
  BY <1>10
    DEF Paged!CodexReads, Paged!Read, Paged!Kept, Paged!Fails, Paged!Ends, Paged!Level,
        Paged!FailsAbandoned, Paged!Abandon, Paged!Takes, Paged!HandOver
<1>11. CASE Paged!CommandReads
  BY <1>11 DEF Paged!CommandReads, Paged!Read, Paged!CommandTakes, Paged!Abandon
<1>12. CASE Paged!CommandEnds
  BY <1>12 DEF Paged!CommandEnds
<1>13. CASE Paged!Accepts
  BY <1>13 DEF Paged!Accepts, Paged!Yields
<1>14. CASE Paged!Rejects
  BY <1>14
    DEF Paged!Rejects, Paged!Yields, Paged!FailsAbandoned, Paged!Abandon, Paged!Ends,
        Paged!Level
<1>15. CASE Paged!Assembles
  <2>1. CASE Paged!HandOver
    BY <1>15, <2>1
      DEF Paged!Assembles, Paged!HandOver, Paged!FailsAbandoned, Paged!Abandon, Paged!Ends,
          Paged!Level
  <2>2. CASE ~Paged!HandOver
    BY <1>15, <2>2
      DEF Paged!Assembles, Paged!HandOver, Paged!FailsAbandoned, Paged!Abandon, Paged!Ends,
          Paged!Level
  <2>3. QED
    BY <2>1, <2>2
<1>16. CASE Paged!Settles
  BY <1>16 DEF Paged!Settles, Paged!HandOver, Paged!Fails, Paged!Ends, Paged!Level
<1>17. CASE Paged!Closes
  BY <1>17 DEF Paged!Closes, Paged!Abandon
<1>18. CASE Paged!Answers
  BY <1>18 DEF Paged!Answers, Paged!Said
<1>19. CASE Paged!Unboxable
  BY <1>19 DEF Paged!Unboxable, Paged!Said
<1>20. CASE Paged!Writes
  BY <1>20 DEF Paged!Writes, Paged!Said
<1>21. CASE Paged!Claims
  BY <1>21 DEF Paged!Claims
<1>22. CASE Paged!Quits
  BY <1>22 DEF Paged!Quits, Paged!Exits
<1>23. CASE Paged!Active
  BY <1>23 DEF Paged!Active
<1>24. CASE Paged!Severed
  BY <1>24 DEF Paged!Severed, Paged!Said
<1>25. CASE Paged!Killed
  BY <1>25 DEF Paged!Killed, Paged!Exits
<1>26. CASE Paged!CopilotCrashes
  BY <1>26 DEF Paged!CopilotCrashes
<1>27. CASE Paged!Pulls
  BY <1>27 DEF Paged!Pulls
<1>28. CASE Paged!Refuses
  BY <1>28 DEF Paged!Refuses
<1>29. CASE Paged!Aborts
  BY <1>29 DEF Paged!Aborts
<1>30. CASE Paged!Forces
  BY <1>30 DEF Paged!Forces
<1>31. QED
  BY <1>1, <1>2, <1>3, <1>4, <1>5, <1>6, <1>7, <1>8, <1>9, <1>10, <1>11, <1>12, <1>13, <1>14,
     <1>15, <1>16, <1>17, <1>18, <1>19, <1>20, <1>21, <1>22, <1>23, <1>24, <1>25, <1>26,
     <1>27, <1>28, <1>29, <1>30
  DEF Paged!PagedNext, Paged!Adapter, Paged!Provider

LEMMA PagedSteps == PagedInv /\ Paged!PagedNext => PagedInv'
<1> SUFFICES ASSUME PagedInv, Paged!PagedNext PROVE PagedInv'
  OBVIOUS
<1>1. /\ PagedFlags /\ PagedPhases /\ PagedCounts
      /\ PagesSound /\ RequestsSound /\ GivenSound /\ SandboxSound
  BY PagedTypesAre DEF PagedInv
<1>2. PagedFlags' /\ PagedPhases' /\ PagedCounts'
  BY <1>1, PagedFlagsStay, PagedPhasesStay, PagedCountsStay
<1>3. Paged!PagedTypeOK'
  BY <1>2 DEF Paged!PagedTypeOK, PagedFlags, PagedPhases, PagedCounts
<1>4. QED
  BY <1>1, <1>3, PagesStay, RequestsStay, GivenStays, SandboxStays DEF PagedInv

LEMMA PagedRests == PagedInv /\ UNCHANGED pagedVars => PagedInv'
BY DEF PagedInv, Paged!PagedTypeOK, PagesSound, RequestsSound, Paid, GivenSound, SandboxSound,
       pagedVars

\* With the last page everything is paid for; before it one page is still owed, for
\* which every repair may be spent.
LEMMA PagedIsHonest ==
  PagedInv => /\ Paged!PagedTypeOK /\ Paged!EveryPageHasAnOwner
              /\ Paged!IsolationIsHonest /\ Paged!TurnsAreBounded
<1> SUFFICES ASSUME PagedInv
             PROVE  /\ Paged!PagedTypeOK /\ Paged!EveryPageHasAnOwner
                    /\ Paged!IsolationIsHonest /\ Paged!TurnsAreBounded
  OBVIOUS
<1> USE LimitsAre
<1>1. /\ PagedFlags /\ PagedPhases /\ PagedCounts
      /\ PagesSound /\ RequestsSound /\ GivenSound /\ SandboxSound /\ Paged!PagedTypeOK
  BY PagedTypesAre DEF PagedInv
<1>2. Paged!EveryPageHasAnOwner /\ Paged!IsolationIsHonest
  BY <1>1 DEF PagesSound, GivenSound, SandboxSound, Paged!EveryPageHasAnOwner,
              Paged!IsolationIsHonest
<1>3. Paged!TurnsAreBounded
  <2>1. page \in Nat /\ page <= Pages /\ asked \in Nat
    BY <1>1 DEF PagedCounts
  <2>2. Turns(Pages) \in Nat /\ Turns(page) \in Nat
    BY <2>1, TurnsAre
  <2>3. asked <= Turns(Pages) + CoverageTurns + 1
    <3>1. CASE adapter = "command"
      <4>1. Turns(0) \in Nat /\ Turns(0) = 0
        BY TurnsAre DEF Turns
      <4>2. asked <= Pages
        BY <1>1, <3>1 DEF PagesSound
      <4>3. Pages <= Turns(Pages)
        <5>1. PICK n \in Nat, r \in Nat : n = Pages /\ r = PageRepairs
          OBVIOUS
        <5>2. n * (r + 1) = n * r + n /\ n * r \in Nat
          BY <5>1
        <5>3. QED
          BY <5>1, <5>2 DEF Turns
      <4>4. QED
        BY <2>1, <2>2, <4>2, <4>3
    <3>2. CASE adapter # "command" /\ page = Pages
      BY <1>1, <2>1, <2>2, <3>2 DEF RequestsSound, Paid, PagedCounts, PagedFlags
    <3>3. CASE adapter # "command" /\ page < Pages
      <4>1. Turns(page) + PageRepairs + 1 <= Turns(Pages)
        BY <2>1, <3>3, TurnsUpTo
      <4>2. asked <= Turns(page) + repairs + coverage + 1 + 1
        BY <1>1, <2>1, <2>2, <3>3 DEF RequestsSound, Paid, PagedCounts
      <4>3. QED
        BY <1>1, <2>1, <2>2, <4>1, <4>2 DEF PagedCounts
    <3>4. QED
      BY <2>1, <3>1, <3>2, <3>3
  <2>4. QED
    BY <2>3 DEF Paged!TurnsAreBounded, Turns
<1>4. QED
  BY <1>1, <1>2, <1>3

-----------------------------------------------------------------------------
(* The pages of a result: every step.                                      *)

LEMMA CollectorLimitsAre ==
  /\ PerPage \in Nat \ {0} /\ MaxItems \in Nat /\ Candidates \in Seq(Ids)
  BY ConversationsAssumption

LEMMA ItemsAre ==
  ASSUME NEW x \in Results!Item, NEW y \in Results!Item, x.id = y.id, x.content = y.content
  PROVE  x = y
  BY DEF Results!Item

LEMMA PagesHold ==
  ASSUME NEW items \in Results!Items
  PROVE  items \in Seq(Results!Item)
<1>1. PICK n \in 1..MaxItems : items \in [1..n -> Results!Item]
  BY DEF Results!Items
<1>2. n \in Nat
  BY <1>1, CollectorLimitsAre
<1> QED
  BY <1>1, <1>2

LEMMA OfferedAre ==
  ASSUME resultKind \in {"reviewer", "adjudication"}, NEW p \in Results!Offered
  PROVE  /\ p.is \in {"header", "narrative", "coverage"} \/ p.items \in Seq(Results!Item)
         /\ p.is \in {"header", "narrative", "coverage", "findings", "decisions"}
         /\ p.is = "findings" => resultKind = "reviewer"
         /\ p.is = "decisions" => resultKind = "adjudication"
<1>1. CASE p \in Results!Header
  BY <1>1 DEF Results!Header
<1>2. CASE p \in Results!Plain /\ resultKind = "reviewer"
  BY <1>2 DEF Results!Plain
<1>3. CASE p \in Results!Findings /\ resultKind = "reviewer"
  BY <1>3, PagesHold DEF Results!Findings
<1>4. CASE p = [is |-> "header", verdict |-> "pass"]
  BY <1>4
<1>5. CASE p \in Results!Decisions /\ resultKind = "adjudication"
  BY <1>5, PagesHold DEF Results!Decisions
<1> QED
  BY <1>1, <1>2, <1>3, <1>4, <1>5 DEF Results!Offered

\* A set of natural numbers has a least element.
LEMMA LeastOf ==
  ASSUME NEW S \in SUBSET Nat, S # {}
  PROVE  \E n \in S : \A m \in S : n <= m
<1>1. PICK R : R = OpToRel(<, Nat)
  OBVIOUS
<1>2. IsWellFoundedOn(R, Nat)
  BY <1>1, NatLessThanWellFounded
<1>3. R = {ss \in Nat \X Nat : ss[1] < ss[2]}
  BY <1>1 DEF OpToRel
<1>4. PICK n \in S : \A m \in S : <<m, n>> \notin R
  BY <1>2, WFMin
<1>5. ASSUME NEW m \in S PROVE n <= m
  <2>1. <<m, n>> \in Nat \X Nat /\ <<m, n>>[1] = m /\ <<m, n>>[2] = n
    OBVIOUS
  <2>2. ~(m < n)
    BY <1>3, <1>4, <2>1
  <2> QED
    BY <2>2
<1> QED
  BY <1>5

\* The least of some places in a sequence.
LEMMA FirstStopIs ==
  ASSUME NEW n \in Nat, NEW S \in SUBSET (1..n), S # {}
  PROVE  Results!Min(S) \in S /\ \A i \in S : Results!Min(S) <= i
<1>1. S \in SUBSET Nat
  OBVIOUS
<1>2. \E m \in S : \A i \in S : m <= i
  BY <1>1, LeastOf
<1> QED
  BY <1>2 DEF Results!Min

LEMMA AssignedAreCandidates ==
  ASSUME accepted.pages \in Nat
  PROVE  Results!Range(Results!Assigned) \subseteq Results!Range(Candidates)
<1>1. CASE accepted.pages = 0
  BY <1>1 DEF Results!Assigned, Results!Range
<1>2. CASE accepted.pages # 0
  <2> DEFINE d == accepted.pages - 1
             m == d * PerPage + 1
             last == accepted.pages * PerPage
             n == IF last < Len(Candidates) THEN last ELSE Len(Candidates)
  <2>1. d \in Nat /\ PerPage \in Nat /\ accepted.pages \in Nat
    BY <1>2, CollectorLimitsAre
  <2>2. d * PerPage \in Nat /\ last \in Nat
    BY <2>1
  <2>3. m \in Nat \ {0} /\ n \in Nat /\ n <= Len(Candidates)
    BY <2>2, CollectorLimitsAre
  <2>4. Results!Assigned = SubSeq(Candidates, m, n)
    BY <1>2 DEF Results!Assigned
  <2> HIDE DEF m, n
  <2>5. ASSUME NEW i \in DOMAIN SubSeq(Candidates, m, n)
        PROVE  SubSeq(Candidates, m, n)[i] \in Results!Range(Candidates)
    <3>1. /\ i \in 1..(n - m + 1)
          /\ SubSeq(Candidates, m, n)[i] = Candidates[m + i - 1]
      BY <2>3, <2>5, CollectorLimitsAre
    <3>2. m + i - 1 \in 1..Len(Candidates)
      BY <2>3, <3>1, CollectorLimitsAre
    <3> QED
      BY <3>1, <3>2, CollectorLimitsAre DEF Results!Range
  <2> QED
    BY <2>4, <2>5 DEF Results!Range
<1> QED
  BY <1>1, <1>2

\* What the findings before the i-th oblige to, when none of them ends the page.
LEMMA FindingsKeep ==
  ASSUME resultKind = "reviewer", KeptSound(kept), NEW items \in Seq(Results!Item),
         NEW i \in 1..(Len(items) + 1),
         \A j \in 1..(i - 1) : ~Results!FindingStops(items, j)
  PROVE  /\ KeptSound(Results!KnownFindings(items, i))
         /\ kept.items \subseteq Results!KnownFindings(items, i).items
         /\ \A j \in 1..(i - 1) :
              Results!Valid(items[j]) => items[j] \in Results!KnownFindings(items, i).items
<1> DEFINE known == Results!KnownFindings(items, i)
           shown == {items[j] : j \in 1..(i - 1)}
<1>1. /\ DOMAIN known = KeptFields
      /\ known.ids = kept.ids \cup {x.id : x \in shown}
      /\ known.items = kept.items \cup {x \in shown : Results!Valid(x)}
  BY DEF Results!KnownFindings, KeptSound, KeptFields
<1>2. \A j \in 1..(i - 1) :
        j \in 1..Len(items) /\ j \in 1..(Len(items) + 1) /\ items[j] \in Results!Item
  OBVIOUS
<1>3. ASSUME NEW j \in 1..(i - 1), Results!Valid(items[j]),
             NEW x \in kept.items
                         \cup {items[l] : l \in {l \in 1..(j - 1) : Results!Valid(items[l])}},
             x.id = items[j].id
      PROVE  x = items[j]
  <2> DEFINE before == Results!KnownFindings(items, j)
  <2>1. before.items = kept.items \cup {y \in {items[l] : l \in 1..(j - 1)} : Results!Valid(y)}
    BY DEF Results!KnownFindings, KeptSound, KeptFields
  <2>2. x \in before.items
    BY <1>3, <2>1
  <2>3. ~Results!Contradicts(before, items[j])
    BY DEF Results!FindingStops
  <2>4. x.content = items[j].content
    BY <1>3, <2>2, <2>3 DEF Results!Contradicts
  <2>5. x \in Results!Item
    BY <1>2, <1>3 DEF KeptSound
  <2> QED
    BY <1>2, <1>3, <2>4, <2>5, ItemsAre
<1>4. ASSUME NEW x \in known.items, NEW y \in known.items, x.id = y.id
      PROVE  x = y
  <2>1. CASE x \in kept.items /\ y \in kept.items
    BY <1>4, <2>1 DEF KeptSound
  <2>2. CASE x \in kept.items /\ y \in shown /\ Results!Valid(y)
    BY <1>3, <1>4, <2>2
  <2>3. CASE y \in kept.items /\ x \in shown /\ Results!Valid(x)
    BY <1>3, <1>4, <2>3
  <2>4. CASE x \in shown /\ Results!Valid(x) /\ y \in shown /\ Results!Valid(y)
    <3>1. PICK l \in 1..(i - 1), j \in 1..(i - 1) : x = items[l] /\ y = items[j]
      BY <2>4
    <3>2. CASE l = j
      BY <3>1, <3>2
    <3>3. CASE l < j
      <4>1. l \in 1..(j - 1)
        BY <3>3
      <4> QED
        BY <1>3, <1>4, <2>4, <3>1, <4>1
    <3>4. CASE j < l
      <4>1. j \in 1..(l - 1)
        BY <3>4
      <4> QED
        BY <1>3, <1>4, <2>4, <3>1, <4>1
    <3> QED
      BY <3>2, <3>3, <3>4
  <2> QED
    BY <1>1, <2>1, <2>2, <2>3, <2>4
<1>5. known.items \subseteq Results!Item
  BY <1>1, <1>2 DEF KeptSound
<1>6. \A x \in known.items : x.id \in known.ids
  BY <1>1 DEF KeptSound
<1>7. KeptSound(known)
  BY <1>1, <1>4, <1>5, <1>6 DEF KeptSound
<1> QED
  BY <1>1, <1>7

LEMMA DecisionsKeep ==
  ASSUME resultKind = "adjudication", KeptSound(kept), accepted.pages \in Nat,
         NEW items \in Seq(Results!Item), NEW i \in 1..(Len(items) + 1),
         \A j \in Results!Counting(items) :
           j < i => ~Results!Contradicts(Results!KnownDecisions(items, j), items[j])
  PROVE  /\ KeptSound(Results!KnownDecisions(items, i))
         /\ kept.items \subseteq Results!KnownDecisions(items, i).items
         /\ \A j \in Results!Counting(items) :
              j < i => items[j] \in Results!KnownDecisions(items, i).items
<1> DEFINE known == Results!KnownDecisions(items, i)
           places == {j \in Results!Counting(items) : j < i}
<1>1. /\ DOMAIN known = KeptFields
      /\ known.items = kept.items \cup {items[j] : j \in places}
  BY DEF Results!KnownDecisions, KeptSound, KeptFields
<1>2. \A j \in Results!Counting(items) :
        /\ j \in 1..Len(items) /\ items[j] \in Results!Item /\ Results!Valid(items[j])
        /\ items[j].id \in Results!Range(Candidates)
  BY AssignedAreCandidates DEF Results!Counting, Results!Counts
<1>3. ASSUME NEW j \in places,
             NEW x \in kept.items \cup {items[l] : l \in {l \in places : l < j}},
             x.id = items[j].id
      PROVE  x = items[j]
  <2> DEFINE before == Results!KnownDecisions(items, j)
  <2>1. before.items =
          kept.items \cup {items[l] : l \in {n \in Results!Counting(items) : n < j}}
    BY DEF Results!KnownDecisions, KeptSound, KeptFields
  <2>2. x \in before.items
    BY <1>3, <2>1
  <2>3. ~Results!Contradicts(before, items[j])
    OBVIOUS
  <2>4. x.content = items[j].content
    BY <1>2, <1>3, <2>2, <2>3 DEF Results!Contradicts
  <2>5. x \in Results!Item
    BY <1>2, <1>3 DEF KeptSound
  <2> QED
    BY <1>2, <1>3, <2>4, <2>5, ItemsAre
<1>4. ASSUME NEW x \in known.items, NEW y \in known.items, x.id = y.id
      PROVE  x = y
  <2>1. CASE x \in kept.items /\ y \in kept.items
    BY <1>4, <2>1 DEF KeptSound
  <2>2. CASE x \in kept.items /\ \E j \in places : y = items[j]
    BY <1>3, <1>4, <2>2
  <2>3. CASE y \in kept.items /\ \E j \in places : x = items[j]
    BY <1>3, <1>4, <2>3
  <2>4. CASE (\E j \in places : x = items[j]) /\ (\E j \in places : y = items[j])
    <3>1. PICK l \in places, j \in places : x = items[l] /\ y = items[j]
      BY <2>4
    <3>0. l \in Int /\ j \in Int
      BY <1>2
    <3>2. CASE l = j
      BY <3>1, <3>2
    <3>3. CASE l < j
      BY <1>3, <1>4, <3>1, <3>3
    <3>4. CASE j < l
      BY <1>3, <1>4, <3>1, <3>4
    <3> QED
      BY <3>0, <3>2, <3>3, <3>4
  <2> QED
    BY <1>1, <2>1, <2>2, <2>3, <2>4
<1>5. known.items \subseteq Results!Item
  BY <1>1, <1>2 DEF KeptSound
<1>6. \A x \in known.items : x.id \in Results!Range(Candidates)
  BY <1>1, <1>2 DEF KeptSound
<1>7. KeptSound(known)
  BY <1>1, <1>4, <1>5, <1>6 DEF KeptSound
<1> QED
  BY <1>1, <1>7
\* What a page obliges to: nothing kept is lost, and of a page that contradicts
\* nothing every valid item is kept.
LEMMA ObligedKeeps ==
  ASSUME ResultInv, NEW p \in Results!Offered, NEW form
  PROVE  LET o == Results!Obliged(p, form) IN
         /\ KeptSound(o.kept)
         /\ kept.items \subseteq o.kept.items
         /\ o.stop = "no" /\ p.is = "findings" =>
              \A i \in DOMAIN p.items :
                Results!Valid(p.items[i]) => p.items[i] \in o.kept.items
         /\ o.stop = "no" /\ p.is = "decisions" /\ form # "chain" =>
              \A i \in DOMAIN p.items :
                i \in Results!Counting(p.items) => p.items[i] \in o.kept.items
<1> DEFINE o == Results!Obliged(p, form)
<1>1. /\ p.is \in {"header", "narrative", "coverage"} \/ p.items \in Seq(Results!Item)
      /\ p.is \in {"header", "narrative", "coverage", "findings", "decisions"}
      /\ p.is = "findings" => resultKind = "reviewer"
      /\ p.is = "decisions" => resultKind = "adjudication"
  BY OfferedAre DEF ResultInv
<1>2. CASE p.is = "header" /\ resultKind = "reviewer"
  <2>1. /\ DOMAIN o.kept = KeptFields /\ o.kept.items = kept.items /\ o.kept.ids = kept.ids
    BY <1>2 DEF Results!Obliged, Results!Before, ResultInv, KeptSound, KeptFields
  <2> QED
    BY <1>2, <2>1 DEF ResultInv, KeptSound
<1>3. CASE p.is = "findings"
  <2> DEFINE items == p.items
             stops == {i \in DOMAIN items : Results!FindingStops(items, i)}
             least == Results!Min(stops)
  <2>1. o = Results!KeepFindings(items)
    BY <1>3 DEF Results!Obliged
  <2>2. items \in Seq(Results!Item) /\ Len(items) \in Nat /\ DOMAIN items = 1..Len(items)
    BY <1>1, <1>3
  <2> HIDE DEF items, least
  <2>3. CASE stops = {}
    <3> DEFINE n == Len(items) + 1
    <3>1. o.kept = Results!KnownFindings(items, n)
      BY <2>1, <2>3 DEF Results!KeepFindings
    <3>2. n \in 1..(Len(items) + 1) /\ 1..(n - 1) = DOMAIN items
      BY <2>2
    <3>3. \A j \in 1..(n - 1) : ~Results!FindingStops(items, j)
      BY <2>3, <3>2
    <3> HIDE DEF n, o
    <3>4. /\ KeptSound(Results!KnownFindings(items, n))
          /\ kept.items \subseteq Results!KnownFindings(items, n).items
          /\ \A j \in 1..(n - 1) :
               Results!Valid(items[j]) => items[j] \in Results!KnownFindings(items, n).items
      BY <1>1, <1>3, <2>2, <3>2, <3>3, FindingsKeep DEF ResultInv
    <3> QED
      BY <1>3, <3>1, <3>2, <3>4 DEF items, o
  <2>4. CASE stops # {}
    <3>1. least \in stops /\ \A i \in stops : least <= i
      <4>1. stops \in SUBSET (1..Len(items))
        BY <2>2
      <4> QED
        BY <2>2, <2>4, <4>1, FirstStopIs DEF least
    <3>2. /\ least \in 1..(Len(items) + 1)
          /\ \A j \in 1..(least - 1) : ~Results!FindingStops(items, j)
      BY <2>2, <3>1
    <3>3. /\ KeptSound(Results!KnownFindings(items, least))
          /\ kept.items \subseteq Results!KnownFindings(items, least).items
      BY <1>1, <1>3, <2>2, <3>2, FindingsKeep DEF ResultInv
    <3>4. /\ o.stop # "no"
          /\ \/ o.kept = Results!KnownFindings(items, least)
             \/ o.kept = [Results!KnownFindings(items, least)
                            EXCEPT !.ids = @ \cup {items[least].id}]
      BY <2>1, <2>4 DEF Results!KeepFindings, least
    <3> DEFINE known == Results!KnownFindings(items, least)
    <3> HIDE DEF known
    <3>5. /\ DOMAIN o.kept = KeptFields /\ o.kept.items = known.items
          /\ known.ids \subseteq o.kept.ids
      BY <3>3, <3>4 DEF KeptSound, KeptFields, known
    <3>6. KeptSound(o.kept)
      BY <3>3, <3>5 DEF KeptSound, known
    <3> QED
      BY <1>3, <3>3, <3>4, <3>5, <3>6 DEF known
  <2> QED
    BY <2>3, <2>4
<1>4. CASE p.is = "decisions" /\ form # "chain"
  <2> DEFINE items == p.items
             stops == {i \in Results!Counting(items) :
                         Results!Contradicts(Results!KnownDecisions(items, i), items[i])}
             least == Results!Min(stops)
  <2>1. o = Results!KeepDecisions(items)
    BY <1>4 DEF Results!Obliged
  <2>2. items \in Seq(Results!Item) /\ Len(items) \in Nat /\ DOMAIN items = 1..Len(items)
    BY <1>1, <1>4
  <2>a. accepted.pages \in Nat
    BY DEF ResultInv, AcceptedSound
  <2>b. Results!Counting(items) \subseteq DOMAIN items
    BY DEF Results!Counting
  <2> HIDE DEF items, least
  <2>3. CASE stops = {}
    <3> DEFINE n == Len(items) + 1
    <3>1. o.kept = Results!KnownDecisions(items, n)
      BY <2>1, <2>3 DEF Results!KeepDecisions
    <3>2. n \in 1..(Len(items) + 1) /\ \A j \in Results!Counting(items) : j < n
      BY <2>2, <2>b
    <3>3. \A j \in Results!Counting(items) :
            j < n => ~Results!Contradicts(Results!KnownDecisions(items, j), items[j])
      BY <2>3
    <3> HIDE DEF n, o
    <3>4. /\ KeptSound(Results!KnownDecisions(items, n))
          /\ kept.items \subseteq Results!KnownDecisions(items, n).items
          /\ \A j \in Results!Counting(items) :
               j < n => items[j] \in Results!KnownDecisions(items, n).items
      BY <1>1, <1>4, <2>2, <2>a, <3>2, <3>3, DecisionsKeep DEF ResultInv
    <3> QED
      BY <1>4, <2>b, <3>1, <3>2, <3>4 DEF items, o
  <2>4. CASE stops # {}
    <3>1. least \in stops /\ \A i \in stops : least <= i
      <4>1. stops \in SUBSET (1..Len(items))
        BY <2>2, <2>b
      <4> QED
        BY <2>2, <2>4, <4>1, FirstStopIs DEF least
    <3>2. /\ least \in 1..(Len(items) + 1)
          /\ \A j \in Results!Counting(items) :
               j < least => ~Results!Contradicts(Results!KnownDecisions(items, j), items[j])
      BY <2>2, <2>b, <3>1
    <3>3. /\ KeptSound(Results!KnownDecisions(items, least))
          /\ kept.items \subseteq Results!KnownDecisions(items, least).items
      BY <1>1, <1>4, <2>2, <2>a, <3>2, DecisionsKeep DEF ResultInv
    <3>4. /\ o.stop # "no"
          /\ o.kept = Results!KnownDecisions(items, least)
      BY <2>1, <2>4 DEF Results!KeepDecisions, least
    <3> QED
      BY <1>4, <3>3, <3>4
  <2> QED
    BY <2>3, <2>4
<1>5. CASE /\ ~(p.is = "header" /\ resultKind = "reviewer")
           /\ p.is # "findings" /\ ~(p.is = "decisions" /\ form # "chain")
  <2>1. o.kept = kept
    BY <1>5 DEF Results!Obliged, Results!Before
  <2> QED
    BY <1>5, <2>1 DEF ResultInv
<1> QED
  BY <1>2, <1>3, <1>4, <1>5

\* A page that fits is kept as it is; the header only raises what it declares.
LEMMA DeclaredKeeps ==
  ASSUME NEW p, NEW k, KeptSound(k)
  PROVE  /\ KeptSound(Results!Declared(p, k))
         /\ Results!Declared(p, k).items = k.items /\ Results!Declared(p, k).ids = k.ids
<1>1. /\ DOMAIN Results!Declared(p, k) = KeptFields
      /\ Results!Declared(p, k).items = k.items /\ Results!Declared(p, k).ids = k.ids
  BY DEF Results!Declared, KeptSound, KeptFields
<1> QED
  BY <1>1 DEF KeptSound

\* The collector takes the items of a page of items, and no others.
LEMMA TakenIs ==
  ASSUME ResultInv, NEW p \in Results!Offered
  PROVE  LET t == Results!Taken(p) IN
         /\ DOMAIN t = CollectorFields /\ t.pages = accepted.pages + 1
         /\ t.items = IF p.is \in {"findings", "decisions"} THEN accepted.items \o p.items
                                                           ELSE accepted.items
  BY DEF Results!Taken, ResultInv, AcceptedSound, CollectorFields

LEMMA AcceptedPageIsKept ==
  ASSUME ResultInv, NEW p \in Results!Offered, NEW form, NEW o, o = Results!Obliged(p, form),
         o.stop = "no", form = "good", Results!FitsSchema(p, form),
         NEW ids, Results!Acceptable(p, o.kept, ids)
  PROVE  p.is \in {"findings", "decisions"} =>
           /\ p.items \in Seq(Results!Item)
           /\ \A i \in DOMAIN p.items : p.items[i] \in o.kept.items
<1> SUFFICES ASSUME p.is \in {"findings", "decisions"}
             PROVE  /\ p.items \in Seq(Results!Item)
                    /\ \A i \in DOMAIN p.items : p.items[i] \in o.kept.items
  OBVIOUS
<1>1. p.items \in Seq(Results!Item)
  BY OfferedAre DEF ResultInv
<1>2. \A i \in DOMAIN p.items : Results!Valid(p.items[i])
  BY DEF Results!FitsSchema
<1>3. CASE p.is = "findings"
  BY <1>1, <1>2, <1>3, ObligedKeeps
<1>4. CASE p.is = "decisions"
  <2>1. Results!IdSeq(p.items) = Results!Assigned
    BY <1>4 DEF Results!Acceptable
  <2>2. ASSUME NEW i \in DOMAIN p.items PROVE i \in Results!Counting(p.items)
    <3>1. i \in DOMAIN Results!Assigned /\ Results!Assigned[i] = p.items[i].id
      BY <2>1, <2>2 DEF Results!IdSeq
    <3>2. i \in Nat /\ i <= PerPage
      <4>1. Len(p.items) \in Nat /\ Len(p.items) <= PerPage /\ i \in 1..Len(p.items)
        BY <1>1, <2>2 DEF Results!FitsSchema
      <4> QED
        BY <4>1, CollectorLimitsAre
    <3> QED
      BY <1>1, <1>2, <3>1, <3>2 DEF Results!Counting, Results!Counts, Results!Range
  <2> QED
    BY <1>1, <1>4, <2>2, ObligedKeeps
<1> QED
  BY <1>3, <1>4

LEMMA ResultsStart == Results!Init => ResultInv
<1> SUFFICES ASSUME Results!Init PROVE ResultInv
  OBVIOUS
<1>1. /\ DOMAIN kept = KeptFields /\ kept.items = {} /\ kept.ids = {}
  BY DEF Results!Init, Results!Nothing, KeptFields
<1>2. /\ DOMAIN accepted = CollectorFields /\ accepted.pages = 0 /\ accepted.items = <<>>
  BY DEF Results!Init, Results!Empty, CollectorFields
<1>3. KeptSound(kept)
  BY <1>1 DEF KeptSound
<1>4. AcceptedSound
  BY <1>2 DEF AcceptedSound, Results!Init
<1> QED
  BY <1>3, <1>4 DEF ResultInv, DeliveredSound, Results!Init

LEMMA AddPageKeeps ==
  ASSUME ResultInv, NEW p \in Results!Offered, NEW form, Results!AddPage(p, form)
  PROVE  ResultInv'
<1> DEFINE o == Results!Obliged(p, form)
           fits == o.stop = "no" /\ Results!FitsSchema(p, form)
<1>1. /\ KeptSound(o.kept) /\ kept.items \subseteq o.kept.items
      /\ o.stop = "no" /\ p.is = "findings" =>
           \A i \in DOMAIN p.items : Results!Valid(p.items[i]) => p.items[i] \in o.kept.items
      /\ o.stop = "no" /\ p.is = "decisions" /\ form # "chain" =>
           \A i \in DOMAIN p.items :
             i \in Results!Counting(p.items) => p.items[i] \in o.kept.items
  BY ObligedKeeps
<1>2. /\ verdict = "open" /\ resultKind' = resultKind
      /\ kept' = IF fits THEN Results!Declared(p, o.kept) ELSE o.kept
      /\ Results!Remembered(p, form, o.stop)
  BY DEF Results!AddPage
<1>3. KeptSound(kept') /\ kept'.items = o.kept.items
  BY <1>1, <1>2, DeclaredKeeps
<1>4. KeptSound(kept)'
  BY <1>2, <1>3 DEF KeptSound
<1>5. history' \subseteq kept'.items
  <2>1. history \subseteq kept'.items
    BY <1>1, <1>3 DEF ResultInv, AcceptedSound
  <2>2. CASE p.is = "findings" /\ o.stop = "no"
    BY <1>1, <1>2, <1>3, <2>1, <2>2 DEF Results!Remembered
  <2>3. CASE p.is = "decisions" /\ o.stop = "no" /\ form # "chain"
    BY <1>1, <1>2, <1>3, <2>1, <2>3 DEF Results!Remembered
  <2>4. CASE history' = history
    BY <2>1, <2>4
  <2> QED
    BY <1>2, <2>2, <2>3, <2>4 DEF Results!Remembered
<1>6. CASE accepted' = accepted /\ verdict' \in {"open", "failed"}
  <2>1. AcceptedSound'
    BY <1>1, <1>3, <1>5, <1>6 DEF ResultInv, AcceptedSound
  <2>2. DeliveredSound'
    BY <1>6 DEF DeliveredSound
  <2> QED
    BY <1>2, <1>4, <2>1, <2>2 DEF ResultInv
<1>7. CASE /\ fits /\ form = "good" /\ Results!Acceptable(p, o.kept, o.page)
           /\ Results!Accepted(p)
  <2>1. /\ accepted' = Results!Taken(p)
        /\ verdict' = IF ~Results!Complete(accepted') THEN "open"
                      ELSE IF Results!Assembles(accepted') THEN "delivered" ELSE "failed"
    BY <1>7 DEF Results!Accepted
  <2>2. p.is \in {"findings", "decisions"} =>
          /\ p.items \in Seq(Results!Item)
          /\ \A i \in DOMAIN p.items : p.items[i] \in o.kept.items
    BY <1>7, AcceptedPageIsKept
  <2>3. /\ DOMAIN accepted' = CollectorFields /\ accepted'.pages = accepted.pages + 1
        /\ accepted'.items = IF p.is \in {"findings", "decisions"}
                             THEN accepted.items \o p.items ELSE accepted.items
    BY <2>1, TakenIs
  <2>4. /\ accepted.pages \in Nat /\ accepted.items \in Seq(Results!Item)
        /\ \A i \in DOMAIN accepted.items : accepted.items[i] \in o.kept.items
    BY <1>1 DEF ResultInv, AcceptedSound
  <2>5. /\ accepted'.items \in Seq(Results!Item)
        /\ \A i \in DOMAIN accepted'.items : accepted'.items[i] \in o.kept.items
    <3>1. CASE p.is \in {"findings", "decisions"}
      <4> DEFINE s == accepted.items
                 t == p.items
      <4>1. s \in Seq(Results!Item) /\ t \in Seq(Results!Item)
        BY <2>2, <2>4, <3>1
      <4>2. /\ \A i \in DOMAIN s : s[i] \in o.kept.items
            /\ \A i \in DOMAIN t : t[i] \in o.kept.items
        BY <2>2, <2>4, <3>1
      <4>3. accepted'.items = s \o t
        BY <2>3, <3>1
      <4> HIDE DEF s, t, o
      <4>4. s \o t \in Seq(Results!Item)
        BY <4>1
      <4>5. ASSUME NEW i \in DOMAIN (s \o t) PROVE (s \o t)[i] \in o.kept.items
        <5>1. /\ i \in 1..(Len(s) + Len(t)) /\ Len(s) \in Nat /\ Len(t) \in Nat
              /\ DOMAIN s = 1..Len(s) /\ DOMAIN t = 1..Len(t)
          BY <4>1
        <5>2. CASE i <= Len(s)
          BY <4>1, <4>2, <5>1, <5>2
        <5>3. CASE i > Len(s)
          <6>1. i - Len(s) \in DOMAIN t /\ (s \o t)[i] = t[i - Len(s)]
            BY <4>1, <5>1, <5>3
          <6> QED
            BY <4>2, <6>1
        <5> QED
          BY <5>1, <5>2, <5>3
      <4> QED
        BY <4>3, <4>4, <4>5
    <3>2. CASE p.is \notin {"findings", "decisions"}
      BY <2>3, <2>4, <3>2
    <3> QED
      BY <3>1, <3>2
  <2>6. AcceptedSound'
    <3>1. accepted'.pages \in Nat
      BY <2>3, <2>4
    <3>2. \A i \in DOMAIN accepted'.items : accepted'.items[i] \in kept'.items
      BY <1>3, <2>5
    <3> HIDE DEF o
    <3> QED
      BY <1>5, <2>3, <2>5, <3>1, <3>2, Zenon DEF AcceptedSound
  <2>7. DeliveredSound'
    <3> SUFFICES ASSUME verdict' = "delivered" PROVE DeliveredSound'
      BY DEF DeliveredSound
    <3>1. Results!Assembles(accepted')
      BY <2>1
    <3>2. CASE resultKind = "reviewer"
      <4>1. /\ kept'.ids \subseteq Results!IdsOf(accepted'.items)
            /\ accepted'.header.verdict = "fail" <=> accepted'.items # <<>>
        BY <3>1, <3>2 DEF Results!Assembles, Results!AssemblesReview
      <4> QED
        BY <1>2, <3>2, <4>1 DEF DeliveredSound, Results!IdsOf
    <3>3. CASE resultKind = "adjudication"
      <4>1. Results!IdSeq(accepted'.items) = Candidates
        BY <3>1, <3>3 DEF Results!Assembles, Results!AssemblesAdjudication
      <4> QED
        BY <1>2, <3>3, <4>1 DEF DeliveredSound, Results!IdSeq
    <3> QED
      BY <3>2, <3>3 DEF ResultInv
  <2> QED
    BY <1>2, <1>4, <2>6, <2>7 DEF ResultInv
<1> QED
  BY <1>2, <1>6, <1>7 DEF Results!AddPage, Results!Rejected

LEMMA ResultsStep == ResultInv /\ Results!Next => ResultInv'
<1> SUFFICES ASSUME ResultInv, Results!Next PROVE ResultInv'
  OBVIOUS
<1>1. CASE Results!Submit
  BY <1>1, AddPageKeeps DEF Results!Submit
<1>2. CASE Results!Garbage \/ Results!Refuse \/ Results!Inspect
  <2>1. /\ verdict = "open" /\ verdict' \in {"open", "failed"}
        /\ UNCHANGED <<resultKind, kept, accepted, history>>
    BY <1>2 DEF Results!Garbage, Results!Rejected, Results!Refuse, Results!Inspect
  <2> QED
    BY <2>1 DEF ResultInv, KeptSound, AcceptedSound, DeliveredSound
<1>3. CASE Results!Retry
  <2>1. /\ verdict = "open" /\ UNCHANGED <<resultKind, kept, verdict, history>>
        /\ accepted' = Results!Empty
    BY <1>3 DEF Results!Retry
  <2>2. /\ DOMAIN accepted' = CollectorFields /\ accepted'.pages = 0 /\ accepted'.items = <<>>
    BY <2>1 DEF Results!Empty, CollectorFields
  <2>3. AcceptedSound'
    BY <2>1, <2>2 DEF ResultInv, AcceptedSound
  <2> QED
    BY <2>1, <2>3 DEF ResultInv, KeptSound, DeliveredSound
<1> QED
  BY <1>1, <1>2, <1>3 DEF Results!Next

LEMMA ResultsRest == ResultInv /\ UNCHANGED resultVars => ResultInv'
  BY
    DEF resultVars, ResultInv, KeptSound, AcceptedSound, DeliveredSound, Results!IdsOf,
        Results!IdSeq

LEMMA NothingIsDropped == ResultInv => NothingDropped
<1> SUFFICES ASSUME ResultInv PROVE NothingDropped
  OBVIOUS
<1>1. ASSUME NEW item \in history, NEW i \in DOMAIN accepted.items,
             accepted.items[i].id = item.id
      PROVE  accepted.items[i] = item
  BY <1>1 DEF ResultInv, KeptSound, AcceptedSound
<1>2. Results!NothingDropped
  <2> SUFFICES ASSUME verdict = "delivered", resultKind = "reviewer"
               PROVE  /\ \A item \in history :
                           \E i \in DOMAIN accepted.items : accepted.items[i] = item
                      /\ history # {} => accepted.header.verdict = "fail"
    BY DEF Results!NothingDropped
  <2>1. ASSUME NEW item \in history
        PROVE  \E i \in DOMAIN accepted.items : accepted.items[i] = item
    <3>1. item.id \in Results!IdsOf(accepted.items)
      BY <2>1 DEF ResultInv, KeptSound, AcceptedSound, DeliveredSound
    <3> QED
      BY <1>1, <2>1, <3>1 DEF Results!IdsOf
  <2>2. history # {} => accepted.items # <<>>
    BY <2>1
  <2> QED
    BY <2>1, <2>2 DEF ResultInv, DeliveredSound
<1>3. Results!DecisionsStand
  <2> SUFFICES ASSUME verdict = "delivered", resultKind = "adjudication"
               PROVE  /\ Results!IdSeq(accepted.items) = Candidates
                      /\ history \subseteq {accepted.items[i] : i \in DOMAIN accepted.items}
    BY DEF Results!DecisionsStand
  <2>1. Results!IdSeq(accepted.items) = Candidates
    BY DEF ResultInv, DeliveredSound
  <2>2. ASSUME NEW item \in history
        PROVE  \E i \in DOMAIN accepted.items : accepted.items[i] = item
    <3>1. item.id \in Results!Range(Candidates)
      BY <2>2 DEF ResultInv, KeptSound, AcceptedSound
    <3>2. PICK i \in DOMAIN Candidates : item.id = Candidates[i]
      BY <3>1 DEF Results!Range
    <3>3. i \in DOMAIN accepted.items /\ accepted.items[i].id = item.id
      BY <2>1, <3>2 DEF Results!IdSeq
    <3> QED
      BY <1>1, <2>2, <3>3
  <2> QED
    BY <2>1, <2>2
<1> QED
  BY <1>2, <1>3 DEF NothingDropped

-----------------------------------------------------------------------------
(* All conversations.                                                      *)

LEMMA ConversationsStart == Init => ConversationsInv
BY NativeStarts, PagedStarts, ResultsStart DEF Init, ConversationsInv

LEMMA ConversationsStep ==
  ConversationsInv /\ [Next]_<<side, nativeVars, pagedVars, resultVars>> => ConversationsInv'
<1> SUFFICES ASSUME ConversationsInv, [Next]_<<side, nativeVars, pagedVars, resultVars>>
             PROVE  ConversationsInv'
  OBVIOUS
<1>1. CASE Native!Next /\ UNCHANGED pagedVars /\ UNCHANGED resultVars
  BY <1>1, NativeSteps, PagedRests, ResultsRest DEF ConversationsInv
<1>2. CASE Paged!PagedNext /\ UNCHANGED nativeVars /\ UNCHANGED resultVars
  BY <1>2, PagedSteps, NativeRests, ResultsRest DEF ConversationsInv
<1>3. CASE Results!Next /\ UNCHANGED nativeVars /\ UNCHANGED pagedVars
  BY <1>3, ResultsStep, NativeRests, PagedRests DEF ConversationsInv
<1>4. CASE UNCHANGED nativeVars /\ UNCHANGED pagedVars /\ UNCHANGED resultVars
  BY <1>4, NativeRests, PagedRests, ResultsRest DEF ConversationsInv
<1>5. QED
  BY <1>1, <1>2, <1>3, <1>4 DEF Next

\* The invariant of the three conversations, whichever of them goes on
\* (run-native.ts, native-claude.ts, native-codex.ts, native-copilot.ts, the
\* adapters command.ts, claude.ts, copilot.ts, codex.ts, and result-pages.ts).
THEOREM ConversationsInvariant == Spec => []ConversationsInv
<1>1. Init => ConversationsInv
  BY ConversationsStart
<1>2. ConversationsInv /\ [Next]_<<side, nativeVars, pagedVars, resultVars>>
        => ConversationsInv'
  BY ConversationsStep
<1>3. QED
  BY <1>1, <1>2, PTL DEF Spec

\* No cleanup takes what is still used: a private home outlives its process, a slot
\* that is given back in time has no process left behind it, and a review that was
\* delivered and ended is not lost to a failed cleanup (run-native.ts:936).
THEOREM CleanupStaysSafe == Spec => []CleanupIsSafe
<1>1. ConversationsInv => CleanupIsSafe
  BY NativeIsSafe DEF ConversationsInv, CleanupIsSafe
<1>2. QED
  BY <1>1, ConversationsInvariant, PTL

\* Every accepted page has one owner, isolation is reported as it was, and no
\* session asks more often than its pages, repairs and coverage turns allow,
\* whatever the provider answers (command.ts, codex.ts:559-800).
THEOREM SessionsStayHonest == Spec => []SessionsAreHonest
<1>1. ConversationsInv => SessionsAreHonest
  BY PagedIsHonest DEF ConversationsInv, SessionsAreHonest
<1>2. QED
  BY <1>1, ConversationsInvariant, PTL

\* What a provider returned once, on a page accepted, rejected or of an abandoned
\* attempt, is in the delivered result with the content it had first, however many
\* pages, repairs and attempts the conversation takes (result-pages.ts:719).
THEOREM NothingIsEverDropped == Spec => []NothingDropped
<1>1. ConversationsInv => NothingDropped
  BY NothingIsDropped DEF ConversationsInv
<1>2. QED
  BY <1>1, ConversationsInvariant, PTL
=============================================================================
