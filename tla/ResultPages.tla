---------------------------- MODULE ResultPages ----------------------------
(***************************************************************************)
(* How a reviewer's result crosses from its provider page by page          *)
(* (src/src/results/result-pages.ts), in the conversation an SDK adapter   *)
(* leads (adapters/sdk-pages.ts and the page loops of codex.ts, claude.ts  *)
(* and copilot.ts).  A page is judged against the declarations of the      *)
(* header and the pages before it; a malformed one is rejected and may be  *)
(* repaired; what it showed of findings and decisions obliges every later  *)
(* page, also of a later attempt, which starts with an empty collector.    *)
(*                                                                         *)
(* A provider may answer anything.  A finding or decision is an item with  *)
(* an id and content; bad content fails its schema.  The form of a page is *)
(* good, or its schema is violated elsewhere, or its place in the chain    *)
(* (digest, declared number of pages, kind of result) is wrong.            *)
(***************************************************************************)
EXTENDS Naturals, FiniteSets, Sequences, FiniteSetsExt, Functions

CONSTANTS
  Ids,         \* ids a provider gives its findings
  Candidates,  \* candidates of an adjudication, in their order
  Contents,    \* what each of them may contain, Bad among it or not
  Bad,         \* content of an invalid item
  PerPage,     \* items a page may hold
  MaxFindings, \* findings a result may hold
  MaxItems,    \* bound: items a provider puts on a page
  Declarations, \* the findings, fragments and coverage entries headers declare
  MaxPages,    \* bound: pages a header declares
  MaxRepairs,  \* MAX_PAGE_SCHEMA_REPAIRS
  MaxInspections, \* coverage repairs, 2
  MaxAttempts  \* retry_attempts

VARIABLES
  kind,      \* result_kind
  kept,      \* the preservation: what later pages must not fall behind
  accepted,  \* the collector: header and contents of the accepted pages
  onPage,    \* retainedPageFindingIds: ids seen on the page under repair
  repairs,   \* pageRepairs
  inspections, \* coverageRepairs
  attempt,   \* which attempt of the reviewer
  outcome,   \* "open", "delivered" or "failed"
  returned   \* history: valid items of pages that contradicted nothing

vars == <<kind, kept, accepted, onPage, repairs, inspections, attempt, outcome, returned>>

Item == UNION {[id : {i}, content : Contents[i]] : i \in Ids}
Items == UNION {[1..n -> Item] : n \in 1..MaxItems}
Header ==
  {[is |-> "header", verdict |-> verdict, pages |-> n, count |-> d.count,
    fragments |-> d.fragments, entries |-> d.entries] :
     d \in Declarations, verdict \in {"pass", "fail"}, n \in 1..MaxPages}
Findings == [is : {"findings"}, items : Items]
Decisions == [is : {"decisions"}, items : Items]
Plain == [is : {"narrative", "coverage"}]

\* Where another form makes no difference to what a page obliges to, one
\* stands for all.
Forms(page) ==
  CASE page.is = "header" -> {"good", "schema", "chain"}
    [] page.is = "findings" -> {"good", "chain"}
    [] page.is = "decisions" -> {"good", "schema"}
    [] OTHER -> {"good"}

NoHeader == [is |-> "none"]
Empty == [header |-> NoHeader, pages |-> 0, fragments |-> 0, entries |-> 0,
          phase |-> "header", items |-> <<>>]
Nothing == [count |-> 0, fail |-> FALSE, ids |-> {}, items |-> {},
            fragments |-> 0, entries |-> 0]

Init ==
  /\ kind \in {"reviewer", "adjudication"}
  /\ kept = Nothing
  /\ accepted = Empty
  /\ onPage = {}
  /\ repairs = 0 /\ inspections = 0
  /\ attempt = 1
  /\ outcome = "open"
  /\ returned = {}

Larger(a, b) == IF a > b THEN a ELSE b
Up(n, d) == (n + d - 1) \div d
IdsOf(items) == {items[i].id : i \in DOMAIN items}
Valid(item) == item.content # Bad
IdSeq(items) == [i \in DOMAIN items |-> items[i].id]

\* The candidates the next page must decide.
Assigned ==
  IF accepted.pages = 0 THEN <<>>
  ELSE SubSeq(Candidates, (accepted.pages - 1) * PerPage + 1,
              LET last == accepted.pages * PerPage IN
                IF last < Len(Candidates) THEN last ELSE Len(Candidates))
AdjudicationPages == 1 + Up(Len(Candidates), PerPage)

----------------------------------------------------------------------------
(* What a page obliges to, whether or not it is then accepted.             *)

Contradicts(k, item) ==
  Valid(item) /\ \E old \in k.items : old.id = item.id /\ old.content # item.content
Overflows(k, item) == item.id \notin k.ids /\ Cardinality(k.ids) >= MaxFindings

\* What is kept of a page of findings before its i-th, if none ended the page.
KnownFindings(items, i) ==
  LET shown == {items[j] : j \in 1..(i - 1)} IN
  [kept EXCEPT !.ids = @ \cup {item.id : item \in shown},
               !.items = @ \cup {item \in shown : Valid(item)},
               !.fail = @ \/ \E item \in shown : Valid(item)]

TooMany(items, i) == i > MaxFindings \/ Overflows(KnownFindings(items, i), items[i])
FindingStops(items, i) ==
  TooMany(items, i) \/ Contradicts(KnownFindings(items, i), items[i])

\* One finding after the other; the first that contradicts an earlier one, or
\* is one too many, ends the page.
KeepFindings(items) ==
  LET stops == {i \in DOMAIN items : FindingStops(items, i)} IN
  IF stops = {}
    THEN [kept |-> KnownFindings(items, Len(items) + 1), page |-> onPage \cup IdsOf(items),
          stop |-> "no"]
    ELSE LET i == Min(stops)
             known == KnownFindings(items, i)
             seen == onPage \cup {items[j].id : j \in 1..i}
         IN IF TooMany(items, i)
              THEN [kept |-> known, page |-> seen, stop |-> "limit"]
              ELSE [kept |-> [known EXCEPT !.ids = @ \cup {items[i].id}], page |-> seen,
                    stop |-> "contradiction"]

\* Of a page of decisions only the assigned ones among the first PerPage count.
Counts(item) == Valid(item) /\ item.id \in Range(Assigned)
Counting(items) == {i \in DOMAIN items : i <= PerPage /\ Counts(items[i])}

KnownDecisions(items, i) ==
  [kept EXCEPT !.items = @ \cup {items[j] : j \in {n \in Counting(items) : n < i}}]

\* Mutant: a later decision replaces the one that was shown.
KeepDecisions_LastWins(items) ==
  LET shown == {items[i] : i \in Counting(items)} IN
  [kept |-> [kept EXCEPT !.items = {old \in @ : old.id \notin {item.id : item \in shown}}
                                     \cup shown],
   page |-> onPage, stop |-> "no"]

\* The first that contradicts an earlier one ends the page.
KeepDecisions(items) ==
  LET stops == {i \in Counting(items) : Contradicts(KnownDecisions(items, i), items[i])} IN
  IF stops = {}
    THEN [kept |-> KnownDecisions(items, Len(items) + 1), page |-> onPage, stop |-> "no"]
    ELSE [kept |-> KnownDecisions(items, Min(stops)), page |-> onPage, stop |-> "contradiction"]

Before == [kept |-> kept, page |-> onPage, stop |-> "no"]

Obliged(page, form) ==
  CASE page.is = "header" /\ kind = "reviewer" ->
         [Before EXCEPT !.kept.fail = @ \/ page.verdict = "fail",
                        !.kept.count = Larger(@, page.count)]
    [] page.is = "findings" -> KeepFindings(page.items)
    [] page.is = "decisions" /\ form # "chain" -> KeepDecisions(page.items)
    [] OTHER -> Before

\* Only once a page matches its schema are its other declarations looked at.
Falls(page, k) ==
  page.is = "header" /\ kind = "reviewer" /\ (page.fragments < k.fragments \/ page.entries < k.entries)
Declared(page, k) ==
  IF page.is = "header" /\ kind = "reviewer" /\ ~Falls(page, k)
  THEN [k EXCEPT !.fragments = Larger(@, page.fragments),
                 !.entries = Larger(@, page.entries)]
  ELSE k

FitsSchema(page, form) ==
  /\ form # "schema"
  /\ page.is \in {"findings", "decisions"} =>
       Len(page.items) <= PerPage /\ \A i \in DOMAIN page.items : Valid(page.items[i])

----------------------------------------------------------------------------
(* Whether a page that matches its schema is accepted.                     *)

\* page_count must leave room for what the header declares.
Room(page) ==
  page.pages >= 1 + page.fragments + Up(page.entries, PerPage) + Up(page.count, PerPage)

InOrder(page) ==
  CASE page.is = "header" -> accepted.pages = 0
    [] page.is = "coverage" -> accepted.phase = "coverage"
    [] page.is = "narrative" ->
         accepted.phase # "findings" /\ accepted.entries = accepted.header.entries
    [] page.is = "findings" ->
         /\ accepted.entries = accepted.header.entries
         /\ accepted.fragments = accepted.header.fragments
    [] OTHER -> TRUE

Acceptable(page, k, ids) ==
  /\ accepted.pages = 0 <=> page.is = "header"
  /\ InOrder(page)
  /\ page.is = "header" /\ kind = "reviewer" =>
       /\ k.fail => page.verdict = "fail"
       /\ page.count >= k.count
       /\ Room(page)
  /\ page.is = "coverage" => accepted.entries < accepted.header.entries
  /\ page.is = "narrative" => accepted.fragments < accepted.header.fragments
  /\ page.is = "findings" =>
       /\ ids \subseteq IdsOf(page.items)
       /\ Cardinality(IdsOf(page.items)) = Len(page.items)
       /\ IdsOf(page.items) \cap IdsOf(accepted.items) = {}
  /\ page.is = "decisions" => IdSeq(page.items) = Assigned

Taken(page) ==
  [accepted EXCEPT
     !.pages = @ + 1,
     !.header = IF page.is = "header" THEN page ELSE @,
     !.phase = IF page.is = "header"
               THEN IF kind = "reviewer" THEN "coverage" ELSE "decisions"
               ELSE page.is,
     !.fragments = IF page.is = "narrative" THEN @ + 1 ELSE @,
     !.entries = IF page.is = "coverage" THEN @ + 1 ELSE @,
     !.items = IF page.is \in {"findings", "decisions"} THEN @ \o page.items ELSE @]

PageCount(c) == IF kind = "reviewer" THEN c.header.pages ELSE AdjudicationPages
Complete(c) == c.pages > 0 /\ c.pages = PageCount(c)

\* The assembled result is what the header declared, lacks nothing that was
\* returned before, and fails exactly when it has findings.
AssemblesReview(c) ==
  /\ c.fragments = c.header.fragments
  /\ Len(c.items) = c.header.count
  /\ Len(c.items) >= kept'.count /\ kept'.ids \subseteq IdsOf(c.items)
  /\ c.entries = c.header.entries
  /\ c.header.verdict = "fail" <=> c.items # <<>>

AssemblesAdjudication(c) == IdSeq(c.items) = Candidates

Assembles(c) == IF kind = "reviewer" THEN AssemblesReview(c) ELSE AssemblesAdjudication(c)

----------------------------------------------------------------------------
(* The conversation.                                                       *)

Offered ==
  IF kind = "reviewer" THEN Header \cup Plain \cup Findings
  ELSE {[is |-> "header", verdict |-> "pass"]} \cup Decisions

\* A rejected page may be repaired MaxRepairs times in a row, then the review
\* has failed, and it is not retried.
Rejected ==
  /\ IF repairs < MaxRepairs
     THEN repairs' = repairs + 1 /\ UNCHANGED outcome
     ELSE outcome' = "failed" /\ UNCHANGED repairs
  /\ UNCHANGED accepted

Accepted(page) ==
  /\ accepted' = Taken(page)
  /\ repairs' = 0
  /\ outcome' = IF ~Complete(accepted') THEN "open"
                ELSE IF Assembles(accepted') THEN "delivered" ELSE "failed"

Remembered(page, form, stop) ==
  returned' = IF page.is \in {"findings", "decisions"} /\ stop = "no" /\ form # "chain"
              THEN returned \cup {page.items[i] : i \in
                     {j \in DOMAIN page.items : /\ Valid(page.items[j])
                                                /\ page.is = "decisions" => j \in Counting(page.items)}}
              ELSE returned

AddPage(page, form) ==
  LET obliged == Obliged(page, form)
      fits == obliged.stop = "no" /\ FitsSchema(page, form) IN
  /\ outcome = "open"
  /\ kept' = IF fits THEN Declared(page, obliged.kept) ELSE obliged.kept
  /\ Remembered(page, form, obliged.stop)
  /\ IF obliged.stop = "limit"
     THEN /\ outcome' = "failed"
          /\ onPage' = obliged.page
          /\ UNCHANGED <<accepted, repairs>>
     ELSE IF /\ fits /\ form = "good" /\ ~Falls(page, obliged.kept)
             /\ Acceptable(page, obliged.kept, obliged.page)
     THEN /\ Accepted(page)
          /\ onPage' = IF page.is = "findings" THEN {} ELSE obliged.page
     ELSE Rejected /\ onPage' = obliged.page
  /\ UNCHANGED <<kind, inspections, attempt>>

Submit == \E page \in Offered : \E form \in Forms(page) : AddPage(page, form)

\* Not JSON, or addressed to another result or page: it obliges to nothing.
Garbage ==
  /\ outcome = "open"
  /\ Rejected
  /\ UNCHANGED <<kind, kept, onPage, inspections, attempt, returned>>

\* A page beyond 32 KiB, or a failure of the provider that is not retried.
Refuse ==
  /\ outcome = "open"
  /\ outcome' = "failed"
  /\ UNCHANGED <<kind, kept, accepted, onPage, repairs, inspections, attempt, returned>>

\* Before the first page the reviewer may be sent back to files it has not read.
Inspect ==
  /\ outcome = "open" /\ accepted.pages = 0 /\ inspections < MaxInspections
  /\ inspections' = inspections + 1
  /\ UNCHANGED <<kind, kept, accepted, onPage, repairs, attempt, outcome, returned>>

\* Mutant: a retry forgets what was kept.
Retry_Forgets ==
  /\ outcome = "open" /\ attempt < MaxAttempts
  /\ attempt' = attempt + 1
  /\ accepted' = Empty /\ kept' = Nothing
  /\ onPage' = {}
  /\ repairs' = 0 /\ inspections' = 0
  /\ UNCHANGED <<kind, outcome, returned>>

\* Mutant: a retry does not count.
Retry_Uncounted ==
  /\ outcome = "open" /\ attempt < MaxAttempts
  /\ accepted' = Empty
  /\ onPage' = {}
  /\ repairs' = 0 /\ inspections' = 0
  /\ UNCHANGED <<kind, kept, attempt, outcome, returned>>

\* A failure that is retried: the collector starts again, the obligations stay.
Retry ==
  /\ outcome = "open" /\ attempt < MaxAttempts
  /\ attempt' = attempt + 1
  /\ accepted' = Empty
  /\ onPage' = {}
  /\ repairs' = 0 /\ inspections' = 0
  /\ UNCHANGED <<kind, kept, outcome, returned>>

Next == Submit \/ Garbage \/ Refuse \/ Inspect \/ Retry

Spec == Init /\ [][Next]_vars

\* The attempt's timer ends a turn that does not answer.
FairSpec == Spec /\ WF_vars(Next)

----------------------------------------------------------------------------

\* "An empty retry cannot erase a candidate" (docs/releases/v9.4.0.md:32): a
\* delivered review contains every valid finding a provider ever returned, on
\* a page accepted, rejected or of an abandoned attempt, with the content it
\* had first, and then it fails.
NothingDropped ==
  outcome = "delivered" /\ kind = "reviewer" =>
    /\ \A item \in returned : \E i \in DOMAIN accepted.items : accepted.items[i] = item
    /\ returned # {} => accepted.header.verdict = "fail"

\* A delivered adjudication decides every candidate once, in the order they
\* were assigned, and as it was decided when first shown, on whatever page of
\* whatever attempt.
DecisionsStand ==
  outcome = "delivered" /\ kind = "adjudication" =>
    /\ IdSeq(accepted.items) = Candidates
    /\ returned \subseteq {accepted.items[i] : i \in DOMAIN accepted.items}

\* Whatever the provider answers, the conversation comes to an end.
ConversationEnds == <>(outcome # "open")

=============================================================================
