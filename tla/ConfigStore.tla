----------------------------- MODULE ConfigStore -----------------------------
(* The one global configuration file of Review Mesh and the processes that  *)
(* read and rewrite it: interactive menus (config/tui.ts), machine applies  *)
(* and read-only views (config/command.ts, effective.ts) and the shared save *)
(* protocol of config/manage.ts: compare with the loaded snapshot, write a  *)
(* temporary file, take the update lock, compare again, rename.             *)
(*                                                                          *)
(* A configuration is the kind of its document, the coverage proof of every *)
(* agent, the default agents and the agents of every project. Prompts,      *)
(* adapters, models and the order of agents are left out; what an answer    *)
(* may change is a choice among the values it can give.                     *)
EXTENDS Integers, FiniteSets, TLC

CONSTANTS
  Agents, Projects,
  Menus,        \* interactive sessions
  Machines,     \* machine sessions: export, edit and apply, or a view
  Starts,       \* the documents the file may hold at the start
  MaxChoices,   \* bound: choices of all the sessions that may change something
  MaxAccidents  \* bound: edits of the file by hand, I/O failures and crashes

Sessions == Menus \cup Machines

Adapters == {"sdk", "command"}       \* the kinds of adapter an agent may use
Proofs == {"native_attested", "attested"}
Entry == [stored: BOOLEAN, agents: SUBSET Agents]   \* no agents: it inherits
Forms == {"missing", "legacy", "v7"}

Document ==
  [kind : Forms, adapters : SUBSET Adapters, defaults : SUBSET Agents,
   agents : [Agents -> [uses : SUBSET Adapters, proof : Proofs]],
   projects : [Projects -> Entry]]

ASSUME ConfigAssumption ==
  /\ Menus \cap Machines = {} /\ {"free", "left", "hand"} \cap Sessions = {}
  /\ Starts \subseteq Document
  /\ {MaxChoices, MaxAccidents} \subseteq Nat

VARIABLES
  text,       \* the document the file holds
  version,    \* its identity: inode and hash
  writer,     \* who wrote it: a session, or "hand"
  lock,       \* the update lock: "free", its holder, or "left" behind
  at,         \* where a session is
  mem,        \* the configuration a session holds
  before,     \* the one it held when the present choice was made
  base,       \* the version it loaded or saved last
  pending,    \* a migration the user has not confirmed
  asked,      \* agents whose attested proof the user accepted in this choice
  seen,       \* the document it loaded or saved last
  expected,   \* the revision an apply or a view is about
  choices, accidents

vars == <<text, version, writer, lock, at, mem, before, base, pending, asked,
          seen, expected, choices, accidents>>
file == <<text, version, writer>>
bounds == <<choices, accidents>>

(***************************************************************************)
(* Documents.                                                              *)
(***************************************************************************)
NoAgent == [uses |-> {}, proof |-> "native_attested"]

Known(c) == {a \in Agents : c.agents[a].uses # {}}
Attested(c) == {a \in Known(c) : c.agents[a].proof = "attested"}

Missing == [kind |-> "missing", adapters |-> {}, agents |-> [a \in Agents |-> NoAgent],
            defaults |-> {},
            projects |-> [p \in Projects |-> [stored |-> FALSE, agents |-> {}]]]

EmptyConfig == [Missing EXCEPT !.kind = "v7"]

Migrated(c) == [c EXCEPT !.kind = "v7"]

\* What a load answers; only the menu and the machine commands allow no file.
Loaded(c) == IF c.kind = "missing" THEN EmptyConfig ELSE Migrated(c)

HasAssignment(c) == c.defaults # {} \/ \E p \in Projects : c.projects[p].agents # {}

Valid(c) ==
  /\ c.kind = "v7"
  /\ HasAssignment(c)
  /\ \A a \in Agents : c.agents[a].uses \subseteq c.adapters
  /\ c.defaults \subseteq Known(c)
  /\ \A p \in Projects : c.projects[p].agents \subseteq Known(c)

Serializable(c) == Valid(c)

\* The agents that review project p, none when it cannot be resolved.
Roster(c, p) == IF c.projects[p].agents # {} THEN c.projects[p].agents ELSE c.defaults

(***************************************************************************)
(* The choices of the menu: the configurations each may leave.             *)
(***************************************************************************)
\* An adapter is created on the way, and stays only if the choice succeeds.
AdapterCreated(c, kinds) == [c EXCEPT !.adapters = @ \cup kinds]

\* One model, or several runs: the adapters an agent uses.
ModelSelections == SUBSET Adapters \ {{}}

ProofOf(uses) == IF uses = {"sdk"} THEN "native_attested" ELSE "attested"

WithDefault(c, a, on) == [c EXCEPT !.defaults = IF on THEN @ \cup {a} ELSE @ \ {a}]

\* The first agent is a default.
Joins(c) == IF Known(c) = {} THEN {TRUE} ELSE BOOLEAN

Added(c) ==
  {[WithDefault(AdapterCreated(c, u), a, on)
      EXCEPT !.agents[a] = [uses |-> u, proof |-> ProofOf(u)]] :
     a \in Agents \ Known(c), u \in ModelSelections, on \in Joins(c)}

\* Another adapter leaves the proof of the agent as it was.
AgentEdited(c) ==
  {[WithDefault(AdapterCreated(c, u), a, on) EXCEPT !.agents[a].uses = u] :
     a \in Known(c), u \in ModelSelections, on \in BOOLEAN}

\* A model its adapter does not serve is refused, after the adapter was made.
HalfEdited(c) == {AdapterCreated(c, u) : u \in ModelSelections} \ {c}

PolicyEdited(c) ==
  {[c EXCEPT !.agents[a].proof = k] : a \in Known(c), k \in Proofs}

\* An entry of a project keeps its place without the agent.
Bereft(entry, a) == [entry EXCEPT !.agents = @ \ {a}]

Without(c, a) ==
  [c EXCEPT !.agents[a] = NoAgent, !.defaults = @ \ {a},
            !.projects = [p \in Projects |-> Bereft(c.projects[p], a)]]

\* A project whose last agent goes inherits the defaults, if there are any.
Stranded(c, a) ==
  /\ c.defaults \subseteq {a}
  /\ \E p \in Projects : c.projects[p].agents = {a}

Removed(c) ==
  {Without(c, a) : a \in {b \in Known(c) : Known(c) # {b} /\ ~Stranded(c, b)}}

HalfRemoved(c) ==
  {Without(c, a) : a \in {b \in Known(c) : Known(c) # {b} /\ Stranded(c, b)}}

Rosters(c) == SUBSET Known(c) \ {{}}

ProjectAdded(c) ==
  {[c EXCEPT !.projects[p] = [stored |-> TRUE, agents |-> r]] :
     p \in {q \in Projects : ~c.projects[q].stored}, r \in Rosters(c)}

ProjectEdited(c) ==
  {[c EXCEPT !.projects[p].agents = r] :
     p \in {q \in Projects : c.projects[q].stored}, r \in Rosters(c)}

ProjectRemoved(c) ==
  {[c EXCEPT !.projects[p] = [stored |-> FALSE, agents |-> {}]] :
     p \in {q \in Projects : c.projects[q].stored}}

DefaultsSet(c) == {[c EXCEPT !.defaults = r] : r \in Rosters(c)}

\* Settings, and validate and save: nothing a property tells apart.
Resaved(c) == {c}

ChoicesOf(c) ==
  Added(c) \cup AgentEdited(c) \cup PolicyEdited(c) \cup Removed(c) \cup ProjectAdded(c)
    \cup ProjectEdited(c) \cup ProjectRemoved(c) \cup DefaultsSet(c) \cup Resaved(c)

(***************************************************************************)
(* The state at the start.                                                 *)
(***************************************************************************)
ConfigTypeOK ==
  /\ text.kind \in Forms /\ DOMAIN text.agents = Agents /\ text.defaults \subseteq Agents
  /\ version \in Nat
  /\ writer \in Sessions \cup {"hand"}
  /\ lock \in Sessions \cup {"free", "left"}
  /\ \A s \in Sessions : base[s] \in Nat /\ base[s] <= version
  /\ asked \in [Sessions -> SUBSET Agents]
  /\ pending \in [Sessions -> BOOLEAN]
  /\ choices \in 0..MaxChoices /\ accidents \in 0..MaxAccidents

ConfigInit ==
  /\ text \in Starts /\ version = 1 /\ writer = "hand"
  /\ lock = "free"
  /\ at = [s \in Sessions |-> "new"]
  /\ mem = [s \in Sessions |-> Missing]
  /\ before = mem /\ seen = mem /\ expected = mem
  /\ base = [s \in Sessions |-> 0]
  /\ pending = [s \in Sessions |-> FALSE]
  /\ asked = [s \in Sessions |-> {}]
  /\ choices = 0 /\ accidents = 0

Goes(s, step) == at' = [at EXCEPT ![s] = step]

\* The process ends and takes what it held with it.
EndsAs(s, how) ==
  /\ Goes(s, how)
  /\ mem' = [mem EXCEPT ![s] = Missing] /\ before' = [before EXCEPT ![s] = Missing]
  /\ seen' = [seen EXCEPT ![s] = Missing] /\ expected' = [expected EXCEPT ![s] = Missing]
  /\ base' = [base EXCEPT ![s] = 0]
  /\ pending' = [pending EXCEPT ![s] = FALSE] /\ asked' = [asked EXCEPT ![s] = {}]

Ends(s) == EndsAs(s, "ended")

(***************************************************************************)
(* An interactive session.                                                 *)
(***************************************************************************)
MenuOpens(s) ==
  /\ s \in Menus /\ at[s] = "new"
  /\ mem' = [mem EXCEPT ![s] = Loaded(text)]
  /\ seen' = [seen EXCEPT ![s] = text]
  /\ base' = [base EXCEPT ![s] = version]
  /\ pending' = [pending EXCEPT ![s] = text.kind = "legacy"]
  /\ Goes(s, "menu")
  /\ UNCHANGED <<file, lock, before, asked, expected, bounds>>

\* A choice edits the configuration in memory.
Chooses(s) ==
  /\ at[s] = "menu" /\ choices < MaxChoices
  /\ choices' = choices + 1
  /\ before' = [before EXCEPT ![s] = mem[s]]
  /\ asked' = [asked EXCEPT ![s] = {}]
  /\ \/ \E c \in ChoicesOf(mem[s]) : mem' = [mem EXCEPT ![s] = c] /\ Goes(s, "edited")
     \/ \E c \in HalfRemoved(mem[s]) \cup HalfEdited(mem[s]) : mem' = [mem EXCEPT ![s] = c] /\ Goes(s, "failed")
  /\ UNCHANGED <<file, lock, base, pending, seen, expected, accidents>>

\* Mutant: what the file left unconfirmed is not asked about.
Derived_ForgetsPending(s) ==
  {a \in Attested(mem[s]) : a \notin Attested(before[s])}

\* Agents the user is asked about before weaker coverage is saved.
Derived(s) ==
  {a \in Attested(mem[s]) : pending[s] \/ a \notin Attested(before[s])}

Confirms(s) ==
  /\ s \in Menus /\ at[s] = "edited"
  /\ asked' = [asked EXCEPT ![s] = Derived(s)]
  /\ Goes(s, "saving")
  /\ UNCHANGED <<file, lock, mem, before, base, pending, seen, expected, bounds>>

Declines(s) ==
  /\ s \in Menus /\ at[s] = "edited" /\ Derived(s) # {}
  /\ Goes(s, "failed")
  /\ UNCHANGED <<file, lock, mem, before, base, pending, asked, seen, expected, bounds>>

\* Mutant: a refused edit stays in the menu.
RolledBack_Keeps(s) == mem[s]

\* Any error: the session prints it and holds again what it held before.
RolledBack(s) == before[s]

Fails(s) ==
  /\ s \in Menus /\ at[s] = "failed"
  /\ mem' = [mem EXCEPT ![s] = RolledBack(s)]
  /\ before' = [before EXCEPT ![s] = Missing]
  /\ asked' = [asked EXCEPT ![s] = {}]
  /\ Goes(s, "menu")
  /\ UNCHANGED <<file, lock, base, pending, seen, expected, bounds>>

Quits(s) ==
  /\ at[s] = "menu"
  /\ Ends(s)
  /\ UNCHANGED <<file, lock, bounds>>

(***************************************************************************)
(* A machine session: an export, an edited request, its application.       *)
(***************************************************************************)
Exports(s) ==
  /\ s \in Machines /\ at[s] = "new"
  /\ expected' = [expected EXCEPT ![s] = text]
  /\ mem' = [mem EXCEPT ![s] = Loaded(text)]
  /\ Goes(s, "exported")
  /\ UNCHANGED <<file, lock, before, base, pending, asked, seen, bounds>>

\* The request holds the export with another proof, or a legacy document.
Wanted(c) == PolicyEdited(c) \cup Resaved(c) \cup {d \in Starts : d.kind = "legacy"}

Requests(s) ==
  /\ s \in Machines /\ at[s] = "exported" /\ choices < MaxChoices
  /\ choices' = choices + 1
  /\ \E c \in Wanted(mem[s]) :
       /\ mem' = [mem EXCEPT ![s] = c]
       /\ \E confirmed \in IF c.kind = "legacy" THEN {{}, Attested(c)} ELSE {{}} :
            asked' = [asked EXCEPT ![s] = confirmed]
  /\ Goes(s, "requested")
  /\ UNCHANGED <<file, lock, before, base, pending, seen, expected, accidents>>

Unconfirmed(s) == mem[s].kind = "legacy" /\ Attested(mem[s]) # asked[s]

\* The desired document is already the file's.
Unchanged(s) == text.kind = "v7" /\ Migrated(mem[s]) = text

Applied(s) ==
  /\ s \in Machines /\ at[s] = "requested"
  /\ IF expected[s] # text \/ Unconfirmed(s) \/ ~Serializable(Migrated(mem[s])) \/ Unchanged(s)
       THEN Ends(s)
       ELSE /\ Goes(s, "saving")
            /\ mem' = [mem EXCEPT ![s] = Migrated(@)]
            /\ base' = [base EXCEPT ![s] = version]
            /\ pending' = [pending EXCEPT ![s] = mem[s].kind = "legacy"]
            /\ expected' = [expected EXCEPT ![s] = Missing]
            /\ UNCHANGED <<before, asked, seen>>
  /\ UNCHANGED <<file, lock, bounds>>

ApplyFails(s) ==
  /\ s \in Machines /\ at[s] = "failed"
  /\ Ends(s)
  /\ UNCHANGED <<file, lock, bounds>>

(***************************************************************************)
(* saveManagedConfig.                                                      *)
(***************************************************************************)
\* The document is valid and the file is the one that was loaded: it is
\* written to a temporary file beside it.
Same(s) == version = base[s]

Stages(s) ==
  /\ at[s] = "saving"
  /\ Goes(s, IF Serializable(mem[s]) /\ Same(s) THEN "staged" ELSE "failed")
  /\ UNCHANGED <<file, lock, mem, before, base, pending, asked, seen, expected, bounds>>

Locks(s) ==
  /\ at[s] = "staged" /\ lock = "free"
  /\ lock' = s
  /\ Goes(s, "locked")
  /\ UNCHANGED <<file, mem, before, base, pending, asked, seen, expected, bounds>>

\* Mutant: a lock that a crash left is waited for without end.
LockTimesOut_Never(s) ==
  /\ at[s] = "staged" /\ lock \notin {"free", "left"}
  /\ Goes(s, "failed")
  /\ UNCHANGED <<file, lock, mem, before, base, pending, asked, seen, expected, bounds>>

\* Fifteen seconds of an existing lock file are reported as a conflict.
LockTimesOut(s) ==
  /\ at[s] = "staged" /\ lock # "free"
  /\ Goes(s, "failed")
  /\ UNCHANGED <<file, lock, mem, before, base, pending, asked, seen, expected, bounds>>

Unlocked(s) == IF lock = s THEN "free" ELSE lock

\* Mutant: the file is not compared again under the lock.
Rechecks_Trusts(s) ==
  /\ at[s] = "locked"
  /\ Goes(s, "checked")
  /\ UNCHANGED lock
  /\ UNCHANGED <<file, mem, before, base, pending, asked, seen, expected, bounds>>

Rechecks(s) ==
  /\ at[s] = "locked"
  /\ IF Same(s) THEN Goes(s, "checked") /\ UNCHANGED lock
                ELSE Goes(s, "failed") /\ lock' = Unlocked(s)
  /\ UNCHANGED <<file, mem, before, base, pending, asked, seen, expected, bounds>>

Renames(s) ==
  /\ at[s] = "checked"
  /\ text' = mem[s] /\ version' = version + 1 /\ writer' = s
  /\ Goes(s, "renamed")
  /\ UNCHANGED <<lock, mem, before, base, pending, asked, seen, expected, bounds>>

\* The snapshot for the next save is read back from the path; the lock goes.
Saved(s) ==
  /\ at[s] = "renamed"
  /\ lock' = Unlocked(s)
  /\ IF s \in Machines
       THEN Ends(s)
       ELSE /\ Goes(s, "menu")
            /\ base' = [base EXCEPT ![s] = version]
            /\ seen' = [seen EXCEPT ![s] = mem[s]]
            /\ pending' = [pending EXCEPT ![s] = FALSE]
            /\ before' = [before EXCEPT ![s] = Missing]
            /\ asked' = [asked EXCEPT ![s] = {}]
            /\ UNCHANGED <<mem, expected>>
  /\ UNCHANGED <<file, bounds>>

Saving == {"saving", "staged", "locked", "checked", "renamed"}

\* An I/O failure before the lock, while its file is written (which leaves it
\* behind), under it, or after the rename.
SaveBreaks(s) ==
  /\ at[s] \in Saving /\ accidents < MaxAccidents
  /\ accidents' = accidents + 1
  /\ lock' \in IF at[s] = "staged" /\ lock = "free" THEN {"free", "left"} ELSE {Unlocked(s)}
  /\ Goes(s, "failed")
  /\ UNCHANGED <<file, mem, before, base, pending, asked, seen, expected, choices>>

\* The process dies; its lock file stays.
Crashes(s) ==
  /\ s \in Sessions /\ at[s] \in Saving /\ accidents < MaxAccidents
  /\ accidents' = accidents + 1
  /\ lock' = IF lock = s THEN "left" ELSE lock
  /\ Ends(s)
  /\ UNCHANGED <<file, choices>>

(***************************************************************************)
(* config effective: the revision, the resolved suite, the revision again. *)
(***************************************************************************)
Views(s) ==
  /\ s \in Machines /\ at[s] = "new"
  /\ IF text.kind = "missing"
       THEN Ends(s)
       ELSE /\ expected' = [expected EXCEPT ![s] = text]
            /\ base' = [base EXCEPT ![s] = version]
            /\ Goes(s, "viewing")
            /\ UNCHANGED <<mem, before, pending, asked, seen>>
  /\ UNCHANGED <<file, lock, bounds>>

Resolvable(c) == c.kind # "missing" /\ \A p \in Projects : Roster(c, p) # {}

Resolves(s) ==
  /\ s \in Machines /\ at[s] = "viewing"
  /\ IF Resolvable(text)
       THEN /\ mem' = [mem EXCEPT ![s] = text]
            /\ Goes(s, "resolved")
            /\ UNCHANGED <<before, base, pending, asked, seen, expected>>
       ELSE Ends(s)
  /\ UNCHANGED <<file, lock, bounds>>

\* Mutant: a view is reported whatever happened to the file.
Reports_Always(s) == TRUE

Reports(s) == text = expected[s]

ViewEnds(s) ==
  /\ s \in Machines /\ at[s] = "resolved"
  /\ EndsAs(s, IF Reports(s) THEN "reported" ELSE "ended")
  /\ UNCHANGED <<file, lock, bounds>>

(***************************************************************************)
(* Other programs.                                                         *)
(***************************************************************************)
HandEdits ==
  /\ accidents < MaxAccidents
  /\ accidents' = accidents + 1
  /\ \E c \in Starts : c # text /\ text' = c
  /\ version' = version + 1 /\ writer' = "hand"
  /\ UNCHANGED <<lock, at, mem, before, base, pending, asked, seen, expected, choices>>

(***************************************************************************)
(* The system.                                                             *)
(***************************************************************************)
SaveStep(s) ==
  Stages(s) \/ Locks(s) \/ LockTimesOut(s) \/ Rechecks(s) \/ Renames(s) \/ Saved(s)

SessionStep(s) ==
  \/ MenuOpens(s) \/ Chooses(s) \/ Confirms(s) \/ Declines(s) \/ Fails(s) \/ Quits(s)
  \/ Exports(s) \/ Requests(s) \/ Applied(s) \/ ApplyFails(s)
  \/ SaveStep(s) \/ SaveBreaks(s) \/ Crashes(s)

ViewStep(s) == Views(s) \/ Resolves(s) \/ ViewEnds(s)

ConfigNext == (\E s \in Sessions : SessionStep(s) \/ ViewStep(s)) \/ HandEdits

ConfigSpec == ConfigInit /\ [][ConfigNext]_vars

\* A save that has begun goes on: its steps wait for the disk or a timer.
ConfigFairSpec ==
  ConfigSpec /\ \A s \in Sessions : WF_vars(SaveStep(s) \/ Fails(s) \/ ApplyFails(s))

(***************************************************************************)
(* Properties.                                                             *)
(***************************************************************************)
\* No session's work is lost: a save replaces exactly the version its session
\* loaded, or one written by hand after the last comparison. Two editors that
\* loaded the same file never both succeed (saveManagedConfig).
NoLostUpdate ==
  [][\A s \in Sessions : Renames(s) => version = base[s] \/ writer = "hand"]_vars

\* Weaker coverage is the user's decision: what a menu publishes over the file
\* it knows, and what an apply migrates, has an attested proof only for an agent
\* that was saved as attested before or that the user accepted for this very
\* save (runConfigMenu, confirm_attested_coverage).
AttestedIsConfirmed ==
  [][\A s \in Sessions :
       /\ Renames(s)
       /\ version = base[s]
       /\ s \in Menus => seen[s] = text
       /\ s \in Machines => pending[s]
       => Attested(text') \subseteq
            asked[s] \cup (IF text.kind = "v7" THEN Attested(text) ELSE {})]_vars

\* What a menu reported as failed stays out: a publication is the version the
\* session last loaded or saved with exactly the present choice applied, never
\* with an edit that was refused before (runConfigMenu's roll back).
OneChoiceAtATime ==
  [][\A s \in Menus : Renames(s) => text' \in ChoicesOf(Loaded(seen[s]))]_vars

\* A reported view is the suite of the revision it names, unless the file was
\* rewritten and set back while the view was made (describeEffectiveConfig).
ViewIsOfItsRevision ==
  [][\A s \in Machines : ViewEnds(s) /\ at'[s] = "reported" =>
       mem[s] = expected[s] \/ version >= base[s] + 2]_vars

\* What is saved is one choice made on the file that was read, and what is shown
\* is the file it claims to be, whoever else edits it meanwhile.
SavesAreFaithful == NoLostUpdate /\ OneChoiceAtATime /\ ViewIsOfItsRevision

\* A save always ends and tells, even behind a lock nobody will remove.
EverySaveEnds == \A s \in Sessions : at[s] \in Saving ~> at[s] \notin Saving
=============================================================================
