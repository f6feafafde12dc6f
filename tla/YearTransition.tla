--------------------------- MODULE YearTransition ---------------------------
(***************************************************************************)
(* The transition wizard: the structure of one academic year copied into   *)
(* another (lib/year/transition.mjs), beside the changes of the years      *)
(* themselves and the work of editors in both years.                       *)
(*                                                                         *)
(* A run is not one transaction.  Each phase reads what the source has and *)
(* the target lacks, then writes row by row; the locked target, a unique   *)
(* index or a fault ends it, and a crash leaves it where it is.  What makes *)
(* a later run complete the work is that every phase skips what is there.  *)
(***************************************************************************)
EXTENDS AcademicYear, Naturals

CONSTANTS
    Source, Target,     \* the years the wizard copies from and into
    Lineage,            \* logical units: one org_unit per year each
    Appointment,        \* records [unit, position, person]
    Singleton,          \* the positions one person holds (max_holders = 1)
    Item, Home,         \* content, and the unit (or NoUnit) each item is of
    NoUnit,             \* stands for no unit: no parent, no home
    Grant,              \* year-scoped role assignments
    InitRows,           \* what the source has when the model starts
    MaxRuns,            \* bound: how many rows of transition_run there are
    Phases,             \* the sets of phases a caller may ask for
    MaxEdits            \* bound: how many rows editors add

AllPhases == {"units", "roster", "items", "grants"}
Absent == "absent"

ASSUME TransitionAssumption ==
    /\ Source \in Year /\ Target \in Year /\ Source # Target
    /\ NoUnit \notin Lineage /\ Absent \notin Lineage \cup {NoUnit}
    /\ \A a \in Appointment : a.unit \in Lineage
    /\ Home \in [Item -> Lineage \cup {NoUnit}]
    /\ MaxRuns \in Nat /\ MaxEdits \in Nat
    /\ Phases \subseteq SUBSET AllPhases

RunNo == 1..MaxRuns
NoRun == 0

\* The rows of one year, but for the units: those may be kept apart, so that
\* a copy of some of them is a value too.
Rows == [units : [Lineage -> Lineage \cup {NoUnit, Absent}],
         roster : SUBSET Appointment, items : SUBSET Item, grants : SUBSET Grant]

NoRows == [units |-> [l \in Lineage |-> Absent], roster |-> {}, items |-> {}, grants |-> {}]

ASSUME InitRowsAssumption == InitRows \in Rows

VARIABLES
    rows,       \* rows[y]: the units, appointments, content and grants of year y
    run,        \* run[n]: the status of row n of transition_run
    wizard,     \* wizard[r]: where the transition of request r is
    edits       \* how many rows editors have added

copied == <<rows, run, wizard, edits>>
vars == <<spine, copied>>

RunStatus == {"none", "running", "completed", "failed"}

WizardPCs == {"idle", "open", "readUnits", "units", "parents", "readRoster", "roster",
              "readItems", "items", "readGrants", "grants", "close", "failing"}

Wizard == [pc : WizardPCs,
           phases : SUBSET AllPhases,
           prior : RunNo \cup {NoRun},      \* the completed run it found
           run : RunNo \cup {NoRun},        \* the row it works under
           seen : Rows,                     \* the source, as its phases read it
           twins : SUBSET Lineage,          \* units it knows the target has
           todo : Rows]                     \* what it has still to write

Resting == [pc |-> "idle", phases |-> {}, prior |-> NoRun, run |-> NoRun,
            seen |-> NoRows, twins |-> {}, todo |-> NoRows]

On(r, pc) == wizard[r].pc = pc

Init ==
    /\ SpineInit
    /\ rows = [y \in {Source, Target} |-> IF y = Source THEN InitRows ELSE NoRows]
    /\ run = [n \in RunNo |-> "none"]
    /\ wizard = [r \in Req |-> Resting]
    /\ edits = 0

-----------------------------------------------------------------------------
(* What a year holds *)

Units(held) == {l \in Lineage : held.units[l] # Absent}

\* The same slot of a singleton position (appointment_singleton_position_uq).
SameSlot(a, b) ==
    a.unit = b.unit /\ a.position = b.position /\ a.position \in Singleton

Filled(roster, a) == \E b \in roster : a = b \/ SameSlot(a, b)

\* The units, appointments, content and grants `seen' are in `held': each unit
\* below the parent it had, each place of the roster taken.
Covers(held, seen) ==
    /\ \A l \in Units(seen) : /\ held.units[l] # Absent
                              /\ seen.units[l] # NoUnit => held.units[l] = seen.units[l]
    /\ \A a \in seen.roster : Filled(held.roster, a)
    /\ seen.items \subseteq held.items
    /\ seen.grants \subseteq held.grants

-----------------------------------------------------------------------------
(* Editors: createOrgUnit, createAppointment, createDraft and grantRole.    *)
(* The lock of the year and the unique indexes refuse what they refuse to  *)
(* the wizard.                                                             *)

Saves(y, held) == rows' = [rows EXCEPT ![y] = held]

CreateOrgUnit(y, l, parent) ==
    /\ ~Locked(y)
    /\ rows[y].units[l] = Absent
    /\ parent \in Units(rows[y]) \cup {NoUnit}
    /\ Saves(y, [rows[y] EXCEPT !.units[l] = parent])

CreateAppointment(y, a) ==
    /\ ~Locked(y)
    /\ a.unit \in Units(rows[y])
    /\ ~Filled(rows[y].roster, a)
    /\ Saves(y, [rows[y] EXCEPT !.roster = @ \cup {a}])

CreateDraft(y, i) ==
    /\ ~Locked(y)
    /\ i \notin rows[y].items
    /\ Home[i] \in Units(rows[y]) \cup {NoUnit}
    /\ Saves(y, [rows[y] EXCEPT !.items = @ \cup {i}])

GrantRole(y, g) ==
    /\ g \notin rows[y].grants
    /\ Saves(y, [rows[y] EXCEPT !.grants = @ \cup {g}])

Edit ==
    /\ \E y \in {Source, Target} :
         \/ \E l \in Lineage, p \in Lineage \cup {NoUnit} : CreateOrgUnit(y, l, p)
         \/ \E a \in Appointment : CreateAppointment(y, a)
         \/ \E i \in Item : CreateDraft(y, i)
         \/ \E g \in Grant : GrantRole(y, g)
    /\ edits < MaxEdits
    /\ edits' = edits + 1
    /\ UNCHANGED <<run, wizard>>

-----------------------------------------------------------------------------
(* The wizard *)

Goes(r, then) == wizard' = [wizard EXCEPT ![r] = then]

\* The phase that comes next, of those the caller asked for.
After(pc, phases) ==
    CASE pc = "open" /\ "units" \in phases -> "readUnits"
      [] pc \in {"open", "units"} /\ "roster" \in phases -> "readRoster"
      [] pc \in {"open", "units", "roster"} /\ "items" \in phases -> "readItems"
      [] pc # "grants" /\ "grants" \in phases -> "readGrants"
      [] OTHER -> "close"

Completed == {n \in RunNo : run[n] = "completed"}

\* runTransition: not into a locked year; a pair that was completed is left
\* alone unless the caller forces it, and then its row is used again.
RunTransition(r, phases, force) ==
    /\ On(r, "idle")
    /\ year[Source].status # "none" /\ year[Target].status \notin {"none", "locked"}
    /\ Completed # {} => force
    /\ \E prior \in IF Completed = {} THEN {NoRun} ELSE Completed :
         Goes(r, [Resting EXCEPT !.pc = "open", !.phases = phases,
                                 !.prior = prior, !.run = prior])
    /\ UNCHANGED <<rows, run>>

\* The row of the run: the prior one, running again, or a new one.
OpenRun(r) ==
    /\ On(r, "open")
    /\ \E n \in RunNo :
         /\ IF wizard[r].prior # NoRun THEN n = wizard[r].prior ELSE run[n] = "none"
         /\ run' = [run EXCEPT ![n] = "running"]
         /\ Goes(r, [wizard[r] EXCEPT !.run = n, !.pc = After("open", wizard[r].phases)])
    /\ UNCHANGED rows

\* Mutant: only the units the target lacks are wired to their parents.
ReadUnitsToCreate(r) ==
    /\ On(r, "readUnits")
    /\ Goes(r, [wizard[r] EXCEPT !.pc = "units", !.seen.units = rows[Source].units,
           !.twins = Units(rows[Target]),
           !.todo.units = [l \in Lineage |->
               IF rows[Target].units[l] = Absent THEN rows[Source].units[l] ELSE Absent]])
    /\ UNCHANGED <<rows, run>>

\* copyStructure reads the units of both years.  A unit the target lacks is
\* created, and a unit whose parent is not yet the twin of its source's
\* parent is wired to it - the units that were there before included.
ReadUnits(r) ==
    /\ On(r, "readUnits")
    /\ LET from == rows[Source].units
           to == rows[Target].units IN
       Goes(r, [wizard[r] EXCEPT !.pc = "units", !.seen.units = from,
           !.twins = Units(rows[Target]),
           !.todo.units = [l \in Lineage |->
               IF from[l] # Absent /\ (to[l] = Absent \/ (from[l] # NoUnit /\ to[l] # from[l]))
               THEN from[l] ELSE Absent]])
    /\ UNCHANGED <<rows, run>>

\* A statement of the wizard: `held' are the rows it makes of the target, or,
\* refused by the lock or by an index, it ends the run.
Writes(r, accepted, held, then) ==
    /\ IF accepted THEN Saves(Target, held) /\ Goes(r, then)
       ELSE Goes(r, [wizard[r] EXCEPT !.pc = "failing"]) /\ UNCHANGED rows
    /\ UNCHANGED run

\* A phase with nothing left to write gives way to the next one.
Done(r, pc, next) ==
    /\ On(r, pc)
    /\ Goes(r, [wizard[r] EXCEPT !.pc = next])
    /\ UNCHANGED <<rows, run>>

\* Pass 1: every missing unit, as a root.
CreateTwin(r, l) ==
    /\ On(r, "units")
    /\ l \in Units(wizard[r].todo) \ wizard[r].twins
    /\ Writes(r, ~Locked(Target) /\ rows[Target].units[l] = Absent,
         [rows[Target] EXCEPT !.units[l] = NoUnit],
         [wizard[r] EXCEPT !.twins = @ \cup {l},
                           !.todo.units[l] = IF @ = NoUnit THEN Absent ELSE @])

TwinsDone(r) ==
    /\ Units(wizard[r].todo) \subseteq wizard[r].twins
    /\ Done(r, "units", "parents")

\* Pass 2: the parents, for every unit that has a twin.
WireParent(r, l) ==
    /\ On(r, "parents")
    /\ l \in Units(wizard[r].todo)
    /\ Writes(r, ~Locked(Target),
         [rows[Target] EXCEPT !.units[l] = wizard[r].todo.units[l]],
         [wizard[r] EXCEPT !.todo.units[l] = Absent])

ParentsDone(r) ==
    /\ Units(wizard[r].todo) = {}
    /\ Done(r, "parents", After("units", wizard[r].phases))

\* copyAppointments reads both rosters: an appointment whose unit has no twin
\* is left out, and one whose place is taken is skipped.  Without the phase of
\* the units, the twins are read here.
ReadRoster(r) ==
    /\ On(r, "readRoster")
    /\ LET twins == IF "units" \in wizard[r].phases THEN wizard[r].twins
                    ELSE Units(rows[Target])
           from == {a \in rows[Source].roster : a.unit \in twins} IN
       Goes(r, [wizard[r] EXCEPT !.pc = "roster", !.twins = twins, !.seen.roster = from,
           !.todo.roster = {a \in from : ~Filled(rows[Target].roster, a)}])
    /\ UNCHANGED <<rows, run>>

CopyAppointment(r, a) ==
    /\ On(r, "roster")
    /\ a \in wizard[r].todo.roster
    /\ Writes(r, ~Locked(Target) /\ ~Filled(rows[Target].roster, a),
         [rows[Target] EXCEPT !.roster = @ \cup {a}],
         [wizard[r] EXCEPT !.todo.roster = @ \ {a}])

RosterDone(r) ==
    /\ wizard[r].todo.roster = {}
    /\ Done(r, "roster", After("roster", wizard[r].phases))

\* copyContent reads the content of both years and the units of the target;
\* an item of a unit that has no twin is left out.
ReadItems(r) ==
    /\ On(r, "readItems")
    /\ LET from == {i \in rows[Source].items :
                      Home[i] = NoUnit \/ Home[i] \in Units(rows[Target])} IN
       Goes(r, [wizard[r] EXCEPT !.pc = "items", !.seen.items = from,
                                 !.todo.items = from \ rows[Target].items])
    /\ UNCHANGED <<rows, run>>

\* One transaction per item: the item, its revision, payload and pointer.
CopyItem(r, i) ==
    /\ On(r, "items")
    /\ i \in wizard[r].todo.items
    /\ Writes(r, ~Locked(Target) /\ i \notin rows[Target].items,
         [rows[Target] EXCEPT !.items = @ \cup {i}],
         [wizard[r] EXCEPT !.todo.items = @ \ {i}])

ItemsDone(r) ==
    /\ wizard[r].todo.items = {}
    /\ Done(r, "items", After("items", wizard[r].phases))

\* copyRoleAssignments: grants are not guarded by the lock of the year.
ReadGrants(r) ==
    /\ On(r, "readGrants")
    /\ Goes(r, [wizard[r] EXCEPT !.pc = "grants", !.seen.grants = rows[Source].grants,
                   !.todo.grants = rows[Source].grants \ rows[Target].grants])
    /\ UNCHANGED <<rows, run>>

CopyGrant(r, g) ==
    /\ On(r, "grants")
    /\ g \in wizard[r].todo.grants
    /\ Writes(r, g \notin rows[Target].grants,
         [rows[Target] EXCEPT !.grants = @ \cup {g}],
         [wizard[r] EXCEPT !.todo.grants = @ \ {g}])

GrantsDone(r) ==
    /\ wizard[r].todo.grants = {}
    /\ Done(r, "grants", "close")

\* transition_run_one_completed_uq.
MayComplete(n) == Completed \subseteq {n}

\* Mutant: no index keeps a pair from being completed twice.
CloseAnyRun(r) ==
    /\ On(r, "close")
    /\ run' = [run EXCEPT ![wizard[r].run] = "completed"]
    /\ Goes(r, Resting)
    /\ UNCHANGED rows

\* The run is completed, unless another one of the pair already is.
CloseRun(r) ==
    /\ On(r, "close")
    /\ IF MayComplete(wizard[r].run)
       THEN /\ run' = [run EXCEPT ![wizard[r].run] = "completed"]
            /\ Goes(r, Resting)
       ELSE /\ Goes(r, [wizard[r] EXCEPT !.pc = "failing"])
            /\ UNCHANGED run
    /\ UNCHANGED rows

\* A statement fails for a reason of its own.
Fault(r) ==
    /\ wizard[r].pc \notin {"idle", "failing"}
    /\ Goes(r, [wizard[r] EXCEPT !.pc = "failing"])
    /\ UNCHANGED <<rows, run>>

\* Mutant: a run that fails is marked so, whatever its row was before.
FailEveryRun(r) ==
    /\ On(r, "failing")
    /\ run' = [run EXCEPT ![wizard[r].run] = "failed"]
    /\ Goes(r, Resting)
    /\ UNCHANGED rows

\* The bookkeeping of a failure: a new run is marked failed, a forced one gets
\* back the status it had.  An update the index refuses is ignored, and the
\* row stays running.
FailRun(r) ==
    /\ On(r, "failing")
    /\ LET n == wizard[r].run IN
       run' = IF n = NoRun THEN run
              ELSE IF wizard[r].prior = NoRun THEN [run EXCEPT ![n] = "failed"]
              ELSE IF MayComplete(n) THEN [run EXCEPT ![n] = "completed"]
              ELSE run
    /\ Goes(r, Resting)
    /\ UNCHANGED rows

\* The server stops: the wizard writes nothing any more.
Crash(r) ==
    /\ ~On(r, "idle")
    /\ Goes(r, Resting)
    /\ UNCHANGED <<rows, run>>

-----------------------------------------------------------------------------

WizardSteps(r) ==
    \/ OpenRun(r) \/ ReadUnits(r) \/ TwinsDone(r) \/ ParentsDone(r)
    \/ \E l \in Lineage : CreateTwin(r, l) \/ WireParent(r, l)
    \/ ReadRoster(r) \/ RosterDone(r) \/ \E a \in Appointment : CopyAppointment(r, a)
    \/ ReadItems(r) \/ ItemsDone(r) \/ \E i \in Item : CopyItem(r, i)
    \/ ReadGrants(r) \/ GrantsDone(r) \/ \E g \in Grant : CopyGrant(r, g)
    \/ CloseRun(r) \/ FailRun(r)

\* A request does one thing at a time.
SpineStep(r) == On(r, "idle") /\ (SpineBegins(r) \/ SpineSteps(r) \/ Fail(r))

WizardStep(r) ==
    /\ At(r, "idle")
    /\ \/ \E phases \in Phases, force \in BOOLEAN : RunTransition(r, phases, force)
       \/ WizardSteps(r) \/ Fault(r) \/ Crash(r)

Next ==
    \/ \E r \in Req : SpineStep(r) /\ UNCHANGED copied
    \/ \E r \in Req : WizardStep(r) /\ UNCHANGED <<spine, edits>>
    \/ Edit /\ UNCHANGED spine

Spec == Init /\ [][Next]_vars

-----------------------------------------------------------------------------
(* Properties *)

TypeOK ==
    /\ SpineTypeOK
    /\ rows \in [{Source, Target} -> Rows]
    /\ run \in [RunNo -> RunStatus]
    /\ wizard \in [Req -> Wizard]
    /\ edits \in 0..MaxEdits

\* "A partial run is safely resumable because every step skips rows that
\* already exist in the target": whatever stopped halfway before and whoever
\* runs beside it, a run that completes has brought over everything its
\* phases had read, every unit below its parent (runTransition).
TargetIsComplete ==
    \A r \in Req : On(r, "close") => Covers(rows[Target], wizard[r].seen)

\* "Failing it must NOT destroy that successful run's provenance": no step marks
\* failed a row that is completed, or that a forced run took over when it was (the
\* catch block of runTransition).  A forced run that stops, or whose restoring the
\* index refuses, does leave the row running.
CompletedNotFailed ==
    [][ \A n \in RunNo :
            n \in Completed \/ (\E r \in Req : wizard[r].prior = n) => run'[n] # "failed" ]_vars

-----------------------------------------------------------------------------
(* The inductive invariant *)

\* Unit l of the source, as wizard w read it, is in the target.
Twinned(w, l, held) ==
    /\ held[Target].units[l] # Absent
    /\ w.seen.units[l] # NoUnit => held[Target].units[l] = w.seen.units[l]

\* What a wizard w read is in the target, or it still has it to write.
UnitsKeptUp(w, held) ==
    /\ \A l \in Units(w.seen) :
         /\ w.seen.units[l] = held[Source].units[l]
         /\ w.todo.units[l] # Absent => w.todo.units[l] = w.seen.units[l]
         /\ w.pc # "failing" =>
              Twinned(w, l, held) \/ (w.pc \in {"units", "parents"} /\ l \in Units(w.todo))
    /\ Units(w.todo) \subseteq Units(w.seen)
    /\ w.twins \subseteq Units(held[Target])
    /\ w.pc = "parents" => Units(w.todo) \subseteq w.twins

RosterKeptUp(w, held) ==
    w.pc # "failing" => \A a \in w.seen.roster :
        Filled(held[Target].roster, a) \/ (w.pc = "roster" /\ a \in w.todo.roster)

ItemsKeptUp(w, held) ==
    w.pc # "failing" => \A i \in w.seen.items :
        i \in held[Target].items \/ (w.pc = "items" /\ i \in w.todo.items)

GrantsKeptUp(w, held) ==
    w.pc # "failing" => \A g \in w.seen.grants :
        g \in held[Target].grants \/ (w.pc = "grants" /\ g \in w.todo.grants)

KeepsUp(w, held) ==
    UnitsKeptUp(w, held) /\ RosterKeptUp(w, held) /\ ItemsKeptUp(w, held) /\ GrantsKeptUp(w, held)

\* The row a wizard works under: a completed one it uses again, or its own.
RowSound(r) ==
    LET w == wizard[r] IN
    /\ w.pc = "idle" => w = Resting
    /\ w.prior # NoRun => w.run = w.prior /\ run[w.prior] \in {"completed", "running"}
    /\ w.prior = NoRun /\ w.run # NoRun =>
         /\ run[w.run] = "running"
         /\ \A p \in Req \ {r} : wizard[p].run # w.run
    /\ w.run = NoRun => w.pc \in {"idle", "open", "failing"}

OneCompleted == \A m, n \in Completed : m = n

IInv ==
    /\ TypeOK
    /\ CurrentIsLive
    /\ SpineSound
    /\ OneCompleted
    /\ \A r \in Req : RowSound(r) /\ KeepsUp(wizard[r], rows)
=============================================================================
