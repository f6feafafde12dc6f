------------------------ MODULE YearTransitionProofs ------------------------
(***************************************************************************)
(* Proofs about AcademicYear and YearTransition, for any years, requests,  *)
(* units, appointments, content and grants, and any number of runs.        *)
(***************************************************************************)
EXTENDS YearTransition, TLAPS

-----------------------------------------------------------------------------
(* The years *)

YearsInv == SpineTypeOK /\ CurrentIsLive /\ SpineSound

LEMMA IdleKnows == ASSUME NEW years, NEW late PROVE Idle \in Request /\ Knows(Idle, years, late)
  BY DEF Idle, Request, Knows, Status

\* A request that reads or gives up keeps the invariant of the years.
LEMMA SpineProceeds ==
    ASSUME YearsInv, NEW r \in Req, NEW then \in Request, Proceeds(r, then, {}), year' = year,
           Knows(then, year, r \in overtaken)
    PROVE  YearsInv'
<1> USE DEF YearsInv
<1>1. /\ req' = [req EXCEPT ![r] = then]
      /\ \A p \in Req : p \in overtaken' <=> p \in overtaken /\ (p # r \/ then.pc # "idle")
      /\ overtaken' \subseteq Req
  BY DEF Proceeds, SpineTypeOK
<1>2. SpineTypeOK'
  BY <1>1 DEF SpineTypeOK
<1>3. CurrentIsLive'
  BY DEF CurrentIsLive, OneCurrent
<1>4. SpineSound'
  BY <1>1 DEF SpineSound, SpineTypeOK, Knows
<1> QED
  BY <1>2, <1>3, <1>4

\* A transaction that leaves one live year current and every year existing
\* keeps it as well: whoever was in the middle of something is overtaken.
LEMMA SpineCommits ==
    ASSUME YearsInv, NEW r \in Req, NEW years \in [Year -> YearRow], Commits(r, years),
           OneCurrent(years),
           \A y \in Year : years[y].current => years[y].status \in {"active", "locked"},
           \A y \in Year : year[y].status # "none" => years[y].status # "none"
    PROVE  YearsInv'
<1> USE DEF YearsInv
<1>1. /\ req' = [req EXCEPT ![r] = Idle]
      /\ year' = years
      /\ overtaken' \subseteq Req
      /\ \A p \in Req \ {r} : req[p].pc # "idle" => p \in overtaken'
  BY DEF Commits, Proceeds, SpineTypeOK, At
<1>2. SpineTypeOK'
  BY <1>1, IdleKnows DEF SpineTypeOK
<1>3. CurrentIsLive'
  BY <1>1 DEF CurrentIsLive, OneCurrent
<1>4. ASSUME NEW p \in Req PROVE Knows(req[p], year, p \in overtaken)'
  <2>1. CASE p = r
    BY <1>1, <2>1, IdleKnows DEF SpineTypeOK, Idle, Knows
  <2>2. CASE p # r
    BY <1>1, <2>2 DEF SpineTypeOK, SpineSound, Knows
  <2> QED
    BY <2>1, <2>2
<1> QED
  BY <1>2, <1>3, <1>4 DEF SpineSound

LEMMA SpineInitially == SpineInit => YearsInv
<1> SUFFICES ASSUME SpineInit PROVE YearsInv
  OBVIOUS
<1>1. SpineTypeOK
  BY IdleKnows DEF SpineInit, SpineTypeOK, YearRow, Status
<1>2. CurrentIsLive
  BY DEF SpineInit, CurrentIsLive, OneCurrent
<1>3. SpineSound
  BY IdleKnows DEF SpineInit, SpineSound
<1> QED
  BY <1>1, <1>2, <1>3 DEF YearsInv

\* One step of a request on the years.
LEMMA SpineKept ==
    ASSUME YearsInv, NEW r \in Req, SpineBegins(r) \/ SpineSteps(r) \/ Fail(r)
    PROVE  YearsInv'
<1> USE DEF YearsInv
<1>1. ASSUME NEW y \in Year, NEW status \in Status \ {"none"}, CreateYear(r, y, status)
      PROVE  YearsInv'
  <2>1. /\ year[y].status = "none" /\ ~year[y].current
        /\ year' = [year EXCEPT ![y].status = status] /\ req' = req /\ overtaken' = overtaken
    BY <1>1 DEF CreateYear, CurrentIsLive
  <2>2. SpineTypeOK'
    BY <2>1 DEF SpineTypeOK, YearRow
  <2>3. \A z \in Year : /\ year'[z].current = year[z].current
                        /\ z # y => year'[z] = year[z]
    BY <2>1 DEF SpineTypeOK, YearRow
  <2>4. CurrentIsLive'
    BY <2>1, <2>3 DEF CurrentIsLive, OneCurrent
  <2>5. SpineSound'
    BY <2>1, <2>3 DEF SpineSound, Knows
  <2> QED
    BY <2>2, <2>4, <2>5
<1>2. ASSUME NEW y \in Year, SetCurrentYear(r, y) PROVE YearsInv'
  <2> DEFINE then == [Idle EXCEPT !.pc = "findCurrent", !.year = y, !.next = "active"]
  <2>1. then \in Request /\ Knows(then, year, r \in overtaken)
    BY <1>2 DEF SetCurrentYear, Idle, Request, Status, Knows
  <2> QED
    BY <1>2, <2>1, SpineProceeds DEF SetCurrentYear
<1>3. ASSUME NEW y \in Year, NEW next \in {"active", "locked"}, SetYearStatus(r, y, next)
      PROVE  YearsInv'
  <2> DEFINE then == [Idle EXCEPT !.pc = "setStatus", !.year = y, !.next = next]
  <2>1. then \in Request /\ Knows(then, year, r \in overtaken)
    BY <1>3 DEF SetYearStatus, Idle, Request, Status, Knows
  <2> QED
    BY <1>3, <2>1, SpineProceeds DEF SetYearStatus
<1>4. CASE FindCurrent(r)
  <2>1. CurrentYear \in Year \cup {NoYear}
    BY DEF CurrentYear
  <2> DEFINE then == IF CurrentYear = req[r].year THEN Idle
                     ELSE [req[r] EXCEPT !.pc = "promote", !.before = CurrentYear]
  <2>2. then \in Request /\ Knows(then, year, r \in overtaken)
    <3>1. CASE CurrentYear = req[r].year
      BY <3>1, IdleKnows
    <3>2. CASE CurrentYear # req[r].year
      BY <1>4, <2>1, <3>2 DEF FindCurrent, At, SpineTypeOK, SpineSound, Request, Knows
    <3> QED
      BY <3>1, <3>2
  <2> QED
    BY <1>4, <2>2, SpineProceeds DEF FindCurrent
<1>5. CASE Promote(r)
  <2> DEFINE years == Promoted(Demoted(req[r].before), r)
  <2>1. /\ req[r].year \in Year /\ req[r].next = "active"
        /\ req[r].before \in Year \cup {NoYear}
    BY <1>5 DEF Promote, At, SpineSound, Knows, SpineTypeOK, Request
  <2>2. Demoted(req[r].before) \in [Year -> YearRow]
    BY <2>1 DEF Demoted, SpineTypeOK, YearRow
  <2>3. \A y \in Year : /\ Demoted(req[r].before)[y].status = year[y].status
                        /\ Demoted(req[r].before)[y].current => year[y].current
    BY <2>1 DEF Demoted, SpineTypeOK, YearRow
  <2>4. /\ years \in [Year -> YearRow]
        /\ years[req[r].year] = [status |-> "active", current |-> TRUE]
        /\ \A y \in Year \ {req[r].year} : years[y] = Demoted(req[r].before)[y]
    BY <2>1, <2>2 DEF Promoted, YearRow, Status
  <2>5. /\ \A y \in Year : years[y].current => years[y].status \in {"active", "locked"}
        /\ \A y \in Year : year[y].status # "none" => years[y].status # "none"
    BY <2>3, <2>4 DEF CurrentIsLive
  <2>6. CASE OneCurrent(years)
    <3>1. Commits(r, years)
      BY <1>5, <2>6 DEF Promote
    <3> HIDE DEF years
    <3> QED
      BY <2>4, <2>5, <2>6, <3>1, SpineCommits
  <2>7. CASE ~OneCurrent(years)
    <3>1. Proceeds(r, Idle, {}) /\ year' = year
      BY <1>5, <2>7 DEF Promote
    <3> QED
      BY <3>1, IdleKnows, SpineProceeds
  <2> QED
    BY <2>6, <2>7
<1>6. CASE WriteStatus(r)
  <2> DEFINE years == [year EXCEPT ![req[r].year].status = req[r].next]
  <2>1. req[r].year \in Year /\ req[r].next \in {"active", "locked"}
    BY <1>6 DEF WriteStatus, At, SpineSound, Knows
  <2>2. /\ years \in [Year -> YearRow]
        /\ \A y \in Year : /\ years[y].current = year[y].current
                           /\ y # req[r].year => years[y] = year[y]
        /\ years[req[r].year].status = req[r].next
    BY <2>1 DEF SpineTypeOK, YearRow, Status
  <2>3. OneCurrent(years)
    BY <2>2 DEF CurrentIsLive, OneCurrent
  <2>4. Commits(r, years)
    BY <1>6 DEF WriteStatus
  <2>5. /\ \A y \in Year : years[y].current => years[y].status \in {"active", "locked"}
        /\ \A y \in Year : year[y].status # "none" => years[y].status # "none"
    BY <2>1, <2>2 DEF CurrentIsLive
  <2> HIDE DEF years
  <2> QED
    BY <2>2, <2>3, <2>4, <2>5, SpineCommits
<1>7. CASE Fail(r)
  BY <1>7, IdleKnows, SpineProceeds DEF Fail
<1> QED
  BY <1>1, <1>2, <1>3, <1>4, <1>5, <1>6, <1>7 DEF SpineBegins, SpineSteps

-----------------------------------------------------------------------------
(* The rows *)

\* What others may do to the rows while a wizard works: nothing goes away,
\* and a unit of the target moves only to where the source has it.
Grows ==
    /\ rows' \in [{Source, Target} -> Rows]
    /\ \A l \in Units(rows[Source]) : rows'[Source].units[l] = rows[Source].units[l]
    /\ \A l \in Units(rows[Target]) :
         /\ rows'[Target].units[l] # Absent
         /\ rows'[Target].units[l] \in {rows[Target].units[l], rows[Source].units[l]}
    /\ rows[Target].roster \subseteq rows'[Target].roster
    /\ rows[Target].items \subseteq rows'[Target].items
    /\ rows[Target].grants \subseteq rows'[Target].grants

LEMMA SameRowsGrow ==
    ASSUME rows \in [{Source, Target} -> Rows], rows' = rows PROVE Grows
  BY DEF Grows, Units

LEMMA FilledStays ==
    ASSUME NEW old, NEW new, old \subseteq new, NEW a, Filled(old, a) PROVE Filled(new, a)
  BY DEF Filled

\* The units as w keeps up with them are not disturbed when the rows grow.
LEMMA UnitsStay ==
    ASSUME NEW w \in Wizard, UnitsKeptUp(w, rows), Grows,
           rows \in [{Source, Target} -> Rows]
    PROVE  UnitsKeptUp(w, rows')
<1>1. \A l \in Units(w.seen) : l \in Units(rows[Source]) /\ w.seen.units[l] # Absent
  BY DEF UnitsKeptUp, Units
<1>2. ASSUME NEW l \in Units(w.seen), Twinned(w, l, rows) PROVE Twinned(w, l, rows')
  BY <1>1, <1>2 DEF Twinned, Grows, UnitsKeptUp, Units
<1>3. Units(rows[Target]) \subseteq Units(rows'[Target])
  BY DEF Grows, Units
<1> QED
  BY <1>1, <1>2, <1>3 DEF UnitsKeptUp, Grows

\* The same, for everything else a wizard that goes on knows.
LEMMA RestStays ==
    ASSUME NEW w \in Wizard, Grows
    PROVE  /\ RosterKeptUp(w, rows) => RosterKeptUp(w, rows')
           /\ ItemsKeptUp(w, rows) => ItemsKeptUp(w, rows')
           /\ GrantsKeptUp(w, rows) => GrantsKeptUp(w, rows')
<1>1. RosterKeptUp(w, rows) => RosterKeptUp(w, rows')
  BY FilledStays DEF RosterKeptUp, Grows
<1> QED
  BY <1>1 DEF ItemsKeptUp, GrantsKeptUp, Grows

LEMMA KeptUpStays ==
    ASSUME NEW w \in Wizard, KeepsUp(w, rows), Grows, rows \in [{Source, Target} -> Rows]
    PROVE  KeepsUp(w, rows')
  BY UnitsStay, RestStays DEF KeepsUp

\* A wizard that moves on without a change to what it has of the units: it is
\* done with them, or fails.
LEMMA UnitsBehind ==
    ASSUME NEW w \in Wizard, NEW then \in Wizard, UnitsKeptUp(w, rows),
           w.pc \notin {"units", "parents", "failing"} \/ then.pc = "failing",
           then.pc # "parents",
           then.seen.units = w.seen.units, then.todo.units = w.todo.units,
           then.twins \subseteq Units(rows[Target])
    PROVE  UnitsKeptUp(then, rows)
  BY DEF UnitsKeptUp, Twinned, Units

-----------------------------------------------------------------------------
(* The invariant *)

WizardTypeOK ==
    /\ rows \in [{Source, Target} -> Rows]
    /\ run \in [RunNo -> RunStatus]
    /\ wizard \in [Req -> Wizard]
    /\ edits \in 0..MaxEdits

LEMMA IInvParts ==
    IInv <=> /\ YearsInv /\ WizardTypeOK /\ OneCompleted
             /\ \A r \in Req : RowSound(r) /\ KeepsUp(wizard[r], rows)
  BY DEF IInv, TypeOK, YearsInv, WizardTypeOK

LEMMA NoRunIsNone == NoRun \notin RunNo
  BY TransitionAssumption DEF NoRun, RunNo

LEMMA NoRowsHold == NoRows \in Rows /\ Units(NoRows) = {}
  BY TransitionAssumption DEF NoRows, Rows, Units, Absent

LEMMA RestingSound ==
    ASSUME rows \in [{Source, Target} -> Rows]
    PROVE  Resting \in Wizard /\ KeepsUp(Resting, rows)
<1>1. Resting \in Wizard
  BY NoRowsHold DEF Resting, Wizard, WizardPCs
<1>2. /\ UnitsKeptUp(Resting, rows) /\ RosterKeptUp(Resting, rows)
      /\ ItemsKeptUp(Resting, rows) /\ GrantsKeptUp(Resting, rows)
  BY NoRowsHold DEF Resting, NoRows, UnitsKeptUp, RosterKeptUp, ItemsKeptUp, GrantsKeptUp
<1> QED
  BY <1>1, <1>2 DEF KeepsUp

LEMMA Initially == Init => IInv
<1> SUFFICES ASSUME Init PROVE IInv
  OBVIOUS
<1>1. YearsInv
  BY SpineInitially DEF Init
<1>2. rows \in [{Source, Target} -> Rows]
  BY NoRowsHold, InitRowsAssumption DEF Init
<1>3. WizardTypeOK
  BY <1>2, RestingSound, TransitionAssumption DEF Init, WizardTypeOK, RunStatus
<1>4. OneCompleted
  BY DEF Init, OneCompleted, Completed
<1>5. ASSUME NEW r \in Req PROVE RowSound(r) /\ KeepsUp(wizard[r], rows)
  <2>1. wizard[r] = Resting
    BY DEF Init
  <2> QED
    BY <1>2, <2>1, RestingSound DEF RowSound, Resting
<1> QED
  BY <1>1, <1>3, <1>4, <1>5, IInvParts

\* A step of the years leaves what was copied alone.
LEMMA YearsStep ==
    ASSUME IInv, NEW r \in Req, SpineBegins(r) \/ SpineSteps(r) \/ Fail(r), UNCHANGED copied
    PROVE  IInv'
<1>1. YearsInv'
  BY SpineKept, IInvParts
<1>2. WizardTypeOK' /\ OneCompleted'
  BY IInvParts DEF copied, WizardTypeOK, OneCompleted, Completed
<1>3. \A p \in Req : RowSound(p)'
  BY IInvParts DEF copied, RowSound
<1>4. \A p \in Req : KeepsUp(wizard[p], rows)'
  BY IInvParts DEF copied
<1> QED
  BY <1>1, <1>2, <1>3, <1>4 DEF IInv, TypeOK, YearsInv, WizardTypeOK

\* A step of the wizard of r that leaves the rows of the runs alone.
LEMMA WizardGoes ==
    ASSUME IInv, NEW r \in Req, NEW then \in Wizard, Goes(r, then),
           UNCHANGED <<spine, edits, run>>, Grows,
           then.prior = wizard[r].prior, then.run = wizard[r].run,
           then.pc # "idle", then.run = NoRun => then.pc \in {"open", "failing"},
           KeepsUp(then, rows')
    PROVE  IInv'
<1> USE IInvParts
<1>1. YearsInv'
  BY DEF spine, YearsInv, SpineTypeOK, CurrentIsLive, OneCurrent, SpineSound
<1>2. wizard'[r] = then /\ \A p \in Req \ {r} : wizard'[p] = wizard[p]
  BY DEF Goes, WizardTypeOK
<1>3. WizardTypeOK' /\ OneCompleted'
  BY DEF WizardTypeOK, Goes, Grows, OneCompleted, Completed
<1>4. \A p \in Req : RowSound(p)'
  BY <1>2 DEF RowSound
<1>5. ASSUME NEW p \in Req PROVE KeepsUp(wizard[p], rows)'
  <2>1. CASE p = r
    BY <1>2, <2>1
  <2>2. CASE p # r
    BY <1>2, <2>2, KeptUpStays DEF WizardTypeOK
  <2> QED
    BY <2>1, <2>2
<1> QED
  BY <1>1, <1>3, <1>4, <1>5 DEF IInv, TypeOK, YearsInv, WizardTypeOK

\* A step of the wizard of r that leaves the rows of the years alone.
LEMMA RowGoes ==
    ASSUME IInv, NEW r \in Req, NEW then \in Wizard, Goes(r, then),
           UNCHANGED <<spine, edits, rows>>,
           run' \in [RunNo -> RunStatus], OneCompleted', KeepsUp(then, rows),
           RowSound(r)', \A p \in Req \ {r} : wizard'[p] = wizard[p] => RowSound(p)'
    PROVE  IInv'
<1> USE IInvParts
<1>1. YearsInv'
  BY DEF spine, YearsInv, SpineTypeOK, CurrentIsLive, OneCurrent, SpineSound
<1>2. wizard'[r] = then /\ \A p \in Req \ {r} : wizard'[p] = wizard[p]
  BY DEF Goes, WizardTypeOK
<1>3. WizardTypeOK'
  BY DEF WizardTypeOK, Goes
<1>4. \A p \in Req : RowSound(p)'
  BY <1>2
<1>5. \A p \in Req : KeepsUp(wizard[p], rows)'
  BY <1>2
<1> QED
  BY <1>1, <1>3, <1>4, <1>5 DEF IInv, TypeOK, YearsInv, WizardTypeOK

-----------------------------------------------------------------------------
(* The steps of a wizard *)

\* What is known of a wizard that works under a row.
LEMMA AtWork ==
    ASSUME IInv, NEW r \in Req, wizard[r].pc \notin {"idle", "open", "failing"}
    PROVE  /\ wizard[r] \in Wizard
           /\ wizard[r].run # NoRun
           /\ KeepsUp(wizard[r], rows)
           /\ rows \in [{Source, Target} -> Rows]
  BY DEF IInv, TypeOK, RowSound

LEMMA FaultKept ==
    ASSUME IInv, NEW r \in Req, UNCHANGED <<spine, edits, rows, run>>,
           wizard[r].pc # "idle",
           Goes(r, [wizard[r] EXCEPT !.pc = "failing"])
    PROVE  IInv'
<1> DEFINE then == [wizard[r] EXCEPT !.pc = "failing"]
<1>1. /\ wizard[r] \in Wizard /\ KeepsUp(wizard[r], rows)
      /\ rows \in [{Source, Target} -> Rows]
  BY DEF IInv, TypeOK
<1>2. then \in Wizard
  BY <1>1 DEF Wizard, WizardPCs
<1>3. KeepsUp(then, rows)
  BY <1>1 DEF KeepsUp, UnitsKeptUp, RosterKeptUp, ItemsKeptUp, GrantsKeptUp, Wizard
<1>4. Grows
  BY <1>1, SameRowsGrow
<1> QED
  BY <1>1, <1>2, <1>3, <1>4, WizardGoes DEF Wizard

\* A read, or a phase that gives way to the next: nothing is written.
LEMMA ReadKept ==
    ASSUME IInv, NEW r \in Req, NEW then \in Wizard, UNCHANGED <<spine, edits, rows, run>>,
           wizard[r].pc \notin {"idle", "open", "failing"}, Goes(r, then),
           then.prior = wizard[r].prior, then.run = wizard[r].run, then.pc # "idle",
           KeepsUp(then, rows)
    PROVE  IInv'
<1>1. Grows
  BY AtWork, SameRowsGrow
<1> QED
  BY <1>1, AtWork, WizardGoes

\* A write, accepted or refused.
LEMMA WriteKept ==
    ASSUME IInv, NEW r \in Req, NEW accepted \in BOOLEAN, NEW held \in Rows, NEW then \in Wizard,
           UNCHANGED <<spine, edits>>,
           wizard[r].pc \notin {"idle", "open", "failing"},
           Writes(r, accepted, held, then),
           then.prior = wizard[r].prior, then.run = wizard[r].run, then.pc # "idle",
           accepted /\ Saves(Target, held) => Grows /\ KeepsUp(then, rows')
    PROVE  IInv'
<1>1. CASE accepted
  BY <1>1, AtWork, WizardGoes DEF Writes
<1>2. CASE ~accepted
  BY <1>2, FaultKept DEF Writes
<1> QED
  BY <1>1, <1>2

LEMMA AfterIsPhase ==
    ASSUME NEW pc, NEW phases
    PROVE  After(pc, phases) \in {"readUnits", "readRoster", "readItems", "readGrants", "close"}
  BY DEF After

LEMMA ReadUnitsKept ==
    ASSUME IInv, NEW r \in Req, ReadUnits(r), UNCHANGED <<spine, edits>> PROVE IInv'
<1> DEFINE w == wizard[r]
           from == rows[Source].units
           to == rows[Target].units
           missing == [l \in Lineage |->
               IF from[l] # Absent /\ (to[l] = Absent \/ (from[l] # NoUnit /\ to[l] # from[l]))
               THEN from[l] ELSE Absent]
           then == [w EXCEPT !.pc = "units", !.seen.units = from,
                             !.twins = Units(rows[Target]), !.todo.units = missing]
<1>1. w.pc = "readUnits"
  BY DEF ReadUnits, On
<1>2. /\ w \in Wizard /\ KeepsUp(w, rows)
      /\ rows[Source] \in Rows /\ rows[Target] \in Rows
  BY <1>1, AtWork
<1>3. missing \in [Lineage -> Lineage \cup {NoUnit, Absent}]
  BY <1>2 DEF Rows
<1>4. /\ then \in Wizard
      /\ then.prior = w.prior /\ then.run = w.run /\ then.pc = "units"
      /\ then.seen.units = from /\ then.todo.units = missing /\ then.twins = Units(rows[Target])
      /\ then.seen.roster = w.seen.roster /\ then.seen.items = w.seen.items
      /\ then.seen.grants = w.seen.grants
  BY <1>2, <1>3 DEF Wizard, WizardPCs, Rows, Units
<1> HIDE DEF then
<1>5. UnitsKeptUp(then, rows)
  BY <1>4 DEF UnitsKeptUp, Twinned, Units
<1>6. RosterKeptUp(then, rows) /\ ItemsKeptUp(then, rows) /\ GrantsKeptUp(then, rows)
  BY <1>1, <1>2, <1>4 DEF KeepsUp, RosterKeptUp, ItemsKeptUp, GrantsKeptUp
<1>7. Goes(r, then) /\ UNCHANGED <<rows, run>>
  BY DEF ReadUnits, then
<1> QED
  BY <1>1, <1>4, <1>5, <1>6, <1>7, ReadKept DEF KeepsUp

LEMMA CreateTwinKept ==
    ASSUME IInv, NEW r \in Req, NEW l \in Lineage, CreateTwin(r, l), UNCHANGED <<spine, edits>>
    PROVE  IInv'
<1> DEFINE w == wizard[r]
           held == [rows[Target] EXCEPT !.units[l] = NoUnit]
           then == [w EXCEPT !.twins = @ \cup {l},
                             !.todo.units[l] = IF @ = NoUnit THEN Absent ELSE @]
           accepted == ~Locked(Target) /\ rows[Target].units[l] = Absent
<1>1. w.pc = "units" /\ l \in Units(w.todo) /\ Writes(r, accepted, held, then)
  BY DEF CreateTwin, On
<1>2. /\ w \in Wizard /\ KeepsUp(w, rows)
      /\ rows \in [{Source, Target} -> Rows]
  BY <1>1, AtWork
<1>3. held \in Rows /\ held.units = [rows[Target].units EXCEPT ![l] = NoUnit]
      /\ held.roster = rows[Target].roster /\ held.items = rows[Target].items
      /\ held.grants = rows[Target].grants
  BY <1>2 DEF Rows
<1>4. /\ then \in Wizard
      /\ then.prior = w.prior /\ then.run = w.run /\ then.pc = "units"
      /\ then.seen = w.seen /\ then.twins = w.twins \cup {l}
      /\ then.todo.units = [w.todo.units EXCEPT ![l] = IF @ = NoUnit THEN Absent ELSE @]
  BY <1>1, <1>2 DEF Wizard, WizardPCs, Rows, Units
<1> HIDE DEF then, held
<1>5. ASSUME accepted, Saves(Target, held) PROVE Grows /\ KeepsUp(then, rows')
  <2>1. rows' = [rows EXCEPT ![Target] = held] /\ rows[Target].units[l] = Absent
    BY <1>5 DEF Saves
  <2>2. rows'[Target] = held /\ rows'[Source] = rows[Source]
        /\ rows' \in [{Source, Target} -> Rows]
    BY <1>2, <1>3, <2>1, TransitionAssumption
  <2>3. \A k \in Lineage : rows'[Target].units[k] = IF k = l THEN NoUnit ELSE rows[Target].units[k]
    BY <1>2, <1>3, <2>2 DEF Rows
  <2>4. Grows
    BY <1>3, <2>1, <2>2, <2>3 DEF Grows, Units
  <2>5. UnitsKeptUp(w, rows')
    BY <1>2, <2>4, UnitsStay DEF KeepsUp
  <2>6. \A k \in Lineage : then.todo.units[k] =
            IF k = l /\ w.todo.units[l] = NoUnit THEN Absent ELSE w.todo.units[k]
    BY <1>2, <1>4 DEF Wizard, Rows
  <2>7. NoUnit # Absent
    BY TransitionAssumption
  <2>8. UnitsKeptUp(then, rows')
    <3>1. Units(then.todo) \subseteq Units(w.todo)
      BY <2>6 DEF Units
    <3>2. then.twins \subseteq Units(rows'[Target])
      BY <1>4, <2>3, <2>5, <2>7 DEF UnitsKeptUp, Units
    <3>3. ASSUME NEW k \in Units(w.seen)
          PROVE  Twinned(then, k, rows') \/ k \in Units(then.todo)
      <4>1. CASE k \in Units(then.todo)
        BY <4>1
      <4>2. CASE k \notin Units(w.todo)
        BY <1>1, <1>4, <2>5, <3>3, <4>2 DEF UnitsKeptUp, Twinned
      <4>3. CASE k \in Units(w.todo) /\ k \notin Units(then.todo)
        <5>1. k = l /\ w.todo.units[l] = NoUnit
          BY <2>6, <4>3 DEF Units
        <5>2. w.seen.units[k] = NoUnit
          BY <2>5, <2>7, <3>3, <5>1 DEF UnitsKeptUp
        <5> QED
          BY <1>4, <2>3, <2>7, <5>1, <5>2 DEF Twinned
      <4> QED
        BY <4>1, <4>2, <4>3
    <3> QED
      BY <1>1, <1>4, <2>5, <2>6, <3>1, <3>2, <3>3, ZenonT(60) DEF UnitsKeptUp, Units
  <2>9. RosterKeptUp(then, rows') /\ ItemsKeptUp(then, rows') /\ GrantsKeptUp(then, rows')
    BY <1>1, <1>2, <1>4, <2>4, RestStays
       DEF KeepsUp, RosterKeptUp, ItemsKeptUp, GrantsKeptUp
  <2> QED
    BY <2>4, <2>8, <2>9 DEF KeepsUp
<1> QED
  BY <1>1, <1>3, <1>4, <1>5, WriteKept

LEMMA WireParentKept ==
    ASSUME IInv, NEW r \in Req, NEW l \in Lineage, WireParent(r, l), UNCHANGED <<spine, edits>>
    PROVE  IInv'
<1> DEFINE w == wizard[r]
           held == [rows[Target] EXCEPT !.units[l] = w.todo.units[l]]
           then == [w EXCEPT !.todo.units[l] = Absent]
           accepted == ~Locked(Target)
<1>1. w.pc = "parents" /\ l \in Units(w.todo) /\ Writes(r, accepted, held, then)
  BY DEF WireParent, On
<1>2. /\ w \in Wizard /\ KeepsUp(w, rows)
      /\ rows \in [{Source, Target} -> Rows]
  BY <1>1, AtWork
<1>3. /\ held \in Rows /\ held.units = [rows[Target].units EXCEPT ![l] = w.todo.units[l]]
      /\ held.roster = rows[Target].roster /\ held.items = rows[Target].items
      /\ held.grants = rows[Target].grants
  BY <1>2 DEF Rows, Wizard
<1>4. /\ then \in Wizard
      /\ then.prior = w.prior /\ then.run = w.run /\ then.pc = "parents"
      /\ then.seen = w.seen /\ then.twins = w.twins
      /\ then.todo.units = [w.todo.units EXCEPT ![l] = Absent]
  BY <1>1, <1>2 DEF Wizard, WizardPCs, Rows
<1> HIDE DEF then, held
<1>5. ASSUME accepted, Saves(Target, held) PROVE Grows /\ KeepsUp(then, rows')
  <2>1. rows' = [rows EXCEPT ![Target] = held]
    BY <1>5 DEF Saves
  <2>2. rows'[Target] = held /\ rows'[Source] = rows[Source]
        /\ rows' \in [{Source, Target} -> Rows]
    BY <1>2, <1>3, <2>1, TransitionAssumption
  <2>3. \A k \in Lineage :
            rows'[Target].units[k] = IF k = l THEN w.todo.units[l] ELSE rows[Target].units[k]
    BY <1>2, <1>3, <2>2 DEF Rows
  <2>4. /\ w.todo.units[l] # Absent /\ w.todo.units[l] = w.seen.units[l]
        /\ w.seen.units[l] = rows[Source].units[l] /\ l \in Units(w.seen)
    BY <1>1, <1>2 DEF KeepsUp, UnitsKeptUp, Units
  <2>5. Grows
    BY <1>3, <2>2, <2>3, <2>4 DEF Grows, Units
  <2>6. UnitsKeptUp(w, rows')
    BY <1>2, <2>5, UnitsStay DEF KeepsUp
  <2>7. \A k \in Lineage : then.todo.units[k] = IF k = l THEN Absent ELSE w.todo.units[k]
    BY <1>2, <1>4 DEF Wizard, Rows
  <2>8. UnitsKeptUp(then, rows')
    <3>1. Units(then.todo) = Units(w.todo) \ {l}
      BY <2>7 DEF Units
    <3>2. Twinned(then, l, rows')
      BY <1>4, <2>3, <2>4 DEF Twinned
    <3>3. ASSUME NEW k \in Units(w.seen)
          PROVE  Twinned(then, k, rows') \/ k \in Units(then.todo)
      BY <1>1, <1>4, <2>6, <3>1, <3>2, <3>3 DEF UnitsKeptUp, Twinned
    <3> QED
      BY <1>1, <1>4, <2>6, <2>7, <3>1, <3>3 DEF UnitsKeptUp, Units
  <2>9. RosterKeptUp(then, rows') /\ ItemsKeptUp(then, rows') /\ GrantsKeptUp(then, rows')
    BY <1>1, <1>2, <1>4, <2>5, RestStays
       DEF KeepsUp, RosterKeptUp, ItemsKeptUp, GrantsKeptUp
  <2> QED
    BY <2>5, <2>8, <2>9 DEF KeepsUp
<1> QED
  BY <1>1, <1>3, <1>4, <1>5, WriteKept

\* A phase gives way to the next one.
LEMMA PhaseDone ==
    ASSUME IInv, NEW r \in Req, NEW pc, NEW next \in WizardPCs, Done(r, pc, next),
           UNCHANGED <<spine, edits>>,
           pc \notin {"idle", "open", "failing"}, next # "idle",
           pc \in {"units", "parents"} => Units(wizard[r].todo) \subseteq wizard[r].twins,
           pc = "units" => next = "parents",
           pc # "units" => next # "parents",
           pc = "parents" => Units(wizard[r].todo) = {},
           pc = "roster" => wizard[r].todo.roster = {},
           pc = "items" => wizard[r].todo.items = {},
           pc = "grants" => wizard[r].todo.grants = {}
    PROVE  IInv'
<1> DEFINE w == wizard[r]
           then == [w EXCEPT !.pc = next]
<1>1. w.pc = pc /\ Goes(r, then) /\ UNCHANGED <<rows, run>>
  BY DEF Done, On
<1>2. w \in Wizard /\ KeepsUp(w, rows)
  BY <1>1, AtWork
<1>3. /\ then \in Wizard /\ then.pc = next
      /\ then.prior = w.prior /\ then.run = w.run
      /\ then.seen = w.seen /\ then.twins = w.twins /\ then.todo = w.todo
  BY <1>2 DEF Wizard
<1> HIDE DEF then
<1>4. UnitsKeptUp(then, rows)
  BY <1>1, <1>2, <1>3 DEF KeepsUp, UnitsKeptUp, Twinned
<1>5. RosterKeptUp(then, rows) /\ ItemsKeptUp(then, rows) /\ GrantsKeptUp(then, rows)
  BY <1>1, <1>2, <1>3 DEF KeepsUp, RosterKeptUp, ItemsKeptUp, GrantsKeptUp
<1> QED
  BY <1>1, <1>3, <1>4, <1>5, ReadKept DEF KeepsUp

LEMMA PhasesGiveWay ==
    ASSUME IInv, NEW r \in Req, UNCHANGED <<spine, edits>>,
           TwinsDone(r) \/ ParentsDone(r) \/ RosterDone(r) \/ ItemsDone(r) \/ GrantsDone(r)
    PROVE  IInv'
<1>1. \A pc, phases : After(pc, phases) \in WizardPCs /\ After(pc, phases) \notin {"idle", "parents"}
  BY AfterIsPhase DEF WizardPCs
<1>2. CASE TwinsDone(r)
  BY <1>2, PhaseDone DEF TwinsDone, WizardPCs
<1>3. CASE ParentsDone(r)
  BY <1>1, <1>3, PhaseDone DEF ParentsDone
<1>4. CASE RosterDone(r)
  BY <1>1, <1>4, PhaseDone DEF RosterDone
<1>5. CASE ItemsDone(r)
  BY <1>1, <1>5, PhaseDone DEF ItemsDone
<1>6. CASE GrantsDone(r)
  BY <1>6, PhaseDone DEF GrantsDone, WizardPCs
<1> QED
  BY <1>2, <1>3, <1>4, <1>5, <1>6

LEMMA ReadRosterKept ==
    ASSUME IInv, NEW r \in Req, ReadRoster(r), UNCHANGED <<spine, edits>> PROVE IInv'
<1> DEFINE w == wizard[r]
           twins == IF "units" \in w.phases THEN w.twins ELSE Units(rows[Target])
           from == {a \in rows[Source].roster : a.unit \in twins}
           missing == {a \in from : ~Filled(rows[Target].roster, a)}
           then == [w EXCEPT !.pc = "roster", !.twins = twins, !.seen.roster = from,
                             !.todo.roster = missing]
<1>1. w.pc = "readRoster" /\ Goes(r, then) /\ UNCHANGED <<rows, run>>
  BY DEF ReadRoster, On
<1>2. /\ w \in Wizard /\ KeepsUp(w, rows)
      /\ rows[Source] \in Rows /\ rows[Target] \in Rows
  BY <1>1, AtWork
<1>3. twins \subseteq Units(rows[Target]) /\ twins \subseteq Lineage
  BY <1>2 DEF KeepsUp, UnitsKeptUp, Units
<1>4. from \subseteq Appointment /\ missing \subseteq Appointment
  BY <1>2 DEF Rows
<1>5. /\ then \in Wizard /\ then.pc = "roster"
      /\ then.prior = w.prior /\ then.run = w.run
      /\ then.seen.units = w.seen.units /\ then.todo.units = w.todo.units
      /\ then.twins = twins
      /\ then.seen.roster = from /\ then.todo.roster = missing
      /\ then.seen.items = w.seen.items /\ then.seen.grants = w.seen.grants
  BY <1>2, <1>3, <1>4 DEF Wizard, WizardPCs, Rows
<1> HIDE DEF then
<1>6. UnitsKeptUp(then, rows)
  BY <1>1, <1>2, <1>3, <1>5, UnitsBehind DEF KeepsUp
<1>7. RosterKeptUp(then, rows) /\ ItemsKeptUp(then, rows) /\ GrantsKeptUp(then, rows)
  BY <1>1, <1>2, <1>5 DEF KeepsUp, RosterKeptUp, ItemsKeptUp, GrantsKeptUp
<1> QED
  BY <1>1, <1>5, <1>6, <1>7, ReadKept DEF KeepsUp

LEMMA ReadItemsKept ==
    ASSUME IInv, NEW r \in Req, ReadItems(r), UNCHANGED <<spine, edits>> PROVE IInv'
<1> DEFINE w == wizard[r]
           from == {i \in rows[Source].items : Home[i] = NoUnit \/ Home[i] \in Units(rows[Target])}
           then == [w EXCEPT !.pc = "items", !.seen.items = from,
                             !.todo.items = from \ rows[Target].items]
<1>1. w.pc = "readItems" /\ Goes(r, then) /\ UNCHANGED <<rows, run>>
  BY DEF ReadItems, On
<1>2. /\ w \in Wizard /\ KeepsUp(w, rows)
      /\ rows[Source] \in Rows /\ rows[Target] \in Rows
  BY <1>1, AtWork
<1>3. /\ then \in Wizard /\ then.pc = "items"
      /\ then.prior = w.prior /\ then.run = w.run
      /\ then.seen.units = w.seen.units /\ then.todo.units = w.todo.units
      /\ then.twins = w.twins
      /\ then.seen.items = from /\ then.todo.items = from \ rows[Target].items
      /\ then.seen.roster = w.seen.roster /\ then.seen.grants = w.seen.grants
  BY <1>2 DEF Wizard, WizardPCs, Rows
<1> HIDE DEF then
<1>4. UnitsKeptUp(then, rows)
  BY <1>1, <1>2, <1>3, UnitsBehind DEF KeepsUp, UnitsKeptUp
<1>5. RosterKeptUp(then, rows) /\ ItemsKeptUp(then, rows) /\ GrantsKeptUp(then, rows)
  BY <1>1, <1>2, <1>3 DEF KeepsUp, RosterKeptUp, ItemsKeptUp, GrantsKeptUp
<1> QED
  BY <1>1, <1>3, <1>4, <1>5, ReadKept DEF KeepsUp

LEMMA ReadGrantsKept ==
    ASSUME IInv, NEW r \in Req, ReadGrants(r), UNCHANGED <<spine, edits>> PROVE IInv'
<1> DEFINE w == wizard[r]
           then == [w EXCEPT !.pc = "grants", !.seen.grants = rows[Source].grants,
                             !.todo.grants = rows[Source].grants \ rows[Target].grants]
<1>1. w.pc = "readGrants" /\ Goes(r, then) /\ UNCHANGED <<rows, run>>
  BY DEF ReadGrants, On
<1>2. /\ w \in Wizard /\ KeepsUp(w, rows)
      /\ rows[Source] \in Rows /\ rows[Target] \in Rows
  BY <1>1, AtWork
<1>3. /\ then \in Wizard /\ then.pc = "grants"
      /\ then.prior = w.prior /\ then.run = w.run
      /\ then.seen.units = w.seen.units /\ then.todo.units = w.todo.units
      /\ then.twins = w.twins
      /\ then.seen.grants = rows[Source].grants
      /\ then.todo.grants = rows[Source].grants \ rows[Target].grants
      /\ then.seen.roster = w.seen.roster /\ then.seen.items = w.seen.items
  BY <1>2 DEF Wizard, WizardPCs, Rows
<1> HIDE DEF then
<1>4. UnitsKeptUp(then, rows)
  BY <1>1, <1>2, <1>3, UnitsBehind DEF KeepsUp, UnitsKeptUp
<1>5. RosterKeptUp(then, rows) /\ ItemsKeptUp(then, rows) /\ GrantsKeptUp(then, rows)
  BY <1>1, <1>2, <1>3 DEF KeepsUp, RosterKeptUp, ItemsKeptUp, GrantsKeptUp
<1> QED
  BY <1>1, <1>3, <1>4, <1>5, ReadKept DEF KeepsUp

LEMMA CopyAppointmentKept ==
    ASSUME IInv, NEW r \in Req, NEW a \in Appointment, CopyAppointment(r, a), UNCHANGED <<spine, edits>>
    PROVE  IInv'
<1> DEFINE w == wizard[r]
           held == [rows[Target] EXCEPT !.roster = @ \cup {a}]
           then == [w EXCEPT !.todo.roster = @ \ {a}]
           accepted == ~Locked(Target) /\ ~Filled(rows[Target].roster, a)
<1>1. w.pc = "roster" /\ Writes(r, accepted, held, then)
  BY DEF CopyAppointment, On
<1>2. /\ w \in Wizard /\ KeepsUp(w, rows)
      /\ rows \in [{Source, Target} -> Rows]
  BY <1>1, AtWork
<1>3. /\ held \in Rows /\ held.units = rows[Target].units
      /\ held.roster = rows[Target].roster \cup {a}
      /\ held.items = rows[Target].items /\ held.grants = rows[Target].grants
  BY <1>2 DEF Rows
<1>4. /\ then \in Wizard /\ then.pc = w.pc
      /\ then.prior = w.prior /\ then.run = w.run
      /\ then.seen = w.seen /\ then.twins = w.twins
      /\ then.todo.units = w.todo.units /\ then.todo.roster = w.todo.roster \ {a}
      /\ then.todo.items = w.todo.items /\ then.todo.grants = w.todo.grants
  BY <1>2 DEF Wizard, Rows
<1> HIDE DEF then, held
<1>5. ASSUME accepted, Saves(Target, held) PROVE Grows /\ KeepsUp(then, rows')
  <2>1. rows' = [rows EXCEPT ![Target] = held]
    BY <1>5 DEF Saves
  <2>2. /\ rows'[Target] = held /\ rows'[Source] = rows[Source]
        /\ rows' \in [{Source, Target} -> Rows]
    BY <1>2, <1>3, <2>1, TransitionAssumption
  <2>3. Grows
    BY <1>3, <2>2 DEF Grows, Units
  <2>4. KeepsUp(w, rows')
    BY <1>2, <2>3, KeptUpStays
  <2>5. UnitsKeptUp(then, rows')
    BY <1>1, <1>4, <2>4, ZenonT(60) DEF KeepsUp, UnitsKeptUp, Twinned, Units
  <2>6. RosterKeptUp(then, rows') /\ ItemsKeptUp(then, rows') /\ GrantsKeptUp(then, rows')
    BY <1>1, <1>3, <1>4, <2>2, <2>4
       DEF KeepsUp, RosterKeptUp, ItemsKeptUp, GrantsKeptUp, Filled
  <2> QED
    BY <2>3, <2>5, <2>6 DEF KeepsUp
<1> QED
  BY <1>1, <1>3, <1>4, <1>5, WriteKept

LEMMA CopyItemKept ==
    ASSUME IInv, NEW r \in Req, NEW i \in Item, CopyItem(r, i), UNCHANGED <<spine, edits>>
    PROVE  IInv'
<1> DEFINE w == wizard[r]
           held == [rows[Target] EXCEPT !.items = @ \cup {i}]
           then == [w EXCEPT !.todo.items = @ \ {i}]
           accepted == ~Locked(Target) /\ i \notin rows[Target].items
<1>1. w.pc = "items" /\ Writes(r, accepted, held, then)
  BY DEF CopyItem, On
<1>2. /\ w \in Wizard /\ KeepsUp(w, rows)
      /\ rows \in [{Source, Target} -> Rows]
  BY <1>1, AtWork
<1>3. /\ held \in Rows /\ held.units = rows[Target].units
      /\ held.items = rows[Target].items \cup {i}
      /\ held.roster = rows[Target].roster /\ held.grants = rows[Target].grants
  BY <1>2 DEF Rows
<1>4. /\ then \in Wizard /\ then.pc = w.pc
      /\ then.prior = w.prior /\ then.run = w.run
      /\ then.seen = w.seen /\ then.twins = w.twins
      /\ then.todo.units = w.todo.units /\ then.todo.items = w.todo.items \ {i}
      /\ then.todo.roster = w.todo.roster /\ then.todo.grants = w.todo.grants
  BY <1>2 DEF Wizard, Rows
<1> HIDE DEF then, held
<1>5. ASSUME accepted, Saves(Target, held) PROVE Grows /\ KeepsUp(then, rows')
  <2>1. rows' = [rows EXCEPT ![Target] = held]
    BY <1>5 DEF Saves
  <2>2. /\ rows'[Target] = held /\ rows'[Source] = rows[Source]
        /\ rows' \in [{Source, Target} -> Rows]
    BY <1>2, <1>3, <2>1, TransitionAssumption
  <2>3. Grows
    BY <1>3, <2>2 DEF Grows, Units
  <2>4. KeepsUp(w, rows')
    BY <1>2, <2>3, KeptUpStays
  <2>5. UnitsKeptUp(then, rows')
    BY <1>1, <1>4, <2>4 DEF KeepsUp, UnitsKeptUp, Twinned, Units
  <2>6. RosterKeptUp(then, rows') /\ ItemsKeptUp(then, rows') /\ GrantsKeptUp(then, rows')
    BY <1>1, <1>3, <1>4, <2>2, <2>4
       DEF KeepsUp, RosterKeptUp, ItemsKeptUp, GrantsKeptUp, Filled
  <2> QED
    BY <2>3, <2>5, <2>6 DEF KeepsUp
<1> QED
  BY <1>1, <1>3, <1>4, <1>5, WriteKept

LEMMA CopyGrantKept ==
    ASSUME IInv, NEW r \in Req, NEW g \in Grant, CopyGrant(r, g), UNCHANGED <<spine, edits>>
    PROVE  IInv'
<1> DEFINE w == wizard[r]
           held == [rows[Target] EXCEPT !.grants = @ \cup {g}]
           then == [w EXCEPT !.todo.grants = @ \ {g}]
           accepted == g \notin rows[Target].grants
<1>1. w.pc = "grants" /\ Writes(r, accepted, held, then)
  BY DEF CopyGrant, On
<1>2. /\ w \in Wizard /\ KeepsUp(w, rows)
      /\ rows \in [{Source, Target} -> Rows]
  BY <1>1, AtWork
<1>3. /\ held \in Rows /\ held.units = rows[Target].units
      /\ held.grants = rows[Target].grants \cup {g}
      /\ held.roster = rows[Target].roster /\ held.items = rows[Target].items
  BY <1>2 DEF Rows
<1>4. /\ then \in Wizard /\ then.pc = w.pc
      /\ then.prior = w.prior /\ then.run = w.run
      /\ then.seen = w.seen /\ then.twins = w.twins
      /\ then.todo.units = w.todo.units /\ then.todo.grants = w.todo.grants \ {g}
      /\ then.todo.roster = w.todo.roster /\ then.todo.items = w.todo.items
  BY <1>2 DEF Wizard, Rows
<1> HIDE DEF then, held
<1>5. ASSUME accepted, Saves(Target, held) PROVE Grows /\ KeepsUp(then, rows')
  <2>1. rows' = [rows EXCEPT ![Target] = held]
    BY <1>5 DEF Saves
  <2>2. /\ rows'[Target] = held /\ rows'[Source] = rows[Source]
        /\ rows' \in [{Source, Target} -> Rows]
    BY <1>2, <1>3, <2>1, TransitionAssumption
  <2>3. Grows
    BY <1>3, <2>2 DEF Grows, Units
  <2>4. KeepsUp(w, rows')
    BY <1>2, <2>3, KeptUpStays
  <2>5. UnitsKeptUp(then, rows')
    BY <1>1, <1>4, <2>4, SMTT(20) DEF KeepsUp, UnitsKeptUp, Twinned, Units
  <2>6. RosterKeptUp(then, rows') /\ ItemsKeptUp(then, rows') /\ GrantsKeptUp(then, rows')
    BY <1>1, <1>3, <1>4, <2>2, <2>4
       DEF KeepsUp, RosterKeptUp, ItemsKeptUp, GrantsKeptUp, Filled
  <2> QED
    BY <2>3, <2>5, <2>6 DEF KeepsUp
<1> QED
  BY <1>1, <1>3, <1>4, <1>5, WriteKept

-----------------------------------------------------------------------------
(* The row of a run *)

\* A wizard that rests, or has nothing yet.
LEMMA NothingYet ==
    ASSUME NEW w \in Wizard, w.seen = NoRows, w.todo = NoRows, w.twins = {}, w.pc # "parents"
    PROVE  KeepsUp(w, rows)
  BY NoRowsHold DEF KeepsUp, UnitsKeptUp, RosterKeptUp, ItemsKeptUp, GrantsKeptUp, NoRows

\* The wizard of r rests again, and the row it had is not running any more or
\* was not its own.
LEMMA RestKept ==
    ASSUME IInv, NEW r \in Req, Goes(r, Resting), UNCHANGED <<spine, edits, rows>>,
           run' \in [RunNo -> RunStatus], OneCompleted',
           \A n \in RunNo : \/ run'[n] = run[n]
                            \/ n = wizard[r].run /\ wizard[r].prior = NoRun
                            \/ run'[n] = "completed" /\ n = wizard[r].prior
    PROVE  IInv'
<1>1. /\ wizard \in [Req -> Wizard] /\ rows \in [{Source, Target} -> Rows]
      /\ \A p \in Req : RowSound(p)
  BY DEF IInv, TypeOK
<1>2. wizard'[r] = Resting /\ \A p \in Req \ {r} : wizard'[p] = wizard[p]
  BY <1>1 DEF Goes
<1>3. RowSound(r)'
  BY <1>2 DEF RowSound, Resting
<1>4. ASSUME NEW p \in Req \ {r} PROVE RowSound(p)'
  <2>1. \A q \in Req \ {p} : wizard'[q].run = wizard[q].run \/ wizard'[q].run = NoRun
    BY <1>2 DEF Resting
  <2>2. wizard'[p] = wizard[p] /\ RowSound(p) /\ RowSound(r) /\ wizard[p] \in Wizard /\ wizard[r] \in Wizard
    BY <1>1, <1>2
  <2>3. wizard[p].prior \in RunNo \cup {NoRun} /\ wizard[p].run \in RunNo \cup {NoRun}
    BY <2>2 DEF Wizard
  <2>4. wizard[p].prior # NoRun =>
            wizard[p].run = wizard[p].prior /\ run'[wizard[p].prior] \in {"completed", "running"}
    BY <2>2, <2>3 DEF RowSound
  <2>5. wizard[p].prior = NoRun /\ wizard[p].run # NoRun =>
            /\ run'[wizard[p].run] = "running"
            /\ \A q \in Req \ {p} : wizard'[q].run # wizard[p].run
    BY <2>1, <2>2, <2>3 DEF RowSound
  <2> QED
    BY <2>2, <2>4, <2>5 DEF RowSound
<1> QED
  BY <1>1, <1>3, <1>4, RestingSound, RowGoes

LEMMA RunTransitionKept ==
    ASSUME IInv, NEW r \in Req, NEW phases \in Phases, NEW force \in BOOLEAN,
           RunTransition(r, phases, force), UNCHANGED <<spine, edits>>
    PROVE  IInv'
<1>1. PICK prior \in RunNo \cup {NoRun} :
         /\ prior # NoRun => prior \in Completed
         /\ Goes(r, [Resting EXCEPT !.pc = "open", !.phases = phases,
                                    !.prior = prior, !.run = prior])
  BY DEF RunTransition, Completed
<1> DEFINE then == [Resting EXCEPT !.pc = "open", !.phases = phases, !.prior = prior, !.run = prior]
<1>2. rows' = rows /\ run' = run
  BY DEF RunTransition
<1>3. /\ wizard \in [Req -> Wizard] /\ rows \in [{Source, Target} -> Rows]
      /\ run \in [RunNo -> RunStatus] /\ OneCompleted
      /\ \A p \in Req : RowSound(p)
  BY DEF IInv, TypeOK
<1>4. /\ then \in Wizard /\ then.pc = "open" /\ then.prior = prior /\ then.run = prior
      /\ then.seen = NoRows /\ then.todo = NoRows /\ then.twins = {}
  BY <1>3, RestingSound, TransitionAssumption DEF Resting, Wizard, WizardPCs
<1> HIDE DEF then
<1>5. wizard'[r] = then /\ \A p \in Req \ {r} : wizard'[p] = wizard[p]
  BY <1>1, <1>3 DEF Goes, then
<1>6. RowSound(r)'
  BY <1>1, <1>2, <1>4, <1>5 DEF RowSound, Completed
<1>7. ASSUME NEW p \in Req \ {r} PROVE RowSound(p)'
  <2>1. wizard[p].prior = NoRun /\ wizard[p].run # NoRun => run[wizard[p].run] # "completed"
    BY <1>3 DEF RowSound
  <2> QED
    BY <1>1, <1>2, <1>3, <1>4, <1>5, <2>1 DEF RowSound, Completed
<1>8. OneCompleted'
  BY <1>2, <1>3 DEF OneCompleted, Completed
<1> QED
  BY <1>1, <1>2, <1>3, <1>4, <1>6, <1>7, <1>8, NothingYet, RowGoes DEF then

LEMMA OpenRunKept ==
    ASSUME IInv, NEW r \in Req, OpenRun(r), UNCHANGED <<spine, edits>>
    PROVE  IInv'
<1> DEFINE w == wizard[r]
<1>1. w.pc = "open" /\ rows' = rows
  BY DEF OpenRun, On
<1>2. PICK n \in RunNo :
         /\ IF w.prior # NoRun THEN n = w.prior ELSE run[n] = "none"
         /\ run' = [run EXCEPT ![n] = "running"]
         /\ Goes(r, [w EXCEPT !.run = n, !.pc = After("open", w.phases)])
  BY DEF OpenRun
<1> DEFINE then == [w EXCEPT !.run = n, !.pc = After("open", w.phases)]
<1>3. /\ wizard \in [Req -> Wizard] /\ rows \in [{Source, Target} -> Rows]
      /\ run \in [RunNo -> RunStatus] /\ OneCompleted
      /\ \A p \in Req : RowSound(p) /\ KeepsUp(wizard[p], rows)
  BY DEF IInv, TypeOK
<1>4. /\ then \in Wizard /\ then.pc \notin {"idle", "open", "failing", "parents"}
      /\ then.prior = w.prior /\ then.run = n
      /\ then.seen = w.seen /\ then.todo = w.todo /\ then.twins = w.twins
  BY <1>3, AfterIsPhase DEF Wizard, WizardPCs
<1> HIDE DEF then
<1>5. wizard'[r] = then /\ \A p \in Req \ {r} : wizard'[p] = wizard[p]
  BY <1>2, <1>3 DEF Goes, then
<1>6. \A m \in RunNo : run'[m] = IF m = n THEN "running" ELSE run[m]
  BY <1>2, <1>3
<1>7. run' \in [RunNo -> RunStatus]
  BY <1>2, <1>3 DEF RunStatus
<1>8. OneCompleted'
  BY <1>3, <1>6 DEF OneCompleted, Completed
<1>9. \A p \in Req : wizard[p] \in Wizard /\ wizard[p].prior \in RunNo \cup {NoRun}
                     /\ wizard[p].run \in RunNo \cup {NoRun}
  BY <1>3 DEF Wizard
<1>10. ASSUME w.prior = NoRun, NEW p \in Req \ {r} PROVE wizard[p].run # n
  <2>1. run[n] = "none" /\ n # NoRun /\ RowSound(p)
    BY <1>2, <1>3, <1>10, NoRunIsNone
  <2> QED
    BY <1>9, <2>1 DEF RowSound
<1>11. RowSound(r)'
  BY <1>2, <1>4, <1>5, <1>6, <1>10, NoRunIsNone DEF RowSound
<1>12. ASSUME NEW p \in Req \ {r} PROVE RowSound(p)'
  <2>1. w.prior # NoRun => w.run = w.prior /\ n = w.prior
    BY <1>2, <1>3 DEF RowSound
  <2>2. /\ RowSound(p) /\ wizard'[p] = wizard[p]
        /\ \A q \in Req \ {p} : wizard'[q].run = IF q = r THEN n ELSE wizard[q].run
    BY <1>3, <1>4, <1>5
  <2>3. wizard[p].prior # NoRun =>
            wizard[p].run = wizard[p].prior /\ run'[wizard[p].prior] \in {"completed", "running"}
    BY <1>6, <1>9, <2>2 DEF RowSound
  <2>4. wizard[p].prior = NoRun /\ wizard[p].run # NoRun =>
            /\ run'[wizard[p].run] = "running"
            /\ \A q \in Req \ {p} : wizard'[q].run # wizard[p].run
    BY <1>6, <1>9, <1>10, <2>1, <2>2 DEF RowSound
  <2> QED
    BY <2>2, <2>3, <2>4 DEF RowSound
<1>13. KeepsUp(then, rows)
  <2>1. KeepsUp(w, rows)
    BY <1>3
  <2> QED
    BY <1>1, <1>4, <2>1 DEF KeepsUp, UnitsKeptUp, RosterKeptUp, ItemsKeptUp, GrantsKeptUp, Twinned
<1> QED
  BY <1>1, <1>2, <1>4, <1>7, <1>8, <1>11, <1>12, <1>13, RowGoes DEF then

LEMMA CloseRunKept ==
    ASSUME IInv, NEW r \in Req, CloseRun(r), UNCHANGED <<spine, edits>>
    PROVE  IInv'
<1> DEFINE n == wizard[r].run
<1>1. wizard[r].pc = "close" /\ rows' = rows
  BY DEF CloseRun, On
<1>2. CASE ~MayComplete(n)
  BY <1>1, <1>2, FaultKept DEF CloseRun
<1>3. CASE MayComplete(n)
  <2>1. run' = [run EXCEPT ![n] = "completed"] /\ Goes(r, Resting)
    BY <1>3 DEF CloseRun
  <2>2. /\ n \in RunNo /\ run \in [RunNo -> RunStatus]
        /\ wizard[r].prior # NoRun => n = wizard[r].prior
    BY <1>1, AtWork DEF IInv, TypeOK, Wizard, RowSound
  <2>3. \A m \in RunNo : run'[m] = IF m = n THEN "completed" ELSE run[m]
    BY <2>1, <2>2
  <2>4. run' \in [RunNo -> RunStatus]
    BY <2>1, <2>2 DEF RunStatus
  <2>5. OneCompleted'
    BY <1>3, <2>3 DEF OneCompleted, Completed, MayComplete
  <2> QED
    BY <1>1, <2>1, <2>2, <2>3, <2>4, <2>5, RestKept
<1> QED
  BY <1>2, <1>3

LEMMA FailRunKept ==
    ASSUME IInv, NEW r \in Req, FailRun(r), UNCHANGED <<spine, edits>>
    PROVE  IInv'
<1> DEFINE n == wizard[r].run
<1>1. rows' = rows /\ Goes(r, Resting)
  BY DEF FailRun
<1>2. /\ n \in RunNo \cup {NoRun} /\ run \in [RunNo -> RunStatus] /\ OneCompleted
      /\ wizard[r].prior # NoRun => n = wizard[r].prior
  BY DEF IInv, TypeOK, Wizard, RowSound
<1>3. CASE run' = run
  BY <1>1, <1>2, <1>3, RestKept DEF OneCompleted, Completed
<1>4. CASE n # NoRun /\ wizard[r].prior = NoRun /\ run' = [run EXCEPT ![n] = "failed"]
  <2>1. \A m \in RunNo : run'[m] = IF m = n THEN "failed" ELSE run[m]
    BY <1>2, <1>4
  <2>2. run' \in [RunNo -> RunStatus]
    BY <1>2, <1>4 DEF RunStatus
  <2>3. OneCompleted'
    BY <1>2, <2>1 DEF OneCompleted, Completed
  <2> QED
    BY <1>1, <1>4, <2>1, <2>2, <2>3, RestKept
<1>5. CASE /\ n # NoRun /\ wizard[r].prior # NoRun /\ MayComplete(n)
           /\ run' = [run EXCEPT ![n] = "completed"]
  <2>1. \A m \in RunNo : run'[m] = IF m = n THEN "completed" ELSE run[m]
    BY <1>2, <1>5
  <2>2. run' \in [RunNo -> RunStatus]
    BY <1>2, <1>5 DEF RunStatus
  <2>3. OneCompleted'
    BY <1>5, <2>1 DEF OneCompleted, Completed, MayComplete
  <2> QED
    BY <1>1, <1>2, <1>5, <2>1, <2>2, <2>3, RestKept
<1> QED
  BY <1>3, <1>4, <1>5 DEF FailRun

LEMMA CrashKept ==
    ASSUME IInv, NEW r \in Req, Crash(r), UNCHANGED <<spine, edits>>
    PROVE  IInv'
<1>1. Goes(r, Resting) /\ rows' = rows /\ run' = run
  BY DEF Crash
<1>2. run \in [RunNo -> RunStatus] /\ OneCompleted
  BY DEF IInv, TypeOK
<1> QED
  BY <1>1, <1>2, RestKept DEF OneCompleted, Completed

-----------------------------------------------------------------------------
(* Editors, and the step of any of them *)

LEMMA EditKept ==
    ASSUME IInv, Edit, UNCHANGED spine PROVE IInv'
<1>1. /\ wizard \in [Req -> Wizard] /\ rows \in [{Source, Target} -> Rows]
      /\ run \in [RunNo -> RunStatus] /\ OneCompleted /\ edits \in Nat /\ MaxEdits \in Nat
      /\ \A p \in Req : RowSound(p) /\ KeepsUp(wizard[p], rows)
  BY TransitionAssumption DEF IInv, TypeOK
<1>2. PICK y \in {Source, Target} :
         \/ \E l \in Lineage, p \in Lineage \cup {NoUnit} : CreateOrgUnit(y, l, p)
         \/ \E a \in Appointment : CreateAppointment(y, a)
         \/ \E i \in Item : CreateDraft(y, i)
         \/ \E g \in Grant : GrantRole(y, g)
  BY DEF Edit
<1>3. run' = run /\ wizard' = wizard /\ edits' = edits + 1 /\ edits < MaxEdits
  BY DEF Edit
<1>4. Grows
  <2> DEFINE Adds(held) ==
        /\ held \in Rows /\ rows' = [rows EXCEPT ![y] = held]
        /\ \A l \in Units(rows[y]) : held.units[l] = rows[y].units[l]
        /\ rows[y].roster \subseteq held.roster /\ rows[y].items \subseteq held.items
        /\ rows[y].grants \subseteq held.grants
  <2>1. ASSUME NEW l \in Lineage, NEW p \in Lineage \cup {NoUnit}, CreateOrgUnit(y, l, p)
        PROVE  \E held : Adds(held)
    <3> DEFINE held == [rows[y] EXCEPT !.units[l] = p]
    <3>1. rows[y].units[l] = Absent /\ rows' = [rows EXCEPT ![y] = held]
      BY <2>1 DEF CreateOrgUnit, Saves
    <3>2. /\ held \in Rows /\ held.units = [rows[y].units EXCEPT ![l] = p]
          /\ held.roster = rows[y].roster /\ held.items = rows[y].items
          /\ held.grants = rows[y].grants
      BY <1>1 DEF Rows
    <3>3. \A k \in Units(rows[y]) : held.units[k] = rows[y].units[k]
      BY <1>1, <3>1, <3>2 DEF Units, Rows
    <3> QED
      BY <3>1, <3>2, <3>3
  <2>2. ASSUME NEW a \in Appointment, CreateAppointment(y, a) PROVE \E held : Adds(held)
    <3> DEFINE held == [rows[y] EXCEPT !.roster = @ \cup {a}]
    <3>1. rows' = [rows EXCEPT ![y] = held]
      BY <2>2 DEF CreateAppointment, Saves
    <3>2. Adds(held)
      BY <1>1, <3>1 DEF Rows, Units
    <3> QED
      BY <3>2
  <2>3. ASSUME NEW i \in Item, CreateDraft(y, i) PROVE \E held : Adds(held)
    <3> DEFINE held == [rows[y] EXCEPT !.items = @ \cup {i}]
    <3>1. rows' = [rows EXCEPT ![y] = held]
      BY <2>3 DEF CreateDraft, Saves
    <3>2. Adds(held)
      BY <1>1, <3>1 DEF Rows, Units
    <3> QED
      BY <3>2
  <2>4. ASSUME NEW g \in Grant, GrantRole(y, g) PROVE \E held : Adds(held)
    <3> DEFINE held == [rows[y] EXCEPT !.grants = @ \cup {g}]
    <3>1. rows' = [rows EXCEPT ![y] = held]
      BY <2>4 DEF GrantRole, Saves
    <3>2. Adds(held)
      BY <1>1, <3>1 DEF Rows, Units
    <3> QED
      BY <3>2
  <2>5. PICK held : Adds(held)
    BY <1>2, <2>1, <2>2, <2>3, <2>4
  <2>6. /\ rows' \in [{Source, Target} -> Rows] /\ rows'[y] = held
        /\ \A z \in {Source, Target} \ {y} : rows'[z] = rows[z]
    BY <1>1, <2>5
  <2>7. CASE y = Source
    BY <2>5, <2>6, <2>7, TransitionAssumption DEF Grows, Units
  <2>8. CASE y = Target
    BY <2>5, <2>6, <2>8, TransitionAssumption DEF Grows, Units
  <2> QED
    BY <2>7, <2>8
<1>5. YearsInv'
  BY DEF IInv, TypeOK, spine, YearsInv, SpineTypeOK, CurrentIsLive, OneCurrent, SpineSound
<1>6. WizardTypeOK' /\ OneCompleted'
  BY <1>1, <1>3, <1>4 DEF WizardTypeOK, Grows, OneCompleted, Completed
<1>7. \A p \in Req : RowSound(p)' /\ KeepsUp(wizard[p], rows)'
  BY <1>1, <1>3, <1>4, KeptUpStays DEF RowSound
<1> QED
  BY <1>5, <1>6, <1>7 DEF IInv, TypeOK, YearsInv, WizardTypeOK

LEMMA WizardKept ==
    ASSUME IInv, NEW r \in Req, WizardStep(r), UNCHANGED <<spine, edits>> PROVE IInv'
<1>1. ASSUME WizardSteps(r) PROVE IInv'
  <2>1. CASE \E l \in Lineage : CreateTwin(r, l) \/ WireParent(r, l)
    BY <2>1, CreateTwinKept, WireParentKept
  <2>2. CASE TwinsDone(r) \/ ParentsDone(r) \/ RosterDone(r) \/ ItemsDone(r) \/ GrantsDone(r)
    BY <2>2, PhasesGiveWay
  <2>3. CASE ReadUnits(r) \/ ReadRoster(r) \/ ReadItems(r) \/ ReadGrants(r)
    BY <2>3, ReadUnitsKept, ReadRosterKept, ReadItemsKept, ReadGrantsKept
  <2>4. CASE \/ \E a \in Appointment : CopyAppointment(r, a)
             \/ \E i \in Item : CopyItem(r, i)
             \/ \E g \in Grant : CopyGrant(r, g)
    BY <2>4, CopyAppointmentKept, CopyItemKept, CopyGrantKept
  <2>5. CASE OpenRun(r) \/ CloseRun(r) \/ FailRun(r)
    BY <2>5, OpenRunKept, CloseRunKept, FailRunKept
  <2> QED
    BY <1>1, <2>1, <2>2, <2>3, <2>4, <2>5 DEF WizardSteps
<1>2. ASSUME NEW phases \in Phases, NEW force \in BOOLEAN, RunTransition(r, phases, force)
      PROVE  IInv'
  BY <1>2, RunTransitionKept
<1>3. ASSUME Fault(r) PROVE IInv'
  BY <1>3, FaultKept DEF Fault
<1>4. ASSUME Crash(r) PROVE IInv'
  BY <1>4, CrashKept
<1> QED
  BY <1>1, <1>2, <1>3, <1>4 DEF WizardStep

\* Every step keeps the invariant.
LEMMA Inductive == IInv /\ [Next]_vars => IInv'
<1> SUFFICES ASSUME IInv, [Next]_vars PROVE IInv'
  OBVIOUS
<1>1. ASSUME NEW r \in Req, SpineStep(r), UNCHANGED copied PROVE IInv'
  BY <1>1, YearsStep DEF SpineStep
<1>2. ASSUME NEW r \in Req, WizardStep(r), UNCHANGED <<spine, edits>> PROVE IInv'
  BY <1>2, WizardKept
<1>3. CASE Edit /\ UNCHANGED spine
  BY <1>3, EditKept
<1>4. CASE UNCHANGED vars
  <2>1. YearsInv'
    BY <1>4 DEF vars, IInv, TypeOK, spine, YearsInv, SpineTypeOK, CurrentIsLive, OneCurrent, SpineSound
  <2>2. WizardTypeOK' /\ OneCompleted'
    BY <1>4 DEF vars, copied, IInv, TypeOK, WizardTypeOK, OneCompleted, Completed
  <2>3. \A r \in Req : RowSound(r)' /\ KeepsUp(wizard[r], rows)'
    BY <1>4 DEF vars, copied, IInv, RowSound
  <2> QED
    BY <2>1, <2>2, <2>3 DEF IInv, TypeOK, YearsInv, WizardTypeOK
<1> QED
  BY <1>1, <1>2, <1>3, <1>4 DEF Next

-----------------------------------------------------------------------------
(* Theorems *)

\* The years, the runs and what every wizard still has to do fit together, in
\* every reachable state (lib/year/context.mjs, lock.mjs, transition.mjs).
THEOREM Invariance == Spec => []IInv
<1>1. Init => IInv
  BY Initially
<1>2. IInv /\ [Next]_vars => IInv'
  BY Inductive
<1> QED
  BY <1>1, <1>2, PTL DEF Spec

\* One year at most is current, and it is live, whatever requests cross
\* (setCurrentYear).
THEOREM OneLiveYear == Spec => []CurrentIsLive
<1>1. IInv => CurrentIsLive
  BY DEF IInv
<1> QED
  BY <1>1, Invariance, PTL

\* A transition that reaches its end has brought over all that its phases read,
\* whatever crashed before it and runs beside it (runTransition).
THEOREM ResumableToCompletion == Spec => []TargetIsComplete
<1>1. ASSUME IInv, NEW r \in Req, On(r, "close") PROVE Covers(rows[Target], wizard[r].seen)
  <2>1. wizard[r].pc = "close" /\ KeepsUp(wizard[r], rows)
    BY <1>1 DEF IInv, On
  <2> QED
    BY <2>1 DEF KeepsUp, UnitsKeptUp, RosterKeptUp, ItemsKeptUp, GrantsKeptUp, Twinned, Covers
<1>2. IInv => TargetIsComplete
  BY <1>1 DEF TargetIsComplete
<1> QED
  BY <1>2, Invariance, PTL

\* A step of the specification as the years see it.
LEMMA SpineView ==
    ASSUME [Next]_vars
    PROVE  UNCHANGED spine \/ \E r \in Req : SpineBegins(r) \/ SpineSteps(r) \/ Fail(r)
  BY DEF Next, vars, SpineStep

\* The year a promotion or a change of status writes.
LEMMA WhatIsWritten ==
    ASSUME IInv, NEW r \in Req
    PROVE  /\ Promote(r) =>
                \/ year' = year
                \/ /\ req[r].year \in Year /\ OneCurrent(year)'
                   /\ year'[req[r].year] = [status |-> "active", current |-> TRUE]
                   /\ \A y \in Year \ {req[r].year} : year'[y].status = year[y].status
           /\ WriteStatus(r) =>
                /\ req[r].year \in Year
                /\ year'[req[r].year].status = req[r].next
                /\ \A y \in Year : /\ year'[y].current = year[y].current
                                   /\ y # req[r].year => year'[y] = year[y]
<1>1. year \in [Year -> YearRow] /\ req[r] \in Request /\ Knows(req[r], year, r \in overtaken)
  BY DEF IInv, TypeOK, SpineTypeOK, SpineSound
<1>2. ASSUME Promote(r), year' # year
      PROVE  /\ req[r].year \in Year /\ OneCurrent(year)'
             /\ year'[req[r].year] = [status |-> "active", current |-> TRUE]
             /\ \A y \in Year \ {req[r].year} : year'[y].status = year[y].status
  <2>1. req[r].year \in Year /\ req[r].next = "active" /\ req[r].before \in Year \cup {NoYear}
    BY <1>1, <1>2 DEF Promote, At, Knows, Request
  <2>2. year' = Promoted(Demoted(req[r].before), r) /\ OneCurrent(year)'
    BY <1>2 DEF Promote, Commits, OneCurrent
  <2>3. Demoted(req[r].before) \in [Year -> YearRow]
        /\ \A y \in Year : Demoted(req[r].before)[y].status = year[y].status
    BY <1>1, <2>1 DEF Demoted, YearRow
  <2> QED
    BY <2>1, <2>2, <2>3 DEF Promoted
<1>3. ASSUME WriteStatus(r)
      PROVE  /\ req[r].year \in Year
             /\ year'[req[r].year].status = req[r].next
             /\ \A y \in Year : /\ year'[y].current = year[y].current
                                /\ y # req[r].year => year'[y] = year[y]
  BY <1>1, <1>3 DEF WriteStatus, Commits, At, Knows, YearRow
<1> QED
  BY <1>2, <1>3

\* CreateYear and the steps that only read.
LEMMA NothingElse ==
    ASSUME IInv, NEW r \in Req, SpineBegins(r) \/ SpineSteps(r) \/ Fail(r)
    PROVE  \/ Promote(r) \/ WriteStatus(r)
           \/ \A y \in Year : /\ year'[y].current = year[y].current
                              /\ year[y].status # "none" => year'[y] = year[y]
<1>1. year \in [Year -> YearRow]
  BY DEF IInv, TypeOK, SpineTypeOK
<1>2. ASSUME NEW y \in Year, NEW status \in Status, CreateYear(r, y, status)
      PROVE  \A z \in Year : /\ year'[z].current = year[z].current
                             /\ year[z].status # "none" => year'[z] = year[z]
  BY <1>1, <1>2 DEF CreateYear, YearRow
<1>3. CASE year' = year
  BY <1>3
<1> QED
  BY <1>2, <1>3 DEF SpineBegins, SpineSteps, Fail, SetCurrentYear, SetYearStatus, FindCurrent

\* There is a current year from the first one on (setCurrentYear).
THEOREM CurrentYearStays == Spec => NeverWithoutCurrent
<1>1. ASSUME IInv, [Next]_vars, HasCurrent PROVE HasCurrent'
  <2>1. CASE UNCHANGED spine
    BY <1>1, <2>1 DEF spine, HasCurrent
  <2>2. ASSUME NEW r \in Req, SpineBegins(r) \/ SpineSteps(r) \/ Fail(r) PROVE HasCurrent'
    BY <1>1, <2>2, NothingElse, WhatIsWritten DEF HasCurrent
  <2> QED
    BY <1>1, <2>1, <2>2, SpineView
<1>2. IInv /\ [Next]_vars => [HasCurrent => HasCurrent']_spine
  BY <1>1
<1> QED
  BY <1>2, Invariance, PTL DEF Spec, NeverWithoutCurrent

\* The current year is locked only by a request that another one overtook
\* (setYearStatus).
THEOREM LockOfCurrentIsARace == Spec => CurrentLockedByRaceOnly
<1>1. ASSUME IInv, [Next]_vars, CurrentLocked', ~CurrentLocked
      PROVE  \E r \in overtaken : WriteStatus(r)
  <2>1. ~UNCHANGED spine
    BY <1>1 DEF spine, CurrentLocked, Locked
  <2>2. PICK r \in Req : SpineBegins(r) \/ SpineSteps(r) \/ Fail(r)
    BY <1>1, <2>1, SpineView
  <2>3. year \in [Year -> YearRow] /\ Knows(req[r], year, r \in overtaken) /\ CurrentIsLive
    BY <1>1 DEF IInv, TypeOK, SpineTypeOK, SpineSound
  <2>4. CASE Promote(r)
    BY <1>1, <2>4, WhatIsWritten DEF CurrentLocked, Locked, OneCurrent
  <2>5. CASE WriteStatus(r)
    <3>1. r \in overtaken
      BY <1>1, <2>3, <2>5, WhatIsWritten, ZenonT(60) DEF CurrentLocked, Locked, Knows, WriteStatus, At
    <3> QED
      BY <2>5, <3>1
  <2>6. CASE \A y \in Year : /\ year'[y].current = year[y].current
                             /\ year[y].status # "none" => year'[y] = year[y]
    BY <1>1, <2>3, <2>6 DEF CurrentLocked, Locked, CurrentIsLive
  <2> QED
    BY <1>1, <2>2, <2>4, <2>5, <2>6, NothingElse
<1>2. IInv /\ [Next]_vars => [CurrentLocked' /\ ~CurrentLocked => \E r \in overtaken : WriteStatus(r)]_spine
  BY <1>1
<1> QED
  BY <1>2, Invariance, PTL DEF Spec, CurrentLockedByRaceOnly

\* A lock is undone by an unlock of that year, or by a promotion that another
\* request overtook (setCurrentYear).
THEOREM UndoneLockIsARace == Spec => LockUndoneByRaceOnly
<1> DEFINE Reopened == \A y \in Year : Locked(y) /\ ~Locked(y)' =>
               \E r \in Req : /\ req[r].year = y
                              /\ WriteStatus(r) \/ (Promote(r) /\ r \in overtaken)
<1>1. ASSUME IInv, [Next]_vars, NEW y \in Year, Locked(y), ~Locked(y)'
      PROVE  \E r \in Req : /\ req[r].year = y
                            /\ WriteStatus(r) \/ (Promote(r) /\ r \in overtaken)
  <2>1. ~UNCHANGED spine
    BY <1>1 DEF spine, Locked
  <2>2. PICK r \in Req : SpineBegins(r) \/ SpineSteps(r) \/ Fail(r)
    BY <1>1, <2>1, SpineView
  <2>3. Knows(req[r], year, r \in overtaken)
    BY <1>1 DEF IInv, SpineSound
  <2>4. CASE Promote(r)
    BY <1>1, <2>3, <2>4, WhatIsWritten DEF Locked, Knows, Promote, At
  <2>5. CASE WriteStatus(r)
    BY <1>1, <2>5, WhatIsWritten DEF Locked
  <2>6. CASE \A z \in Year : /\ year'[z].current = year[z].current
                             /\ year[z].status # "none" => year'[z] = year[z]
    BY <1>1, <2>6 DEF Locked
  <2> QED
    BY <1>1, <2>2, <2>4, <2>5, <2>6, NothingElse
<1>2. IInv /\ [Next]_vars => [Reopened]_spine
  BY <1>1
<1> QED
  BY <1>2, Invariance, PTL DEF Spec, LockUndoneByRaceOnly

\* A completed run, or one that a forced run took over when it was, is never marked
\* failed; it may be left running (the catch block of runTransition).
THEOREM CompletedIsNotFailed == Spec => CompletedNotFailed
<1> DEFINE Kept == \A n \in RunNo :
               n \in Completed \/ (\E r \in Req : wizard[r].prior = n) => run'[n] # "failed"
<1>1. ASSUME IInv, [Next]_vars, NEW n \in RunNo, n \in Completed \/ \E r \in Req : wizard[r].prior = n
      PROVE  run'[n] # "failed"
  <2>1. /\ run \in [RunNo -> RunStatus] /\ \A r \in Req : RowSound(r)
        /\ run[n] \in {"completed", "running"}
    BY <1>1, NoRunIsNone DEF IInv, TypeOK, RowSound, Completed
  <2>2. CASE run' = run
    BY <2>1, <2>2
  <2>3. ASSUME NEW r \in Req, OpenRun(r) \/ CloseRun(r) PROVE run'[n] # "failed"
    BY <2>1, <2>3 DEF OpenRun, CloseRun
  <2>4. ASSUME NEW r \in Req, FailRun(r), run'[n] = "failed" PROVE FALSE
    <3>1. wizard[r].prior = NoRun /\ wizard[r].run = n
      BY <2>1, <2>4 DEF FailRun
    <3>2. run[n] = "running" /\ \A p \in Req \ {r} : wizard[p].run # n
      BY <2>1, <3>1, NoRunIsNone DEF RowSound
    <3>3. PICK p \in Req : wizard[p].prior = n
      BY <1>1, <3>2 DEF Completed
    <3> QED
      BY <2>1, <3>1, <3>2, <3>3, NoRunIsNone DEF RowSound
  <2> QED
    BY <1>1, <2>2, <2>3, <2>4, ZenonT(60) DEF Next, vars, copied, WizardStep, WizardSteps, Edit,
       RunTransition, ReadUnits, TwinsDone, ParentsDone, CreateTwin, WireParent, ReadRoster,
       RosterDone, CopyAppointment, ReadItems, ItemsDone, CopyItem, ReadGrants, GrantsDone,
       CopyGrant, Done, Writes, Fault, Crash
<1>2. IInv /\ [Next]_vars => [Kept]_vars
  BY <1>1
<1> QED
  BY <1>2, Invariance, PTL DEF Spec, CompletedNotFailed
=============================================================================
