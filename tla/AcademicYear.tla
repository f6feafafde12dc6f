---------------------------- MODULE AcademicYear ----------------------------
(***************************************************************************)
(* The academic years and the one that is current (lib/year/context.mjs,   *)
(* lib/year/lock.mjs over academic_year).                                  *)
(*                                                                         *)
(* A change of the current year and a change of a year's status read the   *)
(* year before they open their transaction, and write what that read made  *)
(* them decide.  Inside its transaction, a change of the current year      *)
(* looks the current year up without locking it.  Every read is a step and *)
(* every transaction commits in a step.                                    *)
(***************************************************************************)
EXTENDS FiniteSets

CONSTANTS
    Year,       \* the years that are ever created
    NoYear,     \* stands for no year
    InitYear,   \* the year that exists when the model starts; none is current
    Req         \* the requests the server processes at the same time

ASSUME YearAssumption == InitYear \in Year /\ NoYear \notin Year

Status == {"none", "planning", "active", "locked"}

VARIABLES
    year,       \* year[y]: the row of year y
    req,        \* req[r]: where request r is and what it has decided to write
    overtaken   \* history: requests another one has committed during

spine == <<year, req, overtaken>>

YearRow == [status : Status, current : BOOLEAN]

Request == [pc : {"idle", "findCurrent", "promote", "setStatus"},
            year : Year \cup {NoYear},     \* the year to change
            next : Status,                 \* the status to write
            before : Year \cup {NoYear}]   \* the current year it found

Idle == [pc |-> "idle", year |-> NoYear, next |-> "none", before |-> NoYear]

At(r, pc) == req[r].pc = pc

SpineInit ==
    /\ year = [y \in Year |-> IF y = InitYear
                              THEN [status |-> "active", current |-> FALSE]
                              ELSE [status |-> "none", current |-> FALSE]]
    /\ req = [r \in Req |-> Idle]
    /\ overtaken = {}

-----------------------------------------------------------------------------

\* academic_year_one_current_uq.
OneCurrent(years) ==
    \A y, z \in Year : years[y].current /\ years[z].current => y = z

\* resolveCurrentYear, inside the transaction of setCurrentYear.
CurrentYear ==
    IF \E y \in Year : year[y].current
    THEN CHOOSE y \in Year : year[y].current
    ELSE NoYear

\* Request r goes on as `then'; whoever is in S has been overtaken.
Proceeds(r, then, S) ==
    /\ req' = [req EXCEPT ![r] = then]
    /\ overtaken' = {p \in overtaken \cup S : p # r \/ then.pc # "idle"}

\* The transaction of r commits these rows.
Commits(r, years) ==
    /\ year' = years
    /\ Proceeds(r, Idle, {p \in Req \ {r} : ~At(p, "idle")})

\* createYear: never current, and with any status the caller asks for.
CreateYear(r, y, status) ==
    /\ At(r, "idle")
    /\ year[y].status = "none"
    /\ year' = [year EXCEPT ![y].status = status]
    /\ UNCHANGED <<req, overtaken>>

\* Mutant: a locked year may be made current.
SetAnyCurrentYear(r, y) ==
    /\ At(r, "idle")
    /\ year[y].status # "none"
    /\ Proceeds(r, [Idle EXCEPT !.pc = "findCurrent", !.year = y, !.next = "active"], {})
    /\ UNCHANGED year

\* setCurrentYear reads the target: it exists and is not locked.
SetCurrentYear(r, y) ==
    /\ At(r, "idle")
    /\ year[y].status \in {"planning", "active"}
    /\ Proceeds(r, [Idle EXCEPT !.pc = "findCurrent", !.year = y, !.next = "active"], {})
    /\ UNCHANGED year

\* Mutant: the demotion commits by itself.
FindAndDemote(r) ==
    /\ At(r, "findCurrent")
    /\ year' = IF CurrentYear = NoYear THEN year ELSE [year EXCEPT ![CurrentYear].current = FALSE]
    /\ Proceeds(r, [req[r] EXCEPT !.pc = "promote", !.before = CurrentYear], {})

\* Its transaction finds the current year, which may be the target already.
FindCurrent(r) ==
    /\ At(r, "findCurrent")
    /\ Proceeds(r, IF CurrentYear = req[r].year THEN Idle
                   ELSE [req[r] EXCEPT !.pc = "promote", !.before = CurrentYear], {})
    /\ UNCHANGED year

Demoted(before) ==
    IF before = NoYear THEN year ELSE [year EXCEPT ![before].current = FALSE]

\* The target as the current year, over the given rows.
Promoted(years, r) ==
    [years EXCEPT ![req[r].year] = [status |-> req[r].next, current |-> TRUE]]

\* It demotes that year and promotes the target; a second current year is
\* refused by the index and undoes both.
Promote(r) ==
    /\ At(r, "promote")
    /\ LET years == Promoted(Demoted(req[r].before), r) IN
       IF OneCurrent(years) THEN Commits(r, years)
       ELSE Proceeds(r, Idle, {}) /\ UNCHANGED year

\* Mutant: the current year may be locked like any other.
SetAnyStatus(r, y, next) ==
    /\ At(r, "idle")
    /\ year[y].status \notin {"none", next}
    /\ Proceeds(r, [Idle EXCEPT !.pc = "setStatus", !.year = y, !.next = next], {})
    /\ UNCHANGED year

\* setYearStatus (lockYear, unlockYear) reads the year: lockBlockReason keeps
\* the current year from being locked, and an unchanged status ends it.
SetYearStatus(r, y, next) ==
    /\ At(r, "idle")
    /\ year[y].status \notin {"none", next}
    /\ ~ (next = "locked" /\ year[y].current)
    /\ Proceeds(r, [Idle EXCEPT !.pc = "setStatus", !.year = y, !.next = next], {})
    /\ UNCHANGED year

WriteStatus(r) ==
    /\ At(r, "setStatus")
    /\ Commits(r, [year EXCEPT ![req[r].year].status = req[r].next])

\* A transaction that cannot begin, or that the server loses.
Fail(r) ==
    /\ ~At(r, "idle")
    /\ Proceeds(r, Idle, {})
    /\ UNCHANGED year

SpineBegins(r) ==
    \E y \in Year :
        \/ \E status \in Status \ {"none"} : CreateYear(r, y, status)
        \/ SetCurrentYear(r, y)
        \/ \E next \in {"active", "locked"} : SetYearStatus(r, y, next)

SpineSteps(r) == FindCurrent(r) \/ Promote(r) \/ WriteStatus(r)

-----------------------------------------------------------------------------
(* What a deployment relies on *)

SpineTypeOK ==
    /\ year \in [Year -> YearRow]
    /\ req \in [Req -> Request]
    /\ overtaken \subseteq Req

Locked(y) == year[y].status = "locked"

\* One year at most is current, and it is not one that is still planned.
CurrentIsLive ==
    /\ OneCurrent(year)
    /\ \A y \in Year : year[y].current => year[y].status \in {"active", "locked"}

HasCurrent == \E y \in Year : year[y].current

\* The portal never loses its current year: two changes of it that cross
\* leave the one that committed first (setCurrentYear).
NeverWithoutCurrent == [][HasCurrent => HasCurrent']_spine

CurrentLocked == \E y \in Year : year[y].current /\ Locked(y)

\* "The CURRENT (live, editable) year must never be locked": the check of
\* setYearStatus and that of setCurrentYear keep to this unless a request
\* that read the year earlier is overtaken by another one.
CurrentLockedByRaceOnly ==
    [][ CurrentLocked' /\ ~CurrentLocked
        => \E r \in overtaken : WriteStatus(r) ]_spine

\* A locked year is reopened by unlockYear, or by a promotion that read it
\* before it was locked and writes the status it read.
LockUndoneByRaceOnly ==
    [][ \A y \in Year : Locked(y) /\ ~Locked(y)' =>
            \E r \in Req : /\ req[r].year = y
                           /\ WriteStatus(r) \/ (Promote(r) /\ r \in overtaken) ]_spine

\* A request q knows the year it changes: it exists, and unless the request
\* was overtaken, what it read of it still holds.
Knows(q, years, late) ==
    q.pc # "idle" =>
        /\ q.year \in Year /\ years[q.year].status # "none"
        /\ q.next \in {"active", "locked"}
        /\ q.pc \in {"findCurrent", "promote"} =>
               q.next = "active" /\ (late \/ years[q.year].status # "locked")
        /\ q.pc = "setStatus" /\ q.next = "locked" => late \/ ~years[q.year].current

SpineSound == \A r \in Req : Knows(req[r], year, r \in overtaken)
=============================================================================
