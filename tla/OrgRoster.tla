----------------------------- MODULE OrgRoster -----------------------------
(***************************************************************************)
(* One organization unit and the holders of ONE position in it             *)
(* (lib/org/units.mjs, lib/org/appointments.mjs and the guards of the      *)
(* table "appointment"), with the script that reconciles the holders with  *)
(* the official list (scripts/sync-roster.mjs).                            *)
(*                                                                         *)
(* A request reads a row, decides, and writes in a transaction of its own. *)
(* Three guards of the database watch the holders: two partial unique      *)
(* indexes, which make a statement wait for a rival that is being written, *)
(* and a trigger deferred to the end of the transaction, which counts what *)
(* is committed by then and waits for nobody.                              *)
(***************************************************************************)
EXTENDS Integers, FiniteSets

CONSTANTS
    Req,        \* the requests the server processes at the same time
    Script,     \* the one of them that serves the script, where holders are edited
    Appt,       \* the identities of appointment rows
    Person,     \* the people who may be appointed
    NoPerson,   \* the person of a row that is not there
    NoAppt,     \* no row
    NewAs,      \* the statuses an appointment is created with
    Patches,    \* the person and the status an edit may set
    Slots,      \* positions: how many holders each allows, and who the list names
    Before      \* the tables a run may start with

Unlimited == -1     \* a NULL position.max_holders

Status == {"draft", "published", "archived"}

Row == [person : Person, status : Status, archived : BOOLEAN]
Absent == [person |-> NoPerson, status |-> "absent", archived |-> FALSE]

ASSUME RosterConstants ==
    /\ Script \in Req
    /\ NoPerson \notin Person
    /\ NoAppt \notin Appt
    /\ Slots \subseteq [limit : (Nat \ {0}) \cup {Unlimited}, wanted : SUBSET Person]
    /\ NewAs \subseteq Status
    /\ Patches \subseteq (Person \cup {NoPerson}) \X (Status \cup {"keep"})
    /\ Before \subseteq [Appt -> Row \cup {Absent}]

VARIABLES
    subject,    \* what is edited: the unit or its holders, which share no row
    slot,       \* max_holders of the position and the people the list names
    unit,       \* org_unit: its status and whether archived_at is set
    row,        \* row[i]: the committed appointment i
    req,        \* req[r]: where request r is, with its uncommitted row
    sync,       \* the script's run
    overtaken   \* history: another commit came after r's read of the unit or its count

vars == <<subject, slot, unit, row, req, sync, overtaken>>

\* What an update sets: "keep" leaves the column alone.
Change == [person : Person \cup {NoPerson}, status : Status \cup {"keep"},
           archived : {"keep", "set", "clear"}]
Sets(p, s, a) == [person |-> p, status |-> s, archived |-> a]

\* "unit": about to write the unit; "write": about to write row id;
\* "count": written, uncommitted, before the deferred count; "commit": after it.
Request == [pc : {"idle", "unit", "write", "count", "commit"},
            id : Appt \cup {NoAppt}, change : Change, after : Row \cup {Absent}]
Idle == [pc |-> "idle", id |-> NoAppt, change |-> Sets(NoPerson, "keep", "keep"),
         after |-> Absent]

\* The script: rows to archive, people still to appoint, a row it found for one.
Sync == [pc : {"off", "run", "done"}, leaving : SUBSET Appt,
         todo : SUBSET Person, found : Appt \cup {NoAppt}, disturbed : BOOLEAN]
Off == [pc |-> "off", leaving |-> {}, todo |-> {}, found |-> NoAppt, disturbed |-> FALSE]

-----------------------------------------------------------------------------
(* The rules of the table *)

Standing(x) == x.status # "absent" /\ ~x.archived
Active(x) == Standing(x) /\ x.status # "archived"

\* Rows the partial unique indexes do not allow together: one person twice
\* (appointment_no_dup_active_uq), or two holders of a singleton position
\* (appointment_singleton_position_uq).
Clash(x, y) ==
    /\ Standing(x) /\ Standing(y)
    /\ x.person = y.person \/ (slot.limit = 1 /\ Active(x) /\ Active(y))

Applied(x, c) ==
    [person |-> IF c.person = NoPerson THEN x.person ELSE c.person,
     status |-> IF c.status = "keep" THEN x.status ELSE c.status,
     archived |-> CASE c.archived = "set" -> TRUE
                    [] c.archived = "clear" -> FALSE
                    [] OTHER -> x.archived]

\* A table the indexes accept.
Lawful == \A i, j \in Appt : i # j => ~Clash(row[i], row[j])

\* The holders the slot would have with x as row i.
HoldersWith(i, x) == {j \in Appt : Active(IF j = i THEN x ELSE row[j])}
Holders == {j \in Appt : Active(row[j])}
Allowed(holders) == slot.limit = Unlimited \/ Cardinality(holders) <= slot.limit

-----------------------------------------------------------------------------
(* Requests *)

On(r, pc) == req[r].pc = pc
Writing(d) == req[d].pc \in {"count", "commit"}
LockedByOther(r, i) == \E d \in Req \ {r} : Writing(d) /\ req[d].id = i

\* Another transaction is writing a row that clashes with x, as it was or as it will be.
RivalInFlight(r, x) ==
    \E d \in Req \ {r} :
        /\ Writing(d) /\ req[d].id # req[r].id
        /\ Clash(x, req[d].after) \/ Clash(x, row[req[d].id])
RivalCommitted(r, x) == \E j \in Appt \ {req[r].id} : Clash(x, row[j])

Goes(r, then) == req' = [req EXCEPT ![r] = then]
Starts(r, pc, i, c) ==
    /\ On(r, "idle")
    /\ Goes(r, [pc |-> pc, id |-> i, change |-> c, after |-> Absent])

\* A refused or cancelled request changes nothing; the script stops with it.
Fails(r) ==
    /\ Goes(r, Idle)
    /\ overtaken' = overtaken \ {r}
    /\ sync' = IF r = Script THEN Off ELSE sync
    /\ UNCHANGED <<subject, slot, unit, row>>

Fresh(i) == row[i] = Absent /\ \A d \in Req : req[d].id # i

\* createAppointment: nothing it reads about the unit ever changes.
Inserts(r, i, p, s) == Fresh(i) /\ Starts(r, "write", i, Sets(p, s, "keep"))

Create(r, i, p, s) ==
    /\ subject = "holders" /\ r # Script
    /\ Inserts(r, i, p, s)
    /\ UNCHANGED <<subject, slot, unit, row, sync, overtaken>>

\* editAppointment leaves archived_at alone, whatever the status becomes.
Edit(r, i, p, s) ==
    /\ subject = "holders" /\ r # Script
    /\ row[i] # Absent
    /\ Starts(r, "write", i, Sets(p, s, "keep"))
    /\ UNCHANGED <<subject, slot, unit, row, sync, overtaken>>

\* publishAppointment: it may bring back a row that was archived.
Publishes(r, i) ==
    /\ row[i].status # "published" \/ row[i].archived
    /\ Starts(r, "write", i, Sets(NoPerson, "published", "clear"))

Publish(r, i) ==
    /\ subject = "holders" /\ r # Script
    /\ row[i] # Absent
    /\ Publishes(r, i)
    /\ UNCHANGED <<subject, slot, unit, row, sync, overtaken>>

Archives(r, i) ==
    /\ ~row[i].archived
    /\ Starts(r, "write", i, Sets(NoPerson, "archived", "set"))

Archive(r, i) ==
    /\ subject = "holders" /\ r # Script
    /\ row[i] # Absent
    /\ Archives(r, i)
    /\ UNCHANGED <<subject, slot, unit, row, sync, overtaken>>

\* Mutant: the unique indexes look at committed rows and wait for nobody.
WriteUnwaited(r) ==
    /\ On(r, "write")
    /\ LET x == Applied(row[req[r].id], req[r].change) IN
       /\ ~LockedByOther(r, req[r].id)
       /\ IF RivalCommitted(r, x) THEN Fails(r)
          ELSE /\ Goes(r, [req[r] EXCEPT !.pc = "count", !.after = x])
               /\ UNCHANGED <<subject, slot, unit, row, sync, overtaken>>

\* The insert or update: it works on the newest row and waits for whoever
\* writes this row or one the indexes would not allow beside it.
Write(r) ==
    /\ On(r, "write")
    /\ LET x == Applied(row[req[r].id], req[r].change) IN
       /\ ~LockedByOther(r, req[r].id)
       /\ ~RivalInFlight(r, x)
       /\ IF RivalCommitted(r, x) THEN Fails(r)
          ELSE /\ Goes(r, [req[r] EXCEPT !.pc = "count", !.after = x])
               /\ UNCHANGED <<subject, slot, unit, row, sync, overtaken>>

\* Mutant: the trigger counts the rows without the one being written.
CountOthers(r) ==
    /\ On(r, "count")
    /\ IF Allowed(Holders) THEN Goes(r, [req[r] EXCEPT !.pc = "commit"])
                                /\ UNCHANGED <<subject, slot, unit, row, sync, overtaken>>
       ELSE Fails(r)

\* appointment_cardinality_guard, deferred: the rows committed now and its own.
Count(r) ==
    /\ On(r, "count")
    /\ IF Allowed(HoldersWith(req[r].id, req[r].after))
       THEN Goes(r, [req[r] EXCEPT !.pc = "commit"])
            /\ UNCHANGED <<subject, slot, unit, row, sync, overtaken>>
       ELSE Fails(r)

Commit(r) ==
    /\ On(r, "commit")
    /\ row' = [row EXCEPT ![req[r].id] = req[r].after]
    /\ overtaken' = (overtaken \ {r}) \cup {d \in Req \ {r} : On(d, "commit")}
    /\ sync' = CASE r = Script -> sync
                 [] r # Script /\ sync.pc = "run" -> [sync EXCEPT !.disturbed = TRUE]
                 [] OTHER -> Off
    /\ Goes(r, Idle)
    /\ UNCHANGED <<subject, slot, unit>>

\* The transaction runs out of time or its connection is lost.
Abort(r) ==
    /\ ~On(r, "idle")
    /\ Fails(r)

-----------------------------------------------------------------------------
(* The unit *)

\* Mutant: the status is edited and archived_at is not.
ArchivedWithStatusOnly(s) == "keep"

\* editOrgUnit: archived_at follows the status, judged by the unit it has read.
ArchivedWith(s) ==
    CASE s = "archived" /\ ~unit.archived -> "set"
      [] s # "archived" /\ unit.archived -> "clear"
      [] OTHER -> "keep"

EditUnit(r, s) ==
    /\ subject = "unit"
    /\ Starts(r, "unit", NoAppt, Sets(NoPerson, s, ArchivedWith(s)))
    /\ UNCHANGED <<subject, slot, unit, row, sync, overtaken>>

PublishUnit(r) ==
    /\ subject = "unit"
    /\ unit.status # "published" \/ unit.archived
    /\ Starts(r, "unit", NoAppt, Sets(NoPerson, "published", "clear"))
    /\ UNCHANGED <<subject, slot, unit, row, sync, overtaken>>

ArchiveUnit(r) ==
    /\ subject = "unit"
    /\ ~unit.archived
    /\ Starts(r, "unit", NoAppt, Sets(NoPerson, "archived", "set"))
    /\ UNCHANGED <<subject, slot, unit, row, sync, overtaken>>

UnitWith(c) ==
    LET x == Applied([person |-> NoPerson, status |-> unit.status,
                      archived |-> unit.archived], c) IN
    [status |-> x.status, archived |-> x.archived]

WriteUnit(r) ==
    /\ On(r, "unit")
    /\ unit' = UnitWith(req[r].change)
    /\ overtaken' = (overtaken \ {r}) \cup {d \in Req \ {r} : On(d, "unit")}
    /\ Goes(r, Idle)
    /\ UNCHANGED <<subject, slot, row, sync>>

-----------------------------------------------------------------------------
(* The script: reconcile one unit and one position with the list *)

\* Mutant: only the holders the position counts are looked at.
LiveCounted == Holders

\* What the script reads: every row without archived_at, whatever its status.
Live == {i \in Appt : Standing(row[i])}

Reconcile ==
    /\ subject = "holders"
    /\ sync.pc # "run"
    /\ On(Script, "idle")
    /\ sync' = [pc |-> "run", found |-> NoAppt, disturbed |-> FALSE, todo |-> slot.wanted,
                leaving |-> {i \in Live : row[i].person \notin slot.wanted}]
    /\ UNCHANGED <<subject, slot, unit, row, req, overtaken>>

Working == sync.pc = "run" /\ On(Script, "idle")

\* 1. Archive first: it frees a singleton position for its new holder.
LetGo(i) ==
    /\ Working
    /\ i \in sync.leaving
    /\ sync' = [sync EXCEPT !.leaving = @ \ {i}]
    /\ IF row[i].archived THEN UNCHANGED req ELSE Archives(Script, i)
    /\ UNCHANGED <<subject, slot, unit, row, overtaken>>

\* findAppointment
HeldBy(p) == {i \in Appt : Standing(row[i]) /\ row[i].person = p}

\* 2. Appoint who is missing, publish who is there but not published.
Find(p) ==
    /\ Working
    /\ sync.leaving = {} /\ sync.found = NoAppt
    /\ p \in sync.todo
    /\ \/ \E i \in HeldBy(p) :
            /\ sync' = [sync EXCEPT !.todo = @ \ {p},
                          !.found = IF row[i].status = "published" THEN NoAppt ELSE i]
            /\ UNCHANGED req
       \/ /\ HeldBy(p) = {}
          /\ \E i \in Appt : Inserts(Script, i, p, "published")
          /\ sync' = [sync EXCEPT !.todo = @ \ {p}]
    /\ UNCHANGED <<subject, slot, unit, row, overtaken>>

\* publishAppointment reads the row again.
PublishFound ==
    /\ Working
    /\ sync.found # NoAppt
    /\ sync' = [sync EXCEPT !.found = NoAppt]
    /\ \/ Publishes(Script, sync.found)
       \/ row[sync.found].status = "published" /\ ~row[sync.found].archived /\ UNCHANGED req
    /\ UNCHANGED <<subject, slot, unit, row, overtaken>>

Finish ==
    /\ Working
    /\ sync.leaving = {} /\ sync.todo = {} /\ sync.found = NoAppt
    /\ sync' = [sync EXCEPT !.pc = "done"]
    /\ UNCHANGED <<subject, slot, unit, row, req, overtaken>>

\* The script is stopped at any point; the database undoes what was open.
Kill ==
    /\ sync.pc = "run"
    /\ Fails(Script)

-----------------------------------------------------------------------------
Init ==
    /\ subject \in {"unit", "holders"}
    /\ slot \in Slots
    /\ unit \in [status : IF subject = "unit" THEN Status ELSE {"draft"}, archived : {FALSE}]
    /\ row \in Before /\ Lawful
    /\ req = [r \in Req |-> Idle]
    /\ sync = Off
    /\ overtaken = {}

Next ==
    \/ \E r \in Req, i \in Appt :
        \/ \E p \in Person, s \in NewAs : Create(r, i, p, s)
        \/ \E c \in Patches : Edit(r, i, c[1], c[2])
        \/ Publish(r, i) \/ Archive(r, i)
    \/ \E r \in Req :
        \/ Write(r) \/ Count(r) \/ Commit(r) \/ Abort(r)
        \/ \E s \in Status : EditUnit(r, s)
        \/ PublishUnit(r) \/ ArchiveUnit(r) \/ WriteUnit(r)
    \/ Reconcile \/ Finish \/ PublishFound \/ Kill
    \/ \E i \in Appt : LetGo(i)
    \/ \E p \in Person : Find(p)

Spec == Init /\ [][Next]_vars
-----------------------------------------------------------------------------
(* Properties *)

TypeOK ==
    /\ subject \in {"unit", "holders"}
    /\ slot \in Slots
    /\ unit \in [status : Status, archived : BOOLEAN]
    /\ row \in [Appt -> Row \cup {Absent}]
    /\ req \in [Req -> Request]
    /\ sync \in Sync
    /\ overtaken \subseteq Req

\* An uncommitted row is written by one transaction alone.
RowsLocked ==
    \A r, d \in Req : Writing(r) /\ Writing(d) /\ r # d => req[r].id # req[d].id

\* Only the insert of a new row names a row that is not there, and what a
\* transaction will commit is its change of the row as it is now.
WritesItsChange ==
    \A r \in Req : LET q == req[r] IN q.pc \in {"write", "count", "commit"} =>
        /\ q.id \in Appt
        /\ row[q.id] = Absent =>
              q.change.person # NoPerson /\ q.change.status # "keep" /\ q.change.archived = "keep"
        /\ Writing(r) => q.after = Applied(row[q.id], q.change)

\* No two rows the indexes forbid stand side by side, committed or about to be:
\* a singleton position has one holder and nobody holds a position twice,
\* whatever the requests and the script do at the same time.
NoClash ==
    \A i, j \in Appt : i # j =>
        /\ ~Clash(row[i], row[j])
        /\ \A d \in Req : Writing(d) /\ req[d].id = i =>
              /\ ~Clash(req[d].after, row[j])
              /\ \A e \in Req : Writing(e) /\ req[e].id = j => ~Clash(req[d].after, req[e].after)

\* A count that no commit came after still holds.
CountHolds ==
    \A r \in Req : On(r, "commit") /\ r \notin overtaken =>
        Allowed(HoldersWith(req[r].id, req[r].after))

\* An edit decided on the unit as it is keeps its two archive marks in agreement.
Agrees(u) == u.archived <=> u.status = "archived"
EditAgrees ==
    \A r \in Req : On(r, "unit") /\ r \notin overtaken =>
        (Agrees(unit) => Agrees(UnitWith(req[r].change)))

\* The rows the script goes by are there.
ScriptSawRows ==
    /\ \A i \in sync.leaving : row[i] # Absent
    /\ sync.found # NoAppt => row[sync.found] # Absent

\* The unit and the holders are never edited in one behaviour, and a script
\* that has finished has no request open.
ScriptsTurn ==
    /\ sync.pc # "off" => subject = "holders"
    /\ \A r \in Req : On(r, "unit") => subject = "unit"
    /\ sync.pc = "done" => On(Script, "idle")

\* What the script's open request is about.
Leaves(i) == ~On(Script, "idle") /\ req[Script].id = i
             /\ req[Script].change = Sets(NoPerson, "archived", "set")
Brings(i) == ~On(Script, "idle") /\ req[Script].id = i
             /\ req[Script].change = Sets(NoPerson, "published", "clear")
Appoints(p) == ~On(Script, "idle") /\ row[req[Script].id] = Absent
               /\ req[Script].change = Sets(p, "published", "keep")

\* How far a run that nobody disturbed has come.
ListInProgress ==
    sync.pc = "run" /\ ~sync.disturbed =>
        /\ sync.todo \subseteq slot.wanted
        /\ \A i \in sync.leaving : row[i].person \notin slot.wanted
        /\ sync.found # NoAppt =>
              Standing(row[sync.found]) /\ row[sync.found].person \in slot.wanted
        /\ \/ On(Script, "idle")
           \/ \E i \in Appt : Leaves(i) /\ row[i].person \notin slot.wanted
           \/ \E i \in Appt : Brings(i) /\ Standing(row[i]) /\ row[i].person \in slot.wanted
           \/ \E p \in slot.wanted : Appoints(p)
        /\ \A i \in Appt : Standing(row[i]) =>
              \/ row[i].person \notin slot.wanted /\ (i \in sync.leaving \/ Leaves(i))
              \/ row[i].person \in sync.todo
              \/ row[i].person \in slot.wanted
                 /\ (row[i].status = "published" \/ sync.found = i \/ Brings(i))
        /\ \A p \in slot.wanted \ sync.todo : HeldBy(p) # {} \/ Appoints(p)

\* The inductive invariant.
IInv == /\ TypeOK /\ RowsLocked /\ WritesItsChange /\ NoClash
        /\ CountHolds /\ EditAgrees /\ ScriptSawRows /\ ScriptsTurn /\ ListInProgress

\* A position gets more holders than it allows only when a commit came between
\* the deferred count and the commit of another transaction.
OverLimitByRaceOnly ==
    [][row' # row => \/ Allowed(Holders')
                     \/ \E r \in overtaken : On(r, "commit") /\ ~On(r, "commit")']_vars

\* archived_at and the status of the unit drift apart only when the unit was
\* written between the read and the write of an edit.
UnitDriftsByRaceOnly ==
    [][Agrees(unit) => \/ Agrees(unit')
                       \/ \E r \in overtaken : On(r, "unit") /\ ~On(r, "unit")']_vars

\* A run of the script that nobody disturbed, after any number of runs that
\* were stopped half-way, leaves exactly the people of the list, each published.
ListIsInForce ==
    sync.pc = "done" =>
        sync.disturbed \/
        /\ {row[i].person : i \in {j \in Appt : Standing(row[j])}} = slot.wanted
        /\ \A i \in Appt : Standing(row[i]) => row[i].status = "published"
=============================================================================
