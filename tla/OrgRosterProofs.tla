-------------------------- MODULE OrgRosterProofs --------------------------
(***************************************************************************)
(* Proofs about OrgRoster, for every number of people, rows, requests and  *)
(* allowed holders.                                                        *)
(***************************************************************************)
EXTENDS OrgRoster, TLAPS

-----------------------------------------------------------------------------
(* Changes and rows *)

\* A change of a row is a row, and the insert of a new row makes one.
LEMMA AppliedType ==
    ASSUME NEW x \in Row \cup {Absent}, NEW c \in Change,
           x = Absent => c.person # NoPerson /\ c.status # "keep" /\ c.archived = "keep"
    PROVE  /\ Applied(x, c) \in Row
           /\ x # Absent => x \in Row
<1>1. c.person \in Person \cup {NoPerson} /\ c.status \in Status \cup {"keep"}
      /\ c.archived \in {"keep", "set", "clear"}
  BY DEF Change
<1>2. CASE x = Absent
  BY <1>1, <1>2 DEF Applied, Absent, Row
<1>3. CASE x \in Row
  BY <1>1, <1>3 DEF Applied, Row
<1> QED
  BY <1>2, <1>3

LEMMA SetsType ==
    ASSUME NEW p \in Person \cup {NoPerson}, NEW s \in Status \cup {"keep"},
           NEW a \in {"keep", "set", "clear"}
    PROVE  /\ Sets(p, s, a) \in Change
           /\ Sets(p, s, a).person = p
           /\ Sets(p, s, a).status = s
           /\ Sets(p, s, a).archived = a
  BY DEF Sets, Change

\* A row that is not there is not among the rows.
LEMMA AbsentIsNoRow == Absent \notin Row
  BY RosterConstants DEF Absent, Row, Status

LEMMA IdleType == Idle \in Request /\ Idle.pc = "idle" /\ Idle.id = NoAppt
  BY DEF Idle, Request, Sets, Change

-----------------------------------------------------------------------------
(* What the invariant says of one request *)

\* Request q at the table and the unit of this state.
Writes(q) == q.pc \in {"count", "commit"}
ChangeFits(q) ==
    q.pc \in {"write", "count", "commit"} =>
        /\ q.id \in Appt
        /\ row[q.id] = Absent =>
              q.change.person # NoPerson /\ q.change.status # "keep" /\ q.change.archived = "keep"
        /\ Writes(q) => q.after = Applied(row[q.id], q.change)

\* Nobody of the table stands against what q is about to commit.
Alone(q) == Writes(q) => \A j \in Appt \ {q.id} : ~Clash(q.after, row[j])

\* Two open transactions write rows of their own, which may stand together.
Apart(q, e) ==
    Writes(q) /\ Writes(e) => q.id # e.id /\ ~Clash(q.after, e.after)

TableInv == \A i, j \in Appt : i # j => ~Clash(row[i], row[j])

CountFits(q, clean) == q.pc = "commit" /\ clean => Allowed(HoldersWith(q.id, q.after))
UnitFits(q, clean) ==
    q.pc = "unit" /\ clean => (Agrees(unit) => Agrees(UnitWith(q.change)))

LEMMA ClashSymmetric == \A x, y : Clash(x, y) <=> Clash(y, x)
  BY DEF Clash

\* The invariant, request by request.
LEMMA ByRequest ==
    ASSUME TypeOK
    PROVE  /\ WritesItsChange <=> \A r \in Req : ChangeFits(req[r])
           /\ RowsLocked /\ NoClash /\ WritesItsChange
                <=> /\ TableInv
                    /\ \A r \in Req : ChangeFits(req[r]) /\ Alone(req[r])
                    /\ \A r, d \in Req : r # d => Apart(req[r], req[d])
           /\ CountHolds <=> \A r \in Req : CountFits(req[r], r \notin overtaken)
           /\ EditAgrees <=> \A r \in Req : UnitFits(req[r], r \notin overtaken)
<1>1. WritesItsChange <=> \A r \in Req : ChangeFits(req[r])
  BY DEF WritesItsChange, ChangeFits, Writing, Writes
<1>2. ASSUME RowsLocked, NoClash, WritesItsChange
      PROVE  /\ TableInv
             /\ \A r \in Req : Alone(req[r])
             /\ \A r, d \in Req : r # d => Apart(req[r], req[d])
  BY <1>2 DEF TableInv, Alone, Apart, Writes, Writing, NoClash, RowsLocked, WritesItsChange
<1>3. ASSUME TableInv, \A r \in Req : ChangeFits(req[r]) /\ Alone(req[r]),
             \A r, d \in Req : r # d => Apart(req[r], req[d])
      PROVE  RowsLocked /\ NoClash
  <2>1. RowsLocked
    BY <1>3 DEF RowsLocked, Apart, Writing, Writes
  <2>2. ASSUME NEW i \in Appt, NEW j \in Appt, i # j, NEW d \in Req, Writing(d), req[d].id = i
        PROVE  /\ ~Clash(req[d].after, row[j])
               /\ \A e \in Req : Writing(e) /\ req[e].id = j => ~Clash(req[d].after, req[e].after)
    BY <1>3, <2>2 DEF Alone, Apart, Writing, Writes
  <2> QED
    BY <1>3, <2>1, <2>2 DEF NoClash, TableInv
<1>4. CountHolds <=> \A r \in Req : CountFits(req[r], r \notin overtaken)
  BY DEF CountHolds, CountFits, On
<1>5. EditAgrees <=> \A r \in Req : UnitFits(req[r], r \notin overtaken)
  BY DEF EditAgrees, UnitFits, On
<1> QED
  BY <1>1, <1>2, <1>3, <1>4, <1>5

\* The same of the next state.
LEMMA ByRequestNext ==
    ASSUME TypeOK', TableInv',
           \A r \in Req : /\ ChangeFits(req[r])' /\ Alone(req[r])'
                          /\ CountFits(req[r], r \notin overtaken)'
                          /\ UnitFits(req[r], r \notin overtaken)',
           \A r, d \in Req : r # d => Apart(req[r], req[d])'
    PROVE  RowsLocked' /\ NoClash' /\ WritesItsChange' /\ CountHolds' /\ EditAgrees'
<1>1. WritesItsChange'
  BY DEF WritesItsChange, ChangeFits, Writing, Writes
<1>2. RowsLocked'
  BY DEF RowsLocked, Apart, Writing, Writes
<1>3. ASSUME NEW i \in Appt, NEW j \in Appt, i # j, NEW d \in Req,
             Writing(d)', (req[d].id = i)'
      PROVE  /\ (~Clash(req[d].after, row[j]))'
             /\ \A e \in Req : (Writing(e) /\ req[e].id = j => ~Clash(req[d].after, req[e].after))'
  BY <1>3 DEF Alone, Apart, Writing, Writes
<1>4. NoClash'
  BY <1>3 DEF NoClash, TableInv
<1>5. CountHolds'
  BY DEF CountHolds, CountFits, On
<1>6. EditAgrees'
  BY DEF EditAgrees, UnitFits, On
<1> QED
  BY <1>1, <1>2, <1>4, <1>5, <1>6

Core == RowsLocked /\ NoClash /\ WritesItsChange /\ CountHolds /\ EditAgrees

\* A step that leaves the table and the unit alone and moves one request.
LEMMA OneMoves ==
    ASSUME TypeOK, Core, TypeOK', NEW r \in Req, UNCHANGED <<slot, row, unit>>,
           \A d \in Req \ {r} : req'[d] = req[d] /\ (d \in overtaken => d \in overtaken'),
           ChangeFits(req[r])', Alone(req[r])',
           \A d \in Req \ {r} : Apart(req[r], req[d])',
           CountFits(req[r], r \notin overtaken)', UnitFits(req[r], r \notin overtaken)'
    PROVE  Core'
<1>0. /\ TableInv
      /\ \A d \in Req : ChangeFits(req[d]) /\ Alone(req[d])
      /\ \A d, e \in Req : d # e => Apart(req[d], req[e])
      /\ \A d \in Req : CountFits(req[d], d \notin overtaken)
      /\ \A d \in Req : UnitFits(req[d], d \notin overtaken)
  BY ByRequest DEF Core
<1>1. TableInv'
  BY <1>0 DEF TableInv, Clash
<1>2. ASSUME NEW d \in Req, d # r
      PROVE  /\ ChangeFits(req[d])' /\ Alone(req[d])'
             /\ CountFits(req[d], d \notin overtaken)'
             /\ UnitFits(req[d], d \notin overtaken)'
  <2>1. req'[d] = req[d] /\ (d \notin overtaken' => d \notin overtaken)
    BY <1>2
  <2>2. ChangeFits(req[d])'
    BY <1>0, <2>1 DEF ChangeFits, Writes
  <2>3. Alone(req[d])'
    BY <1>0, <2>1 DEF Alone, Writes, Clash
  <2>4. CountFits(req[d], d \notin overtaken)'
    BY <1>0, <2>1 DEF CountFits, Allowed, HoldersWith
  <2>5. UnitFits(req[d], d \notin overtaken)'
    BY <1>0, <2>1 DEF UnitFits, UnitWith, Agrees
  <2> QED
    BY <2>2, <2>3, <2>4, <2>5
<1>3. ASSUME NEW d \in Req, NEW e \in Req, d # e
      PROVE  Apart(req[d], req[e])'
  <2>1. CASE d = r
    BY <1>3, <2>1
  <2>2. CASE e = r
    <3>1. Apart(req[e], req[d])'
      BY <1>3, <2>2
    <3> QED
      BY <3>1 DEF Apart, Writes, Clash
  <2>3. CASE d # r /\ e # r
    BY <1>0, <1>3, <2>3 DEF Apart, Writes, Clash
  <2> QED
    BY <2>1, <2>2, <2>3
<1> QED
  BY <1>1, <1>2, <1>3, ByRequestNext DEF Core

\* An idle request, or one that is not inside a transaction, threatens nothing.
LEMMA Outside ==
    ASSUME NEW r \in Req, (req[r].pc \notin {"count", "commit"})'
    PROVE  /\ Alone(req[r])'
           /\ \A d \in Req \ {r} : Apart(req[r], req[d])'
           /\ CountFits(req[r], r \notin overtaken)'
  BY DEF Alone, Apart, CountFits, Writes

LEMMA AtRest ==
    ASSUME NEW r \in Req, req'[r] = Idle
    PROVE  /\ ChangeFits(req[r])' /\ Alone(req[r])'
           /\ \A d \in Req \ {r} : Apart(req[r], req[d])'
           /\ CountFits(req[r], r \notin overtaken)' /\ UnitFits(req[r], r \notin overtaken)'
<1>1. req'[r].pc = "idle"
  BY IdleType
<1> QED
  BY <1>1, Outside DEF ChangeFits, UnitFits

-----------------------------------------------------------------------------
(* Steps that only move a request *)

\* A request starts to write a row.
LEMMA StartKeeps ==
    ASSUME TypeOK, Core, NEW r \in Req, NEW i \in Appt, NEW c \in Change,
           Starts(r, "write", i, c),
           row[i] = Absent => c.person # NoPerson /\ c.status # "keep" /\ c.archived = "keep",
           UNCHANGED <<subject, slot, unit, row, overtaken>>, sync' \in Sync
    PROVE  TypeOK' /\ Core'
<1>1. req'[r] = [pc |-> "write", id |-> i, change |-> c, after |-> Absent]
      /\ req' \in [Req -> Request] /\ \A d \in Req \ {r} : req'[d] = req[d]
  BY DEF TypeOK, Starts, Goes, Request
<1>2. TypeOK'
  BY <1>1 DEF TypeOK
<1>3. ChangeFits(req[r])' /\ UnitFits(req[r], r \notin overtaken)'
  BY <1>1 DEF ChangeFits, UnitFits, Writes
<1> QED
  BY <1>1, <1>2, <1>3, Outside, OneMoves

LEMMA FailKeeps ==
    ASSUME TypeOK, Core, NEW r \in Req, Fails(r), UNCHANGED subject
    PROVE  TypeOK' /\ Core'
<1>1. req'[r] = Idle /\ req' \in [Req -> Request] /\ \A d \in Req \ {r} : req'[d] = req[d]
  BY IdleType DEF TypeOK, Fails, Goes
<1>2. sync' \in Sync
  BY DEF Fails, TypeOK, Off, Sync
<1>3. TypeOK'
  BY <1>1, <1>2 DEF TypeOK, Fails
<1>4. \A d \in Req \ {r} : d \in overtaken => d \in overtaken'
  BY DEF Fails
<1> QED
  BY <1>1, <1>3, <1>4, AtRest, OneMoves DEF Fails

LEMMA WriteKeeps ==
    ASSUME TypeOK, Core, NEW r \in Req, Write(r)
    PROVE  TypeOK' /\ Core'
<1> DEFINE q == req[r]
<1>0. q \in Request /\ q.pc = "write" /\ ChangeFits(q)
  BY ByRequest DEF TypeOK, Core, Write, On
<1>1. q.id \in Appt /\ q.change \in Change
      /\ Applied(row[q.id], q.change) \in Row
  BY <1>0, AppliedType DEF ChangeFits, TypeOK, Request
<1>2. CASE RivalCommitted(r, Applied(row[q.id], q.change))
  BY <1>2, FailKeeps DEF Write, Fails
<1>3. CASE ~RivalCommitted(r, Applied(row[q.id], q.change))
  <2>1. /\ req' = [req EXCEPT ![r] = [req[r] EXCEPT !.pc = "count", !.after = Applied(row[q.id], q.change)]]
        /\ UNCHANGED <<subject, slot, unit, row, sync, overtaken>>
    BY <1>3 DEF Write, Goes
  <2>2. /\ req'[r] = [pc |-> "count", id |-> q.id, change |-> q.change,
                      after |-> Applied(row[q.id], q.change)]
        /\ req' \in [Req -> Request] /\ \A d \in Req \ {r} : req'[d] = req[d]
    BY <1>0, <1>1, <2>1 DEF TypeOK, Request
  <2>3. TypeOK'
    BY <2>1, <2>2 DEF TypeOK
  <2>4. ChangeFits(req[r])'
    BY <1>0, <2>1, <2>2 DEF ChangeFits, Writes
  <2>5. Alone(req[r])'
    BY <1>3, <2>1, <2>2 DEF Alone, RivalCommitted, Clash
  <2>6. ASSUME NEW d \in Req \ {r}
        PROVE  Apart(req[r], req[d])'
    BY <2>1, <2>2 DEF Write, Apart, LockedByOther, RivalInFlight, Writes, Writing, Clash
  <2>7. CountFits(req[r], r \notin overtaken)' /\ UnitFits(req[r], r \notin overtaken)'
    BY <2>2 DEF CountFits, UnitFits
  <2> QED
    BY <2>1, <2>2, <2>3, <2>4, <2>5, <2>6, <2>7, OneMoves
<1> QED
  BY <1>2, <1>3

LEMMA CountKeeps ==
    ASSUME TypeOK, Core, NEW r \in Req, Count(r)
    PROVE  TypeOK' /\ Core'
<1> DEFINE q == req[r]
<1>0. /\ q \in Request /\ q.pc = "count" /\ ChangeFits(q) /\ Alone(q)
      /\ \A d \in Req \ {r} : Apart(q, req[d])
  BY ByRequest DEF TypeOK, Core, Count, On
<1>1. CASE ~Allowed(HoldersWith(q.id, q.after))
  BY <1>1, FailKeeps DEF Count, Fails
<1>2. CASE Allowed(HoldersWith(q.id, q.after))
  <2>1. req' = [req EXCEPT ![r] = [req[r] EXCEPT !.pc = "commit"]]
        /\ UNCHANGED <<subject, slot, unit, row, sync, overtaken>>
    BY <1>2 DEF Count, Goes
  <2>2. /\ req'[r] = [pc |-> "commit", id |-> q.id, change |-> q.change, after |-> q.after]
        /\ req' \in [Req -> Request] /\ \A d \in Req \ {r} : req'[d] = req[d]
    BY <1>0, <2>1 DEF TypeOK, Request
  <2>3. TypeOK'
    BY <2>1, <2>2 DEF TypeOK
  <2>4. ChangeFits(req[r])' /\ Alone(req[r])' /\ \A d \in Req \ {r} : Apart(req[r], req[d])'
    BY <1>0, <2>1, <2>2 DEF ChangeFits, Alone, Apart, Writes, Clash
  <2>5. CountFits(req[r], r \notin overtaken)' /\ UnitFits(req[r], r \notin overtaken)'
    BY <1>2, <2>1, <2>2 DEF CountFits, UnitFits, Allowed, HoldersWith
  <2> QED
    BY <2>1, <2>2, <2>3, <2>4, <2>5, OneMoves
<1> QED
  BY <1>1, <1>2

-----------------------------------------------------------------------------
(* Steps that change the table or the unit *)

LEMMA CommitKeeps ==
    ASSUME TypeOK, Core, NEW r \in Req, Commit(r)
    PROVE  TypeOK' /\ Core'
<1> DEFINE q == req[r]
<1>0. /\ TableInv
      /\ \A d \in Req : ChangeFits(req[d]) /\ Alone(req[d])
      /\ \A d, e \in Req : d # e => Apart(req[d], req[e])
      /\ \A d \in Req : UnitFits(req[d], d \notin overtaken)
  BY ByRequest DEF Core
<1>1. /\ q \in Request /\ q.pc = "commit" /\ q.id \in Appt
      /\ q.after = Applied(row[q.id], q.change) /\ q.after \in Row
  <2>1. q \in Request /\ q.pc = "commit" /\ ChangeFits(q)
    BY <1>0 DEF TypeOK, Commit, On
  <2> QED
    BY <2>1, AppliedType DEF ChangeFits, Writes, TypeOK, Request
<1>2. /\ row' = [row EXCEPT ![q.id] = q.after]
      /\ req'[r] = Idle /\ req' \in [Req -> Request] /\ \A d \in Req \ {r} : req'[d] = req[d]
      /\ UNCHANGED <<subject, slot, unit>>
  BY IdleType DEF Commit, Goes, TypeOK
<1>3. TypeOK'
  <2>1. sync' \in Sync
    BY DEF Commit, TypeOK, Sync, Off
  <2>2. row' \in [Appt -> Row \cup {Absent}] /\ overtaken' \subseteq Req
    BY <1>1, <1>2 DEF TypeOK, Commit
  <2> QED
    BY <1>2, <2>1, <2>2 DEF TypeOK
<1>4. \A i \in Appt : row'[i] = IF i = q.id THEN q.after ELSE row[i]
  BY <1>1, <1>2 DEF TypeOK
<1>5. TableInv'
  <2>1. \A j \in Appt \ {q.id} : ~Clash(q.after, row[j]) /\ ~Clash(row[j], q.after)
    BY <1>0, <1>1, ClashSymmetric DEF Alone, Writes
  <2> QED
    BY <1>0, <1>2, <1>4, <2>1 DEF TableInv, Clash
<1>6. ASSUME NEW d \in Req, d # r
      PROVE  /\ ChangeFits(req[d])' /\ Alone(req[d])'
             /\ CountFits(req[d], d \notin overtaken)'
             /\ UnitFits(req[d], d \notin overtaken)'
  <2>1. req'[d] = req[d] /\ Apart(req[d], q) /\ ChangeFits(req[d]) /\ Alone(req[d])
    BY <1>0, <1>2, <1>6
  <2>2. ChangeFits(req[d])'
    <3>1. CASE Writes(req[d])
      BY <1>1, <1>4, <2>1, <3>1 DEF ChangeFits, Apart, Writes
    <3>2. CASE ~Writes(req[d])
      <4>1. req[d].id = q.id => row'[req[d].id] # Absent
        BY <1>1, <1>4, AbsentIsNoRow
      <4> QED
        BY <1>4, <2>1, <3>2, <4>1 DEF ChangeFits, Writes
    <3> QED
      BY <3>1, <3>2
  <2>3. Alone(req[d])'
    BY <1>1, <1>2, <1>4, <2>1 DEF Alone, Apart, Writes, Clash
  <2>4. CountFits(req[d], d \notin overtaken)'
    BY <1>6, <2>1 DEF CountFits, Commit, On
  <2>5. UnitFits(req[d], d \notin overtaken)'
    <3>1. req[d].pc = "unit" /\ d \notin overtaken' => d \notin overtaken
      BY <1>6 DEF Commit
    <3> QED
      BY <1>0, <1>2, <2>1, <3>1 DEF UnitFits, UnitWith, Agrees
  <2> QED
    BY <2>2, <2>3, <2>4, <2>5
<1>7. ASSUME NEW d \in Req, NEW e \in Req, d # e
      PROVE  Apart(req[d], req[e])'
  BY <1>0, <1>2, <1>7, IdleType DEF Apart, Writes, Clash
<1> QED
  BY <1>2, <1>3, <1>5, <1>6, <1>7, AtRest, ByRequestNext DEF Core

\* What an operation on the unit asks for keeps the two marks together.
LEMMA UnitStart ==
    ASSUME TypeOK, Core, NEW r \in Req, NEW c \in Change, Starts(r, "unit", NoAppt, c),
           Agrees(unit) => Agrees(UnitWith(c)),
           UNCHANGED <<subject, slot, unit, row, sync, overtaken>>
    PROVE  TypeOK' /\ Core'
<1>1. req'[r] = [pc |-> "unit", id |-> NoAppt, change |-> c, after |-> Absent]
      /\ req' \in [Req -> Request] /\ \A d \in Req \ {r} : req'[d] = req[d]
  BY DEF TypeOK, Starts, Goes, Request
<1>2. TypeOK'
  BY <1>1 DEF TypeOK
<1>3. ChangeFits(req[r])' /\ UnitFits(req[r], r \notin overtaken)'
  BY <1>1 DEF ChangeFits, UnitFits, Writes, UnitWith, Agrees
<1> QED
  BY <1>1, <1>2, <1>3, Outside, OneMoves

LEMMA UnitOperations ==
    ASSUME TypeOK, Core, NEW r \in Req,
           PublishUnit(r) \/ ArchiveUnit(r) \/ \E s \in Status : EditUnit(r, s)
    PROVE  TypeOK' /\ Core'
<1>1. CASE PublishUnit(r)
  <2>1. Agrees(UnitWith(Sets(NoPerson, "published", "clear")))
    BY DEF Agrees, UnitWith, Applied, Sets
  <2> QED
    BY <1>1, <2>1, SetsType, UnitStart DEF PublishUnit, Status
<1>2. CASE ArchiveUnit(r)
  <2>1. Agrees(UnitWith(Sets(NoPerson, "archived", "set")))
    BY DEF Agrees, UnitWith, Applied, Sets
  <2> QED
    BY <1>2, <2>1, SetsType, UnitStart DEF ArchiveUnit, Status
<1>3. ASSUME NEW s \in Status, EditUnit(r, s)
      PROVE  TypeOK' /\ Core'
  <2>1. ArchivedWith(s) \in {"keep", "set", "clear"}
    BY DEF ArchivedWith
  <2>2. Agrees(UnitWith(Sets(NoPerson, s, ArchivedWith(s))))
    BY DEF Agrees, UnitWith, Applied, Sets, ArchivedWith, TypeOK, Status
  <2> QED
    BY <1>3, <2>1, <2>2, SetsType, UnitStart DEF EditUnit
<1> QED
  BY <1>1, <1>2, <1>3

LEMMA WriteUnitKeeps ==
    ASSUME TypeOK, Core, NEW r \in Req, WriteUnit(r)
    PROVE  TypeOK' /\ Core'
<1>0. /\ TableInv
      /\ \A d \in Req : ChangeFits(req[d]) /\ Alone(req[d])
      /\ \A d, e \in Req : d # e => Apart(req[d], req[e])
      /\ \A d \in Req : CountFits(req[d], d \notin overtaken)
  BY ByRequest DEF Core
<1>1. /\ req'[r] = Idle /\ req' \in [Req -> Request] /\ \A d \in Req \ {r} : req'[d] = req[d]
      /\ UNCHANGED <<subject, slot, row, sync>>
  BY IdleType DEF WriteUnit, Goes, TypeOK
<1>2. unit' \in [status : Status, archived : BOOLEAN]
  <2>1. req[r].change \in Change
    BY DEF TypeOK, Request
  <2> QED
    BY <2>1 DEF WriteUnit, UnitWith, Applied, Change, TypeOK
<1>3. TypeOK'
  BY <1>1, <1>2 DEF TypeOK, WriteUnit
<1>4. TableInv'
  BY <1>0, <1>1 DEF TableInv, Clash
<1>5. ASSUME NEW d \in Req, d # r
      PROVE  /\ ChangeFits(req[d])' /\ Alone(req[d])'
             /\ CountFits(req[d], d \notin overtaken)'
             /\ UnitFits(req[d], d \notin overtaken)'
  <2>1. req'[d] = req[d] /\ ChangeFits(req[d]) /\ Alone(req[d])
        /\ CountFits(req[d], d \notin overtaken)
    BY <1>0, <1>1, <1>5
  <2>2. (d \notin overtaken' => d \notin overtaken) /\ (req[d].pc = "unit" => d \in overtaken')
    BY <1>5 DEF WriteUnit, On
  <2> QED
    BY <1>1, <2>1, <2>2 DEF ChangeFits, Alone, Writes, Clash, CountFits, UnitFits, Allowed, HoldersWith
<1>6. ASSUME NEW d \in Req, NEW e \in Req, d # e
      PROVE  Apart(req[d], req[e])'
  BY <1>0, <1>1, <1>6, IdleType DEF Apart, Writes, Clash
<1> QED
  BY <1>1, <1>3, <1>4, <1>5, <1>6, AtRest, ByRequestNext DEF Core

-----------------------------------------------------------------------------
(* Every step keeps what the guards of the database promise *)

\* A request that the script or an administrator begins.
LEMMA Beginnings ==
    ASSUME TypeOK, Core, NEW r \in Req, NEW i \in Appt,
           UNCHANGED <<subject, slot, unit, row, overtaken>>, sync' \in Sync,
           \/ \E p \in Person, s \in Status : Inserts(r, i, p, s)
           \/ row[i] # Absent /\ (Publishes(r, i) \/ Archives(r, i))
           \/ row[i] # Absent /\ \E p \in Person \cup {NoPerson}, s \in Status \cup {"keep"} :
                Starts(r, "write", i, Sets(p, s, "keep"))
    PROVE  TypeOK' /\ Core'
<1>1. ASSUME NEW p \in Person, NEW s \in Status, Inserts(r, i, p, s)
      PROVE  TypeOK' /\ Core'
  <2>1. s # "keep" /\ p # NoPerson
    BY RosterConstants DEF Status
  <2> QED
    BY <1>1, <2>1, SetsType, StartKeeps DEF Inserts
<1>2. CASE row[i] # Absent /\ Publishes(r, i)
  BY <1>2, SetsType, StartKeeps DEF Publishes, Status
<1>3. CASE row[i] # Absent /\ Archives(r, i)
  BY <1>3, SetsType, StartKeeps DEF Archives, Status
<1>4. ASSUME row[i] # Absent, NEW p \in Person \cup {NoPerson}, NEW s \in Status \cup {"keep"},
             Starts(r, "write", i, Sets(p, s, "keep"))
      PROVE  TypeOK' /\ Core'
  BY <1>4, SetsType, StartKeeps
<1> QED
  BY <1>1, <1>2, <1>3, <1>4

\* A step of the script that begins no request.
LEMMA ScriptOnly ==
    ASSUME TypeOK, Core, UNCHANGED <<subject, slot, unit, row, req, overtaken>>, sync' \in Sync
    PROVE  TypeOK' /\ Core'
<1>1. TypeOK'
  BY DEF TypeOK
<1>2. RowsLocked'
  BY DEF Core, RowsLocked, Writing
<1>3. NoClash'
  BY DEF Core, NoClash, Writing, Clash
<1>4. WritesItsChange'
  BY DEF Core, WritesItsChange, Writing
<1>5. CountHolds' /\ EditAgrees'
  BY DEF Core, CountHolds, EditAgrees, On, Allowed, HoldersWith, UnitWith, Agrees
<1> QED
  BY <1>1, <1>2, <1>3, <1>4, <1>5 DEF Core

LEMMA CoreStep ==
    ASSUME TypeOK, Core, ScriptSawRows, [Next]_vars
    PROVE  TypeOK' /\ Core'
<1> USE DEF TypeOK
<1>1. ASSUME NEW r \in Req, NEW i \in Appt,
             \/ \E p \in Person, s \in NewAs : Create(r, i, p, s)
             \/ \E c \in Patches : Edit(r, i, c[1], c[2])
             \/ Publish(r, i) \/ Archive(r, i)
      PROVE  TypeOK' /\ Core'
  BY <1>1, Beginnings, RosterConstants DEF Create, Edit, Publish, Archive
<1>2. ASSUME NEW r \in Req, Write(r) \/ Count(r) \/ Commit(r) \/ WriteUnit(r)
      PROVE  TypeOK' /\ Core'
  BY <1>2, WriteKeeps, CountKeeps, CommitKeeps, WriteUnitKeeps
<1>3. ASSUME NEW r \in Req, Abort(r)
      PROVE  TypeOK' /\ Core'
  BY <1>3, FailKeeps DEF Abort, Fails
<1>4. ASSUME NEW r \in Req, PublishUnit(r) \/ ArchiveUnit(r) \/ \E s \in Status : EditUnit(r, s)
      PROVE  TypeOK' /\ Core'
  BY <1>4, UnitOperations
<1>5. CASE Reconcile
  <2>1. sync' \in Sync
    BY <1>5, RosterConstants DEF Reconcile, Sync, Live
  <2> QED
    BY <1>5, <2>1, ScriptOnly DEF Reconcile
<1>6. CASE Finish
  <2>1. sync' \in Sync
    BY <1>6 DEF Finish, Sync
  <2> QED
    BY <1>6, <2>1, ScriptOnly DEF Finish
<1>7. CASE Kill
  BY <1>7, FailKeeps, RosterConstants DEF Kill, Fails
<1>8. CASE PublishFound
  <2>1. sync' \in Sync /\ sync.found \in Appt /\ row[sync.found] # Absent
    BY <1>8 DEF PublishFound, Sync, ScriptSawRows
  <2> QED
    BY <1>8, <2>1, ScriptOnly, Beginnings, RosterConstants DEF PublishFound
<1>9. ASSUME NEW i \in Appt, LetGo(i)
      PROVE  TypeOK' /\ Core'
  <2>1. sync' \in Sync /\ row[i] # Absent
    BY <1>9 DEF LetGo, Sync, ScriptSawRows
  <2> QED
    BY <1>9, <2>1, ScriptOnly, Beginnings, RosterConstants DEF LetGo
<1>10. ASSUME NEW p \in Person, Find(p)
      PROVE  TypeOK' /\ Core'
  <2>1. sync' \in Sync
    <3>1. ASSUME NEW i \in HeldBy(p),
                 sync' = [sync EXCEPT !.todo = @ \ {p},
                            !.found = IF row[i].status = "published" THEN NoAppt ELSE i]
          PROVE  sync' \in Sync
      <4>1. (IF row[i].status = "published" THEN NoAppt ELSE i) \in Appt \cup {NoAppt}
        BY DEF HeldBy
      <4> QED
        BY <3>1, <4>1 DEF Sync
    <3>2. CASE sync' = [sync EXCEPT !.todo = @ \ {p}]
      BY <3>2 DEF Sync
    <3> QED
      BY <1>10, <3>1, <3>2 DEF Find
  <2>2. CASE UNCHANGED req
    BY <1>10, <2>1, <2>2, ScriptOnly DEF Find
  <2>3. ASSUME NEW i \in Appt, Inserts(Script, i, p, "published")
        PROVE  TypeOK' /\ Core'
    BY <1>10, <2>1, <2>3, Beginnings, RosterConstants DEF Find, Status
  <2> QED
    BY <1>10, <2>2, <2>3 DEF Find
<1>11. CASE UNCHANGED vars
  BY <1>11, ScriptOnly DEF vars
<1> QED
  BY <1>1, <1>2, <1>3, <1>4, <1>5, <1>6, <1>7, <1>8, <1>9, <1>10, <1>11 DEF Next

-----------------------------------------------------------------------------
(* The script *)

\* No row goes away.
LEMMA RowsStay ==
    ASSUME TypeOK, Core, [Next]_vars
    PROVE  \A i \in Appt : row[i] # Absent => row'[i] # Absent
<1>1. ASSUME NEW r \in Req, Commit(r)
      PROVE  \A i \in Appt : row[i] # Absent => row'[i] # Absent
  <2>1. ChangeFits(req[r]) /\ req[r] \in Request /\ req[r].pc = "commit"
    BY <1>1, ByRequest DEF Core, TypeOK, Commit, On
  <2>2. req[r].after \in Row /\ req[r].id \in Appt
    BY <2>1, AppliedType DEF ChangeFits, Writes, TypeOK, Request
  <2> QED
    BY <1>1, <2>2, AbsentIsNoRow DEF Commit, TypeOK
<1>2. ASSUME ~\E r \in Req : Commit(r)
      PROVE  row' = row
  BY <1>2 DEF Next, vars, Create, Edit, Publish, Archive, Write, Count, Abort, Fails, EditUnit,
       PublishUnit, ArchiveUnit, WriteUnit, Reconcile, Finish, PublishFound, Kill, LetGo, Find
<1> QED
  BY <1>1, <1>2

LEMMA ScriptSees ==
    ASSUME TypeOK, Core, ScriptSawRows, [Next]_vars
    PROVE  ScriptSawRows'
<1>1. \/ sync'.leaving \subseteq sync.leaving /\ sync'.found \in {sync.found, NoAppt}
      \/ sync' = Off
      \/ Reconcile
      \/ \E p \in Person : Find(p)
  <2>1. ASSUME NEW r \in Req, Write(r) \/ Count(r) \/ Commit(r) \/ Abort(r)
        PROVE  sync' = Off \/ (sync'.leaving = sync.leaving /\ sync'.found = sync.found)
    <3>1. CASE Commit(r)
      BY <3>1 DEF Commit, TypeOK, Sync
    <3>2. CASE Fails(r) \/ sync' = sync
      BY <3>2 DEF Fails
    <3> QED
      BY <2>1, <3>1, <3>2 DEF Write, Count, Abort
  <2>2. ASSUME Kill
        PROVE  sync' = Off
    BY <2>2 DEF Kill, Fails
  <2>3. ASSUME Finish \/ PublishFound \/ \E i \in Appt : LetGo(i)
        PROVE  sync'.leaving \subseteq sync.leaving /\ sync'.found \in {sync.found, NoAppt}
    BY <2>3 DEF Finish, PublishFound, LetGo, TypeOK, Sync
  <2>4. ASSUME NEW r \in Req, NEW i \in Appt,
               \/ \E p \in Person, s \in NewAs : Create(r, i, p, s)
               \/ \E c \in Patches : Edit(r, i, c[1], c[2])
               \/ Publish(r, i) \/ Archive(r, i)
        PROVE  sync' = sync
    BY <2>4 DEF Create, Edit, Publish, Archive
  <2>5. ASSUME NEW r \in Req, \/ \E s \in Status : EditUnit(r, s)
                             \/ PublishUnit(r) \/ ArchiveUnit(r) \/ WriteUnit(r)
        PROVE  sync' = sync
    BY <2>5 DEF EditUnit, PublishUnit, ArchiveUnit, WriteUnit
  <2> QED
    BY <2>1, <2>2, <2>3, <2>4, <2>5 DEF Next, vars
<1>2. CASE sync'.leaving \subseteq sync.leaving /\ sync'.found \in {sync.found, NoAppt}
  BY <1>2, RowsStay DEF ScriptSawRows, TypeOK, Sync
<1>3. CASE sync' = Off
  BY <1>3 DEF ScriptSawRows, Off
<1>4. CASE Reconcile
  BY <1>4 DEF Reconcile, ScriptSawRows, Live, Standing, Absent
<1>5. ASSUME NEW p \in Person, Find(p)
      PROVE  ScriptSawRows'
  <2>1. row' = row /\ sync'.leaving = {} /\ sync.found = NoAppt
    BY <1>5 DEF Find, TypeOK, Sync
  <2>2. sync'.found = NoAppt \/ (sync'.found \in Appt /\ Standing(row[sync'.found]))
    BY <1>5 DEF Find, TypeOK, Sync, HeldBy
  <2> QED
    BY <2>1, <2>2 DEF ScriptSawRows, Standing, Absent
<1> QED
  BY <1>1, <1>2, <1>3, <1>4, <1>5

LEMMA TurnKept ==
    ASSUME TypeOK, Core, ScriptsTurn, [Next]_vars
    PROVE  ScriptsTurn'
<1> USE IdleType, RosterConstants DEF TypeOK, ScriptsTurn, On
<1>1. ASSUME NEW r \in Req, NEW i \in Appt, NEW c \in Change, Starts(r, "write", i, c),
             UNCHANGED subject, sync'.pc = sync.pc, sync.pc # "done" \/ r # Script
      PROVE  ScriptsTurn'
  BY <1>1 DEF Starts, Goes
<1>2. ASSUME NEW r \in Req, NEW c \in Change, subject = "unit", Starts(r, "unit", NoAppt, c),
             UNCHANGED <<subject, sync>>
      PROVE  ScriptsTurn'
  BY <1>2 DEF Starts, Goes
<1>3. ASSUME NEW r \in Req, Fails(r), UNCHANGED subject
      PROVE  ScriptsTurn'
  BY <1>3 DEF Fails, Goes, Off
<1>4. ASSUME NEW r \in Req, \E then : then.pc \in {"count", "commit"} /\ Goes(r, then),
             ~On(r, "idle"), UNCHANGED <<subject, sync>>
      PROVE  ScriptsTurn'
  BY <1>4 DEF Goes
<1>5. ASSUME UNCHANGED <<subject, req>>, sync'.pc = sync.pc
      PROVE  ScriptsTurn'
  BY <1>5
<1>6. ASSUME NEW r \in Req, NEW i \in Appt, NEW p \in Person, NEW s \in NewAs, Create(r, i, p, s)
      PROVE  ScriptsTurn'
  BY <1>6, <1>1, SetsType DEF Create, Inserts
<1>7. ASSUME NEW r \in Req, NEW i \in Appt, NEW c \in Patches, Edit(r, i, c[1], c[2])
      PROVE  ScriptsTurn'
  BY <1>7, <1>1, SetsType DEF Edit
<1>8. ASSUME NEW r \in Req, NEW i \in Appt, Publish(r, i) \/ Archive(r, i)
      PROVE  ScriptsTurn'
  BY <1>8, <1>1, SetsType DEF Publish, Publishes, Archive, Archives, Status
<1>9. ASSUME NEW r \in Req, Write(r)
      PROVE  ScriptsTurn'
  <2>1. CASE Fails(r)
    BY <1>9, <2>1, <1>3 DEF Write, Fails
  <2>2. CASE ~Fails(r)
    <3> DEFINE then == [req[r] EXCEPT !.pc = "count", !.after = Applied(row[req[r].id], req[r].change)]
    <3>1. Goes(r, then) /\ UNCHANGED <<subject, sync>>
      BY <1>9, <2>2 DEF Write
    <3>2. req[r] \in Request /\ ~On(r, "idle")
      BY <1>9 DEF Write
    <3>3. then.pc = "count"
      BY <3>2 DEF Request
    <3> HIDE DEF then
    <3> QED
      BY <3>1, <3>2, <3>3, <1>4
  <2> QED
    BY <2>1, <2>2
<1>10. ASSUME NEW r \in Req, Count(r)
       PROVE  ScriptsTurn'
  <2>1. CASE Fails(r)
    BY <1>10, <2>1, <1>3 DEF Count, Fails
  <2>2. CASE ~Fails(r)
    <3>1. Goes(r, [req[r] EXCEPT !.pc = "commit"]) /\ UNCHANGED <<subject, sync>>
      BY <1>10, <2>2 DEF Count
    <3>2. req[r] \in Request /\ ~On(r, "idle")
      BY <1>10 DEF Count
    <3> QED
      BY <3>1, <3>2, <1>4 DEF Request
  <2> QED
    BY <2>1, <2>2
<1>11. ASSUME NEW r \in Req, Commit(r)
       PROVE  ScriptsTurn'
  BY <1>11 DEF Commit, Goes, Off, Sync
<1>12. ASSUME NEW r \in Req, Abort(r)
       PROVE  ScriptsTurn'
  BY <1>12, <1>3 DEF Abort, Fails
<1>13. ASSUME NEW r \in Req, NEW s \in Status, EditUnit(r, s)
       PROVE  ScriptsTurn'
  <2>1. ArchivedWith(s) \in {"keep", "set", "clear"}
    BY DEF ArchivedWith
  <2> QED
    BY <1>13, <2>1, <1>2, SetsType DEF EditUnit
<1>14. ASSUME NEW r \in Req, PublishUnit(r) \/ ArchiveUnit(r)
       PROVE  ScriptsTurn'
  BY <1>14, <1>2, SetsType DEF PublishUnit, ArchiveUnit, Status
<1>15. ASSUME NEW r \in Req, WriteUnit(r)
       PROVE  ScriptsTurn'
  BY <1>15 DEF WriteUnit, Goes
<1>16. CASE Reconcile \/ Finish
  BY <1>16 DEF Reconcile, Finish, Working, Sync
<1>17. CASE Kill
  BY <1>17, <1>3 DEF Kill, Fails
<1>18. CASE PublishFound
  <2>1. sync'.pc = sync.pc /\ sync.pc = "run" /\ sync.found \in Appt /\ UNCHANGED subject
    BY <1>18 DEF PublishFound, Sync, Working
  <2> QED
    BY <1>18, <2>1, <1>1, <1>5, SetsType DEF PublishFound, Publishes, Status
<1>19. ASSUME NEW i \in Appt, LetGo(i)
       PROVE  ScriptsTurn'
  <2>1. sync'.pc = sync.pc /\ sync.pc = "run" /\ UNCHANGED subject
    BY <1>19 DEF LetGo, Sync, Working
  <2> QED
    BY <1>19, <2>1, <1>1, <1>5, SetsType DEF LetGo, Archives, Status
<1>20. ASSUME NEW p \in Person, Find(p)
       PROVE  ScriptsTurn'
  <2>1. sync'.pc = sync.pc /\ sync.pc = "run" /\ UNCHANGED subject
    BY <1>20 DEF Find, Sync, Working
  <2>2. CASE UNCHANGED req
    BY <2>1, <2>2, <1>5
  <2>3. ASSUME NEW i \in Appt, Inserts(Script, i, p, "published")
        PROVE  ScriptsTurn'
    BY <2>1, <2>3, <1>1, SetsType DEF Inserts, Status
  <2> QED
    BY <1>20, <2>2, <2>3 DEF Find
<1>21. CASE UNCHANGED vars
  BY <1>21, <1>5 DEF vars
<1> QED
  BY <1>6, <1>7, <1>8, <1>9, <1>10, <1>11, <1>12, <1>13, <1>14, <1>15, <1>16, <1>17, <1>18,
     <1>19, <1>20, <1>21 DEF Next

\* What is said of the run depends on nothing but the table and the script.
LEMMA NothingNew ==
    ASSUME ListInProgress, ListIsInForce, UNCHANGED <<slot, row, sync>>,
           (req'[Script].pc = "idle") <=> (req[Script].pc = "idle"),
           req[Script].pc # "idle" =>
               req'[Script].id = req[Script].id /\ req'[Script].change = req[Script].change
    PROVE  ListInProgress' /\ ListIsInForce'
<1>1. /\ \A i \in Appt : (Leaves(i)' <=> Leaves(i)) /\ (Brings(i)' <=> Brings(i))
      /\ \A p \in slot.wanted : Appoints(p)' <=> Appoints(p)
      /\ On(Script, "idle")' <=> On(Script, "idle")
  BY DEF Leaves, Brings, Appoints, On
<1>2. \A p : HeldBy(p)' = HeldBy(p)
  BY DEF HeldBy, Standing
<1>3. ListIsInForce'
  BY DEF ListIsInForce, Standing
<1>4. ListInProgress'
  BY <1>1, <1>2 DEF ListInProgress, Standing
<1> QED
  BY <1>3, <1>4

\* The script's own commit.
LEMMA ScriptCommits ==
    ASSUME TypeOK, Core, ScriptSawRows, ScriptsTurn, ListInProgress, Commit(Script)
    PROVE  ListInProgress' /\ ListIsInForce'
<1> DEFINE q == req[Script]
<1>1. /\ sync' = sync /\ slot' = slot /\ req'[Script] = Idle
      /\ q.pc = "commit" /\ q.id \in Appt /\ q.after = Applied(row[q.id], q.change)
      /\ \A i \in Appt : row'[i] = IF i = q.id THEN q.after ELSE row[i]
  BY RosterConstants DEF Commit, Goes, On, Core, WritesItsChange, Writing, TypeOK
<1>2. sync.pc # "done"
  BY <1>1 DEF ScriptsTurn, On
<1>3. ListIsInForce'
  BY <1>1, <1>2 DEF ListIsInForce
<1>4. SUFFICES ASSUME sync.pc = "run", ~sync.disturbed
               PROVE  ListInProgress'
  BY <1>1, <1>3 DEF ListInProgress
<1>5. \/ Leaves(q.id) /\ row[q.id].person \notin slot.wanted
      \/ Brings(q.id) /\ Standing(row[q.id]) /\ row[q.id].person \in slot.wanted
      \/ \E p \in slot.wanted : Appoints(p)
  BY <1>1, <1>4 DEF ListInProgress, On, Leaves, Brings
<1>6. /\ row[q.id].person \notin slot.wanted /\ row[q.id] # Absent =>
            ~Standing(row'[q.id]) /\ row'[q.id].person = row[q.id].person
      /\ row[q.id].person \in slot.wanted =>
            /\ row'[q.id].person = row[q.id].person /\ Standing(row[q.id])
            /\ Standing(row'[q.id]) /\ row'[q.id].status = "published"
      /\ row[q.id] = Absent =>
            \E p \in slot.wanted : /\ Appoints(p) /\ row'[q.id].person = p
                                   /\ Standing(row'[q.id]) /\ row'[q.id].status = "published"
  <2>0. NoPerson \notin slot.wanted
    BY RosterConstants DEF TypeOK
  <2>1. CASE Leaves(q.id) /\ row[q.id].person \notin slot.wanted
    <3>1. row[q.id] # Absent
      <4>1. row[q.id] = Absent => q.change.archived = "keep"
        BY <1>1, RosterConstants DEF Core, WritesItsChange
      <4> QED
        BY <2>1, <4>1 DEF Leaves, Sets
    <3>2. q.after.archived /\ q.after.person = row[q.id].person
      BY <1>1, <2>1 DEF Leaves, Sets, Applied
    <3> QED
      BY <1>1, <2>1, <3>1, <3>2 DEF Standing
  <2>2. CASE Brings(q.id) /\ Standing(row[q.id]) /\ row[q.id].person \in slot.wanted
    <3>1. q.after = [person |-> row[q.id].person, status |-> "published", archived |-> FALSE]
      BY <1>1, <2>2 DEF Brings, Sets, Applied
    <3> QED
      BY <1>1, <2>2, <3>1 DEF Standing, Absent
  <2>3. ASSUME NEW p \in slot.wanted, Appoints(p)
        PROVE  row[q.id] = Absent /\ row'[q.id] = [person |-> p, status |-> "published", archived |-> FALSE]
    <3>1. row[q.id] = Absent /\ q.change = Sets(p, "published", "keep") /\ p # NoPerson
      BY <2>0, <2>3 DEF Appoints
    <3>2. q.after = [person |-> p, status |-> "published", archived |-> FALSE]
      BY <1>1, <3>1 DEF Sets, Applied, Absent
    <3> QED
      BY <1>1, <3>1, <3>2
  <2>4. Absent.person \notin slot.wanted /\ ~Standing(Absent)
    BY <2>0 DEF Absent, Standing
  <2>5. ASSUME NEW p \in slot.wanted, Appoints(p)
        PROVE  /\ row[q.id] = Absent /\ row'[q.id].person = p
               /\ Standing(row'[q.id]) /\ row'[q.id].status = "published"
    <3>1. row[q.id] = Absent /\ row'[q.id] = [person |-> p, status |-> "published", archived |-> FALSE]
      BY <2>3, <2>5
    <3>2. Standing([person |-> p, status |-> "published", archived |-> FALSE])
      BY DEF Standing
    <3> QED
      BY <3>1, <3>2
  <2>6. CASE \E p \in slot.wanted : Appoints(p)
    <3>1. row[q.id] = Absent
      BY <2>5, <2>6
    <3>2. row[q.id].person \notin slot.wanted
      BY <2>4, <3>1
    <3> QED
      BY <2>5, <2>6, <3>1, <3>2
  <2> QED
    BY <1>5, <2>1, <2>2, <2>6
<1>7. On(Script, "idle")'
  BY <1>1, IdleType DEF On
<1>8. \A i \in sync.leaving : row'[i].person \notin slot.wanted
  BY <1>1, <1>4, <1>6 DEF ListInProgress, ScriptSawRows, TypeOK, Sync
<1>9. sync.found # NoAppt => Standing(row'[sync.found]) /\ row'[sync.found].person \in slot.wanted
  <2>1. sync.found # NoAppt => sync.found \in Appt
    BY DEF TypeOK, Sync
  <2> QED
    BY <1>1, <1>4, <1>6, <2>1 DEF ListInProgress
<1>10. ASSUME NEW i \in Appt, Standing(row'[i])
       PROVE  \/ row'[i].person \notin slot.wanted /\ i \in sync.leaving
              \/ row'[i].person \in sync.todo
              \/ row'[i].person \in slot.wanted
                 /\ (row'[i].status = "published" \/ sync.found = i)
  <2>1. CASE i # q.id
    BY <1>1, <1>4, <1>10, <2>1 DEF ListInProgress, Leaves, Brings
  <2>2. CASE i = q.id
    BY <1>6, <1>10, <2>2
  <2> QED
    BY <2>1, <2>2
<1>11. ASSUME NEW p \in slot.wanted \ sync.todo
       PROVE  \E i \in Appt : Standing(row'[i]) /\ row'[i].person = p
  <2>1. CASE Appoints(p)
    <3>1. row[q.id] = Absent
      BY <2>1 DEF Appoints
    <3>2. \A z \in slot.wanted : Appoints(z) => z = p
      BY <2>1 DEF Appoints, Sets
    <3> QED
      BY <1>1, <1>6, <3>1, <3>2
  <2>2. CASE ~Appoints(p)
    <3>1. PICK i \in Appt : Standing(row[i]) /\ row[i].person = p
      BY <1>4, <2>2 DEF ListInProgress, HeldBy
    <3>2. CASE i = q.id
      BY <1>6, <3>1, <3>2
    <3>3. CASE i # q.id
      BY <1>1, <3>1, <3>3
    <3> QED
      BY <3>2, <3>3
  <2> QED
    BY <2>1, <2>2
<1>12. \A p \in slot.wanted \ sync.todo : HeldBy(p)' # {}
  BY <1>11 DEF HeldBy, Standing
<1> QED
  BY <1>1, <1>4, <1>7, <1>8, <1>9, <1>10, <1>12 DEF ListInProgress, Standing

\* A request of the script that was idle has just begun.
LEMMA ScriptBegan ==
    ASSUME NEW i \in Appt, NEW c, Starts(Script, "write", i, c), TypeOK
    PROVE  /\ req[Script].pc = "idle" /\ req'[Script].pc = "write"
           /\ req'[Script].id = i /\ req'[Script].change = c
  BY RosterConstants DEF Starts, Goes, On, TypeOK

\* 1. Letting a holder go.
LEMMA LettingGo ==
    ASSUME TypeOK, ScriptSawRows, ListInProgress, NEW i \in Appt, LetGo(i)
    PROVE  ListInProgress' /\ ListIsInForce'
<1>1. /\ sync.pc = "run" /\ req[Script].pc = "idle" /\ i \in sync.leaving
      /\ sync' = [sync EXCEPT !.leaving = @ \ {i}] /\ UNCHANGED <<slot, row>>
      /\ sync'.pc = "run" /\ sync'.leaving = sync.leaving \ {i} /\ sync'.todo = sync.todo
      /\ sync'.found = sync.found /\ sync'.disturbed = sync.disturbed
  BY DEF LetGo, Working, On, TypeOK, Sync
<1>2. ListIsInForce'
  BY <1>1 DEF ListIsInForce
<1>3. SUFFICES ASSUME ~sync.disturbed
               PROVE  ListInProgress'
  BY <1>1, <1>2 DEF ListInProgress
<1>4. /\ sync.todo \subseteq slot.wanted /\ row[i].person \notin slot.wanted
      /\ \A k \in sync.leaving : row[k].person \notin slot.wanted
      /\ sync.found # NoAppt => Standing(row[sync.found]) /\ row[sync.found].person \in slot.wanted
      /\ \A k \in Appt : Standing(row[k]) =>
            \/ row[k].person \notin slot.wanted /\ k \in sync.leaving
            \/ row[k].person \in sync.todo
            \/ row[k].person \in slot.wanted /\ (row[k].status = "published" \/ sync.found = k)
      /\ \A p \in slot.wanted \ sync.todo : HeldBy(p) # {}
  BY <1>1, <1>3 DEF ListInProgress, Leaves, Brings, Appoints, On
<1>5. \A p \in slot.wanted \ sync'.todo : HeldBy(p)' # {}
  BY <1>1, <1>4 DEF HeldBy, Standing
<1>6. CASE row[i].archived /\ UNCHANGED req
  BY <1>1, <1>4, <1>5, <1>6 DEF ListInProgress, Standing, On
<1>7. CASE ~row[i].archived /\ Archives(Script, i)
  <2>1. Leaves(i)' /\ req'[Script].pc = "write"
    BY <1>7, ScriptBegan DEF Archives, Leaves, On
  <2> QED
    BY <1>1, <1>4, <1>5, <2>1 DEF ListInProgress, Standing
<1> QED
  BY <1>6, <1>7 DEF LetGo

\* 2. Looking for a person of the list.
LEMMA Finding ==
    ASSUME TypeOK, Core, ListInProgress, NEW p \in Person, Find(p)
    PROVE  ListInProgress' /\ ListIsInForce'
<1>1. /\ sync.pc = "run" /\ req[Script].pc = "idle" /\ p \in sync.todo
      /\ sync.leaving = {} /\ sync.found = NoAppt /\ UNCHANGED <<slot, row>>
      /\ sync'.pc = "run" /\ sync'.leaving = {} /\ sync'.todo = sync.todo \ {p}
      /\ sync'.disturbed = sync.disturbed
  BY DEF Find, Working, On, TypeOK, Sync
<1>2. ListIsInForce'
  BY <1>1 DEF ListIsInForce
<1>3. SUFFICES ASSUME ~sync.disturbed
               PROVE  ListInProgress'
  BY <1>1, <1>2 DEF ListInProgress
<1>4. /\ sync.todo \subseteq slot.wanted
      /\ \A k \in Appt : Standing(row[k]) =>
            \/ row[k].person \in sync.todo
            \/ row[k].person \in slot.wanted /\ row[k].status = "published"
      /\ \A x \in slot.wanted \ sync.todo : HeldBy(x) # {}
  <2>1. \A k \in Appt : sync.found # k
    BY <1>1, RosterConstants
  <2> QED
    BY <1>1, <1>3, <2>1 DEF ListInProgress, Leaves, Brings, Appoints, On
<1>5. ASSUME NEW i \in HeldBy(p), UNCHANGED req,
             sync'.found = IF row[i].status = "published" THEN NoAppt ELSE i
      PROVE  ListInProgress'
  <2>1. \A k \in Appt : Standing(row[k]) /\ row[k].person = p => k = i
    BY DEF HeldBy, Core, NoClash, Clash
  <2>2. \A x \in slot.wanted \ sync'.todo : HeldBy(x)' # {}
    BY <1>1, <1>4, <1>5 DEF HeldBy, Standing
  <2>3. i \in Appt /\ Standing(row[i]) /\ row[i].person = p /\ p \in slot.wanted
    BY <1>1, <1>4 DEF HeldBy
  <2>4. req'[Script].pc = "idle"
    BY <1>1, <1>5
  <2> QED
    BY <1>1, <1>4, <1>5, <2>1, <2>2, <2>3, <2>4 DEF ListInProgress, Standing, On
<1>6. ASSUME HeldBy(p) = {}, NEW i \in Appt, Inserts(Script, i, p, "published"), sync'.found = NoAppt
      PROVE  ListInProgress'
  <2>1. Appoints(p)'
    BY <1>1, <1>6, ScriptBegan DEF Inserts, Fresh, Appoints, On
  <2>2. \A k \in Appt : Standing(row[k]) => row[k].person # p
    BY <1>6 DEF HeldBy
  <2>3. \A x \in slot.wanted \ sync'.todo : x = p \/ HeldBy(x)' # {}
    BY <1>1, <1>4 DEF HeldBy, Standing
  <2>4. p \in slot.wanted
    BY <1>1, <1>4
  <2> QED
    BY <1>1, <1>4, <1>6, <2>1, <2>2, <2>3, <2>4 DEF ListInProgress, Standing
<1>7. \/ \E i \in HeldBy(p) : UNCHANGED req
           /\ sync'.found = IF row[i].status = "published" THEN NoAppt ELSE i
      \/ HeldBy(p) = {} /\ sync'.found = NoAppt
         /\ \E i \in Appt : Inserts(Script, i, p, "published")
  <2>1. ASSUME NEW i \in HeldBy(p), UNCHANGED req,
               sync' = [sync EXCEPT !.todo = @ \ {p},
                          !.found = IF row[i].status = "published" THEN NoAppt ELSE i]
        PROVE  sync'.found = IF row[i].status = "published" THEN NoAppt ELSE i
    BY <2>1 DEF TypeOK, Sync
  <2>2. ASSUME sync' = [sync EXCEPT !.todo = @ \ {p}]
        PROVE  sync'.found = NoAppt
    BY <1>1, <2>2 DEF TypeOK, Sync
  <2> QED
    BY <2>1, <2>2 DEF Find
<1> QED
  BY <1>5, <1>6, <1>7

LEMMA Publishing ==
    ASSUME TypeOK, ListInProgress, PublishFound
    PROVE  ListInProgress' /\ ListIsInForce'
<1>0. PICK f \in Appt : f = sync.found /\ f # NoAppt
  BY DEF PublishFound, TypeOK, Sync
<1>1. /\ sync.pc = "run" /\ req[Script].pc = "idle"
      /\ UNCHANGED <<slot, row>> /\ sync'.pc = "run" /\ sync'.leaving = sync.leaving
      /\ sync'.todo = sync.todo /\ sync'.found = NoAppt /\ sync'.disturbed = sync.disturbed
  BY DEF PublishFound, Working, On, TypeOK, Sync
<1>2. ListIsInForce'
  BY <1>1 DEF ListIsInForce
<1>3. SUFFICES ASSUME ~sync.disturbed
               PROVE  ListInProgress'
  BY <1>1, <1>2 DEF ListInProgress
<1>4. /\ sync.todo \subseteq slot.wanted /\ Standing(row[f]) /\ row[f].person \in slot.wanted
      /\ \A k \in sync.leaving : row[k].person \notin slot.wanted
      /\ \A k \in Appt : Standing(row[k]) =>
            \/ row[k].person \notin slot.wanted /\ k \in sync.leaving
            \/ row[k].person \in sync.todo
            \/ row[k].person \in slot.wanted /\ (row[k].status = "published" \/ f = k)
      /\ \A p \in slot.wanted \ sync.todo : HeldBy(p) # {}
  BY <1>0, <1>1, <1>3 DEF ListInProgress, Leaves, Brings, Appoints, On
<1>5. \A p \in slot.wanted \ sync'.todo : HeldBy(p)' # {}
  BY <1>1, <1>4 DEF HeldBy, Standing
<1>6. CASE row[f].status = "published" /\ UNCHANGED req
  BY <1>1, <1>4, <1>5, <1>6 DEF ListInProgress, Standing, On
<1>7. CASE Publishes(Script, f)
  <2>1. Brings(f)'
    BY <1>1, <1>7, ScriptBegan DEF Publishes, Brings, On
  <2> QED
    BY <1>1, <1>4, <1>5, <2>1 DEF ListInProgress, Standing
<1> QED
  BY <1>0, <1>6, <1>7 DEF PublishFound

LEMMA BeginAndEnd ==
    ASSUME TypeOK, ListInProgress, Reconcile \/ Finish
    PROVE  ListInProgress' /\ ListIsInForce'
<1>1. CASE Reconcile
  <2>1. /\ req'[Script].pc = "idle" /\ UNCHANGED <<slot, row>> /\ sync'.pc = "run"
        /\ sync'.todo = slot.wanted /\ sync'.found = NoAppt
        /\ sync'.leaving = {i \in Live : row[i].person \notin slot.wanted}
    BY <1>1 DEF Reconcile, On
  <2> QED
    BY <2>1 DEF ListInProgress, ListIsInForce, Live, Standing, On
<1>2. CASE Finish
  <2>1. /\ sync.pc = "run" /\ req[Script].pc = "idle" /\ UNCHANGED <<slot, row>>
        /\ sync.leaving = {} /\ sync.todo = {} /\ sync.found = NoAppt
        /\ sync'.pc = "done" /\ sync'.disturbed = sync.disturbed
    BY <1>2 DEF Finish, Working, On, TypeOK, Sync
  <2>2. ListInProgress'
    BY <2>1 DEF ListInProgress
  <2>3. ASSUME ~sync.disturbed
        PROVE  /\ \A i \in Appt : Standing(row[i]) =>
                      row[i].person \in slot.wanted /\ row[i].status = "published"
               /\ \A p \in slot.wanted : \E i \in Appt : Standing(row[i]) /\ row[i].person = p
    <3>1. \A i \in Appt : sync.found # i
      BY <2>1, RosterConstants
    <3>2. \A p \in slot.wanted : HeldBy(p) # {}
      BY <2>1, <2>3 DEF ListInProgress, Appoints, On
    <3> QED
      BY <2>1, <2>3, <3>1, <3>2 DEF ListInProgress, Leaves, Brings, On, HeldBy
  <2>4. ListIsInForce'
    BY <2>1, <2>3 DEF ListIsInForce, Standing
  <2> QED
    BY <2>2, <2>4
<1> QED
  BY <1>1, <1>2

LEMMA ListStep ==
    ASSUME TypeOK, Core, ScriptSawRows, ScriptsTurn, ListInProgress, ListIsInForce, [Next]_vars
    PROVE  ListInProgress' /\ ListIsInForce'
<1>1. ASSUME NEW r \in Req, r # Script, UNCHANGED <<slot, row, sync>>,
             \E then : Goes(r, then)
      PROVE  ListInProgress' /\ ListIsInForce'
  <2>1. req'[Script] = req[Script]
    BY <1>1, RosterConstants DEF Goes, TypeOK
  <2> QED
    BY <1>1, <2>1, NothingNew
<1>2. ASSUME sync' = Off
      PROVE  ListInProgress' /\ ListIsInForce'
  BY <1>2 DEF ListInProgress, ListIsInForce, Off
<1>3. ASSUME NEW r \in Req, Fails(r)
      PROVE  ListInProgress' /\ ListIsInForce'
  BY <1>1, <1>2, <1>3 DEF Fails
<1>4. ASSUME NEW r \in Req, NEW i \in Appt,
             \/ \E p \in Person, s \in NewAs : Create(r, i, p, s)
             \/ \E c \in Patches : Edit(r, i, c[1], c[2])
             \/ Publish(r, i) \/ Archive(r, i)
      PROVE  ListInProgress' /\ ListIsInForce'
  BY <1>1, <1>4 DEF Create, Edit, Publish, Archive, Inserts, Publishes, Archives, Starts
<1>5. ASSUME NEW r \in Req, Write(r) \/ Count(r)
      PROVE  ListInProgress' /\ ListIsInForce'
  <2>1. CASE Fails(r)
    BY <2>1, <1>3
  <2>2. CASE ~Fails(r)
    <3>1. UNCHANGED <<slot, row, sync>>
      BY <1>5, <2>2 DEF Write, Count
    <3>2. CASE r # Script
      BY <1>1, <1>5, <2>2, <3>1, <3>2 DEF Write, Count
    <3>3. CASE r = Script
      <4>1. /\ req[r] \in Request /\ req[r].pc # "idle" /\ req'[r].pc # "idle"
            /\ req'[r].id = req[r].id /\ req'[r].change = req[r].change
        <5>1. req[r] \in Request
          BY DEF TypeOK
        <5>2. CASE Write(r)
          <6>1. req' = [req EXCEPT ![r] = [req[r] EXCEPT !.pc = "count",
                                             !.after = Applied(row[req[r].id], req[r].change)]]
            BY <2>2, <5>2 DEF Write, Goes
          <6> QED
            BY <5>1, <5>2, <6>1 DEF TypeOK, Request, Write, On
        <5>3. CASE Count(r)
          <6>1. req' = [req EXCEPT ![r] = [req[r] EXCEPT !.pc = "commit"]]
            BY <2>2, <5>3 DEF Count, Goes
          <6> QED
            BY <5>1, <5>3, <6>1 DEF TypeOK, Request, Count, On
        <5> QED
          BY <1>5, <5>1, <5>2, <5>3
      <4> QED
        BY <3>1, <3>3, <4>1, NothingNew
    <3> QED
      BY <3>2, <3>3
  <2> QED
    BY <2>1, <2>2
<1>6. ASSUME NEW r \in Req, Commit(r)
      PROVE  ListInProgress' /\ ListIsInForce'
  <2>1. CASE r = Script
    BY <1>6, <2>1, ScriptCommits
  <2>2. CASE r # Script /\ sync.pc = "run"
    BY <1>6, <2>2 DEF Commit, ListInProgress, ListIsInForce, TypeOK, Sync
  <2>3. CASE r # Script /\ sync.pc # "run"
    BY <1>6, <2>3, <1>2 DEF Commit
  <2> QED
    BY <2>1, <2>2, <2>3
<1>7. ASSUME NEW r \in Req, Abort(r)
      PROVE  ListInProgress' /\ ListIsInForce'
  BY <1>3, <1>7 DEF Abort
<1>8. ASSUME NEW r \in Req, \/ \E s \in Status : EditUnit(r, s)
                           \/ PublishUnit(r) \/ ArchiveUnit(r) \/ WriteUnit(r)
      PROVE  ListInProgress' /\ ListIsInForce'
  <2>1. sync.pc = "off" /\ sync' = sync
    BY <1>8 DEF EditUnit, PublishUnit, ArchiveUnit, WriteUnit, ScriptsTurn
  <2> QED
    BY <2>1 DEF ListInProgress, ListIsInForce
<1>9. CASE Kill
  BY <1>3, <1>9, RosterConstants DEF Kill
<1>10. CASE UNCHANGED vars
  BY <1>10, NothingNew DEF vars
<1> QED
  BY <1>4, <1>5, <1>6, <1>7, <1>8, <1>9, <1>10, LettingGo, Finding, Publishing, BeginAndEnd DEF Next

-----------------------------------------------------------------------------
(* The theorems *)

LEMMA Start == Init => IInv /\ ListIsInForce
<1> SUFFICES ASSUME Init PROVE IInv /\ ListIsInForce
  OBVIOUS
<1>1. TypeOK
  BY IdleType, RosterConstants DEF Init, TypeOK, Off, Sync, Status
<1>2. \A r \in Req : req[r].pc = "idle"
  BY IdleType DEF Init
<1>3. RowsLocked /\ WritesItsChange /\ CountHolds /\ EditAgrees /\ ScriptSawRows /\ ScriptsTurn
      /\ ListInProgress /\ ListIsInForce
  BY <1>2 DEF Init, RowsLocked, WritesItsChange, CountHolds, EditAgrees, ScriptSawRows, ScriptsTurn,
       ListInProgress, ListIsInForce, Off, Writing, On
<1>4. NoClash
  BY <1>2 DEF Init, Lawful, NoClash, Writing
<1> QED
  BY <1>1, <1>3, <1>4 DEF IInv

LEMMA Step == IInv /\ ListIsInForce /\ [Next]_vars => IInv' /\ ListIsInForce'
<1> SUFFICES ASSUME IInv, ListIsInForce, [Next]_vars PROVE IInv' /\ ListIsInForce'
  OBVIOUS
<1>1. TypeOK /\ Core /\ ScriptSawRows /\ ScriptsTurn /\ ListInProgress
  BY DEF IInv, Core
<1>2. TypeOK' /\ Core'
  BY <1>1, CoreStep
<1>3. ScriptSawRows' /\ ScriptsTurn'
  BY <1>1, ScriptSees, TurnKept
<1>4. ListInProgress' /\ ListIsInForce'
  BY <1>1, ListStep
<1> QED
  BY <1>2, <1>3, <1>4 DEF IInv, Core

\* Whatever requests and script do at the same time, no person holds a position
\* twice and a singleton position has one holder: createAppointment,
\* editAppointment, publishAppointment and the two unique indexes.
THEOREM Invariance == Spec => []IInv
<1>1. IInv /\ ListIsInForce /\ [Next]_vars => (IInv /\ ListIsInForce)'
  BY Step
<1> QED
  BY <1>1, Start, PTL DEF Spec

\* An undisturbed run of scripts/sync-roster.mjs leaves the list in force.
THEOREM ScriptConverges == Spec => []ListIsInForce
<1>1. IInv /\ ListIsInForce /\ [Next]_vars => (IInv /\ ListIsInForce)'
  BY Step
<1> QED
  BY <1>1, Start, PTL DEF Spec

\* The step that takes more holders than the position allows is a commit that
\* another commit came before, after its deferred count.
THEOREM OverLimitIsARace == Spec => OverLimitByRaceOnly
<1>1. ASSUME IInv, [Next]_vars, row' # row
      PROVE  \/ Allowed(Holders')
             \/ \E r \in overtaken : On(r, "commit") /\ ~On(r, "commit")'
  <2>1. PICK r \in Req : Commit(r)
    BY <1>1 DEF Next, vars, Create, Edit, Publish, Archive, Write, Count, Abort, Fails, EditUnit,
         PublishUnit, ArchiveUnit, WriteUnit, Reconcile, Finish, PublishFound, Kill, LetGo, Find
  <2>2. On(r, "commit") /\ ~On(r, "commit")'
    BY <1>1, <2>1, IdleType DEF Commit, On, Goes, IInv, TypeOK
  <2>3. CASE r \notin overtaken
    <3>1. Allowed(HoldersWith(req[r].id, req[r].after))
      BY <1>1, <2>2, <2>3 DEF IInv, CountHolds
    <3>2. Holders' = HoldersWith(req[r].id, req[r].after)
      BY <1>1, <2>1 DEF Holders, HoldersWith, Commit, Active, Standing, IInv, TypeOK
    <3> QED
      BY <3>1, <3>2
  <2> QED
    BY <2>2, <2>3
<1>2. IInv /\ [Next]_vars =>
        [row' # row => \/ Allowed(Holders')
                       \/ \E r \in overtaken : On(r, "commit") /\ ~On(r, "commit")']_vars
  BY <1>1
<1> QED
  BY <1>2, Invariance, PTL DEF Spec, OverLimitByRaceOnly

\* The two archive marks of a unit drift apart by a race of two edits only.
THEOREM UnitDriftIsARace == Spec => UnitDriftsByRaceOnly
<1>1. ASSUME IInv, [Next]_vars, Agrees(unit), ~Agrees(unit')
      PROVE  \E r \in overtaken : On(r, "unit") /\ ~On(r, "unit")'
  <2>1. PICK r \in Req : WriteUnit(r)
    BY <1>1 DEF Next, vars, Create, Edit, Publish, Archive, Write, Count, Commit, Abort, Fails,
         EditUnit, PublishUnit, ArchiveUnit, Reconcile, Finish, PublishFound, Kill, LetGo, Find
  <2>2. On(r, "unit") /\ ~On(r, "unit")'
    BY <1>1, <2>1, IdleType DEF WriteUnit, On, Goes, IInv, TypeOK
  <2>3. r \in overtaken
    BY <1>1, <2>1, <2>2 DEF IInv, EditAgrees, WriteUnit
  <2> QED
    BY <2>2, <2>3
<1>2. IInv /\ [Next]_vars =>
        [Agrees(unit) => \/ Agrees(unit')
                         \/ \E r \in overtaken : On(r, "unit") /\ ~On(r, "unit")']_vars
  BY <1>1
<1> QED
  BY <1>2, Invariance, PTL DEF Spec, UnitDriftsByRaceOnly
=============================================================================
