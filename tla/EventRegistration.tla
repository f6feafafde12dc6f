------------------------- MODULE EventRegistration -------------------------
(***************************************************************************)
(* Registrations of members for ONE event, with its capacity, its waitlist *)
(* and the live counts board (lib/events/registration.mjs and              *)
(* lib/events/settings.mjs over PostgreSQL at READ COMMITTED).             *)
(*                                                                         *)
(* Every request runs as a sequence of database statements, and the        *)
(* statements of different requests interleave.  A request reads outside   *)
(* its transaction, then writes inside one: what it read may be old by     *)
(* then.  An uncommitted write is visible to its own request only, and     *)
(* locks the row it touches.                                               *)
(***************************************************************************)
EXTENDS Integers, FiniteSets

CONSTANTS
    Req,        \* the requests the server processes at the same time
    User,       \* the accounts that register
    NoUser,     \* the owner of a row not inserted yet
    MaxRows,    \* bound: how many rows are ever inserted
    Caps,       \* the capacities an organizer enters
    InitCap,    \* the capacity the event starts with
    Ops,        \* the operations a run exercises
    Faults      \* TRUE: requests may fail, and a commit's answer may be lost

Unlimited == -1     \* a NULL capacity

AllOps == {"register", "cancel", "add", "setStatus", "remove", "settings"}

ASSUME ConstantsAssumption ==
    /\ IsFiniteSet(Req)
    /\ NoUser \notin User
    /\ MaxRows \in Nat
    /\ Caps \subseteq Nat \cup {Unlimited}
    /\ InitCap \in Nat \cup {Unlimited}
    /\ Ops \subseteq AllOps
    /\ Faults \in BOOLEAN

RowId == 1..MaxRows
Active == {"confirmed", "waitlisted"}
Status == {"absent", "cancelled"} \cup Active

VARIABLES
    reg,     \* reg[i]: the committed status of row i ("absent": no such row)
    owner,   \* owner[i]: the account row i belongs to
    last,    \* the last row inserted: rows are numbered as registered_at orders them
    cap,     \* event_settings.capacity
    pend,    \* pend[q][i]: the uncommitted status q wrote to row i, or "same"
    req,     \* req[q]: where request q is and what it has read so far
    board,   \* the counts last published to the event's live channel
    stale    \* history: requests whose capacity check another commit overtook

vars == <<reg, owner, last, cap, pend, req, board, stale>>

Counts == [confirmed : 0..MaxRows, waitlisted : 0..MaxRows]
NoCounts == [confirmed |-> 0, waitlisted |-> 0]

PCs == {"idle", "find", "count", "insert", "write", "readCap", "seats",
        "pick", "guard", "commit", "counts", "announce"}

Request == [pc : PCs, op : AllOps \cup {"none"}, user : User \cup {NoUser},
            row : 0..MaxRows, to : Status, frees : BOOLEAN,
            seenCap : Nat \cup {Unlimited}, room : Int, tally : Counts]

Idle == [pc |-> "idle", op |-> "none", user |-> NoUser, row |-> 0,
         to |-> "absent", frees |-> FALSE, seenCap |-> Unlimited,
         room |-> 0, tally |-> NoCounts]

Untouched == [i \in RowId |-> "same"]

Init ==
    /\ reg = [i \in RowId |-> "absent"]
    /\ owner = [i \in RowId |-> NoUser]
    /\ last = 0
    /\ cap = InitCap
    /\ pend = [q \in Req |-> Untouched]
    /\ req = [q \in Req |-> Idle]
    /\ board = NoCounts
    /\ stale = {}

-----------------------------------------------------------------------------
(* What a statement sees and what it waits for *)

\* The table as request q sees it: the committed rows under its own writes.
SeenBy(q) ==
    [i \in RowId |-> IF pend[q][i] = "same" THEN reg[i] ELSE pend[q][i]]

With(table, status) == {i \in RowId : table[i] = status}

\* A row with an uncommitted write of another transaction is locked.
LockedByOther(q, i) == \E p \in Req \ {q} : pend[p][i] # "same"

\* The row i counts, or may come to count, for the partial unique index.
PossiblyActive(i) ==
    reg[i] \in Active \/ \E p \in Req : pend[p][i] \in Active

\* Another row of account u the unique index must compare row i with.
Rivals(u, i) == {j \in RowId \ {i} : owner[j] = u /\ PossiblyActive(j)}

\* event_registration_active_uq makes a statement wait while a rival row is
\* being written by another transaction.
UniqueWait(q, u, i) == \E j \in Rivals(u, i) : LockedByOther(q, j)

\* Mutant: the partial unique index is missing.
NoUniqueIndex(u, i) == FALSE

\* It rejects the statement once a rival is active.
UniqueViolation(u, i) == \E j \in Rivals(u, i) : reg[j] \in Active

\* registrationOutcome: the status a new registration gets.
Outcome(confirmed, capacity) ==
    IF capacity = Unlimited \/ confirmed < capacity
    THEN "confirmed" ELSE "waitlisted"

\* A status change away from "confirmed" frees a seat, judged by the status
\* that was read before the transaction began.
FreesSeat(old, new) == old = "confirmed" /\ new # "confirmed"

\* Mutant: the promotion query does not skip locked rows.
CandidatesUnlocked(q) ==
    {i \in With(SeenBy(q), "waitlisted") : i # req[q].row}

\* Waitlisted rows the promotion query of q can take: not the row q itself
\* changed, and none that is locked (FOR UPDATE SKIP LOCKED).
Candidates(q) ==
    {i \in With(SeenBy(q), "waitlisted") :
        i # req[q].row /\ ~LockedByOther(q, i)}

\* Mutant: the promotion query sorts the wrong way.
LatestFirst(S, n) == {i \in S : Cardinality({j \in S : j > i}) < n}

\* The first n of a set of rows, in the order of registration.
Earliest(S, n) == {i \in S : Cardinality({j \in S : j < i}) < n}

\* How many waitlisted rows a promotion takes when confirmed < capacity.
Room(q, confirmed) ==
    IF req[q].op = "settings" THEN req[q].seenCap - confirmed ELSE 1

\* The rows the promotion of q confirms; no capacity, no limit.
Promoted(q) ==
    IF req[q].room = Unlimited THEN Candidates(q)
    ELSE Earliest(Candidates(q), req[q].room)

Confirming(q) == \E i \in RowId : pend[q][i] = "confirmed"

\* Mutant: the trigger lets one registration too many pass.
GuardRejectsLate(q) ==
    /\ Confirming(q)
    /\ cap # Unlimited
    /\ Cardinality(With(SeenBy(q), "confirmed")) > cap + 1

\* The deferred trigger event_registration_capacity_guard rejects q's commit.
GuardRejects(q) ==
    /\ Confirming(q)
    /\ cap # Unlimited
    /\ Cardinality(With(SeenBy(q), "confirmed")) > cap

CountsOf(table) ==
    [confirmed |-> Cardinality(With(table, "confirmed")),
     waitlisted |-> Cardinality(With(table, "waitlisted"))]

-----------------------------------------------------------------------------
(* Requests *)

At(q, pc) == req[q].pc = pc
Goto(q, pc) == req' = [req EXCEPT ![q].pc = pc]
Answer(q) == req' = [req EXCEPT ![q] = Idle]

\* Mutant: the transaction ends without releasing its locks.
RollbackKeepsLocks(q) == UNCHANGED pend

Rollback(q) == pend' = [pend EXCEPT ![q] = Untouched]

\* registerForEvent: the gates pass (a refusal changes nothing) and the
\* settings are read, the capacity with them.
Register(q, u) ==
    /\ "register" \in Ops
    /\ At(q, "idle")
    /\ req' = [req EXCEPT ![q] = [Idle EXCEPT !.pc = "find", !.op = "register",
                                              !.user = u, !.seenCap = cap]]
    /\ UNCHANGED <<reg, owner, last, cap, pend, board, stale>>

\* An active registration is returned as it is.
FindActive(q) ==
    /\ At(q, "find")
    /\ IF \E i \in RowId : owner[i] = req[q].user /\ reg[i] \in Active
       THEN Answer(q)
       ELSE Goto(q, "count")
    /\ UNCHANGED <<reg, owner, last, cap, pend, board, stale>>

\* Confirmed or waitlisted, by the confirmed rows counted now and the
\* capacity read before.
CountConfirmed(q) ==
    /\ At(q, "count")
    /\ LET confirmed == Cardinality(With(reg, "confirmed"))
       IN  req' = [req EXCEPT ![q] =
                      [@ EXCEPT !.pc = "insert",
                                !.to = Outcome(confirmed, req[q].seenCap)]]
    /\ UNCHANGED <<reg, owner, last, cap, pend, board, stale>>

\* addRegistration: the organizer chooses the status; only a member without
\* an active registration goes further.
Add(q, u, status) ==
    /\ "add" \in Ops
    /\ At(q, "idle")
    /\ \A i \in RowId : owner[i] = u => reg[i] \notin Active
    /\ req' = [req EXCEPT ![q] = [Idle EXCEPT !.pc = "insert", !.op = "add",
                                              !.user = u, !.to = status]]
    /\ UNCHANGED <<reg, owner, last, cap, pend, board, stale>>

\* cancelRegistration: the member's active row is read outside the
\* transaction, and so is whether it holds a seat.
Cancel(q, u) ==
    /\ "cancel" \in Ops
    /\ At(q, "idle")
    /\ \E i \in RowId :
        /\ owner[i] = u
        /\ reg[i] \in Active
        /\ req' = [req EXCEPT ![q] =
                    [Idle EXCEPT !.pc = "write", !.op = "cancel", !.user = u,
                                 !.row = i, !.to = "cancelled",
                                 !.frees = FreesSeat(reg[i], "cancelled")]]
    /\ UNCHANGED <<reg, owner, last, cap, pend, board, stale>>

\* setRegistrationStatus: an organizer moves a row to another status.
SetStatus(q, i, status) ==
    /\ "setStatus" \in Ops
    /\ At(q, "idle")
    /\ reg[i] \notin {"absent", status}
    /\ req' = [req EXCEPT ![q] =
                [Idle EXCEPT !.pc = "write", !.op = "setStatus", !.row = i,
                             !.to = status, !.frees = FreesSeat(reg[i], status)]]
    /\ UNCHANGED <<reg, owner, last, cap, pend, board, stale>>

\* removeRegistration: an organizer deletes a row.
Remove(q, i) ==
    /\ "remove" \in Ops
    /\ At(q, "idle")
    /\ reg[i] # "absent"
    /\ req' = [req EXCEPT ![q] =
                [Idle EXCEPT !.pc = "write", !.op = "remove", !.row = i,
                             !.frees = FreesSeat(reg[i], "absent")]]
    /\ UNCHANGED <<reg, owner, last, cap, pend, board, stale>>

\* upsertEventSettings: the capacity is saved by a transaction of its own,
\* the promotion it calls runs in the next one.
SaveSettings(q, c) ==
    /\ "settings" \in Ops
    /\ At(q, "idle")
    /\ cap' = c
    /\ stale' = {p \in Req : At(p, "commit")}
    /\ req' = [req EXCEPT ![q] = [Idle EXCEPT !.pc = "readCap", !.op = "settings"]]
    /\ UNCHANGED <<reg, owner, last, pend, board>>

-----------------------------------------------------------------------------
(* Transactions *)

\* INSERT of a registration.  It waits for, or is rejected by, another row of
\* the account; a table of MaxRows rows (the model's bound) rejects it too.
Insert(q) ==
    LET u == req[q].user
        i == last + 1
    IN  /\ At(q, "insert")
        /\ ~UniqueWait(q, u, 0)
        /\ IF UniqueViolation(u, 0) \/ last = MaxRows
           THEN /\ Answer(q)
                /\ UNCHANGED <<owner, last, pend>>
           ELSE /\ last' = i
                /\ owner' = [owner EXCEPT ![i] = u]
                /\ pend' = [pend EXCEPT ![q][i] = req[q].to]
                /\ req' = [req EXCEPT ![q] = [@ EXCEPT !.pc = "guard",
                                                       !.row = i]]
        /\ UNCHANGED <<reg, cap, board, stale>>

\* The first UPDATE or DELETE of cancel, setStatus and remove.  It waits for
\* the row, fails when the row is gone or the unique index rejects it, and
\* writes whatever the row has become since it was read.
Write(q) ==
    LET i == req[q].row
        revives == req[q].to \in Active /\ reg[i] \notin Active
    IN  /\ At(q, "write")
        /\ ~LockedByOther(q, i)
        /\ revives => ~UniqueWait(q, owner[i], i)
        /\ IF reg[i] = "absent" \/ (revives /\ UniqueViolation(owner[i], i))
           THEN /\ Answer(q)
                /\ UNCHANGED pend
           ELSE /\ pend' = [pend EXCEPT ![q][i] = req[q].to]
                /\ Goto(q, IF req[q].frees THEN "readCap" ELSE "guard")
        /\ UNCHANGED <<reg, owner, last, cap, board, stale>>

\* promoteEarliestWaitlisted and promoteWaitlistForCapacity read the capacity.
\* Without one, the first has nobody to promote and the second promotes all.
ReadCapacity(q) ==
    /\ At(q, "readCap")
    /\ req' = [req EXCEPT ![q] =
                  [@ EXCEPT !.seenCap = cap,
                            !.pc = IF cap # Unlimited THEN "seats"
                                  ELSE IF req[q].op = "settings" THEN "pick"
                                  ELSE "guard",
                            !.room = Unlimited]]
    /\ UNCHANGED <<reg, owner, last, cap, pend, board, stale>>

\* Mutant: the seats are counted without the request's own write.
CountSeatsBeforeWrite(q) ==
    LET confirmed == Cardinality(With(reg, "confirmed"))
    IN  /\ At(q, "seats")
        /\ IF confirmed >= req[q].seenCap
           THEN Goto(q, "guard")
           ELSE req' = [req EXCEPT ![q] = [@ EXCEPT !.pc = "pick",
                                                    !.room = Room(q, confirmed)]]
        /\ UNCHANGED <<reg, owner, last, cap, pend, board, stale>>

\* Then they count the confirmed rows, and stop when the event is full.
CountSeats(q) ==
    LET confirmed == Cardinality(With(SeenBy(q), "confirmed"))
    IN  /\ At(q, "seats")
        /\ IF confirmed >= req[q].seenCap
           THEN Goto(q, "guard")
           ELSE req' = [req EXCEPT ![q] = [@ EXCEPT !.pc = "pick",
                                                    !.room = Room(q, confirmed)]]
        /\ UNCHANGED <<reg, owner, last, cap, pend, board, stale>>

\* The earliest candidates are locked and confirmed.
Promote(q) ==
    /\ At(q, "pick")
    /\ pend' = [pend EXCEPT ![q] =
                 [i \in RowId |-> IF i \in Promoted(q) THEN "confirmed"
                                  ELSE pend[q][i]]]
    /\ Goto(q, "guard")
    /\ UNCHANGED <<reg, owner, last, cap, board, stale>>

\* The deferred trigger runs at COMMIT.  A member whose confirmed insert it
\* rejects is put on the waitlist instead; any other request fails.
Guard(q) ==
    /\ At(q, "guard")
    /\ IF ~GuardRejects(q)
       THEN Goto(q, "commit") /\ UNCHANGED pend
       ELSE /\ Rollback(q)
            /\ IF req[q].op = "register"
               THEN req' = [req EXCEPT ![q] = [@ EXCEPT !.pc = "insert",
                                                        !.to = "waitlisted"]]
               ELSE Answer(q)
    /\ UNCHANGED <<reg, owner, last, cap, board, stale>>

\* q's writes become visible and its locks are released.
Publish(q) ==
    /\ reg' = SeenBy(q)
    /\ Rollback(q)
    /\ stale' = {p \in Req \ {q} : At(p, "commit")}
    /\ UNCHANGED <<owner, last, cap, board>>

\* Mutant: a removal does not publish the counts either.
CommitSilentRemoval(q) ==
    /\ At(q, "commit")
    /\ Publish(q)
    /\ IF req[q].op \in {"settings", "remove"} THEN Answer(q) ELSE Goto(q, "counts")

\* A settings save answers without refreshing the live board.
Commit(q) ==
    /\ At(q, "commit")
    /\ Publish(q)
    /\ IF req[q].op = "settings" THEN Answer(q) ELSE Goto(q, "counts")

\* The commit's answer is lost with the connection, and the client extension
\* of lib/prisma.mjs runs the single-statement create again.
CommitAnswerLost(q) ==
    /\ Faults
    /\ At(q, "commit")
    /\ req[q].op = "register"
    /\ Publish(q)
    /\ Goto(q, "insert")

\* publishRegistrationCounts: fresh counts are read, then published.
ReadCounts(q) ==
    /\ At(q, "counts")
    /\ req' = [req EXCEPT ![q] = [@ EXCEPT !.pc = "announce",
                                           !.tally = CountsOf(reg)]]
    /\ UNCHANGED <<reg, owner, last, cap, pend, board, stale>>

Announce(q) ==
    /\ At(q, "announce")
    /\ board' = req[q].tally
    /\ Answer(q)
    /\ UNCHANGED <<reg, owner, last, cap, pend, stale>>

\* The process, the connection or the transaction's time limit gives out: an
\* open transaction rolls back, and nothing after it runs.
Fail(q) ==
    /\ Faults
    /\ ~At(q, "idle")
    /\ Rollback(q)
    /\ Answer(q)
    /\ stale' = stale \ {q}
    /\ UNCHANGED <<reg, owner, last, cap, board>>

-----------------------------------------------------------------------------

\* A request reaches the server.
Begin(q) ==
    \/ \E u \in User : Register(q, u)
    \/ \E u \in User : Cancel(q, u)
    \/ \E u \in User, s \in Active : Add(q, u, s)
    \/ \E i \in RowId, s \in Active \cup {"cancelled"} : SetStatus(q, i, s)
    \/ \E i \in RowId : Remove(q, i)
    \/ \E c \in Caps : SaveSettings(q, c)

\* The next statement of a request in progress.
Step(q) ==
    \/ FindActive(q)
    \/ CountConfirmed(q)
    \/ Insert(q)
    \/ Write(q)
    \/ ReadCapacity(q)
    \/ CountSeats(q)
    \/ Promote(q)
    \/ Guard(q)
    \/ Commit(q)
    \/ ReadCounts(q)
    \/ Announce(q)

Next == \E q \in Req : Begin(q) \/ Step(q) \/ CommitAnswerLost(q) \/ Fail(q)

Spec == Init /\ [][Next]_vars

\* A request that can go on does: the server runs it to its end.  The two
\* statements that wait for another transaction are granted their turn, since
\* PostgreSQL queues the waiters of a lock in order of arrival.
Fairness ==
    \A q \in Req : WF_vars(Step(q)) /\ SF_vars(Insert(q)) /\ SF_vars(Write(q))

FairSpec == Spec /\ Fairness

-----------------------------------------------------------------------------
(* Invariants *)

\* Every variable keeps its type; pend only holds statuses a request writes.
TypeOK ==
    /\ reg \in [RowId -> Status]
    /\ owner \in [RowId -> User \cup {NoUser}]
    /\ last \in 0..MaxRows
    /\ cap \in Nat \cup {Unlimited}
    /\ pend \in [Req -> [RowId -> Status \cup {"same"}]]
    /\ req \in [Req -> Request]
    /\ board \in Counts
    /\ stale \subseteq Req

\* An account never holds two active registrations for the event, although
\* registerForEvent and addRegistration look for one outside the transaction
\* that inserts, and setRegistrationStatus can revive a cancelled row.
OneActivePerUser ==
    \A i, j \in RowId :
        i # j /\ reg[i] \in Active /\ reg[j] \in Active => owner[i] # owner[j]

\* Two transactions never hold an uncommitted write of the same row, so a
\* promotion cannot overwrite a cancellation that is about to commit.
RowsLocked ==
    \A p, q \in Req, i \in RowId :
        pend[p][i] # "same" /\ pend[q][i] # "same" => p = q

\* Where a request has no transaction open: it holds no lock.
OutsideTx == {"idle", "find", "count", "insert", "write", "counts", "announce"}

NoLocksOutsideTx == \A q \in Req : req[q].pc \in OutsideTx => pend[q] = Untouched

\* Rows not inserted yet are untouched, and no request names one.
FreshRows ==
    /\ \A q \in Req : req[q].row <= last
    /\ \A i \in RowId : i > last =>
         reg[i] = "absent" /\ \A q \in Req : pend[q][i] = "same"

\* OneActivePerUser with the writes about to commit.
OnePossiblyActive ==
    \A i, j \in RowId :
        i # j /\ PossiblyActive(i) /\ PossiblyActive(j) => owner[i] # owner[j]

\* Besides its own row, a transaction only confirms rows, and each of them is
\* still waiting when the transaction commits.
OnlyWaitingConfirmed ==
    \A q \in Req, i \in RowId :
        pend[q][i] # "same" /\ i # req[q].row
        => pend[q][i] = "confirmed" /\ reg[i] = "waitlisted"

\* A capacity check nothing overtook still describes what the commit will do.
CheckHolds ==
    \A q \in Req \ stale :
        At(q, "commit") /\ Confirming(q) /\ cap # Unlimited
        => Cardinality(With(SeenBy(q), "confirmed")) <= cap

\* What request r with the uncommitted writes w may still promote: nobody
\* before it has picked, then one row for the seat it gave up.  Only a settings
\* save, which has no row of its own, promotes more.
HandsOnOneSeat(r, w) ==
    /\ r.pc \in {"readCap", "seats", "pick"} =>
         \A i \in RowId : w[i] # "same" => i = r.row
    /\ r.pc \in {"find", "count", "insert"} => r.op # "settings"
    /\ r.op = "settings" => r.row = 0
    /\ r.op # "settings" =>
         /\ r.pc = "pick" => r.room = 1
         /\ \A i, j \in RowId \ {r.row} : w[i] # "same" /\ w[j] # "same" => i = j

PromotesInMeasure == \A q \in Req : HandsOnOneSeat(req[q], pend[q])

\* What the locks, the unique index and the trigger keep up together.
TransactionsApart ==
    /\ TypeOK
    /\ RowsLocked
    /\ NoLocksOutsideTx
    /\ FreshRows
    /\ OnePossiblyActive
    /\ OnlyWaitingConfirmed
    /\ CheckHolds

\* The inductive invariant: what the proofs need to carry from step to step.
IInv == TransactionsApart /\ PromotesInMeasure

Waiting == With(reg, "waitlisted")
Seated == With(reg, "confirmed")

Full(seats) == cap # Unlimited /\ Cardinality(seats) >= cap

\* The seats and the waitlist as request q leaves them when it commits.
SeatsAfter(q) == With(SeenBy(q), "confirmed")
WaitingAfter(q) == With(SeenBy(q), "waitlisted")

\* What a request that is alone has read is still so: which operations get
\* where, which of them may free a seat, and what a promotion goes by.
ReadsHold(q) ==
    /\ req[q].pc \in {"find", "count", "insert"} => req[q].op \in {"register", "add"}
    /\ At(q, "write") \/ req[q].frees => req[q].op \in {"cancel", "setStatus", "remove"}
    /\ At(q, "seats") => cap # Unlimited /\ req[q].seenCap = cap
    /\ At(q, "pick") =>
         IF cap = Unlimited THEN req[q].room = Unlimited
         ELSE /\ req[q].room > 0
              /\ req[q].op = "settings"
                 => req[q].room = cap - Cardinality(SeatsAfter(q))
    /\ At(q, "announce") => req[q].tally = CountsOf(reg)

\* ... so that it promotes the earliest, as many as it should.
PromotesInOrder(q) ==
    \A i \in RowId, j \in WaitingAfter(q) :
        pend[q][i] = "confirmed" /\ i # req[q].row => j > i \/ j = req[q].row

PromotesEnough(q) ==
    /\ req[q].frees /\ cap # Unlimited =>
         \/ Cardinality(SeatsAfter(q)) >= Cardinality(Seated)
         \/ Full(SeatsAfter(q))
         \/ WaitingAfter(q) \subseteq {req[q].row}
    /\ req[q].op = "settings" => Full(SeatsAfter(q)) \/ WaitingAfter(q) = {}

\* With IInv, what one request at a time keeps up.
AloneInv ==
    \A q \in Req :
        /\ ReadsHold(q)
        /\ req[q].pc \in {"guard", "commit"} => PromotesInOrder(q) /\ PromotesEnough(q)

\* What the comment of event_registration_capacity_guard promises: confirmed
\* registrations never exceed the capacity.
CapacityNeverExceeded == cap # Unlimited => Cardinality(Seated) <= cap

-----------------------------------------------------------------------------
(* Action properties *)

Commits(q) == At(q, "commit") /\ reg' = SeenBy(q) /\ ~At(q, "commit")'

\* The number of confirmed registrations grows past the capacity only when
\* another commit, or a change of capacity, came between a transaction's
\* capacity check and its own commit: the check itself never lets it.
OversoldOnlyByRace ==
    [][ (/\ Cardinality(Seated') > Cardinality(Seated)
         /\ cap' # Unlimited
         /\ Cardinality(Seated') > cap')
        => \E q \in stale : Commits(q) ]_vars

\* A row that was not waiting becomes confirmed only by the request that
\* inserted it or whose organizer named it: a promotion never revives a
\* registration that was cancelled or removed meanwhile.
PromotesOnlyWaiting ==
    [][ \A i \in RowId :
          reg[i] \in {"absent", "cancelled"} /\ reg'[i] = "confirmed"
          => \E q \in Req : Commits(q) /\ req[q].row = i ]_vars

\* No seat stays empty while somebody waits: a commit that gives up a
\* confirmed seat hands it on, and the promotion after a capacity change fills
\* every seat the change opened, unless the event is full or nobody else waits
\* (promoteFromWaitlist, promoteUpToCapacity).
SeatsRefilled ==
    [][ \A q \in Req : Commits(q) =>
          /\ req[q].frees /\ cap # Unlimited =>
                \/ Cardinality(Seated') >= Cardinality(Seated)
                \/ Full(Seated')
                \/ Waiting' \subseteq {req[q].row}
          /\ req[q].op = "settings" => Full(Seated') \/ Waiting' = {} ]_vars

\* The waitlist is served in the order of registration: a promoted row leaves
\* no earlier one waiting, except the row its request itself put there.
PromotedInOrder ==
    [][ \A q \in Req, i \in RowId :
          /\ Commits(q)
          /\ i \in Waiting /\ i \in Seated' /\ i # req[q].row
          => \A j \in Waiting' : j > i \/ j = req[q].row ]_vars

\* A request that has changed the registrations is not over before the live
\* board shows the counts of the table.  A settings save never publishes them.
BoardFollowsRequests ==
    [][ \A q \in Req :
          /\ req[q].pc \in {"commit", "announce"} /\ req[q].op # "settings"
          /\ At(q, "idle")'
          => board' = CountsOf(reg') ]_vars

-----------------------------------------------------------------------------
(* Liveness and the abstract ledger *)

\* Every request is answered: no waiter and no lock holder waits for ever.
EveryRequestEnds == \A q \in Req : ~At(q, "idle") ~> At(q, "idle")

\* The seat of an account: the status of its active registration.
SeatOf(u) ==
    IF \E i \in Seated : owner[i] = u THEN "confirmed"
    ELSE IF \E i \in Waiting : owner[i] = u THEN "waitlisted"
    ELSE "none"

Ledger == INSTANCE SeatLedger WITH seat <- [u \in User |-> SeatOf(u)]

\* However requests interleave, the table moves as the ledger of seats does.
ImplementsLedger == Ledger!Spec
=============================================================================
