---------------------- MODULE EventRegistrationProofs ----------------------
(***************************************************************************)
(* Proofs about EventRegistration, for every number of requests, accounts  *)
(* and rows, every capacity, and every choice of operations and faults.    *)
(***************************************************************************)
EXTENDS EventRegistration, FiniteSetTheorems, TLAPS

-----------------------------------------------------------------------------
(* The helpers *)

\* The rows with a given status are finitely many, at most MaxRows.
LEMMA WithBounds ==
    ASSUME NEW table, NEW s
    PROVE  /\ IsFiniteSet(With(table, s))
           /\ Cardinality(With(table, s)) \in 0..MaxRows
<1>1. MaxRows \in Nat
  BY ConstantsAssumption
<1>2. IsFiniteSet(RowId) /\ Cardinality(RowId) = MaxRows
  BY <1>1, FS_Interval DEF RowId
<1>3. With(table, s) \subseteq RowId
  BY DEF With
<1>4. IsFiniteSet(With(table, s)) /\ Cardinality(With(table, s)) <= MaxRows
  BY <1>2, <1>3, FS_Subset
<1>5. Cardinality(With(table, s)) \in Nat
  BY <1>4, FS_CardinalityType
<1> QED
  BY <1>1, <1>4, <1>5

\* The counts of a table are counts.
LEMMA CountsOfType == ASSUME NEW table PROVE CountsOf(table) \in Counts
  BY WithBounds DEF CountsOf, Counts

\* What a request sees of the table is a table.
LEMMA SeenByType ==
    ASSUME TypeOK, NEW q \in Req
    PROVE  SeenBy(q) \in [RowId -> Status]
  BY DEF TypeOK, SeenBy

-----------------------------------------------------------------------------
(* Types *)

\* A request keeps its type when it moves on.
LEMMA GotoType ==
    ASSUME TypeOK, NEW q \in Req, NEW pc \in PCs
    PROVE  [req EXCEPT ![q].pc = pc] \in [Req -> Request]
  BY ZenonT(60) DEF TypeOK, Request

\* ... and when it has read one of its fields within the field's type.
LEMMA FieldTypes ==
    ASSUME NEW r \in Request, NEW pc \in PCs
    PROVE  /\ \A s \in Status : [r EXCEPT !.pc = pc, !.to = s] \in Request
           /\ \A i \in 0..MaxRows : [r EXCEPT !.pc = pc, !.row = i] \in Request
           /\ \A n \in Int : [r EXCEPT !.pc = pc, !.room = n] \in Request
           /\ \A t \in Counts : [r EXCEPT !.pc = pc, !.tally = t] \in Request
           /\ \A c \in Nat \cup {Unlimited}, n \in Int :
                [r EXCEPT !.seenCap = c, !.pc = pc, !.room = n] \in Request
  BY DEF Request

\* A request that is over is a request.
LEMMA IdleType == Idle \in Request
  BY ConstantsAssumption
  DEF Idle, Request, PCs, AllOps, Status, Active, NoCounts, Counts

\* The request that acts on a row it has read, freeing its seat or not.
LEMMA RowRequestType ==
    ASSUME NEW op \in AllOps, NEW u \in User \cup {NoUser}, NEW i \in RowId,
           NEW s \in Status, NEW old
    PROVE  /\ [Idle EXCEPT !.pc = "write", !.op = op, !.user = u, !.row = i,
                           !.to = s, !.frees = FreesSeat(old, s)] \in Request
           /\ [Idle EXCEPT !.pc = "write", !.op = op, !.row = i,
                           !.to = s, !.frees = FreesSeat(old, s)] \in Request
           /\ [Idle EXCEPT !.pc = "write", !.op = op, !.row = i,
                           !.frees = FreesSeat(old, s)] \in Request
<1>1. FreesSeat(old, s) \in BOOLEAN
  BY DEF FreesSeat
<1>2. i \in 0..MaxRows
  BY ConstantsAssumption DEF RowId
<1>3. \A b \in BOOLEAN :
        /\ [Idle EXCEPT !.pc = "write", !.op = op, !.user = u, !.row = i,
                        !.to = s, !.frees = b] \in Request
        /\ [Idle EXCEPT !.pc = "write", !.op = op, !.row = i,
                        !.to = s, !.frees = b] \in Request
        /\ [Idle EXCEPT !.pc = "write", !.op = op, !.row = i,
                        !.frees = b] \in Request
  BY <1>2, IdleType, ZenonT(60) DEF Idle, Request, PCs
<1> QED
  BY <1>1, <1>3

\* The table of requests keeps its type when one of them is replaced.
LEMMA MoveType ==
    ASSUME TypeOK, NEW q \in Req, NEW r \in Request
    PROVE  [req EXCEPT ![q] = r] \in [Req -> Request]
  BY DEF TypeOK

\* A transaction that has written nothing leaves every row as it is.
LEMMA UntouchedType == Untouched \in [RowId -> Status \cup {"same"}]
  BY DEF Untouched

\* Every step of every request keeps the type of every variable.
LEMMA TypeStep == TypeOK /\ [Next]_vars => TypeOK'
<1> SUFFICES ASSUME TypeOK, [Next]_vars PROVE TypeOK'
  OBVIOUS
<1> USE DEF At, Goto, Answer, Rollback
<1>1. ASSUME NEW q \in Req, NEW u \in User, Register(q, u) PROVE TypeOK'
  <2>1. [Idle EXCEPT !.pc = "find", !.op = "register", !.user = u,
                     !.seenCap = cap] \in Request
    BY IdleType DEF Idle, Request, PCs, AllOps, TypeOK
  <2> QED
    BY <1>1, <2>1, MoveType DEF Register, TypeOK
<1>2. ASSUME NEW q \in Req, NEW u \in User, Cancel(q, u) PROVE TypeOK'
  <2>1. ASSUME NEW i \in RowId
        PROVE [Idle EXCEPT !.pc = "write", !.op = "cancel", !.user = u,
                           !.row = i, !.to = "cancelled",
                           !.frees = FreesSeat(reg[i], "cancelled")] \in Request
    <3>1. "cancel" \in AllOps /\ "cancelled" \in Status
      BY DEF AllOps, Status
    <3> QED
      BY <3>1, RowRequestType
  <2> QED
    BY <1>2, <2>1, MoveType DEF Cancel, TypeOK
<1>3. ASSUME NEW q \in Req, NEW u \in User, NEW s \in Active, Add(q, u, s)
      PROVE TypeOK'
  <2>1. [Idle EXCEPT !.pc = "insert", !.op = "add", !.user = u, !.to = s]
          \in Request
    BY IdleType DEF Idle, Request, PCs, AllOps, Status
  <2> QED
    BY <1>3, <2>1, MoveType DEF Add, TypeOK
<1>4. ASSUME NEW q \in Req, NEW i \in RowId,
             NEW s \in Active \cup {"cancelled"}, SetStatus(q, i, s)
      PROVE TypeOK'
  <2>1. [Idle EXCEPT !.pc = "write", !.op = "setStatus", !.row = i, !.to = s,
                     !.frees = FreesSeat(reg[i], s)] \in Request
    <3>1. "setStatus" \in AllOps /\ s \in Status
      BY DEF AllOps, Status
    <3> QED
      BY <3>1, RowRequestType
  <2> QED
    BY <1>4, <2>1, MoveType DEF SetStatus, TypeOK
<1>5. ASSUME NEW q \in Req, NEW i \in RowId, Remove(q, i) PROVE TypeOK'
  <2>1. [Idle EXCEPT !.pc = "write", !.op = "remove", !.row = i,
                     !.frees = FreesSeat(reg[i], "absent")] \in Request
    <3>1. "remove" \in AllOps /\ "absent" \in Status
      BY DEF AllOps, Status
    <3> QED
      BY <3>1, RowRequestType
  <2> QED
    BY <1>5, <2>1, MoveType DEF Remove, TypeOK
<1>6. ASSUME NEW q \in Req, NEW c \in Caps, SaveSettings(q, c) PROVE TypeOK'
  <2>1. [Idle EXCEPT !.pc = "readCap", !.op = "settings"] \in Request
    BY IdleType DEF Idle, Request, PCs, AllOps
  <2> QED
    BY <1>6, <2>1, MoveType, ConstantsAssumption DEF SaveSettings, TypeOK
<1>7. ASSUME NEW q \in Req, FindActive(q) PROVE TypeOK'
  <2>1. "count" \in PCs
    BY DEF PCs
  <2>2. req' \in [Req -> Request]
    BY <1>7, <2>1, IdleType, MoveType, GotoType DEF FindActive
  <2> QED
    BY <1>7, <2>2 DEF FindActive, TypeOK
<1>8. ASSUME NEW q \in Req, CountConfirmed(q) PROVE TypeOK'
  <2>1. PICK s \in Status :
          req' = [req EXCEPT ![q] = [@ EXCEPT !.pc = "insert", !.to = s]]
    BY <1>8 DEF CountConfirmed, Outcome, Status, Active
  <2>2. [req[q] EXCEPT !.pc = "insert", !.to = s] \in Request
    BY FieldTypes DEF TypeOK, PCs
  <2>3. req' = [req EXCEPT ![q] = [req[q] EXCEPT !.pc = "insert", !.to = s]]
    BY <2>1
  <2> QED
    BY <1>8, <2>2, <2>3, MoveType DEF CountConfirmed, TypeOK
<1>9. ASSUME NEW q \in Req, Insert(q) PROVE TypeOK'
  <2>1. CASE UniqueViolation(req[q].user, 0) \/ last = MaxRows
    BY <1>9, <2>1, IdleType, MoveType DEF Insert, TypeOK
  <2>2. CASE ~(UniqueViolation(req[q].user, 0) \/ last = MaxRows)
    <3>1. last + 1 \in RowId /\ last + 1 \in 0..MaxRows
      BY <2>2, ConstantsAssumption DEF RowId, TypeOK
    <3>2. [req[q] EXCEPT !.pc = "guard", !.row = last + 1] \in Request
      BY <3>1, FieldTypes DEF TypeOK, PCs
    <3>3. req' = [req EXCEPT ![q] =
                    [req[q] EXCEPT !.pc = "guard", !.row = last + 1]]
      BY <1>9, <2>2 DEF Insert
    <3>4. req[q].user \in User \cup {NoUser} /\ req[q].to \in Status
      BY DEF TypeOK, Request
    <3> QED
      <4>1. owner' \in [RowId -> User \cup {NoUser}]
        BY <1>9, <2>2, <3>4 DEF Insert, TypeOK
      <4>2. pend' \in [Req -> [RowId -> Status \cup {"same"}]]
        <5>1. pend' = [pend EXCEPT ![q][last + 1] = req[q].to]
          BY <1>9, <2>2 DEF Insert
        <5> QED
          BY <5>1, <3>1, <3>4 DEF TypeOK
      <4>3. req' \in [Req -> Request]
        BY <3>2, <3>3, MoveType
      <4> QED
        BY <1>9, <2>2, <3>1, <4>1, <4>2, <4>3 DEF Insert, TypeOK
  <2> QED
    BY <2>1, <2>2
<1>10. ASSUME NEW q \in Req, Write(q) PROVE TypeOK'
  <2>1. req[q].to \in Status
    BY DEF TypeOK, Request
  <2>2. pend' \in [Req -> [RowId -> Status \cup {"same"}]]
    BY <1>10, <2>1 DEF Write, TypeOK
  <2>3. req' \in [Req -> Request]
    <3>1. "readCap" \in PCs /\ "guard" \in PCs
      BY DEF PCs
    <3>2. \/ req' = [req EXCEPT ![q] = Idle]
          \/ req' = [req EXCEPT ![q].pc = "readCap"]
          \/ req' = [req EXCEPT ![q].pc = "guard"]
      BY <1>10 DEF Write
    <3> QED
      BY <3>1, <3>2, IdleType, MoveType, GotoType
  <2> QED
    BY <1>10, <2>2, <2>3 DEF Write, TypeOK
<1>11. ASSUME NEW q \in Req, ReadCapacity(q) PROVE TypeOK'
  <2>1. PICK pc \in PCs :
          req' = [req EXCEPT ![q] = [@ EXCEPT !.seenCap = cap,
                                              !.pc = pc,
                                              !.room = Unlimited]]
    BY <1>11 DEF ReadCapacity, PCs
  <2>2. [req[q] EXCEPT !.seenCap = cap, !.pc = pc, !.room = Unlimited]
          \in Request
    <3>1. req[q] \in Request /\ cap \in Nat \cup {Unlimited} /\ Unlimited \in Int
      BY DEF TypeOK, Unlimited
    <3> QED
      BY <3>1, FieldTypes
  <2>3. req' = [req EXCEPT ![q] = [req[q] EXCEPT !.seenCap = cap, !.pc = pc,
                                                 !.room = Unlimited]]
    BY <2>1
  <2> QED
    <3>1. req' \in [Req -> Request]
      BY <2>2, <2>3, MoveType
    <3> QED
      BY <1>11, <3>1 DEF ReadCapacity, TypeOK
<1>12. ASSUME NEW q \in Req, CountSeats(q) PROVE TypeOK'
  <2> DEFINE n == Room(q, Cardinality(With(SeenBy(q), "confirmed")))
  <2>1. n \in Int
    BY WithBounds DEF Room, Unlimited, TypeOK, Request
  <2>2. req' \in [Req -> Request]
    <3>1. CASE req' = [req EXCEPT ![q].pc = "guard"]
      BY <3>1, GotoType DEF PCs
    <3>2. CASE req' = [req EXCEPT ![q] = [@ EXCEPT !.pc = "pick", !.room = n]]
      <4> HIDE DEF n
      <4>1. [req[q] EXCEPT !.pc = "pick", !.room = n] \in Request
        BY <2>1, FieldTypes DEF TypeOK, PCs
      <4>2. req' = [req EXCEPT ![q] = [req[q] EXCEPT !.pc = "pick", !.room = n]]
        BY <3>2
      <4> QED
        BY <4>1, <4>2, MoveType
    <3> QED
      BY <1>12, <3>1, <3>2 DEF CountSeats
  <2> QED
    BY <1>12, <2>2 DEF CountSeats, TypeOK
<1>13. ASSUME NEW q \in Req, Promote(q) PROVE TypeOK'
  <2>1. pend' \in [Req -> [RowId -> Status \cup {"same"}]]
    BY <1>13 DEF Promote, TypeOK, Status, Active
  <2>2. req' \in [Req -> Request]
    BY <1>13, GotoType DEF Promote, PCs
  <2> QED
    BY <1>13, <2>1, <2>2 DEF Promote, TypeOK
<1>14. ASSUME NEW q \in Req, Guard(q) PROVE TypeOK'
  <2>1. req' \in [Req -> Request]
    <3>1. CASE req' = [req EXCEPT ![q] = [@ EXCEPT !.pc = "insert",
                                                   !.to = "waitlisted"]]
      <4>1. [req[q] EXCEPT !.pc = "insert", !.to = "waitlisted"] \in Request
        BY FieldTypes DEF TypeOK, PCs, Status, Active
      <4>2. req' = [req EXCEPT ![q] =
                      [req[q] EXCEPT !.pc = "insert", !.to = "waitlisted"]]
        BY <3>1
      <4> QED
        BY <4>1, <4>2, MoveType
    <3>2. CASE req' = [req EXCEPT ![q].pc = "commit"]
      BY <3>2, GotoType DEF PCs
    <3>3. CASE req' = [req EXCEPT ![q] = Idle]
      BY <3>3, IdleType, MoveType
    <3> QED
      BY <1>14, <3>1, <3>2, <3>3 DEF Guard
  <2> QED
    BY <1>14, <2>1, UntouchedType DEF Guard, TypeOK
<1>15. ASSUME NEW q \in Req, Commit(q) PROVE TypeOK'
  <2>1. req' \in [Req -> Request]
    <3>1. "counts" \in PCs
      BY DEF PCs
    <3> QED
      BY <1>15, <3>1, IdleType, MoveType, GotoType DEF Commit
  <2> QED
    BY <1>15, <2>1, UntouchedType, SeenByType DEF Commit, Publish, TypeOK
<1>16. ASSUME NEW q \in Req, CommitAnswerLost(q) PROVE TypeOK'
  <2>1. req' \in [Req -> Request]
    BY <1>16, GotoType DEF CommitAnswerLost, PCs
  <2> QED
    BY <1>16, <2>1, UntouchedType, SeenByType
    DEF CommitAnswerLost, Publish, TypeOK
<1>17. ASSUME NEW q \in Req, ReadCounts(q) PROVE TypeOK'
  <2> DEFINE t == CountsOf(reg)
  <2>1. t \in Counts
    BY CountsOfType
  <2>2. req' = [req EXCEPT ![q] = [@ EXCEPT !.pc = "announce", !.tally = t]]
    BY <1>17 DEF ReadCounts
  <2> HIDE DEF t
  <2>3. [req[q] EXCEPT !.pc = "announce", !.tally = t] \in Request
    BY <2>1, FieldTypes DEF TypeOK, PCs
  <2>4. req' = [req EXCEPT ![q] =
                  [req[q] EXCEPT !.pc = "announce", !.tally = t]]
    BY <2>2
  <2> QED
    BY <1>17, <2>3, <2>4, MoveType DEF ReadCounts, TypeOK
<1>18. ASSUME NEW q \in Req, Announce(q) PROVE TypeOK'
  <2>1. req[q].tally \in Counts
    BY DEF TypeOK, Request
  <2> QED
    BY <1>18, <2>1, IdleType, MoveType DEF Announce, TypeOK
<1>19. ASSUME NEW q \in Req, Fail(q) PROVE TypeOK'
  BY <1>19, IdleType, MoveType, UntouchedType DEF Fail, TypeOK
<1>20. CASE UNCHANGED vars
  BY <1>20 DEF vars, TypeOK
<1> QED
  BY <1>1, <1>2, <1>3, <1>4, <1>5, <1>6, <1>7, <1>8, <1>9, <1>10, <1>11,
     <1>12, <1>13, <1>14, <1>15, <1>16, <1>17, <1>18, <1>19, <1>20
     DEF Next, Begin, Step

\* Every variable keeps its type, whatever the requests do.
THEOREM TypeCorrect == Spec => []TypeOK
<1>1. Init => TypeOK
  BY IdleType, UntouchedType, ConstantsAssumption
  DEF Init, TypeOK, Status, NoCounts, Counts
<1> QED
  BY <1>1, TypeStep, PTL DEF Spec

-----------------------------------------------------------------------------
(* The inductive invariant *)

\* A step that changes only what its request has read or where it stands, and
\* does not open a gap between a capacity check and its commit.
LEMMA ReadStep ==
    ASSUME TransactionsApart, TypeOK', NEW q \in Req, NEW r \in Request,
           UNCHANGED <<reg, owner, last, cap, pend, stale>>,
           req' = [req EXCEPT ![q] = r],
           r.pc # "commit",
           r.row <= last,
           r.pc \in OutsideTx => pend[q] = Untouched,
           r.row = req[q].row \/ pend[q] = Untouched
    PROVE  TransactionsApart'
<1> USE DEF TransactionsApart
<1>1. \A p \in Req : req'[p] = IF p = q THEN r ELSE req[p]
  BY DEF TypeOK
<1>2. RowsLocked'
  BY DEF RowsLocked
<1>3. NoLocksOutsideTx'
  BY <1>1 DEF NoLocksOutsideTx, Untouched
<1>4. FreshRows'
  BY <1>1 DEF FreshRows
<1>5. OnePossiblyActive'
  BY DEF OnePossiblyActive, PossiblyActive
<1>6. OnlyWaitingConfirmed'
  <2> SUFFICES ASSUME NEW p \in Req, NEW i \in RowId,
                      pend[p][i] # "same", i # req'[p].row
               PROVE  pend[p][i] = "confirmed" /\ reg[i] = "waitlisted"
    BY DEF OnlyWaitingConfirmed
  <2>1. i # req[p].row
    BY <1>1 DEF Untouched
  <2> QED
    BY <2>1 DEF OnlyWaitingConfirmed
<1>7. CheckHolds'
  <2> SUFFICES ASSUME NEW p \in Req \ stale, req'[p].pc = "commit",
                      Confirming(p), cap # Unlimited
               PROVE  Cardinality(With(SeenBy(p), "confirmed")) <= cap
    BY DEF CheckHolds, At, Confirming, With, SeenBy
  <2>1. req[p].pc = "commit"
    BY <1>1
  <2> QED
    BY <2>1 DEF CheckHolds, At
<1> QED
  BY <1>2, <1>3, <1>4, <1>5, <1>6, <1>7

\* A request that is answered without leaving a write behind: nothing, or its
\* own writes and locks, goes away.
LEMMA AnswerStep ==
    ASSUME TransactionsApart, TypeOK', NEW q \in Req, NEW r \in Request,
           UNCHANGED <<reg, owner, last, cap>>,
           stale' \in {stale, stale \ {q}},
           pend' = [pend EXCEPT ![q] = Untouched],
           req' = [req EXCEPT ![q] = r],
           r.pc \in OutsideTx,
           r.row <= last
    PROVE  TransactionsApart'
<1> USE DEF TransactionsApart
<1>1. \A p \in Req : /\ req'[p] = IF p = q THEN r ELSE req[p]
                     /\ pend'[p] = IF p = q THEN Untouched ELSE pend[p]
  BY DEF TypeOK
<1>2. \A i \in RowId : pend'[q][i] = "same"
  BY <1>1 DEF Untouched
<1>3. RowsLocked'
  BY <1>1, <1>2 DEF RowsLocked
<1>4. NoLocksOutsideTx'
  BY <1>1 DEF NoLocksOutsideTx, Untouched
<1>5. FreshRows'
  BY <1>1, <1>2 DEF FreshRows
<1>6. OnePossiblyActive'
  <2>1. \A i \in RowId : PossiblyActive(i)' => PossiblyActive(i)
    BY <1>1, <1>2 DEF PossiblyActive, Active
  <2> QED
    BY <2>1 DEF OnePossiblyActive
<1>7. OnlyWaitingConfirmed'
  BY <1>1, <1>2 DEF OnlyWaitingConfirmed
<1>8. CheckHolds'
  <2> SUFFICES ASSUME NEW p \in Req \ stale', req'[p].pc = "commit",
                      Confirming(p)', cap # Unlimited
               PROVE  Cardinality(With(SeenBy(p), "confirmed")') <= cap
    BY DEF CheckHolds, At
  <2>1. p # q
    BY <1>1 DEF OutsideTx
  <2>2. req[p].pc = "commit" /\ p \notin stale /\ pend'[p] = pend[p]
    BY <1>1, <2>1
  <2>3. Confirming(p) /\ With(SeenBy(p), "confirmed")' = With(SeenBy(p), "confirmed")
    BY <2>2 DEF Confirming, With, SeenBy
  <2> QED
    BY <2>2, <2>3 DEF CheckHolds, At
<1> QED
  BY <1>3, <1>4, <1>5, <1>6, <1>7, <1>8

\* A commit: the writes of one transaction become the table.
LEMMA CommitStep ==
    ASSUME TransactionsApart, TypeOK', NEW q \in Req, NEW r \in Request,
           Publish(q),
           req' = [req EXCEPT ![q] = r],
           r.pc \in OutsideTx,
           r.row <= last
    PROVE  TransactionsApart'
<1> USE DEF TransactionsApart
<1>1. \A p \in Req : /\ req'[p] = IF p = q THEN r ELSE req[p]
                     /\ pend'[p] = IF p = q THEN Untouched ELSE pend[p]
  BY DEF TypeOK, Publish, Rollback
<1>2. \A i \in RowId : pend'[q][i] = "same"
  BY <1>1 DEF Untouched
<1>3. \A i \in RowId : reg'[i] = IF pend[q][i] = "same" THEN reg[i] ELSE pend[q][i]
  BY DEF Publish, SeenBy
<1>4. UNCHANGED <<owner, last, cap>>
  BY DEF Publish
<1>5. RowsLocked'
  BY <1>1, <1>2 DEF RowsLocked
<1>6. NoLocksOutsideTx'
  BY <1>1 DEF NoLocksOutsideTx, Untouched
<1>7. FreshRows'
  BY <1>1, <1>2, <1>3, <1>4 DEF FreshRows
<1>8. OnePossiblyActive'
  <2>1. \A i \in RowId : PossiblyActive(i)' => PossiblyActive(i)
    BY <1>1, <1>2, <1>3 DEF PossiblyActive, Active
  <2> QED
    BY <1>4, <2>1 DEF OnePossiblyActive
<1>9. OnlyWaitingConfirmed'
  <2> SUFFICES ASSUME NEW p \in Req, NEW i \in RowId,
                      pend'[p][i] # "same", i # req'[p].row
               PROVE  pend'[p][i] = "confirmed" /\ reg'[i] = "waitlisted"
    BY DEF OnlyWaitingConfirmed
  <2>1. p # q /\ pend'[p] = pend[p] /\ req'[p] = req[p]
    BY <1>1, <1>2
  <2>2. pend[q][i] = "same"
    BY <2>1 DEF RowsLocked
  <2> QED
    BY <1>3, <2>1, <2>2 DEF OnlyWaitingConfirmed
<1>10. CheckHolds'
  <2> SUFFICES ASSUME NEW p \in Req \ stale', req'[p].pc = "commit" PROVE FALSE
    BY DEF CheckHolds, At
  <2>1. p # q
    BY <1>1 DEF OutsideTx
  <2>2. p \in stale'
    BY <1>1, <2>1 DEF Publish, At
  <2> QED
    BY <2>2
<1> QED
  BY <1>5, <1>6, <1>7, <1>8, <1>9, <1>10

\* An inserted row is the only row of its account that may be active.
LEMMA InsertStep ==
    ASSUME TransactionsApart, TypeOK', NEW q \in Req, Insert(q),
           ~(UniqueViolation(req[q].user, 0) \/ last = MaxRows)
    PROVE  TransactionsApart'
<1> USE DEF TransactionsApart
<1> DEFINE n == last + 1
<1>1. /\ req' = [req EXCEPT ![q] = [@ EXCEPT !.pc = "guard", !.row = n]]
      /\ pend' = [pend EXCEPT ![q][n] = req[q].to]
      /\ owner' = [owner EXCEPT ![n] = req[q].user]
      /\ last' = n
      /\ UNCHANGED <<reg, cap, stale>>
      /\ req[q].pc = "insert"
      /\ ~UniqueWait(q, req[q].user, 0)
  BY DEF Insert, At
<1>2. n \in RowId /\ last \in Nat
  BY ConstantsAssumption DEF TypeOK, RowId
<1>3. pend[q] = Untouched
  BY <1>1 DEF NoLocksOutsideTx, OutsideTx
<1>4. /\ reg[n] = "absent"
      /\ \A p \in Req : pend[p][n] = "same"
  BY <1>2 DEF FreshRows
<1> HIDE DEF n
<1>5. \A p \in Req, i \in RowId :
        pend'[p][i] = IF p = q /\ i = n THEN req[q].to ELSE pend[p][i]
  BY <1>1 DEF TypeOK
<1>6. \A p \in Req : /\ p # q => req'[p] = req[p]
                     /\ req'[p].row = IF p = q THEN n ELSE req[p].row
                     /\ req'[p].pc = IF p = q THEN "guard" ELSE req[p].pc
  BY <1>1 DEF TypeOK, Request
<1>7. RowsLocked'
  BY <1>4, <1>5 DEF RowsLocked
<1>8. NoLocksOutsideTx'
  <2> SUFFICES ASSUME NEW p \in Req, req'[p].pc \in OutsideTx
               PROVE  pend'[p] = Untouched
    BY DEF NoLocksOutsideTx, Untouched
  <2>1. p # q
    BY <1>6 DEF OutsideTx
  <2>2. pend'[p] = pend[p]
    BY <1>1, <2>1 DEF TypeOK
  <2> QED
    BY <1>6, <2>1, <2>2 DEF NoLocksOutsideTx
<1>9. FreshRows'
  <2>1. \A p \in Req : req'[p].row <= last'
    BY <1>1, <1>2, <1>6, ConstantsAssumption DEF FreshRows, TypeOK, Request, n
  <2>2. ASSUME NEW i \in RowId, i > last'
        PROVE  reg'[i] = "absent" /\ \A p \in Req : pend'[p][i] = "same"
    <3>1. i > last /\ i # n
      BY <1>1, <1>2, <2>2, ConstantsAssumption DEF n, RowId
    <3> QED
      BY <1>1, <1>5, <3>1 DEF FreshRows
  <2> QED
    BY <2>1, <2>2 DEF FreshRows
<1>10. OnePossiblyActive'
  <2>1. \A i \in RowId : i # n => /\ owner'[i] = owner[i]
                                  /\ PossiblyActive(i)' => PossiblyActive(i)
    BY <1>1, <1>5 DEF PossiblyActive, TypeOK
  <2>2. owner'[n] = req[q].user
    BY <1>1, <1>2 DEF TypeOK
  <2>3. ASSUME NEW j \in RowId, j # n, PossiblyActive(j), owner[j] = req[q].user
        PROVE  FALSE
    <3>1. j \in Rivals(req[q].user, 0)
      BY <2>3, ConstantsAssumption DEF Rivals, RowId
    <3>2. ~LockedByOther(q, j)
      BY <1>1, <3>1 DEF UniqueWait
    <3>3. \A p \in Req : pend[p][j] = "same"
      BY <1>3, <3>2 DEF LockedByOther, Untouched
    <3>4. reg[j] \in Active
      BY <2>3, <3>3 DEF PossiblyActive, Active
    <3> QED
      BY <3>1, <3>4 DEF UniqueViolation
  <2> SUFFICES ASSUME NEW i \in RowId, NEW j \in RowId, i # j,
                      PossiblyActive(i)', PossiblyActive(j)'
               PROVE  owner'[i] # owner'[j]
    BY DEF OnePossiblyActive
  <2> QED
    BY <2>1, <2>2, <2>3 DEF OnePossiblyActive
<1>11. OnlyWaitingConfirmed'
  <2> SUFFICES ASSUME NEW p \in Req, NEW i \in RowId,
                      pend'[p][i] # "same", i # req'[p].row
               PROVE  pend'[p][i] = "confirmed" /\ reg'[i] = "waitlisted"
    BY DEF OnlyWaitingConfirmed
  <2>1. p # q
    BY <1>3, <1>5, <1>6 DEF Untouched
  <2>2. pend'[p][i] = pend[p][i] /\ req'[p] = req[p]
    BY <1>5, <1>6, <2>1
  <2>3. pend[p][i] = "confirmed" /\ reg[i] = "waitlisted"
    BY <2>2 DEF OnlyWaitingConfirmed
  <2>4. reg' = reg
    BY <1>1
  <2> QED
    BY <2>2, <2>3, <2>4
<1>12. CheckHolds'
  <2> SUFFICES ASSUME NEW p \in Req \ stale, req'[p].pc = "commit",
                      Confirming(p)', cap # Unlimited
               PROVE  Cardinality(With(SeenBy(p), "confirmed")') <= cap
    BY <1>1 DEF CheckHolds, At
  <2>1. p # q
    BY <1>6
  <2>2. req[p].pc = "commit" /\ pend'[p] = pend[p]
    BY <1>1, <1>6, <2>1 DEF TypeOK
  <2>3. Confirming(p) /\ With(SeenBy(p), "confirmed")' = With(SeenBy(p), "confirmed")
    BY <1>1, <2>2 DEF Confirming, With, SeenBy
  <2> QED
    BY <2>2, <2>3 DEF CheckHolds, At
<1> QED
  BY <1>7, <1>8, <1>9, <1>10, <1>11, <1>12

\* The row a request writes is its own, and stays the account's only one that
\* may be active.
LEMMA WriteStep ==
    ASSUME TransactionsApart, TypeOK', NEW q \in Req, Write(q),
           NEW r \in Request, req' = [req EXCEPT ![q] = r],
           r.pc \notin OutsideTx \cup {"commit"}, r.row = req[q].row,
           pend' = [pend EXCEPT ![q][req[q].row] = req[q].to]
    PROVE  TransactionsApart'
<1> USE DEF TransactionsApart
<1> DEFINE n == req[q].row
           u == owner[n]
           revives == req[q].to \in Active /\ reg[n] \notin Active
<1>1. /\ UNCHANGED <<reg, owner, last, cap, stale>>
      /\ req[q].pc = "write"
      /\ ~LockedByOther(q, n)
      /\ revives => ~UniqueWait(q, u, n)
  BY DEF Write, At
<1>2. pend[q] = Untouched
  BY <1>1 DEF NoLocksOutsideTx, OutsideTx
<1>3. pend' = [pend EXCEPT ![q][n] = req[q].to]
  OBVIOUS
<1>4. \A p \in Req, i \in RowId :
        pend'[p][i] = IF p = q /\ i = n THEN req[q].to ELSE pend[p][i]
  BY <1>3 DEF TypeOK
<1>5. \A p \in Req : req'[p] = IF p = q THEN r ELSE req[p]
  BY DEF TypeOK
<1>6. n <= last
  BY DEF FreshRows
<1>7. RowsLocked'
  BY <1>1, <1>2, <1>4 DEF RowsLocked, LockedByOther, Untouched
<1>8. NoLocksOutsideTx'
  <2> SUFFICES ASSUME NEW p \in Req, req'[p].pc \in OutsideTx
               PROVE  pend'[p] = Untouched
    BY DEF NoLocksOutsideTx, Untouched
  <2>1. p # q
    BY <1>5
  <2>2. pend'[p] = pend[p]
    BY <1>3, <2>1 DEF TypeOK
  <2> QED
    BY <1>5, <2>1, <2>2 DEF NoLocksOutsideTx
<1>9. FreshRows'
  <2>1. \A p \in Req : req'[p].row <= last'
    BY <1>1, <1>5 DEF FreshRows
  <2>2. ASSUME NEW i \in RowId, i > last'
        PROVE  reg'[i] = "absent" /\ \A p \in Req : pend'[p][i] = "same"
    <3>1. i > last /\ i # n
      BY <1>1, <1>6, <2>2, ConstantsAssumption DEF RowId, TypeOK
    <3> QED
      BY <1>1, <1>4, <3>1 DEF FreshRows
  <2> QED
    BY <2>1, <2>2 DEF FreshRows
<1>10. OnePossiblyActive'
  <2>0. ~(reg[n] = "absent" \/ (revives /\ UniqueViolation(u, n)))
    <3>2. Idle.pc = "idle" /\ req[q] \in Request
      BY DEF Idle, TypeOK
    <3>3. req' # [req EXCEPT ![q] = Idle]
      BY <1>5, <3>2 DEF OutsideTx, TypeOK
    <3> QED
      BY <3>3 DEF Write, Answer
  <2>1. \A i \in RowId : i # n => (PossiblyActive(i)' => PossiblyActive(i))
    BY <1>1, <1>4 DEF PossiblyActive
  <2>2. \A p \in Req : pend[p][n] = "same" \/ n \notin RowId
    BY <1>1, <1>2 DEF LockedByOther, Untouched
  <2>3. ASSUME n \in RowId, PossiblyActive(n)', ~PossiblyActive(n),
               NEW j \in RowId, j # n, PossiblyActive(j), owner[j] = u
        PROVE  FALSE
    <3>1. revives
      <4>1. reg[n] \notin Active
        BY <2>3 DEF PossiblyActive
      <4>2. PICK p \in Req : pend'[p][n] \in Active
        BY <1>1, <2>3, <4>1 DEF PossiblyActive
      <4> QED
        BY <1>4, <2>2, <2>3, <4>1, <4>2 DEF Active
    <3>2. j \in Rivals(u, n)
      BY <2>3 DEF Rivals
    <3>3. ~LockedByOther(q, j)
      BY <1>1, <3>1, <3>2 DEF UniqueWait
    <3>4. \A p \in Req : pend[p][j] = "same"
      BY <1>2, <3>3 DEF LockedByOther, Untouched
    <3>5. reg[j] \in Active
      BY <2>3, <3>4 DEF PossiblyActive, Active
    <3> QED
      BY <2>0, <3>1, <3>2, <3>5 DEF UniqueViolation
  <2> SUFFICES ASSUME NEW i \in RowId, NEW j \in RowId, i # j,
                      PossiblyActive(i)', PossiblyActive(j)'
               PROVE  owner[i] # owner[j]
    BY <1>1 DEF OnePossiblyActive
  <2> QED
    BY <2>1, <2>3 DEF OnePossiblyActive
<1>11. OnlyWaitingConfirmed'
  <2> SUFFICES ASSUME NEW p \in Req, NEW i \in RowId,
                      pend'[p][i] # "same", i # req'[p].row
               PROVE  pend'[p][i] = "confirmed" /\ reg'[i] = "waitlisted"
    BY DEF OnlyWaitingConfirmed
  <2>1. p # q
    BY <1>2, <1>4, <1>5 DEF Untouched
  <2>2. pend'[p][i] = pend[p][i] /\ req'[p] = req[p] /\ reg' = reg
    BY <1>1, <1>4, <1>5, <2>1
  <2>3. pend[p][i] = "confirmed" /\ reg[i] = "waitlisted"
    BY <2>2 DEF OnlyWaitingConfirmed
  <2> QED
    BY <2>2, <2>3
<1>12. CheckHolds'
  <2> SUFFICES ASSUME NEW p \in Req \ stale, req'[p].pc = "commit",
                      Confirming(p)', cap # Unlimited
               PROVE  Cardinality(With(SeenBy(p), "confirmed")') <= cap
    BY <1>1 DEF CheckHolds, At
  <2>1. p # q
    BY <1>5
  <2>2. req[p].pc = "commit" /\ pend'[p] = pend[p]
    BY <1>3, <1>5, <2>1 DEF TypeOK
  <2>3. Confirming(p) /\ With(SeenBy(p), "confirmed")' = With(SeenBy(p), "confirmed")
    BY <1>1, <2>2 DEF Confirming, With, SeenBy
  <2> QED
    BY <2>2, <2>3 DEF CheckHolds, At
<1> QED
  BY <1>7, <1>8, <1>9, <1>10, <1>11, <1>12

\* A promotion confirms rows that wait and that nobody else has locked.
LEMMA PromoteStep ==
    ASSUME TransactionsApart, TypeOK', NEW q \in Req, Promote(q)
    PROVE  TransactionsApart'
<1> USE DEF TransactionsApart
<1>1. /\ UNCHANGED <<reg, owner, last, cap, stale>>
      /\ req[q].pc = "pick"
      /\ req' = [req EXCEPT ![q].pc = "guard"]
  BY DEF Promote, At, Goto
<1>2. \A p \in Req, i \in RowId :
        pend'[p][i] = IF p = q /\ i \in Promoted(q) THEN "confirmed"
                      ELSE pend[p][i]
  BY DEF Promote, TypeOK
<1>3. \A p \in Req : /\ p # q => req'[p] = req[p] /\ pend'[p] = pend[p]
                     /\ req'[p].row = req[p].row
                     /\ req'[p].pc = IF p = q THEN "guard" ELSE req[p].pc
  BY <1>1 DEF Promote, TypeOK, Request
<1>4. ASSUME NEW i \in Promoted(q)
      PROVE  /\ i \in RowId /\ i # req[q].row
             /\ \A p \in Req : pend[p][i] = "same"
             /\ reg[i] = "waitlisted"
  <2>1. i \in Candidates(q)
    BY <1>4 DEF Promoted, Earliest
  <2>2. i \in RowId /\ SeenBy(q)[i] = "waitlisted" /\ i # req[q].row
        /\ ~LockedByOther(q, i)
    BY <2>1 DEF Candidates, With
  <2>3. pend[q][i] = "same"
    BY <2>2 DEF SeenBy, OnlyWaitingConfirmed
  <2> QED
    BY <2>2, <2>3 DEF LockedByOther, SeenBy
<1>5. RowsLocked'
  BY <1>2, <1>4 DEF RowsLocked
<1>6. NoLocksOutsideTx'
  <2> SUFFICES ASSUME NEW p \in Req, req'[p].pc \in OutsideTx
               PROVE  pend'[p] = Untouched
    BY DEF NoLocksOutsideTx, Untouched
  <2> QED
    BY <1>3 DEF OutsideTx, NoLocksOutsideTx
<1>7. FreshRows'
  <2>1. \A i \in Promoted(q) : i <= last
    BY <1>4, ConstantsAssumption DEF FreshRows, RowId, TypeOK
  <2> QED
    BY <1>1, <1>2, <1>3, <2>1, ConstantsAssumption, SMTT(20) DEF FreshRows, RowId, TypeOK
<1>8. OnePossiblyActive'
  <2>1. \A i \in RowId : PossiblyActive(i)' => PossiblyActive(i)
    BY <1>1, <1>2, <1>4 DEF PossiblyActive, Active
  <2> QED
    BY <1>1, <2>1 DEF OnePossiblyActive
<1>9. OnlyWaitingConfirmed'
  <2> SUFFICES ASSUME NEW p \in Req, NEW i \in RowId,
                      pend'[p][i] # "same", i # req'[p].row
               PROVE  pend'[p][i] = "confirmed" /\ reg'[i] = "waitlisted"
    BY DEF OnlyWaitingConfirmed
  <2>1. reg' = reg /\ req'[p].row = req[p].row
    BY <1>1, <1>3
  <2>2. CASE p = q /\ i \in Promoted(q)
    BY <1>2, <1>4, <2>1, <2>2
  <2>3. CASE ~(p = q /\ i \in Promoted(q))
    <3>1. pend'[p][i] = pend[p][i]
      BY <1>2, <2>3
    <3>2. pend[p][i] = "confirmed" /\ reg[i] = "waitlisted"
      BY <2>1, <3>1 DEF OnlyWaitingConfirmed
    <3> QED
      BY <2>1, <3>1, <3>2
  <2> QED
    BY <2>2, <2>3
<1>10. CheckHolds'
  <2> SUFFICES ASSUME NEW p \in Req \ stale, req'[p].pc = "commit",
                      Confirming(p)', cap # Unlimited
               PROVE  Cardinality(With(SeenBy(p), "confirmed")') <= cap
    BY <1>1 DEF CheckHolds, At
  <2>1. p # q
    BY <1>3
  <2>2. req[p].pc = "commit" /\ pend'[p] = pend[p]
    BY <1>3, <2>1
  <2>3. Confirming(p) /\ With(SeenBy(p), "confirmed")' = With(SeenBy(p), "confirmed")
    BY <1>1, <2>2 DEF Confirming, With, SeenBy
  <2> QED
    BY <2>2, <2>3 DEF CheckHolds, At
<1> QED
  BY <1>5, <1>6, <1>7, <1>8, <1>9, <1>10

\* A transaction goes to its commit only when the capacity check passed.
LEMMA CheckedStep ==
    ASSUME TransactionsApart, TypeOK', NEW q \in Req, At(q, "guard"), ~GuardRejects(q),
           UNCHANGED <<reg, owner, last, cap, pend, stale>>,
           req' = [req EXCEPT ![q].pc = "commit"]
    PROVE  TransactionsApart'
<1> USE DEF TransactionsApart
<1>1. \A p \in Req : /\ p # q => req'[p] = req[p]
                     /\ req'[p].row = req[p].row
                     /\ req'[p].pc = IF p = q THEN "commit" ELSE req[p].pc
  BY DEF TypeOK, Request
<1>2. RowsLocked'
  BY DEF RowsLocked
<1>3. NoLocksOutsideTx'
  BY <1>1 DEF NoLocksOutsideTx, OutsideTx, Untouched
<1>4. FreshRows'
  BY <1>1 DEF FreshRows
<1>5. OnePossiblyActive'
  BY DEF OnePossiblyActive, PossiblyActive
<1>6. OnlyWaitingConfirmed'
  BY <1>1 DEF OnlyWaitingConfirmed
<1>7. CheckHolds'
  <2> SUFFICES ASSUME NEW p \in Req \ stale, req'[p].pc = "commit",
                      Confirming(p), cap # Unlimited
               PROVE  Cardinality(With(SeenBy(p), "confirmed")) <= cap
    BY DEF CheckHolds, At, Confirming, With, SeenBy
  <2>1. CASE p = q
    <3>1. Cardinality(With(SeenBy(q), "confirmed")) \in Nat /\ cap \in Nat
      BY WithBounds DEF TypeOK
    <3> QED
      BY <2>1, <3>1 DEF GuardRejects
  <2>2. CASE p # q
    BY <1>1, <2>2 DEF CheckHolds, At
  <2> QED
    BY <2>1, <2>2
<1> QED
  BY <1>2, <1>3, <1>4, <1>5, <1>6, <1>7

\* A new capacity overtakes every check that was made with the old one.
LEMMA SettingsStep ==
    ASSUME TransactionsApart, TypeOK', NEW q \in Req, NEW c \in Caps, SaveSettings(q, c)
    PROVE  TransactionsApart'
<1> USE DEF TransactionsApart
<1>1. \A p \in Req :
        req'[p] = IF p = q THEN [Idle EXCEPT !.pc = "readCap", !.op = "settings"]
                  ELSE req[p]
  BY DEF SaveSettings, TypeOK
<1>2. UNCHANGED <<reg, owner, last, pend>> /\ req[q].pc = "idle"
  BY DEF SaveSettings, At
<1>3. req'[q].row = 0 /\ req'[q].pc = "readCap"
  BY <1>1 DEF Idle
<1>4. pend[q] = Untouched
  BY <1>2 DEF NoLocksOutsideTx, OutsideTx
<1>5. RowsLocked'
  BY <1>2 DEF RowsLocked
<1>6. NoLocksOutsideTx'
  BY <1>1, <1>2, <1>4 DEF NoLocksOutsideTx, Untouched
<1>7. FreshRows'
  BY <1>1, <1>2, <1>3 DEF FreshRows, TypeOK
<1>8. OnePossiblyActive'
  BY <1>2 DEF OnePossiblyActive, PossiblyActive
<1>9. OnlyWaitingConfirmed'
  BY <1>1, <1>2, <1>4 DEF OnlyWaitingConfirmed, Untouched
<1>10. CheckHolds'
  <2> SUFFICES ASSUME NEW p \in Req \ stale', req'[p].pc = "commit" PROVE FALSE
    BY DEF CheckHolds, At
  <2>1. p # q
    BY <1>3
  <2>2. p \in stale'
    BY <1>1, <2>1 DEF SaveSettings, At
  <2> QED
    BY <2>2
<1> QED
  BY <1>5, <1>6, <1>7, <1>8, <1>9, <1>10

\* At first there is no registration and no request in progress.
LEMMA ApartInit == Init => TransactionsApart
<1> SUFFICES ASSUME Init PROVE TransactionsApart
  OBVIOUS
<1>1. TypeOK
  BY IdleType, UntouchedType, ConstantsAssumption
  DEF Init, TypeOK, Status, NoCounts, Counts
<1>2. /\ \A q \in Req : req[q].pc = "idle" /\ req[q].row = 0 /\ pend[q] = Untouched
      /\ \A q \in Req, i \in RowId : pend[q][i] = "same"
      /\ \A i \in RowId : reg[i] = "absent"
      /\ last = 0
  BY DEF Init, Idle, Untouched
<1>3. \A i \in RowId : ~PossiblyActive(i)
  BY <1>2 DEF PossiblyActive, Active
<1> QED
  BY <1>1, <1>2, <1>3
  DEF TransactionsApart, RowsLocked, NoLocksOutsideTx, FreshRows, OnePossiblyActive,
      OnlyWaitingConfirmed, CheckHolds, At

\* A row that exists has been inserted.
LEMMA ExistingRow ==
    ASSUME FreshRows, TypeOK, NEW i \in RowId, reg[i] # "absent"
    PROVE  i <= last
  BY ConstantsAssumption DEF FreshRows, RowId, TypeOK

\* Every step of a registration request keeps the invariant.
LEMMA ApartStep == TransactionsApart /\ [Next]_vars => TransactionsApart'
<1> SUFFICES ASSUME TransactionsApart, [Next]_vars PROVE TransactionsApart'
  OBVIOUS
<1>0. TypeOK /\ TypeOK' /\ FreshRows /\ NoLocksOutsideTx
  BY TypeStep DEF TransactionsApart
<1>a. \A q \in Req : req'[q] \in Request
  BY <1>0 DEF TypeOK
<1>b. /\ Idle.pc = "idle" /\ Idle.row = 0 /\ Idle \in Request
      /\ Idle.pc \in OutsideTx /\ 0 <= last
  BY <1>0, IdleType, ConstantsAssumption DEF Idle, OutsideTx, TypeOK
<1>c. \A q \in Req : req[q].row <= last
  BY <1>0 DEF FreshRows
\* A request outside a transaction that only reads.
<1>d. ASSUME NEW q \in Req, NEW r \in Request,
             UNCHANGED <<reg, owner, last, cap, pend, stale>>,
             req' = [req EXCEPT ![q] = r],
             r.pc # "commit", r.row <= last,
             req[q].pc \in OutsideTx
      PROVE  TransactionsApart'
  <2>1. pend[q] = Untouched
    BY <1>0, <1>d DEF NoLocksOutsideTx
  <2> QED
    BY <1>0, <1>d, <2>1, ReadStep
<1>1. ASSUME NEW q \in Req, NEW u \in User, Register(q, u) PROVE TransactionsApart'
  <2> DEFINE r == [Idle EXCEPT !.pc = "find", !.op = "register", !.user = u,
                              !.seenCap = cap]
  <2>1. req' = [req EXCEPT ![q] = r] /\ r.pc = "find" /\ r.row = 0
    BY <1>1 DEF Register, Idle
  <2> HIDE DEF r
  <2>2. r \in Request
    BY <1>0, <1>a, <2>1 DEF TypeOK
  <2>3. UNCHANGED <<reg, owner, last, cap, pend, stale>> /\ req[q].pc \in OutsideTx
    BY <1>1 DEF Register, At, OutsideTx
  <2>4. r.pc # "commit" /\ r.row <= last
    BY <1>b, <2>1
  <2> QED
    BY <1>d, <2>1, <2>2, <2>3, <2>4
<1>2. ASSUME NEW q \in Req, NEW u \in User, Cancel(q, u) PROVE TransactionsApart'
  <2>1. PICK i \in RowId :
          /\ reg[i] \in Active
          /\ req' = [req EXCEPT ![q] =
               [Idle EXCEPT !.pc = "write", !.op = "cancel", !.user = u,
                            !.row = i, !.to = "cancelled",
                            !.frees = FreesSeat(reg[i], "cancelled")]]
    BY <1>2 DEF Cancel
  <2> DEFINE r == [Idle EXCEPT !.pc = "write", !.op = "cancel", !.user = u,
                               !.row = i, !.to = "cancelled",
                               !.frees = FreesSeat(reg[i], "cancelled")]
  <2>2. req' = [req EXCEPT ![q] = r] /\ r.pc = "write" /\ r.row = i
    BY <2>1 DEF Idle
  <2> HIDE DEF r
  <2>3. r \in Request
    BY <1>0, <1>a, <2>2 DEF TypeOK
  <2>4. i <= last
    BY <1>0, <2>1, ExistingRow DEF Active
  <2>5. UNCHANGED <<reg, owner, last, cap, pend, stale>> /\ req[q].pc \in OutsideTx
    BY <1>2 DEF Cancel, At, OutsideTx
  <2>6. r.pc # "commit" /\ r.row <= last
    BY <2>2, <2>4
  <2> QED
    BY <1>d, <2>2, <2>3, <2>5, <2>6
<1>3. ASSUME NEW q \in Req, NEW u \in User, NEW s \in Active, Add(q, u, s)
      PROVE TransactionsApart'
  <2> DEFINE r == [Idle EXCEPT !.pc = "insert", !.op = "add", !.user = u, !.to = s]
  <2>1. req' = [req EXCEPT ![q] = r] /\ r.pc = "insert" /\ r.row = 0
    BY <1>3 DEF Add, Idle
  <2> HIDE DEF r
  <2>2. r \in Request
    BY <1>0, <1>a, <2>1 DEF TypeOK
  <2>3. UNCHANGED <<reg, owner, last, cap, pend, stale>> /\ req[q].pc \in OutsideTx
    BY <1>3 DEF Add, At, OutsideTx
  <2>4. r.pc # "commit" /\ r.row <= last
    BY <1>b, <2>1
  <2> QED
    BY <1>d, <2>1, <2>2, <2>3, <2>4
<1>4. ASSUME NEW q \in Req, NEW i \in RowId,
             NEW s \in Active \cup {"cancelled"}, SetStatus(q, i, s)
      PROVE TransactionsApart'
  <2> DEFINE r == [Idle EXCEPT !.pc = "write", !.op = "setStatus", !.row = i,
                               !.to = s, !.frees = FreesSeat(reg[i], s)]
  <2>1. req' = [req EXCEPT ![q] = r] /\ r.pc = "write" /\ r.row = i
    BY <1>4 DEF SetStatus, Idle
  <2> HIDE DEF r
  <2>2. r \in Request
    BY <1>0, <1>a, <2>1 DEF TypeOK
  <2>3. i <= last
    BY <1>0, <1>4, ExistingRow DEF SetStatus
  <2>4. UNCHANGED <<reg, owner, last, cap, pend, stale>> /\ req[q].pc \in OutsideTx
    BY <1>4 DEF SetStatus, At, OutsideTx
  <2>5. r.pc # "commit" /\ r.row <= last
    BY <2>1, <2>3
  <2> QED
    BY <1>d, <2>1, <2>2, <2>4, <2>5
<1>5. ASSUME NEW q \in Req, NEW i \in RowId, Remove(q, i) PROVE TransactionsApart'
  <2> DEFINE r == [Idle EXCEPT !.pc = "write", !.op = "remove", !.row = i,
                               !.frees = FreesSeat(reg[i], "absent")]
  <2>1. req' = [req EXCEPT ![q] = r] /\ r.pc = "write" /\ r.row = i
    BY <1>5 DEF Remove, Idle
  <2> HIDE DEF r
  <2>2. r \in Request
    BY <1>0, <1>a, <2>1 DEF TypeOK
  <2>3. i <= last
    BY <1>0, <1>5, ExistingRow DEF Remove
  <2>4. UNCHANGED <<reg, owner, last, cap, pend, stale>> /\ req[q].pc \in OutsideTx
    BY <1>5 DEF Remove, At, OutsideTx
  <2>5. r.pc # "commit" /\ r.row <= last
    BY <2>1, <2>3
  <2> QED
    BY <1>d, <2>1, <2>2, <2>4, <2>5
<1>6. ASSUME NEW q \in Req, NEW c \in Caps, SaveSettings(q, c) PROVE TransactionsApart'
  BY <1>0, <1>6, SettingsStep
<1>7. ASSUME NEW q \in Req, FindActive(q) PROVE TransactionsApart'
  <2> UNCHANGED <<reg, owner, last, cap, pend, stale>> /\ req[q].pc \in OutsideTx
    BY <1>7 DEF FindActive, At, OutsideTx
  <2>1. CASE req' = [req EXCEPT ![q] = Idle]
    <3>1. Idle.pc # "commit" /\ Idle.row <= last
      BY <1>b
    <3> QED
      BY <1>b, <1>d, <2>1, <3>1
  <2>2. CASE req' = [req EXCEPT ![q].pc = "count"]
    <3> DEFINE r == [req[q] EXCEPT !.pc = "count"]
    <3>1. req' = [req EXCEPT ![q] = r] /\ r.pc = "count" /\ r.row = req[q].row
      BY <1>0, <2>2 DEF TypeOK, Request
    <3>2. r \in Request
      BY <1>a, <3>1, <1>0 DEF TypeOK
    <3>3. r.pc # "commit" /\ r.row <= last
      BY <1>c, <3>1
    <3> HIDE DEF r
    <3> QED
      BY <1>d, <3>1, <3>2, <3>3
  <2> QED
    BY <1>7, <2>1, <2>2 DEF FindActive, Answer, Goto
<1>8. ASSUME NEW q \in Req, CountConfirmed(q) PROVE TransactionsApart'
  <2> DEFINE s == Outcome(Cardinality(With(reg, "confirmed")), req[q].seenCap)
             r == [req[q] EXCEPT !.pc = "insert", !.to = s]
  <2>1. req' = [req EXCEPT ![q] = [@ EXCEPT !.pc = "insert", !.to = s]]
    BY <1>8 DEF CountConfirmed
  <2> HIDE DEF s
  <2>2. req' = [req EXCEPT ![q] = r] /\ r.pc = "insert" /\ r.row = req[q].row
    BY <1>0, <2>1 DEF TypeOK, Request
  <2>3. r \in Request
    BY <1>a, <2>2, <1>0 DEF TypeOK
  <2> HIDE DEF r
  <2>4. UNCHANGED <<reg, owner, last, cap, pend, stale>> /\ req[q].pc \in OutsideTx
    BY <1>8 DEF CountConfirmed, At, OutsideTx
  <2>5. r.pc # "commit" /\ r.row <= last
    BY <1>c, <2>2
  <2> QED
    BY <1>d, <2>2, <2>3, <2>4, <2>5
<1>9. ASSUME NEW q \in Req, Insert(q) PROVE TransactionsApart'
  <2>1. CASE UniqueViolation(req[q].user, 0) \/ last = MaxRows
    <3>1. UNCHANGED <<reg, owner, last, cap, pend, stale>> /\ req[q].pc \in OutsideTx
      BY <1>9, <2>1 DEF Insert, At, OutsideTx
    <3>2. req' = [req EXCEPT ![q] = Idle]
      BY <1>9, <2>1 DEF Insert, Answer
    <3>3. Idle.pc # "commit" /\ Idle.row <= last
      BY <1>b
    <3> QED
      BY <1>b, <1>d, <3>1, <3>2, <3>3
  <2>2. CASE ~(UniqueViolation(req[q].user, 0) \/ last = MaxRows)
    BY <1>0, <1>9, <2>2, InsertStep
  <2> QED
    BY <2>1, <2>2
<1>10. ASSUME NEW q \in Req, Write(q) PROVE TransactionsApart'
  <2>1. CASE UNCHANGED pend /\ req' = [req EXCEPT ![q] = Idle]
    <3>1. UNCHANGED <<reg, owner, last, cap, pend, stale>> /\ req[q].pc \in OutsideTx
      BY <1>10, <2>1 DEF Write, At, OutsideTx
    <3>2. Idle.pc # "commit" /\ Idle.row <= last
      BY <1>b
    <3> QED
      BY <1>b, <1>d, <2>1, <3>1, <3>2
  <2>2. ASSUME NEW pc \in {"readCap", "guard"},
               req' = [req EXCEPT ![q].pc = pc],
               pend' = [pend EXCEPT ![q][req[q].row] = req[q].to]
        PROVE  TransactionsApart'
    <3> DEFINE r == [req[q] EXCEPT !.pc = pc]
    <3>1. req' = [req EXCEPT ![q] = r] /\ r.pc = pc /\ r.row = req[q].row
      BY <1>0, <2>2 DEF TypeOK, Request
    <3>2. r \in Request
      BY <1>a, <3>1, <1>0 DEF TypeOK
    <3>3. r.pc \notin OutsideTx \cup {"commit"}
      BY <3>1 DEF OutsideTx
    <3> HIDE DEF r
    <3> QED
      BY <1>0, <1>10, <2>2, <3>1, <3>2, <3>3, WriteStep
  <2> QED
    BY <1>10, <2>1, <2>2 DEF Write, Answer, Goto
<1>11. ASSUME NEW q \in Req, ReadCapacity(q) PROVE TransactionsApart'
  <2>1. PICK pc \in {"seats", "pick", "guard"} :
          req' = [req EXCEPT ![q] = [@ EXCEPT !.seenCap = cap,
                                              !.pc = pc,
                                              !.room = Unlimited]]
    BY <1>11 DEF ReadCapacity
  <2> DEFINE r == [req[q] EXCEPT !.seenCap = cap, !.pc = pc, !.room = Unlimited]
  <2>2. req' = [req EXCEPT ![q] = r] /\ r.pc = pc /\ r.row = req[q].row
    BY <1>0, <2>1 DEF TypeOK, Request
  <2>3. r \in Request
    BY <1>a, <2>2, <1>0 DEF TypeOK
  <2>4. r.pc \notin OutsideTx /\ r.pc # "commit"
    BY <2>2 DEF OutsideTx
  <2> HIDE DEF r
  <2> QED
    BY <1>0, <1>11, <1>c, <2>2, <2>3, <2>4, ReadStep DEF ReadCapacity
<1>12. ASSUME NEW q \in Req, CountSeats(q) PROVE TransactionsApart'
  <2>1. PICK n \in Int, pc \in {"guard", "pick"} :
          req' = [req EXCEPT ![q] = [@ EXCEPT !.pc = pc, !.room = n]]
    <3> DEFINE m == Room(q, Cardinality(With(SeenBy(q), "confirmed")))
    <3>1. m \in Int
      BY <1>0, WithBounds DEF Room, Unlimited, TypeOK, Request
    <3>2. CASE req' = [req EXCEPT ![q] = [@ EXCEPT !.pc = "pick", !.room = m]]
      BY <3>1, <3>2
    <3>3. CASE req' = [req EXCEPT ![q].pc = "guard"]
      <4>1. req[q].room \in Int
        BY <1>0 DEF TypeOK, Request
      <4>2. req' = [req EXCEPT ![q] = [@ EXCEPT !.pc = "guard",
                                                !.room = req[q].room]]
        BY <1>0, <3>3 DEF TypeOK, Request
      <4> QED
        BY <4>1, <4>2
    <3> QED
      BY <1>12, <3>2, <3>3 DEF CountSeats, Goto
  <2> DEFINE r == [req[q] EXCEPT !.pc = pc, !.room = n]
  <2>2. req' = [req EXCEPT ![q] = r] /\ r.pc = pc /\ r.row = req[q].row
    BY <1>0, <2>1 DEF TypeOK, Request
  <2>3. r \in Request
    BY <1>a, <2>2, <1>0 DEF TypeOK
  <2>4. r.pc \notin OutsideTx /\ r.pc # "commit"
    BY <2>2 DEF OutsideTx
  <2> HIDE DEF r
  <2> QED
    BY <1>0, <1>12, <1>c, <2>2, <2>3, <2>4, ReadStep DEF CountSeats
<1>13. ASSUME NEW q \in Req, Promote(q) PROVE TransactionsApart'
  BY <1>0, <1>13, PromoteStep
<1>14. ASSUME NEW q \in Req, Guard(q) PROVE TransactionsApart'
  <2>1. CASE ~GuardRejects(q)
    BY <1>0, <1>14, <2>1, CheckedStep DEF Guard, Goto
  <2>2. CASE GuardRejects(q)
    <3>0. pend' = [pend EXCEPT ![q] = Untouched]
          /\ UNCHANGED <<reg, owner, last, cap, stale>>
      BY <1>14, <2>2 DEF Guard, Rollback
    <3>1. CASE req' = [req EXCEPT ![q] = [@ EXCEPT !.pc = "insert",
                                                   !.to = "waitlisted"]]
      <4> DEFINE r == [req[q] EXCEPT !.pc = "insert", !.to = "waitlisted"]
      <4>1. req' = [req EXCEPT ![q] = r] /\ r.pc = "insert" /\ r.row = req[q].row
        BY <1>0, <3>1 DEF TypeOK, Request
      <4>2. r \in Request /\ r.pc \in OutsideTx
        BY <1>a, <4>1, <1>0 DEF TypeOK, OutsideTx
      <4> HIDE DEF r
      <4> QED
        BY <1>0, <1>c, <3>0, <4>1, <4>2, AnswerStep
    <3>2. CASE req' = [req EXCEPT ![q] = Idle]
      BY <1>0, <1>b, <3>0, <3>2, AnswerStep
    <3> QED
      BY <1>14, <2>2, <3>1, <3>2 DEF Guard, Answer
  <2> QED
    BY <2>1, <2>2
<1>15. ASSUME NEW q \in Req, Publish(q),
              req' \in {[req EXCEPT ![q] = Idle], [req EXCEPT ![q].pc = "counts"],
                        [req EXCEPT ![q].pc = "insert"]}
       PROVE  TransactionsApart'
  <2>1. CASE req' = [req EXCEPT ![q] = Idle]
    BY <1>0, <1>15, <1>b, <2>1, CommitStep
  <2>2. ASSUME NEW pc \in {"counts", "insert"}, req' = [req EXCEPT ![q].pc = pc]
        PROVE  TransactionsApart'
    <3> DEFINE r == [req[q] EXCEPT !.pc = pc]
    <3>1. req' = [req EXCEPT ![q] = r] /\ r.pc = pc /\ r.row = req[q].row
      BY <1>0, <2>2 DEF TypeOK, Request
    <3>2. r \in Request /\ r.pc \in OutsideTx
      BY <1>a, <3>1, <1>0 DEF TypeOK, OutsideTx
    <3> HIDE DEF r
    <3> QED
      BY <1>0, <1>15, <1>c, <3>1, <3>2, CommitStep
  <2> QED
    BY <1>15, <2>1, <2>2
<1>16. ASSUME NEW q \in Req, Commit(q) \/ CommitAnswerLost(q) PROVE TransactionsApart'
  BY <1>15, <1>16 DEF Commit, CommitAnswerLost, Answer, Goto
<1>17. ASSUME NEW q \in Req, ReadCounts(q) PROVE TransactionsApart'
  <2> DEFINE t == CountsOf(reg)
             r == [req[q] EXCEPT !.pc = "announce", !.tally = t]
  <2>1. req' = [req EXCEPT ![q] = [@ EXCEPT !.pc = "announce", !.tally = t]]
    BY <1>17 DEF ReadCounts
  <2> HIDE DEF t
  <2>2. req' = [req EXCEPT ![q] = r] /\ r.pc = "announce" /\ r.row = req[q].row
    BY <1>0, <2>1 DEF TypeOK, Request
  <2>3. r \in Request
    BY <1>a, <2>2, <1>0 DEF TypeOK
  <2> HIDE DEF r
  <2> QED
    BY <1>17, <1>c, <1>d, <2>2, <2>3 DEF ReadCounts, At, OutsideTx
<1>18. ASSUME NEW q \in Req, Announce(q) PROVE TransactionsApart'
  BY <1>18, <1>b, <1>d DEF Announce, At, Answer, OutsideTx
<1>19. ASSUME NEW q \in Req, Fail(q) PROVE TransactionsApart'
  BY <1>0, <1>19, <1>b, AnswerStep DEF Fail, Rollback, Answer
<1>20. CASE UNCHANGED vars
  <2>1. UNCHANGED <<reg, owner, last, cap, pend, req, stale>>
    BY <1>20 DEF vars
  <2>2. RowsLocked' /\ NoLocksOutsideTx' /\ FreshRows' /\ OnlyWaitingConfirmed'
    BY <2>1 DEF TransactionsApart, RowsLocked, NoLocksOutsideTx, FreshRows,
       OnlyWaitingConfirmed, Untouched
  <2>3. OnePossiblyActive'
    BY <2>1 DEF TransactionsApart, OnePossiblyActive, PossiblyActive
  <2>4. CheckHolds'
    BY <2>1 DEF TransactionsApart, CheckHolds, At, Confirming, With, SeenBy
  <2> QED
    BY <1>0, <2>2, <2>3, <2>4 DEF TransactionsApart
<1> QED
  BY <1>1, <1>2, <1>3, <1>4, <1>5, <1>6, <1>7, <1>8, <1>9, <1>10, <1>11,
     <1>12, <1>13, <1>14, <1>16, <1>17, <1>18, <1>19, <1>20
     DEF Next, Begin, Step

-----------------------------------------------------------------------------
(* Promotions in measure *)

\* Only the request that moves, and what it has written, can change.
LEMMA OneMoves ==
    ASSUME TypeOK, PromotesInMeasure, NEW q \in Req, NEW r, NEW w,
           req' = [req EXCEPT ![q] = r], pend' = [pend EXCEPT ![q] = w],
           HandsOnOneSeat(r, w)
    PROVE  PromotesInMeasure'
<1>1. \A p \in Req : /\ req'[p] = IF p = q THEN r ELSE req[p]
                     /\ pend'[p] = IF p = q THEN w ELSE pend[p]
  BY DEF TypeOK
<1>2. ASSUME NEW p \in Req PROVE HandsOnOneSeat(req'[p], pend'[p])
  BY <1>1 DEF PromotesInMeasure
<1> QED
  BY <1>2 DEF PromotesInMeasure, HandsOnOneSeat

\* A request that moves on without writing.
LEMMA OneReads ==
    ASSUME TypeOK, PromotesInMeasure, NEW q \in Req, NEW r,
           req' = [req EXCEPT ![q] = r], UNCHANGED pend,
           HandsOnOneSeat(r, pend[q])
    PROVE  PromotesInMeasure'
<1>1. pend' = [pend EXCEPT ![q] = pend[q]]
  BY DEF TypeOK
<1> HIDE DEF HandsOnOneSeat
<1> QED
  BY <1>1, OneMoves

\* Who has written nothing has promoted nobody.
LEMMA NobodyYet ==
    ASSUME NEW r, r.op = "settings" => r.row = 0,
           r.pc \in {"find", "count", "insert"} => r.op # "settings",
           r.pc # "pick"
    PROVE  HandsOnOneSeat(r, Untouched)
  BY DEF HandsOnOneSeat, Untouched

\* Of a set of rows, at most one is the earliest.
LEMMA EarliestIsOne ==
    ASSUME NEW S \in SUBSET RowId, NEW i \in Earliest(S, 1), NEW j \in Earliest(S, 1)
    PROVE  i = j
<1>1. ASSUME NEW x \in Earliest(S, 1), NEW y \in S, y < x PROVE FALSE
  <2>1. IsFiniteSet(RowId)
    BY ConstantsAssumption, FS_Interval DEF RowId
  <2>2. IsFiniteSet({k \in S : k < x})
    <3>1. {k \in S : k < x} \subseteq RowId
      OBVIOUS
    <3> QED
      BY <2>1, <3>1, FS_Subset
  <2>3. Cardinality({k \in S : k < x}) \in Nat /\ Cardinality({k \in S : k < x}) < 1
    BY <2>2, FS_CardinalityType DEF Earliest
  <2>4. {k \in S : k < x} = {}
    BY <2>2, <2>3, FS_EmptySet
  <2> QED
    BY <1>1, <2>4
<1>2. i \in S /\ j \in S /\ i \in Int /\ j \in Int
  BY ConstantsAssumption DEF Earliest, RowId
<1>3. ~(i < j) /\ ~(j < i)
  BY <1>1, <1>2
<1> QED
  BY <1>2, <1>3

\* Every step keeps a request from promoting more than it may.
LEMMA MeasureStep ==
    TransactionsApart /\ PromotesInMeasure /\ [Next]_vars => PromotesInMeasure'
<1> SUFFICES ASSUME TransactionsApart, PromotesInMeasure, [Next]_vars
             PROVE  PromotesInMeasure'
  OBVIOUS
<1>0. TypeOK /\ NoLocksOutsideTx
  BY DEF TransactionsApart
<1>a. Idle.pc = "idle" /\ Idle.row = 0 /\ Idle.op = "none"
  BY DEF Idle
<1>b. \A q \in Req : req[q] \in Request /\ HandsOnOneSeat(req[q], pend[q])
  BY <1>0 DEF TypeOK, PromotesInMeasure
\* A request that begins, or ends, with nothing written.
<1>c. ASSUME NEW q \in Req, NEW r, req' = [req EXCEPT ![q] = r],
             UNCHANGED pend, req[q].pc \in OutsideTx,
             r.op = "settings" => r.row = 0,
             r.pc \in {"find", "count", "insert"} => r.op # "settings",
             r.pc # "pick"
      PROVE  PromotesInMeasure'
  <2>1. HandsOnOneSeat(r, pend[q])
    BY <1>0, <1>c, NobodyYet DEF NoLocksOutsideTx
  <2> QED
    BY <1>0, <1>c, <2>1, OneReads
<1>1. ASSUME NEW q \in Req, NEW u \in User, Register(q, u) PROVE PromotesInMeasure'
  <2> DEFINE r == [Idle EXCEPT !.pc = "find", !.op = "register", !.user = u,
                              !.seenCap = cap]
  <2>1. req' = [req EXCEPT ![q] = r] /\ r.pc = "find" /\ r.op = "register"
    BY <1>1 DEF Register, Idle
  <2>2. UNCHANGED pend /\ req[q].pc \in OutsideTx
    BY <1>1 DEF Register, At, OutsideTx
  <2> HIDE DEF r
  <2> QED
    BY <1>c, <2>1, <2>2
<1>2. ASSUME NEW q \in Req, NEW u \in User, Cancel(q, u) PROVE PromotesInMeasure'
  <2>1. PICK i \in RowId :
          req' = [req EXCEPT ![q] =
               [Idle EXCEPT !.pc = "write", !.op = "cancel", !.user = u,
                            !.row = i, !.to = "cancelled",
                            !.frees = FreesSeat(reg[i], "cancelled")]]
    BY <1>2 DEF Cancel
  <2> DEFINE r == [Idle EXCEPT !.pc = "write", !.op = "cancel", !.user = u,
                               !.row = i, !.to = "cancelled",
                               !.frees = FreesSeat(reg[i], "cancelled")]
  <2>2. req' = [req EXCEPT ![q] = r] /\ r.pc = "write" /\ r.op = "cancel"
    BY <2>1 DEF Idle
  <2>3. UNCHANGED pend /\ req[q].pc \in OutsideTx
    BY <1>2 DEF Cancel, At, OutsideTx
  <2> HIDE DEF r
  <2> QED
    BY <1>c, <2>2, <2>3
<1>3. ASSUME NEW q \in Req, NEW u \in User, NEW s \in Active, Add(q, u, s)
      PROVE PromotesInMeasure'
  <2> DEFINE r == [Idle EXCEPT !.pc = "insert", !.op = "add", !.user = u, !.to = s]
  <2>1. req' = [req EXCEPT ![q] = r] /\ r.pc = "insert" /\ r.op = "add"
    BY <1>3 DEF Add, Idle
  <2>2. UNCHANGED pend /\ req[q].pc \in OutsideTx
    BY <1>3 DEF Add, At, OutsideTx
  <2> HIDE DEF r
  <2> QED
    BY <1>c, <2>1, <2>2
<1>4. ASSUME NEW q \in Req, NEW i \in RowId,
             NEW s \in Active \cup {"cancelled"}, SetStatus(q, i, s)
      PROVE PromotesInMeasure'
  <2> DEFINE r == [Idle EXCEPT !.pc = "write", !.op = "setStatus", !.row = i,
                               !.to = s, !.frees = FreesSeat(reg[i], s)]
  <2>1. req' = [req EXCEPT ![q] = r] /\ r.pc = "write" /\ r.op = "setStatus"
    BY <1>4 DEF SetStatus, Idle
  <2>2. UNCHANGED pend /\ req[q].pc \in OutsideTx
    BY <1>4 DEF SetStatus, At, OutsideTx
  <2> HIDE DEF r
  <2> QED
    BY <1>c, <2>1, <2>2
<1>5. ASSUME NEW q \in Req, NEW i \in RowId, Remove(q, i) PROVE PromotesInMeasure'
  <2> DEFINE r == [Idle EXCEPT !.pc = "write", !.op = "remove", !.row = i,
                               !.frees = FreesSeat(reg[i], "absent")]
  <2>1. req' = [req EXCEPT ![q] = r] /\ r.pc = "write" /\ r.op = "remove"
    BY <1>5 DEF Remove, Idle
  <2>2. UNCHANGED pend /\ req[q].pc \in OutsideTx
    BY <1>5 DEF Remove, At, OutsideTx
  <2> HIDE DEF r
  <2> QED
    BY <1>c, <2>1, <2>2
<1>6. ASSUME NEW q \in Req, NEW c \in Caps, SaveSettings(q, c)
      PROVE PromotesInMeasure'
  <2> DEFINE r == [Idle EXCEPT !.pc = "readCap", !.op = "settings"]
  <2>1. req' = [req EXCEPT ![q] = r] /\ r.pc = "readCap" /\ r.row = 0
    BY <1>6 DEF SaveSettings, Idle
  <2>2. UNCHANGED pend /\ req[q].pc \in OutsideTx
    BY <1>6 DEF SaveSettings, At, OutsideTx
  <2> HIDE DEF r
  <2> QED
    BY <1>c, <2>1, <2>2
<1>d. ASSUME NEW q \in Req, req' = [req EXCEPT ![q] = Idle],
             UNCHANGED pend, req[q].pc \in OutsideTx
      PROVE  PromotesInMeasure'
  BY <1>a, <1>c, <1>d
<1>7. ASSUME NEW q \in Req, FindActive(q) PROVE PromotesInMeasure'
  <2>1. UNCHANGED pend /\ req[q].pc \in OutsideTx /\ req[q].pc = "find"
    BY <1>7 DEF FindActive, At, OutsideTx
  <2>2. CASE req' = [req EXCEPT ![q].pc = "count"]
    <3> DEFINE r == [req[q] EXCEPT !.pc = "count"]
    <3>1. /\ req' = [req EXCEPT ![q] = r]
          /\ r.pc = "count" /\ r.row = req[q].row /\ r.op = req[q].op
      BY <1>b, <2>2 DEF Request
    <3>2. r.op # "settings"
      BY <1>b, <2>1, <3>1 DEF HandsOnOneSeat
    <3> HIDE DEF r
    <3> QED
      BY <1>c, <2>1, <3>1, <3>2
  <2> QED
    BY <1>7, <1>d, <2>1, <2>2 DEF FindActive, Answer, Goto
<1>8. ASSUME NEW q \in Req, CountConfirmed(q) PROVE PromotesInMeasure'
  <2>1. UNCHANGED pend /\ req[q].pc \in OutsideTx /\ req[q].pc = "count"
    BY <1>8 DEF CountConfirmed, At, OutsideTx
  <2> DEFINE s == Outcome(Cardinality(With(reg, "confirmed")), req[q].seenCap)
             r == [req[q] EXCEPT !.pc = "insert", !.to = s]
  <2>2. req' = [req EXCEPT ![q] = [@ EXCEPT !.pc = "insert", !.to = s]]
    BY <1>8 DEF CountConfirmed
  <2> HIDE DEF s
  <2>3. /\ req' = [req EXCEPT ![q] = r]
        /\ r.pc = "insert" /\ r.row = req[q].row /\ r.op = req[q].op
    BY <1>b, <2>2 DEF Request
  <2>4. r.op # "settings"
    BY <1>b, <2>1, <2>3 DEF HandsOnOneSeat
  <2> HIDE DEF r
  <2> QED
    BY <1>c, <2>1, <2>3, <2>4
<1>9. ASSUME NEW q \in Req, Insert(q) PROVE PromotesInMeasure'
  <2>0. req[q].pc = "insert" /\ req[q].pc \in OutsideTx
    BY <1>9 DEF Insert, At, OutsideTx
  <2>1. CASE UniqueViolation(req[q].user, 0) \/ last = MaxRows
    BY <1>9, <1>d, <2>0, <2>1 DEF Insert, Answer
  <2>2. CASE ~(UniqueViolation(req[q].user, 0) \/ last = MaxRows)
    <3> DEFINE n == last + 1
               r == [req[q] EXCEPT !.pc = "guard", !.row = n]
               w == [pend[q] EXCEPT ![n] = req[q].to]
    <3>1. /\ req' = [req EXCEPT ![q] = [@ EXCEPT !.pc = "guard", !.row = n]]
          /\ pend' = [pend EXCEPT ![q][n] = req[q].to]
      BY <1>9, <2>2 DEF Insert
    <3>2. pend[q] = Untouched
      BY <1>0, <2>0 DEF NoLocksOutsideTx
    <3> HIDE DEF n
    <3>3. \A i \in RowId : i # n => w[i] = "same"
      BY <3>2 DEF Untouched
    <3>4. /\ req' = [req EXCEPT ![q] = r] /\ pend' = [pend EXCEPT ![q] = w]
          /\ r.pc = "guard" /\ r.row = n /\ r.op = req[q].op
      BY <1>b, <3>1 DEF Request
    <3>5. r.op # "settings"
      BY <1>b, <2>0, <3>4 DEF HandsOnOneSeat
    <3> HIDE DEF r, w
    <3>6. HandsOnOneSeat(r, w)
      BY <3>3, <3>4, <3>5 DEF HandsOnOneSeat
    <3> QED
      BY <1>0, <3>4, <3>6, OneMoves
  <2> QED
    BY <2>1, <2>2
<1>10. ASSUME NEW q \in Req, Write(q) PROVE PromotesInMeasure'
  <2>0. req[q].pc = "write" /\ req[q].pc \in OutsideTx
    BY <1>10 DEF Write, At, OutsideTx
  <2>1. CASE UNCHANGED pend /\ req' = [req EXCEPT ![q] = Idle]
    BY <1>d, <2>0, <2>1
  <2>2. ASSUME NEW pc \in {"readCap", "guard"},
               req' = [req EXCEPT ![q].pc = pc],
               pend' = [pend EXCEPT ![q][req[q].row] = req[q].to]
        PROVE  PromotesInMeasure'
    <3> DEFINE n == req[q].row
               r == [req[q] EXCEPT !.pc = pc]
               w == [pend[q] EXCEPT ![n] = req[q].to]
    <3>1. pend[q] = Untouched
      BY <1>0, <2>0 DEF NoLocksOutsideTx
    <3>2. \A i \in RowId : i # n => w[i] = "same"
      BY <3>1 DEF Untouched
    <3>3. /\ req' = [req EXCEPT ![q] = r] /\ pend' = [pend EXCEPT ![q] = w]
          /\ r.pc = pc /\ r.row = n /\ r.op = req[q].op
      BY <1>b, <2>2 DEF Request
    <3>4. r.op = "settings" => r.row = 0
      BY <1>b, <3>3 DEF HandsOnOneSeat
    <3> HIDE DEF r, w, n
    <3>5. HandsOnOneSeat(r, w)
      BY <3>2, <3>3, <3>4 DEF HandsOnOneSeat
    <3> QED
      BY <1>0, <3>3, <3>5, OneMoves
  <2> QED
    BY <1>10, <2>1, <2>2 DEF Write, Answer, Goto
<1>11. ASSUME NEW q \in Req, ReadCapacity(q) PROVE PromotesInMeasure'
  <2>1. PICK pc \in {"seats", "pick", "guard"} :
          /\ req' = [req EXCEPT ![q] = [@ EXCEPT !.seenCap = cap,
                                                 !.pc = pc,
                                                 !.room = Unlimited]]
          /\ pc = "pick" => req[q].op = "settings"
    BY <1>11 DEF ReadCapacity
  <2> DEFINE r == [req[q] EXCEPT !.seenCap = cap, !.pc = pc, !.room = Unlimited]
  <2>2. /\ req' = [req EXCEPT ![q] = r]
        /\ r.pc = pc /\ r.row = req[q].row /\ r.op = req[q].op
    BY <1>b, <2>1 DEF Request
  <2>3. UNCHANGED pend /\ req[q].pc = "readCap"
    BY <1>11 DEF ReadCapacity, At
  <2> HIDE DEF r
  <2>4. HandsOnOneSeat(r, pend[q])
    BY <1>b, <2>1, <2>2, <2>3 DEF HandsOnOneSeat
  <2> QED
    BY <1>0, <2>2, <2>3, <2>4, OneReads
<1>12. ASSUME NEW q \in Req, CountSeats(q) PROVE PromotesInMeasure'
  <2>0. UNCHANGED pend /\ req[q].pc = "seats"
    BY <1>12 DEF CountSeats, At
  <2> DEFINE m == Room(q, Cardinality(With(SeenBy(q), "confirmed")))
  <2>1. CASE req' = [req EXCEPT ![q] = [@ EXCEPT !.pc = "pick", !.room = m]]
    <3>1. req[q].op # "settings" => m = 1
      BY DEF Room
    <3> HIDE DEF m
    <3> DEFINE r == [req[q] EXCEPT !.pc = "pick", !.room = m]
    <3>2. /\ req' = [req EXCEPT ![q] = r] /\ r.room = m
          /\ r.pc = "pick" /\ r.row = req[q].row /\ r.op = req[q].op
      BY <1>b, <2>1 DEF Request
    <3> HIDE DEF r
    <3>3. HandsOnOneSeat(r, pend[q])
      BY <1>b, <2>0, <3>1, <3>2 DEF HandsOnOneSeat
    <3> QED
      BY <1>0, <2>0, <3>2, <3>3, OneReads
  <2>2. CASE req' = [req EXCEPT ![q].pc = "guard"]
    <3> DEFINE r == [req[q] EXCEPT !.pc = "guard"]
    <3>1. /\ req' = [req EXCEPT ![q] = r]
          /\ r.pc = "guard" /\ r.row = req[q].row /\ r.op = req[q].op
      BY <1>b, <2>2 DEF Request
    <3> HIDE DEF r
    <3>2. HandsOnOneSeat(r, pend[q])
      BY <1>b, <2>0, <3>1 DEF HandsOnOneSeat
    <3> QED
      BY <1>0, <2>0, <3>1, <3>2, OneReads
  <2> QED
    BY <1>12, <2>1, <2>2 DEF CountSeats, Goto
<1>13. ASSUME NEW q \in Req, Promote(q) PROVE PromotesInMeasure'
  <2> DEFINE r == [req[q] EXCEPT !.pc = "guard"]
             w == [i \in RowId |-> IF i \in Promoted(q) THEN "confirmed"
                                   ELSE pend[q][i]]
  <2>1. /\ req' = [req EXCEPT ![q] = r] /\ pend' = [pend EXCEPT ![q] = w]
        /\ r.pc = "guard" /\ r.row = req[q].row /\ r.op = req[q].op
    BY <1>13, <1>b DEF Promote, Goto, Request
  <2>2. req[q].pc = "pick"
    BY <1>13 DEF Promote, At
  <2>3. \A i \in RowId \ {r.row} : w[i] # "same" => i \in Promoted(q)
    BY <1>b, <2>1, <2>2 DEF HandsOnOneSeat
  <2>4. ASSUME r.op # "settings", NEW i \in Promoted(q), NEW j \in Promoted(q)
        PROVE  i = j
    <3>1. req[q].room = 1
      BY <1>b, <2>1, <2>2, <2>4 DEF HandsOnOneSeat
    <3>2. Candidates(q) \in SUBSET RowId
      BY DEF Candidates, With
    <3>3. Promoted(q) = Earliest(Candidates(q), 1)
      BY <3>1 DEF Promoted, Unlimited
    <3> HIDE DEF r, w
    <3> QED
      BY <2>4, <3>2, <3>3, EarliestIsOne
  <2>5. r.op = "settings" => r.row = 0
    BY <1>b, <2>1 DEF HandsOnOneSeat
  <2> HIDE DEF r, w
  <2>6. HandsOnOneSeat(r, w)
    BY <2>1, <2>3, <2>4, <2>5 DEF HandsOnOneSeat
  <2> QED
    BY <1>0, <2>1, <2>6, OneMoves
<1>14. ASSUME NEW q \in Req, Guard(q) PROVE PromotesInMeasure'
  <2>0. req[q].pc = "guard"
    BY <1>14 DEF Guard, At
  <2>1. CASE req' = [req EXCEPT ![q].pc = "commit"] /\ UNCHANGED pend
    <3> DEFINE r == [req[q] EXCEPT !.pc = "commit"]
    <3>1. /\ req' = [req EXCEPT ![q] = r]
          /\ r.pc = "commit" /\ r.row = req[q].row /\ r.op = req[q].op
      BY <1>b, <2>1 DEF Request
    <3> HIDE DEF r
    <3>2. HandsOnOneSeat(r, pend[q])
      BY <1>b, <2>0, <3>1 DEF HandsOnOneSeat
    <3> QED
      BY <1>0, <2>1, <3>1, <3>2, OneReads
  <2>2. CASE /\ req[q].op = "register"
             /\ req' = [req EXCEPT ![q] = [@ EXCEPT !.pc = "insert",
                                                    !.to = "waitlisted"]]
             /\ pend' = [pend EXCEPT ![q] = Untouched]
    <3> DEFINE r == [req[q] EXCEPT !.pc = "insert", !.to = "waitlisted"]
    <3>1. /\ req' = [req EXCEPT ![q] = r]
          /\ r.pc = "insert" /\ r.op = "register"
      BY <1>b, <2>2 DEF Request
    <3> HIDE DEF r
    <3> QED
      BY <1>0, <2>2, <3>1, NobodyYet, OneMoves
  <2>3. CASE req' = [req EXCEPT ![q] = Idle] /\ pend' = [pend EXCEPT ![q] = Untouched]
    BY <1>0, <1>a, <2>3, NobodyYet, OneMoves
  <2> QED
    BY <1>14, <2>1, <2>2, <2>3 DEF Guard, Answer, Goto, Rollback
<1>15. ASSUME NEW q \in Req, NEW pc \in {"counts", "insert"},
              pc = "insert" => req[q].op = "register",
              req' = [req EXCEPT ![q].pc = pc], pend' = [pend EXCEPT ![q] = Untouched]
       PROVE  PromotesInMeasure'
  <2> DEFINE r == [req[q] EXCEPT !.pc = pc]
  <2>1. /\ req' = [req EXCEPT ![q] = r]
        /\ r.pc = pc /\ r.row = req[q].row /\ r.op = req[q].op
    BY <1>b, <1>15 DEF Request
  <2>2. r.op = "settings" => r.row = 0
    BY <1>b, <2>1 DEF HandsOnOneSeat
  <2> HIDE DEF r
  <2> QED
    BY <1>0, <1>15, <2>1, <2>2, NobodyYet, OneMoves
<1>e. ASSUME NEW q \in Req, req' = [req EXCEPT ![q] = Idle],
             pend' = [pend EXCEPT ![q] = Untouched]
      PROVE  PromotesInMeasure'
  BY <1>0, <1>a, <1>e, NobodyYet, OneMoves
<1>16. ASSUME NEW q \in Req, Commit(q) PROVE PromotesInMeasure'
  BY <1>15, <1>16, <1>e DEF Commit, Publish, Rollback, Answer, Goto
<1>17. ASSUME NEW q \in Req, CommitAnswerLost(q) PROVE PromotesInMeasure'
  BY <1>15, <1>17 DEF CommitAnswerLost, Publish, Rollback, Goto
<1>18. ASSUME NEW q \in Req, ReadCounts(q) PROVE PromotesInMeasure'
  <2>0. UNCHANGED pend /\ req[q].pc \in OutsideTx
    BY <1>18 DEF ReadCounts, At, OutsideTx
  <2> DEFINE t == CountsOf(reg)
             r == [req[q] EXCEPT !.pc = "announce", !.tally = t]
  <2>1. req' = [req EXCEPT ![q] = [@ EXCEPT !.pc = "announce", !.tally = t]]
    BY <1>18 DEF ReadCounts
  <2> HIDE DEF t
  <2>2. /\ req' = [req EXCEPT ![q] = r]
        /\ r.pc = "announce" /\ r.row = req[q].row /\ r.op = req[q].op
    BY <1>b, <2>1 DEF Request
  <2>3. r.op = "settings" => r.row = 0
    BY <1>b, <2>2 DEF HandsOnOneSeat
  <2> HIDE DEF r
  <2> QED
    BY <1>c, <2>0, <2>2, <2>3
<1>19. ASSUME NEW q \in Req, Announce(q) PROVE PromotesInMeasure'
  BY <1>19, <1>d DEF Announce, At, Answer, OutsideTx
<1>20. ASSUME NEW q \in Req, Fail(q) PROVE PromotesInMeasure'
  BY <1>20, <1>e DEF Fail, Rollback, Answer
<1>21. CASE UNCHANGED vars
  BY <1>21 DEF vars, PromotesInMeasure, HandsOnOneSeat
<1> QED
  BY <1>1, <1>2, <1>3, <1>4, <1>5, <1>6, <1>7, <1>8, <1>9, <1>10, <1>11,
     <1>12, <1>13, <1>14, <1>16, <1>17, <1>18, <1>19, <1>20, <1>21
     DEF Next, Begin, Step

\* At first nobody has promoted anybody.
LEMMA MeasureInit == Init => PromotesInMeasure
<1> SUFFICES ASSUME Init, NEW q \in Req PROVE HandsOnOneSeat(req[q], pend[q])
  BY DEF PromotesInMeasure
<1>1. req[q].pc = "idle" /\ req[q].op = "none" /\ pend[q] = Untouched
  BY DEF Init, Idle
<1> QED
  BY <1>1, NobodyYet

\* The invariant holds in every state, however requests interleave and fail.
THEOREM Invariance == Spec => []IInv
<1>1. Init => IInv
  BY ApartInit, MeasureInit DEF IInv
<1>2. IInv /\ [Next]_vars => IInv'
  BY ApartStep, MeasureStep DEF IInv
<1> QED
  BY <1>1, <1>2, PTL DEF Spec

-----------------------------------------------------------------------------
(* What follows *)

\* An account never holds two active registrations (event_registration_active_uq
\* against the reads that registerForEvent and addRegistration rely on).
THEOREM OneActiveRegistration == Spec => []OneActivePerUser
<1>1. IInv => OneActivePerUser
  BY DEF IInv, TransactionsApart, OnePossiblyActive, PossiblyActive, OneActivePerUser
<1> QED
  BY <1>1, Invariance, PTL

\* No two transactions ever hold a write of the same registration.
THEOREM LocksAreExclusive == Spec => []RowsLocked
<1>1. IInv => RowsLocked
  BY DEF IInv, TransactionsApart
<1> QED
  BY <1>1, Invariance, PTL

\* Only a step that publishes a transaction changes the table.
LEMMA OnlyCommitsChangeTheTable ==
    ASSUME TypeOK, [Next]_vars, reg' # reg
    PROVE  \E q \in Req : Commits(q) /\ Publish(q)
<1>1. ASSUME NEW q \in Req, Commit(q) \/ CommitAnswerLost(q)
      PROVE  Commits(q) /\ Publish(q)
  <2>1. Publish(q) /\ req[q].pc = "commit"
    BY <1>1 DEF Commit, CommitAnswerLost, At
  <2>2. req'[q].pc # "commit"
    BY <1>1 DEF Commit, CommitAnswerLost, Answer, Goto, Idle, TypeOK, Request
  <2> QED
    BY <2>1, <2>2 DEF Commits, At, Publish
<1>2. \E q \in Req : Commit(q) \/ CommitAnswerLost(q)
  BY ZenonT(60) DEF Next, Begin, Step, vars, Register, Cancel, Add, SetStatus, Remove,
     SaveSettings, FindActive, CountConfirmed, Insert, Write, ReadCapacity,
     CountSeats, Promote, Guard, ReadCounts, Announce, Fail
<1> QED
  BY <1>1, <1>2

\* A promotion never revives a registration that was cancelled or removed
\* while the request that promotes was running.
THEOREM PromotionRevivesNobody == Spec => PromotesOnlyWaiting
<1>1. ASSUME IInv, [Next]_vars, NEW i \in RowId,
             reg[i] \in {"absent", "cancelled"}, reg'[i] = "confirmed"
      PROVE  \E q \in Req : Commits(q) /\ req[q].row = i
  <2>1. PICK q \in Req : Commits(q) /\ Publish(q)
    BY <1>1, OnlyCommitsChangeTheTable DEF IInv, TransactionsApart
  <2>2. pend[q][i] = "confirmed"
    BY <1>1, <2>1 DEF Publish, SeenBy
  <2>3. req[q].row = i
    BY <1>1, <2>2 DEF IInv, TransactionsApart, OnlyWaitingConfirmed
  <2> QED
    BY <2>1, <2>3
<1>2. IInv /\ [Next]_vars =>
        \A i \in RowId :
          reg[i] \in {"absent", "cancelled"} /\ reg'[i] = "confirmed"
          => \E q \in Req : Commits(q) /\ req[q].row = i
  BY <1>1
<1> QED
  BY <1>2, Invariance, PTL DEF Spec, PromotesOnlyWaiting

\* Confirmed registrations grow past the capacity only by the commit of a
\* transaction whose capacity check another commit overtook: the deferred
\* trigger is sound by itself, and the race is the whole of its weakness.
THEOREM OversellNeedsARace == Spec => OversoldOnlyByRace
<1>1. ASSUME IInv, [Next]_vars,
             Cardinality(Seated') > Cardinality(Seated),
             cap' # Unlimited, Cardinality(Seated') > cap'
      PROVE  \E q \in stale : Commits(q)
  <2>0. TypeOK /\ CheckHolds
    BY <1>1 DEF IInv, TransactionsApart
  <2>1. reg' # reg
    <3>1. SUFFICES ASSUME reg' = reg PROVE FALSE
      OBVIOUS
    <3>2. Seated' = Seated
      BY <3>1 DEF Seated, With
    <3>3. Cardinality(Seated) \in Nat
      BY WithBounds DEF Seated
    <3> QED
      BY <1>1, <3>2, <3>3
  <2>2. PICK q \in Req : Commits(q) /\ Publish(q)
    BY <1>1, <2>0, <2>1, OnlyCommitsChangeTheTable
  <2>3. cap' = cap /\ Seated' = With(SeenBy(q), "confirmed")
    BY <2>2 DEF Publish, Seated, With
  <2>4. Cardinality(Seated) \in Nat /\ Cardinality(Seated') \in Nat /\ cap \in Nat
    <3>1. Cardinality(Seated) \in Nat /\ Cardinality(With(SeenBy(q), "confirmed")) \in Nat
      BY WithBounds DEF Seated
    <3> QED
      BY <1>1, <2>0, <2>3, <3>1 DEF TypeOK
  <2>5. Confirming(q)
    <3>1. SUFFICES ASSUME ~Confirming(q) PROVE FALSE
      OBVIOUS
    <3>2. With(SeenBy(q), "confirmed") \subseteq Seated
      BY <3>1 DEF Confirming, With, SeenBy, Seated
    <3>3. Cardinality(Seated') <= Cardinality(Seated)
      BY <2>3, <3>2, WithBounds, FS_Subset DEF Seated
    <3> QED
      BY <1>1, <2>4, <3>3
  <2>6. q \in stale
    <3>1. SUFFICES ASSUME q \notin stale PROVE FALSE
      OBVIOUS
    <3>2. Cardinality(With(SeenBy(q), "confirmed")) <= cap
      BY <1>1, <2>0, <2>2, <2>3, <2>5, <3>1 DEF CheckHolds, Commits
    <3> QED
      BY <1>1, <2>3, <2>4, <3>2
  <2> QED
    BY <2>2, <2>6
<1> QED
  BY <1>1, Invariance, PTL DEF Spec, OversoldOnlyByRace
-----------------------------------------------------------------------------
(* The ledger of seats *)

\* A seat is the status of the account's one active row.
SeatsAreRows ==
    \A u \in User :
        /\ \A i \in RowId : owner[i] = u /\ reg[i] \in Active => SeatOf(u) = reg[i]
        /\ (\A i \in RowId : owner[i] = u => reg[i] \notin Active) => SeatOf(u) = "none"

LEMMA SeatIs == OneActivePerUser => SeatsAreRows
<1> SUFFICES ASSUME OneActivePerUser, NEW u \in User
             PROVE  /\ \A i \in RowId : owner[i] = u /\ reg[i] \in Active
                                        => SeatOf(u) = reg[i]
                    /\ (\A i \in RowId : owner[i] = u => reg[i] \notin Active)
                       => SeatOf(u) = "none"
  BY DEF SeatsAreRows
<1>1. ASSUME NEW i \in RowId, owner[i] = u, reg[i] = "confirmed"
      PROVE  SeatOf(u) = "confirmed"
  BY <1>1 DEF SeatOf, Seated, With
<1>2. ASSUME NEW i \in RowId, owner[i] = u, reg[i] = "waitlisted"
      PROVE  SeatOf(u) = "waitlisted"
  <2>1. ~\E j \in Seated : owner[j] = u
    BY <1>2 DEF OneActivePerUser, Seated, With, Active
  <2> QED
    BY <1>2, <2>1 DEF SeatOf, Waiting, With
<1>3. ASSUME \A i \in RowId : owner[i] = u => reg[i] \notin Active
      PROVE  SeatOf(u) = "none"
  BY <1>3 DEF SeatOf, Seated, Waiting, With, Active
<1> QED
  BY <1>1, <1>2, <1>3 DEF Active

\* A step that changes no row leaves every seat as it is: a row that gets its
\* owner is not active yet.
LEMMA SeatsStay ==
    ASSUME IInv, [Next]_vars, reg' = reg, NEW u \in User
    PROVE  SeatOf(u)' = SeatOf(u)
<1>1. \A i \in RowId : reg[i] # "absent" => owner'[i] = owner[i]
  <2>1. \/ owner' = owner
        \/ /\ last # MaxRows
           /\ \E q \in Req : owner' = [owner EXCEPT ![last + 1] = req[q].user]
    BY ZenonT(60) DEF Next, Begin, Step, vars, Register, Cancel, Add, SetStatus, Remove,
       SaveSettings, FindActive, CountConfirmed, Insert, Write, ReadCapacity,
       CountSeats, Promote, Guard, Commit, CommitAnswerLost, Publish, ReadCounts,
       Announce, Fail
  <2>2. TypeOK /\ FreshRows
    BY DEF IInv, TransactionsApart
  <2>3. \A i \in RowId : reg[i] # "absent" => i # last + 1
    BY <2>2, ExistingRow, ConstantsAssumption DEF RowId, TypeOK
  <2> QED
    BY <2>1, <2>2, <2>3 DEF TypeOK
<1>2. Seated' = Seated /\ Waiting' = Waiting
  BY DEF Seated, Waiting, With
<1>3. \A i \in Seated \cup Waiting : owner'[i] = owner[i]
  BY <1>1 DEF Seated, Waiting, With
<1>4. (\E i \in Seated' : owner'[i] = u) <=> (\E i \in Seated : owner[i] = u)
  BY <1>2, <1>3
<1>5. (\E i \in Waiting' : owner'[i] = u) <=> (\E i \in Waiting : owner[i] = u)
  BY <1>2, <1>3
<1> QED
  BY <1>4, <1>5 DEF SeatOf

\* A commit hands a seat to an account only if it changes one of its rows; by
\* any row but the request's own, the account gets the seat it waited for.
LEMMA SeatsMove ==
    ASSUME IInv, IInv', NEW q \in Req, Publish(q), NEW u \in User,
           SeatOf(u)' # SeatOf(u)
    PROVE  \E i \in RowId :
             /\ owner[i] = u /\ pend[q][i] # "same"
             /\ i = req[q].row \/ (SeatOf(u) = "waitlisted" /\ SeatOf(u)' = "confirmed")
<1>0. OneActivePerUser /\ OneActivePerUser'
  BY DEF IInv, TransactionsApart, OnePossiblyActive, PossiblyActive, OneActivePerUser
<1>a. /\ owner' = owner
      /\ \A i \in RowId : reg'[i] = IF pend[q][i] = "same" THEN reg[i] ELSE pend[q][i]
  BY DEF Publish, SeenBy
<1>b. /\ \A i \in RowId : owner[i] = u /\ reg[i] \in Active => SeatOf(u) = reg[i]
      /\ (\A i \in RowId : owner[i] = u => reg[i] \notin Active) => SeatOf(u) = "none"
  BY <1>0, SeatIs DEF SeatsAreRows
<1>c. /\ \A i \in RowId : owner[i] = u /\ reg'[i] \in Active => SeatOf(u)' = reg'[i]
      /\ (\A i \in RowId : owner[i] = u => reg'[i] \notin Active) => SeatOf(u)' = "none"
  <2>1. SeatsAreRows'
    BY <1>0, SeatIs, PTL
  <2> QED
    BY <1>a, <2>1 DEF SeatsAreRows
<1>1. PICK i \in RowId : owner[i] = u /\ reg'[i] # reg[i]
  <2>1. SUFFICES ASSUME \A i \in RowId : owner[i] = u => reg'[i] = reg[i] PROVE FALSE
    OBVIOUS
  <2>2. CASE \E i \in RowId : owner[i] = u /\ reg[i] \in Active
    BY <1>b, <1>c, <2>1, <2>2
  <2>3. CASE \A i \in RowId : owner[i] = u => reg[i] \notin Active
    BY <1>b, <1>c, <2>1, <2>3
  <2> QED
    BY <2>2, <2>3
<1>2. pend[q][i] # "same"
  BY <1>1, <1>a
<1>3. CASE i # req[q].row
  <2>1. pend[q][i] = "confirmed" /\ reg[i] = "waitlisted"
    BY <1>2, <1>3 DEF IInv, TransactionsApart, OnlyWaitingConfirmed
  <2>2. reg'[i] = "confirmed"
    BY <1>a, <2>1
  <2>3. SeatOf(u) = "waitlisted" /\ SeatOf(u)' = "confirmed"
    BY <1>1, <1>b, <1>c, <2>1, <2>2 DEF Active
  <2> QED
    BY <1>1, <1>2, <2>3
<1> QED
  BY <1>1, <1>2, <1>3

\* What a commit does to the ledger: it changes the seat of the account of the
\* request's own row, and of accounts whose members waited for one; other than
\* by a settings save, of one of these at most.
LEMMA CommitMovesLedger ==
    ASSUME IInv, IInv', NEW q \in Req, Publish(q),
           NEW old, old = [u \in User |-> SeatOf(u)],
           NEW new, new = [u \in User |-> SeatOf(u)']
    PROVE  Ledger!Fill(old, new) \/ Ledger!Change(old, new)
<1> DEFINE C == Ledger!Changed(old, new)
           G == Ledger!Given(old, new)
<1>1. C \subseteq User
  BY DEF Ledger!Changed
<1>2. \A u \in C : SeatOf(u)' # SeatOf(u)
  BY DEF Ledger!Changed
<1>3. \A u \in C : u \in G <=> SeatOf(u) = "waitlisted" /\ SeatOf(u)' = "confirmed"
  BY <1>1 DEF Ledger!Given
<1>4. \A u \in C : \E i \in RowId : /\ owner[i] = u /\ pend[q][i] # "same"
                                    /\ i = req[q].row \/ u \in G
  BY <1>1, <1>2, <1>3, SeatsMove
<1> HIDE DEF C, G
<1>5. CASE C \subseteq G
  BY <1>5 DEF Ledger!Fill, C, G
<1>6. CASE ~(C \subseteq G)
  <2>1. PICK u \in C : u \notin G
    BY <1>6
  <2>2. req[q].row \in RowId /\ owner[req[q].row] = u
    BY <1>4, <2>1
  <2>3. req[q].op # "settings"
    BY <2>2 DEF IInv, PromotesInMeasure, HandsOnOneSeat, RowId
  <2>4. \A v \in C \ {u} : \E i \in RowId \ {req[q].row} :
          owner[i] = v /\ pend[q][i] # "same" /\ v \in G
    BY <1>4, <2>2
  <2>5. \A i, j \in RowId \ {req[q].row} :
          pend[q][i] # "same" /\ pend[q][j] # "same" => i = j
    BY <2>3 DEF IInv, PromotesInMeasure, HandsOnOneSeat
  <2>6. \A v, w \in C \ {u} : v = w
    BY <2>4, <2>5
  <2>7. C \ {u} \subseteq G
    BY <2>4
  <2> QED
    BY <2>1, <2>6, <2>7 DEF Ledger!Change, C, G
<1> QED
  BY <1>5, <1>6

\* However requests interleave and fail, the table of registrations moves as
\* the ledger of seats does: a request changes the seat of its own account and
\* hands the one it gives up to one member who waits, and a raised capacity
\* only hands out seats (registration.mjs, settings.mjs).
THEOREM RegistrationsImplementLedger == Spec => ImplementsLedger
<1> DEFINE seat == [u \in User |-> SeatOf(u)]
<1>1. Init => Ledger!Init
  <2> SUFFICES ASSUME Init PROVE \A u \in User : SeatOf(u) = "none"
    BY DEF Ledger!Init
  <2>1. Seated = {} /\ Waiting = {}
    BY DEF Init, Seated, Waiting, With
  <2> QED
    BY <2>1 DEF SeatOf
<1>2. IInv /\ IInv' /\ [Next]_vars => [Ledger!Next]_seat
  <2> SUFFICES ASSUME IInv, IInv', [Next]_vars PROVE [Ledger!Next]_seat
    OBVIOUS
  <2>1. CASE reg' = reg
    <3>1. \A u \in User : SeatOf(u)' = SeatOf(u)
      BY <2>1, SeatsStay
    <3>2. seat' = seat
      BY <3>1
    <3> QED
      BY <3>2
  <2>2. CASE reg' # reg
    <3>1. PICK q \in Req : Publish(q)
      BY <2>2, OnlyCommitsChangeTheTable DEF IInv, TransactionsApart
    <3>2. Ledger!Fill(seat, seat') \/ Ledger!Change(seat, seat')
      BY <3>1, CommitMovesLedger
    <3> QED
      BY <3>2 DEF Ledger!Next
  <2> QED
    BY <2>1, <2>2
<1> QED
  BY <1>1, <1>2, Invariance, PTL DEF Spec, ImplementsLedger, Ledger!Spec

-----------------------------------------------------------------------------
(* One request at a time *)

\* Of a set of rows, the earliest come before the others ...
LEMMA EarliestFirst ==
    ASSUME NEW S \in SUBSET RowId, NEW n \in Int,
           NEW i \in Earliest(S, n), NEW j \in S \ Earliest(S, n)
    PROVE  j > i
<1>1. i \in S /\ i \in Int /\ j \in Int
  BY ConstantsAssumption DEF Earliest, RowId
<1>2. SUFFICES ASSUME j < i PROVE FALSE
  BY <1>1 DEF Earliest
<1> DEFINE A == {k \in S : k < i}
           B == {k \in S : k < j}
<1>3. S \subseteq RowId /\ IsFiniteSet(RowId) /\ RowId \subseteq Int
  BY ConstantsAssumption, FS_Interval DEF RowId
<1>4. IsFiniteSet(A)
  BY <1>3, FS_Subset
<1>5. B \in SUBSET A
  <2>1. \A k \in S : k \in Int
    BY <1>3
  <2>2. \A k \in Int : k < j => k < i
    BY <1>1, <1>2
  <2> QED
    BY <2>1, <2>2
<1>6. IsFiniteSet(B) /\ Cardinality(B) <= Cardinality(A)
  BY <1>4, <1>5, FS_Subset
<1>7. Cardinality(A) \in Nat /\ Cardinality(B) \in Nat
  BY <1>4, <1>6, FS_CardinalityType
<1>8. Cardinality(A) < n /\ ~(Cardinality(B) < n)
  BY DEF Earliest
<1> HIDE DEF A, B
<1> QED
  BY <1>6, <1>7, <1>8

\* ... and they are as many as asked for, or all there are.
LEMMA EarliestFills ==
    ASSUME NEW S \in SUBSET RowId, NEW n \in Int, Earliest(S, n) # S
    PROVE  Cardinality(Earliest(S, n)) >= n
<1> DEFINE E == Earliest(S, n)
           Below(j) == {k \in S : k < j}
           T == {Below(j) : j \in S \ E}
<1>1. /\ S \subseteq RowId /\ IsFiniteSet(RowId) /\ RowId \subseteq Int
      /\ E \subseteq S
  BY ConstantsAssumption, FS_Interval DEF RowId, Earliest
<1>2. IsFiniteSet(S) /\ IsFiniteSet(E)
  BY <1>1, FS_Subset
<1>3. \A j \in S : IsFiniteSet(Below(j)) /\ Below(j) \in SUBSET S
  <2>1. \A j \in S : Below(j) \in SUBSET S
    OBVIOUS
  <2> HIDE DEF Below
  <2> QED
    BY <1>2, <2>1, FS_Subset
<1>4. T \subseteq FiniteSubsetsOf(S) /\ T # {}
  <2>1. S \ E # {}
    BY <1>1
  <2> HIDE DEF Below, E
  <2> QED
    BY <1>3, <2>1 DEF FiniteSubsetsOf
<1>5. PICK x \in T : \A y \in T : <<y, x>> \notin StrictSubsetOrdering(S)
  <2> HIDE DEF T
  <2> QED
    BY <1>4, FS_StrictSubsetOrderingWellFounded, WFMin
<1>6. PICK j \in S \ E : x = Below(j)
  BY <1>5
<1>7. Below(j) \in SUBSET E
  <2>1. SUFFICES ASSUME NEW k \in S, k < j, k \notin E PROVE FALSE
    BY <1>1
  <2>2. Below(k) \in T
    BY <2>1
  <2>3. Below(k) \subseteq Below(j) /\ k \in Below(j) /\ k \notin Below(k)
    <3>1. (\A l \in S : l \in Int) /\ j \in Int /\ k \in Int
      BY <1>1
    <3>2. (\A l \in Int : l < k => l < j) /\ ~(k < k)
      BY <2>1, <3>1
    <3> QED
      BY <2>1, <3>1, <3>2
  <2>4. Below(k) \in SUBSET S /\ Below(j) \in SUBSET S
    OBVIOUS
  <2> HIDE DEF Below, T
  <2>5. <<Below(k), Below(j)>> \in StrictSubsetOrdering(S)
    BY <2>3, <2>4 DEF StrictSubsetOrdering
  <2> QED
    BY <1>5, <1>6, <2>2, <2>5
<1>8. ~(Cardinality(Below(j)) < n)
  BY <1>6 DEF Earliest
<1>9. IsFiniteSet(Below(j)) /\ Cardinality(Below(j)) <= Cardinality(E)
  <2> HIDE DEF Below, E
  <2> QED
    BY <1>2, <1>7, FS_Subset
<1>10. Cardinality(Below(j)) \in Nat /\ Cardinality(E) \in Nat
  <2> HIDE DEF Below, E
  <2> QED
    BY <1>2, <1>9, FS_CardinalityType
<1> HIDE DEF Below
<1> QED
  BY <1>8, <1>9, <1>10

\* Where a promotion that is alone leaves the seats and the waitlist.
LEMMA PromoteAlone ==
    ASSUME TypeOK, \A p, r \in Req : p = r, NEW q \in Req, Promote(q)
    PROVE  /\ Candidates(q) = WaitingAfter(q) \ {req[q].row}
           /\ Promoted(q) \subseteq Candidates(q)
           /\ SeatsAfter(q)' = SeatsAfter(q) \cup Promoted(q)
           /\ WaitingAfter(q)' = WaitingAfter(q) \ Promoted(q)
           /\ \A i \in RowId : pend'[q][i] =
                IF i \in Promoted(q) THEN "confirmed" ELSE pend[q][i]
<1>1. Candidates(q) = WaitingAfter(q) \ {req[q].row}
  BY DEF Candidates, LockedByOther, WaitingAfter, With
<1>2. Promoted(q) \subseteq Candidates(q)
  BY DEF Promoted, Earliest
<1>3. \A i \in RowId : pend'[q][i] =
        IF i \in Promoted(q) THEN "confirmed" ELSE pend[q][i]
  BY DEF Promote, TypeOK
<1>4. \A i \in RowId : SeenBy(q)'[i] =
        IF i \in Promoted(q) THEN "confirmed" ELSE SeenBy(q)[i]
  BY <1>3 DEF Promote, SeenBy
<1>5. SeatsAfter(q)' = SeatsAfter(q) \cup Promoted(q)
  BY <1>1, <1>2, <1>4 DEF SeatsAfter, WaitingAfter, With
<1>6. WaitingAfter(q)' = WaitingAfter(q) \ Promoted(q)
  BY <1>1, <1>2, <1>4 DEF WaitingAfter, With
<1> QED
  BY <1>1, <1>2, <1>3, <1>5, <1>6

\* A promotion that is alone takes the earliest, and as many as there is room.
LEMMA PromoteServes ==
    ASSUME TypeOK, \A p, r \in Req : p = r, NEW q \in Req, Promote(q),
           HandsOnOneSeat(req[q], pend[q]), ReadsHold(q)
    PROVE  PromotesInOrder(q)' /\ PromotesEnough(q)'
<1> DEFINE C == Candidates(q)
           P == Promoted(q)
           row == req[q].row
           room == req[q].room
<1>0. /\ req[q] \in Request /\ req[q].pc = "pick"
      /\ cap \in Nat \cup {Unlimited} /\ room \in Int
      /\ UNCHANGED <<reg, cap>>
      /\ req'[q].row = row /\ req'[q].op = req[q].op /\ req'[q].frees = req[q].frees
  BY DEF Promote, Goto, At, TypeOK, Request
<1>1. /\ C = WaitingAfter(q) \ {row} /\ P \subseteq C
      /\ SeatsAfter(q)' = SeatsAfter(q) \cup P
      /\ WaitingAfter(q)' = WaitingAfter(q) \ P
      /\ \A i \in RowId : pend'[q][i] =
           IF i \in P THEN "confirmed" ELSE pend[q][i]
  BY PromoteAlone
<1>2. \A i \in RowId : pend[q][i] # "same" => i = row
  BY <1>0 DEF HandsOnOneSeat
<1>3. /\ req[q].op = "settings" => row = 0
      /\ req[q].op # "settings" => room = 1
  BY <1>0 DEF HandsOnOneSeat
<1>4. /\ cap = Unlimited => room = Unlimited
      /\ cap # Unlimited =>
           /\ room > 0
           /\ req[q].op = "settings" => room = cap - Cardinality(SeatsAfter(q))
      /\ req[q].frees => req[q].op # "settings"
  BY <1>0 DEF ReadsHold, At
<1>5. P = C \/ P = Earliest(C, room)
  BY DEF Promoted
<1>6. C \in SUBSET RowId
  BY DEF Candidates, With
<1>7. \A i \in P, j \in C \ P : j > i
  <2> HIDE DEF C, P, room
  <2> QED
    BY <1>0, <1>5, <1>6, EarliestFirst
<1>8. P = C \/ Cardinality(P) >= room
  <2> HIDE DEF C, P, room
  <2> QED
    BY <1>0, <1>5, <1>6, EarliestFills
<1>9. PromotesInOrder(q)'
  <2>1. SUFFICES ASSUME NEW i \in RowId, NEW j \in WaitingAfter(q)',
                        pend'[q][i] = "confirmed", i # row
                 PROVE  j > i \/ j = row
    BY <1>0 DEF PromotesInOrder
  <2>2. i \in P /\ (j = row \/ j \in C \ P)
    BY <1>1, <1>2, <2>1
  <2> QED
    BY <1>7, <2>2
<1>10. /\ IsFiniteSet(SeatsAfter(q)) /\ Cardinality(SeatsAfter(q)) \in Nat
       /\ IsFiniteSet(Seated) /\ Cardinality(Seated) \in Nat
       /\ IsFiniteSet(P) /\ Cardinality(P) \in Nat
  <2>1. P \in SUBSET WaitingAfter(q) /\ IsFiniteSet(WaitingAfter(q))
    BY <1>1, WithBounds DEF WaitingAfter
  <2>2. IsFiniteSet(P) /\ Cardinality(P) \in Nat
    BY <2>1, FS_Subset, FS_CardinalityType
  <2> QED
    BY <2>2, WithBounds DEF SeatsAfter, Seated
<1>11. Cardinality(SeatsAfter(q)') = Cardinality(SeatsAfter(q)) + Cardinality(P)
  <2>1. SeatsAfter(q) \cap P = {}
    BY <1>1 DEF SeatsAfter, WaitingAfter, With
  <2>2. Cardinality(SeatsAfter(q) \cap P) = 0
    BY <2>1, FS_EmptySet
  <2> HIDE DEF P
  <2>3. Cardinality(SeatsAfter(q) \cup P) =
          Cardinality(SeatsAfter(q)) + Cardinality(P) - Cardinality(SeatsAfter(q) \cap P)
    BY <1>10, FS_Union
  <2> QED
    BY <1>1, <1>10, <2>2, <2>3
<1>12. Cardinality(Seated) <= Cardinality(SeatsAfter(q)) + 1
  <2>1. Seated \in SUBSET (SeatsAfter(q) \cup {row})
    BY <1>2 DEF Seated, SeatsAfter, With, SeenBy
  <2>2. /\ IsFiniteSet(SeatsAfter(q) \cup {row})
        /\ Cardinality(SeatsAfter(q) \cup {row}) \in
             {Cardinality(SeatsAfter(q)), Cardinality(SeatsAfter(q)) + 1}
    BY <1>10, FS_AddElement
  <2>3. Cardinality(Seated) <= Cardinality(SeatsAfter(q) \cup {row})
    BY <2>1, <2>2, FS_Subset
  <2> QED
    BY <1>10, <2>2, <2>3
<1>13. Seated' = Seated
  BY <1>0 DEF Seated, With
<1>14. P = C => WaitingAfter(q)' \subseteq {row}
  BY <1>1
<1>15. ASSUME req[q].frees, cap # Unlimited
       PROVE  \/ Cardinality(SeatsAfter(q)') >= Cardinality(Seated)
              \/ WaitingAfter(q)' \subseteq {row}
  <2>1. room = 1
    BY <1>3, <1>4, <1>15
  <2> HIDE DEF P, C, room, row
  <2> QED
    BY <1>8, <1>10, <1>11, <1>12, <1>14, <2>1
<1>16. ASSUME req[q].op = "settings", P = C PROVE WaitingAfter(q)' = {}
  <2>1. row \notin RowId
    BY <1>3, <1>16 DEF RowId
  <2> QED
    BY <1>1, <1>16, <2>1 DEF WaitingAfter, With
<1>17. ASSUME req[q].op = "settings"
       PROVE  \/ cap # Unlimited /\ Cardinality(SeatsAfter(q)') >= cap
              \/ WaitingAfter(q)' = {}
  <2>1. CASE cap = Unlimited
    BY <1>4, <1>16, <1>17, <2>1 DEF Promoted
  <2>2. CASE cap # Unlimited
    <3>1. room = cap - Cardinality(SeatsAfter(q)) /\ cap \in Nat
      BY <1>0, <1>4, <1>17, <2>2
    <3> HIDE DEF P, C, room, row
    <3> QED
      BY <1>0, <1>8, <1>10, <1>11, <1>16, <1>17, <2>2, <3>1
  <2> QED
    BY <2>1, <2>2
<1>18. PromotesEnough(q)'
  <2> HIDE DEF P, C, room, row
  <2> QED
    BY <1>0, <1>13, <1>15, <1>17 DEF PromotesEnough, Full, row
<1> QED
  BY <1>9, <1>18

\* With one request at a time, every step of it keeps what it goes by.
LEMMA AloneStep ==
    ASSUME \A p, r \in Req : p = r, IInv, AloneInv, [Next]_vars
    PROVE  AloneInv'
<1> SUFFICES ASSUME NEW q \in Req
             PROVE  /\ ReadsHold(q)'
                    /\ req'[q].pc \in {"guard", "commit"}
                       => PromotesInOrder(q)' /\ PromotesEnough(q)'
  BY DEF AloneInv
<1> DEFINE Changes == {"cancel", "setStatus", "remove"}
           Kept == /\ ReadsHold(q)'
                   /\ req'[q].pc \in {"guard", "commit"}
                      => PromotesInOrder(q)' /\ PromotesEnough(q)'
<1>0. /\ TypeOK /\ NoLocksOutsideTx
      /\ req[q] \in Request /\ HandsOnOneSeat(req[q], pend[q])
      /\ ReadsHold(q)
      /\ req[q].pc \in {"guard", "commit"} => PromotesInOrder(q) /\ PromotesEnough(q)
  BY DEF IInv, TransactionsApart, TypeOK, PromotesInMeasure, AloneInv
<1>i. /\ Idle.pc = "idle" /\ Idle.frees = FALSE
      /\ \A r : (req' = [req EXCEPT ![q] = r]) => req'[q] = r
  BY <1>0 DEF Idle, TypeOK
\* A request that is not about to promote, and has not promoted.
<1>a. ASSUME req'[q].pc \notin {"seats", "pick", "guard", "commit", "announce"},
             req'[q].pc \in {"find", "count", "insert"}
                => req'[q].op \in {"register", "add"},
             req'[q].pc = "write" \/ req'[q].frees => req'[q].op \in Changes
      PROVE  Kept
  BY <1>a DEF ReadsHold, At
<1>b. ASSUME req' = [req EXCEPT ![q] = Idle] PROVE Kept
  BY <1>a, <1>b, <1>i
\* A request that has written its own row at most, and promotes nobody.
<1>c. ASSUME req'[q].pc = "guard",
             req'[q].row = req[q].row \/ req[q].pc = "insert",
             req'[q].frees => req'[q].op \in Changes,
             \A i \in RowId : pend'[q][i] # "same" => i = req'[q].row,
             PromotesEnough(q)'
      PROVE  Kept
  BY <1>c DEF ReadsHold, At, PromotesInOrder
<1>1. CASE \E u \in User : Register(q, u)
  <2>1. req'[q].pc = "find" /\ req'[q].op = "register" /\ req'[q].frees = FALSE
    BY <1>0, <1>1 DEF Register, Idle, TypeOK
  <2> QED
    BY <1>a, <2>1
<1>2. CASE \E u \in User : Cancel(q, u)
  <2>1. req'[q].pc = "write" /\ req'[q].op = "cancel"
    BY <1>0, <1>2 DEF Cancel, Idle, TypeOK
  <2> QED
    BY <1>a, <2>1
<1>3. CASE \E u \in User, s \in Active : Add(q, u, s)
  <2>1. req'[q].pc = "insert" /\ req'[q].op = "add" /\ req'[q].frees = FALSE
    BY <1>0, <1>3 DEF Add, Idle, TypeOK
  <2> QED
    BY <1>a, <2>1
<1>4. CASE \E i \in RowId, s \in Active \cup {"cancelled"} : SetStatus(q, i, s)
  <2>1. req'[q].pc = "write" /\ req'[q].op = "setStatus"
    BY <1>0, <1>4 DEF SetStatus, Idle, TypeOK
  <2> QED
    BY <1>a, <2>1
<1>5. CASE \E i \in RowId : Remove(q, i)
  <2>1. req'[q].pc = "write" /\ req'[q].op = "remove"
    BY <1>0, <1>5 DEF Remove, Idle, TypeOK
  <2> QED
    BY <1>a, <2>1
<1>6. CASE \E c \in Caps : SaveSettings(q, c)
  <2>1. req'[q].pc = "readCap" /\ req'[q].frees = FALSE
    BY <1>0, <1>6 DEF SaveSettings, Idle, TypeOK
  <2> QED
    BY <1>a, <2>1
<1>7. CASE FindActive(q)
  <2>1. CASE req' = [req EXCEPT ![q].pc = "count"]
    <3>1. /\ req'[q].pc = "count" /\ req'[q].op = req[q].op
          /\ req'[q].frees = req[q].frees /\ req[q].pc = "find"
      BY <1>0, <1>7, <2>1 DEF FindActive, At, TypeOK, Request
    <3>2. req'[q].op \in {"register", "add"} /\ ~req'[q].frees
      BY <1>0, <3>1 DEF ReadsHold
    <3> QED
      BY <1>a, <3>1, <3>2
  <2> QED
    BY <1>7, <1>b, <2>1 DEF FindActive, Answer, Goto
<1>8. CASE CountConfirmed(q)
  <2>1. /\ req'[q].pc = "insert" /\ req'[q].op = req[q].op
        /\ req'[q].frees = req[q].frees /\ req[q].pc = "count"
    BY <1>0, <1>8 DEF CountConfirmed, At, TypeOK, Request
  <2>2. req'[q].op \in {"register", "add"} /\ ~req'[q].frees
    BY <1>0, <2>1 DEF ReadsHold
  <2> QED
    BY <1>a, <2>1, <2>2
<1>9. CASE Insert(q)
  <2>1. CASE UniqueViolation(req[q].user, 0) \/ last = MaxRows
    BY <1>9, <1>b, <2>1 DEF Insert, Answer
  <2>2. CASE ~(UniqueViolation(req[q].user, 0) \/ last = MaxRows)
    <3> DEFINE n == last + 1
    <3>1. /\ req' = [req EXCEPT ![q] = [@ EXCEPT !.pc = "guard", !.row = n]]
          /\ pend' = [pend EXCEPT ![q][n] = req[q].to]
          /\ req[q].pc = "insert"
      BY <1>9, <2>2 DEF Insert, At
    <3>2. pend[q] = Untouched
      BY <1>0, <3>1 DEF NoLocksOutsideTx, OutsideTx
    <3> HIDE DEF n
    <3>3. /\ req'[q].pc = "guard" /\ req'[q].row = n /\ req'[q].op = req[q].op
          /\ req'[q].frees = req[q].frees
      BY <1>0, <3>1 DEF TypeOK, Request
    <3>4. \A i \in RowId : i # n => pend'[q][i] = "same"
      BY <1>0, <3>1, <3>2 DEF Untouched, TypeOK
    <3>5. req'[q].op \notin Changes \cup {"settings"} /\ ~req'[q].frees
      BY <1>0, <3>1, <3>3 DEF ReadsHold
    <3>6. PromotesEnough(q)'
      BY <3>5 DEF PromotesEnough
    <3> QED
      BY <1>c, <3>1, <3>3, <3>4, <3>5, <3>6
  <2> QED
    BY <2>1, <2>2
<1>10. CASE Write(q)
  <2>1. CASE req' = [req EXCEPT ![q] = Idle]
    BY <1>b, <2>1
  <2>2. CASE /\ pend' = [pend EXCEPT ![q][req[q].row] = req[q].to]
             /\ req' = [req EXCEPT ![q].pc = IF req[q].frees THEN "readCap" ELSE "guard"]
    <3>1. /\ req'[q].pc = IF req[q].frees THEN "readCap" ELSE "guard"
          /\ req'[q].row = req[q].row /\ req'[q].op = req[q].op
          /\ req'[q].frees = req[q].frees /\ req[q].pc = "write"
      BY <1>0, <1>10, <2>2 DEF Write, At, TypeOK, Request
    <3>2. pend[q] = Untouched
      BY <1>0, <3>1 DEF NoLocksOutsideTx, OutsideTx
    <3>3. \A i \in RowId : i # req'[q].row => pend'[q][i] = "same"
      BY <1>0, <2>2, <3>1, <3>2 DEF Untouched, TypeOK
    <3>4. req'[q].op \in Changes
      BY <1>0, <3>1 DEF ReadsHold, At
    <3>5. ~req[q].frees => PromotesEnough(q)'
      BY <3>1, <3>4 DEF PromotesEnough
    <3> QED
      BY <1>a, <1>c, <3>1, <3>3, <3>4, <3>5
  <2> QED
    BY <1>10, <2>1, <2>2 DEF Write, Answer, Goto
<1>11. CASE ReadCapacity(q)
  <2>1. /\ req'[q].pc = IF cap # Unlimited THEN "seats"
                        ELSE IF req[q].op = "settings" THEN "pick" ELSE "guard"
        /\ req'[q].row = req[q].row /\ req'[q].op = req[q].op
        /\ req'[q].frees = req[q].frees
        /\ req'[q].seenCap = cap /\ req'[q].room = Unlimited
        /\ req[q].pc = "readCap" /\ UNCHANGED <<pend, cap>>
    BY <1>0, <1>11 DEF ReadCapacity, At, TypeOK, Request
  <2>2. \A i \in RowId : pend'[q][i] # "same" => i = req'[q].row
    BY <1>0, <2>1 DEF HandsOnOneSeat
  <2>3. req'[q].frees => req'[q].op \in Changes
    BY <1>0, <2>1 DEF ReadsHold
  <2>4. CASE req'[q].pc = "guard"
    <3>1. PromotesEnough(q)'
      BY <2>1, <2>4 DEF PromotesEnough
    <3> QED
      BY <1>c, <2>1, <2>2, <2>3, <2>4, <3>1
  <2>5. CASE req'[q].pc \in {"seats", "pick"}
    BY <2>1, <2>3, <2>5 DEF ReadsHold, At
  <2> QED
    BY <2>1, <2>4, <2>5
<1>12. CASE CountSeats(q)
  <2> DEFINE m == Room(q, Cardinality(SeatsAfter(q)))
  <2>1. /\ req[q].pc = "seats" /\ UNCHANGED <<reg, pend, cap>>
        /\ cap # Unlimited /\ req[q].seenCap = cap
    BY <1>0, <1>12 DEF CountSeats, At, ReadsHold
  <2>2. \A i \in RowId : pend'[q][i] # "same" => i = req[q].row
    BY <1>0, <2>1 DEF HandsOnOneSeat
  <2>3. SeatsAfter(q)' = SeatsAfter(q) /\ Cardinality(SeatsAfter(q)) \in Nat
    <3>1. SeatsAfter(q)' = SeatsAfter(q)
      BY <2>1 DEF SeatsAfter, With, SeenBy
    <3>2. Cardinality(SeatsAfter(q)) \in 0..MaxRows
      BY WithBounds DEF SeatsAfter
    <3> QED
      BY <3>1, <3>2, ConstantsAssumption
  <2>4. cap \in Nat
    BY <1>0, <2>1 DEF TypeOK
  <2>5. CASE Cardinality(SeatsAfter(q)) >= cap
    <3>1. /\ req'[q].pc = "guard" /\ req'[q].row = req[q].row
          /\ req'[q].op = req[q].op /\ req'[q].frees = req[q].frees
      BY <1>0, <1>12, <2>1, <2>5 DEF CountSeats, SeatsAfter, Goto, TypeOK, Request
    <3>2. Full(SeatsAfter(q))'
      BY <2>1, <2>3, <2>5 DEF Full
    <3>3. PromotesEnough(q)'
      BY <3>2 DEF PromotesEnough
    <3>4. req'[q].frees => req'[q].op \in Changes
      BY <1>0, <3>1 DEF ReadsHold
    <3> QED
      BY <1>c, <2>2, <3>1, <3>3, <3>4
  <2>6. CASE ~(Cardinality(SeatsAfter(q)) >= cap)
    <3>1. req' = [req EXCEPT ![q] = [@ EXCEPT !.pc = "pick", !.room = m]]
      BY <1>12, <2>1, <2>6 DEF CountSeats, SeatsAfter
    <3>2. /\ m > 0
          /\ req[q].op = "settings" => m = cap - Cardinality(SeatsAfter(q))
      BY <2>1, <2>3, <2>4, <2>6 DEF Room
    <3> HIDE DEF m
    <3>3. /\ req'[q].pc = "pick" /\ req'[q].room = m
          /\ req'[q].op = req[q].op /\ req'[q].frees = req[q].frees
      BY <1>0, <3>1 DEF TypeOK, Request
    <3>4. req'[q].frees => req'[q].op \in Changes
      BY <1>0, <3>3 DEF ReadsHold
    <3> QED
      BY <2>1, <2>3, <3>2, <3>3, <3>4 DEF ReadsHold, At
  <2> QED
    BY <2>5, <2>6
<1>13. CASE Promote(q)
  <2>1. /\ req'[q].pc = "guard"
        /\ req'[q].op = req[q].op /\ req'[q].frees = req[q].frees
    BY <1>0, <1>13 DEF Promote, Goto, TypeOK, Request
  <2>2. PromotesInOrder(q)' /\ PromotesEnough(q)'
    BY <1>0, <1>13, PromoteServes
  <2>3. ReadsHold(q)'
    BY <1>0, <2>1 DEF ReadsHold, At
  <2> QED
    BY <2>2, <2>3
<1>14. CASE Guard(q)
  <2>0. req[q].pc = "guard" /\ UNCHANGED <<reg, cap>>
    BY <1>14 DEF Guard, At
  <2>1. CASE req' = [req EXCEPT ![q].pc = "commit"] /\ UNCHANGED pend
    <3>1. /\ req'[q].pc = "commit" /\ req'[q].row = req[q].row
          /\ req'[q].op = req[q].op /\ req'[q].frees = req[q].frees
      BY <1>0, <2>1 DEF TypeOK, Request
    <3>2. /\ SeatsAfter(q)' = SeatsAfter(q) /\ WaitingAfter(q)' = WaitingAfter(q)
          /\ Seated' = Seated
      BY <2>0, <2>1 DEF SeatsAfter, WaitingAfter, Seated, With, SeenBy
    <3>3. PromotesInOrder(q)'
      BY <1>0, <2>0, <2>1, <3>1, <3>2 DEF PromotesInOrder
    <3>4. PromotesEnough(q)'
      BY <1>0, <2>0, <3>1, <3>2 DEF PromotesEnough, Full
    <3>5. ReadsHold(q)'
      BY <1>0, <3>1 DEF ReadsHold, At
    <3> QED
      BY <3>3, <3>4, <3>5
  <2>2. CASE /\ req[q].op = "register"
             /\ req' = [req EXCEPT ![q] = [@ EXCEPT !.pc = "insert",
                                                    !.to = "waitlisted"]]
    <3>1. /\ req'[q].pc = "insert" /\ req'[q].op = "register"
          /\ req'[q].frees = req[q].frees
      BY <1>0, <2>2 DEF TypeOK, Request
    <3>2. ~req'[q].frees
      BY <1>0, <2>2, <3>1 DEF ReadsHold
    <3> QED
      BY <1>a, <3>1, <3>2
  <2>3. CASE req' = [req EXCEPT ![q] = Idle]
    BY <1>b, <2>3
  <2> QED
    BY <1>14, <2>1, <2>2, <2>3 DEF Guard, Answer, Goto
<1>15. ASSUME NEW pc \in {"counts", "insert"}, req' = [req EXCEPT ![q].pc = pc],
              pc = "insert" => req[q].op = "register"
       PROVE  Kept
  <2>1. /\ req'[q].pc = pc
        /\ req'[q].op = req[q].op /\ req'[q].frees = req[q].frees
    BY <1>0, <1>15 DEF TypeOK, Request
  <2>2. req'[q].frees => req'[q].op \in Changes
    BY <1>0, <2>1 DEF ReadsHold
  <2> QED
    BY <1>15, <1>a, <2>1, <2>2
<1>16. CASE Commit(q)
  BY <1>15, <1>16, <1>b DEF Commit, Answer, Goto
<1>17. CASE CommitAnswerLost(q)
  BY <1>15, <1>17 DEF CommitAnswerLost, Goto
<1>18. CASE ReadCounts(q)
  <2> DEFINE t == CountsOf(reg)
  <2>1. /\ req' = [req EXCEPT ![q] = [@ EXCEPT !.pc = "announce", !.tally = t]]
        /\ t' = t
    BY <1>18 DEF ReadCounts, CountsOf, With
  <2> HIDE DEF t
  <2>2. /\ req'[q].pc = "announce" /\ req'[q].tally = t'
        /\ req'[q].op = req[q].op /\ req'[q].frees = req[q].frees
    BY <1>0, <2>1 DEF TypeOK, Request
  <2>3. req'[q].frees => req'[q].op \in Changes
    BY <1>0, <2>2 DEF ReadsHold
  <2> QED
    BY <2>2, <2>3 DEF ReadsHold, At, t
<1>19. CASE Announce(q) \/ Fail(q)
  BY <1>19, <1>b DEF Announce, Fail, Answer
<1>20. CASE UNCHANGED vars
  BY <1>0, <1>20 DEF vars, ReadsHold, At, PromotesInOrder, PromotesEnough, Full,
     SeatsAfter, WaitingAfter, Seated, With, SeenBy, CountsOf
<1>21. Next => \/ Begin(q) \/ Step(q) \/ CommitAnswerLost(q) \/ Fail(q)
  BY DEF Next
<1> QED
  BY <1>1, <1>2, <1>3, <1>4, <1>5, <1>6, <1>7, <1>8, <1>9, <1>10, <1>11, <1>12,
     <1>13, <1>14, <1>16, <1>17, <1>18, <1>19, <1>20, <1>21 DEF Begin, Step

\* At first no request goes by anything.
LEMMA AloneInit == Init => AloneInv
  BY DEF Init, AloneInv, ReadsHold, At, Idle

\* With one request at a time, both invariants hold in every state.
LEMMA AloneInvariance ==
    ASSUME \A p, r \in Req : p = r
    PROVE  Spec => [](IInv /\ AloneInv)
<1>1. IInv /\ AloneInv /\ [Next]_vars => AloneInv'
  BY AloneStep
<1> QED
  BY <1>1, AloneInit, Invariance, PTL DEF Spec

\* With one request at a time, a seat that is given up is handed on, and a new
\* capacity is filled up, unless nobody waits (promoteEarliestWaitlisted,
\* promoteWaitlistForCapacity).
THEOREM SeatsAreRefilled ==
    ASSUME \A p, r \in Req : p = r
    PROVE  Spec => SeatsRefilled
<1>1. ASSUME IInv, AloneInv, NEW q \in Req, Commits(q)
      PROVE  /\ req[q].frees /\ cap # Unlimited =>
                  \/ Cardinality(Seated') >= Cardinality(Seated)
                  \/ Full(Seated')
                  \/ Waiting' \subseteq {req[q].row}
             /\ req[q].op = "settings" => Full(Seated') \/ Waiting' = {}
  <2>1. PromotesEnough(q)
    BY <1>1 DEF AloneInv, Commits, At
  <2>2. Seated' = SeatsAfter(q) /\ Waiting' = WaitingAfter(q)
    BY <1>1 DEF Commits, Seated, SeatsAfter, Waiting, WaitingAfter, With
  <2> QED
    BY <2>1, <2>2 DEF PromotesEnough
<1>2. IInv /\ AloneInv =>
        \A q \in Req : Commits(q) =>
          /\ req[q].frees /\ cap # Unlimited =>
                \/ Cardinality(Seated') >= Cardinality(Seated)
                \/ Full(Seated')
                \/ Waiting' \subseteq {req[q].row}
          /\ req[q].op = "settings" => Full(Seated') \/ Waiting' = {}
  BY <1>1
<1> QED
  BY <1>2, AloneInvariance, PTL DEF SeatsRefilled

\* With one request at a time, the seats of a promotion go to those who
\* registered first (the registered_at order of both promotion queries).
THEOREM PromotionsInOrder ==
    ASSUME \A p, r \in Req : p = r
    PROVE  Spec => PromotedInOrder
<1>1. ASSUME IInv, AloneInv, NEW q \in Req, NEW i \in RowId, Commits(q),
             i \in Waiting, i \in Seated', i # req[q].row, NEW j \in Waiting'
      PROVE  j > i \/ j = req[q].row
  <2>1. PromotesInOrder(q)
    BY <1>1 DEF AloneInv, Commits, At
  <2>2. j \in WaitingAfter(q)
    BY <1>1 DEF Commits, Waiting, WaitingAfter, With
  <2>3. pend[q][i] = "confirmed"
    BY <1>1 DEF Commits, Waiting, Seated, With, SeenBy
  <2> QED
    BY <1>1, <2>1, <2>2, <2>3 DEF PromotesInOrder
<1>2. IInv /\ AloneInv =>
        \A q \in Req, i \in RowId :
          /\ Commits(q)
          /\ i \in Waiting /\ i \in Seated' /\ i # req[q].row
          => \A j \in Waiting' : j > i \/ j = req[q].row
  BY <1>1
<1> QED
  BY <1>2, AloneInvariance, PTL DEF PromotedInOrder

\* With one request at a time, and unless something fails, the live board shows
\* the counts of the table when a request that changed it is over
\* (publishRegistrationCounts after every commit but a settings save's).
THEOREM BoardIsRight ==
    ASSUME \A p, r \in Req : p = r, ~Faults
    PROVE  Spec => BoardFollowsRequests
<1>1. ASSUME IInv, AloneInv, [Next]_vars, NEW q \in Req,
             req[q].pc \in {"commit", "announce"}, req[q].op # "settings",
             req'[q].pc = "idle"
      PROVE  board' = CountsOf(reg')
  <2>0. TypeOK /\ ReadsHold(q) /\ req[q] \in Request
    BY <1>1 DEF IInv, TransactionsApart, TypeOK, AloneInv
  <2>1. Begin(q) \/ Step(q)
    BY <1>1 DEF Next, CommitAnswerLost, Fail, vars
  <2>2. ~Begin(q)
    BY <1>1 DEF Begin, Register, Cancel, Add, SetStatus, Remove, SaveSettings, At
  <2>3. Commit(q) \/ Announce(q)
    BY <1>1, <2>1, <2>2 DEF Step, FindActive, CountConfirmed, Insert, Write,
       ReadCapacity, CountSeats, Promote, Guard, ReadCounts, At
  <2>4. ~Commit(q)
    BY <1>1, <2>0 DEF Commit, Goto, TypeOK, Request
  <2>5. Announce(q)
    BY <2>3, <2>4
  <2> QED
    BY <2>0, <2>5 DEF Announce, ReadsHold, CountsOf, With
<1>2. IInv /\ AloneInv /\ [Next]_vars =>
        \A q \in Req :
          /\ req[q].pc \in {"commit", "announce"} /\ req[q].op # "settings"
          /\ At(q, "idle")'
          => board' = CountsOf(reg')
  BY <1>1 DEF At
<1> QED
  BY <1>2, AloneInvariance, PTL DEF Spec, BoardFollowsRequests
=============================================================================
