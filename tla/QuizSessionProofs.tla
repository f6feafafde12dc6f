------------------------- MODULE QuizSessionProofs -------------------------
(***************************************************************************)
(* Proofs about QuizSession, for every number of requests, hosts, members, *)
(* sessions and questions, every time limit and choice of operations.      *)
(***************************************************************************)
EXTENDS QuizSession, TLAPS

-----------------------------------------------------------------------------
(* Types *)

\* The request that has nothing to do is a request.
LEMMA IdleType == Idle \in Request
  BY ConstantsAssumption
  DEF Idle, Request, PCs, Time, NoQuestion, Never, Question, Status

\* A request keeps its type when one of its fields changes within its type.
LEMMA FieldTypes ==
    ASSUME NEW r \in Request, NEW pc \in PCs
    PROVE  /\ [r EXCEPT !.pc = pc] \in Request
           /\ \A q \in Question \cup {NoQuestion}, t \in Time :
                [r EXCEPT !.pc = pc, !.q = q, !.at = t] \in Request
           /\ \A l \in Nat, c \in BOOLEAN, t \in Time :
                [r EXCEPT !.pc = pc, !.limit = l, !.closed = c, !.at = t] \in Request
           /\ \A n \in Int : [r EXCEPT !.pc = pc, !.pos = n] \in Request
           /\ \A order \in [Question -> 0..MaxQuestions] :
                [r EXCEPT !.pc = pc, !.order = order] \in Request
           /\ \A s \in Session \cup {0}, seen \in Status :
                [r EXCEPT !.pc = pc, !.s = s, !.seen = seen] \in Request
           /\ \A q \in Question \cup {NoQuestion} : [r EXCEPT !.pc = pc, !.q = q] \in Request
           /\ \A s \in Session \cup {0}, seen \in Status, q \in Question \cup {NoQuestion} :
                [r EXCEPT !.pc = pc, !.s = s, !.seen = seen, !.q = q] \in Request
           /\ \A s \in Session \cup {0}, q \in Question \cup {NoQuestion},
                 m \in Member \cup {Nobody}, t \in Time \cup {Never} :
                [r EXCEPT !.pc = pc, !.s = s, !.q = q, !.member = m, !.openedAt = t]
                  \in Request
<1>1. /\ [r EXCEPT !.pc = pc] \in Request
      /\ \A q \in Question \cup {NoQuestion}, t \in Time :
           [r EXCEPT !.pc = pc, !.q = q, !.at = t] \in Request
      /\ \A l \in Nat, c \in BOOLEAN, t \in Time :
           [r EXCEPT !.pc = pc, !.limit = l, !.closed = c, !.at = t] \in Request
  BY DEF Request
<1>2. /\ \A n \in Int : [r EXCEPT !.pc = pc, !.pos = n] \in Request
      /\ \A order \in [Question -> 0..MaxQuestions] :
           [r EXCEPT !.pc = pc, !.order = order] \in Request
  BY DEF Request
<1>3. \A s \in Session \cup {0}, seen \in Status :
        [r EXCEPT !.pc = pc, !.s = s, !.seen = seen] \in Request
  BY DEF Request
<1>5. \A q \in Question \cup {NoQuestion} : [r EXCEPT !.pc = pc, !.q = q] \in Request
  BY DEF Request
<1>6. \A s \in Session \cup {0}, seen \in Status, q \in Question \cup {NoQuestion} :
        [r EXCEPT !.pc = pc, !.s = s, !.seen = seen, !.q = q] \in Request
  BY DEF Request
<1>4. \A s \in Session \cup {0}, q \in Question \cup {NoQuestion},
         m \in Member \cup {Nobody}, t \in Time \cup {Never} :
        [r EXCEPT !.pc = pc, !.s = s, !.q = q, !.member = m, !.openedAt = t] \in Request
  BY DEF Request
<1> QED
  BY <1>1, <1>2, <1>3, <1>4, <1>5, <1>6, Zenon

\* endSession, having read the session again, goes on to write it or is over.
LEMMA LoadEndEffect ==
    ASSUME TypeOK, NEW r \in Req, LoadEnd(r)
    PROVE  req'[r].pc \in {"end", "idle"} /\ \A p \in Req \ {r} : req'[p] = req[p]
<1> DEFINE then == [req[r] EXCEPT !.pc = "end", !.seen = sess[req[r].s].status]
<1>1. req' = [req EXCEPT ![r] = then] \/ req' = [req EXCEPT ![r] = Idle]
  BY DEF LoadEnd, Done
<1>2. req \in [Req -> Request] /\ req[r] \in Request
  BY DEF TypeOK
<1>3. then.pc = "end" /\ Idle.pc = "idle"
  BY <1>2 DEF Request, Idle
<1> HIDE DEF then
<1> QED
  BY <1>1, <1>2, <1>3

\* An answer that is scored goes on to be recorded, or is over.
LEMMA ScoreAnswerEffect ==
    ASSUME TypeOK, NEW r \in Req, ScoreAnswer(r)
    PROVE  req'[r].pc \in {"record", "idle"} /\ \A p \in Req \ {r} : req'[p] = req[p]
<1> DEFINE then == [req[r] EXCEPT !.pc = "record", !.limit = limit[req[r].q],
                             !.closed = ~OpenAt(req[r].s, req[r].q, req[r].openedAt),
                             !.at = now]
<1>1. req' = [req EXCEPT ![r] = then] \/ req' = [req EXCEPT ![r] = Idle]
  BY DEF ScoreAnswer, Done
<1>2. req \in [Req -> Request] /\ req[r] \in Request
  BY DEF TypeOK
<1>3. then.pc = "record" /\ Idle.pc = "idle"
  BY <1>2 DEF Request, Idle
<1> HIDE DEF then
<1> QED
  BY <1>1, <1>2, <1>3

\* A new question is given a place in the order of the bank.
LEMMA CreationEffect ==
    ASSUME TypeOK, NEW r \in Req, CreateQuestion(r)
    PROVE  \E pos \in Int :
             /\ req' = [req EXCEPT ![r] = [Idle EXCEPT !.pc = "insertQuestion", !.pos = pos]]
             /\ UNCHANGED <<sess, bank, created, sort, limit, answers, now, openings>>
<1> DEFINE last == {q \in bank : \A p \in bank : sort[p] <= sort[q]}
           atEnd == IF bank = {} THEN {0} ELSE {sort[q] + 1 : q \in last}
<1>1. atEnd \subseteq Int
  <2>1. \A q \in bank : sort[q] + 1 \in Int
    BY ConstantsAssumption DEF TypeOK, Question
  <2> QED
    BY <2>1
<1>2. Positions \cup atEnd \subseteq Int
  BY <1>1, ConstantsAssumption
<1>3. /\ \E pos \in Positions \cup atEnd :
           req' = [req EXCEPT ![r] = [Idle EXCEPT !.pc = "insertQuestion", !.pos = pos]]
      /\ UNCHANGED <<sess, bank, created, sort, limit, answers, now, openings>>
  BY DEF CreateQuestion, Begin
<1> HIDE DEF atEnd
<1> QED
  BY <1>2, <1>3

\* The table of requests keeps its type when one of them is replaced.
LEMMA MoveType ==
    ASSUME TypeOK, NEW r \in Req, NEW v \in Request
    PROVE  [req EXCEPT ![r] = v] \in [Req -> Request]
  BY DEF TypeOK

\* Every step of every request, and the clock, keep the types.
LEMMA TypeStep == TypeOK /\ FoundSession /\ AnswersAnOpening /\ [Next]_vars => TypeOK'
<1> SUFFICES ASSUME TypeOK, FoundSession, AnswersAnOpening, [Next]_vars PROVE TypeOK'
  OBVIOUS
<1> USE DEF At, Begin, Done
<1>q. \A q \in bank : q \in Question
  BY ConstantsAssumption DEF TypeOK, Question
<1>l. \A q \in Question : limit[q] \in Nat
  BY ConstantsAssumption DEF TypeOK
<1>pc. PCs = {"idle", "insertSession", "pick", "open", "reveal", "endLoad", "end",
              "score", "record", "insertQuestion", "edit", "count", "delete", "reorder"}
  BY DEF PCs
<1>i. \A r \in Req : [req EXCEPT ![r] = Idle] \in [Req -> Request]
  BY IdleType, MoveType
<1>r. \A r \in Req : req[r] \in Request
  BY DEF TypeOK
<1>1. ASSUME NEW r \in Req, CreateSession(r) PROVE TypeOK'
  <2>1. [Idle EXCEPT !.pc = "insertSession"] \in Request
    BY IdleType, FieldTypes, <1>pc
  <2> QED
    BY <1>1, <2>1, MoveType DEF CreateSession, TypeOK
<1>2. ASSUME NEW r \in Req, NEW s \in Session, NextQuestion(r, s) PROVE TypeOK'
  <2>1. sess[s].current \in Question \cup {NoQuestion} /\ sess[s].status \in Status
    BY DEF TypeOK, SessionRow
  <2>2. [Idle EXCEPT !.pc = "pick", !.s = s, !.seen = sess[s].status,
              !.q = sess[s].current] \in Request
    BY IdleType, FieldTypes, <1>pc, <2>1, ZenonT(60)
  <2> QED
    BY <1>2, <2>2, MoveType DEF NextQuestion, TypeOK
<1>3. ASSUME NEW r \in Req, NEW s \in Session, RevealQuestion(r, s) PROVE TypeOK'
  <2>1. [Idle EXCEPT !.pc = "reveal", !.s = s, !.seen = sess[s].status] \in Request
    BY IdleType, FieldTypes, <1>pc, ZenonT(60) DEF TypeOK, SessionRow
  <2> QED
    BY <1>3, <2>1, MoveType DEF RevealQuestion, TypeOK
<1>4. ASSUME NEW r \in Req, NEW s \in Session, EndSession(r, s) PROVE TypeOK'
  <2>1. [Idle EXCEPT !.pc = "end", !.s = s, !.seen = sess[s].status] \in Request
    BY IdleType, FieldTypes, <1>pc, ZenonT(60) DEF TypeOK, SessionRow
  <2> QED
    BY <1>4, <2>1, MoveType DEF EndSession, TypeOK
<1>5. ASSUME NEW r \in Req, NEW m \in Member, NEW s \in Session, NEW q \in Question,
             SubmitAnswer(r, m, s, q)
      PROVE TypeOK'
  <2>1. sess[s].openedAt \in Time \cup {Never}
    BY DEF TypeOK, SessionRow
  <2>2. [Idle EXCEPT !.pc = "score", !.s = s, !.q = q, !.member = m,
                     !.openedAt = sess[s].openedAt] \in Request
    BY IdleType, <1>pc, <2>1 DEF Request
  <2> QED
    BY <1>5, <2>2, MoveType DEF SubmitAnswer, TypeOK
<1>6. ASSUME NEW r \in Req, CreateQuestion(r) PROVE TypeOK'
  <2>1. PICK pos \in Int : /\ req' = [req EXCEPT ![r] = [Idle EXCEPT !.pc = "insertQuestion",
                                                                    !.pos = pos]]
                           /\ UNCHANGED <<sess, bank, created, sort, limit, answers, now, openings>>
    BY <1>6, CreationEffect
  <2>2. [Idle EXCEPT !.pc = "insertQuestion", !.pos = pos] \in Request
    BY IdleType, FieldTypes, <1>pc
  <2> QED
    BY <2>1, <2>2, MoveType DEF TypeOK
<1>7. ASSUME NEW r \in Req, NEW q \in Question, EditQuestion(r, q) PROVE TypeOK'
  <2>1. [Idle EXCEPT !.pc = "edit", !.q = q] \in Request
    BY IdleType, FieldTypes, <1>pc
  <2> QED
    BY <1>7, <2>1, MoveType DEF EditQuestion, TypeOK
<1>8. ASSUME NEW r \in Req, NEW q \in Question, DeleteQuestion(r, q) PROVE TypeOK'
  <2>1. [Idle EXCEPT !.pc = "count", !.q = q] \in Request
    BY IdleType, FieldTypes, <1>pc
  <2> QED
    BY <1>8, <2>1, MoveType DEF DeleteQuestion, TypeOK
<1>9. ASSUME NEW r \in Req, ReorderQuestions(r) PROVE TypeOK'
  <2>1. ASSUME NEW order \in [Question -> 0..MaxQuestions]
        PROVE  [Idle EXCEPT !.pc = "reorder", !.order = order] \in Request
    BY IdleType, FieldTypes, <1>pc
  <2> QED
    BY <1>9, <2>1, MoveType DEF ReorderQuestions, TypeOK
<1>10. ASSUME NEW r \in Req, InsertSession(r) PROVE TypeOK'
  BY <1>10, <1>i DEF InsertSession, TypeOK, SessionRow, Status
<1>11. ASSUME NEW r \in Req, PickNext(r) PROVE TypeOK'
  <2>1. [req[r] EXCEPT !.pc = "endLoad"] \in Request
    BY <1>r, FieldTypes, <1>pc
  <2>2. ASSUME NEW next \in After(req[r].q)
        PROVE  [req[r] EXCEPT !.pc = "open", !.q = next, !.at = now] \in Request
    <3>1. next \in Question /\ now \in Time
      BY <1>q DEF After, TypeOK
    <3> QED
      BY <1>r, FieldTypes, <1>pc, <3>1
  <2>3. req' \in [Req -> Request]
    <3>1. CASE req' = [req EXCEPT ![r].pc = "endLoad"]
      BY <3>1, <2>1, MoveType
    <3>2. ASSUME NEW next \in After(req[r].q),
                 req' = [req EXCEPT ![r] = [@ EXCEPT !.pc = "open",
                                                     !.q = next,
                                                     !.at = now]]
          PROVE  req' \in [Req -> Request]
      <4>1. req' = [req EXCEPT ![r] = [req[r] EXCEPT !.pc = "open", !.q = next, !.at = now]]
        BY <3>2 DEF TypeOK
      <4> QED
        BY <4>1, <2>2, MoveType
    <3> QED
      BY <1>11, <3>1, <3>2 DEF PickNext
  <2> QED
    BY <1>11, <2>3 DEF PickNext, TypeOK
<1>12. ASSUME NEW r \in Req, OpenQuestion(r) PROVE TypeOK'
  <2>1. req[r].s \in Session /\ req[r].at \in Time
    BY <1>12, <1>r DEF OpenQuestion, FoundSession, Request
  <2>2. req[r].q \in bank =>
          /\ [status |-> "active", current |-> req[r].q, openedAt |-> req[r].at] \in SessionRow
          /\ [session |-> req[r].s, question |-> req[r].q, at |-> req[r].at,
              limit |-> limit[req[r].q]] \in Opening
    BY <2>1, <1>q, <1>l DEF SessionRow, Opening, Status
  <2> QED
    BY <1>12, <2>2, <1>i DEF OpenQuestion, TypeOK
<1>13. ASSUME NEW r \in Req, WriteReveal(r) PROVE TypeOK'
  BY <1>13, <1>i, SMTT(20) DEF WriteReveal, TypeOK, SessionRow, Status
<1>14. ASSUME NEW r \in Req, LoadEnd(r) PROVE TypeOK'
  <2>1. CASE Live(req[r].s)
    <3>1. req' = [req EXCEPT ![r] = [req[r] EXCEPT !.pc = "end", !.seen = sess[req[r].s].status]]
      BY <1>14, <2>1 DEF LoadEnd
    <3>2. req[r].s \in Session
      BY <1>14 DEF LoadEnd, FoundSession
    <3>3. sess[req[r].s].status \in Status
      BY <3>2 DEF TypeOK, SessionRow
    <3>4. [req[r] EXCEPT !.pc = "end", !.seen = sess[req[r].s].status] \in Request
      BY <1>r, <1>pc, <3>3, ZenonT(60) DEF Request
    <3> QED
      BY <1>14, <3>1, <3>4, MoveType DEF LoadEnd, TypeOK
  <2>2. CASE ~Live(req[r].s)
    BY <1>14, <2>2, <1>i DEF LoadEnd, TypeOK
  <2> QED
    BY <2>1, <2>2
<1>15. ASSUME NEW r \in Req, WriteEnd(r) PROVE TypeOK'
  BY <1>15, <1>i, ZenonT(60) DEF WriteEnd, TypeOK, SessionRow, Status
<1>16. ASSUME NEW r \in Req, ScoreAnswer(r) PROVE TypeOK'
  <2>1. req[r].q \in bank =>
          [req[r] EXCEPT !.pc = "record", !.limit = limit[req[r].q],
                         !.closed = ~OpenAt(req[r].s, req[r].q, req[r].openedAt),
                         !.at = now] \in Request
    <3>1. (~OpenAt(req[r].s, req[r].q, req[r].openedAt)) \in BOOLEAN /\ now \in Time
      BY DEF OpenAt, TypeOK
    <3>2. req[r].q \in bank => limit[req[r].q] \in Nat
      BY <1>q, <1>l
    <3>3. "record" \in PCs
      BY <1>pc
    <3>4. \A l \in Nat, c \in BOOLEAN, t \in Time :
             [req[r] EXCEPT !.pc = "record", !.limit = l, !.closed = c, !.at = t] \in Request
      BY <1>r, <3>3, FieldTypes
    <3> QED
      BY <3>1, <3>2, <3>4
  <2> QED
    BY <1>16, <2>1, <1>i, MoveType DEF ScoreAnswer, TypeOK
<1>17. ASSUME NEW r \in Req, RecordAnswer(r) PROVE TypeOK'
  <2>1. /\ req[r].s \in Session /\ req[r].member \in Member
        /\ req[r].limit \in Nat /\ req[r].closed \in BOOLEAN /\ req[r].at \in Time
    BY <1>17, <1>r DEF RecordAnswer, FoundSession, AnswersAnOpening, Request
  <2>2. req[r].q \in bank =>
          [session |-> req[r].s, question |-> req[r].q, member |-> req[r].member,
           at |-> req[r].at, limit |-> req[r].limit, closed |-> req[r].closed] \in Answer
    BY <2>1, <1>q DEF Answer
  <2> QED
    BY <1>17, <2>2, <1>i DEF RecordAnswer, TypeOK
<1>18. ASSUME NEW r \in Req, InsertQuestion(r) PROVE TypeOK'
  <2>1. req[r].pos \in Int
    BY <1>r DEF Request
  <2>2. created \in Nat /\ MaxQuestions \in Nat /\ created <= MaxQuestions
    BY ConstantsAssumption DEF TypeOK
  <2>3. CASE created < MaxQuestions
    <3>1. created' \in 0..MaxQuestions /\ bank' \subseteq 1..created'
      <4>1. created' = created + 1 /\ bank' = bank \cup {created + 1}
        BY <1>18, <2>3 DEF InsertQuestion
      <4>2. \A q \in bank : q \in Int /\ 1 <= q /\ q <= created
        BY DEF TypeOK
      <4> QED
        BY <4>1, <4>2, <2>2, <2>3
    <3>2. sort' \in [Question -> Int]
      BY <1>18, <2>1, <2>3 DEF InsertQuestion, TypeOK
    <3> QED
      BY <1>18, <3>1, <3>2, <1>i DEF InsertQuestion, TypeOK
  <2>4. CASE ~(created < MaxQuestions)
    BY <1>18, <2>4, <1>i DEF InsertQuestion, TypeOK
  <2> QED
    BY <2>3, <2>4
<1>19. ASSUME NEW r \in Req, WriteEdit(r) PROVE TypeOK'
  <2>1. sort' \in [Question -> Int] /\ limit' \in [Question -> Limits]
    <3>1. CASE req[r].q \notin bank
      BY <1>19, <3>1 DEF WriteEdit, TypeOK
    <3>2. ASSUME NEW order \in {sort[req[r].q]} \cup Positions, NEW ticks \in Limits,
                 req[r].q \in bank,
                 sort' = [sort EXCEPT ![req[r].q] = order],
                 limit' = [limit EXCEPT ![req[r].q] = ticks]
          PROVE  sort' \in [Question -> Int] /\ limit' \in [Question -> Limits]
      <4>1. order \in Int
        BY <1>q, <3>2, ConstantsAssumption DEF TypeOK
      <4> QED
        BY <3>2, <4>1 DEF TypeOK
    <3> QED
      BY <1>19, <3>1, <3>2 DEF WriteEdit
  <2> QED
    BY <1>19, <2>1, <1>i DEF WriteEdit, TypeOK
<1>20. ASSUME NEW r \in Req, CountAnswers(r) PROVE TypeOK'
  <2>1. [req[r] EXCEPT !.pc = "delete"] \in Request
    BY <1>r, FieldTypes, <1>pc
  <2> QED
    BY <1>20, <2>1, <1>i, MoveType DEF CountAnswers, TypeOK
<1>21. ASSUME NEW r \in Req, WriteDelete(r) PROVE TypeOK'
  <2>1. sess' \in [Session -> SessionRow]
    BY <1>21 DEF WriteDelete, TypeOK, SessionRow
  <2> QED
    BY <1>21, <2>1, <1>i DEF WriteDelete, TypeOK
<1>22. ASSUME NEW r \in Req, WriteReorder(r) PROVE TypeOK'
  <2>1. req[r].order \in [Question -> Int]
    BY <1>r, ConstantsAssumption DEF Request
  <2>2. sort' \in [Question -> Int]
    BY <1>22, <2>1 DEF WriteReorder, TypeOK
  <2> QED
    BY <1>22, <2>2, <1>i DEF WriteReorder, TypeOK
<1>23. CASE Tick
  BY <1>23, ConstantsAssumption DEF Tick, TypeOK, Time
<1>24. CASE UNCHANGED vars
  BY <1>24 DEF vars, TypeOK
<1> QED
  BY <1>1, <1>2, <1>3, <1>4, <1>5, <1>6, <1>7, <1>8, <1>9, <1>10, <1>11, <1>12,
     <1>13, <1>14, <1>15, <1>16, <1>17, <1>18, <1>19, <1>20, <1>21, <1>22, <1>23, <1>24
  DEF Next, Arrive, Step

-----------------------------------------------------------------------------
(* Sessions *)

\* What a request's next state has to satisfy for FoundSession to be kept.
LEMMA FoundMove ==
    ASSUME TypeOK, FoundSession, NEW r \in Req, NEW v,
           req' = [req EXCEPT ![r] = v],
           \/ v.s \in Session
           \/ v.pc \notin {"pick", "open", "reveal", "endLoad", "end", "score", "record"}
    PROVE  FoundSession'
<1>1. req'[r] = v /\ \A p \in Req \ {r} : req'[p] = req[p]
  BY DEF TypeOK
<1> QED
  BY <1>1 DEF FoundSession

\* A request that starts work on a session found it, and keeps it.
LEMMA FoundStep == TypeOK /\ FoundSession /\ [Next]_vars => FoundSession'
<1> SUFFICES ASSUME TypeOK, FoundSession, [Next]_vars PROVE FoundSession'
  OBVIOUS
<1> USE DEF At, Begin, Done
<1>i. Idle.pc = "idle"
  BY DEF Idle
<1>1. ASSUME NEW r \in Req, CreateSession(r) PROVE FoundSession'
  <2> DEFINE v == [Idle EXCEPT !.pc = "insertSession"]
  <2>1. v.pc = "insertSession"
    BY DEF Idle
  <2> QED
    BY <1>1, <2>1, FoundMove DEF CreateSession
<1>2. ASSUME NEW r \in Req, CreateQuestion(r) PROVE FoundSession'
  <2>1. ASSUME NEW n \in Int PROVE [Idle EXCEPT !.pc = "insertQuestion", !.pos = n].pc = "insertQuestion"
    BY DEF Idle
  <2> QED
    BY <1>2, <2>1, CreationEffect, FoundMove
<1>3. ASSUME NEW r \in Req, ReorderQuestions(r) PROVE FoundSession'
  <2>1. ASSUME NEW o PROVE [Idle EXCEPT !.pc = "reorder", !.order = o].pc = "reorder"
    BY DEF Idle
  <2> QED
    BY <1>3, <2>1, FoundMove DEF ReorderQuestions
<1>4. ASSUME NEW r \in Req, NEW q \in Question, EditQuestion(r, q) PROVE FoundSession'
  <2>1. [Idle EXCEPT !.pc = "edit", !.q = q].pc = "edit"
    BY DEF Idle
  <2> QED
    BY <1>4, <2>1, FoundMove DEF EditQuestion
<1>5. ASSUME NEW r \in Req, NEW q \in Question, DeleteQuestion(r, q) PROVE FoundSession'
  <2>1. [Idle EXCEPT !.pc = "count", !.q = q].pc = "count"
    BY DEF Idle
  <2> QED
    BY <1>5, <2>1, FoundMove DEF DeleteQuestion
<1>6. ASSUME NEW r \in Req, NEW s \in Session, NextQuestion(r, s) PROVE FoundSession'
  <2>1. [Idle EXCEPT !.pc = "pick", !.s = s, !.seen = sess[s].status,
              !.q = sess[s].current].s = s
    BY DEF Idle
  <2> QED
    BY <1>6, <2>1, FoundMove DEF NextQuestion
<1>7. ASSUME NEW r \in Req, NEW s \in Session, RevealQuestion(r, s) PROVE FoundSession'
  <2>1. [Idle EXCEPT !.pc = "reveal", !.s = s, !.seen = sess[s].status].s = s
    BY DEF Idle
  <2> QED
    BY <1>7, <2>1, FoundMove DEF RevealQuestion
<1>8. ASSUME NEW r \in Req, NEW s \in Session, EndSession(r, s) PROVE FoundSession'
  <2>1. [Idle EXCEPT !.pc = "end", !.s = s, !.seen = sess[s].status].s = s
    BY DEF Idle
  <2> QED
    BY <1>8, <2>1, FoundMove DEF EndSession
<1>9. ASSUME NEW r \in Req, NEW m \in Member, NEW s \in Session, NEW q \in Question,
             SubmitAnswer(r, m, s, q)
      PROVE FoundSession'
  <2>1. [Idle EXCEPT !.pc = "score", !.s = s, !.q = q, !.member = m,
                     !.openedAt = sess[s].openedAt].s = s
    BY DEF Idle
  <2> QED
    BY <1>9, <2>1, FoundMove DEF SubmitAnswer
<1>10. ASSUME NEW r \in Req, PickNext(r) \/ LoadEnd(r) \/ ScoreAnswer(r)
       PROVE FoundSession'
  <2>1. req \in [Req -> Request] /\ req[r].s \in Session
    BY <1>10 DEF PickNext, LoadEnd, ScoreAnswer, FoundSession, TypeOK
  <2>2. PICK v \in {req'[r]} : req' = [req EXCEPT ![r] = v]
    BY <1>10, <2>1 DEF PickNext, LoadEnd, ScoreAnswer
  <2>3. v.s = req[r].s \/ v.pc = "idle"
    <3>1. CASE PickNext(r)
      BY <3>1, <2>1, <2>2 DEF PickNext, Request
    <3>2. CASE LoadEnd(r)
      BY <3>2, <2>1, <2>2, <1>i, ZenonT(60) DEF LoadEnd, Request
    <3>3. CASE ScoreAnswer(r)
      <4> DEFINE then == [req[r] EXCEPT !.pc = "record", !.limit = limit[req[r].q],
                              !.closed = ~OpenAt(req[r].s, req[r].q, req[r].openedAt),
                              !.at = now]
      <4>1. req' = [req EXCEPT ![r] = then] \/ req' = [req EXCEPT ![r] = Idle]
        BY <3>3 DEF ScoreAnswer, Done
      <4>2. then.s = req[r].s /\ Idle.pc = "idle"
        BY <2>1 DEF Request, Idle
      <4> HIDE DEF then
      <4> QED
        BY <4>1, <4>2, <2>1, <2>2
    <3> QED
      BY <1>10, <3>1, <3>2, <3>3
  <2> QED
    BY <2>1, <2>2, <2>3, FoundMove
<1>11. ASSUME NEW r \in Req, CountAnswers(r) PROVE FoundSession'
  <2>1. req[r] \in Request
    BY DEF TypeOK
  <2>2. [req[r] EXCEPT !.pc = "delete"].pc = "delete"
    BY <2>1 DEF Request
  <2>3. \/ req' = [req EXCEPT ![r] = Idle]
        \/ req' = [req EXCEPT ![r] = [req[r] EXCEPT !.pc = "delete"]]
    BY <1>11 DEF CountAnswers
  <2> QED
    BY <2>2, <2>3, <1>i, FoundMove
<1>12. ASSUME NEW r \in Req,
              \/ InsertSession(r) \/ OpenQuestion(r) \/ WriteReveal(r) \/ WriteEnd(r)
              \/ RecordAnswer(r) \/ InsertQuestion(r) \/ WriteEdit(r)
              \/ WriteDelete(r) \/ WriteReorder(r)
       PROVE FoundSession'
  <2>1. req' = [req EXCEPT ![r] = Idle]
    BY <1>12
    DEF InsertSession, OpenQuestion, WriteReveal, WriteEnd, RecordAnswer,
        InsertQuestion, WriteEdit, WriteDelete, WriteReorder
  <2> QED
    BY <2>1, <1>i, FoundMove
<1>13. CASE Tick \/ UNCHANGED vars
  BY <1>13 DEF Tick, vars, FoundSession
<1> QED
  BY <1>1, <1>2, <1>3, <1>4, <1>5, <1>6, <1>7, <1>8, <1>9, <1>10, <1>11, <1>12, <1>13
  DEF Next, Arrive, Step

\* The unique index: a session is only written with a live status when no
\* other one is live.
LEMMA LiveStep ==
    TypeOK /\ FoundSession /\ OneLiveSession /\ [Next]_vars => OneLiveSession'
<1> SUFFICES ASSUME TypeOK, FoundSession, OneLiveSession, [Next]_vars
             PROVE OneLiveSession'
  OBVIOUS
<1> USE DEF At, Done
<1>1. ASSUME NEW r \in Req, InsertSession(r) PROVE OneLiveSession'
  BY <1>1 DEF InsertSession, IndexAllows, OneLiveSession, Live, TypeOK
<1>2. ASSUME NEW r \in Req, OpenQuestion(r) PROVE OneLiveSession'
  BY <1>2 DEF OpenQuestion, IndexAllows, OneLiveSession, Live, TypeOK, FoundSession
<1>3. ASSUME NEW r \in Req, WriteReveal(r) PROVE OneLiveSession'
  BY <1>3 DEF WriteReveal, IndexAllows, OneLiveSession, Live, TypeOK, FoundSession
<1>4. ASSUME NEW r \in Req, WriteEnd(r) PROVE OneLiveSession'
  BY <1>4 DEF WriteEnd, OneLiveSession, Live, TypeOK, FoundSession
<1>5. ASSUME NEW r \in Req, WriteDelete(r) PROVE OneLiveSession'
  <2>1. \A s \in Session : sess'[s].status = sess[s].status
    BY <1>5 DEF WriteDelete, TypeOK, SessionRow
  <2> QED
    BY <2>1 DEF OneLiveSession, Live
<1>6. CASE UNCHANGED sess
  BY <1>6 DEF OneLiveSession, Live
<1>7. ASSUME NEW r \in Req, Arrive(r) PROVE UNCHANGED sess
  BY <1>7
  DEF Arrive, CreateSession, NextQuestion, RevealQuestion, EndSession, SubmitAnswer,
      CreateQuestion, EditQuestion, DeleteQuestion, ReorderQuestions
<1>8. ASSUME NEW r \in Req,
             \/ PickNext(r) \/ LoadEnd(r) \/ ScoreAnswer(r) \/ RecordAnswer(r)
             \/ InsertQuestion(r) \/ WriteEdit(r) \/ CountAnswers(r) \/ WriteReorder(r)
      PROVE UNCHANGED sess
  BY <1>8
  DEF PickNext, LoadEnd, ScoreAnswer, RecordAnswer, InsertQuestion, WriteEdit,
      CountAnswers, WriteReorder
<1>9. CASE Tick \/ UNCHANGED vars
  BY <1>6, <1>9 DEF Tick, vars
<1> QED
  BY <1>1, <1>2, <1>3, <1>4, <1>5, <1>6, <1>7, <1>8, <1>9 DEF Next, Step

\* The other unique index: an answer is only added where there is none.
LEMMA AnswerStep == TypeOK /\ OneAnswer /\ [Next]_vars => OneAnswer'
<1> SUFFICES ASSUME TypeOK, OneAnswer, [Next]_vars PROVE OneAnswer'
  OBVIOUS
<1>1. ASSUME NEW r \in Req, RecordAnswer(r) PROVE OneAnswer'
  BY <1>1 DEF RecordAnswer, Answered, OneAnswer
<1>2. ASSUME NEW r \in Req, WriteDelete(r) PROVE OneAnswer'
  BY <1>2 DEF WriteDelete, OneAnswer
<1>3. ASSUME NEW r \in Req, Arrive(r) PROVE UNCHANGED answers
  BY <1>3
  DEF Arrive, CreateSession, NextQuestion, RevealQuestion, EndSession, SubmitAnswer,
      CreateQuestion, EditQuestion, DeleteQuestion, ReorderQuestions
<1>4. ASSUME NEW r \in Req,
             \/ InsertSession(r) \/ PickNext(r) \/ OpenQuestion(r) \/ WriteReveal(r)
             \/ LoadEnd(r) \/ WriteEnd(r) \/ ScoreAnswer(r) \/ InsertQuestion(r)
             \/ WriteEdit(r) \/ CountAnswers(r) \/ WriteReorder(r)
      PROVE UNCHANGED answers
  BY <1>4
  DEF InsertSession, PickNext, OpenQuestion, WriteReveal, LoadEnd, WriteEnd,
      ScoreAnswer, InsertQuestion, WriteEdit, CountAnswers, WriteReorder
<1>5. CASE UNCHANGED answers
  BY <1>5 DEF OneAnswer
<1> QED
  BY <1>1, <1>2, <1>3, <1>4, <1>5 DEF Next, Step, Tick, vars

-----------------------------------------------------------------------------
(* Openings, and the time of an answer *)

\* What a step leaves of a request: nothing, itself, or a state it works out.
LEMMA Moves ==
    ASSUME TypeOK, NEW r \in Req, NEW v, req' = [req EXCEPT ![r] = v]
    PROVE  req'[r] = v /\ \A p \in Req \ {r} : req'[p] = req[p]
  BY DEF TypeOK

\* The openings only grow, and only when a question is opened at a past time.
LEMMA OpeningsGrow ==
    TypeOK /\ StampedBefore /\ [Next]_vars
    => /\ openings \subseteq openings'
       /\ \A o \in openings' : o.at <= now
       /\ now <= now' /\ now' \in Int
<1> SUFFICES ASSUME TypeOK, StampedBefore, [Next]_vars
             PROVE  /\ openings \subseteq openings'
                    /\ \A o \in openings' : o.at <= now
                    /\ now <= now' /\ now' \in Int
  OBVIOUS
<1>1. now \in Int
  BY ConstantsAssumption DEF TypeOK, Time
<1>2. ASSUME NEW r \in Req, OpenQuestion(r)
      PROVE  /\ openings \subseteq openings'
             /\ \A o \in openings' : o.at <= now
             /\ now' = now
  BY <1>2 DEF OpenQuestion, StampedBefore
<1>3. ASSUME NEW r \in Req, Arrive(r) PROVE UNCHANGED <<openings, now>>
  BY <1>3
  DEF Arrive, CreateSession, NextQuestion, RevealQuestion, EndSession, SubmitAnswer,
      CreateQuestion, EditQuestion, DeleteQuestion, ReorderQuestions
<1>4. ASSUME NEW r \in Req,
             \/ InsertSession(r) \/ PickNext(r) \/ WriteReveal(r) \/ LoadEnd(r)
             \/ WriteEnd(r) \/ ScoreAnswer(r) \/ RecordAnswer(r) \/ InsertQuestion(r)
             \/ WriteEdit(r) \/ CountAnswers(r) \/ WriteDelete(r) \/ WriteReorder(r)
      PROVE UNCHANGED <<openings, now>>
  BY <1>4
  DEF InsertSession, PickNext, WriteReveal, LoadEnd, WriteEnd, ScoreAnswer,
      RecordAnswer, InsertQuestion, WriteEdit, CountAnswers, WriteDelete, WriteReorder
<1>5. CASE Tick
  BY <1>1, <1>5 DEF Tick, StampedBefore
<1>6. CASE UNCHANGED <<openings, now>>
  BY <1>1, <1>6 DEF StampedBefore
<1> QED
  BY <1>1, <1>2, <1>3, <1>4, <1>5, <1>6 DEF Next, Step, vars

\* A request that arrives only starts; an answer starts with the question that
\* is open, and an edit with one that is not.
LEMMA Started ==
    ASSUME TypeOK, NEW r \in Req, Arrive(r)
    PROVE  \E v : /\ req' = [req EXCEPT ![r] = v]
                  /\ v.pc \notin {"open", "record"}
                  /\ v.pc = "edit" => ~LiveCurrent(v.q)
                  /\ v.pc = "score" =>
                       /\ v.member \in Member /\ v.s \in Session /\ v.q \in Question
                       /\ sess[v.s].status = "active"
                       /\ v.q = sess[v.s].current
                       /\ v.openedAt = sess[v.s].openedAt
<1> USE DEF Begin
<1> DEFINE Goal(v) == /\ req' = [req EXCEPT ![r] = v]
                      /\ v.pc \notin {"open", "record", "score"}
                      /\ v.pc = "edit" => ~LiveCurrent(v.q)
<1>1. ASSUME CreateSession(r) PROVE \E v : Goal(v)
  <2>1. [Idle EXCEPT !.pc = "insertSession"].pc = "insertSession"
    BY DEF Idle
  <2> QED
    BY <1>1, <2>1 DEF CreateSession
<1>2. ASSUME NEW s \in Session, NextQuestion(r, s) PROVE \E v : Goal(v)
  <2>1. [Idle EXCEPT !.pc = "pick", !.s = s, !.seen = sess[s].status,
              !.q = sess[s].current].pc = "pick"
    BY DEF Idle
  <2> QED
    BY <1>2, <2>1 DEF NextQuestion
<1>3. ASSUME NEW s \in Session, RevealQuestion(r, s) PROVE \E v : Goal(v)
  <2>1. [Idle EXCEPT !.pc = "reveal", !.s = s, !.seen = sess[s].status].pc = "reveal"
    BY DEF Idle
  <2> QED
    BY <1>3, <2>1 DEF RevealQuestion
<1>4. ASSUME NEW s \in Session, EndSession(r, s) PROVE \E v : Goal(v)
  <2>1. [Idle EXCEPT !.pc = "end", !.s = s, !.seen = sess[s].status].pc = "end"
    BY DEF Idle
  <2> QED
    BY <1>4, <2>1 DEF EndSession
<1>5. ASSUME CreateQuestion(r) PROVE \E v : Goal(v)
  <2>1. \A n : [Idle EXCEPT !.pc = "insertQuestion", !.pos = n].pc = "insertQuestion"
    BY DEF Idle
  <2> QED
    BY <1>5, <2>1, CreationEffect
<1>6. ASSUME NEW q \in Question, EditQuestion(r, q) PROVE \E v : Goal(v)
  <2> DEFINE v == [Idle EXCEPT !.pc = "edit", !.q = q]
  <2>1. v.pc = "edit" /\ v.q = q
    BY DEF Idle
  <2>2. req' = [req EXCEPT ![r] = v] /\ ~LiveCurrent(q)
    BY <1>6 DEF EditQuestion
  <2> HIDE DEF v
  <2> QED
    BY <2>1, <2>2
<1>7. ASSUME NEW q \in Question, DeleteQuestion(r, q) PROVE \E v : Goal(v)
  <2>1. [Idle EXCEPT !.pc = "count", !.q = q].pc = "count"
    BY DEF Idle
  <2> QED
    BY <1>7, <2>1 DEF DeleteQuestion
<1>8. ASSUME ReorderQuestions(r) PROVE \E v : Goal(v)
  <2>1. \A o : [Idle EXCEPT !.pc = "reorder", !.order = o].pc = "reorder"
    BY DEF Idle
  <2> QED
    BY <1>8, <2>1 DEF ReorderQuestions
<1>9. ASSUME NEW m \in Member, NEW s \in Session, NEW q \in Question,
             SubmitAnswer(r, m, s, q)
      PROVE  \E v : /\ req' = [req EXCEPT ![r] = v]
                    /\ v.pc = "score"
                    /\ v.member \in Member /\ v.s \in Session /\ v.q \in Question
                    /\ sess[v.s].status = "active"
                    /\ v.q = sess[v.s].current
                    /\ v.openedAt = sess[v.s].openedAt
  <2> DEFINE v == [Idle EXCEPT !.pc = "score", !.s = s, !.q = q, !.member = m,
                               !.openedAt = sess[s].openedAt]
  <2>1. /\ v.pc = "score" /\ v.s = s /\ v.q = q /\ v.member = m
        /\ v.openedAt = sess[s].openedAt
    BY DEF Idle
  <2>2. req' = [req EXCEPT ![r] = v] /\ sess[s].status = "active" /\ q = sess[s].current
    BY <1>9 DEF SubmitAnswer
  <2> HIDE DEF v
  <2> QED
    BY <2>1, <2>2
<1>10. (\E v : Goal(v)) \/ \E m \in Member, s \in Session, q \in Question : SubmitAnswer(r, m, s, q)
  BY <1>1, <1>2, <1>3, <1>4, <1>5, <1>6, <1>7, <1>8 DEF Arrive
<1> QED
  BY <1>9, <1>10

\* A question is stamped with the clock and written later.
LEMMA StampStep == TypeOK /\ StampedBefore /\ [Next]_vars => StampedBefore'
<1> SUFFICES ASSUME TypeOK, StampedBefore, [Next]_vars PROVE StampedBefore'
  OBVIOUS
<1> USE DEF At, Begin, Done
<1>n. now \in Int /\ \A o \in openings : o.at \in Int
  BY ConstantsAssumption DEF TypeOK, Time, Opening
<1>g. /\ \A o \in openings' : o.at <= now
      /\ now <= now' /\ now' \in Int
  BY OpeningsGrow
<1>o. \A o \in openings' : o.at <= now'
  <2>1. \A o \in openings' : o.at \in Int
    <3>1. ASSUME NEW r \in Req, OpenQuestion(r) PROVE \A o \in openings' : o.at \in Int
      <4>1. req[r].at \in Int
        BY ConstantsAssumption DEF TypeOK, Request, Time
      <4> QED
        BY <3>1, <4>1, <1>n DEF OpenQuestion
    <3>2. ASSUME ~ \E r \in Req : OpenQuestion(r) PROVE openings' = openings
      BY <3>2, ZenonT(60)
      DEF Next, Arrive, Step, CreateSession, NextQuestion, RevealQuestion, EndSession,
          SubmitAnswer, CreateQuestion, EditQuestion, DeleteQuestion, ReorderQuestions,
          InsertSession, PickNext, WriteReveal, LoadEnd, WriteEnd, ScoreAnswer,
          RecordAnswer, InsertQuestion, WriteEdit, CountAnswers, WriteDelete,
          WriteReorder, Tick, vars
    <3> QED
      BY <3>1, <3>2, <1>n
  <2> QED
    BY <2>1, <1>g, <1>n
<1>s. \A p \in Req : req[p].pc = "open" => req[p].at <= now' /\ req[p].at \in Int
  <2>1. \A p \in Req : req[p].at \in Int
    BY ConstantsAssumption DEF TypeOK, Request, Time
  <2> QED
    BY <2>1, <1>g, <1>n DEF StampedBefore
<1>1. ASSUME NEW r \in Req, PickNext(r) PROVE StampedBefore'
  <2>1. /\ \A p \in Req \ {r} : req'[p] = req[p]
        /\ now' = now
        /\ req'[r].pc = "open" => req'[r].at = now
    BY <1>1, ZenonT(60) DEF PickNext, TypeOK, Request
  <2> QED
    BY <2>1, <1>o, <1>s, <1>n DEF StampedBefore
<1>2. ASSUME NEW r \in Req, \A p \in Req \ {r} : req'[p] = req[p], req'[r].pc # "open"
      PROVE StampedBefore'
  BY <1>2, <1>o, <1>s DEF StampedBefore
<1>3. ASSUME NEW r \in Req, NEW v, req' = [req EXCEPT ![r] = v], v.pc # "open"
      PROVE StampedBefore'
  BY <1>2, <1>3, Moves
<1>4. ASSUME NEW r \in Req, Arrive(r) PROVE StampedBefore'
  <2>1. \E v : req' = [req EXCEPT ![r] = v] /\ v.pc # "open"
    BY <1>4, Started
  <2> QED
    BY <1>3, <2>1
<1>5. ASSUME NEW r \in Req,
             \/ InsertSession(r) \/ OpenQuestion(r) \/ WriteReveal(r) \/ WriteEnd(r)
             \/ RecordAnswer(r) \/ InsertQuestion(r) \/ WriteEdit(r)
             \/ WriteDelete(r) \/ WriteReorder(r)
      PROVE StampedBefore'
  <2>1. req' = [req EXCEPT ![r] = Idle]
    BY <1>5
    DEF InsertSession, OpenQuestion, WriteReveal, WriteEnd, RecordAnswer,
        InsertQuestion, WriteEdit, WriteDelete, WriteReorder
  <2>2. Idle.pc # "open"
    BY DEF Idle
  <2> QED
    BY <2>1, <2>2, <1>3
<1>6. ASSUME NEW r \in Req, LoadEnd(r) \/ ScoreAnswer(r) \/ CountAnswers(r)
      PROVE StampedBefore'
  <2>1. req'[r].pc # "open" /\ \A p \in Req \ {r} : req'[p] = req[p]
    <3>1. CASE LoadEnd(r)
      BY <3>1, LoadEndEffect
    <3>2. CASE ScoreAnswer(r)
      BY <3>2, ScoreAnswerEffect
    <3>3. CASE CountAnswers(r)
      BY <3>3 DEF CountAnswers, TypeOK, Request, Idle
    <3> QED
      BY <1>6, <3>1, <3>2, <3>3
  <2> QED
    BY <2>1, <1>2
<1>7. CASE Tick \/ UNCHANGED vars
  BY <1>7, <1>o, <1>s DEF Tick, vars, StampedBefore
<1> QED
  BY <1>1, <1>4, <1>5, <1>6, <1>7 DEF Next, Step

\* A question that is open after any other write of a session was open before.
LEMMA StaysActive ==
    ASSUME TypeOK, NEW r \in Req,
           InsertSession(r) \/ WriteReveal(r) \/ WriteEnd(r) \/ WriteDelete(r)
    PROVE  \A s \in Session : sess'[s].status = "active" /\ sess'[s].current # NoQuestion
                              => sess'[s] = sess[s]
<1>1. CASE InsertSession(r)
  BY <1>1 DEF InsertSession, TypeOK, SessionRow
<1>2. CASE WriteReveal(r)
  BY <1>2 DEF WriteReveal, TypeOK, SessionRow
<1>3. CASE WriteEnd(r)
  BY <1>3 DEF WriteEnd, TypeOK, SessionRow
<1>4. CASE WriteDelete(r)
  BY <1>4 DEF WriteDelete, TypeOK, SessionRow
<1> QED
  BY <1>1, <1>2, <1>3, <1>4

\* While a question is open, its opening is on record.
LEMMA OpenStep ==
    TypeOK /\ FoundSession /\ StampedBefore /\ ActiveWasOpened /\ [Next]_vars
    => ActiveWasOpened'
<1> SUFFICES ASSUME TypeOK, FoundSession, StampedBefore, ActiveWasOpened, [Next]_vars
             PROVE ActiveWasOpened'
  OBVIOUS
<1> USE DEF At, Done
<1>g. openings \subseteq openings'
  BY OpeningsGrow
<1>1. ASSUME NEW r \in Req, OpenQuestion(r) PROVE ActiveWasOpened'
  <2>1. req[r].s \in Session
    BY <1>1 DEF OpenQuestion, FoundSession
  <2> QED
    <3> DEFINE s == req[r].s
               o == [session |-> s, question |-> req[r].q, at |-> req[r].at,
                     limit |-> limit[req[r].q]]
    <3>1. CASE UNCHANGED <<sess, openings>>
      BY <3>1 DEF ActiveWasOpened
    <3>2. CASE /\ sess' = [sess EXCEPT ![s] = [status |-> "active", current |-> req[r].q,
                                              openedAt |-> req[r].at]]
               /\ openings' = openings \cup {o}
      <4>1. /\ sess'[s].current = req[r].q /\ sess'[s].openedAt = req[r].at
            /\ \A t \in Session \ {s} : sess'[t] = sess[t]
        BY <2>1, <3>2 DEF TypeOK
      <4>2. OpenedAt(o, s, req[r].q, req[r].at) /\ o \in openings'
        BY <3>2 DEF OpenedAt
      <4> HIDE DEF o, s
      <4> QED
        BY <1>g, <4>1, <4>2 DEF ActiveWasOpened
    <3> QED
      BY <1>1, <3>1, <3>2 DEF OpenQuestion
<1>2. ASSUME NEW r \in Req,
             InsertSession(r) \/ WriteReveal(r) \/ WriteEnd(r) \/ WriteDelete(r)
      PROVE ActiveWasOpened'
  BY <1>2, <1>g, StaysActive DEF ActiveWasOpened
<1>3. CASE UNCHANGED sess
  BY <1>3, <1>g DEF ActiveWasOpened
<1>4. ASSUME NEW r \in Req, Arrive(r) PROVE UNCHANGED sess
  BY <1>4
  DEF Arrive, CreateSession, NextQuestion, RevealQuestion, EndSession, SubmitAnswer,
      CreateQuestion, EditQuestion, DeleteQuestion, ReorderQuestions
<1>5. ASSUME NEW r \in Req,
             \/ PickNext(r) \/ LoadEnd(r) \/ ScoreAnswer(r) \/ RecordAnswer(r)
             \/ InsertQuestion(r) \/ WriteEdit(r) \/ CountAnswers(r) \/ WriteReorder(r)
      PROVE UNCHANGED sess
  BY <1>5
  DEF PickNext, LoadEnd, ScoreAnswer, RecordAnswer, InsertQuestion, WriteEdit,
      CountAnswers, WriteReorder
<1> QED
  BY <1>1, <1>2, <1>3, <1>4, <1>5 DEF Next, Step, Tick, vars

\* An answer keeps measuring its time from that opening.
LEMMA AnsweringStep ==
    TypeOK /\ StampedBefore /\ ActiveWasOpened /\ AnswersAnOpening /\ [Next]_vars
    => AnswersAnOpening'
<1> SUFFICES ASSUME TypeOK, StampedBefore, ActiveWasOpened, AnswersAnOpening, [Next]_vars
             PROVE AnswersAnOpening'
  OBVIOUS
<1> USE DEF At, Begin, Done
<1> DEFINE Opened(v) == \E o \in openings : OpenedAt(o, v.s, v.q, v.openedAt)
           Sound(v) == v.pc \in {"score", "record"} =>
                         /\ v.member \in Member
                         /\ Opened(v)
                         /\ v.pc = "record" => v.at - v.openedAt \in 0..v.limit
<1>g. openings \subseteq openings'
  BY OpeningsGrow
<1>s. \A p \in Req : Sound(req[p])
  BY DEF AnswersAnOpening
<1>1. ASSUME NEW r \in Req, Sound(req'[r]), \A p \in Req \ {r} : req'[p] = req[p]
      PROVE AnswersAnOpening'
  <2>1. \A p \in Req : Sound(req'[p])
    BY <1>1, <1>s
  <2> QED
    BY <2>1, <1>g DEF AnswersAnOpening
<1>i. ASSUME NEW r \in Req, req' = [req EXCEPT ![r] = Idle] PROVE AnswersAnOpening'
  <2>1. req'[r] = Idle /\ \A p \in Req \ {r} : req'[p] = req[p]
    BY <1>i, Moves
  <2>2. req'[r].pc = "idle"
    BY <2>1 DEF Idle
  <2>3. Sound(req'[r])
    BY <2>2
  <2> QED
    BY <2>1, <2>3, <1>1
<1>2. ASSUME NEW r \in Req, Arrive(r) PROVE AnswersAnOpening'
  <2>1. PICK v : /\ req' = [req EXCEPT ![r] = v]
                 /\ v.pc \notin {"open", "record"}
                 /\ v.pc = "score" =>
                      /\ v.member \in Member /\ v.s \in Session /\ v.q \in Question
                      /\ sess[v.s].status = "active"
                      /\ v.q = sess[v.s].current
                      /\ v.openedAt = sess[v.s].openedAt
    BY <1>2, Started
  <2>2. v.pc = "score" => Opened(v)
    <3>1. ASSUME v.pc = "score" PROVE v.q # NoQuestion
      BY <2>1, <3>1 DEF Question, NoQuestion
    <3> QED
      BY <2>1, <3>1 DEF ActiveWasOpened
  <2>3. Sound(v)
    BY <2>1, <2>2
  <2> QED
    BY <2>1, <2>3, <1>1, Moves, ZenonT(60)
<1>3. ASSUME NEW r \in Req, ScoreAnswer(r) PROVE AnswersAnOpening'
  <2>1. /\ req[r] \in Request /\ req[r].pc = "score"
        /\ req[r].member \in Member /\ Opened(req[r])
    BY <1>3, <1>s DEF ScoreAnswer, TypeOK
  <2> DEFINE l == limit[req[r].q]
             c == ~OpenAt(req[r].s, req[r].q, req[r].openedAt)
  <2>2. /\ now \in Int
        /\ req[r].openedAt \in Int /\ req[r].openedAt <= now
    <3>1. now \in Int
      BY ConstantsAssumption DEF TypeOK, Time
    <3>2. req[r].openedAt \in Int
      BY <2>1, ConstantsAssumption DEF Request, Time, Never
    <3> QED
      BY <3>1, <3>2, <2>1 DEF StampedBefore, OpenedAt
  <2>3. CASE req' = [req EXCEPT ![r] = Idle]
    BY <2>3, <1>i
  <2>4. CASE /\ req[r].q \in bank
             /\ now - req[r].openedAt <= l
             /\ req' = [req EXCEPT ![r] = [@ EXCEPT !.pc = "record", !.limit = l,
                                                    !.closed = c, !.at = now]]
    <3>0. l \in Nat
      BY <2>4, ConstantsAssumption DEF TypeOK, Question
    <3> HIDE DEF l, c
    <3>1. /\ req'[r].pc = "record" /\ req'[r].at = now /\ req'[r].limit = l
          /\ req'[r].s = req[r].s /\ req'[r].q = req[r].q
          /\ req'[r].member = req[r].member /\ req'[r].openedAt = req[r].openedAt
          /\ \A p \in Req \ {r} : req'[p] = req[p]
      BY <2>4, <2>1 DEF TypeOK, Request
    <3>2. Sound(req'[r])
      BY <3>0, <3>1, <2>1, <2>2, <2>4
    <3> QED
      BY <3>1, <3>2, <1>1
  <2> QED
    BY <1>3, <2>3, <2>4 DEF ScoreAnswer
<1>4. ASSUME NEW r \in Req, PickNext(r) \/ LoadEnd(r) \/ CountAnswers(r)
      PROVE AnswersAnOpening'
  <2>1. /\ req'[r].pc \notin {"score", "record"}
        /\ \A p \in Req \ {r} : req'[p] = req[p]
    <3>1. CASE PickNext(r)
      <4>1. req \in [Req -> Request] /\ req[r] \in Request
        BY DEF TypeOK
      <4>2. \/ req' = [req EXCEPT ![r].pc = "endLoad"]
            \/ \E n \in After(req[r].q) :
                 req' = [req EXCEPT ![r] = [@ EXCEPT !.pc = "open",
                                                     !.q = n,
                                                     !.at = now]]
        BY <3>1 DEF PickNext
      <4>3. CASE req' = [req EXCEPT ![r].pc = "endLoad"]
        BY <4>1, <4>3 DEF Request
      <4>4. ASSUME NEW n \in After(req[r].q),
                   req' = [req EXCEPT ![r] = [@ EXCEPT !.pc = "open",
                                                       !.q = n,
                                                       !.at = now]]
            PROVE  req'[r].pc = "open" /\ \A p \in Req \ {r} : req'[p] = req[p]
        BY <4>1, <4>4 DEF Request
      <4> QED
        BY <4>2, <4>3, <4>4
    <3>2. CASE LoadEnd(r)
      BY <3>2, LoadEndEffect
    <3>3. CASE CountAnswers(r)
      BY <3>3 DEF CountAnswers, TypeOK, Request, Idle
    <3> QED
      BY <1>4, <3>1, <3>2, <3>3
  <2> QED
    BY <2>1, <1>1
<1>5. ASSUME NEW r \in Req,
             \/ InsertSession(r) \/ OpenQuestion(r) \/ WriteReveal(r) \/ WriteEnd(r)
             \/ RecordAnswer(r) \/ InsertQuestion(r) \/ WriteEdit(r)
             \/ WriteDelete(r) \/ WriteReorder(r)
      PROVE AnswersAnOpening'
  <2>1. req' = [req EXCEPT ![r] = Idle]
    BY <1>5
    DEF InsertSession, OpenQuestion, WriteReveal, WriteEnd, RecordAnswer,
        InsertQuestion, WriteEdit, WriteDelete, WriteReorder
  <2> QED
    BY <2>1, <1>i
<1>6. CASE Tick \/ UNCHANGED vars
  BY <1>6 DEF Tick, vars, AnswersAnOpening
<1> QED
  BY <1>2, <1>3, <1>4, <1>5, <1>6 DEF Next, Step

\* So every answer that is recorded was timed within the limit it was held against.
LEMMA WindowStep ==
    TypeOK /\ StampedBefore /\ AnswersAnOpening /\ AnsweredInTime /\ [Next]_vars
    => AnsweredInTime'
<1> SUFFICES ASSUME TypeOK, StampedBefore, AnswersAnOpening, AnsweredInTime, [Next]_vars
             PROVE AnsweredInTime'
  OBVIOUS
<1> USE DEF At
<1>g. openings \subseteq openings'
  BY OpeningsGrow
<1>1. ASSUME NEW r \in Req, RecordAnswer(r) PROVE AnsweredInTime'
  <2> DEFINE new == [session |-> req[r].s, question |-> req[r].q, member |-> req[r].member,
                     at |-> req[r].at, limit |-> req[r].limit, closed |-> req[r].closed]
  <2>1. PICK o \in openings : /\ OpenedAt(o, req[r].s, req[r].q, req[r].openedAt)
                              /\ req[r].at - req[r].openedAt \in 0..req[r].limit
    BY <1>1 DEF RecordAnswer, AnswersAnOpening
  <2>2. \A a \in answers' : a \in answers \/ a = new
    BY <1>1 DEF RecordAnswer
  <2>3. TimedFrom(new, o)
    BY <2>1 DEF OpenedAt, TimedFrom
  <2> HIDE DEF new
  <2> QED
    BY <2>1, <2>2, <2>3, <1>g DEF AnsweredInTime
<1>2. CASE answers' \subseteq answers
  BY <1>2, <1>g DEF AnsweredInTime
<1>3. ASSUME NEW r \in Req, WriteDelete(r) PROVE answers' \subseteq answers
  BY <1>3 DEF WriteDelete
<1>4. ASSUME NEW r \in Req, Arrive(r) PROVE UNCHANGED answers
  BY <1>4
  DEF Arrive, CreateSession, NextQuestion, RevealQuestion, EndSession, SubmitAnswer,
      CreateQuestion, EditQuestion, DeleteQuestion, ReorderQuestions
<1>5. ASSUME NEW r \in Req,
             \/ InsertSession(r) \/ PickNext(r) \/ OpenQuestion(r) \/ WriteReveal(r)
             \/ LoadEnd(r) \/ WriteEnd(r) \/ ScoreAnswer(r) \/ InsertQuestion(r)
             \/ WriteEdit(r) \/ CountAnswers(r) \/ WriteReorder(r)
      PROVE UNCHANGED answers
  BY <1>5
  DEF InsertSession, PickNext, OpenQuestion, WriteReveal, LoadEnd, WriteEnd,
      ScoreAnswer, InsertQuestion, WriteEdit, CountAnswers, WriteReorder
<1> QED
  BY <1>1, <1>2, <1>3, <1>4, <1>5 DEF Next, Step, Tick, vars

-----------------------------------------------------------------------------
(* The inductive invariant *)

\* Every request but a transition starts where Decided asks for nothing.
LEMMA StartedOther ==
    ASSUME TypeOK, NEW r \in Req, Arrive(r)
    PROVE  \/ \E s \in Session : NextQuestion(r, s) \/ RevealQuestion(r, s) \/ EndSession(r, s)
           \/ \E v : /\ req' = [req EXCEPT ![r] = v]
                     /\ v.pc \notin {"pick", "open", "reveal", "end"}
<1> USE DEF Begin
<1> DEFINE Goal == \E v : /\ req' = [req EXCEPT ![r] = v]
                          /\ v.pc \notin {"pick", "open", "reveal", "end"}
<1>1. ASSUME CreateSession(r) PROVE Goal
  <2>1. [Idle EXCEPT !.pc = "insertSession"].pc = "insertSession"
    BY DEF Idle
  <2> QED
    BY <1>1, <2>1 DEF CreateSession
<1>2. ASSUME CreateQuestion(r) PROVE Goal
  <2>1. \A n : [Idle EXCEPT !.pc = "insertQuestion", !.pos = n].pc = "insertQuestion"
    BY DEF Idle
  <2> QED
    BY <1>2, <2>1, CreationEffect
<1>3. ASSUME NEW q \in Question, EditQuestion(r, q) \/ DeleteQuestion(r, q) PROVE Goal
  <2>1. /\ [Idle EXCEPT !.pc = "edit", !.q = q].pc = "edit"
        /\ [Idle EXCEPT !.pc = "count", !.q = q].pc = "count"
    BY DEF Idle
  <2> QED
    BY <1>3, <2>1 DEF EditQuestion, DeleteQuestion
<1>4. ASSUME ReorderQuestions(r) PROVE Goal
  <2>1. \A o : [Idle EXCEPT !.pc = "reorder", !.order = o].pc = "reorder"
    BY DEF Idle
  <2> QED
    BY <1>4, <2>1 DEF ReorderQuestions
<1>5. ASSUME NEW m \in Member, NEW s \in Session, NEW q \in Question,
             SubmitAnswer(r, m, s, q)
      PROVE  Goal
  <2>1. [Idle EXCEPT !.pc = "score", !.s = s, !.q = q, !.member = m,
                     !.openedAt = sess[s].openedAt].pc = "score"
    BY DEF Idle
  <2> QED
    BY <1>5, <2>1 DEF SubmitAnswer
<1> QED
  BY <1>1, <1>2, <1>3, <1>4, <1>5 DEF Arrive

\* What a request's next state has to satisfy for Decided to be kept.
LEMMA DecidedMove ==
    ASSUME TypeOK, Decided, NEW r \in Req, NEW v,
           req' = [req EXCEPT ![r] = v],
           v.pc \in {"pick", "open"} => CanTransition(v.seen, "active"),
           v.pc = "reveal" => CanTransition(v.seen, "reveal"),
           v.pc = "end" => CanTransition(v.seen, "ended")
    PROVE  Decided'
<1>1. req'[r] = v /\ \A p \in Req \ {r} : req'[p] = req[p]
  BY Moves
<1> QED
  BY <1>1 DEF Decided, At

\* A request decides on the status it reads, and keeps it until it writes.
LEMMA DecidedStep == TypeOK /\ Decided /\ [Next]_vars => Decided'
<1> SUFFICES ASSUME TypeOK, Decided, [Next]_vars PROVE Decided'
  OBVIOUS
<1> USE DEF At, Begin, Done
<1>t. /\ req \in [Req -> Request] /\ \A s \in Session : sess[s].status \in Status
  BY DEF TypeOK, SessionRow
<1>i. Idle.pc = "idle"
  BY DEF Idle
<1>1. ASSUME NEW r \in Req, NEW s \in Session, NextQuestion(r, s) PROVE Decided'
  <2> DEFINE v == [Idle EXCEPT !.pc = "pick", !.s = s, !.seen = sess[s].status,
                               !.q = sess[s].current]
  <2>1. v.pc = "pick" /\ v.seen = sess[s].status
    BY DEF Idle
  <2>2. req' = [req EXCEPT ![r] = v] /\ CanTransition(sess[s].status, "active")
    BY <1>1 DEF NextQuestion
  <2> HIDE DEF v
  <2> QED
    BY <2>1, <2>2, DecidedMove
<1>2. ASSUME NEW r \in Req, NEW s \in Session, RevealQuestion(r, s) PROVE Decided'
  <2> DEFINE v == [Idle EXCEPT !.pc = "reveal", !.s = s, !.seen = sess[s].status]
  <2>1. v.pc = "reveal" /\ v.seen = sess[s].status
    BY DEF Idle
  <2>2. req' = [req EXCEPT ![r] = v] /\ CanTransition(sess[s].status, "reveal")
    BY <1>2 DEF RevealQuestion
  <2> HIDE DEF v
  <2> QED
    BY <2>1, <2>2, DecidedMove
<1>3. ASSUME NEW r \in Req, NEW s \in Session, EndSession(r, s) PROVE Decided'
  <2> DEFINE v == [Idle EXCEPT !.pc = "end", !.s = s, !.seen = sess[s].status]
  <2>1. v.pc = "end" /\ v.seen = sess[s].status
    BY DEF Idle
  <2>2. req' = [req EXCEPT ![r] = v] /\ CanTransition(sess[s].status, "ended")
    BY <1>3, <1>t DEF EndSession, Live, CanTransition, QuizTransitions
  <2> HIDE DEF v
  <2> QED
    BY <2>1, <2>2, DecidedMove
<1>4. ASSUME NEW r \in Req, PickNext(r) PROVE Decided'
  <2>1. req[r] \in Request /\ CanTransition(req[r].seen, "active")
    BY <1>4, <1>t DEF PickNext, Decided
  <2>2. CASE req' = [req EXCEPT ![r].pc = "endLoad"]
    <3>1. /\ req'[r].pc = "endLoad" /\ \A p \in Req \ {r} : req'[p] = req[p]
      BY <1>t, <2>2 DEF Request
    <3> QED
      BY <3>1 DEF Decided
  <2>3. ASSUME NEW n \in After(req[r].q),
               req' = [req EXCEPT ![r] = [@ EXCEPT !.pc = "open", !.q = n, !.at = now]]
        PROVE  Decided'
    <3> DEFINE v == [req[r] EXCEPT !.pc = "open", !.q = n, !.at = now]
    <3>1. v.pc = "open" /\ v.seen = req[r].seen
      BY <2>1 DEF Request
    <3>2. req' = [req EXCEPT ![r] = v]
      BY <2>3
    <3> HIDE DEF v
    <3> QED
      BY <2>1, <3>1, <3>2, DecidedMove
  <2> QED
    BY <1>4, <2>2, <2>3 DEF PickNext
<1>5. ASSUME NEW r \in Req, LoadEnd(r) PROVE Decided'
  <2> DEFINE v == [req[r] EXCEPT !.pc = "end", !.seen = sess[req[r].s].status]
  <2>1. req[r] \in Request
    BY <1>t
  <2>2. v.pc = "end" /\ v.seen = sess[req[r].s].status
    BY <2>1 DEF Request
  <2>3. \/ req' = [req EXCEPT ![r] = Idle]
        \/ req' = [req EXCEPT ![r] = v] /\ Live(req[r].s)
    BY <1>5 DEF LoadEnd
  <2>4. Live(req[r].s) => CanTransition(sess[req[r].s].status, "ended")
    BY DEF Live, CanTransition, QuizTransitions
  <2> HIDE DEF v
  <2> QED
    BY <1>i, <2>2, <2>3, <2>4, DecidedMove
<1>6. ASSUME NEW r \in Req, ScoreAnswer(r) \/ CountAnswers(r) PROVE Decided'
  <2>1. /\ req'[r].pc \in {"record", "delete", "idle"}
        /\ \A p \in Req \ {r} : req'[p] = req[p]
    <3>1. CASE ScoreAnswer(r)
      BY <3>1, ScoreAnswerEffect
    <3>2. CASE CountAnswers(r)
      BY <3>2, <1>t, <1>i DEF CountAnswers, Request
    <3> QED
      BY <1>6, <3>1, <3>2
  <2> QED
    BY <2>1 DEF Decided
<1>7. ASSUME NEW r \in Req,
             \/ InsertSession(r) \/ OpenQuestion(r) \/ WriteReveal(r) \/ WriteEnd(r)
             \/ RecordAnswer(r) \/ InsertQuestion(r) \/ WriteEdit(r)
             \/ WriteDelete(r) \/ WriteReorder(r)
      PROVE Decided'
  <2>1. req' = [req EXCEPT ![r] = Idle]
    BY <1>7
    DEF InsertSession, OpenQuestion, WriteReveal, WriteEnd, RecordAnswer,
        InsertQuestion, WriteEdit, WriteDelete, WriteReorder
  <2> QED
    BY <2>1, <1>i, DecidedMove
<1>8. ASSUME NEW r \in Req, Arrive(r) PROVE Decided'
  <2>1. CASE \E s \in Session : NextQuestion(r, s) \/ RevealQuestion(r, s) \/ EndSession(r, s)
    BY <1>1, <1>2, <1>3, <2>1
  <2>2. CASE \E v : req' = [req EXCEPT ![r] = v] /\ v.pc \notin {"pick", "open", "reveal", "end"}
    BY <2>2, DecidedMove
  <2> QED
    BY <1>8, <2>1, <2>2, StartedOther
<1>9. CASE Tick \/ UNCHANGED vars
  BY <1>9 DEF Tick, vars, Decided
<1> QED
  BY <1>4, <1>5, <1>6, <1>7, <1>8, <1>9 DEF Next, Step

\* Only four statements write the status of a session.
LEMMA StatusWritten ==
    ASSUME TypeOK, Next
    PROVE  \/ \A s \in Session : sess'[s].status = sess[s].status
           \/ \E r \in Req : InsertSession(r) \/ OpenQuestion(r) \/ WriteReveal(r) \/ WriteEnd(r)
<1>1. CASE Tick
  BY <1>1 DEF Tick
<1>2. ASSUME NEW r \in Req, Arrive(r) PROVE sess' = sess
  BY <1>2 DEF Arrive, CreateSession, NextQuestion, RevealQuestion, EndSession, SubmitAnswer,
             CreateQuestion, EditQuestion, DeleteQuestion, ReorderQuestions
<1>3. ASSUME NEW r \in Req,
             \/ PickNext(r) \/ LoadEnd(r) \/ ScoreAnswer(r) \/ RecordAnswer(r)
             \/ InsertQuestion(r) \/ WriteEdit(r) \/ CountAnswers(r) \/ WriteReorder(r)
      PROVE  sess' = sess
  BY <1>3 DEF PickNext, LoadEnd, ScoreAnswer, RecordAnswer, InsertQuestion, WriteEdit,
             CountAnswers, WriteReorder
<1>4. ASSUME NEW r \in Req, WriteDelete(r), NEW s \in Session
      PROVE  sess'[s].status = sess[s].status
  <2>1. sess[s] \in SessionRow
    BY DEF TypeOK
  <2>2. [sess[s] EXCEPT !.current = NoQuestion].status = sess[s].status
    BY <2>1 DEF SessionRow
  <2>3. sess'[s] = IF sess[s].current = req[r].q THEN [sess[s] EXCEPT !.current = NoQuestion]
                   ELSE sess[s]
    BY <1>4 DEF WriteDelete
  <2> QED
    BY <2>2, <2>3
<1> QED
  BY <1>1, <1>2, <1>3, <1>4 DEF Next, Step

\* At first there is no session, no answer and no request in progress.
LEMMA IInvInit == Init => IInv
<1> SUFFICES ASSUME Init PROVE IInv
  OBVIOUS
<1>1. TypeOK
  <2>1. [status |-> "none", current |-> NoQuestion, openedAt |-> Never] \in SessionRow
    BY DEF SessionRow, Status
  <2>2. [r \in Req |-> Idle] \in [Req -> Request]
    BY IdleType
  <2>3. \A q \in Question : q - 1 \in Int
    BY ConstantsAssumption DEF Question
  <2>4. 0 \in Time /\ InitBank \in 0..MaxQuestions
    BY ConstantsAssumption DEF Time
  <2> QED
    BY <2>1, <2>2, <2>3, <2>4 DEF Init, TypeOK
<1>2. FoundSession /\ Decided /\ StampedBefore /\ AnswersAnOpening
  BY DEF Init, FoundSession, Decided, StampedBefore, AnswersAnOpening, At, Idle
<1>3. OneLiveSession /\ ActiveWasOpened
  BY DEF Init, OneLiveSession, ActiveWasOpened, Live
<1>4. OneAnswer /\ AnsweredInTime
  BY DEF Init, OneAnswer, AnsweredInTime
<1> QED
  BY <1>1, <1>2, <1>3, <1>4 DEF IInv

\* Every step of a host, of a member and of the clock keeps the invariant.
LEMMA IInvStep == IInv /\ [Next]_vars => IInv'
  BY TypeStep, FoundStep, DecidedStep, LiveStep, AnswerStep, StampStep, OpenStep, AnsweringStep,
     WindowStep
  DEF IInv

\* The invariant that the runs check, for every value of the constants.
THEOREM Invariance == Spec => []IInv
  BY IInvInit, IInvStep, PTL DEF Spec

\* The rows keep their types.
THEOREM TypeCorrect == Spec => []TypeOK
<1>1. IInv => TypeOK
  BY DEF IInv
<1> QED
  BY <1>1, Invariance, PTL

\* An event never runs two sessions, whatever hosts do at the same time.
THEOREM NeverTwoSessions == Spec => []OneLiveSession
<1>1. IInv => OneLiveSession
  BY DEF IInv
<1> QED
  BY <1>1, Invariance, PTL

\* Nobody answers a question of a session twice, however often the answer is
\* sent.
THEOREM NeverTwoAnswers == Spec => []OneAnswer
<1>1. IInv => OneAnswer
  BY DEF IInv
<1> QED
  BY <1>1, Invariance, PTL

\* Whatever two hosts do, a status that does not follow from the one before is
\* written by a request that decided on a status another one has changed.
THEOREM TransitionsLostByRaceOnly == Spec => FollowsTransitionsByRaceOnly
<1>1. IInv /\ [Next]_vars => [LawfulOrOvertaken]_vars
  <2> SUFFICES ASSUME IInv, Next, NEW s \in Session,
                      sess'[s].status # sess[s].status,
                      ~CanTransition(sess[s].status, sess'[s].status)
               PROVE  \E r \in Req : /\ req[r].pc # "idle" /\ req'[r].pc = "idle"
                                     /\ req[r].s = s /\ req[r].seen # sess[s].status
    BY DEF LawfulOrOvertaken
  <2> USE DEF IInv, At, Done
  <2>t. req \in [Req -> Request] /\ sess \in [Session -> SessionRow] /\ Idle.pc = "idle"
    BY DEF TypeOK, Idle
  <2>1. ASSUME NEW r \in Req, InsertSession(r) PROVE FALSE
    <3>1. CASE sess' = sess
      BY <3>1
    <3>2. ASSUME NEW x \in Session, sess[x].status = "none",
                 sess' = [sess EXCEPT ![x].status = "pending"]
          PROVE  FALSE
      <4>1. s = x /\ sess'[s].status = "pending"
        BY <2>t, <3>2 DEF SessionRow
      <4> QED
        BY <3>2, <4>1 DEF CanTransition, QuizTransitions
    <3> QED
      BY <2>1, <3>1, <3>2 DEF InsertSession
  <2>2. ASSUME NEW r \in Req, NEW to, req[r].s = s, sess'[s].status = to,
               CanTransition(req[r].seen, to), ~At(r, "idle"), req' = [req EXCEPT ![r] = Idle]
        PROVE  req[r].pc # "idle" /\ req'[r].pc = "idle" /\ req[r].s = s /\ req[r].seen # sess[s].status
    BY <2>2, <2>t
  <2>3. ASSUME NEW r \in Req, OpenQuestion(r)
        PROVE  req[r].s = s /\ req[r].seen # sess[s].status /\ req[r].pc # "idle" /\ req'[r].pc = "idle"
    <3>1. sess' = [sess EXCEPT ![req[r].s] = [status |-> "active", current |-> req[r].q,
                                              openedAt |-> req[r].at]]
      BY <2>3 DEF OpenQuestion
    <3>2. req[r].s = s /\ sess'[s].status = "active"
      BY <2>t, <3>1
    <3>3. CanTransition(req[r].seen, "active")
      BY <2>3 DEF OpenQuestion, Decided
    <3> QED
      BY <2>2, <2>3, <3>2, <3>3 DEF OpenQuestion
  <2>4. ASSUME NEW r \in Req, WriteReveal(r)
        PROVE  req[r].s = s /\ req[r].seen # sess[s].status /\ req[r].pc # "idle" /\ req'[r].pc = "idle"
    <3>1. sess' = [sess EXCEPT ![req[r].s].status = "reveal"]
      BY <2>4 DEF WriteReveal
    <3>2. req[r].s = s /\ sess'[s].status = "reveal"
      BY <2>t, <3>1 DEF SessionRow
    <3>3. CanTransition(req[r].seen, "reveal")
      BY <2>4 DEF WriteReveal, Decided
    <3> QED
      BY <2>2, <2>4, <3>2, <3>3 DEF WriteReveal
  <2>5. ASSUME NEW r \in Req, WriteEnd(r)
        PROVE  req[r].s = s /\ req[r].seen # sess[s].status /\ req[r].pc # "idle" /\ req'[r].pc = "idle"
    <3> DEFINE row == [sess[req[r].s] EXCEPT !.status = "ended", !.current = NoQuestion]
    <3>1. req[r].s \in Session
      BY <2>5 DEF WriteEnd, FoundSession
    <3>2. row.status = "ended"
      BY <2>t, <3>1 DEF SessionRow
    <3>3. sess' = [sess EXCEPT ![req[r].s] = row]
      BY <2>5 DEF WriteEnd
    <3> HIDE DEF row
    <3>4. req[r].s = s /\ sess'[s].status = "ended"
      BY <2>t, <3>2, <3>3
    <3>5. CanTransition(req[r].seen, "ended")
      BY <2>5 DEF WriteEnd, Decided
    <3> QED
      BY <2>2, <2>5, <3>4, <3>5 DEF WriteEnd
  <2>6. \/ sess'[s].status = sess[s].status
        \/ \E r \in Req : InsertSession(r) \/ OpenQuestion(r) \/ WriteReveal(r) \/ WriteEnd(r)
    BY StatusWritten
  <2> QED
    BY <2>1, <2>3, <2>4, <2>5, <2>6
<1> QED
  BY <1>1, Invariance, PTL DEF Spec, FollowsTransitionsByRaceOnly

-----------------------------------------------------------------------------
(* One host at a time *)

\* Whoever moves, what another request has read is still so.
LEMMA OthersRead ==
    ASSUME \A p, t \in HostReq : p = t, \A p \in Req : HostReads(p),
           NEW r \in Req, \A p \in Req \ {r} : req'[p] = req[p],
           UNCHANGED <<sess, bank, sort, openings>> \/ r \in HostReq,
           NEW p \in Req \ {r}
    PROVE  HostReads(p)'
<1>1. CASE r \in HostReq
  <2>1. req'[p].pc \in {"idle", "score", "record"}
    BY <1>1 DEF HostReads
  <2> QED
    BY <2>1 DEF HostReads, At
<1>2. CASE UNCHANGED <<sess, bank, sort, openings>>
  BY <1>2 DEF HostReads, At, LiveCurrent, Live, Before
<1> QED
  BY <1>1, <1>2

\* A member's request does nothing to a session or to the bank.
LEMMA MembersAnswer ==
    ASSUME NEW r \in Req \ HostReq, HostReads(r), Arrive(r) \/ Step(r)
    PROVE  /\ UNCHANGED <<sess, bank, created, sort, openings>>
           /\ \/ \E m \in Member, s \in Session, q \in Question : SubmitAnswer(r, m, s, q)
              \/ ScoreAnswer(r)
              \/ RecordAnswer(r)
<1>1. CASE Arrive(r)
  BY <1>1 DEF Arrive, SubmitAnswer
<1>2. CASE Step(r)
  <2>1. ScoreAnswer(r) \/ RecordAnswer(r)
    BY <1>2 DEF HostReads, Step, At, InsertSession, PickNext, OpenQuestion, WriteReveal,
       LoadEnd, WriteEnd, InsertQuestion, WriteEdit, CountAnswers, WriteDelete, WriteReorder
  <2> QED
    BY <2>1 DEF ScoreAnswer, RecordAnswer
<1> QED
  BY <1>1, <1>2

\* What has been asked stays in order while sessions, bank and openings stay.
LEMMA OrderRests ==
    ASSUME AskedInOrder, UNCHANGED <<sess, bank, created, sort, openings>>
    PROVE  AskedInOrder'
  BY DEF AskedInOrder, Before

\* A step of the only host keeps what has been asked in order, and its reads.
LEMMA HostStep ==
    ASSUME {"reorder", "editOrder"} \cap Ops = {}, IInv, OneHostInv,
           NEW r \in HostReq, Arrive(r) \/ Step(r)
    PROVE  AskedInOrder' /\ HostReads(r)'
<1>0. /\ r \in Req /\ HostReads(r) /\ AskedInOrder
      /\ TypeOK /\ FoundSession /\ Decided
      /\ req[r] \in Request
  BY ConstantsAssumption DEF IInv, OneHostInv, TypeOK
<1>s. /\ \A s \in Session : sess[s] \in SessionRow
      /\ \A o \in openings : o.session \in Session /\ o.question \in Int
      /\ \A q \in bank : q \in Question /\ q \in Int /\ q <= created
      /\ \A q \in Question : sort[q] \in Int
      /\ created \in Nat /\ created + 1 > created
  BY <1>0, ConstantsAssumption DEF TypeOK, Opening, Question
\* Requests that have nothing to remember.
<1>a. ASSUME req'[r].pc \notin {"pick", "open", "reveal", "count", "delete", "reorder"}
      PROVE  HostReads(r)'
  BY <1>a DEF HostReads, At
<1>d. ASSUME Done(r) PROVE HostReads(r)'
  BY <1>0, <1>a, <1>d DEF Done, Idle, TypeOK
<1>b. ASSUME NEW v, Begin(r, v) PROVE req'[r] = v
  BY <1>0, <1>b DEF Begin, TypeOK
<1>c. ASSUME UNCHANGED <<sess, bank, created, sort, openings>>, HostReads(r)'
      PROVE  AskedInOrder' /\ HostReads(r)'
  BY <1>0, <1>c, OrderRests
<1> DEFINE Goal == AskedInOrder' /\ HostReads(r)'
<1>1. ASSUME NEW m \in Member, NEW s \in Session, NEW q \in Question, SubmitAnswer(r, m, s, q)
      PROVE  Goal
  <2>1. req'[r].pc = "score"
    BY <1>0, <1>1 DEF SubmitAnswer, Begin, Idle, TypeOK
  <2> QED
    BY <1>1, <1>a, <1>c, <2>1 DEF SubmitAnswer
<1>2. ASSUME CreateSession(r) PROVE Goal
  <2>1. req'[r].pc = "insertSession"
    BY <1>0, <1>2 DEF CreateSession, Begin, Idle, TypeOK
  <2> QED
    BY <1>2, <1>a, <1>c, <2>1 DEF CreateSession
<1>3. ASSUME NEW s \in Session, NextQuestion(r, s) PROVE Goal
  <2>1. /\ req'[r].pc = "pick" /\ req'[r].s = s
        /\ req'[r].seen = sess[s].status /\ req'[r].q = sess[s].current
    BY <1>0, <1>3 DEF NextQuestion, Begin, Idle, TypeOK
  <2>2. UNCHANGED <<sess, bank, created, sort, openings>>
    BY <1>3 DEF NextQuestion
  <2> QED
    BY <1>c, <2>1, <2>2 DEF HostReads, At
<1>4. ASSUME NEW s \in Session, RevealQuestion(r, s) PROVE Goal
  <2>1. req'[r].pc = "reveal" /\ req'[r].s = s /\ req'[r].seen = sess[s].status
    BY <1>0, <1>4 DEF RevealQuestion, Begin, Idle, TypeOK
  <2>2. UNCHANGED <<sess, bank, created, sort, openings>>
    BY <1>4 DEF RevealQuestion
  <2> QED
    BY <1>c, <2>1, <2>2 DEF HostReads, At
<1>5. ASSUME NEW s \in Session, EndSession(r, s) PROVE Goal
  <2>1. req'[r].pc = "end"
    BY <1>0, <1>5 DEF EndSession, Begin, Idle, TypeOK
  <2> QED
    BY <1>5, <1>a, <1>c, <2>1 DEF EndSession
<1>6. ASSUME CreateQuestion(r) PROVE Goal
  <2>1. PICK pos \in Int : /\ req' = [req EXCEPT ![r] = [Idle EXCEPT !.pc = "insertQuestion",
                                                                    !.pos = pos]]
                           /\ UNCHANGED <<sess, bank, created, sort, openings>>
    BY <1>0, <1>6, CreationEffect
  <2>2. req'[r].pc = "insertQuestion"
    BY <1>0, <2>1 DEF Idle, TypeOK
  <2> QED
    BY <1>a, <1>c, <2>1, <2>2
<1>7. ASSUME NEW q \in Question, EditQuestion(r, q) PROVE Goal
  <2>1. req'[r].pc = "edit"
    BY <1>0, <1>7 DEF EditQuestion, Begin, Idle, TypeOK
  <2> QED
    BY <1>7, <1>a, <1>c, <2>1 DEF EditQuestion
<1>8. ASSUME NEW q \in Question, DeleteQuestion(r, q) PROVE Goal
  <2>1. req'[r].pc = "count" /\ req'[r].q = q
    BY <1>0, <1>8 DEF DeleteQuestion, Begin, Idle, TypeOK
  <2>2. UNCHANGED <<sess, bank, created, sort, openings>> /\ ~LiveCurrent(q)
    BY <1>8 DEF DeleteQuestion
  <2> QED
    BY <1>c, <2>1, <2>2 DEF HostReads, At, LiveCurrent, Live
<1>9. ~ReorderQuestions(r)
  BY DEF ReorderQuestions
<1>10. ASSUME InsertSession(r) PROVE Goal
  <2>1. UNCHANGED <<bank, created, sort, openings>> /\ HostReads(r)'
    BY <1>10, <1>d DEF InsertSession
  <2>2. \A s \in Session : sess[s].status # "none" => sess'[s] = sess[s]
    <3>1. CASE UNCHANGED sess
      BY <3>1
    <3>2. ASSUME NEW t \in Session, sess[t].status = "none",
                 sess' = [sess EXCEPT ![t].status = "pending"]
          PROVE  \A s \in Session : sess[s].status # "none" => sess'[s] = sess[s]
      <4>1. \A s \in Session \ {t} : sess'[s] = sess[s]
        BY <1>0, <3>2 DEF TypeOK
      <4> QED
        BY <3>2, <4>1
    <3> QED
      BY <1>10, <3>1, <3>2 DEF InsertSession
  <2>3. \A o \in openings : sess'[o.session] = sess[o.session]
    BY <1>0, <1>s, <2>2 DEF AskedInOrder
  <2> QED
    BY <1>0, <2>1, <2>3 DEF AskedInOrder, Before
<1>11. ASSUME PickNext(r) PROVE Goal
  <2> DEFINE s == req[r].s
             c == sess[s].current
  <2>0. /\ req[r].pc = "pick" /\ UNCHANGED <<sess, bank, created, sort, openings>>
        /\ sess[s].status = req[r].seen /\ req[r].q = c /\ s \in Session
        /\ sess[s].status \in {"pending", "reveal"}
    <3>1. /\ req[r].pc = "pick" /\ UNCHANGED <<sess, bank, created, sort, openings>>
          /\ sess[s].status = req[r].seen /\ req[r].q = c /\ s \in Session
      BY <1>0, <1>11 DEF PickNext, At, HostReads, FoundSession
    <3>2. CanTransition(req[r].seen, "active") /\ req[r].seen \in Status
      BY <1>0, <3>1 DEF Decided, Request
    <3>3. req[r].seen \in {"pending", "reveal"}
      BY <3>2 DEF CanTransition, QuizTransitions, Status
    <3> QED
      BY <3>1, <3>3
  <2>1. CASE req' = [req EXCEPT ![r].pc = "endLoad"]
    <3>1. req'[r].pc = "endLoad"
      BY <1>0, <2>1 DEF TypeOK, Request
    <3> QED
      BY <1>a, <1>c, <2>0, <3>1
  <2>2. ASSUME NEW next \in After(c),
               req' = [req EXCEPT ![r] = [@ EXCEPT !.pc = "open", !.q = next, !.at = now]]
        PROVE  Goal
    <3>1. /\ req'[r].pc = "open" /\ req'[r].q = next /\ req'[r].s = s
          /\ req'[r].seen = req[r].seen
      BY <1>0, <2>2 DEF TypeOK, Request
    <3>2. ASSUME NEW o \in openings, o.session = s, o.question \in bank
          PROVE  Before(o.question, next)
      <4>1. c \in bank /\ (o.question = c \/ Before(o.question, c))
        BY <1>0, <2>0, <3>2 DEF AskedInOrder
      <4>2. Before(c, next) /\ next \in bank
        BY <2>2, <4>1 DEF After
      <4>3. /\ sort[o.question] \in Int /\ sort[c] \in Int /\ sort[next] \in Int
            /\ o.question \in Int /\ c \in Int /\ next \in Int
        BY <1>s, <3>2, <4>1, <4>2
      <4> HIDE DEF c, s
      <4> QED
        BY <4>1, <4>2, <4>3 DEF Before
    <3>3. HostReads(r)'
      BY <2>0, <3>1, <3>2 DEF HostReads, At, Before
    <3> QED
      BY <1>c, <2>0, <3>3
  <2> QED
    BY <1>11, <2>0, <2>1, <2>2 DEF PickNext
<1>12. ASSUME OpenQuestion(r) PROVE Goal
  <2> DEFINE s == req[r].s
             q == req[r].q
  <2>0. /\ req[r].pc = "open" /\ UNCHANGED <<bank, created, sort>> /\ s \in Session
        /\ HostReads(r)'
    BY <1>0, <1>12, <1>d DEF OpenQuestion, At, FoundSession
  <2>1. CASE UNCHANGED <<sess, openings>>
    BY <1>c, <2>0, <2>1
  <2>2. CASE /\ q \in bank
             /\ sess' = [sess EXCEPT ![s] =
                           [status |-> "active", current |-> q, openedAt |-> req[r].at]]
             /\ openings' = openings \cup
                  {[session |-> s, question |-> q, at |-> req[r].at, limit |-> limit[q]]}
    <3>1. /\ sess'[s].status = "active" /\ sess'[s].current = q
          /\ \A t \in Session \ {s} : sess'[t] = sess[t]
      BY <1>0, <2>0, <2>2 DEF TypeOK
    <3>2. \A o \in openings : o.session = s /\ o.question \in bank => Before(o.question, q)
      BY <1>0, <2>0 DEF HostReads, At
    <3>3. ASSUME NEW o \in openings'
          PROVE  /\ o.question <= created
                 /\ sess'[o.session].status \notin {"none", "pending"}
                 /\ sess'[o.session].status # "ended" =>
                      /\ sess'[o.session].current \in bank
                      /\ o.question \in bank \ {sess'[o.session].current}
                         => Before(o.question, sess'[o.session].current)
      <4>1. CASE o \in openings /\ o.session # s
        BY <1>0, <1>s, <3>1, <4>1 DEF AskedInOrder
      <4>2. CASE o \in openings /\ o.session = s
        BY <1>0, <2>2, <3>1, <3>2, <4>2 DEF AskedInOrder
      <4>3. CASE o.session = s /\ o.question = q
        BY <1>s, <2>2, <3>1, <4>3
      <4> QED
        BY <2>2, <4>1, <4>2, <4>3
    <3> QED
      BY <2>0, <3>3 DEF AskedInOrder, Before
  <2> QED
    BY <1>12, <2>1, <2>2 DEF OpenQuestion
<1>13. ASSUME WriteReveal(r) PROVE Goal
  <2> DEFINE s == req[r].s
  <2>0. /\ req[r].pc = "reveal" /\ UNCHANGED <<bank, created, sort, openings>>
        /\ s \in Session /\ HostReads(r)'
        /\ sess[s].status = "active"
    BY <1>0, <1>13, <1>d DEF WriteReveal, At, FoundSession, HostReads, Decided,
       CanTransition, QuizTransitions, Request, Status
  <2>1. CASE UNCHANGED sess
    BY <1>c, <2>0, <2>1
  <2>2. CASE sess' = [sess EXCEPT ![s].status = "reveal"]
    <3>1. /\ sess'[s].status = "reveal" /\ sess'[s].current = sess[s].current
          /\ \A t \in Session \ {s} : sess'[t] = sess[t]
      BY <1>0, <1>s, <2>0, <2>2 DEF TypeOK, SessionRow
    <3> QED
      BY <1>0, <1>s, <2>0, <3>1 DEF AskedInOrder, Before
  <2> QED
    BY <1>13, <2>1, <2>2 DEF WriteReveal
<1>14. ASSUME LoadEnd(r) PROVE Goal
  <2>1. req'[r].pc \in {"end", "idle"}
    BY <1>0, <1>14, LoadEndEffect
  <2> QED
    BY <1>14, <1>a, <1>c, <2>1 DEF LoadEnd
<1>15. ASSUME WriteEnd(r) PROVE Goal
  <2> DEFINE s == req[r].s
             row == [sess[s] EXCEPT !.status = "ended", !.current = NoQuestion]
  <2>1. /\ s \in Session /\ sess' = [sess EXCEPT ![s] = row]
        /\ UNCHANGED <<bank, created, sort, openings>> /\ HostReads(r)'
    BY <1>0, <1>15, <1>d DEF WriteEnd, At, FoundSession
  <2>2. row.status = "ended"
    BY <1>s, <2>1 DEF SessionRow
  <2> HIDE DEF row
  <2>3. sess'[s].status = "ended" /\ \A t \in Session \ {s} : sess'[t] = sess[t]
    BY <1>0, <2>1, <2>2 DEF TypeOK
  <2> QED
    BY <1>0, <1>s, <2>1, <2>3 DEF AskedInOrder, Before
<1>16. ASSUME ScoreAnswer(r) PROVE Goal
  <2>1. req'[r].pc \in {"record", "idle"}
    BY <1>0, <1>16, ScoreAnswerEffect
  <2> QED
    BY <1>16, <1>a, <1>c, <2>1 DEF ScoreAnswer
<1>17. ASSUME RecordAnswer(r) PROVE Goal
  BY <1>17, <1>c, <1>d DEF RecordAnswer
<1>22. ASSUME WriteEdit(r) PROVE Goal
  <2>1. sort' = sort
    BY <1>0, <1>22 DEF WriteEdit, TypeOK
  <2> QED
    BY <1>22, <1>c, <1>d, <2>1 DEF WriteEdit
<1>18. ASSUME InsertQuestion(r) PROVE Goal
  <2>0. HostReads(r)' /\ UNCHANGED <<sess, openings>>
    BY <1>18, <1>d DEF InsertQuestion
  <2>1. CASE UNCHANGED <<created, bank, sort>>
    BY <1>c, <2>0, <2>1
  <2>2. CASE /\ created' = created + 1 /\ bank' = bank \cup {created + 1}
             /\ sort' = [sort EXCEPT ![created + 1] = req[r].pos]
    <3>1. \A q \in Question : q <= created => sort'[q] = sort[q]
      BY <1>0, <1>s, <2>2, ConstantsAssumption DEF TypeOK, Question
    <3>2. \A p, q \in bank : Before(p, q)' = Before(p, q)
      BY <1>s, <3>1 DEF Before
    <3>3. \A q \in Int : q <= created => q <= created' /\ (q \in bank' => q \in bank)
      BY <1>s, <2>2
    <3> QED
      BY <1>0, <1>s, <2>0, <2>2, <3>2, <3>3 DEF AskedInOrder
  <2> QED
    BY <1>18, <2>1, <2>2 DEF InsertQuestion
<1>19. ASSUME CountAnswers(r) PROVE Goal
  <2>0. req[r].pc = "count" /\ UNCHANGED <<sess, bank, created, sort, openings>>
    BY <1>19 DEF CountAnswers, At
  <2>1. CASE Done(r)
    BY <1>c, <1>d, <2>0, <2>1
  <2>2. CASE req' = [req EXCEPT ![r].pc = "delete"]
    <3>1. req'[r].pc = "delete" /\ req'[r].q = req[r].q
      BY <1>0, <2>2 DEF TypeOK, Request
    <3>2. ~LiveCurrent(req[r].q)
      BY <1>0, <2>0 DEF HostReads
    <3> QED
      BY <1>c, <2>0, <3>1, <3>2 DEF HostReads, At, LiveCurrent, Live
  <2> QED
    BY <1>19, <2>1, <2>2 DEF CountAnswers
<1>20. ASSUME WriteDelete(r) PROVE Goal
  <2> DEFINE q == req[r].q
  <2>0. /\ HostReads(r)' /\ UNCHANGED <<created, sort>>
        /\ bank' = bank \ {q} /\ openings' = openings
        /\ ~LiveCurrent(q)
    BY <1>0, <1>20, <1>d DEF WriteDelete, HostReads, At
  <2>1. \A s \in Session : /\ sess'[s].status = sess[s].status
                           /\ sess[s].current # q => sess'[s] = sess[s]
    BY <1>s, <1>20 DEF WriteDelete, SessionRow
  <2>2. ASSUME NEW o \in openings, sess[o.session].status # "ended"
        PROVE  sess'[o.session] = sess[o.session] /\ sess[o.session].current # q
    <3>1. sess[o.session].status \in {"active", "reveal"} /\ o.session \in Session
      BY <1>0, <1>s, <2>2 DEF AskedInOrder, SessionRow, Status
    <3> QED
      BY <2>0, <2>1, <3>1 DEF LiveCurrent, Live
  <2> QED
    BY <1>0, <1>s, <2>0, <2>1, <2>2 DEF AskedInOrder, Before
<1>21. ~WriteReorder(r)
  BY <1>0 DEF WriteReorder, HostReads
<1> QED
  BY <1>1, <1>2, <1>3, <1>4, <1>5, <1>6, <1>7, <1>8, <1>9, <1>10, <1>11, <1>12, <1>13,
     <1>14, <1>15, <1>16, <1>17, <1>18, <1>19, <1>20, <1>21, <1>22 DEF Arrive, Step

\* What a step leaves of the requests that do not move.
LEMMA OthersStay ==
    ASSUME TypeOK, NEW r \in Req, Arrive(r) \/ Step(r)
    PROVE  \A p \in Req \ {r} : req'[p] = req[p]
<1> USE DEF TypeOK, Begin, Done
<1>1. CASE Arrive(r)
  BY <1>1 DEF Arrive, CreateSession, NextQuestion, RevealQuestion, EndSession, SubmitAnswer,
     CreateQuestion, EditQuestion, DeleteQuestion, ReorderQuestions
<1>2. CASE Step(r)
  BY <1>2 DEF Step, InsertSession, PickNext, OpenQuestion, WriteReveal, LoadEnd, WriteEnd,
     ScoreAnswer, RecordAnswer, InsertQuestion, WriteEdit, CountAnswers, WriteDelete,
     WriteReorder
<1> QED
  BY <1>1, <1>2

\* With one host, who keeps the order of the bank, every step keeps what has been
\* asked in order.
LEMMA OneHostStep ==
    ASSUME \A p, r \in HostReq : p = r, {"reorder", "editOrder"} \cap Ops = {},
           IInv, OneHostInv, [Next]_vars
    PROVE  OneHostInv'
<1>0. TypeOK /\ AskedInOrder /\ \A p \in Req : HostReads(p)
  BY DEF IInv, OneHostInv
<1>1. CASE UNCHANGED <<sess, bank, created, sort, req, openings>>
  BY <1>0, <1>1 DEF OneHostInv, AskedInOrder, HostReads, At, LiveCurrent, Live, Before
<1>2. ASSUME NEW r \in HostReq, Arrive(r) \/ Step(r) PROVE OneHostInv'
  <2>1. r \in Req
    BY ConstantsAssumption
  <2>2. AskedInOrder' /\ HostReads(r)'
    BY <1>2, HostStep
  <2>3. \A p \in Req \ {r} : HostReads(p)'
    BY <1>0, <1>2, <2>1, OthersStay, OthersRead
  <2> QED
    BY <2>2, <2>3 DEF OneHostInv
<1>3. ASSUME NEW r \in Req \ HostReq, Arrive(r) \/ Step(r) PROVE OneHostInv'
  <2>1. /\ UNCHANGED <<sess, bank, created, sort, openings>>
        /\ \/ \E m \in Member, s \in Session, q \in Question : SubmitAnswer(r, m, s, q)
           \/ ScoreAnswer(r)
           \/ RecordAnswer(r)
    BY <1>0, <1>3, MembersAnswer
  <2>2. \A p \in Req \ {r} : HostReads(p)'
    BY <1>0, <1>3, <2>1, OthersStay, OthersRead
  <2>3. req'[r].pc \in {"idle", "score", "record"}
    <3>1. CASE \E m \in Member, s \in Session, q \in Question : SubmitAnswer(r, m, s, q)
      BY <1>0, <3>1 DEF SubmitAnswer, Begin, Idle, TypeOK
    <3>2. CASE ScoreAnswer(r)
      BY <1>0, <3>2, ScoreAnswerEffect
    <3>3. CASE RecordAnswer(r)
      BY <1>0, <3>3 DEF RecordAnswer, Done, Idle, TypeOK
    <3> QED
      BY <2>1, <3>1, <3>2, <3>3
  <2>4. HostReads(r)'
    BY <2>3 DEF HostReads, At
  <2>5. AskedInOrder'
    BY <1>0, <2>1, OrderRests
  <2> QED
    BY <2>2, <2>4, <2>5 DEF OneHostInv
<1>4. Next => UNCHANGED <<sess, bank, created, sort, req, openings>>
              \/ \E r \in Req : Arrive(r) \/ Step(r)
  BY DEF Next, Tick
<1> QED
  BY <1>1, <1>2, <1>3, <1>4 DEF vars

\* At first nothing has been asked.
LEMMA OneHostInit == Init => OneHostInv
  BY DEF Init, OneHostInv, AskedInOrder, HostReads, At, Idle

\* With one host at a time, who never reorders the bank, a session asks no
\* question twice, although the bank grows and shrinks while it runs
\* (nextQuestion goes by the place of the current question in the bank).
THEOREM NoQuestionTwice ==
    ASSUME \A p, r \in HostReq : p = r, {"reorder", "editOrder"} \cap Ops = {}
    PROVE  Spec => NeverAskedTwice
<1>1. ASSUME IInv, OneHostInv, [Next]_vars, NEW o \in openings' \ openings,
             NEW p \in openings, p.session = o.session
      PROVE  p.question # o.question
  <2>0. TypeOK /\ \A r \in Req : HostReads(r)
    BY <1>1 DEF IInv, OneHostInv
  <2>1. PICK r \in Req : OpenQuestion(r)
    <3>1. ASSUME NEW r \in Req, Arrive(r) PROVE UNCHANGED openings
      BY <3>1 DEF Arrive, CreateSession, NextQuestion, RevealQuestion, EndSession,
         SubmitAnswer, CreateQuestion, EditQuestion, DeleteQuestion, ReorderQuestions
    <3>2. ASSUME NEW r \in Req, Step(r), ~OpenQuestion(r) PROVE UNCHANGED openings
      BY <3>2 DEF Step, InsertSession, PickNext, WriteReveal, LoadEnd, WriteEnd, ScoreAnswer,
         RecordAnswer, InsertQuestion, WriteEdit, CountAnswers, WriteDelete, WriteReorder
    <3> QED
      BY <1>1, <3>1, <3>2 DEF Next, Tick, vars
  <2>2. /\ o.session = req[r].s /\ o.question = req[r].q /\ req[r].q \in bank
        /\ req[r].pc = "open"
    BY <1>1, <2>1 DEF OpenQuestion, At
  <2>3. p.question \in bank => Before(p.question, o.question)
    <3>1. \A x \in openings : x.session = req[r].s /\ x.question \in bank
                             => Before(x.question, req[r].q)
      BY <2>0, <2>1, <2>2 DEF HostReads, At
    <3> QED
      BY <1>1, <2>2, <3>1
  <2>4. o.question \in Int /\ sort[o.question] \in Int
    <3>1. \A q \in bank : q \in Question /\ q \in Int
      BY <2>0, ConstantsAssumption DEF TypeOK, Question
    <3>2. \A q \in Question : sort[q] \in Int
      BY <2>0 DEF TypeOK
    <3> QED
      BY <2>2, <3>1, <3>2
  <2> QED
    BY <2>2, <2>3, <2>4 DEF Before
<1>2. IInv /\ OneHostInv /\ [Next]_vars =>
        \A o \in openings' \ openings :
          \A p \in openings : p.session = o.session => p.question # o.question
  BY <1>1
<1>3. IInv /\ OneHostInv /\ [Next]_vars => OneHostInv'
  BY OneHostStep
<1> QED
  BY <1>2, <1>3, OneHostInit, Invariance, PTL DEF Spec, NeverAskedTwice

-----------------------------------------------------------------------------
(* One host at a time: the limit of a question while it is open *)

\* What a request in progress goes on to.
LEMMA GoesOn ==
    ASSUME TypeOK, NEW r \in Req, Step(r)
    PROVE  /\ req'[r].pc \in {"idle", "open", "endLoad", "end", "record", "delete"}
           /\ req'[r].pc = "record" => ScoreAnswer(r)
<1>t. req \in [Req -> Request] /\ req[r] \in Request /\ Idle.pc = "idle"
  BY DEF TypeOK, Idle
<1>1. ASSUME PickNext(r) PROVE req'[r].pc \in {"open", "endLoad"}
  <2>1. CASE req' = [req EXCEPT ![r].pc = "endLoad"]
    BY <1>t, <2>1 DEF Request
  <2>2. ASSUME NEW n \in After(req[r].q),
               req' = [req EXCEPT ![r] = [@ EXCEPT !.pc = "open", !.q = n, !.at = now]]
        PROVE  req'[r].pc = "open"
    BY <1>t, <2>2 DEF Request
  <2> QED
    BY <1>1, <2>1, <2>2 DEF PickNext
<1>2. ASSUME CountAnswers(r) PROVE req'[r].pc \in {"idle", "delete"}
  BY <1>2, <1>t DEF CountAnswers, Done, Request
<1>3. ASSUME \/ InsertSession(r) \/ OpenQuestion(r) \/ WriteReveal(r) \/ WriteEnd(r)
             \/ RecordAnswer(r) \/ InsertQuestion(r) \/ WriteEdit(r)
             \/ WriteDelete(r) \/ WriteReorder(r)
      PROVE  req'[r].pc = "idle"
  <2>1. req' = [req EXCEPT ![r] = Idle]
    BY <1>3
    DEF InsertSession, OpenQuestion, WriteReveal, WriteEnd, RecordAnswer,
        InsertQuestion, WriteEdit, WriteDelete, WriteReorder, Done
  <2> QED
    BY <1>t, <2>1
<1> QED
  BY <1>1, <1>2, <1>3, LoadEndEffect, ScoreAnswerEffect DEF Step

\* A member's request does nothing but answer.
LEMMA MemberMoves ==
    ASSUME TypeOK, NEW r \in Req \ HostReq, req[r].pc \in {"idle", "score", "record"},
           Arrive(r) \/ Step(r)
    PROVE  /\ req'[r].pc \in {"idle", "score", "record"}
           /\ UNCHANGED sess
<1>1. CASE Arrive(r)
  <2>1. PICK m \in Member, s \in Session, q \in Question : SubmitAnswer(r, m, s, q)
    BY <1>1 DEF Arrive
  <2>2. [Idle EXCEPT !.pc = "score", !.s = s, !.q = q, !.member = m,
                     !.openedAt = sess[s].openedAt].pc = "score"
    BY DEF Idle
  <2> QED
    BY <2>1, <2>2, Moves DEF SubmitAnswer, Begin
<1>2. CASE Step(r)
  <2>1. ScoreAnswer(r) \/ RecordAnswer(r)
    BY <1>2 DEF Step, At, InsertSession, PickNext, OpenQuestion, WriteReveal,
       LoadEnd, WriteEnd, InsertQuestion, WriteEdit, CountAnswers, WriteDelete, WriteReorder
  <2>2. CASE ScoreAnswer(r)
    BY <2>2, ScoreAnswerEffect DEF ScoreAnswer
  <2>3. CASE RecordAnswer(r)
    BY <2>3 DEF RecordAnswer, Done, Idle, TypeOK
  <2> QED
    BY <2>1, <2>2, <2>3
<1> QED
  BY <1>1, <1>2

\* The limit of an open question only moves with a new opening.
LEMMA OpenLimitStep ==
    ASSUME IInv, LimitHeld, NEW r \in Req, Arrive(r) \/ Step(r),
           NEW s \in Session, sess'[s].status = "active", sess'[s].current # NoQuestion
    PROVE  \E o \in openings' : /\ OpenedAt(o, s, sess'[s].current, sess'[s].openedAt)
                                /\ o.limit = limit'[sess'[s].current]
<1>0. TypeOK /\ FoundSession /\ StampedBefore /\ openings \subseteq openings'
  <2>1. [Next]_vars
    BY DEF Next
  <2> QED
    BY <2>1, OpeningsGrow DEF IInv
<1>1. ASSUME sess'[s] = sess[s], limit'[sess[s].current] = limit[sess[s].current]
      PROVE  \E o \in openings' : /\ OpenedAt(o, s, sess'[s].current, sess'[s].openedAt)
                                  /\ o.limit = limit'[sess'[s].current]
  BY <1>0, <1>1 DEF LimitHeld
<1>2. ASSUME OpenQuestion(r)
      PROVE  \E o \in openings' : /\ OpenedAt(o, s, sess'[s].current, sess'[s].openedAt)
                                  /\ o.limit = limit'[sess'[s].current]
  <2> DEFINE x == req[r].s
             q == req[r].q
             o == [session |-> x, question |-> q, at |-> req[r].at, limit |-> limit[q]]
  <2>1. x \in Session /\ limit' = limit
    BY <1>0, <1>2 DEF OpenQuestion, FoundSession, At
  <2>2. CASE sess' = sess
    BY <1>1, <2>1, <2>2
  <2>3. CASE /\ sess' = [sess EXCEPT ![x] = [status |-> "active", current |-> q,
                                            openedAt |-> req[r].at]]
             /\ openings' = openings \cup {o}
    <3>1. CASE s # x
      BY <1>0, <1>1, <2>1, <2>3, <3>1 DEF TypeOK
    <3>2. CASE s = x
      <4>1. sess'[s].current = q /\ sess'[s].openedAt = req[r].at
        BY <1>0, <2>1, <2>3, <3>2 DEF TypeOK
      <4>2. OpenedAt(o, s, q, req[r].at) /\ o.limit = limit[q] /\ o \in openings'
        BY <2>3, <3>2 DEF OpenedAt
      <4> HIDE DEF o, q, x
      <4> QED
        BY <2>1, <4>1, <4>2
    <3> QED
      BY <3>1, <3>2
  <2> QED
    BY <1>2, <2>2, <2>3 DEF OpenQuestion
<1>3. ASSUME InsertSession(r) \/ WriteReveal(r) \/ WriteEnd(r) \/ WriteDelete(r)
      PROVE  sess'[s] = sess[s] /\ limit' = limit
  <2>1. sess'[s] = sess[s]
    BY <1>0, <1>3, StaysActive
  <2>2. limit' = limit
    BY <1>3 DEF InsertSession, WriteReveal, WriteEnd, WriteDelete
  <2> QED
    BY <2>1, <2>2
<1>4. ASSUME WriteEdit(r)
      PROVE  sess'[s] = sess[s] /\ limit'[sess[s].current] = limit[sess[s].current]
  <2>1. UNCHANGED sess /\ ~LiveCurrent(req[r].q)
    BY <1>4 DEF WriteEdit, LimitHeld
  <2>2. sess[s].current # req[r].q
    BY <2>1 DEF LiveCurrent, Live
  <2>3. limit'[sess[s].current] = limit[sess[s].current]
    <3>1. CASE limit' = limit
      BY <3>1
    <3>2. ASSUME NEW ticks, limit' = [limit EXCEPT ![req[r].q] = ticks]
          PROVE  limit'[sess[s].current] = limit[sess[s].current]
      <4>1. sess[s].current \in Question
        BY <1>0, <2>1 DEF TypeOK, SessionRow
      <4> QED
        BY <1>0, <2>2, <3>2, <4>1 DEF TypeOK
    <3> QED
      BY <1>4, <3>1, <3>2 DEF WriteEdit
  <2> QED
    BY <2>1, <2>3
<1>5. ASSUME \/ PickNext(r) \/ LoadEnd(r) \/ ScoreAnswer(r) \/ RecordAnswer(r)
             \/ InsertQuestion(r) \/ CountAnswers(r) \/ WriteReorder(r)
      PROVE  UNCHANGED <<sess, limit>>
  BY <1>5 DEF PickNext, LoadEnd, ScoreAnswer, RecordAnswer, InsertQuestion, CountAnswers,
     WriteReorder
<1>6. ASSUME Arrive(r) PROVE UNCHANGED <<sess, limit>>
  BY <1>6 DEF Arrive, CreateSession, NextQuestion, RevealQuestion, EndSession, SubmitAnswer,
     CreateQuestion, EditQuestion, DeleteQuestion, ReorderQuestions
<1> QED
  BY <1>1, <1>2, <1>3, <1>4, <1>5, <1>6 DEF Step

\* An answer scored while its question is open is held against the limit of the
\* opening it measures from.
LEMMA ScoredLimit ==
    ASSUME IInv, LimitHeld, NEW r \in Req, ScoreAnswer(r),
           req'[r].pc = "record", ~req'[r].closed
    PROVE  \E o \in openings : /\ OpenedAt(o, req'[r].s, req'[r].q, req'[r].openedAt)
                               /\ o.limit = req'[r].limit
<1> DEFINE s == req[r].s
           q == req[r].q
           l == limit[q]
           c == ~OpenAt(s, q, req[r].openedAt)
<1>0. /\ TypeOK /\ req[r] \in Request /\ s \in Session
  BY DEF IInv, TypeOK, FoundSession, ScoreAnswer, At
<1>1. /\ q \in bank
      /\ req' = [req EXCEPT ![r] = [@ EXCEPT !.pc = "record", !.limit = l,
                                            !.closed = c, !.at = now]]
  <2>1. ~Done(r)
    BY <1>0 DEF Done, Idle, TypeOK
  <2> QED
    BY <2>1 DEF ScoreAnswer
<1> HIDE DEF l, c
<1>2. /\ req'[r].s = s /\ req'[r].q = q /\ req'[r].openedAt = req[r].openedAt
      /\ req'[r].limit = l /\ req'[r].closed = c
  BY <1>0, <1>1 DEF TypeOK, Request
<1>3. sess[s].status = "active" /\ sess[s].current = q /\ sess[s].openedAt = req[r].openedAt
  <2>1. ~c
    BY <1>2, Zenon
  <2>2. OpenAt(s, q, req[r].openedAt)
    BY <2>1 DEF c
  <2> QED
    BY <2>2 DEF OpenAt
<1>4. q # NoQuestion
  BY <1>0, <1>1, ConstantsAssumption DEF TypeOK, NoQuestion
<1> QED
  BY <1>0, <1>2, <1>3, <1>4 DEF LimitHeld, l

\* With one host, every step keeps the limit of what is open.
LEMMA LimitStep ==
    ASSUME \A p, r \in HostReq : p = r, IInv, LimitHeld, [Next]_vars
    PROVE  LimitHeld'
<1>0. /\ TypeOK /\ AnswersAnOpening /\ StampedBefore
      /\ openings \subseteq openings'
  BY OpeningsGrow DEF IInv
<1>1. CASE UNCHANGED <<sess, limit, req, answers, openings>>
  BY <1>1 DEF LimitHeld, At, LiveCurrent, Live, OpenedAt, AnsweredInAWindow, TimedFrom
<1>2. ASSUME NEW r \in Req, Arrive(r) \/ Step(r) PROVE LimitHeld'
  <2>0. \A p \in Req \ {r} : req'[p] = req[p]
    BY <1>0, <1>2, OthersStay
  <2>1. \A p \in Req \ HostReq : req'[p].pc \in {"idle", "score", "record"}
    BY <1>0, <1>2, <2>0, MemberMoves DEF LimitHeld
  <2>2. ASSUME NEW p \in Req, req'[p].pc = "edit" PROVE ~LiveCurrent(req[p].q)'
    <3>1. CASE r \in HostReq
      <4>1. p = r
        BY <2>1, <2>2, <3>1
      <4>2. ~Step(r)
        BY <1>0, <2>2, <4>1, GoesOn
      <4>3. ~LiveCurrent(req'[r].q) /\ UNCHANGED sess
        <5>1. ~LiveCurrent(req'[r].q)
          BY <1>0, <1>2, <2>2, <4>1, <4>2, Started, Moves
        <5>2. UNCHANGED sess
          BY <1>2, <4>2 DEF Arrive, CreateSession, NextQuestion, RevealQuestion, EndSession,
             SubmitAnswer, CreateQuestion, EditQuestion, DeleteQuestion, ReorderQuestions
        <5> QED
          BY <5>1, <5>2
      <4> QED
        BY <4>1, <4>3 DEF LiveCurrent, Live
    <3>2. CASE r \notin HostReq
      <4>1. UNCHANGED sess /\ req'[r].pc # "edit"
        BY <1>0, <1>2, <3>2, MemberMoves DEF LimitHeld
      <4>2. p # r /\ req'[p] = req[p]
        BY <2>0, <2>2, <4>1
      <4> QED
        BY <2>2, <4>1, <4>2 DEF LimitHeld, At, LiveCurrent, Live
    <3> QED
      BY <3>1, <3>2
  <2>3. ASSUME NEW s \in Session, sess'[s].status = "active", sess'[s].current # NoQuestion
        PROVE  \E o \in openings' : /\ OpenedAt(o, s, sess'[s].current, sess'[s].openedAt)
                                    /\ o.limit = limit'[sess'[s].current]
    BY <1>2, <2>3, OpenLimitStep
  <2>4. ASSUME NEW p \in Req, req'[p].pc = "record", ~req'[p].closed
        PROVE  \E o \in openings' : /\ OpenedAt(o, req'[p].s, req'[p].q, req'[p].openedAt)
                                    /\ o.limit = req'[p].limit
    <3>1. CASE p # r
      BY <1>0, <2>0, <2>4, <3>1 DEF LimitHeld, At
    <3>2. CASE p = r
      <4>1. ScoreAnswer(r)
        <5>1. Arrive(r) => req'[r].pc # "record"
          BY <1>0, Started, Moves
        <5> QED
          BY <1>0, <1>2, <2>4, <3>2, <5>1, GoesOn
      <4> QED
        BY <1>0, <2>4, <3>2, <4>1, ScoredLimit
    <3> QED
      BY <3>1, <3>2
  <2>5. AnsweredInAWindow'
    <3>1. ASSUME RecordAnswer(r) PROVE AnsweredInAWindow'
      <4> DEFINE new == [session |-> req[r].s, question |-> req[r].q, member |-> req[r].member,
                         at |-> req[r].at, limit |-> req[r].limit, closed |-> req[r].closed]
      <4>1. PICK o \in openings : /\ OpenedAt(o, req[r].s, req[r].q, req[r].openedAt)
                                  /\ req[r].closed \/ o.limit = req[r].limit
        BY <1>0, <3>1 DEF RecordAnswer, At, AnswersAnOpening, LimitHeld
      <4>2. req[r].at - req[r].openedAt \in 0..req[r].limit
        BY <1>0, <3>1 DEF RecordAnswer, At, AnswersAnOpening
      <4>3. TimedFrom(new, o) /\ (new.closed \/ new.limit = o.limit)
        BY <4>1, <4>2 DEF OpenedAt, TimedFrom
      <4>4. \A a \in answers' : a \in answers \/ a = new
        BY <3>1 DEF RecordAnswer
      <4> HIDE DEF new
      <4> QED
        BY <1>0, <4>1, <4>3, <4>4 DEF AnsweredInAWindow, LimitHeld
    <3>2. CASE answers' \subseteq answers
      BY <1>0, <3>2 DEF AnsweredInAWindow, LimitHeld
    <3>3. ASSUME Step(r), ~RecordAnswer(r) PROVE answers' \subseteq answers
      BY <3>3
      DEF Step, InsertSession, PickNext, OpenQuestion, WriteReveal, LoadEnd, WriteEnd,
          ScoreAnswer, InsertQuestion, WriteEdit, CountAnswers, WriteDelete, WriteReorder
    <3>4. ASSUME Arrive(r) PROVE answers' = answers
      BY <3>4 DEF Arrive, CreateSession, NextQuestion, RevealQuestion, EndSession,
         SubmitAnswer, CreateQuestion, EditQuestion, DeleteQuestion, ReorderQuestions
    <3> QED
      BY <1>2, <3>1, <3>2, <3>3, <3>4
  <2> QED
    BY <2>1, <2>2, <2>3, <2>4, <2>5 DEF LimitHeld, At
<1> QED
  BY <1>1, <1>2 DEF Next, Tick, vars

\* At first nothing is open and nothing is answered.
LEMMA LimitInit == Init => LimitHeld
  BY DEF Init, LimitHeld, At, Idle, AnsweredInAWindow

\* With one host at a time, every answer was timed within the limit its question was
\* opened with, unless it was scored after the question had been closed: what the
\* refusal to edit a live question (editQuestion) is for.
THEOREM NeverLate ==
    ASSUME \A p, r \in HostReq : p = r
    PROVE  Spec => []AnsweredInAWindow
<1>1. IInv /\ LimitHeld /\ [Next]_vars => LimitHeld'
  BY LimitStep
<1>2. LimitHeld => AnsweredInAWindow
  BY DEF LimitHeld
<1> QED
  BY <1>1, <1>2, LimitInit, Invariance, PTL DEF Spec
=============================================================================
